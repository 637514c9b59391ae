---------------------------- MODULE MCVolumeCopy ----------------------------
(***************************************************************************)
(* Selections of two and three sources.  "Mixed" puts a folder that asks,  *)
(* a plain file and a file that asks on the driver behind one another;     *)
(* "folders" are two deep merges that ask at the same time.                *)
(***************************************************************************)
EXTENDS VolumeCopy

MCMixed == <<"folder", "file", "clash">>
MCClashes == <<"folder", "clash">>
MCFolders == <<"folder", "folder">>
MCFiles == <<"file", "file">>
MCTwo == 1..2
MCThree == 1..3
=============================================================================
