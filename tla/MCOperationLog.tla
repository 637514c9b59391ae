--------------------------- MODULE MCOperationLog ---------------------------
(***************************************************************************)
(* A file in a folder, and beside it a folder in that folder with a second *)
(* file: two pages of two rows, the deeper folder recorded after the outer.*)
(***************************************************************************)
EXTENDS OperationLog

MCFiles == {1, 2}
MCDirs == {3, 4}
MCInside == [d \in MCDirs |-> IF d = 3 THEN {1, 4} ELSE {2}]
MCInverses == {1, 2}
=============================================================================
