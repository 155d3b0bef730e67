--------------------------- MODULE MCGameLibrary ---------------------------
(* Small instances of GameLibrary for TLC: the second build replaces the     *)
(* first under its version, the third has a version of its own.              *)
EXTENDS GameLibraryProps

MCVersionOf == [b \in Builds |-> IF b = 3 THEN 2 ELSE 1]
MCChunksOf  == [b \in Builds |-> IF b = 2 THEN 1 ELSE 2]
=============================================================================
