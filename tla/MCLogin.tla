---------------------------- MODULE MCLogin ----------------------------
(* Login on a small instance for TLC.                                      *)
EXTENDS LoginProps, TLC

Symmetry == Permutations(Names \ Enrolled) \cup Permutations(Uids) \cup Permutations(Secrets)
=============================================================================
