----------------------------- MODULE MCAutoLog -----------------------------
(* A small instance of AutoLog for TLC.                                      *)
EXTENDS AutoLogProps
=============================================================================
