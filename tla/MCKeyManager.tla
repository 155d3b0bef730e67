---------------------------- MODULE MCKeyManager ----------------------------
(* Small instances of KeyManager for TLC.                                    *)
EXTENDS KeyManagerProps, TLC

Symmetry == Permutations(MKs)
=============================================================================
