--------------------------- MODULE MCDownloadPool ---------------------------
(* Small instances of DownloadPool for TLC.                                  *)
EXTENDS DownloadPoolProps

Symmetry == Permutations(Tokens) \cup Permutations(Conns)
            \cup Permutations(Workers)
=============================================================================
