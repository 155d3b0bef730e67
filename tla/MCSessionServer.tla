--------------------------- MODULE MCSessionServer ---------------------------
(* Small instances of SessionServer for TLC.                                  *)
EXTENDS SessionServerProps

Symmetry == Permutations(Clients) \cup Permutations(Uids)
            \cup Permutations(RoomIds) \cup Permutations(GameRoomIds)
=============================================================================
