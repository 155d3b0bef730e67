----------------------------- MODULE MCGameLobby -----------------------------
(* GameLobby on a small instance for TLC.                                     *)
EXTENDS GameLobbyProps

Symmetry == Permutations(Clients) \cup Permutations(Uids)
            \cup Permutations(GameRoomIds)
=============================================================================
