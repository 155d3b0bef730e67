--------------------------- MODULE MCChatHistory ---------------------------
(* Small instances of ChatHistory for TLC: each session is a user.           *)
EXTENDS ChatHistoryProps

MCUidOf  == [c \in Clients |-> c]
Symmetry == Permutations(Clients)
=============================================================================
