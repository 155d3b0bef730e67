------------------------------ MODULE ChatLog ------------------------------
(***************************************************************************)
(* What the chat history promises: one log of everything that was said, in *)
(* whatever room.  Every entry has a number above all that were there      *)
(* before it, which is the order of the log, and nothing in it is ever     *)
(* changed or lost, whoever leaves and however often the server is started *)
(* again.                                                                  *)
(***************************************************************************)
EXTENDS Naturals

CONSTANTS Entries       \* records with a field id

VARIABLE log

Init == log = {}

Say(e) ==
    /\ \A l \in log : l.id < e.id
    /\ log' = log \cup {e}

Next == \E e \in Entries : Say(e)

Spec == Init /\ [][Next]_log
=============================================================================
