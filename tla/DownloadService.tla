-------------------------- MODULE DownloadService --------------------------
(***************************************************************************)
(* What a token of the download pool is good for, without slots, threads   *)
(* or a queue: it is offered once, and then either opens one transfer on   *)
(* one connection or is withdrawn for good.                                *)
(***************************************************************************)
CONSTANTS Tokens, Conns, NoToken

VARIABLES
    issued,     \* tokens drawn so far
    valid,      \* those among them that open a transfer
    opened      \* the token that each connection opened its transfer with

vars == <<issued, valid, opened>>

Init ==
    /\ issued = {}
    /\ valid = {}
    /\ opened = [c \in Conns |-> NoToken]

Offer(t) ==
    /\ t \in Tokens \ issued
    /\ issued' = issued \cup {t}
    /\ valid' = valid \cup {t}
    /\ UNCHANGED opened

Refuse(t) ==
    /\ t \in Tokens \ issued
    /\ issued' = issued \cup {t}
    /\ UNCHANGED <<valid, opened>>

Withdraw(t) ==
    /\ t \in valid
    /\ valid' = valid \ {t}
    /\ UNCHANGED <<issued, opened>>

Open(c, t) ==
    /\ t \in valid
    /\ opened[c] = NoToken
    /\ valid' = valid \ {t}
    /\ opened' = [opened EXCEPT ![c] = t]
    /\ UNCHANGED issued

Next ==
    \/ \E t \in Tokens : Offer(t) \/ Refuse(t) \/ Withdraw(t)
    \/ \E c \in Conns, t \in Tokens : Open(c, t)

Spec == Init /\ [][Next]_vars
=============================================================================
