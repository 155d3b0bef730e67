--------------------------- MODULE KeyManagerProps ---------------------------
(***************************************************************************)
(* The properties of KeyManager.                                           *)
(***************************************************************************)
EXTENDS KeyManager

(* keyManager.c:185-197: whatever crashes there were, all envelopes in       *)
(* ServerDB are wrapped by one master key.  With two, no master key would    *)
(* open the server ever again.                                               *)
OneGeneration ==
    \A j, k \in Keys :
        envelopes[j] # NoMK /\ envelopes[k] # NoMK => envelopes[j] = envelopes[k]

(* server.c:145-175: once a server was launched, its master key is with the  *)
(* administrator and opens all envelopes and all databases from then on: no  *)
(* later start, crash or read error of ServerDB regenerates a key or removes *)
(* a database.                                                               *)
LaunchedStaysOpenable ==
    ran # NoMK => /\ ran \in known
                  /\ \A k \in Keys : envelopes[k] = ran
                  /\ \A d \in Dbs : dbKey[d] = ran

(* keyManager.c:272-286, server.c:177-213: a server that runs or is opening  *)
(* its databases does so with the keys of all its envelopes: with no zero key *)
(* that nobody has put there, and none of another master key.                *)
UnlockedByEnvelopes ==
    phase \in {"removing", "opening", "running"} => Complete /\ loaded = envelopes

(* The envelopes of an unfinished first run: those before the next one.      *)
StoredInOrder ==
    /\ phase = "generating"
         => \A k \in Keys : envelopes[k] = IF k < next THEN mk ELSE NoMK
    /\ \A k \in Keys : envelopes[k] # NoMK => envelopes[DEK] # NoMK
    /\ phase = "initPage" => \A k \in Keys : envelopes[k] = mk

(* The databases that are open.                                              *)
OpenedInOrder ==
    /\ phase = "opening" => \A d \in Dbs : d < next => dbKey[d] = loaded[d]
    /\ phase \in {"removing", "opening", "running"}
         => loaded[DEK] \in known /\ \A k \in Keys : loaded[k] = loaded[DEK]

(* Keys are fresh, and files removed, before the first launch only.          *)
FreshBeforeLaunch ==
    /\ freshKeysGenerated /\ phase # "running" => ran = NoMK
    /\ phase \in {"generating", "initPage"} => ran = NoMK
    /\ phase = "removing" => freshKeysGenerated
    /\ phase \in {"down", "init", "generating"} => ~freshKeysGenerated
    /\ \A k \in Keys : envelopes[k] \in drawn \cup {NoMK}
    /\ mk \in drawn \cup {NoMK}

(* What every step preserves, and the proofs are about.                      *)
IInv ==
    /\ TypeOK
    /\ OneGeneration
    /\ LaunchedStaysOpenable
    /\ UnlockedByEnvelopes
    /\ StoredInOrder
    /\ OpenedInOrder
    /\ FreshBeforeLaunch

=============================================================================
