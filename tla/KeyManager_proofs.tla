------------------------- MODULE KeyManager_proofs -------------------------
(***************************************************************************)
(* Proofs about KeyManager: its invariant, for any number of keys and of   *)
(* master keys.                                                            *)
(***************************************************************************)
EXTENDS KeyManagerProps, TLAPS

(* keyManager.c, server.c: the keys are numbered, and the DEK is the first.  *)
LEMMA KeyNumbers ==
    /\ DEK \in Keys /\ DEK \notin Dbs
    /\ \A d \in Dbs : d \in Keys /\ d # DEK
    /\ \A k \in Keys : k \in Nat /\ k >= 1 /\ k <= KeyCount
    /\ Keys \subseteq 1..(KeyCount + 1)
BY KeyManagerAssumption DEF Keys, Dbs, DEK

(* keyManager.c:228: the envelopes that a master key opens are all of them   *)
(* exactly if it wraps all of them.                                          *)
LEMMA AllDecrypted ==
    ASSUME NEW m
    PROVE  Decrypted(m) = Keys <=> \A k \in Keys : envelopes[k] = m
<1>1. ASSUME Decrypted(m) = Keys, NEW k \in Keys  PROVE envelopes[k] = m
  <2>1. \A j \in 1..k : envelopes[j] = m
    BY <1>1 DEF Decrypted
  <2>2. k \in 1..k
    BY KeyNumbers
  <2> QED BY <2>1, <2>2
<1>2. ASSUME \A k \in Keys : envelopes[k] = m  PROVE Decrypted(m) = Keys
  <2>1. \A k \in Keys : 1..k \subseteq Keys
    BY KeyManagerAssumption DEF Keys
  <2> QED BY <1>2, <2>1 DEF Decrypted
<1> QED BY <1>1, <1>2

(* server.c:126: where every process begins to count.                        *)
LEMMA FirstNumber == 1 \in 1..(KeyCount + 1)
BY KeyManagerAssumption

(* server.c:126: an empty ServerDB, with or without old databases.           *)
LEMMA InitOK == Init => IInv
<1> SUFFICES ASSUME Init PROVE IInv
  OBVIOUS
<1> USE KeyManagerAssumption, KeyNumbers DEF Init
<1>1. TypeOK
  <2>1. next \in 1..(KeyCount + 1)
    BY FirstNumber
  <2>2. /\ envelopes \in [Keys -> MKs \cup {NoMK}]
        /\ loaded \in [Keys -> MKs \cup {NoMK}]
        /\ dbKey \in [Dbs -> MKs \cup {OldMK, NoFile}]
    OBVIOUS
  <2>3. drawn \subseteq MKs /\ known \subseteq drawn
    OBVIOUS
  <2>4. mk # NoMK <=> phase \in {"generating", "initPage"}
    OBVIOUS
  <2> QED BY <2>1, <2>2, <2>3, <2>4 DEF TypeOK, Phases
<1>2. OneGeneration /\ LaunchedStaysOpenable /\ UnlockedByEnvelopes
  BY DEF OneGeneration, LaunchedStaysOpenable, UnlockedByEnvelopes
<1>3. StoredInOrder
  BY DEF StoredInOrder
<1>4. OpenedInOrder
  BY DEF OpenedInOrder
<1>5. FreshBeforeLaunch
  BY DEF FreshBeforeLaunch
<1> QED BY <1>1, <1>2, <1>3, <1>4, <1>5 DEF IInv

(* server.c:126, 161, 380: the process starts, shows the start page, ends.   *)
LEMMA PhaseStepsOK ==
    ASSUME IInv,
           Start \/ Confirm \/ Stop \/ \E readable \in BOOLEAN : LaterRun(readable)
    PROVE  IInv'
<1> USE KeyManagerAssumption DEF IInv, disk, people, memory
<1>1. ASSUME Start \/ \E readable \in BOOLEAN : LaterRun(readable)  PROVE IInv'
  <2>1. /\ phase \in {"down", "init"} /\ phase' \in {"init", "startPage"}
        /\ phase' = "init" => phase = "down"
        /\ UNCHANGED <<envelopes, dbKey, drawn, known, ran, next, mk,
                       freshKeysGenerated, loaded>>
    BY <1>1 DEF Start, LaterRun
  <2>2. TypeOK'
    BY <2>1 DEF TypeOK, Phases
  <2>3. OneGeneration' /\ LaunchedStaysOpenable' /\ UnlockedByEnvelopes'
    BY <2>1 DEF OneGeneration, LaunchedStaysOpenable, UnlockedByEnvelopes
  <2>4. StoredInOrder' /\ OpenedInOrder'
    BY <2>1 DEF StoredInOrder, OpenedInOrder
  <2>5. FreshBeforeLaunch'
    BY <2>1 DEF FreshBeforeLaunch
  <2> QED BY <2>2, <2>3, <2>4, <2>5
<1>2. ASSUME Confirm  PROVE IInv'
  <2>1. /\ phase = "initPage" /\ phase' = "startPage"
        /\ known' = known \cup {mk} /\ mk' = NoMK /\ mk \in drawn
        /\ UNCHANGED <<envelopes, dbKey, drawn, ran, next, freshKeysGenerated,
                       loaded>>
    BY <1>2 DEF Confirm, TypeOK, FreshBeforeLaunch
  <2>2. TypeOK'
    BY <2>1 DEF TypeOK, Phases
  <2>3. OneGeneration' /\ LaunchedStaysOpenable' /\ UnlockedByEnvelopes'
    BY <2>1 DEF OneGeneration, LaunchedStaysOpenable, UnlockedByEnvelopes
  <2>4. StoredInOrder' /\ OpenedInOrder'
    BY <2>1 DEF StoredInOrder, OpenedInOrder
  <2>5. FreshBeforeLaunch'
    BY <2>1 DEF FreshBeforeLaunch
  <2> QED BY <2>2, <2>3, <2>4, <2>5
<1>3. ASSUME Stop  PROVE IInv'
  <2>1. /\ phase' = "down" /\ next' = 1 /\ mk' = NoMK
        /\ freshKeysGenerated' = FALSE
        /\ loaded' = [k \in Keys |-> NoMK]
        /\ UNCHANGED <<envelopes, dbKey, drawn, known, ran>>
    BY <1>3 DEF Stop
  <2>2. TypeOK'
    <3>1. next' \in 1..(KeyCount + 1)
      BY <2>1, FirstNumber
    <3>2. loaded' \in [Keys -> MKs \cup {NoMK}]
      BY <2>1
    <3>3. mk' # NoMK <=> phase' \in {"generating", "initPage"}
      BY <2>1
    <3> QED BY <2>1, <3>1, <3>2, <3>3 DEF TypeOK, Phases
  <2>3. OneGeneration' /\ LaunchedStaysOpenable' /\ UnlockedByEnvelopes'
    BY <2>1 DEF OneGeneration, LaunchedStaysOpenable, UnlockedByEnvelopes
  <2>4. StoredInOrder' /\ OpenedInOrder'
    BY <2>1 DEF StoredInOrder, OpenedInOrder
  <2>5. FreshBeforeLaunch'
    BY <2>1 DEF FreshBeforeLaunch
  <2> QED BY <2>2, <2>3, <2>4, <2>5
<1> QED BY <1>1, <1>2, <1>3

(* keyManager.c:169: nothing is generated once a server was launched, and    *)
(* what is stored has one master key, whatever was stored before.            *)
LEMMA GenerateOK ==
    ASSUME IInv, FirstRun \/ StoreKey \/ KeysStored
    PROVE  IInv'
<1> USE KeyManagerAssumption, KeyNumbers DEF IInv, disk, people, memory
<1>1. ASSUME FirstRun  PROVE IInv'
  <2>1. PICK m \in MKs \ drawn : mk' = m /\ drawn' = drawn \cup {m}
    BY <1>1 DEF FirstRun
  <2>2. /\ phase = "init" /\ phase' = "generating" /\ next' = DEK
        /\ envelopes[DEK] = NoMK
        /\ UNCHANGED <<envelopes, dbKey, known, ran, freshKeysGenerated, loaded>>
    BY <1>1 DEF FirstRun
  <2>3. \A k \in Keys : envelopes[k] = NoMK
    BY <2>2 DEF StoredInOrder, TypeOK
  <2>4. ran = NoMK
    BY <2>2 DEF LaunchedStaysOpenable
  <2>5. TypeOK'
    BY <2>1, <2>2 DEF TypeOK, Phases
  <2>6. OneGeneration' /\ LaunchedStaysOpenable' /\ UnlockedByEnvelopes'
    BY <2>2, <2>4 DEF OneGeneration, LaunchedStaysOpenable, UnlockedByEnvelopes
  <2>7. StoredInOrder'
    BY <2>1, <2>2, <2>3 DEF StoredInOrder, DEK
  <2>8. OpenedInOrder'
    BY <2>2 DEF OpenedInOrder
  <2>9. FreshBeforeLaunch'
    BY <2>1, <2>2, <2>4 DEF FreshBeforeLaunch
  <2> QED BY <2>5, <2>6, <2>7, <2>8, <2>9
<1>2. ASSUME StoreKey  PROVE IInv'
  <2>1. /\ phase = "generating" /\ next \in Keys /\ mk \in MKs
        /\ envelopes' = [envelopes EXCEPT ![next] = mk]
        /\ next' = next + 1
        /\ UNCHANGED <<dbKey, drawn, known, ran, phase, mk, freshKeysGenerated,
                       loaded>>
    BY <1>2 DEF StoreKey, TypeOK, Keys
  <2>2. /\ envelopes' \in [Keys -> MKs \cup {NoMK}]
        /\ envelopes'[next] = mk
        /\ \A k \in Keys : k # next => envelopes'[k] = envelopes[k]
    BY <2>1 DEF TypeOK
  <2>3. \A k \in Keys : envelopes[k] = IF k < next THEN mk ELSE NoMK
    BY <2>1 DEF StoredInOrder
  <2>4. ran = NoMK
    BY <2>1 DEF FreshBeforeLaunch
  <2>5. TypeOK'
    BY <2>1, <2>2 DEF TypeOK, Keys
  <2>7. \A k \in Keys : envelopes[k] \in {NoMK, mk}
    BY <2>3
  <2>8. OneGeneration'
    BY <2>1, <2>2, <2>7 DEF OneGeneration
  <2>9. LaunchedStaysOpenable' /\ UnlockedByEnvelopes'
    BY <2>1, <2>4 DEF LaunchedStaysOpenable, UnlockedByEnvelopes
  <2>10. StoredInOrder'
    <3>1. \A k \in Keys : envelopes'[k] = IF k < next + 1 THEN mk ELSE NoMK
      BY <2>1, <2>2, <2>3 DEF Keys
    <3>2. envelopes'[DEK] # NoMK
      BY <2>1, <3>1, DEK < next + 1 DEF DEK, Keys
    <3> QED BY <2>1, <3>1, <3>2 DEF StoredInOrder
  <2>11. OpenedInOrder'
    BY <2>1 DEF OpenedInOrder
  <2>12. FreshBeforeLaunch'
    BY <2>1, <2>2 DEF FreshBeforeLaunch
  <2> QED BY <2>5, <2>8, <2>9, <2>10, <2>11, <2>12
<1>3. ASSUME KeysStored  PROVE IInv'
  <2>1. /\ phase = "generating" /\ next > KeyCount /\ phase' = "initPage"
        /\ freshKeysGenerated' = TRUE
        /\ UNCHANGED <<envelopes, dbKey, drawn, known, ran, next, mk, loaded>>
    BY <1>3 DEF KeysStored
  <2>2. TypeOK'
    BY <2>1 DEF TypeOK, Phases
  <2>3. OneGeneration' /\ LaunchedStaysOpenable' /\ UnlockedByEnvelopes'
    BY <2>1 DEF OneGeneration, LaunchedStaysOpenable, UnlockedByEnvelopes
  <2>4. \A k \in Keys : k < next
    BY <2>1 DEF TypeOK, Keys
  <2>5. StoredInOrder'
    BY <2>1, <2>4 DEF StoredInOrder
  <2>6. OpenedInOrder' /\ FreshBeforeLaunch'
    BY <2>1 DEF OpenedInOrder, FreshBeforeLaunch
  <2> QED BY <2>2, <2>3, <2>5, <2>6
<1> QED BY <1>1, <1>2, <1>3

(* keyManager.c:228: the right master key loads all keys; a wrong one loads  *)
(* some at most and does not leave the start page.                           *)
LEMMA UnlockOK ==
    ASSUME IInv, NEW m \in known \cup {OldMK}, Unlock(m)
    PROVE  IInv'
<1> USE KeyManagerAssumption, KeyNumbers DEF IInv, disk, people, memory
<1>1. /\ phase = "startPage" /\ Complete
      /\ loaded' = [k \in Keys |-> IF k \in Decrypted(m) THEN m ELSE loaded[k]]
      /\ UNCHANGED <<envelopes, dbKey, drawn, known, ran, mk, freshKeysGenerated>>
  BY DEF Unlock, TypeOK
<1>2. loaded' \in [Keys -> MKs \cup {NoMK}]
  <2>1. ASSUME NEW k \in Keys, k \in Decrypted(m)  PROVE m \in MKs \cup {NoMK}
    <3>1. envelopes[k] = m
      BY <2>1, k \in 1..k DEF Decrypted
    <3> QED BY <3>1 DEF TypeOK
  <2> QED BY <1>1, <2>1 DEF TypeOK
<1>3. CASE Decrypted(m) = Keys
  <2>1. /\ \A k \in Keys : envelopes[k] = m /\ loaded'[k] = m
        /\ next' = DEK + 1
        /\ phase' = IF freshKeysGenerated THEN "removing" ELSE "opening"
    BY <1>1, <1>3, AllDecrypted DEF Unlock
  <2>0. m \in known
    BY <1>1, <2>1 DEF Complete, TypeOK
  <2>2. TypeOK'
    BY <1>1, <1>2, <2>1 DEF TypeOK, Phases, DEK
  <2>3. OneGeneration' /\ LaunchedStaysOpenable'
    BY <1>1 DEF OneGeneration, LaunchedStaysOpenable
  <2>4. UnlockedByEnvelopes'
    BY <1>1, <1>2, <2>1 DEF UnlockedByEnvelopes, Complete, TypeOK
  <2>5. StoredInOrder'
    BY <1>1, <2>1 DEF StoredInOrder
  <2>6. OpenedInOrder'
    <3>1. \A d \in Dbs : ~(d < next')
      BY <2>1 DEF Dbs, DEK
    <3> QED BY <1>1, <2>0, <2>1, <3>1 DEF OpenedInOrder
  <2>7. FreshBeforeLaunch'
    BY <1>1, <2>1 DEF FreshBeforeLaunch
  <2> QED BY <2>2, <2>3, <2>4, <2>5, <2>6, <2>7
<1>4. CASE Decrypted(m) # Keys
  <2>1. UNCHANGED <<phase, next>>
    BY <1>4 DEF Unlock
  <2>2. TypeOK'
    BY <1>1, <1>2, <2>1 DEF TypeOK
  <2>3. /\ OneGeneration' /\ LaunchedStaysOpenable' /\ UnlockedByEnvelopes'
        /\ StoredInOrder' /\ OpenedInOrder' /\ FreshBeforeLaunch'
    BY <1>1, <2>1 DEF OneGeneration, LaunchedStaysOpenable, UnlockedByEnvelopes,
       StoredInOrder, OpenedInOrder, FreshBeforeLaunch
  <2> QED BY <2>2, <2>3
<1> QED BY <1>3, <1>4

(* server.c:168: a launch removes databases only before the first launch of  *)
(* all, and opens them with the loaded keys.                                 *)
LEMMA LaunchOK ==
    ASSUME IInv, RemoveDb \/ Removed \/ OpenDb \/ Launched
    PROVE  IInv'
<1> USE KeyManagerAssumption, KeyNumbers DEF IInv, disk, people, memory
<1>1. ASSUME RemoveDb \/ OpenDb  PROVE IInv'
  <2>1. /\ phase \in {"removing", "opening"} /\ next <= KeyCount
        /\ next' = next + 1
        /\ UNCHANGED <<envelopes, drawn, known, ran, phase, mk,
                       freshKeysGenerated, loaded>>
    BY <1>1 DEF RemoveDb, OpenDb
  <2>2. PICK v \in MKs \cup {OldMK, NoFile} :
          /\ dbKey' = [dbKey EXCEPT ![next] = v]
          /\ phase = "opening" => v = loaded[next]
    <3>1. loaded[DEK] \in MKs /\ \A k \in Keys : loaded[k] = loaded[DEK]
      BY <2>1 DEF OpenedInOrder, TypeOK
    <3>2. next \in Keys
      BY <2>1 DEF TypeOK, Keys
    <3> QED BY <1>1, <3>1, <3>2 DEF RemoveDb, OpenDb
  <2>3. /\ dbKey' \in [Dbs -> MKs \cup {OldMK, NoFile}]
        /\ \A d \in Dbs : dbKey'[d] = IF d = next THEN v ELSE dbKey[d]
    BY <2>2 DEF TypeOK
  <2>4. TypeOK'
    BY <2>1, <2>3 DEF TypeOK
  <2>5. phase = "removing" => ran = NoMK
    BY <2>1 DEF FreshBeforeLaunch
  <2>6. ran # NoMK => /\ ran \in known
                      /\ \A k \in Keys : envelopes[k] = ran
                      /\ \A d \in Dbs : dbKey[d] = ran
    BY DEF LaunchedStaysOpenable
  <2>7. loaded = envelopes
    BY <2>1 DEF UnlockedByEnvelopes
  <2>8. LaunchedStaysOpenable'
    <3>1. ASSUME ran # NoMK, NEW d \in Dbs  PROVE dbKey'[d] = ran
      BY <2>1, <2>2, <2>3, <2>5, <2>6, <2>7, <3>1
    <3> QED BY <2>1, <2>6, <3>1 DEF LaunchedStaysOpenable
  <2>9. OneGeneration' /\ UnlockedByEnvelopes' /\ StoredInOrder'
        /\ FreshBeforeLaunch'
    BY <2>1 DEF OneGeneration, UnlockedByEnvelopes, StoredInOrder,
                FreshBeforeLaunch, Complete
  <2>10. OpenedInOrder'
    <3>1. ASSUME phase = "opening", NEW d \in Dbs, d < next'
          PROVE  dbKey'[d] = loaded[d]
      <4>1. d = next \/ d < next
        BY <2>1, <3>1 DEF TypeOK, Dbs
      <4> QED BY <2>2, <2>3, <3>1, <4>1 DEF OpenedInOrder
    <3> QED BY <2>1, <3>1 DEF OpenedInOrder
  <2> QED BY <2>4, <2>8, <2>9, <2>10
<1>2. ASSUME Removed  PROVE IInv'
  <2>1. /\ phase = "removing" /\ phase' = "opening" /\ next' = DEK + 1
        /\ UNCHANGED <<envelopes, dbKey, drawn, known, ran, mk,
                       freshKeysGenerated, loaded>>
    BY <1>2 DEF Removed
  <2>2. TypeOK'
    BY <2>1 DEF TypeOK, Phases, DEK
  <2>3. \A d \in Dbs : ~(d < next')
    BY <2>1 DEF Dbs, DEK
  <2>4. OpenedInOrder'
    BY <2>1, <2>3 DEF OpenedInOrder
  <2>5. /\ OneGeneration' /\ LaunchedStaysOpenable' /\ UnlockedByEnvelopes'
        /\ StoredInOrder' /\ FreshBeforeLaunch'
    BY <2>1 DEF OneGeneration, LaunchedStaysOpenable, UnlockedByEnvelopes,
       StoredInOrder, FreshBeforeLaunch, Complete
  <2> QED BY <2>2, <2>4, <2>5
<1>3. ASSUME Launched  PROVE IInv'
  <2>1. /\ phase = "opening" /\ phase' = "running" /\ next > KeyCount
        /\ ran' = loaded[DEK]
        /\ UNCHANGED <<envelopes, dbKey, drawn, known, next, mk,
                       freshKeysGenerated, loaded>>
    BY <1>3 DEF Launched
  <2>2. /\ loaded = envelopes /\ loaded[DEK] \in known
        /\ \A k \in Keys : loaded[k] = loaded[DEK]
    BY <2>1 DEF UnlockedByEnvelopes, OpenedInOrder
  <2>3. \A d \in Dbs : d < next
    BY <2>1 DEF TypeOK, Dbs
  <2>4. \A d \in Dbs : dbKey[d] = loaded[d]
    BY <2>1, <2>3 DEF OpenedInOrder
  <2>5. TypeOK'
    BY <2>1 DEF TypeOK, Phases
  <2>6. LaunchedStaysOpenable'
    BY <2>1, <2>2, <2>4 DEF LaunchedStaysOpenable
  <2>7. /\ OneGeneration' /\ UnlockedByEnvelopes' /\ StoredInOrder'
        /\ OpenedInOrder' /\ FreshBeforeLaunch'
    BY <2>1 DEF OneGeneration, UnlockedByEnvelopes, StoredInOrder,
       OpenedInOrder, FreshBeforeLaunch, Complete
  <2> QED BY <2>5, <2>6, <2>7
<1> QED BY <1>1, <1>2, <1>3

(* keyManager.c, server.c: the inductive invariant holds in every reachable  *)
(* state, through any number of starts and crashes.                          *)
THEOREM KeysInvariant == Spec => []IInv
<1>1. IInv /\ [Next]_vars => IInv'
  <2> SUFFICES ASSUME IInv, [Next]_vars PROVE IInv'
    OBVIOUS
  <2>1. CASE UNCHANGED vars
    BY <2>1 DEF vars, IInv, TypeOK, OneGeneration, LaunchedStaysOpenable,
       UnlockedByEnvelopes, StoredInOrder, OpenedInOrder, FreshBeforeLaunch,
       Complete
  <2>2. CASE Next
    BY <2>2, PhaseStepsOK, GenerateOK, UnlockOK, LaunchOK DEF Next
  <2> QED BY <2>1, <2>2
<1> QED BY InitOK, <1>1, PTL DEF Spec

(* keyManager.c: the type invariant, with the place of the server's own copy *)
(* of a new master key (masterKeyDisplay): set from its generation to the    *)
(* administrator's confirmation.  Other copies are not in the model.         *)
THEOREM KeysTypeCorrect == Spec => []TypeOK
<1>1. IInv => TypeOK
  BY DEF IInv
<1> QED BY KeysInvariant, <1>1, PTL

(* keyManager.c:185: no two envelopes have different master keys.            *)
THEOREM OneGenerationCorrect == Spec => []OneGeneration
<1>1. IInv => OneGeneration
  BY DEF IInv
<1> QED BY KeysInvariant, <1>1, PTL

(* server.c:145-175: a launched server's data stay openable with a master    *)
(* key that the administrator has.                                           *)
THEOREM LaunchedCorrect == Spec => []LaunchedStaysOpenable
<1>1. IInv => LaunchedStaysOpenable
  BY DEF IInv
<1> QED BY KeysInvariant, <1>1, PTL

(* keyManager.c:272: a server runs with all keys of its envelopes.           *)
THEOREM UnlockedCorrect == Spec => []UnlockedByEnvelopes
<1>1. IInv => UnlockedByEnvelopes
  BY DEF IInv
<1> QED BY KeysInvariant, <1>1, PTL
=============================================================================
