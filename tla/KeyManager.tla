----------------------------- MODULE KeyManager -----------------------------
(***************************************************************************)
(* The keys of the server across starts and crashes: keyManager.c, and the *)
(* parts of server.c and serverTUI.c that generate them, unlock them and   *)
(* open the databases with them.                                           *)
(*                                                                         *)
(* One process at a time.  Every write to the disk is a step (an envelope, *)
(* which SQLite commits by itself, a removed file, an opened database) and *)
(* the process may end between any two of them: Stop is a crash, an exit   *)
(* and an I/O error that ends the program, all of which leave the same.    *)
(*                                                                         *)
(* A master key stands for all that was drawn together with it: the key    *)
(* that an envelope wraps is known by the master key that wraps it.        *)
(***************************************************************************)
EXTENDS Naturals

CONSTANTS
    KeyCount,   \* the six names, DEK first
    MKs,        \* what the random generator may draw, once each
    OldMK,      \* the master key of an older installation and its databases
    NoMK,
    NoFile

ASSUME KeyManagerAssumption ==
    /\ KeyCount \in Nat \ {0, 1}
    /\ OldMK \notin MKs
    /\ NoMK \notin MKs
    /\ NoFile \notin MKs \cup {OldMK}

Keys == 1..KeyCount     \* in the order in which they are stored and loaded
DEK  == 1
Dbs  == 2..KeyCount     \* the databases, each numbered as its key

VARIABLES
    envelopes,  \* disk: the master key that wraps each key in ServerDB, or NoMK
    dbKey,      \* disk: what each database is encrypted with, or NoFile
    drawn,      \* master keys drawn so far
    known,      \* master keys that the administrator has saved
    ran,        \* history: the master key of the last server that was launched
    phase,      \* where the process is
    next,       \* the key that a loop is about to store, or database to handle
    mk,         \* the master key in the memory of the process that drew it
    freshKeysGenerated,
    loaded      \* dekKey and the database keys in the Server struct

disk   == <<envelopes, dbKey>>
people == <<drawn, known, ran>>
memory == <<mk, freshKeysGenerated, loaded>>
vars   == <<envelopes, dbKey, drawn, known, ran, phase, next, mk,
            freshKeysGenerated, loaded>>

Phases == {"down", "init", "generating", "initPage", "startPage", "removing",
           "opening", "running"}

(* Type invariant.                                                           *)
TypeOK ==
    /\ envelopes \in [Keys -> MKs \cup {NoMK}]
    /\ dbKey \in [Dbs -> MKs \cup {OldMK, NoFile}]
    /\ drawn \subseteq MKs
    /\ known \subseteq drawn
    /\ ran \in MKs \cup {NoMK}
    /\ phase \in Phases
    /\ next \in 1..(KeyCount + 1)
    /\ mk \in MKs \cup {NoMK}
    /\ mk # NoMK <=> phase \in {"generating", "initPage"}
    /\ freshKeysGenerated \in BOOLEAN
    /\ loaded \in [Keys -> MKs \cup {NoMK}]

(* No ServerDB, but perhaps databases that were left without it.             *)
Init ==
    /\ envelopes = [k \in Keys |-> NoMK]
    /\ dbKey \in [Dbs -> {OldMK, NoFile}]
    /\ drawn = {}
    /\ known = {}
    /\ ran = NoMK
    /\ phase = "down"
    /\ next = 1
    /\ mk = NoMK
    /\ freshKeysGenerated = FALSE
    /\ loaded = [k \in Keys |-> NoMK]

-----------------------------------------------------------------------------
(* serverInit *)

Start ==
    /\ phase = "down"
    /\ phase' = "init"
    /\ UNCHANGED <<disk, people, next, memory>>

(* Mutant: a key set with a hole is taken for a first run.                   *)
FirstRun_IfIncomplete ==
    /\ phase = "init"
    /\ \E k \in Keys : envelopes[k] = NoMK
    /\ \E m \in MKs \ drawn :
         /\ mk' = m
         /\ drawn' = drawn \cup {m}
    /\ phase' = "generating"
    /\ next' = DEK
    /\ UNCHANGED <<disk, known, ran, freshKeysGenerated, loaded>>

(* Mutant: an error of getServerKey counts as a first run.                   *)
FirstRun_OnReadError ==
    /\ phase = "init"
    /\ \E m \in MKs \ drawn :
         /\ mk' = m
         /\ drawn' = drawn \cup {m}
    /\ phase' = "generating"
    /\ next' = DEK
    /\ UNCHANGED <<disk, known, ran, freshKeysGenerated, loaded>>

(* serverIsFirstRun finds no DEK, and serverGenerateFreshKeys draws.         *)
FirstRun ==
    /\ phase = "init"
    /\ envelopes[DEK] = NoMK
    /\ \E m \in MKs \ drawn :
         /\ mk' = m
         /\ drawn' = drawn \cup {m}
    /\ phase' = "generating"
    /\ next' = DEK
    /\ UNCHANGED <<disk, known, ran, freshKeysGenerated, loaded>>

(* There is a DEK, or ServerDB cannot be read.  That serverKeysAreComplete   *)
(* is false is written into the log, and the start page is shown all the     *)
(* same.                                                                     *)
LaterRun(readable) ==
    /\ phase = "init"
    /\ readable => envelopes[DEK] # NoMK
    /\ phase' = "startPage"
    /\ UNCHANGED <<disk, people, next, memory>>

StoreKey ==
    /\ phase = "generating"
    /\ next <= KeyCount
    /\ envelopes' = [envelopes EXCEPT ![next] = mk]
    /\ next' = next + 1
    /\ UNCHANGED <<dbKey, people, phase, memory>>

KeysStored ==
    /\ phase = "generating"
    /\ next > KeyCount
    /\ freshKeysGenerated' = TRUE
    /\ phase' = "initPage"
    /\ UNCHANGED <<disk, people, next, mk, loaded>>

(* Mutant: the master key is not wiped from the memory.                      *)
Confirm_KeepsMasterKey ==
    /\ phase = "initPage"
    /\ known' = known \cup {mk}
    /\ phase' = "startPage"
    /\ UNCHANGED <<disk, drawn, ran, next, memory>>

(* "I Have Saved It": the only time the master key is shown.                 *)
Confirm ==
    /\ phase = "initPage"
    /\ known' = known \cup {mk}
    /\ mk' = NoMK
    /\ phase' = "startPage"
    /\ UNCHANGED <<disk, drawn, ran, next, freshKeysGenerated, loaded>>

-----------------------------------------------------------------------------
(* serverUnlockWithMK *)

Complete == \A k \in Keys : envelopes[k] # NoMK

(* The envelopes that m opens, up to the first that it does not.             *)
Decrypted(m) == {k \in Keys : \A j \in 1..k : envelopes[j] = m}

(* Mutant: the failure of an envelope does not reach the result.             *)
Unlock_ResultLost(m) ==
    /\ phase = "startPage"
    /\ Complete
    /\ loaded' = [k \in Keys |-> IF k \in Decrypted(m) THEN m ELSE loaded[k]]
    /\ phase' = IF freshKeysGenerated THEN "removing" ELSE "opening"
    /\ next' = DEK + 1
    /\ UNCHANGED <<disk, people, mk, freshKeysGenerated>>

(* The administrator enters a saved master key, or that of an older          *)
(* installation, or a wrong one.  A failure keeps what was loaded before it. *)
Unlock(m) ==
    /\ phase = "startPage"
    /\ Complete
    /\ loaded' = [k \in Keys |-> IF k \in Decrypted(m) THEN m ELSE loaded[k]]
    /\ IF Decrypted(m) = Keys
       THEN /\ phase' = IF freshKeysGenerated THEN "removing" ELSE "opening"
            /\ next' = DEK + 1
       ELSE UNCHANGED <<phase, next>>
    /\ UNCHANGED <<disk, people, mk, freshKeysGenerated>>

-----------------------------------------------------------------------------
(* serverLaunch *)

(* A first run removes what an older installation left.                      *)
RemoveDb ==
    /\ phase = "removing"
    /\ next <= KeyCount
    /\ dbKey' = [dbKey EXCEPT ![next] = NoFile]
    /\ next' = next + 1
    /\ UNCHANGED <<envelopes, people, phase, memory>>

Removed ==
    /\ phase = "removing"
    /\ next > KeyCount
    /\ phase' = "opening"
    /\ next' = DEK + 1
    /\ UNCHANGED <<disk, people, memory>>

(* SQLCipher creates the file with the key, or opens it if the key is its    *)
(* own.                                                                      *)
OpenDb ==
    /\ phase = "opening"
    /\ next <= KeyCount
    /\ dbKey[next] \in {NoFile, loaded[next]}
    /\ dbKey' = [dbKey EXCEPT ![next] = loaded[next]]
    /\ next' = next + 1
    /\ UNCHANGED <<envelopes, people, phase, memory>>

Launched ==
    /\ phase = "opening"
    /\ next > KeyCount
    /\ phase' = "running"
    /\ ran' = loaded[DEK]
    /\ UNCHANGED <<disk, drawn, known, next, memory>>

(* The process ends: serverCleanup after an exit or a failed launch, or a    *)
(* crash.                                                                    *)
Stop ==
    /\ phase # "down"
    /\ phase' = "down"
    /\ next' = 1
    /\ mk' = NoMK
    /\ freshKeysGenerated' = FALSE
    /\ loaded' = [k \in Keys |-> NoMK]
    /\ UNCHANGED <<disk, people>>

Next ==
    \/ Start
    \/ FirstRun
    \/ \E readable \in BOOLEAN : LaterRun(readable)
    \/ StoreKey
    \/ KeysStored
    \/ Confirm
    \/ \E m \in known \cup {OldMK} : Unlock(m)
    \/ RemoveDb
    \/ Removed
    \/ OpenDb
    \/ Launched
    \/ Stop

Spec == Init /\ [][Next]_vars
=============================================================================
