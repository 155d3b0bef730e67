------------------------- MODULE GameLibrary_proofs -------------------------
(***************************************************************************)
(* Proofs about GameLibrary, for any number of download slots, builds and  *)
(* versions: its types, UnpackedIsOffered, and that an undisturbed         *)
(* download heals what a failed one has left.                              *)
(***************************************************************************)
EXTENDS GameLibraryProps, SequenceTheorems, TLAPS

TuiPcs    == {"idle", "files", "packing", "row", "rmrf"}
AskPcs    == {"none", "game", "platform", "file"}
WorkerPcs == {"none", "started", "sending", "closed"}

TuiType    == [pc : TuiPcs, build : Builds]
AskType    == [pc : AskPcs, slot : Slots, version : Versions \cup {NoVersion},
               row : Builds \cup {NoRow}]
WorkerType == [pc : WorkerPcs, path : Versions \cup {NoVersion}, data : File]
SlotType   == [pc : ActivePcs \cup {"idle", "asking"}, hash : Builds,
               received : Nat, cancelled : BOOLEAN, linked : BOOLEAN,
               alone : BOOLEAN]

(* The types, by the part of the system that they are of.                    *)
LibraryTypes ==
    /\ version \in Versions \cup {NoVersion, Deleted}
    /\ row \in Builds \cup {NoRow}
    /\ archive \in [Versions -> File \cup {NoFile}]
    /\ tui \in TuiType
DiskTypes ==
    /\ part \in File \cup {NoFile}
    /\ meta \in Nat \cup {NoMeta}
    /\ dir \in Builds \cup {Junk, NoGame}
    /\ json \in BOOLEAN
    /\ installed \in Builds \cup {NoGame}
HistoryTypes == calm \in BOOLEAN /\ strikes \in Nat
WorkerTypes ==
    /\ worker \in [Slots -> WorkerType]
    /\ \A s \in Slots : worker[s].pc = "started" => worker[s].path \in Versions
(* The TUI of the client waits for one answer, for one slot.                 *)
SlotTypes ==
    /\ dl \in [Slots -> SlotType]
    /\ ask \in AskType
    /\ \A s \in Slots : dl[s].pc = "asking" <=> ask.pc # "none" /\ ask.slot = s
    /\ ask.pc \in {"platform", "file"} => ask.version \in Versions
    /\ ask.pc = "file" => ask.row \in Builds

Types == LibraryTypes /\ DiskTypes /\ HistoryTypes /\ WorkerTypes /\ SlotTypes
         /\ LinkInv

LEMMA TypesAre == Types <=> TypeOK /\ RequestInv /\ LinkInv
BY DEF Types, LibraryTypes, DiskTypes, HistoryTypes, WorkerTypes, SlotTypes,
       TypeOK, RequestInv, TuiType, AskType, WorkerType, SlotType, TuiPcs,
       AskPcs, WorkerPcs

(* The values that variables are set back to.                                *)
LEMMA IdleValues ==
    /\ NoBuild \in Builds /\ IdleTui \in TuiType /\ NoAsk \in AskType
    /\ NoWork \in WorkerType /\ IdleSlot \in SlotType
    /\ IdleSlot.pc = "idle" /\ ~IdleSlot.alone /\ ~IdleSlot.linked /\ NoAsk.pc = "none"
    /\ NoWork.pc = "none" /\ NoWork.path = NoVersion /\ NoWork.data = <<>>
    /\ IdleTui.pc = "idle" /\ IdleTui.build = NoBuild
<1>1. NoBuild \in Builds
  BY GameLibraryAssumption DEF NoBuild
<1>2. 1 \in Slots
  BY GameLibraryAssumption DEF Slots
<1>3. <<>> \in File
  BY DEF File
<1> QED BY <1>1, <1>2, <1>3
        DEF IdleTui, NoAsk, NoWork, IdleSlot, TuiType, AskType, WorkerType,
            SlotType, TuiPcs, AskPcs, WorkerPcs

-----------------------------------------------------------------------------
(* Contents of files *)

(* The download archive of a build is a file, and tells its build.           *)
LEMMA ArchiveOfBuild ==
    /\ \A b \in Builds : Archive(b) \in File
    /\ \A b, d \in Builds : Archive(b) = Archive(d) => b = d
<1>1. ASSUME NEW b \in Builds
      PROVE  /\ Archive(b) \in File
             /\ Archive(b)[1] = b
  BY <1>1, GameLibraryAssumption DEF Archive, File
<1> QED BY <1>1

(* pwrite leaves a file.                                                     *)
LEMMA PWriteFile ==
    ASSUME NEW f \in File, NEW i \in Nat \ {0}, NEW c \in Builds \cup {Junk}
    PROVE  PWrite(f, i, c) \in File
<1>1. Len(f) \in Nat /\ DOMAIN f = 1..Len(f)
      /\ \A j \in 1..Len(f) : f[j] \in Builds \cup {Junk}
  BY LenProperties, ElementOfSeq DEF File
<1> DEFINE n == IF i > Len(f) THEN i ELSE Len(f)
<1>2. n \in Nat
  BY <1>1
<1>3. \A j \in 1..n : (IF j = i THEN c ELSE IF j <= Len(f) THEN f[j] ELSE Junk)
                         \in Builds \cup {Junk}
  BY <1>1
<1> QED BY <1>2, <1>3 DEF PWrite, File

(* What a worker sends is a chunk.                                           *)
LEMMA ChunkSent ==
    ASSUME WorkerTypes, NEW s \in Slots, NEW i \in Nat \ {0},
           NEW chunk \in SendChunk(s, i), chunk # <<>>
    PROVE  Head(chunk) \in Builds \cup {Junk}
<1>1. worker[s].data \in Seq(Builds \cup {Junk})
  BY DEF WorkerTypes, WorkerType, File
<1>2. CASE i <= Len(worker[s].data)
  <2>1. worker[s].data[i] \in Builds \cup {Junk}
    BY <1>1, <1>2, ElementOfSeq, LenProperties
  <2> QED BY <1>2, <2>1 DEF SendChunk
<1>3. CASE ~(i <= Len(worker[s].data))
  BY <1>3 DEF SendChunk
<1> QED BY <1>2, <1>3

-----------------------------------------------------------------------------
(* Types *)

(* gameControl.c: what the administrator does.                               *)
LEMMA AdministratorTypes ==
    ASSUME Types, Administrator
    PROVE  Types'
<1> USE GameLibraryAssumption, IdleValues
<1>1. UNCHANGED <<transfer, disk, dl>> /\ Disturb
  BY DEF Administrator, UpdateVersion, PackBegin, PackEnd, UpdateFails,
         RegisterGamePlatform, DeleteRow, DeleteFiles, TuiStep
<1>2. LibraryTypes'
  <2> USE DEF Types, LibraryTypes, TuiStep, TuiType, TuiPcs
  <2>1. ASSUME NEW b \in Builds, UpdateVersion(b)  PROVE LibraryTypes'
    BY <2>1 DEF UpdateVersion, RegisterGame, UpdateGameVersion, ParseMetadata
  <2>2. CASE PackBegin
    <3>1. <<>> \in File
      BY DEF File
    <3> QED BY <2>2, <3>1 DEF PackBegin
  <2>3. CASE PackEnd
    BY <2>3, ArchiveOfBuild DEF PackEnd, Packed
  <2>4. CASE UpdateFails
    BY <2>4 DEF UpdateFails
  <2>5. ASSUME NEW ok \in BOOLEAN, RegisterGamePlatform(ok)
        PROVE  LibraryTypes'
    BY <2>5 DEF RegisterGamePlatform
  <2>6. CASE DeleteRow
    BY <2>6 DEF DeleteRow, UnregisterGame
  <2>7. CASE DeleteFiles
    BY <2>7 DEF DeleteFiles
  <2> QED BY <2>1, <2>2, <2>3, <2>4, <2>5, <2>6, <2>7 DEF Administrator
<1> QED BY <1>1, <1>2 DEF Types, DiskTypes, WorkerTypes, SlotTypes, HistoryTypes,
                          LinkInv, transfer, disk, Disturb

(* A slot that is given up, with its socket.                                 *)
LEMMA EndsFailedTypes ==
    ASSUME Types, NEW s \in Slots, EndsFailed(s),
           \/ dl[s].pc # "asking" /\ UNCHANGED ask
           \/ ask.slot = s /\ ask' = NoAsk
    PROVE  WorkerTypes' /\ SlotTypes' /\ HistoryTypes'
<1> USE IdleValues DEF EndsFailed, Types
<1>1. HistoryTypes'
  <2>1. strikes \in Nat /\ calm' = FALSE /\ strikes' \in {strikes + 1, 0}
    BY DEF HistoryTypes, Struck
  <2>2. strikes' \in Nat
    BY <2>1
  <2>3. calm' \in BOOLEAN
    BY <2>1
  <2> QED BY ONLY <2>2, <2>3 DEF HistoryTypes
<1>2. WorkerTypes'
  BY DEF WorkerTypes
<1>3. SlotTypes'
  <2>1. dl' \in [Slots -> SlotType] /\ ask' \in AskType
    BY DEF SlotTypes
  <2>2. \A r \in Slots : dl'[r].pc = "asking" <=> ask'.pc # "none" /\ ask'.slot = r
    BY DEF SlotTypes
  <2> QED BY <2>1, <2>2 DEF SlotTypes
<1> QED BY <1>1, <1>2, <1>3

(* An unlinked file stays unlinked.                                         *)
NoMoreLinked == \A r \in Slots : dl'[r].linked => dl[r].linked

LEMMA LinksStay ==
    ASSUME LinkInv, NoMoreLinked, part' = part
    PROVE  LinkInv'
BY DEF LinkInv, NoMoreLinked

(* gameDownload.c, gameDistribution.c: a request and its answer.             *)
LEMMA RequestTypes ==
    ASSUME Types,
           \/ \E s \in Slots : StartDownload(s)
           \/ Handler \/ RequestFails
    PROVE  Types'
<1> USE IdleValues
<1>1. UNCHANGED <<library, disk>>
  BY DEF StartDownload, Handler, FindGame, FindPlatform, OfferFile,
         NoFileToOffer, RequestFails, Refuse, Answer
<1>0. dl \in [Slots -> SlotType] /\ ask.slot \in Slots
  BY DEF Types, SlotTypes, AskType
<1>a. NoMoreLinked
  <2> USE <1>0 DEF NoMoreLinked
  <2>1. ASSUME NEW s \in Slots, StartDownload(s)  PROVE NoMoreLinked
    BY <2>1 DEF StartDownload, IdleSlot
  <2>2. CASE Refuse
    BY <2>2 DEF Refuse, EndsFailed
  <2>3. CASE OfferFile
    BY <2>3 DEF OfferFile, SlotType
  <2>4. CASE RequestFails
    BY <2>4 DEF RequestFails
  <2>5. CASE UNCHANGED dl
    BY <2>5
  <2> QED BY <2>1, <2>2, <2>3, <2>4, <2>5
          DEF Handler, FindGame, FindPlatform, NoFileToOffer, Answer
<1>2. LibraryTypes' /\ DiskTypes' /\ LinkInv'
  <2>1. LibraryTypes' /\ DiskTypes'
    BY <1>1 DEF Types, LibraryTypes, DiskTypes, library, disk
  <2> QED BY <1>1, <1>a, <2>1, LinksStay DEF Types, disk
<1>3. ASSUME NEW s \in Slots, StartDownload(s)
      PROVE  WorkerTypes' /\ SlotTypes' /\ HistoryTypes'
  <2>1. Resume \in Nat
    BY DEF Resume, ReadResumeMeta, Types, DiskTypes
  <2>2. /\ dl' = [dl EXCEPT ![s] = [IdleSlot EXCEPT !.pc = "asking",
                                                    !.received = Resume]]
        /\ ask' = [NoAsk EXCEPT !.pc = "game", !.slot = s]
        /\ ask.pc = "none"
        /\ UNCHANGED worker
        /\ calm' \in BOOLEAN /\ strikes' \in {strikes, 0}
    BY <1>3 DEF StartDownload
  <2> DEFINE asking == [IdleSlot EXCEPT !.pc = "asking", !.received = Resume]
  <2>3. asking \in SlotType /\ asking.pc = "asking"
    BY <2>1 DEF SlotType
  <2>4. ask' \in AskType /\ ask'.pc = "game" /\ ask'.slot = s
    BY <2>2 DEF AskType, AskPcs
  <2> HIDE DEF asking
  <2>5. dl' = [dl EXCEPT ![s] = asking]
    BY <2>2 DEF asking
  <2> QED BY <2>2, <2>3, <2>4, <2>5
          DEF Types, SlotTypes, WorkerTypes, HistoryTypes
<1>4. ASSUME Refuse, ask.pc # "none"
      PROVE  WorkerTypes' /\ SlotTypes' /\ HistoryTypes'
  BY <1>4, EndsFailedTypes DEF Refuse, Types, SlotTypes, AskType
<1>5. ASSUME NEW pc \in {"platform", "file"}, NEW v \in Versions,
             NEW r \in Builds \cup {NoRow}, pc = "file" => r \in Builds,
             ask.pc # "none",
             ask' = [ask EXCEPT !.pc = pc, !.version = v, !.row = r],
             UNCHANGED <<worker, dl, history>>
      PROVE  WorkerTypes' /\ SlotTypes' /\ HistoryTypes'
  BY <1>5 DEF Types, WorkerTypes, SlotTypes, HistoryTypes, AskType,
              AskPcs, history
<1>6. CASE FindGame
  <2>1. ask.pc # "none" /\ NoRow \in Builds \cup {NoRow}
    BY <1>6 DEF FindGame
  <2>2. CASE version \in Versions
    <3>1. /\ ask' = [ask EXCEPT !.pc = "platform", !.version = version,
                                 !.row = NoRow]
          /\ UNCHANGED <<worker, dl, history>>
      BY <1>6, <2>2 DEF FindGame, GetGameById, Answer
    <3> QED BY ONLY <1>2, <1>5, <2>1, <2>2, <3>1 DEF Types
  <2>3. CASE version \notin Versions
    <3>1. Refuse
      BY <1>6, <2>3, Zenon DEF FindGame, GetGameById
    <3> QED BY ONLY <1>2, <1>4, <2>1, <3>1 DEF Types
  <2> QED BY <2>2, <2>3
<1>7. CASE FindPlatform
  <2>1. ask.version \in Versions /\ row \in Builds \cup {NoRow} /\ ask.pc # "none"
    BY <1>7 DEF FindPlatform, Types, SlotTypes, LibraryTypes
  <2>2. CASE row # NoRow
    <3>1. /\ ask' = [ask EXCEPT !.pc = "file", !.version = ask.version,
                                 !.row = row]
          /\ UNCHANGED <<worker, dl, history>>
      BY <1>7, <2>2 DEF FindPlatform, GetGamePlatform, Answer
    <3> QED BY ONLY <1>2, <1>5, <2>1, <2>2, <3>1 DEF Types
  <2>3. CASE row = NoRow
    <3>1. Refuse
      BY <1>7, <2>3, Zenon DEF FindPlatform, GetGamePlatform
    <3> QED BY ONLY <1>2, <1>4, <2>1, <3>1 DEF Types
  <2> QED BY <2>2, <2>3
<1>8. CASE OfferFile
  <2>1. ask.slot \in Slots /\ ask.version \in Versions /\ ask.row \in Builds
    BY <1>8 DEF OfferFile, Types, SlotTypes, AskType
  <2>2. WorkerTypes' /\ HistoryTypes'
    BY <1>8, <2>1 DEF OfferFile, Types, WorkerTypes, WorkerType, WorkerPcs,
                      File, HistoryTypes, history
  <2>3. /\ ask' = NoAsk
        /\ dl' = [s \in Slots |->
                    IF s = ask.slot
                    THEN [dl[s] EXCEPT !.pc = "pending", !.hash = ask.row,
                            !.alone = \A r \in Slots : ~Active(r)]
                    ELSE [dl[s] EXCEPT !.alone = FALSE]]
    BY <1>8 DEF OfferFile
  <2>4. ASSUME NEW s \in Slots
        PROVE  /\ dl'[s] \in SlotType
               /\ dl'[s].pc # "asking"
    <3>1. dl[s] \in SlotType /\ (\A r \in Slots : ~Active(r)) \in BOOLEAN
      BY DEF Types, SlotTypes
    <3>2. CASE s = ask.slot
      <4> DEFINE b == \A r \in Slots : ~Active(r)
      <4>1. dl'[s] = [dl[s] EXCEPT !.pc = "pending", !.hash = ask.row, !.alone = b]
        BY <2>3, <3>2
      <4>2. b \in BOOLEAN
        OBVIOUS
      <4> HIDE DEF b
      <4> QED BY <2>1, <3>1, <4>1, <4>2 DEF SlotType, ActivePcs
    <3>3. CASE s # ask.slot
      <4>1. dl[s].pc # "asking"
        BY <3>3 DEF Types, SlotTypes
      <4>2. dl'[s] = [dl[s] EXCEPT !.alone = FALSE]
        BY <2>3, <3>3
      <4> QED BY <3>1, <4>1, <4>2 DEF SlotType
    <3> QED BY <3>2, <3>3
  <2>5. SlotTypes'
    BY <2>3, <2>4 DEF SlotTypes
  <2> QED BY <1>2, <2>2, <2>5 DEF Types
<1>9. CASE RequestFails
  <2>1. ask.slot \in Slots
    BY DEF Types, SlotTypes, AskType
  <2> QED BY <1>2, <1>9, <2>1 DEF RequestFails, Disturb, Types, WorkerTypes,
             SlotTypes, HistoryTypes
<1> QED BY <1>2, <1>3, <1>4, <1>6, <1>7, <1>8, <1>9
        DEF Handler, NoFileToOffer, Types

-----------------------------------------------------------------------------
(* The thread of a slot *)

(* What a step of the thread of slot s does to the slots.                    *)
ThreadStep(s) ==
    /\ dl' \in [Slots -> SlotType]
    /\ \A r \in Slots \ {s} : /\ dl'[r].pc = dl[r].pc
                              /\ dl'[r].alone = dl[r].alone
                              /\ dl'[r].hash = dl[r].hash
    /\ dl'[s].pc # "asking"
    /\ dl'[s].alone => dl[s].alone /\ dl'[s].hash = dl[s].hash
                       /\ dl'[s].pc \in ActivePcs

LEMMA SlotIdle ==
    ASSUME dl \in [Slots -> SlotType], NEW s \in Slots,
           dl' = [dl EXCEPT ![s] = IdleSlot]
    PROVE  ThreadStep(s) /\ dl'[s].pc = "idle" /\ NoMoreLinked
<1>1. IdleSlot \in SlotType /\ IdleSlot.pc = "idle" /\ ~IdleSlot.alone /\ ~IdleSlot.linked
  BY IdleValues
<1> QED BY <1>1 DEF ThreadStep, NoMoreLinked

LEMMA SlotGoes ==
    ASSUME dl \in [Slots -> SlotType], NEW s \in Slots, NEW pc \in ActivePcs,
           Go(s, pc)
    PROVE  ThreadStep(s) /\ dl'[s].pc = pc /\ NoMoreLinked
<1>1. dl' = [dl EXCEPT ![s] = [dl[s] EXCEPT !.pc = pc]]
  BY DEF Go
<1>2. dl[s] \in SlotType /\ pc # "asking"
  BY DEF ActivePcs
<1>3. [dl[s] EXCEPT !.pc = pc] \in SlotType
  BY <1>2 DEF SlotType
<1>4. dl'[s] = [dl[s] EXCEPT !.pc = pc]
  BY <1>1
<1>5. /\ dl'[s].pc = pc /\ dl'[s].alone = dl[s].alone
      /\ dl'[s].hash = dl[s].hash /\ dl'[s].linked = dl[s].linked
  BY <1>2, <1>4 DEF SlotType
<1> QED BY <1>1, <1>2, <1>3, <1>5 DEF ThreadStep, NoMoreLinked

(* remove() touches linked only.                                             *)
LEMMA Unlinked ==
    ASSUME NEW d \in [Slots -> SlotType]
    PROVE  /\ Unlink(d) \in [Slots -> SlotType]
           /\ \A r \in Slots : /\ ~Unlink(d)[r].linked
                               /\ Unlink(d)[r].pc = d[r].pc
                               /\ Unlink(d)[r].alone = d[r].alone
                               /\ Unlink(d)[r].hash = d[r].hash
BY DEF Unlink, SlotType

LEMMA SlotDiscarded ==
    ASSUME dl \in [Slots -> SlotType], NEW s \in Slots,
           dl' = Unlink([dl EXCEPT ![s] = IdleSlot])
    PROVE  ThreadStep(s) /\ dl'[s].pc = "idle" /\ \A r \in Slots : ~dl'[r].linked
<1>1. [dl EXCEPT ![s] = IdleSlot] \in [Slots -> SlotType]
  BY IdleValues
<1>2. /\ dl' \in [Slots -> SlotType]
      /\ \A r \in Slots : /\ ~dl'[r].linked
                          /\ dl'[r].pc = [dl EXCEPT ![s] = IdleSlot][r].pc
                          /\ dl'[r].alone = [dl EXCEPT ![s] = IdleSlot][r].alone
                          /\ dl'[r].hash = [dl EXCEPT ![s] = IdleSlot][r].hash
  BY <1>1, Unlinked
<1> QED BY <1>2, IdleValues DEF ThreadStep

(* gameDownload.c, downloadThread: it works for a slot that is in a          *)
(* transfer, and for no other.                                               *)
LEMMA ThreadSteps ==
    ASSUME Types, NEW s \in Slots, DownloadThread(s)
    PROVE  Active(s) /\ ThreadStep(s)
<1>0. dl \in [Slots -> SlotType]
  BY DEF Types, SlotTypes
<1>a. dl[s].pc \in ActivePcs
  BY DEF DownloadThread, OpenFile, WriteResumeMeta, RecvChunk, RecvFails,
         StopCancelled, AllReceived, Verify, UnpackBegin, UnpackEnd, UnpackFails,
         AddGame, RemoveJsonAndPart, RemoveMeta, ActivePcs
<1> SUFFICES ThreadStep(s)
  BY <1>a DEF Active
<1>b. CASE dl' = [dl EXCEPT ![s] = IdleSlot]
  BY <1>0, <1>b, SlotIdle
<1>c. CASE dl' = Unlink([dl EXCEPT ![s] = IdleSlot])
  BY <1>0, <1>c, SlotDiscarded
<1>d. ASSUME NEW pc \in ActivePcs, Go(s, pc)
      PROVE  ThreadStep(s)
  BY <1>0, <1>d, SlotGoes
<1>1. CASE OpenFile(s)
  <2>1. CASE EndsFailed(s)
    BY <1>b, <2>1 DEF EndsFailed
  <2>2. CASE dl' = [dl EXCEPT ![s].pc = "meta", ![s].linked = TRUE]
    <3>1. dl' = [dl EXCEPT ![s] = [dl[s] EXCEPT !.pc = "meta", !.linked = TRUE]]
      BY <1>0, <2>2
    <3>2. [dl[s] EXCEPT !.pc = "meta", !.linked = TRUE] \in SlotType
      BY <1>0 DEF SlotType, ActivePcs
    <3>3. /\ dl'[s].pc = "meta"
          /\ dl'[s].alone = dl[s].alone /\ dl'[s].hash = dl[s].hash
      BY <1>0, <3>1 DEF SlotType
    <3> QED BY <1>0, <3>1, <3>2, <3>3 DEF ThreadStep, ActivePcs
  <2> QED BY <1>1, <2>1, <2>2 DEF OpenFile
<1>2. CASE RecvChunk(s)
  <2>1. dl[s].received + 1 \in Nat
    BY <1>0 DEF SlotType
  <2>2. dl' = [dl EXCEPT ![s].received = dl[s].received + 1, ![s].pc = "meta"]
    BY <1>2 DEF RecvChunk
  <2> DEFINE n == dl[s].received + 1
  <2>3. dl' = [dl EXCEPT ![s] = [dl[s] EXCEPT !.received = n, !.pc = "meta"]]
    BY <1>0, <2>2
  <2> HIDE DEF n
  <2>4. n \in Nat
    BY <2>1 DEF n
  <2>5. [dl[s] EXCEPT !.received = n, !.pc = "meta"] \in SlotType
    BY <1>0, <2>4 DEF SlotType, ActivePcs
  <2>6. /\ dl'[s].pc = "meta"
        /\ dl'[s].alone = dl[s].alone /\ dl'[s].hash = dl[s].hash
    BY <1>0, <2>3 DEF SlotType
  <2> QED BY <1>0, <2>3, <2>5, <2>6 DEF ThreadStep, ActivePcs
<1>3. CASE RemoveJsonAndPart(s)
  <2>1. [dl EXCEPT ![s].pc = "cleanMeta"] \in [Slots -> SlotType]
    BY <1>0 DEF SlotType, ActivePcs
  <2> DEFINE d == [dl EXCEPT ![s].pc = "cleanMeta"]
  <2>2. /\ \A r \in Slots \ {s} : d[r] = dl[r]
        /\ d[s].pc = "cleanMeta" /\ d[s].alone = dl[s].alone
        /\ d[s].hash = dl[s].hash
    BY <1>0 DEF SlotType
  <2>3. dl' = Unlink(d)
    BY <1>3 DEF RemoveJsonAndPart
  <2> HIDE DEF d
  <2>4. d \in [Slots -> SlotType]
    BY <2>1 DEF d
  <2> QED BY <2>2, <2>3, <2>4, Unlinked DEF ThreadStep, ActivePcs
<1>4. CASE Verify(s)
  BY <1>c, <1>d, <1>4 DEF Verify, Discard, ActivePcs
<1>5. CASE UnpackBegin(s)
  BY <1>c, <1>d, <1>5 DEF UnpackBegin, Discard, ActivePcs
<1>6. CASE WriteResumeMeta(s) \/ AllReceived(s) \/ UnpackEnd(s) \/ AddGame(s)
  BY <1>d, <1>6 DEF WriteResumeMeta, AllReceived, UnpackEnd, AddGame, ActivePcs
<1>7. CASE RecvFails(s) \/ StopCancelled(s) \/ UnpackFails(s) \/ RemoveMeta(s)
  BY <1>b, <1>c, <1>7 DEF RecvFails, EndsFailed, StopCancelled, UnpackFails,
                          RemoveMeta
<1> QED BY <1>1, <1>2, <1>3, <1>4, <1>5, <1>6, <1>7 DEF DownloadThread

(* A chunk is written to the file that is there, if it is.                   *)
LEMMA ChunkWritten ==
    ASSUME Types, NEW s \in Slots, RecvChunk(s)
    PROVE  part' = part \/ part' \in File
<1>1. dl[s].received + 1 \in Nat \ {0}
  BY DEF Types, SlotTypes, SlotType
<1>2. PICK chunk \in SendChunk(s, dl[s].received + 1) :
         part' = IF dl[s].linked /\ chunk # <<>>
                 THEN PWrite(part, dl[s].received + 1, Head(chunk)) ELSE part
  BY DEF RecvChunk
<1>3. CASE dl[s].linked /\ chunk # <<>>
  <2>1. Head(chunk) \in Builds \cup {Junk}
    BY <1>1, <1>3, ChunkSent DEF Types
  <2>2. part \in File
    BY <1>3 DEF Types, DiskTypes, LinkInv
  <2>3. PWrite(part, dl[s].received + 1, Head(chunk)) \in File
    BY <1>1, <2>1, <2>2, PWriteFile
  <2> QED BY <1>2, <1>3, <2>3
<1>4. CASE ~(dl[s].linked /\ chunk # <<>>)
  BY <1>2, <1>4
<1> QED BY <1>3, <1>4

LEMMA ThreadTypes ==
    ASSUME Types, NEW s \in Slots, DownloadThread(s)
    PROVE  Types'
<1> USE IdleValues
<1>1. Active(s) /\ ThreadStep(s)
  BY ThreadSteps
<1>2. UNCHANGED <<library, ask>>
  BY DEF DownloadThread, OpenFile, WriteResumeMeta, RecvChunk, RecvFails,
         StopCancelled, AllReceived, Verify, UnpackBegin, UnpackEnd, UnpackFails,
         AddGame, RemoveJsonAndPart, RemoveMeta, transfer
<1>3. LibraryTypes' /\ SlotTypes'
  <2>1. UNCHANGED <<version, row, archive, tui, ask>>
    BY <1>2 DEF library
  <2>2. \A r \in Slots : dl'[r].pc = "asking" <=> dl[r].pc = "asking"
    BY <1>1 DEF ThreadStep, Active, ActivePcs
  <2> QED BY <1>1, <2>1, <2>2 DEF Types, LibraryTypes, SlotTypes, ThreadStep
<1>4. WorkerTypes'
  <2>1. worker' = worker \/ worker' = [worker EXCEPT ![s] = NoWork]
    BY DEF DownloadThread, OpenFile, WriteResumeMeta, RecvChunk, RecvFails,
           StopCancelled, AllReceived, Verify, UnpackBegin, UnpackEnd, UnpackFails,
           AddGame, RemoveJsonAndPart, RemoveMeta, EndsFailed, Discard, transfer
  <2> QED BY <2>1 DEF Types, WorkerTypes
<1>5. HistoryTypes'
  <2>1. \/ UNCHANGED <<calm, strikes>>
        \/ calm' = FALSE /\ strikes' = 0
        \/ calm' = FALSE /\ Struck
    BY DEF DownloadThread, OpenFile, WriteResumeMeta, RecvChunk, RecvFails,
           StopCancelled, AllReceived, Verify, UnpackBegin, UnpackEnd, UnpackFails,
           AddGame, RemoveJsonAndPart, RemoveMeta, EndsFailed, Discard, Disturb,
           history
  <2>2. strikes' \in {strikes, strikes + 1, 0}
    BY <2>1 DEF Struck
  <2>3. strikes' \in Nat
    BY <2>2 DEF Types, HistoryTypes
  <2>4. calm' \in BOOLEAN
    BY <2>1 DEF Types, HistoryTypes
  <2> QED BY <2>3, <2>4 DEF HistoryTypes
<1>6. DiskTypes'
  <2> USE DEF Types, DiskTypes, disk
  <2>1. CASE OpenFile(s)
    <3>1. <<>> \in File
      BY DEF File
    <3> QED BY <2>1, <3>1 DEF OpenFile
  <2>2. CASE WriteResumeMeta(s)
    BY <2>2 DEF WriteResumeMeta, SlotTypes, SlotType
  <2>3. CASE RecvChunk(s)
    <3>1. part' = part \/ part' \in File
      BY <2>3, ChunkWritten
    <3> QED BY <2>3, <3>1 DEF RecvChunk
  <2>4. CASE Verify(s)
    BY <2>4 DEF Verify, Discard, RemoveBoth
  <2>5. CASE UnpackBegin(s)
    BY <2>5 DEF UnpackBegin, Discard, RemoveBoth
  <2>6. CASE UnpackEnd(s)
    BY <2>6 DEF UnpackEnd, ExtractTarGz
  <2>7. CASE UnpackFails(s)
    BY <2>7 DEF UnpackFails, RemoveBoth
  <2>8. CASE AddGame(s)
    BY <2>8 DEF AddGame, SlotTypes, SlotType
  <2>9. CASE RemoveJsonAndPart(s)
    BY <2>9 DEF RemoveJsonAndPart
  <2>10. CASE RemoveMeta(s)
    BY <2>10 DEF RemoveMeta
  <2>11. CASE RecvFails(s) \/ StopCancelled(s) \/ AllReceived(s)
    BY <2>11 DEF RecvFails, StopCancelled, AllReceived
  <2> QED BY <2>1, <2>2, <2>3, <2>4, <2>5, <2>6, <2>7, <2>8, <2>9, <2>10, <2>11
          DEF DownloadThread
<1>7. LinkInv'
  <2> USE DEF Types, LinkInv, disk
  <2>1. ASSUME NoMoreLinked, part' = part
        PROVE  LinkInv'
    BY <2>1 DEF NoMoreLinked
  <2>2. ASSUME NEW pc \in ActivePcs, Go(s, pc), part' = part
        PROVE  LinkInv'
    BY <2>1, <2>2, SlotGoes DEF SlotTypes
  <2>3. ASSUME dl' = [dl EXCEPT ![s] = IdleSlot], part' = part
        PROVE  LinkInv'
    BY <2>1, <2>3, SlotIdle DEF SlotTypes
  <2>4. CASE dl' = Unlink([dl EXCEPT ![s] = IdleSlot])
    BY <2>4, SlotDiscarded DEF SlotTypes
  <2>5. CASE OpenFile(s)
    <3>1. CASE dl[s].received > 0 /\ part = NoFile
      BY <2>3, <2>5, <3>1 DEF OpenFile, EndsFailed
    <3>2. CASE ~(dl[s].received > 0 /\ part = NoFile)
      <4>1. <<>> \in Seq(Builds \cup {Junk})
        OBVIOUS
      <4>2. <<>> # NoFile
        BY <4>1, GameLibraryAssumption
      <4> QED BY <2>5, <3>2, <4>2 DEF OpenFile
    <3> QED BY <3>1, <3>2
  <2>6. CASE RecvChunk(s)
    <3>1. dl' = [dl EXCEPT ![s].received = dl[s].received + 1, ![s].pc = "meta"]
      BY <2>6 DEF RecvChunk
    <3>2. NoMoreLinked
      BY <3>1 DEF NoMoreLinked, SlotTypes, SlotType
    <3>3. part' = part \/ part' # NoFile
      BY <2>6, ChunkWritten, GameLibraryAssumption DEF File
    <3> QED BY <3>2, <3>3 DEF NoMoreLinked
  <2>7. CASE RemoveJsonAndPart(s)
    <3>1. [dl EXCEPT ![s].pc = "cleanMeta"] \in [Slots -> SlotType]
      BY DEF SlotTypes, SlotType, ActivePcs
    <3> QED BY <2>7, <3>1, Unlinked DEF RemoveJsonAndPart
  <2>8. CASE Verify(s) \/ UnpackBegin(s) \/ UnpackFails(s)
    BY <2>2, <2>4, <2>8
       DEF Verify, UnpackBegin, UnpackFails, Discard, ActivePcs
  <2>9. CASE WriteResumeMeta(s) \/ AllReceived(s) \/ UnpackEnd(s) \/ AddGame(s)
    BY <2>2, <2>9 DEF WriteResumeMeta, AllReceived, UnpackEnd, AddGame, ActivePcs
  <2>10. CASE RecvFails(s) \/ StopCancelled(s) \/ RemoveMeta(s)
    BY <2>3, <2>10 DEF RecvFails, EndsFailed, StopCancelled, RemoveMeta
  <2> QED BY <2>5, <2>6, <2>7, <2>8, <2>9, <2>10 DEF DownloadThread
<1> QED BY <1>3, <1>4, <1>5, <1>6, <1>7 DEF Types

-----------------------------------------------------------------------------
(* The other steps *)

(* downloadPool.c: the worker has read its file, or found none.              *)
LEMMA WorkerTypesHold ==
    ASSUME Types, NEW s \in Slots, WorkerReads(s)
    PROVE  Types'
<1>1. worker[s] \in WorkerType /\ worker[s].path \in Versions
  BY DEF WorkerReads, Types, WorkerTypes
<1>2. archive[worker[s].path] \in File \cup {NoFile}
  BY <1>1 DEF Types, LibraryTypes
<1>3. /\ ReadFilePlaintext(worker[s]) \in WorkerType
      /\ ReadFilePlaintext(worker[s]).pc # "started"
  BY <1>1, <1>2 DEF ReadFilePlaintext, WorkerType, WorkerPcs
<1>4. worker' = [worker EXCEPT ![s] = ReadFilePlaintext(worker[s])]
  BY DEF WorkerReads
<1>5. WorkerTypes'
  BY <1>3, <1>4 DEF Types, WorkerTypes
<1> QED BY <1>5 DEF WorkerReads, Types, LibraryTypes, DiskTypes, HistoryTypes,
                    SlotTypes, LinkInv, library, disk, history

(* tui.c of the client: downloads are cancelled, and a game is removed.      *)
LEMMA PlayerTypes ==
    ASSUME Types, Player
    PROVE  Types'
<1>1. ASSUME NEW S, CancelSlots(S)
      PROVE  Types'
  <2>1. /\ UNCHANGED <<version, row, archive, tui, ask, worker>>
        /\ UNCHANGED <<part, meta, dir, json, installed>>
        /\ HistoryTypes'
    BY <1>1 DEF CancelSlots, Disturb, library, transfer, disk, HistoryTypes
  <2>2. dl' = [s \in Slots |-> IF s \in S /\ Active(s)
                              THEN [dl[s] EXCEPT !.cancelled = TRUE]
                              ELSE dl[s]]
    BY <1>1 DEF CancelSlots
  <2>3. ASSUME NEW s \in Slots
        PROVE  /\ dl'[s] \in SlotType
               /\ dl'[s].pc = dl[s].pc
               /\ dl'[s].linked = dl[s].linked
    <3>1. dl'[s] = dl[s] \/ dl'[s] = [dl[s] EXCEPT !.cancelled = TRUE]
      BY <2>2
    <3>2. dl[s] \in SlotType
      BY DEF Types, SlotTypes
    <3> QED BY <3>1, <3>2 DEF SlotType
  <2>4. SlotTypes'
    BY <2>1, <2>2, <2>3 DEF Types, SlotTypes
  <2> QED BY <2>1, <2>3, <2>4
          DEF Types, LibraryTypes, DiskTypes, WorkerTypes, LinkInv
<1>2. CASE DeleteGame
  BY <1>2 DEF DeleteGame, Types, LibraryTypes, DiskTypes, HistoryTypes,
              WorkerTypes, SlotTypes, LinkInv, library, transfer, history
<1>3. CASE \E s \in Slots : StartDownload(s)
  BY <1>3, RequestTypes
<1> QED BY <1>1, <1>2, <1>3 DEF Player, Cancel, Destroy

(* The client or the server ends, or a connection breaks.                    *)
LEMMA FaultTypes ==
    ASSUME Types, Faults
    PROVE  Types'
<1> USE IdleValues
<1>1. CASE RequestFails
  BY <1>1, RequestTypes
<1>2. CASE ClientStops
  <2>1. /\ UNCHANGED <<version, row, archive, tui, part, dir, json, installed>>
        /\ HistoryTypes'
        /\ meta' \in Nat \cup {NoMeta}
    BY <1>2 DEF ClientStops, Disturb, library, HistoryTypes, Types, DiskTypes
  <2>2. /\ dl' = [s \in Slots |-> IdleSlot]
        /\ ask' = NoAsk
        /\ worker' = [s \in Slots |-> NoWork]
    BY <1>2 DEF ClientStops
  <2>3. SlotTypes' /\ WorkerTypes' /\ LinkInv'
    BY <2>2 DEF SlotTypes, WorkerTypes, LinkInv
  <2> QED BY <2>1, <2>3 DEF Types, LibraryTypes, DiskTypes
<1>3. CASE ServerStops
  <2>1. /\ UNCHANGED <<version, row, archive, part, meta, dir, json, installed>>
        /\ tui' = IdleTui /\ ask' = NoAsk /\ HistoryTypes'
    BY <1>3 DEF ServerStops, Disturb, disk, HistoryTypes
  <2>2. WorkerTypes'
    <3>1. worker' = [s \in Slots |->
                       IF worker[s].pc = "none" THEN NoWork
                       ELSE [NoWork EXCEPT !.pc = "closed"]]
      BY <1>3 DEF ServerStops
    <3>2. [NoWork EXCEPT !.pc = "closed"] \in WorkerType
      BY DEF WorkerType, WorkerPcs
    <3>3. [NoWork EXCEPT !.pc = "closed"].pc = "closed"
      BY DEF WorkerType
    <3> QED BY <3>1, <3>2, <3>3 DEF WorkerTypes
  <2>3. SlotTypes' /\ LinkInv'
    <3>1. dl' = [s \in Slots |-> IF dl[s].pc = "asking" THEN IdleSlot ELSE dl[s]]
      BY <1>3 DEF ServerStops
    <3> QED BY <2>1, <3>1 DEF Types, SlotTypes, LinkInv
  <2> QED BY <2>1, <2>2, <2>3 DEF Types, LibraryTypes, DiskTypes
<1>4. ASSUME NEW s \in Slots, Breaks(s)
      PROVE  Types'
  <2>1. /\ UNCHANGED <<version, row, archive, tui, ask>>
        /\ UNCHANGED <<part, meta, dir, json, installed>>
        /\ HistoryTypes' /\ dl[s].pc # "asking"
    BY <1>4 DEF Breaks, Disturb, library, disk, HistoryTypes
  <2>2. /\ dl' = [dl EXCEPT ![s] = IdleSlot]
        /\ worker' = [worker EXCEPT ![s] = NoWork]
    BY <1>4 DEF Breaks
  <2>3. SlotTypes' /\ WorkerTypes' /\ LinkInv'
    BY <2>1, <2>2 DEF Types, SlotTypes, WorkerTypes, LinkInv
  <2> QED BY <2>1, <2>3 DEF Types, LibraryTypes, DiskTypes
<1> QED BY <1>1, <1>2, <1>3, <1>4 DEF Faults

LEMMA StepTypes ==
    ASSUME Types, [Next]_vars
    PROVE  Types'
<1>1. CASE UNCHANGED vars
  BY <1>1 DEF vars, Types, LibraryTypes, DiskTypes, HistoryTypes, WorkerTypes,
              SlotTypes, LinkInv
<1> QED BY <1>1, AdministratorTypes, RequestTypes, WorkerTypesHold, ThreadTypes,
           PlayerTypes, FaultTypes DEF Next

-----------------------------------------------------------------------------
(* A transfer that is alone *)

(* No transfer begins or moves on, and the file and the directory stay.      *)
LEMMA AloneStays ==
    ASSUME AloneInv, UnpackedIsOffered, UNCHANGED <<part, dir>>,
           \A s \in Slots : /\ dl'[s].pc \in ActivePcs => Active(s)
                            /\ dl'[s].alone => /\ dl[s].alone
                                               /\ dl'[s].pc = dl[s].pc
                                               /\ dl'[s].hash = dl[s].hash
    PROVE  AloneInv' /\ UnpackedIsOffered'
<1>1. ASSUME NEW s \in Slots, dl'[s].alone
      PROVE  /\ dl'[s].pc \in ActivePcs
             /\ \A r \in Slots \ {s} : dl'[r].pc \notin ActivePcs
             /\ dl'[s].pc \in {"unpack", "unpacking"} => part' = Archive(dl'[s].hash)
             /\ dl'[s].pc \in Unpacked => dir' = dl'[s].hash
  BY <1>1 DEF AloneInv, UnpackedIsOffered, Active
<1> QED BY <1>1 DEF AloneInv, UnpackedIsOffered, Active

(* downloadManagerStartDownload: another one that starts is what ends it.    *)
LEMMA OfferAlone ==
    ASSUME Types, AloneInv, UnpackedIsOffered, OfferFile
    PROVE  AloneInv' /\ UnpackedIsOffered'
<1> DEFINE b == \A r \in Slots : ~Active(r)
<1>1. dl' = [s \in Slots |->
               IF s = ask.slot
               THEN [dl[s] EXCEPT !.pc = "pending", !.hash = ask.row, !.alone = b]
               ELSE [dl[s] EXCEPT !.alone = FALSE]]
  BY DEF OfferFile
<1>2. ask.slot \in Slots /\ dl \in [Slots -> SlotType] /\ b \in BOOLEAN
  BY DEF Types, SlotTypes, AskType
<1>3. b => \A r \in Slots : ~Active(r)
  OBVIOUS
<1> HIDE DEF b
<1>4. \A s \in Slots : s # ask.slot => ~dl'[s].alone /\ dl'[s].pc = dl[s].pc
  BY <1>1, <1>2 DEF SlotType
<1>5. dl'[ask.slot].pc = "pending" /\ dl'[ask.slot].alone = b
  BY <1>1, <1>2 DEF SlotType
<1> QED BY <1>2, <1>3, <1>4, <1>5
        DEF AloneInv, UnpackedIsOffered, Active, ActivePcs, Unpacked

(* downloadThread: who passed the test of the hash unpacks what was tested.  *)
LEMMA ThreadAlone ==
    ASSUME Types, AloneInv, UnpackedIsOffered, NEW s \in Slots, DownloadThread(s)
    PROVE  AloneInv' /\ UnpackedIsOffered'
<1>1. Active(s) /\ ThreadStep(s)
  BY ThreadSteps
<1>2. \A r \in Slots \ {s} : ~dl'[r].alone
  BY <1>1 DEF AloneInv, ThreadStep
<1>3. ASSUME dl'[s].alone
      PROVE  /\ dl[s].alone /\ dl'[s].hash = dl[s].hash
             /\ dl'[s].pc \in ActivePcs
             /\ \A r \in Slots \ {s} : dl'[r].pc \notin ActivePcs
  BY <1>1, <1>3 DEF AloneInv, ThreadStep, Active
<1>4. SUFFICES ASSUME dl'[s].alone
               PROVE  /\ dl'[s].pc \in {"unpack", "unpacking"}
                            => part' = Archive(dl[s].hash)
                      /\ dl'[s].pc \in Unpacked => dir' = dl[s].hash
  BY <1>2, <1>3 DEF AloneInv, UnpackedIsOffered, Active
<1>5. /\ dl \in [Slots -> SlotType] /\ dl[s].hash \in Builds
      /\ dl[s].pc \in {"unpack", "unpacking"} => part = Archive(dl[s].hash)
      /\ dl[s].pc \in Unpacked => dir = dl[s].hash
  BY <1>3, <1>4 DEF Types, SlotTypes, SlotType, AloneInv, UnpackedIsOffered
<1>a. ASSUME NEW pc \in ActivePcs, Go(s, pc)
      PROVE  dl'[s].pc = pc
  BY <1>5, <1>a, SlotGoes
<1>b. dl' # [dl EXCEPT ![s] = IdleSlot] /\ dl' # Unlink([dl EXCEPT ![s] = IdleSlot])
  BY <1>3, <1>4, <1>5, SlotIdle, SlotDiscarded DEF ActivePcs
<1> USE <1>a, <1>b, <1>5 DEF ActivePcs, Unpacked
<1>6. CASE OpenFile(s) \/ RecvChunk(s)
  <2>1. dl'[s].pc = "meta"
    BY <1>6 DEF OpenFile, RecvChunk, EndsFailed, SlotType
  <2> QED BY <2>1
<1>7. CASE WriteResumeMeta(s) \/ AllReceived(s)
  BY <1>7 DEF WriteResumeMeta, AllReceived
<1>8. CASE Verify(s)
  BY <1>8 DEF Verify, ComputeFileHash, Discard
<1>9. CASE UnpackBegin(s)
  BY <1>9 DEF UnpackBegin, Discard
<1>10. CASE UnpackEnd(s)
  <2>1. dl'[s].pc = "register" /\ dl[s].pc = "unpacking"
    BY <1>10 DEF UnpackEnd
  <2>2. PICK d \in Builds : part = Archive(d) /\ dir' \in ExtractTarGz(s, d)
    BY <1>10 DEF UnpackEnd
  <2>3. d = dl[s].hash
    BY <2>1, <2>2, ArchiveOfBuild
  <2>4. ~ \E r \in Slots \ {s} : dl[r].pc = "unpacking"
    BY <1>3, <1>4, <1>1 DEF ThreadStep
  <2> QED BY <2>1, <2>2, <2>3, <2>4 DEF ExtractTarGz
<1>11. CASE AddGame(s)
  BY <1>11 DEF AddGame
<1>12. CASE RemoveJsonAndPart(s)
  <2>1. dl[s].pc = "clean" /\ dir' = dir
    BY <1>12 DEF RemoveJsonAndPart
  <2>2. dl'[s].pc = "cleanMeta"
    <3>1. [dl EXCEPT ![s].pc = "cleanMeta"] \in [Slots -> SlotType]
      BY DEF SlotType
    <3>2. [dl EXCEPT ![s].pc = "cleanMeta"][s].pc = "cleanMeta"
      BY DEF SlotType
    <3> QED BY <1>12, <3>1, <3>2, Unlinked DEF RemoveJsonAndPart
  <2> QED BY <2>1, <2>2
<1>13. CASE RecvFails(s) \/ StopCancelled(s) \/ UnpackFails(s) \/ RemoveMeta(s)
  BY <1>13 DEF RecvFails, EndsFailed, StopCancelled, UnpackFails, RemoveMeta
<1> QED BY <1>6, <1>7, <1>8, <1>9, <1>10, <1>11, <1>12, <1>13 DEF DownloadThread

LEMMA StepAlone ==
    ASSUME Types, AloneInv, UnpackedIsOffered, [Next]_vars
    PROVE  AloneInv' /\ UnpackedIsOffered'
<1> USE IdleValues
<1>0. dl \in [Slots -> SlotType] /\ ask.slot \in Slots
  BY DEF Types, SlotTypes, AskType
<1>1. ASSUME UNCHANGED <<part, dir>>, UNCHANGED dl
      PROVE  AloneInv' /\ UnpackedIsOffered'
  BY <1>1, AloneStays DEF Active
<1>2. ASSUME UNCHANGED <<part, dir>>, NEW s \in Slots,
             dl' = [dl EXCEPT ![s] = IdleSlot]
      PROVE  AloneInv' /\ UnpackedIsOffered'
  BY <1>0, <1>2, AloneStays DEF Active, ActivePcs
<1>3. CASE Administrator
  BY <1>1, <1>3 DEF Administrator, UpdateVersion, PackBegin, PackEnd, UpdateFails,
     RegisterGamePlatform, DeleteRow, DeleteFiles, TuiStep, disk
<1>4. CASE FindGame \/ FindPlatform \/ NoFileToOffer \/ RequestFails
  <2>1. UNCHANGED <<part, dir>>
        /\ (UNCHANGED dl \/ dl' = [dl EXCEPT ![ask.slot] = IdleSlot])
    BY <1>4 DEF FindGame, FindPlatform, NoFileToOffer, RequestFails, Refuse, Answer,
                EndsFailed, disk
  <2> QED BY <1>0, <1>1, <1>2, <2>1
<1>5. CASE OfferFile
  BY <1>5, OfferAlone
<1>6. ASSUME NEW s \in Slots, WorkerReads(s)
      PROVE  AloneInv' /\ UnpackedIsOffered'
  BY <1>1, <1>6 DEF WorkerReads, disk
<1>7. ASSUME NEW s \in Slots, DownloadThread(s)
      PROVE  AloneInv' /\ UnpackedIsOffered'
  BY <1>7, ThreadAlone
<1>8. ASSUME NEW s \in Slots, StartDownload(s)
      PROVE  AloneInv' /\ UnpackedIsOffered'
  <2>1. UNCHANGED <<part, dir>>
    BY <1>8 DEF StartDownload, disk
  <2>2. \A r \in Slots \ {s} : dl'[r] = dl[r]
    BY <1>0, <1>8 DEF StartDownload
  <2>3. dl'[s].pc = "asking" /\ ~dl'[s].alone
    BY <1>0, <1>8 DEF StartDownload, IdleSlot
  <2> QED BY <2>1, <2>2, <2>3, AloneStays DEF Active, ActivePcs
<1>9. ASSUME NEW S, CancelSlots(S)
      PROVE  AloneInv' /\ UnpackedIsOffered'
  <2>1. UNCHANGED <<part, dir>>
    BY <1>9 DEF CancelSlots, disk
  <2>2. \A r \in Slots : /\ dl'[r].pc = dl[r].pc /\ dl'[r].hash = dl[r].hash
                         /\ dl'[r].alone = dl[r].alone
    BY <1>0, <1>9 DEF CancelSlots, SlotType
  <2> QED BY <2>1, <2>2, AloneStays DEF Active
<1>10. CASE DeleteGame
  BY <1>1, <1>10 DEF DeleteGame
<1>11. CASE ClientStops \/ ServerStops
  <2>1. UNCHANGED <<part, dir>>
    BY <1>11 DEF ClientStops, ServerStops, disk
  <2>2. \A r \in Slots : dl'[r] = dl[r] \/ dl'[r] = IdleSlot
    BY <1>11 DEF ClientStops, ServerStops
  <2> QED BY <2>1, <2>2, AloneStays DEF Active, ActivePcs
<1>12. ASSUME NEW s \in Slots, Breaks(s)
       PROVE  AloneInv' /\ UnpackedIsOffered'
  BY <1>2, <1>12 DEF Breaks, disk
<1>13. CASE UNCHANGED vars
  BY <1>1, <1>13 DEF vars
<1> QED BY <1>3, <1>4, <1>5, <1>6, <1>7, <1>8, <1>9, <1>10, <1>11, <1>12, <1>13
        DEF Next, Handler, Player, Cancel, Destroy, Faults

-----------------------------------------------------------------------------
(* The theorems *)

LEMMA InitInv == Init => IInv
<1> SUFFICES ASSUME Init PROVE IInv
  OBVIOUS
<1> USE IdleValues
<1>1. Types
  BY DEF Init, Types, LibraryTypes, DiskTypes, HistoryTypes, WorkerTypes,
         SlotTypes, LinkInv
<1>2. \A s \in Slots : ~dl[s].alone
  BY DEF Init
<1> QED BY <1>1, <1>2, TypesAre DEF IInv, AloneInv, UnpackedIsOffered

(* Whatever the administrator, the players, the threads and the crashes do,  *)
(* in any order and for any number of slots, builds and versions: the types  *)
(* hold, a request knows what it found, a linked descriptor has its file,    *)
(* and a transfer that is alone has the file for itself.                     *)
THEOREM LibraryInvariant == Spec => []IInv
<1>1. IInv /\ [Next]_vars => IInv'
  <2> SUFFICES ASSUME IInv, [Next]_vars PROVE IInv'
    OBVIOUS
  <2>1. Types'
    BY TypesAre, StepTypes DEF IInv
  <2>2. AloneInv' /\ UnpackedIsOffered'
    BY TypesAre, StepAlone DEF IInv
  <2>3. TypeOK' /\ RequestInv' /\ LinkInv'
    BY <2>1, TypesAre, PTL
  <2> QED BY <2>2, <2>3 DEF IInv
<1> QED BY InitInv, <1>1, PTL DEF Spec

(* gameDownload.c:600-730: what is registered is the whole build that the    *)
(* server had offered, through any number of resumed transfers, imports,     *)
(* deletions and crashes, unless two transfers of the game ran together.     *)
THEOREM UnpackedCorrect == Spec => []UnpackedIsOffered
BY LibraryInvariant, PTL DEF IInv

-----------------------------------------------------------------------------
(* An old file costs one attempt *)

(* A step that disturbs the client begins the count again.                   *)
LEMMA NotCounted ==
    ASSUME calm' = FALSE, strikes' = 0
    PROVE  HealInv'
BY DEF HealInv

(* Nothing is counted while nothing is calm and nothing has failed.          *)
LEMMA CountsNothing ==
    ASSUME HealInv, ~calm, strikes = 0,
           \/ UNCHANGED history \/ Disturb \/ (Struck /\ calm' = FALSE)
           \/ calm' = FALSE /\ strikes' = 0
    PROVE  HealInv'
<1>1. (strikes' = 0 /\ calm' = FALSE) \/ UNCHANGED <<calm, strikes>>
  BY DEF history, Disturb, Struck
<1> QED BY <1>1, NotCounted DEF HealInv

(* The first failure of a calm attempt: nothing of the file is left.         *)
LEMMA FirstStrike ==
    ASSUME calm, strikes = 0, Struck, calm' = FALSE, part' = NoFile,
           \A s \in Slots : dl'[s].pc = "idle"
    PROVE  HealInv'
<1>1. strikes' = 1
  BY DEF Struck
<1> QED BY <1>1 DEF HealInv

(* The archive of a build, chunk by chunk.                                   *)
Chunks(n, b) == [i \in 1..n |-> b]

LEMMA ChunksGrow ==
    ASSUME NEW b \in Builds
    PROVE  /\ Chunks(0, b) = <<>>
           /\ Chunks(ChunksOf[b], b) = Archive(b)
           /\ \A n \in Nat : Len(Chunks(n, b)) = n /\ Chunks(n, b) \in File
           /\ \A n \in Nat : PWrite(Chunks(n, b), n + 1, b) = Chunks(n + 1, b)
           /\ Archive(b) # NoFile
<1>1. Chunks(ChunksOf[b], b) = Archive(b)
  BY DEF Chunks, Archive
<1>2. \A n \in Nat : Len(Chunks(n, b)) = n /\ Chunks(n, b) \in File
  BY DEF Chunks, File
<1>3. Chunks(0, b) = <<>>
  BY DEF Chunks
<1>4. ASSUME NEW n \in Nat  PROVE PWrite(Chunks(n, b), n + 1, b) = Chunks(n + 1, b)
  <2> DEFINE f == Chunks(n, b)
  <2>1. Len(f) = n /\ \A j \in 1..n : f[j] = b
    BY <1>2 DEF Chunks
  <2> HIDE DEF f
  <2>2. PWrite(f, n + 1, b) = [j \in 1..(n + 1) |->
          IF j = n + 1 THEN b ELSE IF j <= n THEN f[j] ELSE Junk]
    BY <2>1 DEF PWrite
  <2>3. \A j \in 1..(n + 1) : (IF j = n + 1 THEN b ELSE IF j <= n THEN f[j] ELSE Junk) = b
    BY <2>1
  <2>4. PWrite(f, n + 1, b) = Chunks(n + 1, b)
    BY <2>2, <2>3 DEF Chunks
  <2> QED BY <2>4 DEF f
<1>5. Archive(b) # NoFile
  BY ArchiveOfBuild, GameLibraryAssumption DEF File
<1> QED BY <1>1, <1>2, <1>3, <1>4, <1>5

(* gameDownload.c: the thread of the one attempt goes on.                    *)
LEMMA AttemptGoes ==
    ASSUME calm, strikes \in {0, 1}, NEW s \in Slots, CalmAttempt(s), Active(s),
           UNCHANGED <<library, ask, history>>,
           \A r \in Slots \ {s} : dl'[r].pc = dl[r].pc,
           dl'[s].hash = dl[s].hash, dl'[s].pc \in ActivePcs \ {"pending"},
           dl'[s].pc \in {"meta", "recv"} =>
             dl'[s].linked /\ worker'[s] = worker[s] /\ dl[s].pc \in {"pending", "meta", "recv"},
           dl'[s].pc = "unpack" => part' = Archive(row),
           strikes = 1 =>
             /\ dl'[s].pc \in {"meta", "recv"} =>
                  /\ dl'[s].received <= Total(s)
                  /\ part' = [i \in 1..dl'[s].received |-> dl[s].hash]
             /\ dl'[s].pc = "verify" => part' = Archive(dl[s].hash)
    PROVE  HealInv'
<1>1. UNCHANGED <<version, row, archive, tui, ask, calm, strikes>>
  BY DEF library, history
<1>2. dl'[s].pc \notin {"idle", "asking", "pending"} /\ Active(s)'
  BY DEF ActivePcs, Active
<1>3. Sound'
  BY <1>1 DEF CalmAttempt, Sound
<1>4. CalmAttempt(s)'
  BY <1>1, <1>2, <1>3 DEF CalmAttempt
<1>5. strikes = 1 => FromScratch(s)'
  <2>1. Total(s)' = Total(s)
    BY DEF Total
  <2> QED BY <1>2, <2>1 DEF FromScratch
<1> QED BY <1>1, <1>4, <1>5 DEF HealInv

(* gameDownload.c: opening the file, and the chunks.                         *)
LEMMA ReceivingHeals ==
    ASSUME Types, calm, strikes \in {0, 1}, NEW s \in Slots, CalmAttempt(s),
           strikes = 1 => FromScratch(s), OpenFile(s) \/ WriteResumeMeta(s) \/ RecvChunk(s)
    PROVE  HealInv'
<1>0. /\ dl \in [Slots -> SlotType] /\ dl[s] \in SlotType /\ Active(s)
      /\ dl[s].hash = row /\ dl[s].hash \in Builds /\ dl[s].received \in Nat
      /\ ChunksOf[dl[s].hash] \in Nat \ {0}
      /\ \A r \in Slots \ {s} : dl[r].pc = "idle"
  BY GameLibraryAssumption
     DEF Types, SlotTypes, SlotType, CalmAttempt, Active, ActivePcs, OpenFile, WriteResumeMeta, RecvChunk
<1>1. CASE OpenFile(s)
  <2>1. CASE dl[s].received > 0 /\ part = NoFile /\ EndsFailed(s) /\ UNCHANGED part
    <3>1. strikes = 0
      BY <1>1, <2>1 DEF FromScratch, OpenFile
    <3>2. \A r \in Slots : dl'[r].pc = "idle"
      BY <1>0, <2>1, IdleValues DEF EndsFailed
    <3> QED BY <2>1, <3>1, <3>2, FirstStrike DEF EndsFailed
  <2>2. CASE /\ part' = IF dl[s].received > 0 THEN part ELSE <<>>
             /\ dl' = [dl EXCEPT ![s].pc = "meta", ![s].linked = TRUE]
             /\ UNCHANGED <<worker, history>>
    <3>1. /\ dl'[s].pc = "meta" /\ dl'[s].linked /\ dl'[s].hash = dl[s].hash
          /\ dl'[s].received = dl[s].received
          /\ \A r \in Slots \ {s} : dl'[r] = dl[r]
      BY <1>0, <2>2 DEF SlotType
    <3>2. UNCHANGED <<library, ask, worker>> /\ dl[s].pc = "pending"
      BY <1>1, <2>2 DEF OpenFile
    <3>3. strikes = 1 => dl'[s].received = 0 /\ part' = Chunks(0, dl[s].hash)
      BY <1>0, <2>2, <3>1, <3>2, ChunksGrow DEF FromScratch
    <3>4. strikes = 1 => /\ dl'[s].received <= Total(s)
                         /\ part' = [i \in 1..dl'[s].received |-> dl[s].hash]
      BY <1>0, <3>3 DEF Chunks, Total
    <3> QED BY <1>0, <2>2, <3>1, <3>2, <3>4, AttemptGoes DEF ActivePcs
  <2> QED BY <1>1, <2>1, <2>2, Zenon DEF OpenFile
<1>2. CASE WriteResumeMeta(s)
  <2>1. /\ dl'[s].pc = "recv" /\ dl'[s].linked = dl[s].linked /\ dl'[s].hash = dl[s].hash
        /\ dl'[s].received = dl[s].received
        /\ \A r \in Slots \ {s} : dl'[r] = dl[r]
    BY <1>0, <1>2 DEF SlotType, WriteResumeMeta, Go
  <2>2. UNCHANGED <<library, ask, worker, history, part>> /\ dl[s].pc = "meta"
    BY <1>2 DEF WriteResumeMeta, transfer
  <2>3. dl[s].linked
    BY <2>2 DEF CalmAttempt
  <2>4. strikes = 1 => /\ dl'[s].received <= Total(s)
                       /\ part' = [i \in 1..dl'[s].received |-> dl[s].hash]
    BY <2>1, <2>2 DEF FromScratch
  <2> QED BY <1>0, <2>1, <2>2, <2>3, <2>4, AttemptGoes DEF ActivePcs
<1>3. CASE RecvChunk(s)
  <2>1. PICK n \in Nat : n = dl[s].received
    BY <1>0
  <2>2. PICK b \in Builds : b = dl[s].hash
    BY <1>0
  <2>3. /\ UNCHANGED <<library, ask, worker, history>> /\ dl[s].pc = "recv"
        /\ worker[s].pc = "sending" /\ n < ChunksOf[b]
        /\ dl' = [dl EXCEPT ![s].received = n + 1, ![s].pc = "meta"]
        /\ \E chunk \in SendChunk(s, n + 1) :
             part' = IF dl[s].linked /\ chunk # <<>>
                     THEN PWrite(part, n + 1, Head(chunk)) ELSE part
    BY <1>3, <2>1, <2>2 DEF RecvChunk, transfer, Total
  <2>4. PICK m \in Nat : m = n + 1
    OBVIOUS
  <2>5. dl' = [dl EXCEPT ![s] = [dl[s] EXCEPT !.received = m, !.pc = "meta"]]
    BY <1>0, <2>3, <2>4
  <2>6. /\ dl'[s].pc = "meta" /\ dl'[s].linked = dl[s].linked /\ dl'[s].hash = b
        /\ dl'[s].received = m
        /\ \A r \in Slots \ {s} : dl'[r] = dl[r]
    BY <1>0, <2>2, <2>5 DEF SlotType
  <2>7. dl[s].linked /\ worker[s].data = Archive(b)
    BY <1>0, <2>2, <2>3 DEF CalmAttempt
  <2>8. SendChunk(s, n + 1) = {<<b>>}
    <3>1. Archive(b)[n + 1] = b /\ Len(Archive(b)) = ChunksOf[b]
      BY <2>3, GameLibraryAssumption DEF Archive
    <3>2. n + 1 <= ChunksOf[b]
      BY <2>3, GameLibraryAssumption
    <3> QED BY <2>7, <3>1, <3>2 DEF SendChunk
  <2>9. part' = PWrite(part, n + 1, b)
    <3>1. <<b>> # <<>> /\ Head(<<b>>) = b
      OBVIOUS
    <3> QED BY <2>3, <2>7, <2>8, <3>1
  <2>10. strikes = 1 => m <= ChunksOf[b] /\ part' = Chunks(m, b)
    <3> SUFFICES ASSUME strikes = 1  PROVE m <= ChunksOf[b] /\ part' = Chunks(m, b)
      OBVIOUS
    <3>1. part = Chunks(n, b)
      BY <2>1, <2>2, <2>3 DEF FromScratch, Chunks
    <3>2. part' = Chunks(n + 1, b)
      BY <2>9, <3>1, ChunksGrow
    <3>3. m <= ChunksOf[b]
      BY <2>3, <2>4, GameLibraryAssumption
    <3> QED BY <2>4, <3>2, <3>3
  <2>11. strikes = 1 => /\ dl'[s].received <= Total(s)
                        /\ part' = [i \in 1..dl'[s].received |-> dl[s].hash]
    BY <2>2, <2>6, <2>10 DEF Total, Chunks
  <2> QED BY <1>0, <2>2, <2>3, <2>6, <2>7, <2>11, AttemptGoes DEF ActivePcs
<1> QED BY <1>1, <1>2, <1>3

(* gameDownload.c: the whole file is there.                                  *)
LEMMA AttemptStepsTo ==
    ASSUME Types, calm, strikes \in {0, 1}, NEW s \in Slots, CalmAttempt(s), Active(s),
           NEW pc \in ActivePcs \ {"pending", "meta", "recv"}, Go(s, pc),
           UNCHANGED <<library, ask, history>>,
           pc = "unpack" => part' = Archive(row),
           strikes = 1 /\ pc = "verify" => part' = Archive(dl[s].hash)
    PROVE  HealInv'
<1>1. dl \in [Slots -> SlotType]
  BY DEF Types, SlotTypes
<1>2. /\ dl'[s].pc = pc /\ dl'[s].hash = dl[s].hash
      /\ \A r \in Slots \ {s} : dl'[r] = dl[r]
  BY <1>1 DEF Go, SlotType
<1> QED BY <1>2, AttemptGoes

(* gameDownload.c: the end of the attempt.                                   *)
LEMMA FinishingHeals ==
    ASSUME Types, calm, strikes \in {0, 1}, NEW s \in Slots, CalmAttempt(s), Active(s),
           strikes = 1 => FromScratch(s),
           \/ AllReceived(s) \/ Verify(s) \/ UnpackBegin(s) \/ UnpackEnd(s)
           \/ AddGame(s) \/ RemoveJsonAndPart(s)
    PROVE  HealInv'
<1>0. /\ dl \in [Slots -> SlotType] /\ dl[s] \in SlotType
      /\ dl[s].hash = row /\ dl[s].hash \in Builds /\ dl[s].received \in Nat
      /\ ChunksOf[dl[s].hash] \in Nat \ {0}
      /\ \A r \in Slots \ {s} : dl[r].pc = "idle"
  BY GameLibraryAssumption DEF Types, SlotTypes, SlotType, CalmAttempt
<1>1. CASE AllReceived(s)
  <2>1. /\ dl[s].pc = "recv" /\ dl[s].received >= Total(s) /\ Go(s, "verify")
        /\ UNCHANGED <<library, ask, history, part>>
    BY <1>1 DEF AllReceived, disk
  <2>2. strikes = 1 => part' = Archive(dl[s].hash)
    <3> SUFFICES ASSUME strikes = 1  PROVE part = Archive(dl[s].hash)
      BY <2>1
    <3>1. dl[s].received <= Total(s) /\ part = [i \in 1..dl[s].received |-> dl[s].hash]
      BY <2>1 DEF FromScratch
    <3>2. dl[s].received = ChunksOf[dl[s].hash]
      BY <1>0, <2>1, <3>1 DEF Total
    <3> QED BY <3>1, <3>2 DEF Archive
  <2> QED BY <2>1, <2>2, AttemptStepsTo DEF ActivePcs
<1>2. CASE Verify(s)
  <2>1. dl[s].pc = "verify" /\ UNCHANGED <<library, ask>>
    BY <1>2 DEF Verify
  <2>2. CASE part = Archive(dl[s].hash)
    <3>1. Go(s, "unpack") /\ UNCHANGED <<part, history>>
      BY <1>2, <2>2 DEF Verify, ComputeFileHash
    <3> QED BY <1>0, <2>1, <2>2, <3>1, AttemptStepsTo DEF ActivePcs
  <2>3. CASE part # Archive(dl[s].hash)
    <3>1. Discard(s)
      BY <1>2, <2>3 DEF Verify, ComputeFileHash
    <3>2. strikes = 0
      BY <2>1, <2>3 DEF FromScratch
    <3>3. Struck /\ calm' = FALSE /\ part' = NoFile
          /\ dl' = Unlink([dl EXCEPT ![s] = IdleSlot])
      BY <3>1 DEF Discard, RemoveBoth
    <3>4. dl'[s].pc = "idle" /\ \A r \in Slots \ {s} : dl'[r].pc = dl[r].pc
      BY <1>0, <3>3, SlotDiscarded DEF ThreadStep
    <3> QED BY <1>0, <3>2, <3>3, <3>4, FirstStrike
  <2> QED BY <2>2, <2>3
<1>3. CASE UnpackBegin(s)
  <2>1. part = Archive(row) /\ part # NoFile
    BY <1>0, <1>3, ChunksGrow DEF UnpackBegin, CalmAttempt
  <2>2. Go(s, "unpacking") /\ UNCHANGED <<library, ask, history>>
    BY <1>3, <2>1 DEF UnpackBegin
  <2> QED BY <2>2, AttemptStepsTo DEF ActivePcs
<1>4. CASE UnpackEnd(s)
  <2>1. Go(s, "register") /\ UNCHANGED <<library, ask, history>>
    BY <1>4 DEF UnpackEnd, transfer
  <2> QED BY <2>1, AttemptStepsTo DEF ActivePcs
<1>5. CASE AddGame(s)
  <2>1. Go(s, "clean") /\ UNCHANGED <<library, ask, history>>
    BY <1>5 DEF AddGame, transfer
  <2> QED BY <2>1, AttemptStepsTo DEF ActivePcs
<1>6. CASE RemoveJsonAndPart(s)
  <2>1. PICK d : d = [dl EXCEPT ![s].pc = "cleanMeta"]
    OBVIOUS
  <2>2. /\ d \in [Slots -> SlotType] /\ d[s].pc = "cleanMeta" /\ d[s].hash = dl[s].hash
        /\ \A r \in Slots \ {s} : d[r] = dl[r]
    BY <1>0, <2>1 DEF SlotType, ActivePcs
  <2>3. dl' = Unlink(d) /\ UNCHANGED <<library, ask, history>>
    BY <1>6, <2>1 DEF RemoveJsonAndPart, transfer
  <2>4. /\ dl'[s].pc = "cleanMeta" /\ dl'[s].hash = dl[s].hash
        /\ \A r \in Slots \ {s} : dl'[r].pc = dl[r].pc
    BY <2>2, <2>3, Unlinked
  <2> QED BY <2>3, <2>4, AttemptGoes DEF ActivePcs
<1> QED BY <1>1, <1>2, <1>3, <1>4, <1>5, <1>6

(* gameDownload.c, downloadThread: who is at work is the calm attempt, if    *)
(* there is one.                                                             *)
LEMMA ThreadHeals ==
    ASSUME Types, HealInv, NEW s \in Slots, DownloadThread(s)
    PROVE  HealInv'
<1>1. Active(s)
  BY ThreadSteps
<1>2. CASE StopCancelled(s) \/ UnpackFails(s) \/ RemoveMeta(s)
  BY <1>2, NotCounted DEF StopCancelled, UnpackFails, RemoveMeta, Disturb
<1>3. CASE ~calm /\ strikes = 0
  <2>1. \/ UNCHANGED history \/ Disturb \/ (Struck /\ calm' = FALSE)
        \/ calm' = FALSE /\ strikes' = 0
    BY Zenon DEF DownloadThread, OpenFile, EndsFailed, WriteResumeMeta, RecvChunk, RecvFails,
           StopCancelled, AllReceived, Verify, Discard, UnpackBegin, UnpackEnd, UnpackFails,
           AddGame, RemoveJsonAndPart, RemoveMeta
  <2> QED BY <1>3, <2>1, CountsNothing
<1>4. CASE calm
  <2>1. strikes \in {0, 1}
    BY DEF HealInv
  <2>2. CalmAttempt(s) /\ (strikes = 1 => FromScratch(s))
    <3>1. PICK q \in Slots : CalmAttempt(q) /\ (strikes = 1 => FromScratch(q))
      BY <1>4 DEF HealInv
    <3>2. q = s
      BY <1>1, <3>1 DEF CalmAttempt, Active, ActivePcs
    <3> QED BY <3>1, <3>2
  <2>3. ~RecvFails(s)
    BY <2>2 DEF CalmAttempt, RecvFails
  <2> QED BY <1>1, <1>2, <1>4, <2>1, <2>2, <2>3, ReceivingHeals, FinishingHeals, Zenon
          DEF DownloadThread
<1> QED BY <1>1, <1>3, <1>4 DEF HealInv, Active, ActivePcs

(* gameDistribution.c: a calm attempt finds its game, its platform and its   *)
(* file.                                                                     *)
LEMMA RequestHeals ==
    ASSUME Types, HealInv, Handler
    PROVE  HealInv'
<1>0. /\ dl \in [Slots -> SlotType] /\ ask \in AskType /\ ask.slot \in Slots
      /\ \A s \in Slots : dl[s].pc = "asking" <=> ask.pc # "none" /\ ask.slot = s
      /\ ask.pc \in {"platform", "file"} => ask.version \in Versions
      /\ ask.pc = "file" => ask.row \in Builds
  BY DEF Types, SlotTypes, AskType
<1>1. ask.pc \in {"game", "platform", "file"}
  BY DEF Handler, FindGame, FindPlatform, OfferFile, NoFileToOffer
<1>2. PICK s \in Slots : s = ask.slot
  BY <1>0
<1>3. dl[s].pc = "asking"
  BY <1>0, <1>1, <1>2
<1>4. CASE ~calm
  <2>1. strikes = 0
    BY <1>3, <1>4 DEF HealInv
  <2>2. UNCHANGED history \/ (Struck /\ calm' = FALSE)
    BY DEF Handler, FindGame, FindPlatform, OfferFile, NoFileToOffer, Answer, Refuse, EndsFailed, history
  <2> QED BY <1>4, <2>1, <2>2, CountsNothing
<1>5. CASE calm
  <2>1. CalmAttempt(s) /\ (strikes = 1 => FromScratch(s)) /\ strikes \in {0, 1}
    <3>1. PICK q \in Slots : CalmAttempt(q) /\ (strikes = 1 => FromScratch(q))
      BY <1>5 DEF HealInv
    <3>2. q = s
      BY <1>3, <3>1 DEF CalmAttempt
    <3> QED BY <3>1, <3>2 DEF HealInv
  <2>2. /\ version \in Versions /\ row # NoRow /\ row \in Builds /\ tui.pc = "idle"
        /\ archive[version] = Archive(row) /\ archive[version] # NoFile
    BY <2>1, ChunksGrow DEF CalmAttempt, Sound, Types, LibraryTypes
  <2>3. ASSUME NEW pc \in {"platform", "file"}, NEW r, pc = "file" => r = row, Answer(pc, version, r)
        PROVE  HealInv'
    <3>1. ask' = [ask EXCEPT !.pc = pc, !.version = version, !.row = r]
          /\ UNCHANGED <<version, row, archive, tui, worker, part, dl, calm, strikes>>
      BY <2>3 DEF Answer, library, disk, history
    <3>2. ask'.pc = pc /\ ask'.version = version /\ ask'.row = r
      BY <1>0, <3>1 DEF AskType
    <3>3. CalmAttempt(s)' /\ (strikes = 1 => FromScratch(s)')
      BY <2>1, <2>3, <3>1, <3>2 DEF CalmAttempt, Sound, Active, FromScratch, Total
    <3> QED BY <1>5, <2>1, <3>1, <3>3 DEF HealInv
  <2>4. CASE FindGame
    <3>1. Answer("platform", version, NoRow)
      BY <2>2, <2>4 DEF FindGame, GetGameById
    <3> QED BY <2>3, <3>1
  <2>5. CASE FindPlatform
    <3>1. Answer("file", ask.version, row) /\ ask.version = version
      BY <2>1, <2>2, <2>5 DEF FindPlatform, GetGamePlatform, CalmAttempt
    <3>2. Answer("file", version, row)
      BY <3>1
    <3> QED BY <2>3, <3>2
  <2>6. ~NoFileToOffer
    BY <2>1, <2>2 DEF NoFileToOffer, CalmAttempt
  <2>7. CASE OfferFile
    <3>1. ask.pc = "file" /\ ask.version = version /\ ask.row = row
      BY <2>1, <2>7 DEF OfferFile, CalmAttempt
    <3>2. PICK w : w = [pc |-> "started", path |-> version, data |-> <<>>]
      OBVIOUS
    <3>3. w.pc = "started" /\ w.path = version
      BY <3>2
    <3>4. worker' = [worker EXCEPT ![s] = w]
      BY <1>2, <2>7, <3>1, <3>2 DEF OfferFile
    <3>5. worker'[s] = w
      BY <3>4 DEF Types, WorkerTypes
    <3>6. PICK b \in BOOLEAN : b = \A r \in Slots : ~Active(r)
      OBVIOUS
    <3>7. dl' = [q \in Slots |->
                  IF q = s THEN [dl[q] EXCEPT !.pc = "pending", !.hash = row, !.alone = b]
                  ELSE [dl[q] EXCEPT !.alone = FALSE]]
      BY <1>2, <2>7, <3>1, <3>6 DEF OfferFile
    <3>8. /\ dl'[s].pc = "pending" /\ dl'[s].hash = row /\ dl'[s].received = dl[s].received
          /\ \A q \in Slots \ {s} : dl'[q].pc = dl[q].pc
      <4>1. dl'[s] = [dl[s] EXCEPT !.pc = "pending", !.hash = row, !.alone = b]
        BY <3>7
      <4>2. \A q \in Slots \ {s} : dl'[q] = [dl[q] EXCEPT !.alone = FALSE]
        BY <3>7
      <4>3. /\ dl'[s].pc = "pending" /\ dl'[s].hash = row /\ dl'[s].received = dl[s].received
        BY <1>0, <4>1 DEF SlotType
      <4>4. ASSUME NEW q \in Slots \ {s}  PROVE dl'[q].pc = dl[q].pc
        <5>1. dl'[q] = [dl[q] EXCEPT !.alone = FALSE] /\ dl[q] \in SlotType
          BY <1>0, <4>2
        <5> QED BY <5>1 DEF SlotType
      <4> QED BY <4>3, <4>4
    <3>9. /\ UNCHANGED <<version, row, archive, tui, calm, strikes>> /\ ask'.pc = "none"
      BY <2>7, IdleValues DEF OfferFile, library, history
    <3>10. CalmAttempt(s)'
      BY <2>1, <3>3, <3>5, <3>8, <3>9 DEF CalmAttempt, Sound
    <3>11. strikes = 1 => FromScratch(s)'
      BY <1>3, <2>1, <3>8 DEF FromScratch
    <3> QED BY <1>5, <2>1, <3>9, <3>10, <3>11 DEF HealInv
  <2> QED BY <2>4, <2>5, <2>6, <2>7 DEF Handler
<1> QED BY <1>4, <1>5

(* downloadPool.c: the file that the worker reads is the one offered.        *)
LEMMA WorkerHeals ==
    ASSUME Types, HealInv, NEW r \in Slots, WorkerReads(r)
    PROVE  HealInv'
<1>1. UNCHANGED <<version, row, archive, tui, ask, part, dl, calm, strikes>>
  BY DEF WorkerReads, library, disk, history
<1>2. CASE ~calm
  BY <1>1, <1>2 DEF HealInv
<1>3. CASE calm
  <2>1. PICK s \in Slots : CalmAttempt(s) /\ (strikes = 1 => FromScratch(s))
    BY <1>3 DEF HealInv
  <2>2. worker \in [Slots -> WorkerType]
    BY DEF Types, WorkerTypes
  <2>3. CASE r # s
    <3>1. worker'[s] = worker[s]
      BY <2>2, <2>3 DEF WorkerReads
    <3>2. CalmAttempt(s)' /\ (strikes = 1 => FromScratch(s)')
      BY <1>1, <2>1, <3>1 DEF CalmAttempt, Sound, Active, FromScratch, Total
    <3> QED BY <1>1, <3>2 DEF HealInv
  <2>4. CASE r = s
    <3>1. row \in Builds /\ archive[version] = Archive(row) /\ archive[version] # NoFile
      BY <2>1, ChunksGrow DEF CalmAttempt, Sound, Types, LibraryTypes
    <3>2. dl[s].pc \in {"pending", "meta", "recv"} => worker[s].path = version
      BY <2>1, <2>4 DEF CalmAttempt, WorkerReads
    <3>3. dl[s].pc \in {"pending", "meta", "recv"} =>
            worker'[s].pc = "sending" /\ worker'[s].data = Archive(row)
      BY <2>2, <2>4, <3>1, <3>2 DEF WorkerReads, ReadFilePlaintext, WorkerType
    <3>4. CalmAttempt(s)' /\ (strikes = 1 => FromScratch(s)')
      BY <1>1, <2>1, <3>3 DEF CalmAttempt, Sound, Active, FromScratch, Total
    <3> QED BY <1>1, <3>4 DEF HealInv
  <2> QED BY <2>3, <2>4
<1> QED BY <1>2, <1>3

(* gameDownload.c, downloadManagerStartDownload: after a failure there is    *)
(* nothing to resume.                                                        *)
LEMMA StartHeals ==
    ASSUME Types, HealInv, NEW s \in Slots, StartDownload(s)
    PROVE  HealInv'
<1>1. CASE calm' = FALSE
  BY <1>1, NotCounted DEF StartDownload
<1>2. CASE calm' # FALSE
  <2>1. /\ calm' = TRUE /\ strikes' = strikes /\ Sound /\ \A r \in Slots : ~Active(r)
        /\ ask.pc = "none" /\ UNCHANGED <<version, row, archive, tui, worker, part>>
    BY <1>2 DEF StartDownload, library, disk
  <2>2. PICK n : n = Resume
    OBVIOUS
  <2>3. /\ dl' = [dl EXCEPT ![s] = [IdleSlot EXCEPT !.pc = "asking", !.received = n]]
        /\ ask' = [NoAsk EXCEPT !.pc = "game", !.slot = s]
    BY <2>2 DEF StartDownload
  <2>4. /\ dl'[s].pc = "asking" /\ dl'[s].received = n /\ ask'.pc = "game"
        /\ \A r \in Slots \ {s} : dl'[r].pc = dl[r].pc
    BY <2>3 DEF Types, SlotTypes, IdleSlot, NoAsk
  <2>5. \A r \in Slots : dl[r].pc = "idle"
    BY <2>1 DEF Types, SlotTypes, SlotType, Active
  <2>6. CalmAttempt(s)'
    BY <2>1, <2>4, <2>5 DEF CalmAttempt, Sound, Active, ActivePcs
  <2>7. ~calm
    BY <2>5 DEF HealInv, CalmAttempt
  <2>8. strikes = 1 => FromScratch(s)'
    <3>1. strikes = 1 => n = 0
      BY <2>2, <2>7 DEF HealInv, Resume
    <3> QED BY <2>4, <3>1 DEF FromScratch
  <2> QED BY <2>1, <2>6, <2>8 DEF HealInv
<1> QED BY <1>1, <1>2

LEMMA StepHeals ==
    ASSUME Types, HealInv, [Next]_vars
    PROVE  HealInv'
<1>1. CASE Disturb
  BY <1>1, NotCounted DEF Disturb
<1>2. CASE DeleteGame \/ UNCHANGED vars
  <2>1. UNCHANGED <<version, row, archive, tui, ask, worker, part, dl, calm, strikes>>
    BY <1>2 DEF DeleteGame, library, transfer, history, vars
  <2>2. Sound' = Sound
    BY <2>1 DEF Sound
  <2> QED BY <2>1, <2>2 DEF HealInv, CalmAttempt, Active, FromScratch, Total
<1>3. CASE Administrator \/ Faults
  BY <1>1, <1>3 DEF Administrator, UpdateVersion, PackBegin, PackEnd, UpdateFails,
     RegisterGamePlatform, DeleteRow, DeleteFiles, TuiStep, Faults, RequestFails, ClientStops,
     ServerStops, Breaks
<1>4. CASE Player
  BY <1>1, <1>2, <1>4, StartHeals DEF Player, Cancel, Destroy, CancelSlots
<1> QED BY <1>2, <1>3, <1>4, RequestHeals, WorkerHeals, ThreadHeals DEF Next

(* The inductive invariant of the attempts: a calm one has the library, its  *)
(* worker and its slot for itself, and after a failure it writes the file    *)
(* from the first chunk on (gameDownload.c, downloadThread).                 *)
THEOREM HealInvariant == Spec => []HealInv
<1>1. Init => HealInv
  BY DEF Init, HealInv
<1>2. IInv => Types
  BY TypesAre DEF IInv
<1>3. Types /\ HealInv /\ [Next]_vars => HealInv'
  BY StepHeals
<1> QED BY <1>1, <1>2, <1>3, LibraryInvariant, PTL DEF Spec

(* gameDownload.c:330 and 600: whatever old file and chunk count a crash     *)
(* left behind, two undisturbed attempts in a row do not fail.               *)
THEOREM HealsCorrect == Spec => []HealsAfterOneFailure
<1>1. HealInv => HealsAfterOneFailure
  BY DEF HealInv, HealsAfterOneFailure
<1> QED BY <1>1, HealInvariant, PTL
=============================================================================
