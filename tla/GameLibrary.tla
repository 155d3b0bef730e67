---------------------------- MODULE GameLibrary ----------------------------
(***************************************************************************)
(* One game on its way from the administrator to a player: gameControl.c   *)
(* puts a build into the library of the server, gameDistribution.c offers  *)
(* it, a worker of downloadPool.c sends it, and gameDownload.c of one      *)
(* client receives, verifies, unpacks and registers it.                    *)
(*                                                                         *)
(* Files and rows of different games have different names, so one game is  *)
(* enough; only the slots of the download manager are shared.  A game that *)
(* is deleted and imported again has another id.  The threads              *)
(* are the TUI of the server, its event loop, a worker for each transfer,  *)
(* the TUI of the client and a thread for each slot.  Server and client    *)
(* may crash at any moment, and any system call may fail.                  *)
(*                                                                         *)
(* The content of a file is the sequence of its chunks, and a chunk is     *)
(* known by the build it comes from.  The hash of a file tells whether it  *)
(* is the whole archive of a build.  Tokens are the subject of             *)
(* DownloadPool: here a transfer gets through to its worker or breaks.  An *)
(* acknowledgement is lost only with its connection, so that nothing is    *)
(* sent twice.                                                             *)
(***************************************************************************)
EXTENDS Naturals, Sequences, SequencesExt

CONSTANTS
    MaxDownloads,       \* MAX_CLIENT_DOWNLOADS
    Builds,             \* archives that the administrator may import
    Versions,
    VersionOf,          \* the version in the metadata.json of a build
    ChunksOf,           \* the size of its download archive in chunks
    NoVersion, Deleted, NoRow, NoFile, NoMeta, NoGame, Junk

ASSUME GameLibraryAssumption ==
    /\ MaxDownloads \in Nat \ {0}
    /\ Builds # {}
    /\ VersionOf \in [Builds -> Versions]
    /\ ChunksOf \in [Builds -> Nat \ {0}]
    /\ NoVersion \notin Versions /\ Deleted \notin Versions
    /\ NoVersion # Deleted
    /\ Junk \notin Builds /\ NoRow \notin Builds /\ NoGame \notin Builds
    /\ NoMeta \notin Nat
    /\ NoFile \notin Seq(Builds \cup {Junk})

Slots == 1..MaxDownloads
File  == Seq(Builds \cup {Junk})
Archive(b) == [i \in 1..ChunksOf[b] |-> b]

VARIABLES
    version,    \* server: the row of games, or NoVersion, or Deleted
    row,        \* server: the client row of game_platforms, by its hash
    archive,    \* server: download.tar.gz of each version
    tui,        \* server: where the TUI is in gameCtlUpdate or gameCtlDelete
    ask,        \* the request that the client waits for, in serverHandleGameDownload
    worker,     \* the worker of each slot: [pc, path, data]
    part,       \* client: <id>.downloading
    meta,       \* client: receivedChunks in <id>.downloading.meta
    dir,        \* client: the build in the directory <id>, NoGame or Junk
    json,       \* client: metadata.json is in that directory
    installed,  \* client: the hash in the row of gameList, or NoGame
    dl,         \* client: the slots of the download manager
    calm,       \* history: the current attempt has not been disturbed
    strikes     \* history: attempts that failed in a row, undisturbed

library == <<version, row, archive, tui>>
transfer == <<ask, worker>>
disk == <<part, meta, dir, json, installed>>
history == <<calm, strikes>>
vars == <<version, row, archive, tui, ask, worker, part, meta, dir, json,
          installed, dl, calm, strikes>>

NoBuild == CHOOSE b \in Builds : TRUE
IdleTui == [pc |-> "idle", build |-> NoBuild]
NoAsk   == [pc |-> "none", slot |-> 1, version |-> NoVersion, row |-> NoRow]
NoWork  == [pc |-> "none", path |-> NoVersion, data |-> <<>>]
IdleSlot == [pc |-> "idle", hash |-> NoBuild, received |-> 0,
             cancelled |-> FALSE, linked |-> FALSE, alone |-> FALSE]

ActivePcs == {"pending", "meta", "recv", "verify", "unpack", "unpacking",
              "register", "clean", "cleanMeta"}

(* Type invariant.  A worker serves a slot that is in a transfer.            *)
TypeOK ==
    /\ version \in Versions \cup {NoVersion, Deleted}
    /\ row \in Builds \cup {NoRow}
    /\ archive \in [Versions -> File \cup {NoFile}]
    /\ tui \in [pc : {"idle", "files", "packing", "row", "rmrf"}, build : Builds]
    /\ ask \in [pc : {"none", "game", "platform", "file"}, slot : Slots,
                version : Versions \cup {NoVersion}, row : Builds \cup {NoRow}]
    /\ worker \in [Slots -> [pc : {"none", "started", "sending", "closed"},
                             path : Versions \cup {NoVersion}, data : File]]
    /\ part \in File \cup {NoFile}
    /\ meta \in Nat \cup {NoMeta}
    /\ dir \in Builds \cup {Junk, NoGame}
    /\ json \in BOOLEAN
    /\ installed \in Builds \cup {NoGame}
    /\ dl \in [Slots -> [pc : ActivePcs \cup {"idle", "asking"}, hash : Builds,
                         received : Nat, cancelled : BOOLEAN, linked : BOOLEAN,
                         alone : BOOLEAN]]
    /\ calm \in BOOLEAN
    /\ strikes \in Nat
    /\ \A s \in Slots : dl[s].pc = "asking" <=> ask.pc # "none" /\ ask.slot = s

(* An empty library and a client that never downloaded the game.             *)
Init ==
    /\ version = NoVersion
    /\ row = NoRow
    /\ archive = [v \in Versions |-> NoFile]
    /\ tui = IdleTui
    /\ ask = NoAsk
    /\ worker = [s \in Slots |-> NoWork]
    /\ part = NoFile
    /\ meta = NoMeta
    /\ dir = NoGame
    /\ json = FALSE
    /\ installed = NoGame
    /\ dl = [s \in Slots |-> IdleSlot]
    /\ calm = FALSE
    /\ strikes = 0

Active(s) == dl[s].pc \in ActivePcs
Disturb   == calm' = FALSE /\ strikes' = 0

-----------------------------------------------------------------------------
(* The server's TUI: gameCtlUpdate and gameCtlDelete *)

TuiStep(pc, b) ==
    /\ tui' = [pc |-> pc, build |-> b]
    /\ Disturb
    /\ UNCHANGED <<transfer, disk, dl>>

ParseMetadata(b) == VersionOf[b]

RegisterGame(v) == version = NoVersion /\ version' = v

UpdateGameVersion(v) == version \in Versions /\ version' = v

(* The archive is unpacked and good: its version goes into a new row or into *)
(* the one there is, before any file.                                        *)
UpdateVersion(b) ==
    /\ tui.pc = "idle"
    /\ RegisterGame(ParseMetadata(b)) \/ UpdateGameVersion(ParseMetadata(b))
    /\ TuiStep("files", b)
    /\ UNCHANGED <<row, archive>>

(* storePlatformFiles is done with the server's files, and createTarGz opens *)
(* download.tar.gz, in place.                                                *)
PackBegin ==
    /\ tui.pc = "files"
    /\ archive' = [archive EXCEPT ![VersionOf[tui.build]] = <<>>]
    /\ TuiStep("packing", tui.build)
    /\ UNCHANGED <<version, row>>

(* createTarGz has written all the entries.                                  *)
Packed(b) == [archive EXCEPT ![VersionOf[b]] = Archive(b)]

PackEnd ==
    /\ tui.pc = "packing"
    /\ archive' = Packed(tui.build)
    /\ TuiStep("row", tui.build)
    /\ UNCHANGED <<version, row>>

(* registerGamePlatform replaces the row; that it fails is a warning.        *)
RegisterGamePlatform(ok) ==
    /\ tui.pc = "row"
    /\ row' = IF ok THEN tui.build ELSE row
    /\ TuiStep("idle", NoBuild)
    /\ UNCHANGED <<version, archive>>

(* A file of the archive is missing, or the disk is full: what was done      *)
(* stays done.                                                               *)
UpdateFails ==
    /\ tui.pc \in {"files", "packing"}
    /\ TuiStep("idle", NoBuild)
    /\ UNCHANGED <<version, row, archive>>

(* The platforms' rows go with the row.                                      *)
UnregisterGame == version' = Deleted /\ row' = NoRow

(* The rows go first, then the files.                                        *)
DeleteRow ==
    /\ tui.pc = "idle"
    /\ version \in Versions
    /\ UnregisterGame
    /\ TuiStep("rmrf", NoBuild)
    /\ UNCHANGED archive

DeleteFiles ==
    /\ tui.pc = "rmrf"
    /\ archive' = [v \in Versions |-> NoFile]
    /\ TuiStep("idle", NoBuild)
    /\ UNCHANGED <<version, row>>

-----------------------------------------------------------------------------
(* How an attempt of the client ends *)

Struck == strikes' = (IF calm THEN strikes + 1 ELSE 0)

(* The socket is closed and the slot is free.                                *)
EndsFailed(s) ==
    /\ dl' = [dl EXCEPT ![s] = IdleSlot]
    /\ worker' = [worker EXCEPT ![s] = NoWork]
    /\ Struck
    /\ calm' = FALSE

RemoveBoth == part' = NoFile /\ meta' = NoMeta

(* remove() unlinks the file, also of another slot that has it open.         *)
Unlink(d) == [s \in Slots |-> [d[s] EXCEPT !.linked = FALSE]]

-----------------------------------------------------------------------------
(* downloadManagerStartDownload and serverHandleGameDownload.  The client's  *)
(* TUI waits for the answer.                                                 *)

ReadResumeMeta == meta # NoMeta

Resume == IF ReadResumeMeta /\ part # NoFile THEN meta ELSE 0

(* The library offers one build under one version.                           *)
Sound ==
    /\ tui.pc = "idle"
    /\ version \in Versions
    /\ row # NoRow
    /\ archive[version] = Archive(row)

(* The first free slot.  Nothing asks whether another has the same game.     *)
StartDownload(s) ==
    /\ ask.pc = "none"
    /\ ~Active(s) /\ \A r \in Slots : r < s => Active(r)
    /\ dl' = [dl EXCEPT ![s] = [IdleSlot EXCEPT !.pc = "asking",
                                                !.received = Resume]]
    /\ ask' = [NoAsk EXCEPT !.pc = "game", !.slot = s]
    /\ calm' = (Sound /\ \A r \in Slots : ~Active(r))
    /\ strikes' = IF calm' THEN strikes ELSE 0
    /\ UNCHANGED <<library, worker, disk>>

Refuse ==
    /\ ask' = NoAsk
    /\ EndsFailed(ask.slot)
    /\ UNCHANGED <<library, disk>>

Answer(pc, v, r) ==
    /\ ask' = [ask EXCEPT !.pc = pc, !.version = v, !.row = r]
    /\ UNCHANGED <<library, worker, disk, dl, history>>

GetGameById == version \in Versions

GetGamePlatform == row # NoRow

(* The TUI may be at work between the two look-ups.                          *)
FindGame ==
    /\ ask.pc = "game"
    /\ IF GetGameById THEN Answer("platform", version, NoRow) ELSE Refuse

FindPlatform ==
    /\ ask.pc = "platform"
    /\ IF GetGamePlatform THEN Answer("file", ask.version, row) ELSE Refuse

(* The token is registered and the client starts the thread of its slot.     *)
OfferFile ==
    /\ ask.pc = "file"
    /\ archive[ask.version] # NoFile
    /\ worker' = [worker EXCEPT ![ask.slot] =
                    [pc |-> "started", path |-> ask.version, data |-> <<>>]]
    /\ dl' = [s \in Slots |->
                IF s = ask.slot
                THEN [dl[s] EXCEPT !.pc = "pending", !.hash = ask.row,
                        !.alone = \A r \in Slots : ~Active(r)]
                ELSE [dl[s] EXCEPT !.alone = FALSE]]
    /\ ask' = NoAsk
    /\ UNCHANGED <<library, disk, history>>

NoFileToOffer ==
    /\ ask.pc = "file"
    /\ archive[ask.version] = NoFile
    /\ Refuse

(* No token can be registered, or the control connection breaks.             *)
RequestFails ==
    /\ ask.pc # "none"
    /\ ask' = NoAsk
    /\ dl' = [dl EXCEPT ![ask.slot] = IdleSlot]
    /\ Disturb
    /\ UNCHANGED <<library, worker, disk>>

-----------------------------------------------------------------------------
(* workerThreadFunc *)

ReadFilePlaintext(w) ==
    IF archive[w.path] = NoFile THEN [w EXCEPT !.pc = "closed"]
    ELSE [w EXCEPT !.pc = "sending", !.data = archive[w.path]]

(* The worker has sent its two answers, and reads the file as it is now, a   *)
(* while after its size was answered.                                        *)
WorkerReads(s) ==
    /\ worker[s].pc = "started"
    /\ worker' = [worker EXCEPT ![s] = ReadFilePlaintext(@)]
    /\ UNCHANGED <<library, ask, disk, dl, history>>

(* One chunk, from resumeChunkIndex on.  Past the end of the file that was   *)
(* read the worker sends nothing or what is in memory behind it.             *)
SendChunk(s, i) ==
    IF i <= Len(worker[s].data) THEN {<<worker[s].data[i]>>}
    ELSE {<<>>, <<Junk>>}

-----------------------------------------------------------------------------
(* downloadThread *)

Total(s) == ChunksOf[dl[s].hash]

Go(s, pc) == dl' = [dl EXCEPT ![s].pc = pc]

(* The two answers of the worker are here.  A transfer that is resumed needs the  *)
(* file; one from the start empties it.                                      *)
OpenFile(s) ==
    /\ dl[s].pc = "pending"
    /\ worker[s].pc # "none"
    /\ IF dl[s].received > 0 /\ part = NoFile
       THEN EndsFailed(s) /\ UNCHANGED part
       ELSE /\ part' = IF dl[s].received > 0 THEN part ELSE <<>>
            /\ dl' = [dl EXCEPT ![s].pc = "meta", ![s].linked = TRUE]
            /\ UNCHANGED <<worker, history>>
    /\ UNCHANGED <<library, ask, meta, dir, json, installed>>

WriteResumeMeta(s) ==
    /\ dl[s].pc = "meta"
    /\ meta' = dl[s].received
    /\ Go(s, "recv")
    /\ UNCHANGED <<library, transfer, part, dir, json, installed, history>>

(* pwrite fills a gap with zeros.                                            *)
PWrite(f, i, c) ==
    [j \in 1..(IF i > Len(f) THEN i ELSE Len(f)) |->
        IF j = i THEN c ELSE IF j <= Len(f) THEN f[j] ELSE Junk]

(* One chunk: received counts them from the one that the transfer was        *)
(* resumed at.  A file that was unlinked takes the chunk along.              *)
RecvChunk(s) ==
    /\ dl[s].pc = "recv"
    /\ ~dl[s].cancelled
    /\ worker[s].pc = "sending"
    /\ dl[s].received < Total(s)
    /\ LET i == dl[s].received + 1 IN
       /\ dl' = [dl EXCEPT ![s].received = i, ![s].pc = "meta"]
       /\ \E chunk \in SendChunk(s, i) :
            part' = IF dl[s].linked /\ chunk # <<>>
                    THEN PWrite(part, i, Head(chunk)) ELSE part
    /\ UNCHANGED <<library, transfer, meta, dir, json, installed, history>>

(* The worker has closed the connection.                                     *)
RecvFails(s) ==
    /\ dl[s].pc = "recv"
    /\ worker[s].pc = "closed"
    /\ dl[s].received < Total(s)
    /\ EndsFailed(s)
    /\ UNCHANGED <<library, ask, disk>>

(* The files stay, for the next time.                                        *)
StopCancelled(s) ==
    /\ dl[s].pc = "recv"
    /\ dl[s].cancelled
    /\ dl' = [dl EXCEPT ![s] = IdleSlot]
    /\ worker' = [worker EXCEPT ![s] = NoWork]
    /\ Disturb
    /\ UNCHANGED <<library, ask, disk>>

(* Whether DownloadDone comes does not matter.                               *)
AllReceived(s) ==
    /\ dl[s].pc = "recv"
    /\ ~dl[s].cancelled
    /\ dl[s].received >= Total(s)
    /\ Go(s, "verify")
    /\ worker' = [worker EXCEPT ![s] = NoWork]
    /\ UNCHANGED <<library, ask, disk, history>>

(* Every failure from here on removes both files.                            *)
Discard(s) ==
    /\ RemoveBoth
    /\ dl' = Unlink([dl EXCEPT ![s] = IdleSlot])
    /\ Struck
    /\ calm' = FALSE
    /\ UNCHANGED worker

ComputeFileHash(file, b) == file = Archive(b)

(* Mutant: the files are kept when the hash is wrong.                        *)
Verify_KeepsFiles(s) ==
    /\ dl[s].pc = "verify"
    /\ IF ComputeFileHash(part, dl[s].hash)
       THEN Go(s, "unpack") /\ UNCHANGED <<worker, history>>
       ELSE EndsFailed(s)
    /\ UNCHANGED <<library, ask, part, meta, dir, json, installed>>

(* Mutant: it is enough that the file is as long as the archive.             *)
Verify_SizeOnly(s) ==
    /\ dl[s].pc = "verify"
    /\ IF part # NoFile /\ Len(part) >= Total(s)
       THEN Go(s, "unpack") /\ UNCHANGED <<part, meta, worker, history>>
       ELSE Discard(s)
    /\ UNCHANGED <<library, ask, dir, json, installed>>

Verify(s) ==
    /\ dl[s].pc = "verify"
    /\ IF ComputeFileHash(part, dl[s].hash)
       THEN Go(s, "unpack") /\ UNCHANGED <<part, meta, worker, history>>
       ELSE Discard(s)
    /\ UNCHANGED <<library, ask, dir, json, installed>>

(* extractTarGz writes over what is in the directory, file by file.          *)
UnpackBegin(s) ==
    /\ dl[s].pc = "unpack"
    /\ IF part # NoFile
       THEN /\ dir' = Junk
            /\ Go(s, "unpacking")
            /\ UNCHANGED <<part, meta, worker, history>>
       ELSE Discard(s) /\ UNCHANGED dir
    /\ UNCHANGED <<library, ask, json, installed>>

(* What extractTarGz leaves in the directory.  Two slots that unpack at the  *)
(* same time may leave a mixture.                                            *)
ExtractTarGz(s, b) ==
    IF \E r \in Slots \ {s} : dl[r].pc = "unpacking" THEN {b, Junk} ELSE {b}

UnpackEnd(s) ==
    /\ dl[s].pc = "unpacking"
    /\ \E b \in Builds : part = Archive(b) /\ dir' \in ExtractTarGz(s, b)
    /\ json' = TRUE
    /\ Go(s, "register")
    /\ UNCHANGED <<library, transfer, part, meta, installed, history>>

(* The archive is broken by now, the disk is full, or the metadata.json has  *)
(* no library for this platform.                                             *)
UnpackFails(s) ==
    /\ dl[s].pc \in {"unpacking", "register"}
    /\ RemoveBoth
    /\ dl' = Unlink([dl EXCEPT ![s] = IdleSlot])
    /\ Disturb
    /\ UNCHANGED <<library, transfer, dir, json, installed>>

(* addGame is an INSERT: a game that has a row keeps it, and the failure is  *)
(* thrown away.                                                              *)
AddGame(s) ==
    /\ dl[s].pc = "register"
    /\ installed' = IF json /\ installed = NoGame THEN dl[s].hash ELSE installed
    /\ Go(s, "clean")
    /\ UNCHANGED <<library, transfer, part, meta, dir, json, history>>

RemoveJsonAndPart(s) ==
    /\ dl[s].pc = "clean"
    /\ json' = FALSE
    /\ part' = NoFile
    /\ dl' = Unlink([dl EXCEPT ![s].pc = "cleanMeta"])
    /\ UNCHANGED <<library, transfer, meta, dir, installed, history>>

RemoveMeta(s) ==
    /\ dl[s].pc = "cleanMeta"
    /\ meta' = NoMeta
    /\ dl' = [dl EXCEPT ![s] = IdleSlot]
    /\ calm' = FALSE
    /\ strikes' = 0
    /\ UNCHANGED <<library, transfer, part, dir, json, installed>>

(* The data connection cannot be made, or breaks.                            *)
Breaks(s) ==
    /\ dl[s].pc \in {"pending", "recv"}
    /\ dl' = [dl EXCEPT ![s] = IdleSlot]
    /\ worker' = [worker EXCEPT ![s] = NoWork]
    /\ Disturb
    /\ UNCHANGED <<library, ask, disk>>

-----------------------------------------------------------------------------
(* The player, and the crashes *)

CancelSlots(S) ==
    /\ ask.pc = "none"
    /\ dl' = [s \in Slots |-> IF s \in S /\ Active(s)
                              THEN [dl[s] EXCEPT !.cancelled = TRUE]
                              ELSE dl[s]]
    /\ Disturb
    /\ UNCHANGED <<library, transfer, disk>>

Cancel(s) == CancelSlots({s})

(* downloadManagerDestroy joins the threads after that.                      *)
Destroy == CancelSlots(Slots)

(* deleteGame takes the row only.                                            *)
DeleteGame ==
    /\ ask.pc = "none"
    /\ installed # NoGame
    /\ installed' = NoGame
    /\ UNCHANGED <<library, transfer, part, meta, dir, json, dl, history>>

(* The client ends.  A meta file that was being written is cut short, and    *)
(* readResumeMeta does not take it.                                          *)
ClientStops ==
    /\ dl' = [s \in Slots |-> IdleSlot]
    /\ ask' = NoAsk
    /\ worker' = [s \in Slots |-> NoWork]
    /\ meta' \in IF \E s \in Slots : dl[s].pc = "meta" THEN {meta, NoMeta}
                 ELSE {meta}
    /\ Disturb
    /\ UNCHANGED <<library, part, dir, json, installed>>

(* The server ends, wherever its TUI is, and starts again.                   *)
ServerStops ==
    /\ tui' = IdleTui
    /\ ask' = NoAsk
    /\ worker' = [s \in Slots |->
                    IF worker[s].pc = "none" THEN NoWork
                    ELSE [NoWork EXCEPT !.pc = "closed"]]
    /\ dl' = [s \in Slots |-> IF dl[s].pc = "asking"
                              THEN IdleSlot
                              ELSE dl[s]]
    /\ Disturb
    /\ UNCHANGED <<version, row, archive, disk>>

-----------------------------------------------------------------------------
Administrator ==
    \/ \E b \in Builds : UpdateVersion(b)
    \/ PackBegin \/ PackEnd \/ UpdateFails
    \/ \E ok \in BOOLEAN : RegisterGamePlatform(ok)
    \/ DeleteRow \/ DeleteFiles

Handler == FindGame \/ FindPlatform \/ OfferFile \/ NoFileToOffer

DownloadThread(s) ==
    \/ OpenFile(s) \/ WriteResumeMeta(s) \/ RecvChunk(s) \/ RecvFails(s)
    \/ StopCancelled(s) \/ AllReceived(s) \/ Verify(s) \/ UnpackBegin(s)
    \/ UnpackEnd(s) \/ UnpackFails(s) \/ AddGame(s) \/ RemoveJsonAndPart(s)
    \/ RemoveMeta(s)

Player ==
    \/ \E s \in Slots : StartDownload(s) \/ Cancel(s)
    \/ Destroy
    \/ DeleteGame

Faults ==
    \/ RequestFails \/ ClientStops \/ ServerStops
    \/ \E s \in Slots : Breaks(s)

Next ==
    \/ Administrator
    \/ Handler
    \/ \E s \in Slots : WorkerReads(s) \/ DownloadThread(s)
    \/ Player
    \/ Faults

Spec == Init /\ [][Next]_vars
=============================================================================
