------------------------------ MODULE AutoLog ------------------------------
(***************************************************************************)
(* The log engine of server and client (autoLog.c): every thread pushes    *)
(* its lines into a bounded queue, from which the log thread writes them   *)
(* to the file of the day; on a new day it wakes the compress thread,      *)
(* which packs old files.  Both threads log their own failures through the *)
(* same queue.  The process may crash at any point and be started again;   *)
(* the files stay.                                                         *)
(*                                                                         *)
(* A critical section is one step.  A thread that waits on a condition is  *)
(* a thread whose next step is disabled: every flag is set and signalled   *)
(* under its mutex.  The clock does not go back, and does not move while a *)
(* line is on its way from the test of the date to fputs.  autoLogClose    *)
(* runs when no other thread logs any more: server.c:433 comes after all   *)
(* joins.  autoLogCheckAndRestart is left out: only autoLogClose makes     *)
(* running false, and nobody polls by then.                                *)
(***************************************************************************)
EXTENDS Naturals, FiniteSets, SequencesExt

CONSTANTS
    Writers,            \* threads of the program that log
    NoLine,             \* a thread is not in logCallback, no line was popped
    NoFile,             \* no file of that name
    Partial,            \* an archive that was not written to its end
    Capacity,           \* DefaultQueueCapacity
    TuiCapacity,        \* DefaultTuiCapacity
    RetentionDays,      \* DefaultRetentionDays
    FailuresToWarn,     \* consecutive days of failures before a warning
    MaxLines,           \* bound: lines of one writer
    LastDay,            \* bound: the clock stops there
    MaxStarts           \* bound: processes after each other

LogThread      == "logThread"
CompressThread == "compressThread"
Threads        == Writers \cup {LogThread, CompressThread}
Days           == 1..LastDay
NoDay          == 0

Line(t, n) == [by |-> t, n |-> n]
Lines      == {Line(w, n) : w \in Writers, n \in 1..MaxLines}

(* What a log thread or a compress thread reports of itself: all alike.      *)
Report(t) == Line(t, 0)
AllLines  == Lines \cup {Report(t) : t \in {LogThread, CompressThread}}

ASSUME AutoLogAssumption ==
    /\ Capacity \in Nat \ {0} /\ TuiCapacity \in Nat \ {0}
    /\ RetentionDays \in Nat /\ FailuresToWarn \in Nat \ {0}
    /\ MaxLines \in Nat /\ LastDay \in Nat \ {0} /\ MaxStarts \in Nat
    /\ Writers \cap {LogThread, CompressThread} = {}
    /\ Partial # NoFile /\ NoFile \notin Seq(AllLines) /\ Partial \notin Seq(AllLines)

VARIABLES
    phase,          \* of the process: "off", "up", "closing", "closed"
    starts,         \* processes so far
    today,          \* the clock, in UTC days
    said,           \* how many lines each writer has logged
    saying,         \* logCallback of each thread: the line it is about to
                    \* push, and into which queue
    running,        \* the log thread has not ended
    queue,          \* LogMsgQueue
    stop,           \* queue.stop
    logPc,          \* logThreadFunc: what it does next
    held,           \* the line it has popped
    currentDate,    \* the day of the open file
    fileOpen,       \* fp # NULL
    plain,          \* the .log files
    gz,             \* the .log.gz files
    compressPc,     \* compressThreadFunc: what it does next
    scanPending,
    compressStop,   \* compressState.stop
    todo,           \* the files the scan has still to pack
    packing,        \* the file it is packing
    scanFailed,     \* hadFailure
    consecutiveFailures,
    tuiCount,       \* TuiLogQueue: how many lines are in it
    accepted,       \* history: the writers' lines this process has queued
    failed,         \* history: a file was not opened or written by this process
    cut             \* history: the days whose archive ends at a read error

clock     == <<starts, today>>
callers   == <<said, saying>>
queueVars == <<running, queue, stop, accepted>>
logVars   == <<logPc, held, currentDate, fileOpen, failed>>
disk      == <<plain, gz, cut>>
scanVars  == <<compressPc, scanPending, compressStop, todo, packing,
               scanFailed, consecutiveFailures>>
vars == <<phase, clock, callers, queueVars, logVars, disk, scanVars, tuiCount>>

-----------------------------------------------------------------------------
(* What gLogState holds when it was just allocated, and, by convention, when *)
(* it is not there.                                                          *)
Fresh ==
    /\ saying' = [t \in Threads |-> NoLine]
    /\ queue' = <<>> /\ stop' = FALSE
    /\ held' = NoLine /\ currentDate' = NoDay /\ fileOpen' = FALSE
    /\ scanPending' = FALSE /\ compressStop' = FALSE
    /\ todo' = {} /\ packing' = NoDay
    /\ scanFailed' = FALSE /\ consecutiveFailures' = 0
    /\ tuiCount' = 0

Init ==
    /\ phase = "off" /\ starts = 0 /\ today = 1
    /\ said = [w \in Writers |-> 0]
    /\ saying = [t \in Threads |-> NoLine]
    /\ running = FALSE /\ queue = <<>> /\ stop = FALSE /\ accepted = {}
    /\ logPc = "none" /\ held = NoLine /\ currentDate = NoDay
    /\ fileOpen = FALSE /\ failed = FALSE
    /\ plain = [d \in Days |-> NoFile] /\ gz = [d \in Days |-> NoFile] /\ cut = {}
    /\ compressPc = "none" /\ scanPending = FALSE /\ compressStop = FALSE
    /\ todo = {} /\ packing = NoDay
    /\ scanFailed = FALSE /\ consecutiveFailures = 0
    /\ tuiCount = 0

AutoLogInit ==
    /\ phase \in {"off", "closed"} /\ starts < MaxStarts
    /\ phase' = "up" /\ starts' = starts + 1
    /\ running' = TRUE /\ logPc' = "idle" /\ compressPc' = "wait"
    /\ Fresh /\ accepted' = {} /\ failed' = FALSE
    /\ UNCHANGED <<today, said, disk>>

Crash ==
    /\ phase \in {"up", "closing"}
    /\ phase' = "off" /\ running' = FALSE /\ logPc' = "none" /\ compressPc' = "none"
    /\ Fresh /\ accepted' = {} /\ failed' = FALSE
    /\ UNCHANGED <<clock, said, disk>>

NextDay ==
    /\ today < LastDay /\ logPc \notin {"signal", "write"}
    /\ today' = today + 1
    /\ UNCHANGED <<phase, starts, callers, queueVars, logVars, disk, scanVars, tuiCount>>

-----------------------------------------------------------------------------
(* logCallback: in any thread, first the queue of the file, then that of the *)
(* console; a full queue drops the line.                                     *)
Begins(t, line) == [saying EXCEPT ![t] = [line |-> line, to |-> "file"]]

(* What t says of a failure, if the log is still up.                         *)
Reports(t) == saying' = IF running THEN Begins(t, Report(t)) ELSE saying

Say(w) ==
    /\ phase = "up" /\ running
    /\ saying[w] = NoLine /\ said[w] < MaxLines
    /\ said' = [said EXCEPT ![w] = @ + 1]
    /\ saying' = Begins(w, Line(w, said[w] + 1))
    /\ UNCHANGED <<phase, clock, queueVars, logVars, disk, scanVars, tuiCount>>

PushQueue(t) ==
    /\ saying[t] # NoLine /\ saying[t].to = "file"
    /\ saying' = [saying EXCEPT ![t].to = "console"]
    /\ IF Len(queue) < Capacity
       THEN /\ queue' = Append(queue, saying[t].line)
            /\ accepted' = accepted \cup ({saying[t].line} \cap Lines)
       ELSE UNCHANGED <<queue, accepted>>
    /\ UNCHANGED <<phase, clock, said, running, stop, logVars, disk, scanVars, tuiCount>>

PushTui(t) ==
    /\ saying[t] # NoLine /\ saying[t].to = "console"
    /\ saying' = [saying EXCEPT ![t] = NoLine]
    /\ tuiCount' = IF tuiCount < TuiCapacity THEN tuiCount + 1 ELSE tuiCount
    /\ UNCHANGED <<phase, clock, said, queueVars, logVars, disk, scanVars>>

(* The console page takes all that is there.                                 *)
AutoLogFetch ==
    /\ phase = "up" /\ tuiCount > 0
    /\ tuiCount' = 0
    /\ UNCHANGED <<phase, clock, callers, queueVars, logVars, disk, scanVars>>

-----------------------------------------------------------------------------
(* logThreadFunc.                                                            *)
Silent(t) == saying[t] = NoLine

(* Mutant: it takes the line at the wrong end.                               *)
Pop_Newest ==
    /\ logPc = "idle" /\ Silent(LogThread) /\ queue # <<>>
    /\ held' = Last(queue) /\ queue' = Front(queue)
    /\ logPc' = "date"
    /\ UNCHANGED <<phase, clock, callers, running, stop, accepted, currentDate, fileOpen,
                   failed, disk, scanVars, tuiCount>>

Pop ==
    /\ logPc = "idle" /\ Silent(LogThread) /\ queue # <<>>
    /\ held' = Head(queue) /\ queue' = Tail(queue)
    /\ logPc' = "date"
    /\ UNCHANGED <<phase, clock, callers, running, stop, accepted, currentDate, fileOpen,
                   failed, disk, scanVars, tuiCount>>

(* openLogFile, in mode "a", on a new day only: if it fails, the lines of    *)
(* the day are lost, and one line says so.                                   *)
Rotate(opened) ==
    /\ logPc = "date" /\ today # currentDate
    /\ currentDate' = today /\ fileOpen' = opened
    /\ failed' = (failed \/ ~opened)
    /\ plain' = IF opened /\ plain[today] = NoFile THEN [plain EXCEPT ![today] = <<>>]
                ELSE plain
    /\ IF opened THEN UNCHANGED saying ELSE Reports(LogThread)
    /\ logPc' = "signal"
    /\ UNCHANGED <<phase, clock, said, queueVars, held, gz, cut, scanVars, tuiCount>>

SignalScan ==
    /\ logPc = "signal" /\ Silent(LogThread)
    /\ scanPending' = TRUE
    /\ logPc' = "write"
    /\ UNCHANGED <<phase, clock, callers, queueVars, held, currentDate, fileOpen, failed, disk,
                   compressPc, compressStop, todo, packing, scanFailed,
                   consecutiveFailures, tuiCount>>

(* Past the test of the date.                                                *)
MayWrite == logPc = "write" \/ (logPc = "date" /\ today = currentDate)

Write ==
    /\ MayWrite
    /\ plain' = IF fileOpen THEN [plain EXCEPT ![currentDate] = Append(@, held)] ELSE plain
    /\ held' = NoLine /\ logPc' = "idle"
    /\ UNCHANGED <<phase, clock, callers, queueVars, currentDate, fileOpen, failed, gz,
                   cut, scanVars, tuiCount>>

(* After an error the file of the day stays closed.                          *)
WriteFails ==
    /\ MayWrite /\ fileOpen
    /\ fileOpen' = FALSE /\ failed' = TRUE
    /\ Reports(LogThread)
    /\ held' = NoLine /\ logPc' = "idle"
    /\ UNCHANGED <<phase, clock, said, queueVars, currentDate, disk, scanVars, tuiCount>>

(* Mutant: it ends as soon as it sees the flag.                              *)
LogThreadEnds_AtStop ==
    /\ logPc = "idle" /\ Silent(LogThread) /\ stop
    /\ fileOpen' = FALSE /\ running' = FALSE /\ logPc' = "ended"
    /\ UNCHANGED <<phase, clock, callers, queue, stop, accepted, held, currentDate, failed,
                   disk, scanVars, tuiCount>>

LogThreadEnds ==
    /\ logPc = "idle" /\ Silent(LogThread) /\ queue = <<>> /\ stop
    /\ fileOpen' = FALSE /\ running' = FALSE /\ logPc' = "ended"
    /\ UNCHANGED <<phase, clock, callers, queue, stop, accepted, held, currentDate, failed,
                   disk, scanVars, tuiCount>>

-----------------------------------------------------------------------------
(* compressThreadFunc, scanAndCompressOldLogs and compressOneFile.           *)
BeginScan ==
    /\ compressPc = "wait" /\ Silent(CompressThread) /\ scanPending
    /\ scanPending' = FALSE /\ scanFailed' = FALSE
    /\ todo' = {d \in Days : plain[d] # NoFile /\ d + RetentionDays < today}
    /\ compressPc' = "scan"
    /\ UNCHANGED <<phase, clock, callers, queueVars, logVars, disk, compressStop, packing,
                   consecutiveFailures, tuiCount>>

(* A file that has an archive already, or cannot be opened, or whose archive *)
(* cannot, counts as a failure and stays.                                    *)
SkipFile(d) ==
    /\ compressPc = "scan" /\ Silent(CompressThread) /\ d \in todo
    /\ todo' = todo \ {d} /\ scanFailed' = TRUE
    /\ UNCHANGED <<phase, clock, callers, queueVars, logVars, disk, compressPc, scanPending,
                   compressStop, packing, consecutiveFailures, tuiCount>>

OpenArchive(d) ==
    /\ compressPc = "scan" /\ Silent(CompressThread) /\ d \in todo /\ gz[d] = NoFile
    /\ gz' = [gz EXCEPT ![d] = Partial]
    /\ todo' = todo \ {d} /\ packing' = d
    /\ compressPc' = "copy"
    /\ UNCHANGED <<phase, clock, callers, queueVars, logVars, plain, cut, scanPending,
                   compressStop, scanFailed, consecutiveFailures, tuiCount>>

(* A read error ends the loop like the end of the file (ferror is not asked) *)
(* and the archive is closed well: it then holds the first n lines only.     *)
CopyFile ==
    /\ compressPc = "copy"
    /\ \E n \in 0..Len(plain[packing]) :
         /\ gz' = [gz EXCEPT ![packing] = SubSeq(plain[packing], 1, n)]
         /\ cut' = IF n < Len(plain[packing]) THEN cut \cup {packing} ELSE cut
    /\ compressPc' = "remove"
    /\ UNCHANGED <<phase, clock, callers, queueVars, logVars, plain, scanPending,
                   compressStop, todo, packing, scanFailed, consecutiveFailures, tuiCount>>

(* Mutant: the result of zng_gzclose is not looked at.                       *)
CopyFails_Unnoticed ==
    /\ compressPc = "copy"
    /\ scanFailed' = TRUE
    /\ compressPc' = "remove"
    /\ UNCHANGED <<phase, clock, callers, queueVars, logVars, disk, scanPending,
                   compressStop, todo, packing, consecutiveFailures, tuiCount>>

(* zng_gzwrite or zng_gzclose fails: what there is of the archive stays.     *)
CopyFails ==
    /\ compressPc = "copy"
    /\ scanFailed' = TRUE
    /\ packing' = NoDay /\ compressPc' = "scan"
    /\ UNCHANGED <<phase, clock, callers, queueVars, logVars, disk, scanPending,
                   compressStop, todo, consecutiveFailures, tuiCount>>

RemovePlain ==
    /\ compressPc = "remove"
    /\ plain' = [plain EXCEPT ![packing] = NoFile]
    /\ packing' = NoDay /\ compressPc' = "scan"
    /\ UNCHANGED <<phase, clock, callers, queueVars, logVars, gz, cut, scanPending,
                   compressStop, todo, scanFailed, consecutiveFailures, tuiCount>>

RemoveFails ==
    /\ compressPc = "remove"
    /\ Reports(CompressThread)
    /\ packing' = NoDay /\ compressPc' = "scan"
    /\ UNCHANGED <<phase, clock, said, queueVars, logVars, disk, scanPending,
                   compressStop, todo, scanFailed, consecutiveFailures, tuiCount>>

EndScan ==
    /\ compressPc = "scan" /\ Silent(CompressThread) /\ todo = {}
    /\ consecutiveFailures' = IF ~scanFailed THEN 0
                              ELSE IF consecutiveFailures < FailuresToWarn
                                   THEN consecutiveFailures + 1 ELSE FailuresToWarn
    /\ IF consecutiveFailures' = FailuresToWarn THEN Reports(CompressThread)
       ELSE UNCHANGED saying
    /\ scanFailed' = FALSE /\ compressPc' = "wait"
    /\ UNCHANGED <<phase, clock, said, queueVars, logVars, disk, scanPending,
                   compressStop, todo, packing, tuiCount>>

CompressThreadEnds ==
    /\ compressPc = "wait" /\ Silent(CompressThread) /\ ~scanPending /\ compressStop
    /\ compressPc' = "ended"
    /\ UNCHANGED <<phase, clock, callers, queueVars, logVars, disk, scanPending,
                   compressStop, todo, packing, scanFailed, consecutiveFailures, tuiCount>>

-----------------------------------------------------------------------------
(* autoLogClose: it stops and joins the log thread, then the compress thread.*)
AutoLogClose ==
    /\ phase = "up" /\ \A w \in Writers : Silent(w)
    /\ phase' = "closing" /\ stop' = TRUE
    /\ UNCHANGED <<clock, callers, running, queue, accepted, logVars, disk, scanVars, tuiCount>>

StopCompress ==
    /\ phase = "closing" /\ logPc = "ended" /\ ~compressStop
    /\ compressStop' = TRUE
    /\ UNCHANGED <<phase, clock, callers, queueVars, logVars, disk, compressPc, scanPending,
                   todo, packing, scanFailed, consecutiveFailures, tuiCount>>

Closed ==
    /\ phase = "closing" /\ compressStop /\ compressPc = "ended"
    /\ phase' = "closed" /\ logPc' = "none" /\ compressPc' = "none"
    /\ Fresh
    /\ UNCHANGED <<clock, said, running, accepted, failed, disk>>

-----------------------------------------------------------------------------
Pushes(t) == PushQueue(t) \/ PushTui(t)

LogThreadStep ==
    \/ Pushes(LogThread)
    \/ Pop \/ (\E opened \in BOOLEAN : Rotate(opened)) \/ SignalScan
    \/ Write \/ WriteFails \/ LogThreadEnds

CompressThreadStep ==
    \/ Pushes(CompressThread)
    \/ BeginScan \/ (\E d \in Days : SkipFile(d) \/ OpenArchive(d))
    \/ CopyFile \/ CopyFails \/ RemovePlain \/ RemoveFails \/ EndScan
    \/ CompressThreadEnds

Closer == StopCompress \/ Closed

Next ==
    \/ AutoLogInit \/ Crash \/ NextDay \/ AutoLogFetch \/ AutoLogClose
    \/ \E w \in Writers : Say(w) \/ Pushes(w)
    \/ LogThreadStep \/ CompressThreadStep \/ Closer

(* The two threads run on while they can, and so does who closes the log.    *)
Fairness == WF_vars(LogThreadStep) /\ WF_vars(CompressThreadStep) /\ WF_vars(Closer)

Spec == Init /\ [][Next]_vars /\ Fairness
=============================================================================
