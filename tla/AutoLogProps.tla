---------------------------- MODULE AutoLogProps ----------------------------
(* What the log promises to those who read it afterwards.                    *)
EXTENDS AutoLog

(* logCallback is in one of its two queues, or a thread is elsewhere.        *)
Sayings == [Threads -> {NoLine} \cup [line : AllLines, to : {"file", "console"}]]

(* The types of what LogMsgQueue, the two threads and the directory hold.    *)
TypeOK ==
    /\ today \in Days /\ said \in [Writers -> Nat]
    /\ saying \in Sayings
    /\ queue \in Seq(AllLines) /\ held \in AllLines \cup {NoLine}
    /\ logPc \in {"none", "idle", "date", "signal", "write", "ended"}
    /\ currentDate \in Days \cup {NoDay} /\ fileOpen \in BOOLEAN
    /\ plain \in [Days -> Seq(AllLines) \cup {NoFile}]
    /\ gz \in [Days -> Seq(AllLines) \cup {NoFile, Partial}]
    /\ compressPc \in {"none", "wait", "scan", "copy", "remove", "ended"}
    /\ todo \subseteq Days /\ packing \in Days \cup {NoDay} /\ cut \subseteq Days

(* The log thread holds a line while it looks for its file, and between the  *)
(* test of the date and fputs it has the file of this day; a file that is    *)
(* open and of this day is there (logThreadFunc).                            *)
LogThreadInv ==
    /\ logPc \in {"date", "signal", "write"} => held \in AllLines
    /\ logPc \in {"signal", "write"} => currentDate = today
    /\ currentDate <= today
    /\ fileOpen /\ currentDate = today => plain[today] # NoFile

(* What is packed, or is going to be, is a file of a day long over; its      *)
(* archive is being written, or is a copy of the file, or of its beginning   *)
(* if a read error was taken for its end (compressOneFile).                  *)
PackInv ==
    /\ \A d \in todo : plain[d] # NoFile /\ d + RetentionDays < today
    /\ compressPc \in {"copy", "remove"} =>
          /\ packing \in Days /\ packing \notin todo
          /\ plain[packing] # NoFile /\ packing + RetentionDays < today
    /\ compressPc = "copy" => gz[packing] = Partial
    /\ compressPc = "remove" =>
          /\ gz[packing] \in Seq(AllLines) /\ IsPrefix(gz[packing], plain[packing])
          /\ packing \notin cut => gz[packing] = plain[packing]

IInv == TypeOK /\ LogThreadInv /\ PackInv


(* The lines that can be read for a day: in its file, and once that has been *)
(* removed in its archive.                                                   *)
Readable(d) ==
    IF plain[d] # NoFile THEN plain[d]
    ELSE IF gz[d] \notin {NoFile, Partial} THEN gz[d] ELSE <<>>

(* The lines of one thread stand in the files, from day to day, in the order *)
(* in which it logged them, and none of them twice, although the queue fills *)
(* up, days change, archives are written and processes crash meanwhile       *)
(* (logCallback, logThreadFunc, compressOneFile).                            *)
Follows(first, second) == first.by = second.by /\ first.by \in Writers => first.n < second.n

LinesInOrder ==
    \A d, e \in Days : \A i \in DOMAIN Readable(d), j \in DOMAIN Readable(e) :
        d < e \/ (d = e /\ i < j) => Follows(Readable(d)[i], Readable(e)[j])

-----------------------------------------------------------------------------
(* What makes LinesInOrder so: whoever stands further back in the pipe of    *)
(* text, held line, queue and callers was logged later.                      *)

(* There is no file of tomorrow, and no archive of today (logThreadFunc,     *)
(* scanAndCompressOldLogs).                                                  *)
DaysInv == \A d \in Days : (plain[d] # NoFile => d <= today) /\ (gz[d] # NoFile => d < today)

Carrying   == logPc \in {"date", "signal", "write"}
Pushing(t) == saying[t] # NoLine /\ saying[t].to = "file"
Known(l)   == l.by \in Writers => l.n <= said[l.by]

(* The line l was logged before all that is in the queue or on its way there. *)
InFront(l) ==
    /\ Known(l)
    /\ \A i \in DOMAIN queue : Follows(l, queue[i])
    /\ \A t \in Threads : Pushing(t) => Follows(l, saying[t].line)

Ahead(l) == InFront(l) /\ (Carrying => Follows(l, held))

PipeInv ==
    /\ Carrying => InFront(held)
    /\ \A i \in DOMAIN queue :
         /\ Known(queue[i])
         /\ \A j \in DOMAIN queue : i < j => Follows(queue[i], queue[j])
         /\ \A t \in Threads : Pushing(t) => Follows(queue[i], saying[t].line)
    /\ \A t \in Threads : Pushing(t) => saying[t].line.by = t /\ Known(saying[t].line)

TextInv == \A d \in Days : \A l \in ToSet(Readable(d)) : Ahead(l)

OrderInv == DaysInv /\ PipeInv /\ TextInv /\ LinesInOrder
-----------------------------------------------------------------------------
(* What once was in a file can be read ever after: a failure or a crash in   *)
(* the middle of packing a file costs the archive, not the lines             *)
(* (compressOneFile removes the file last).  The one exception is a day whose *)
(* file met a read error while it was copied, which the code takes for its   *)
(* end (autoLog.c:198): its last lines go with the file, and only those.     *)
WrittenStays ==
    [][\A d \in Days :
         \/ IsPrefix(Readable(d), Readable(d)')
         \/ d \in cut /\ IsPrefix(Readable(d)', Readable(d))]_vars

(* Closing the log comes to its end, although the threads that are joined    *)
(* log their own failures into the queue they have to empty first; and when  *)
(* it has, every line that was taken into the queue can be read, if the      *)
(* files could be opened, written and read for packing (autoLogClose,        *)
(* logThreadFunc).                                                           *)
CloseLosesNothing ==
    phase = "closing" ~>
        \/ phase = "off"
        \/ /\ phase = "closed"
           /\ ~failed /\ cut = {} =>
                accepted \subseteq UNION {ToSet(Readable(d)) : d \in Days}
=============================================================================
