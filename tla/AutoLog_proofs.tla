--------------------------- MODULE AutoLog_proofs ---------------------------
(***************************************************************************)
(* Proofs about AutoLog, for any number of writers, lines, days and        *)
(* processes: what was written to a file can be read ever after, and the   *)
(* lines of a thread are there in the order in which it logged them.       *)
(***************************************************************************)
EXTENDS AutoLogProps, TLAPS

(* WrittenStays for one step.                                                *)
Stays ==
    \A d \in Days :
        \/ IsPrefix(Readable(d), Readable(d)')
        \/ d \in cut /\ IsPrefix(Readable(d)', Readable(d))

(* A text begins with itself.                                                *)
LEMMA PrefixOfItself ==
    ASSUME NEW S, NEW s \in Seq(S)
    PROVE  IsPrefix(s, s)
BY DEF IsPrefix

(* fputs: a text stays at the front when a line is written behind it.        *)
LEMMA PrefixOfAppend ==
    ASSUME NEW S, NEW s \in Seq(S), NEW e \in S
    PROVE  IsPrefix(s, Append(s, e))
<1>1. Len(s) \in Nat /\ Len(Append(s, e)) = Len(s) + 1
  OBVIOUS
<1>2. SubSeq(s, 1, Len(s)) = SubSeq(Append(s, e), 1, Len(s))
  OBVIOUS
<1> QED BY <1>1, <1>2 DEF IsPrefix

(* fread: a copy of the first n lines is a beginning of the text.            *)
LEMMA PrefixOfSome ==
    ASSUME NEW S, NEW s \in Seq(S), NEW n \in 0..Len(s)
    PROVE  /\ SubSeq(s, 1, n) \in Seq(S) /\ IsPrefix(SubSeq(s, 1, n), s)
           /\ n = Len(s) => SubSeq(s, 1, n) = s
<1>1. Len(s) \in Nat /\ n \in Nat /\ n <= Len(s)
  OBVIOUS
<1>2. SubSeq(s, 1, n) \in Seq(S) /\ Len(SubSeq(s, 1, n)) = n
  BY <1>1
<1>3. \A i \in 1..n : SubSeq(s, 1, n)[i] = s[i]
  BY <1>1
<1>4. SubSeq(SubSeq(s, 1, n), 1, n) = SubSeq(s, 1, n)
  BY <1>1, <1>2
<1>5. n = Len(s) => SubSeq(s, 1, n) = s
  BY <1>1
<1> QED BY <1>1, <1>2, <1>4, <1>5 DEF IsPrefix

(* What stands in the beginning of a text stands there in the text.          *)
LEMMA PrefixLines ==
    ASSUME NEW S, NEW s \in Seq(S), NEW t \in Seq(S), IsPrefix(s, t), NEW i \in DOMAIN s
    PROVE  i \in DOMAIN t /\ t[i] = s[i]
<1>1. /\ Len(s) \in Nat /\ Len(t) \in Nat /\ Len(s) <= Len(t)
      /\ SubSeq(s, 1, Len(s)) = SubSeq(t, 1, Len(s)) /\ i \in 1..Len(s)
  BY DEF IsPrefix
<1>2. SubSeq(s, 1, Len(s))[i] = s[i] /\ SubSeq(t, 1, Len(s))[i] = t[i]
  BY <1>1
<1> QED BY <1>1, <1>2

(* No file, and no archive cut short, is a text.                             *)
LEMMA NoText ==
    /\ NoFile \notin Seq(AllLines) /\ Partial \notin Seq(AllLines) /\ Partial # NoFile
BY AutoLogAssumption

(* Days are numbers, and no day is none of them.                             *)
LEMMA DayNumbers ==
    /\ \A d \in Days : d \in Nat /\ d # NoDay
    /\ 1 \in Days /\ LastDay \in Nat /\ RetentionDays \in Nat
BY AutoLogAssumption DEF Days, NoDay

(* What can be read of a day is a text.                                      *)
LEMMA ReadableIsText ==
    ASSUME TypeOK, NEW d \in Days
    PROVE  Readable(d) \in Seq(AllLines)
<1>1. <<>> \in Seq(AllLines)
  OBVIOUS
<1> QED BY <1>1 DEF TypeOK, Readable

(* What a step does to what can be read: nothing, or the line that the log   *)
(* thread holds is written behind the text of today.                         *)
Kept  == \A d \in Days : Readable(d)' = Readable(d)
Wrote ==
    /\ Carrying /\ held \in AllLines
    /\ \A d \in Days : Readable(d)' = IF d = today THEN Append(Readable(d), held) ELSE Readable(d)

(* Or the end of a day that was copied up to a read error goes.              *)
Trimmed ==
    \A d \in Days : \/ Readable(d)' = Readable(d)
                    \/ d \in cut /\ IsPrefix(Readable(d)', Readable(d))

LEMMA KeptOrWroteStays ==
    ASSUME TypeOK, Kept \/ Wrote \/ Trimmed
    PROVE  Stays
<1> SUFFICES ASSUME NEW d \in Days
             PROVE  \/ IsPrefix(Readable(d), Readable(d)')
                    \/ d \in cut /\ IsPrefix(Readable(d)', Readable(d))
  BY DEF Stays
<1>1. Readable(d) \in Seq(AllLines)
  BY ReadableIsText
<1>2. CASE Readable(d)' = Readable(d)
  BY <1>1, <1>2, PrefixOfItself
<1>3. CASE held \in AllLines /\ Readable(d)' = Append(Readable(d), held)
  BY <1>1, <1>3, PrefixOfAppend
<1>4. CASE Kept
  BY <1>2, <1>4 DEF Kept
<1>5. CASE Wrote
  BY <1>2, <1>3, <1>5 DEF Wrote
<1>6. CASE Trimmed
  BY <1>2, <1>6 DEF Trimmed
<1> QED BY <1>4, <1>5, <1>6

(* A step that leaves the directory alone.                                   *)
LEMMA SameDisk ==
    ASSUME UNCHANGED <<plain, gz>>
    PROVE  Kept
BY DEF Readable, Kept

(* autoLog.c: an empty queue, and a directory without log files.             *)
LEMMA InitOK == Init => IInv
<1> SUFFICES ASSUME Init PROVE IInv
  OBVIOUS
<1> USE DEF Init
<1>1. <<>> \in Seq(AllLines)
  OBVIOUS
<1>2. TypeOK
  BY <1>1, DayNumbers DEF TypeOK, Sayings
<1>3. LogThreadInv
  BY DayNumbers DEF LogThreadInv, NoDay
<1>4. PackInv
  BY DEF PackInv
<1> QED BY <1>2, <1>3, <1>4 DEF IInv

(* logCallback: what a thread says is a line, before and after it has pushed *)
(* it into the first queue.                                                  *)
LEMMA SayingOK ==
    ASSUME TypeOK, NEW t \in Threads, NEW line \in AllLines
    PROVE  /\ Begins(t, line) \in Sayings
           /\ [saying EXCEPT ![t] = NoLine] \in Sayings
<1>1. [line |-> line, to |-> "file"] \in [line : AllLines, to : {"file", "console"}]
  OBVIOUS
<1> QED BY <1>1 DEF TypeOK, Begins, Sayings

(* A thread of the log reports a failure, or nothing.                        *)
LEMMA ReportsOK ==
    ASSUME TypeOK, NEW t \in {LogThread, CompressThread}, Reports(t) \/ UNCHANGED saying
    PROVE  saying' \in Sayings
<1>1. t \in Threads /\ Report(t) \in AllLines
  BY DEF Threads, AllLines
<1>2. Begins(t, Report(t)) \in Sayings
  BY <1>1, SayingOK
<1>3. saying \in Sayings
  BY DEF TypeOK
<1> QED BY <1>2, <1>3 DEF Reports

(* The types that logCallback disturbs.                                      *)
CallersOK == said \in [Writers -> Nat] /\ saying \in Sayings /\ queue \in Seq(AllLines)

(* logCallback, autoLogFetch, autoLogClose: what the other threads do        *)
(* concerns the queues.                                                      *)
LEMMA CallerStepsOK ==
    ASSUME IInv,
           \/ AutoLogFetch \/ AutoLogClose \/ StopCompress
           \/ \E w \in Writers : Say(w)
           \/ \E t \in Threads : Pushes(t)
    PROVE  IInv' /\ Kept
<1> USE DEF IInv
<1>1. UNCHANGED <<today, held, logPc, currentDate, fileOpen, plain, gz, cut, compressPc, todo, packing>>
  BY DEF AutoLogFetch, AutoLogClose, StopCompress, Say, Pushes, PushQueue, PushTui,
         clock, callers, queueVars, logVars, disk, scanVars
<1>2. CallersOK'
  <2>1. CASE AutoLogFetch \/ AutoLogClose \/ StopCompress
    BY <2>1 DEF AutoLogFetch, AutoLogClose, StopCompress, callers, queueVars, TypeOK, CallersOK
  <2>2. ASSUME NEW w \in Writers, Say(w)  PROVE CallersOK'
    <3>1. said[w] \in Nat /\ said[w] < MaxLines /\ MaxLines \in Nat
      BY <2>2, AutoLogAssumption DEF Say, TypeOK
    <3>2. said[w] + 1 \in 1..MaxLines
      BY <3>1
    <3>3. Line(w, said[w] + 1) \in AllLines /\ w \in Threads
      BY <3>2 DEF AllLines, Lines, Threads
    <3>4. Begins(w, Line(w, said[w] + 1)) \in Sayings
      BY <3>3, SayingOK
    <3>5. said' \in [Writers -> Nat]
      BY <2>2, <3>1 DEF Say, TypeOK
    <3> QED BY <2>2, <3>4, <3>5 DEF Say, queueVars, TypeOK, CallersOK
  <2>3. ASSUME NEW t \in Threads, Pushes(t)  PROVE CallersOK'
    <3>1. saying[t] \in [line : AllLines, to : {"file", "console"}] /\ said' = said
      BY <2>3 DEF Pushes, PushQueue, PushTui, TypeOK, Sayings
    <3>2. CASE PushQueue(t)
      <4>1. [saying[t] EXCEPT !.to = "console"] \in [line : AllLines, to : {"file", "console"}]
        BY <3>1
      <4>2. saying' = [saying EXCEPT ![t] = [saying[t] EXCEPT !.to = "console"]]
        BY <3>2 DEF PushQueue
      <4>3. saying' \in Sayings
        BY <4>1, <4>2 DEF TypeOK, Sayings
      <4>4. queue' \in Seq(AllLines)
        <5>1. saying[t].line \in AllLines /\ queue \in Seq(AllLines)
          BY <3>1 DEF TypeOK
        <5>2. Append(queue, saying[t].line) \in Seq(AllLines)
          BY <5>1
        <5>3. queue' = queue \/ queue' = Append(queue, saying[t].line)
          BY <3>2 DEF PushQueue
        <5> QED BY <5>1, <5>2, <5>3
      <4> QED BY <3>1, <4>3, <4>4 DEF TypeOK, CallersOK
    <3>3. CASE PushTui(t)
      BY <3>1, <3>3, SayingOK DEF PushTui, queueVars, TypeOK, CallersOK
    <3> QED BY <2>3, <3>2, <3>3 DEF Pushes
  <2> QED BY <2>1, <2>2, <2>3
<1>3. TypeOK'
  BY <1>1, <1>2 DEF TypeOK, CallersOK
<1>4. LogThreadInv' /\ PackInv'
  BY <1>1 DEF LogThreadInv, PackInv
<1> QED BY <1>1, <1>3, <1>4, SameDisk

(* autoLogInit, autoLogClose, a crash: a log that begins or ends has no line *)
(* in hand and no file in work.                                              *)
LEMMA BeginAndEndOK ==
    ASSUME IInv, AutoLogInit \/ Crash \/ Closed
    PROVE  IInv' /\ Kept
<1> USE DEF IInv
<1>1. /\ Fresh /\ UNCHANGED <<today, said, plain, gz, cut>>
      /\ logPc' \in {"none", "idle"} /\ compressPc' \in {"none", "wait"}
  BY DEF AutoLogInit, Crash, Closed, clock, disk
<1>2. <<>> \in Seq(AllLines)
  OBVIOUS
<1>3. TypeOK'
  <2>1. /\ saying' \in Sayings
        /\ queue' \in Seq(AllLines) /\ held' \in AllLines \cup {NoLine}
    BY <1>1, <1>2 DEF Fresh, Sayings
  <2>2. /\ currentDate' \in Days \cup {NoDay} /\ fileOpen' \in BOOLEAN
        /\ todo' \subseteq Days /\ packing' \in Days \cup {NoDay}
    BY <1>1 DEF Fresh
  <2> QED BY <1>1, <2>1, <2>2 DEF TypeOK
<1>4. today \in Nat
  BY DayNumbers DEF TypeOK
<1>5. LogThreadInv' /\ PackInv'
  BY <1>1, <1>4 DEF Fresh, LogThreadInv, PackInv, NoDay
<1> QED BY <1>1, <1>3, <1>5, SameDisk

(* The clock: a file of today becomes one of the past, never the other way.  *)
LEMMA NextDayOK ==
    ASSUME IInv, NextDay
    PROVE  IInv' /\ Kept
<1> USE DEF IInv, NextDay, callers, queueVars, logVars, disk, scanVars
<1>1. today \in Nat /\ today' = today + 1 /\ today' \in Days /\ LastDay \in Nat
  BY AutoLogAssumption DEF TypeOK, Days
<1>2. TypeOK'
  BY <1>1 DEF TypeOK
<1>3. currentDate \in Nat
  BY DayNumbers DEF TypeOK, NoDay
<1>4. LogThreadInv'
  BY <1>1, <1>3 DEF LogThreadInv
<1>5. PackInv'
  <2>1. \A d \in Days : d + RetentionDays < today => d + RetentionDays < today'
    BY <1>1, DayNumbers
  <2> QED BY <2>1 DEF PackInv, TypeOK
<1> QED BY <1>2, <1>4, <1>5, SameDisk

(* logThreadFunc: the steps that do not touch a file.                        *)
LEMMA LogThreadIdlesOK ==
    ASSUME IInv, Pop \/ SignalScan \/ WriteFails \/ LogThreadEnds
    PROVE  IInv' /\ Kept
<1> USE DEF IInv, clock, callers, queueVars, logVars, disk, scanVars
<1>1. UNCHANGED <<today, said, currentDate, plain, gz, cut, compressPc, todo, packing>>
  BY DEF Pop, SignalScan, WriteFails, LogThreadEnds
<1>2. saying' \in Sayings
  <2>1. CASE WriteFails
    BY <2>1, ReportsOK DEF WriteFails
  <2>2. CASE ~WriteFails
    BY <2>2 DEF Pop, SignalScan, LogThreadEnds, TypeOK
  <2> QED BY <2>1, <2>2
<1>3. /\ queue' \in Seq(AllLines) /\ held' \in AllLines \cup {NoLine}
      /\ logPc' = "date" => held' \in AllLines
      /\ logPc' = "write" => held' = held /\ logPc = "signal"
      /\ logPc' \in {"date", "write", "idle", "ended"}
      /\ fileOpen' \in BOOLEAN /\ (fileOpen' => fileOpen)
  <2>1. CASE Pop
    <3>1. queue \in Seq(AllLines) /\ queue # <<>> /\ queue' = Tail(queue) /\ held' = Head(queue)
      BY <2>1 DEF Pop, TypeOK
    <3>2. Head(queue) \in AllLines /\ Tail(queue) \in Seq(AllLines)
      BY <3>1
    <3> QED BY <2>1, <3>1, <3>2 DEF Pop, TypeOK
  <2>2. queue \in Seq(AllLines) /\ held \in AllLines \cup {NoLine} /\ fileOpen \in BOOLEAN
    BY DEF TypeOK
  <2>3. CASE SignalScan
    BY <2>2, <2>3 DEF SignalScan
  <2>4. CASE WriteFails
    BY <2>2, <2>4 DEF WriteFails
  <2>5. CASE LogThreadEnds
    BY <2>2, <2>5 DEF LogThreadEnds
  <2> QED BY <2>1, <2>3, <2>4, <2>5
<1>4. TypeOK'
  BY <1>1, <1>2, <1>3 DEF TypeOK
<1>5. LogThreadInv' /\ PackInv'
  BY <1>1, <1>3 DEF LogThreadInv, PackInv
<1> QED BY <1>1, <1>4, <1>5, SameDisk

(* openLogFile: it leaves a file of today, or none open.                     *)
LEMMA RotateOK ==
    ASSUME IInv, DaysInv, NEW opened \in BOOLEAN, Rotate(opened)
    PROVE  IInv' /\ Kept
<1> USE DEF IInv, clock, queueVars, scanVars
<1>1. /\ UNCHANGED <<today, said, queue, held, gz, cut, compressPc, todo, packing>>
      /\ currentDate' = today /\ fileOpen' = opened /\ today \in Days
      /\ held \in AllLines /\ logPc' = "signal"
  BY DEF Rotate, LogThreadInv, TypeOK
<1>2. <<>> \in Seq(AllLines) /\ NoFile # <<>>
  <2>1. <<>> \in Seq(AllLines)
    OBVIOUS
  <2> QED BY <2>1, NoText
<1>3. plain' \in [Days -> Seq(AllLines) \cup {NoFile}]
  BY <1>1, <1>2 DEF Rotate, TypeOK
<1>4. \A d \in Days : plain[d] # NoFile => plain'[d] = plain[d]
  BY <1>1 DEF Rotate, TypeOK
<1>5. \A d \in Days : plain'[d] = plain[d] \/ (d = today /\ plain[d] = NoFile /\ plain'[d] = <<>>)
  BY <1>1 DEF Rotate, TypeOK
<1>6. opened => plain'[today] # NoFile
  BY <1>1, <1>2 DEF Rotate, TypeOK
<1>7. saying' \in Sayings
  BY ReportsOK DEF Rotate
<1>8. TypeOK'
  BY <1>1, <1>3, <1>7 DEF TypeOK
<1>9. LogThreadInv'
  <2>1. today <= today
    BY <1>1, DayNumbers
  <2> QED BY <1>1, <1>6, <2>1 DEF LogThreadInv
<1>10. PackInv'
  BY <1>1, <1>4 DEF PackInv, TypeOK
<1>11. \A d \in Days : Readable(d)' = Readable(d)
  <2>1. gz[today] = NoFile
    BY <1>1, DayNumbers DEF DaysInv
  <2> QED BY <1>1, <1>2, <1>5, <2>1 DEF Readable
<1> QED BY <1>8, <1>9, <1>10, <1>11 DEF Kept

(* fputs: it writes to the file of today, which nobody packs.                *)
LEMMA WriteOK ==
    ASSUME IInv, DaysInv, Write
    PROVE  IInv' /\ (Kept \/ Wrote)
<1> USE DEF IInv, clock, callers, queueVars, scanVars
<1>1. /\ UNCHANGED <<today, said, saying, queue, currentDate, fileOpen, gz, cut, compressPc, todo, packing>>
      /\ held' = NoLine /\ logPc' = "idle"
      /\ currentDate = today /\ today \in Days /\ held \in AllLines
  BY DEF Write, MayWrite, LogThreadInv, TypeOK
<1>2. CASE ~fileOpen
  <2>1. plain' = plain
    BY <1>2 DEF Write
  <2>2. TypeOK'
    BY <1>1, <2>1 DEF TypeOK
  <2>3. LogThreadInv' /\ PackInv'
    BY <1>1, <2>1 DEF LogThreadInv, PackInv
  <2> QED BY <1>1, <2>1, <2>2, <2>3, SameDisk
<1>3. CASE fileOpen
  <2>1. plain[today] \in Seq(AllLines)
    BY <1>1, <1>3 DEF LogThreadInv, TypeOK
  <2>2. Append(plain[today], held) \in Seq(AllLines)
    BY <1>1, <2>1
  <2>3. plain' = [plain EXCEPT ![today] = Append(plain[today], held)]
    BY <1>1, <1>3 DEF Write
  <2> DEFINE longer == Append(plain[today], held)
  <2>4. longer \in Seq(AllLines) /\ longer # NoFile
    BY <2>2, NoText
  <2>5. /\ plain' \in [Days -> Seq(AllLines) \cup {NoFile}] /\ plain'[today] = longer
        /\ \A d \in Days : d # today => plain'[d] = plain[d]
    BY <1>1, <2>3, <2>4 DEF TypeOK
  <2> HIDE DEF longer
  <2>7. TypeOK'
    BY <1>1, <2>5 DEF TypeOK
  <2>8. LogThreadInv'
    BY <1>1, <2>4, <2>5 DEF LogThreadInv
  <2>9. \A d \in Days : d + RetentionDays < today => d # today
    BY <1>1, DayNumbers
  <2>10. PackInv'
    BY <1>1, <2>4, <2>5, <2>9 DEF PackInv, TypeOK
  <2>11. \A d \in Days : d # today => Readable(d)' = Readable(d)
    BY <1>1, <2>5 DEF Readable
  <2>12. gz[today] = NoFile
    BY <1>1, DayNumbers DEF DaysInv
  <2>13. \A d \in Days : d = today => Readable(d) = plain[today] /\ Readable(d)' = longer
    BY <1>1, <2>1, <2>4, <2>5, <2>12, NoText DEF Readable
  <2>14. Wrote
    BY <1>1, <2>11, <2>13 DEF Wrote, Carrying, Write, MayWrite, longer
  <2> QED BY <2>7, <2>8, <2>10, <2>14
<1> QED BY <1>2, <1>3

(* scanAndCompressOldLogs: the steps that leave the directory alone; the     *)
(* scan takes old files, of which there are fewer and fewer.                 *)
LEMMA ScanStepsOK ==
    ASSUME IInv,
           \/ BeginScan \/ CopyFails \/ RemoveFails \/ EndScan \/ CompressThreadEnds
           \/ \E d \in Days : SkipFile(d)
    PROVE  IInv' /\ Kept
<1> USE DEF IInv, clock, callers, queueVars, logVars, disk
<1>1. UNCHANGED <<today, said, queue, held, logPc, currentDate, fileOpen, plain, gz, cut>>
  BY DEF BeginScan, CopyFails, RemoveFails, EndScan, CompressThreadEnds, SkipFile
<1>2. saying' \in Sayings
  <2>1. Reports(CompressThread) \/ UNCHANGED saying
    BY DEF BeginScan, CopyFails, RemoveFails, EndScan, CompressThreadEnds, SkipFile
  <2> QED BY <2>1, ReportsOK
<1>3. /\ compressPc' \in {"scan", "wait", "ended"} /\ packing' \in Days \cup {NoDay}
      /\ \A d \in todo' : d \in Days /\ plain[d] # NoFile /\ d + RetentionDays < today
  BY DEF BeginScan, CopyFails, RemoveFails, EndScan, CompressThreadEnds, SkipFile, TypeOK, PackInv
<1>4. TypeOK'
  BY <1>1, <1>2, <1>3 DEF TypeOK
<1>5. LogThreadInv' /\ PackInv'
  BY <1>1, <1>3 DEF LogThreadInv, PackInv
<1> QED BY <1>1, <1>4, <1>5, SameDisk

(* compressOneFile: the archive is opened, and is not yet read.              *)
LEMMA OpenArchiveOK ==
    ASSUME IInv, NEW d \in Days, OpenArchive(d)
    PROVE  IInv' /\ Kept
<1> USE DEF IInv, clock, callers, queueVars, logVars
<1>1. /\ UNCHANGED <<today, said, saying, queue, held, logPc, currentDate, fileOpen, plain, cut>>
      /\ d \in todo /\ gz[d] = NoFile /\ compressPc' = "copy"
      /\ todo' = todo \ {d} /\ packing' = d /\ gz' = [gz EXCEPT ![d] = Partial]
  BY DEF OpenArchive
<1>2. /\ gz' \in [Days -> Seq(AllLines) \cup {NoFile, Partial}] /\ gz'[d] = Partial
      /\ \A e \in Days : e # d => gz'[e] = gz[e]
  BY <1>1 DEF TypeOK
<1>3. TypeOK'
  BY <1>1, <1>2 DEF TypeOK
<1>4. LogThreadInv' /\ PackInv'
  BY <1>1, <1>2 DEF LogThreadInv, PackInv
<1>5. \A e \in Days : Readable(e)' = Readable(e)
  BY <1>1, <1>2 DEF Readable
<1> QED BY <1>3, <1>4, <1>5 DEF Kept

(* compressOneFile: the archive is a copy of the file, or of its beginning   *)
(* after a read error; the file is still there.                              *)
LEMMA CopyFileOK ==
    ASSUME IInv, CopyFile
    PROVE  IInv' /\ Kept
<1> USE DEF IInv, clock, callers, queueVars, logVars
<1>1. /\ UNCHANGED <<today, said, saying, queue, held, logPc, currentDate, fileOpen, plain,
                     todo, packing>>
      /\ compressPc = "copy" /\ compressPc' = "remove"
      /\ packing \in Days /\ gz[packing] = Partial /\ plain[packing] # NoFile
  BY DEF CopyFile, PackInv
<1>2. PICK text \in Seq(AllLines) : text = plain[packing]
  BY <1>1 DEF TypeOK
<1>3. PICK n \in 0..Len(text) :
        /\ gz' = [gz EXCEPT ![packing] = SubSeq(text, 1, n)]
        /\ cut' = IF n < Len(text) THEN cut \cup {packing} ELSE cut
  BY <1>2 DEF CopyFile
<1>4. PICK copy \in Seq(AllLines) :
        /\ copy = SubSeq(text, 1, n) /\ IsPrefix(copy, text) /\ (n = Len(text) => copy = text)
  BY PrefixOfSome
<1>5. /\ gz' \in [Days -> Seq(AllLines) \cup {NoFile, Partial}] /\ gz'[packing] = copy
      /\ \A e \in Days : e # packing => gz'[e] = gz[e]
  BY <1>1, <1>3, <1>4 DEF TypeOK
<1>6. cut' \subseteq Days /\ (packing \notin cut' => copy = text)
  <2>1. n = Len(text) \/ n < Len(text)
    OBVIOUS
  <2> QED BY <1>1, <1>3, <1>4, <2>1 DEF TypeOK
<1>7. TypeOK'
  BY <1>1, <1>5, <1>6 DEF TypeOK
<1>8. LogThreadInv'
  BY <1>1 DEF LogThreadInv
<1>9. PackInv'
  <2>1. /\ \A d \in todo : plain[d] # NoFile /\ d + RetentionDays < today
        /\ packing \notin todo /\ packing + RetentionDays < today
    BY <1>1 DEF PackInv
  <2> QED BY <1>1, <1>2, <1>4, <1>5, <1>6, <2>1 DEF PackInv
<1>10. \A e \in Days : Readable(e)' = Readable(e)
  BY <1>1, <1>5 DEF Readable
<1> QED BY <1>7, <1>8, <1>9, <1>10 DEF Kept

(* compressOneFile: the file goes when its archive is there; with it what    *)
(* stood behind a read error.                                                *)
LEMMA RemovePlainOK ==
    ASSUME IInv, RemovePlain
    PROVE  IInv' /\ Trimmed
<1> USE DEF IInv, clock, callers, queueVars, logVars
<1>1. /\ UNCHANGED <<today, said, saying, queue, held, logPc, currentDate, fileOpen, gz, cut, todo>>
      /\ compressPc' = "scan" /\ packing' = NoDay
      /\ plain' = [plain EXCEPT ![packing] = NoFile]
      /\ packing \in Days /\ packing \notin todo
      /\ gz[packing] \in Seq(AllLines) /\ IsPrefix(gz[packing], plain[packing])
      /\ packing \notin cut => gz[packing] = plain[packing]
      /\ plain[packing] # NoFile /\ packing + RetentionDays < today
  BY DEF RemovePlain, PackInv
<1>2. /\ plain' \in [Days -> Seq(AllLines) \cup {NoFile}] /\ plain'[packing] = NoFile
      /\ \A e \in Days : e # packing => plain'[e] = plain[e]
  BY <1>1 DEF TypeOK
<1>3. packing # today
  BY <1>1, DayNumbers
<1>4. TypeOK'
  BY <1>1, <1>2 DEF TypeOK
<1>5. LogThreadInv'
  BY <1>1, <1>2, <1>3 DEF LogThreadInv, TypeOK
<1>6. PackInv'
  BY <1>1, <1>2 DEF PackInv, TypeOK
<1>7. ASSUME NEW d \in Days, d = packing
      PROVE  Readable(d) = plain[d] /\ Readable(d)' = gz[d]
  BY <1>1, <1>2, <1>7, NoText DEF Readable
<1>8. \A e \in Days : e # packing => Readable(e)' = Readable(e)
  BY <1>1, <1>2 DEF Readable
<1>9. ASSUME NEW d \in Days
      PROVE  \/ Readable(d)' = Readable(d)
             \/ d \in cut /\ IsPrefix(Readable(d)', Readable(d))
  <2>1. CASE d = packing
    <3>1. Readable(d) = plain[d] /\ Readable(d)' = gz[d]
      BY <1>7, <2>1
    <3> QED BY <1>1, <2>1, <3>1
  <2> QED BY <1>8, <2>1
<1> QED BY <1>4, <1>5, <1>6, <1>9 DEF Trimmed

(* A step in which nothing happens.                                          *)
LEMMA StutterOK ==
    ASSUME IInv, UNCHANGED vars
    PROVE  IInv' /\ Kept
<1>1. UNCHANGED <<today, said, saying, queue, held, logPc, currentDate, fileOpen, plain, gz, cut,
                  compressPc, todo, packing>>
  BY DEF vars, clock, callers, queueVars, logVars, disk, scanVars
<1> QED BY <1>1, SameDisk DEF IInv, TypeOK, LogThreadInv, PackInv

(* autoLog.c: every step keeps the invariant, and what can be read.          *)
LEMMA StepKeepsText ==
    ASSUME IInv, DaysInv, [Next]_vars
    PROVE  IInv' /\ (Kept \/ (Write /\ Wrote) \/ (RemovePlain /\ Trimmed))
<1>1. CASE AutoLogInit \/ Crash \/ Closed
  BY <1>1, BeginAndEndOK
<1>2. CASE NextDay
  BY <1>2, NextDayOK
<1>3. CASE AutoLogFetch \/ AutoLogClose \/ StopCompress \/ \E w \in Writers : Say(w)
  BY <1>3, CallerStepsOK
<1>4. CASE \E t \in Threads : Pushes(t)
  BY <1>4, CallerStepsOK
<1>5. CASE Pop \/ SignalScan \/ WriteFails \/ LogThreadEnds
  BY <1>5, LogThreadIdlesOK
<1>6. CASE \E opened \in BOOLEAN : Rotate(opened)
  BY <1>6, RotateOK
<1>7. CASE Write
  BY <1>7, WriteOK
<1>8. CASE \/ BeginScan \/ CopyFails \/ RemoveFails \/ EndScan \/ CompressThreadEnds
           \/ \E d \in Days : SkipFile(d)
  BY <1>8, ScanStepsOK
<1>9. CASE \E d \in Days : OpenArchive(d)
  BY <1>9, OpenArchiveOK
<1>10. CASE CopyFile
  BY <1>10, CopyFileOK
<1>11. CASE RemovePlain
  BY <1>11, RemovePlainOK
<1>12. CASE UNCHANGED vars
  BY <1>12, StutterOK
<1>13. Writers \subseteq Threads /\ LogThread \in Threads /\ CompressThread \in Threads
  BY DEF Threads
<1> QED
  BY <1>1, <1>2, <1>3, <1>4, <1>5, <1>6, <1>7, <1>8, <1>9, <1>10, <1>11, <1>12, <1>13
     DEF Next, LogThreadStep, CompressThreadStep, Closer

(* autoLog.c: files are opened on their day, and archives of old files.      *)
LEMMA StepKeepsDays ==
    ASSUME IInv, DaysInv, [Next]_vars
    PROVE  DaysInv'
<1> USE DEF IInv
<1>1. /\ today \in Days /\ today \in Nat /\ RetentionDays \in Nat
      /\ \A d \in Days : d \in Nat
  BY DayNumbers DEF TypeOK
<1>2. ASSUME today' = today \/ today' = today + 1,
             \A d \in Days : plain'[d] # NoFile => plain[d] # NoFile \/ d = today,
             \A d \in Days : gz'[d] # NoFile => gz[d] # NoFile \/ d + RetentionDays < today
      PROVE  DaysInv'
  <2>1. ASSUME NEW d \in Days, d <= today  PROVE d <= today'
    BY <1>1, <1>2, <2>1
  <2>2. ASSUME NEW d \in Days, d < today \/ d + RetentionDays < today  PROVE d < today'
    BY <1>1, <1>2, <2>2
  <2>3. today <= today
    BY <1>1
  <2>4. ASSUME NEW d \in Days
        PROVE  (plain'[d] # NoFile => d <= today') /\ (gz'[d] # NoFile => d < today')
    <3>1. plain'[d] # NoFile => d <= today
      BY <1>2, <2>3 DEF DaysInv
    <3>2. gz'[d] # NoFile => d < today \/ d + RetentionDays < today
      BY <1>2 DEF DaysInv
    <3> QED BY <2>1, <2>2, <3>1, <3>2
  <2> QED BY <2>4 DEF DaysInv
<1>3. CASE NextDay
  BY <1>1, <1>2, <1>3 DEF NextDay, disk
<1>4. CASE \E opened \in BOOLEAN : Rotate(opened)
  <2>1. UNCHANGED <<today, gz>>
    BY <1>4 DEF Rotate, clock, queueVars, scanVars
  <2>2. plain' = plain \/ plain' = [plain EXCEPT ![today] = <<>>]
    BY <1>4 DEF Rotate
  <2>3. \A d \in Days : d # today => plain'[d] = plain[d]
    BY <1>1, <2>2 DEF TypeOK
  <2> QED BY <1>2, <2>1, <2>3
<1>5. CASE Write
  <2>1. currentDate = today
    BY <1>5 DEF Write, MayWrite, LogThreadInv
  <2>2. UNCHANGED <<today, gz>> /\ \A d \in Days : d # today => plain'[d] = plain[d]
    BY <1>5, <2>1 DEF Write, clock, TypeOK
  <2> QED BY <1>2, <2>2
<1>6. CASE \E d \in Days : OpenArchive(d)
  <2>1. PICK d \in Days : OpenArchive(d)
    BY <1>6
  <2>2. UNCHANGED <<today, plain>> /\ d + RetentionDays < today
        /\ \A e \in Days : e # d => gz'[e] = gz[e]
    BY <2>1 DEF OpenArchive, clock, PackInv, TypeOK
  <2> QED BY <1>2, <2>2
<1>7. CASE CopyFile
  <2>1. UNCHANGED <<today, plain>> /\ packing + RetentionDays < today
        /\ \A e \in Days : e # packing => gz'[e] = gz[e]
    BY <1>7 DEF CopyFile, clock, PackInv, TypeOK
  <2> QED BY <1>2, <2>1
<1>8. CASE RemovePlain
  <2>1. UNCHANGED <<today, gz>> /\ \A d \in Days : plain'[d] # NoFile => plain[d] # NoFile
    BY <1>8 DEF RemovePlain, clock, TypeOK
  <2> QED BY <1>2, <2>1
<1>9. CASE UNCHANGED <<today, plain, gz>>
  BY <1>2, <1>9
<1>10. CASE \/ AutoLogInit \/ Crash \/ Closed \/ AutoLogFetch \/ AutoLogClose \/ StopCompress
            \/ \E w \in Writers : Say(w)
            \/ \E t \in Threads : Pushes(t)
  BY <1>9, <1>10 DEF AutoLogInit, Crash, Closed, AutoLogFetch, AutoLogClose, StopCompress, Say,
                     Pushes, PushQueue, PushTui, clock, disk
<1>11. CASE Pop \/ SignalScan \/ WriteFails \/ LogThreadEnds
  BY <1>9, <1>11 DEF Pop, SignalScan, WriteFails, LogThreadEnds, clock, disk
<1>12. CASE \/ BeginScan \/ CopyFails \/ RemoveFails \/ EndScan \/ CompressThreadEnds
            \/ \E d \in Days : SkipFile(d)
  BY <1>9, <1>12 DEF BeginScan, CopyFails, RemoveFails, EndScan, CompressThreadEnds, SkipFile,
                     clock, disk
<1>13. CASE UNCHANGED vars
  BY <1>9, <1>13 DEF vars, clock, disk
<1>14. Writers \subseteq Threads /\ LogThread \in Threads /\ CompressThread \in Threads
  BY DEF Threads
<1> QED
  BY <1>3, <1>4, <1>5, <1>6, <1>7, <1>8, <1>10, <1>11, <1>12, <1>13, <1>14
     DEF Next, LogThreadStep, CompressThreadStep, Closer

(* The invariant of the log engine: its types, the file the log thread has   *)
(* open, the days of the files, and the file that is being packed            *)
(* (logThreadFunc, compressOneFile).                                         *)
THEOREM LogInvariant == Spec => [](IInv /\ DaysInv)
<1>1. Init => IInv /\ DaysInv
  BY InitOK DEF Init, DaysInv
<1>2. (IInv /\ DaysInv) /\ [Next]_vars => (IInv /\ DaysInv)'
  BY StepKeepsText, StepKeepsDays
<1> QED BY <1>1, <1>2, PTL DEF Spec

(* What once was in a file can be read ever after, whatever threads write,   *)
(* days pass, archives fail and processes crash (compressOneFile removes a   *)
(* file last, and never that of today), but for the end of a day whose copy  *)
(* met a read error.                                                         *)
THEOREM WrittenLinesStay == Spec => WrittenStays
<1>1. IInv /\ DaysInv /\ [Next]_vars =>
        [\A d \in Days : \/ IsPrefix(Readable(d), Readable(d)')
                         \/ d \in cut /\ IsPrefix(Readable(d)', Readable(d))]_vars
  BY StepKeepsText, KeptOrWroteStays DEF Stays, IInv
<1> QED BY LogInvariant, <1>1, PTL DEF Spec, WrittenStays

-----------------------------------------------------------------------------
(* LinesInOrder: the pipe that a line passes on its way to the text.         *)

(* Nothing enters the pipe but what the log's own threads report; the queue  *)
(* may be lost as a whole, and the held line may leave.                      *)
LEMMA QuietPipe ==
    ASSUME PipeInv, said' = said, queue' = queue \/ queue' = <<>>,
           Carrying' => Carrying /\ held' = held,
           \A t \in Threads : Pushing(t)' =>
               \/ Pushing(t) /\ saying'[t].line = saying[t].line
               \/ t \notin Writers /\ saying'[t].line.by = t
    PROVE  PipeInv' /\ \A l \in AllLines : Ahead(l) => Ahead(l)'
<1>1. \A l : Known(l)' <=> Known(l)
  BY DEF Known
<1>2. \A i \in DOMAIN queue' : i \in DOMAIN queue /\ queue'[i] = queue[i]
  OBVIOUS
<1>3. ASSUME NEW l, NEW t \in Threads, Pushing(t) => Follows(l, saying[t].line), Pushing(t)'
      PROVE  Follows(l, saying'[t].line)
  <2>1. CASE Pushing(t) /\ saying'[t].line = saying[t].line
    BY <1>3, <2>1
  <2>2. CASE t \notin Writers /\ saying'[t].line.by = t
    BY <2>2 DEF Follows
  <2> QED BY <1>3, <2>1, <2>2
<1>4. ASSUME NEW l, InFront(l)  PROVE InFront(l)'
  <2>1. Known(l)'
    BY <1>1, <1>4 DEF InFront
  <2>2. \A i \in DOMAIN queue' : Follows(l, queue'[i])
    BY <1>2, <1>4 DEF InFront
  <2>3. \A t \in Threads : Pushing(t)' => Follows(l, saying'[t].line)
    BY <1>3, <1>4 DEF InFront
  <2> QED BY <2>1, <2>2, <2>3 DEF InFront, Follows
<1>5. ASSUME NEW l \in AllLines, Ahead(l)  PROVE Ahead(l)'
  BY <1>4, <1>5 DEF Ahead, Follows
<1>6. (Carrying => InFront(held))'
  <2>1. Carrying' => InFront(held)
    BY DEF PipeInv
  <2>2. PICK h : h = held
    OBVIOUS
  <2>3. Carrying' => InFront(h)' /\ h = held'
    BY <1>4, <2>1, <2>2
  <2> QED BY <2>3 DEF InFront, Known, Follows, Pushing
<1>7. \A t \in Threads : Pushing(t)' => saying'[t].line.by = t /\ Known(saying[t].line)'
  BY DEF PipeInv, Known
<1>8. ASSUME NEW i \in DOMAIN queue'
      PROVE  /\ Known(queue[i])'
             /\ \A j \in DOMAIN queue' : i < j => Follows(queue'[i], queue'[j])
             /\ \A t \in Threads : Pushing(t)' => Follows(queue'[i], saying'[t].line)
  <2>1. Known(queue[i])'
    BY <1>2 DEF PipeInv, Known
  <2>2. \A j \in DOMAIN queue' : i < j => Follows(queue'[i], queue'[j])
    BY <1>2 DEF PipeInv
  <2>3. \A t \in Threads : Pushing(t)' => Follows(queue'[i], saying'[t].line)
    BY <1>2, <1>3 DEF PipeInv
  <2> QED BY <2>1, <2>2, <2>3
<1> QED BY <1>5, <1>6, <1>7, <1>8 DEF PipeInv, Follows

(* logCallback: a line is numbered after all that its thread has logged.     *)
LEMMA SayPipe ==
    ASSUME IInv, PipeInv, NEW w \in Writers, Say(w)
    PROVE  PipeInv' /\ \A l \in AllLines : Ahead(l) => Ahead(l)'
<1> DEFINE line == Line(w, said[w] + 1)
<1>1. UNCHANGED <<queue, logPc, held>> /\ w \in Threads
  BY DEF Say, queueVars, logVars, Threads
<1>2. said[w] \in Nat /\ said' = [said EXCEPT ![w] = @ + 1] /\ said \in [Writers -> Nat]
  BY DEF Say, IInv, TypeOK
<1>3. \A u \in Writers : said'[u] = IF u = w THEN said[u] + 1 ELSE said[u]
  BY <1>2
<1>4. ~Pushing(w) /\ saying'[w].line = line
      /\ \A t \in Threads : t # w => saying'[t] = saying[t]
  <2>1. saying' = [saying EXCEPT ![w] = [line |-> line, to |-> "file"]] /\ saying[w] = NoLine
    BY DEF Say, Begins
  <2>2. saying'[w] = [line |-> line, to |-> "file"]
        /\ \A t \in Threads : t # w => saying'[t] = saying[t]
    BY <1>1, <2>1 DEF IInv, TypeOK, Sayings
  <2> QED BY <2>1, <2>2 DEF Pushing
<1>5. line.by = w /\ line.n = said[w] + 1
  BY DEF Line
<1> HIDE DEF line
<1>6. \A l \in AllLines : l.n \in Nat
  BY AutoLogAssumption DEF AllLines, Lines, Line, Report
<1>7. ASSUME NEW l \in AllLines, Known(l)  PROVE Known(l)' /\ Follows(l, line)
  <2>1. l.by \in Writers => l.n <= said[l.by] /\ said[l.by] \in Nat
    BY <1>2, <1>7 DEF Known
  <2>2. l.by \in Writers => l.n <= said'[l.by]
    BY <1>3, <1>6, <2>1
  <2>3. l.by = w => l.n < said[w] + 1
    BY <1>2, <1>6, <2>1
  <2> QED BY <1>5, <2>2, <2>3 DEF Known, Follows
<1>8. ASSUME NEW l \in AllLines, InFront(l)  PROVE InFront(l)'
  <2>1. Known(l)' /\ Follows(l, line)
    BY <1>7, <1>8 DEF InFront
  <2>2. \A i \in DOMAIN queue' : Follows(l, queue'[i])
    BY <1>1, <1>8 DEF InFront
  <2>3. \A t \in Threads : Pushing(t)' => Follows(l, saying'[t].line)
    BY <1>4, <1>8, <2>1 DEF InFront, Pushing
  <2> QED BY <2>1, <2>2, <2>3 DEF InFront, Follows
<1>9. ASSUME NEW l \in AllLines, Ahead(l)  PROVE Ahead(l)'
  BY <1>1, <1>8, <1>9 DEF Ahead, Follows, Carrying
<1>10. (Carrying => InFront(held))'
  <2>1. PICK h : h = held
    OBVIOUS
  <2>2. Carrying => h \in AllLines /\ InFront(h)
    BY <2>1 DEF PipeInv, Carrying, IInv, LogThreadInv
  <2>3. Carrying' => InFront(h)' /\ h = held'
    BY <1>1, <1>8, <2>1, <2>2 DEF Carrying
  <2> QED BY <2>3 DEF InFront, Known, Follows, Pushing
<1>11. \A t \in Threads : Pushing(t)' => saying'[t].line.by = t /\ Known(saying[t].line)'
  <2>1. ASSUME NEW t \in Threads, t # w, Pushing(t)'
        PROVE  saying'[t].line.by = t /\ Known(saying[t].line)'
    <3>1. PICK l : l = saying[t].line
      OBVIOUS
    <3>2. saying'[t].line = l /\ Pushing(t)
      BY <1>4, <2>1, <3>1 DEF Pushing
    <3>3. l \in AllLines /\ l.by = t /\ Known(l)
      BY <3>1, <3>2 DEF PipeInv, Pushing, IInv, TypeOK, Sayings
    <3>4. Known(l)'
      BY <1>7, <3>3
    <3> QED BY <3>2, <3>3, <3>4 DEF Known
  <2>2. Known(saying[w].line)'
    BY <1>2, <1>3, <1>4, <1>5 DEF Known
  <2> QED BY <1>4, <1>5, <2>1, <2>2
<1>12. ASSUME NEW i \in DOMAIN queue'
       PROVE  /\ Known(queue[i])'
              /\ \A j \in DOMAIN queue' : i < j => Follows(queue'[i], queue'[j])
              /\ \A t \in Threads : Pushing(t)' => Follows(queue'[i], saying'[t].line)
  <2>1. PICK l : l = queue[i]
    OBVIOUS
  <2>2. queue' = queue /\ queue'[i] = l /\ l \in AllLines /\ Known(l)
    BY <1>1, <2>1 DEF PipeInv, IInv, TypeOK
  <2>3. Known(l)' /\ Follows(l, line)
    BY <1>7, <2>2
  <2>4. \A t \in Threads : Pushing(t)' => Follows(l, saying'[t].line)
    BY <1>4, <2>1, <2>2, <2>3 DEF PipeInv, Pushing
  <2>5. \A j \in DOMAIN queue' : i < j => Follows(l, queue'[j])
    BY <2>1, <2>2 DEF PipeInv
  <2> QED BY <2>2, <2>3, <2>4, <2>5 DEF Known
<1> QED BY <1>9, <1>10, <1>11, <1>12 DEF PipeInv, Follows

(* LogMsgQueue: a line goes to the end of the queue, or it is dropped.       *)
LEMMA PushPipe ==
    ASSUME IInv, PipeInv, NEW t \in Threads, PushQueue(t)
    PROVE  PipeInv' /\ \A l \in AllLines : Ahead(l) => Ahead(l)'
<1>1. UNCHANGED <<said, logPc, held>> /\ Pushing(t)
  BY DEF PushQueue, logVars, Pushing
<1>2. PICK line : line = saying[t].line
  OBVIOUS
<1>3. line \in AllLines /\ line.by = t /\ Known(line)
  BY <1>1, <1>2 DEF PipeInv, Pushing, IInv, TypeOK, Sayings
<1>4. \A u \in Threads : Pushing(u)' => u # t /\ Pushing(u) /\ saying'[u] = saying[u]
  <2>1. saying' = [saying EXCEPT ![t].to = "console"]
    BY DEF PushQueue
  <2>2. \A u \in Threads : u # t => saying'[u] = saying[u]
    BY <2>1 DEF IInv, TypeOK, Sayings
  <2>3. saying'[t].to = "console"
    BY <1>1, <2>1 DEF IInv, TypeOK, Sayings, Pushing
  <2> QED BY <2>2, <2>3 DEF Pushing
<1>5. queue' = queue \/ queue' = Append(queue, line)
  BY <1>2 DEF PushQueue
<1>6. queue \in Seq(AllLines)
  BY DEF IInv, TypeOK
<1>7. \A i \in DOMAIN queue' :
          (i \in DOMAIN queue /\ queue'[i] = queue[i]) \/ (i = Len(queue) + 1 /\ queue'[i] = line)
  BY <1>3, <1>5, <1>6
<1>8. \A i, j \in DOMAIN queue' : i < j => i \in DOMAIN queue /\ queue'[i] = queue[i]
  BY <1>3, <1>5, <1>6
<1>9. \A l : Known(l)' <=> Known(l)
  BY <1>1 DEF Known
<1>10. ASSUME NEW l, InFront(l)  PROVE InFront(l)'
  <2>1. Known(l)' /\ Follows(l, line)
    BY <1>1, <1>2, <1>9, <1>10 DEF InFront
  <2>2. \A i \in DOMAIN queue' : Follows(l, queue'[i])
    BY <1>7, <1>10, <2>1 DEF InFront
  <2>3. \A u \in Threads : Pushing(u)' => Follows(l, saying'[u].line)
    BY <1>4, <1>10 DEF InFront
  <2> QED BY <2>1, <2>2, <2>3 DEF InFront, Follows
<1>11. ASSUME NEW l \in AllLines, Ahead(l)  PROVE Ahead(l)'
  BY <1>1, <1>10, <1>11 DEF Ahead, Follows, Carrying
<1>12. (Carrying => InFront(held))'
  <2>1. PICK h : h = held
    OBVIOUS
  <2>2. Carrying' => InFront(h)' /\ h = held'
    BY <1>1, <1>10, <2>1 DEF Carrying, PipeInv
  <2> QED BY <2>2 DEF InFront, Known, Follows, Pushing
<1>13. \A u \in Threads : Pushing(u)' => saying'[u].line.by = u /\ Known(saying[u].line)'
  BY <1>1, <1>4 DEF PipeInv, Known
<1>14. ASSUME NEW i \in DOMAIN queue'
       PROVE  /\ Known(queue[i])'
              /\ \A j \in DOMAIN queue' : i < j => Follows(queue'[i], queue'[j])
              /\ \A u \in Threads : Pushing(u)' => Follows(queue'[i], saying'[u].line)
  <2>1. Known(queue'[i])
    BY <1>3, <1>7 DEF PipeInv
  <2>2. ASSUME NEW j \in DOMAIN queue', i < j  PROVE Follows(queue'[i], queue'[j])
    <3>1. i \in DOMAIN queue /\ queue'[i] = queue[i]
      BY <1>8, <2>2
    <3>2. Follows(queue[i], line)
      BY <1>1, <1>2, <3>1 DEF PipeInv
    <3> QED BY <1>7, <2>2, <3>1, <3>2 DEF PipeInv
  <2>3. ASSUME NEW u \in Threads, Pushing(u)'  PROVE Follows(queue'[i], saying'[u].line)
    <3>1. u # t /\ Pushing(u) /\ saying'[u] = saying[u] /\ saying[u].line.by = u
      BY <1>4, <2>3 DEF PipeInv
    <3>2. Follows(line, saying[u].line)
      BY <1>3, <3>1 DEF Follows
    <3> QED BY <1>7, <3>1, <3>2 DEF PipeInv
  <2> QED BY <1>1, <2>1, <2>2, <2>3 DEF Known
<1> QED BY <1>11, <1>12, <1>13, <1>14 DEF PipeInv, Follows

(* logThreadFunc: the oldest line of the queue becomes the held line.        *)
LEMMA PopPipe ==
    ASSUME IInv, PipeInv, Pop
    PROVE  PipeInv' /\ \A l \in AllLines : Ahead(l) => Ahead(l)'
<1>1. UNCHANGED <<said, saying>> /\ queue # <<>> /\ held' = Head(queue) /\ queue' = Tail(queue)
  BY DEF Pop, callers
<1>2. queue \in Seq(AllLines)
  BY DEF IInv, TypeOK
<1>3. 1 \in DOMAIN queue /\ held' = queue[1]
  BY <1>1, <1>2
<1>4. \A i \in DOMAIN queue' : i \in Nat /\ i + 1 \in DOMAIN queue /\ queue'[i] = queue[i + 1] /\ 1 < i + 1
  BY <1>1, <1>2
<1>5. \A l : Known(l)' <=> Known(l)
  BY <1>1 DEF Known
<1>6. \A t \in Threads : Pushing(t)' <=> Pushing(t)
  BY <1>1 DEF Pushing
<1>7. ASSUME NEW l \in AllLines, Ahead(l)  PROVE Ahead(l)'
  <2>1. Known(l) /\ (\A i \in DOMAIN queue : Follows(l, queue[i]))
        /\ \A t \in Threads : Pushing(t) => Follows(l, saying[t].line)
    BY <1>7 DEF Ahead, InFront
  <2>2. \A i \in DOMAIN queue' : Follows(l, queue'[i])
    BY <1>4, <2>1
  <2>3. InFront(l)'
    BY <1>1, <1>5, <1>6, <2>1, <2>2 DEF InFront, Follows
  <2>4. Follows(l, held')
    BY <1>3, <2>1
  <2> QED BY <2>3, <2>4 DEF Ahead, Follows
<1>8. (Carrying => InFront(held))'
  <2>1. PICK h : h = queue[1]
    OBVIOUS
  <2>2. Known(h) /\ (\A j \in DOMAIN queue : 1 < j => Follows(h, queue[j]))
        /\ \A t \in Threads : Pushing(t) => Follows(h, saying[t].line)
    BY <1>3, <2>1 DEF PipeInv
  <2>3. \A i \in DOMAIN queue' : Follows(h, queue'[i])
    BY <1>4, <2>2
  <2>4. InFront(h)' /\ h = held'
    BY <1>1, <1>3, <1>5, <1>6, <2>1, <2>2, <2>3 DEF InFront, Follows
  <2> QED BY <2>4 DEF InFront, Known, Follows, Pushing
<1>9. \A t \in Threads : Pushing(t)' => saying'[t].line.by = t /\ Known(saying[t].line)'
  BY <1>1, <1>6 DEF PipeInv, Known
<1>10. ASSUME NEW i \in DOMAIN queue'
       PROVE  /\ Known(queue[i])'
              /\ \A j \in DOMAIN queue' : i < j => Follows(queue'[i], queue'[j])
              /\ \A t \in Threads : Pushing(t)' => Follows(queue'[i], saying'[t].line)
  <2>1. Known(queue'[i]) /\ (\A j \in DOMAIN queue : i + 1 < j => Follows(queue'[i], queue[j]))
        /\ \A t \in Threads : Pushing(t) => Follows(queue'[i], saying[t].line)
    BY <1>4 DEF PipeInv
  <2>2. \A j \in DOMAIN queue' : i < j => i + 1 < j + 1
    BY <1>4
  <2>3. \A j \in DOMAIN queue' : i < j => Follows(queue'[i], queue'[j])
    BY <1>4, <2>1, <2>2
  <2> QED BY <1>1, <1>6, <2>1, <2>3 DEF Known
<1> QED BY <1>7, <1>8, <1>9, <1>10 DEF PipeInv, Follows

(* A line that the log's own threads say is no line of a writer.             *)
LEMMA ReportsPipe ==
    ASSUME IInv, NEW t \in {LogThread, CompressThread}, Reports(t) \/ UNCHANGED saying
    PROVE  \A u \in Threads : Pushing(u)' =>
               \/ Pushing(u) /\ saying'[u].line = saying[u].line
               \/ u \notin Writers /\ saying'[u].line.by = u
<1>1. CASE UNCHANGED saying
  BY <1>1 DEF Pushing
<1>2. CASE saying' = Begins(t, Report(t))
  <2>1. t \in Threads /\ t \notin Writers
    BY AutoLogAssumption DEF Threads
  <2>2. saying'[t].line.by = t
    BY <1>2, <2>1 DEF Begins, Report, Line, IInv, TypeOK, Sayings
  <2>3. \A u \in Threads : u # t => saying'[u] = saying[u]
    BY <1>2 DEF Begins, IInv, TypeOK, Sayings
  <2> QED BY <2>1, <2>2, <2>3 DEF Pushing
<1> QED BY <1>1, <1>2 DEF Reports

(* autoLog.c: no step brings a line before one that was logged earlier.      *)
LEMMA StepKeepsPipe ==
    ASSUME IInv, PipeInv, [Next]_vars
    PROVE  PipeInv' /\ \A l \in AllLines : Ahead(l) => Ahead(l)'
<1> DEFINE Quiet == PipeInv' /\ \A l \in AllLines : Ahead(l) => Ahead(l)'
<1>1. ASSUME said' = said, queue' = queue, logPc' = logPc, held' = held,
             NEW t \in {LogThread, CompressThread}, Reports(t) \/ UNCHANGED saying
      PROVE  Quiet
  BY <1>1, ReportsPipe, QuietPipe DEF Carrying
<1>2. CASE AutoLogInit \/ Crash \/ Closed
  <2>1. said' = said /\ queue' = <<>> /\ ~Carrying' /\ saying' = [t \in Threads |-> NoLine]
    BY <1>2 DEF AutoLogInit, Crash, Closed, Fresh, Carrying
  <2>2. \A t \in Threads : ~Pushing(t)'
    BY <2>1 DEF Pushing
  <2> QED BY <2>1, <2>2, QuietPipe
<1>3. CASE NextDay \/ AutoLogFetch \/ AutoLogClose \/ StopCompress
  BY <1>1, <1>3 DEF NextDay, AutoLogFetch, AutoLogClose, StopCompress, callers, queueVars, logVars
<1>4. CASE \E w \in Writers : Say(w)
  BY <1>4, SayPipe
<1>5. CASE \E t \in Threads : PushQueue(t)
  BY <1>5, PushPipe
<1>6. ASSUME NEW t \in Threads, PushTui(t)  PROVE Quiet
  <2>1. UNCHANGED <<said, queue, logPc, held>> /\ saying' = [saying EXCEPT ![t] = NoLine]
    BY <1>6 DEF PushTui, queueVars, logVars
  <2>2. \A u \in Threads : Pushing(u)' => Pushing(u) /\ saying'[u] = saying[u]
    BY <2>1 DEF Pushing, IInv, TypeOK, Sayings
  <2> QED BY <2>1, <2>2, QuietPipe DEF Carrying
<1>7. CASE Pop
  BY <1>7, PopPipe
<1>8. CASE (\E opened \in BOOLEAN : Rotate(opened)) \/ SignalScan \/ Write \/ WriteFails \/ LogThreadEnds
  <2>1. said' = said /\ queue' = queue
    BY <1>8 DEF Rotate, SignalScan, Write, WriteFails, LogThreadEnds, callers, queueVars
  <2>2. Carrying' => Carrying /\ held' = held
    BY <1>8 DEF Rotate, SignalScan, Write, WriteFails, LogThreadEnds, Carrying
  <2>3. Reports(LogThread) \/ UNCHANGED saying
    BY <1>8 DEF Rotate, SignalScan, Write, WriteFails, LogThreadEnds, callers
  <2> QED BY <2>1, <2>2, <2>3, ReportsPipe, QuietPipe
<1>9. CASE \/ BeginScan \/ CopyFile \/ CopyFails \/ RemovePlain \/ CompressThreadEnds
           \/ \E d \in Days : SkipFile(d) \/ OpenArchive(d)
  BY <1>1, <1>9 DEF BeginScan, CopyFile, CopyFails, RemovePlain, CompressThreadEnds, SkipFile,
                    OpenArchive, callers, queueVars, logVars
<1>10. CASE RemoveFails \/ EndScan
  BY <1>1, <1>10 DEF RemoveFails, EndScan, queueVars, logVars
<1>11. CASE UNCHANGED vars
  BY <1>1, <1>11 DEF vars, callers, queueVars, logVars
<1>12. Writers \subseteq Threads /\ LogThread \in Threads /\ CompressThread \in Threads
  BY DEF Threads
<1> HIDE DEF Quiet
<1>13. ASSUME Next  PROVE Quiet
  BY <1>2, <1>3, <1>4, <1>5, <1>6, <1>7, <1>8, <1>9, <1>10, <1>12, <1>13
     DEF Next, LogThreadStep, CompressThreadStep, Closer, Pushes, Quiet
<1> QED BY <1>11, <1>13 DEF Quiet

(* fputs: what stands in a text behind which a line was written.             *)
LEMMA LinesOfAppend ==
    ASSUME NEW S, NEW s \in Seq(S), NEW e \in S
    PROVE  ToSet(Append(s, e)) \subseteq ToSet(s) \cup {e}
<1>1. \A i \in DOMAIN Append(s, e) : Append(s, e)[i] = e \/ (i \in DOMAIN s /\ Append(s, e)[i] = s[i])
  OBVIOUS
<1> QED BY <1>1 DEF ToSet

(* compressOneFile: what can be read after a file was removed could be read  *)
(* at the same place before.                                                 *)
LEMMA TrimmedLines ==
    ASSUME IInv, IInv', Trimmed, NEW d \in Days, NEW i \in DOMAIN Readable(d)'
    PROVE  i \in DOMAIN Readable(d) /\ Readable(d)[i] = Readable(d)'[i]
<1>1. Readable(d) \in Seq(AllLines) /\ Readable(d)' \in Seq(AllLines)
  <2>1. <<>> \in Seq(AllLines)
    OBVIOUS
  <2> QED BY <2>1 DEF IInv, TypeOK, Readable
<1>2. CASE Readable(d)' = Readable(d)
  BY <1>2
<1>3. CASE IsPrefix(Readable(d)', Readable(d))
  <2>1. PICK s \in Seq(AllLines) : s = Readable(d)'
    BY <1>1
  <2>2. PICK t \in Seq(AllLines) : t = Readable(d)
    BY <1>1
  <2>3. IsPrefix(s, t) /\ i \in DOMAIN s
    BY <1>3, <2>1, <2>2
  <2> QED BY <2>1, <2>2, <2>3, PrefixLines
<1> QED BY <1>2, <1>3 DEF Trimmed

(* The lines that can be read after a step: those before it, and the held    *)
(* line when it was written.                                                 *)
LEMMA StepKeepsAhead ==
    ASSUME IInv, IInv', PipeInv, TextInv, [Next]_vars,
           Kept \/ (Write /\ Wrote) \/ Trimmed
    PROVE  TextInv'
<1>1. \A d \in Days : Readable(d) \in Seq(AllLines)
  BY ReadableIsText DEF IInv
<1>2. \A l \in AllLines : Ahead(l) => Ahead(l)'
  BY StepKeepsPipe
<1>3. \A d \in Days : \A l \in ToSet(Readable(d)) : l \in AllLines /\ Ahead(l)
  BY <1>1 DEF TextInv, ToSet
<1>4. CASE Kept
  <2>1. \A d \in Days : ToSet(Readable(d))' = ToSet(Readable(d))
    BY <1>4 DEF Kept, ToSet
  <2> QED BY <1>2, <1>3, <2>1 DEF TextInv
<1>5. CASE Write /\ Wrote
  <2>1. PICK h : h = held
    OBVIOUS
  <2>2. h \in AllLines /\ InFront(h)
    BY <1>5, <2>1 DEF Wrote, PipeInv
  <2>3. ~Carrying' /\ UNCHANGED <<said, saying, queue>>
    BY <1>5 DEF Write, Carrying, callers, queueVars
  <2>4. Ahead(h)'
    BY <2>2, <2>3 DEF Ahead, InFront, Known, Pushing
  <2>5. ASSUME NEW d \in Days, NEW l \in ToSet(Readable(d))'
        PROVE  l \in ToSet(Readable(d)) \/ l = h
    <3>1. ToSet(Append(Readable(d), h)) \subseteq ToSet(Readable(d)) \cup {h}
      BY <1>1, <2>2, LinesOfAppend
    <3>2. Readable(d)' = Readable(d) \/ Readable(d)' = Append(Readable(d), h)
      BY <1>5, <2>1 DEF Wrote
    <3>3. ToSet(Readable(d))' = ToSet(Readable(d)) \/ ToSet(Readable(d))' = ToSet(Append(Readable(d), h))
      BY <3>2 DEF ToSet
    <3> QED BY <2>5, <3>1, <3>3
  <2> QED BY <1>2, <1>3, <2>4, <2>5 DEF TextInv
<1>6. CASE Trimmed
  <2>1. ASSUME NEW d \in Days, NEW l \in ToSet(Readable(d))'  PROVE l \in ToSet(Readable(d))
    <3>1. PICK i \in DOMAIN Readable(d)' : l = Readable(d)'[i]
      BY <2>1 DEF ToSet
    <3> QED BY <1>6, <3>1, TrimmedLines DEF ToSet
  <2> QED BY <1>2, <1>3, <2>1 DEF TextInv
<1> QED BY <1>4, <1>5, <1>6

(* autoLog.c: the new line of a text is the last of all that can be read.    *)
LEMMA StepKeepsOrder ==
    ASSUME IInv, IInv', DaysInv, TextInv, LinesInOrder, Kept \/ Wrote \/ Trimmed
    PROVE  LinesInOrder'
<1>1. \A d \in Days : Readable(d) \in Seq(AllLines)
  BY ReadableIsText DEF IInv
<1>2. CASE Kept
  BY <1>2 DEF Kept, LinesInOrder, Follows
<1>3. CASE Wrote
  <2> DEFINE Old(d, i) == i \in DOMAIN Readable(d) /\ Readable(d)'[i] = Readable(d)[i]
             New(d, i) == d = today /\ i = Len(Readable(d)) + 1 /\ Readable(d)'[i] = held
  <2>1. ASSUME NEW d \in Days, NEW i \in DOMAIN Readable(d)'
        PROVE  Old(d, i) \/ New(d, i)
    <3>1. CASE Readable(d)' = Readable(d)
      BY <2>1, <3>1
    <3>2. CASE d = today /\ Readable(d)' = Append(Readable(d), held) /\ held \in AllLines
      BY <1>1, <2>1, <3>2
    <3> QED BY <1>3, <3>1, <3>2 DEF Wrote
  <2>2. ASSUME NEW d \in Days, d > today  PROVE Readable(d)' = <<>>
    <3>1. today \in Nat /\ d \in Nat
      BY DayNumbers DEF IInv, TypeOK
    <3>2. plain[d] = NoFile /\ gz[d] = NoFile
      BY <2>2, <3>1 DEF DaysInv
    <3>3. Readable(d)' = Readable(d)
      BY <1>3, <2>2, <3>1 DEF Wrote
    <3> QED BY <3>2, <3>3 DEF Readable
  <2>3. ASSUME NEW d \in Days, NEW e \in Days,
               NEW i \in DOMAIN Readable(d)', NEW j \in DOMAIN Readable(e)',
               d < e \/ (d = e /\ i < j)
        PROVE  Follows(Readable(d)'[i], Readable(e)'[j])
    <3>1. CASE Old(d, i) /\ Old(e, j)
      BY <2>3, <3>1 DEF LinesInOrder
    <3>2. CASE Old(d, i) /\ New(e, j)
      <4>1. Readable(d)[i] \in ToSet(Readable(d))
        BY <3>2 DEF ToSet
      <4>2. Follows(Readable(d)[i], held)
        BY <1>3, <4>1 DEF Wrote, TextInv, Ahead
      <4> QED BY <3>2, <4>2
    <3>3. CASE New(d, i)
      <4>1. d \in Nat /\ e \in Nat
        BY DayNumbers
      <4>2. CASE d < e
        BY <2>2, <2>3, <3>3, <4>1, <4>2
      <4>3. CASE d = e /\ i < j
        <5>1. DOMAIN Readable(d)' = 1..(Len(Readable(d)) + 1) /\ Len(Readable(d)) \in Nat
          BY <1>1, <1>3, <3>3 DEF Wrote
        <5> QED BY <2>3, <3>3, <4>3, <5>1
      <4> QED BY <2>3, <4>2, <4>3
    <3> QED BY <2>1, <3>1, <3>2, <3>3
  <2> QED BY <2>3 DEF LinesInOrder, Follows
<1>4. CASE Trimmed
  <2>1. ASSUME NEW d \in Days, NEW e \in Days,
               NEW i \in DOMAIN Readable(d)', NEW j \in DOMAIN Readable(e)',
               d < e \/ (d = e /\ i < j)
        PROVE  Follows(Readable(d)'[i], Readable(e)'[j])
    <3>1. i \in DOMAIN Readable(d) /\ Readable(d)[i] = Readable(d)'[i]
      BY <1>4, TrimmedLines
    <3>2. j \in DOMAIN Readable(e) /\ Readable(e)[j] = Readable(e)'[j]
      BY <1>4, TrimmedLines
    <3>3. Follows(Readable(d)[i], Readable(e)[j])
      BY <2>1, <3>1, <3>2 DEF LinesInOrder
    <3> QED BY <3>1, <3>2, <3>3
  <2> QED BY <2>1 DEF LinesInOrder, Follows
<1> QED BY <1>2, <1>3, <1>4

(* What can be read, was held, is queued and is being pushed stands in the   *)
(* order in which it was logged (logCallback, logThreadFunc).                *)
THEOREM OrderInvariant == Spec => [](IInv /\ OrderInv)
<1>1. Init => OrderInv
  <2> SUFFICES ASSUME Init PROVE OrderInv
    OBVIOUS
  <2>1. \A d \in Days : Readable(d) = <<>>
    BY DEF Init, Readable
  <2>2. PipeInv
    BY DEF Init, PipeInv, Carrying, Pushing
  <2>3. TextInv /\ LinesInOrder
    BY <2>1 DEF TextInv, LinesInOrder, ToSet
  <2> QED BY <2>2, <2>3 DEF OrderInv, DaysInv, Init
<1>2. IInv /\ OrderInv /\ [Next]_vars => OrderInv'
  BY StepKeepsText, StepKeepsDays, StepKeepsPipe, StepKeepsAhead, StepKeepsOrder DEF OrderInv
<1> QED BY LogInvariant, <1>1, <1>2, PTL DEF Spec

(* The lines of one thread stand in the files in the order in which it       *)
(* logged them, and none of them twice (logCallback, logThreadFunc,          *)
(* compressOneFile).                                                         *)
THEOREM LinesInOrderCorrect == Spec => []LinesInOrder
BY OrderInvariant, PTL DEF OrderInv
=============================================================================
