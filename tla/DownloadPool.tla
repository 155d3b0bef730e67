---------------------------- MODULE DownloadPool ----------------------------
(***************************************************************************)
(* The download pool of the server, downloadPool.c: one-time tokens that   *)
(* the event loop registers and cancels, an accept thread that exchanges a *)
(* token for a task, a bounded queue, a fixed number of workers, and the   *)
(* destruction of all of it.                                               *)
(*                                                                         *)
(* The threads are the event loop (RegisterToken, CancelByToken and, after *)
(* it, Destroy), the accept thread and the workers.  A critical section of *)
(* tokenMutex or queueMutex is one step, except that a worker which found  *)
(* the queue empty still holds queueMutex while it walks into              *)
(* pthread_cond_wait: whoever does not take the mutex gets in between.     *)
(* Spurious wakeups are left out: nothing may rely on them.                *)
(*                                                                         *)
(* How a worker sends one file is not detailed here: it ends well or not.  *)
(***************************************************************************)
EXTENDS Naturals, Sequences, SequencesExt

CONSTANTS
    Tokens,             \* what the random generator may draw, once each
    Conns,              \* data connections that clients may open
    Workers,
    MaxPendingTokens,   \* MAX_PENDING_TOKENS
    MaxQueuedTasks,     \* MAX_QUEUED_TASKS
    NoToken,            \* the zeros of an untouched slot
    NoConn

ASSUME DownloadPoolAssumption ==
    /\ NoToken \notin Tokens
    /\ NoConn \notin Conns
    /\ MaxPendingTokens \in Nat \ {0}
    /\ MaxQueuedTasks \in Nat \ {0}

VARIABLES
    issued,         \* tokens drawn so far
    cancelAsked,    \* tokens that a client asked the server to cancel
    tokens,         \* the slots: [token, used, expired]
    conn,           \* each connection: "none", "pending" in the backlog,
                    \* "open", "closed", or "done": closed after the whole file
    redeemed,       \* the token each connection got a task for
    acceptPc,       \* "loop", "accept", "recv", "enqueue" or "exited"
    acceptFd,       \* clientFd of the accept thread
    taskQueue,      \* the connections of the queued tasks, oldest first
    workerPc,       \* "loop", "locked", "waiting", "serving" or "exited"
    workerFd,       \* task.dataFd of each worker
    destroyPc       \* downloadPoolDestroy: "no", "flagged", "woken", "joining"
                    \* or "destroyed"

tokenVars  == <<issued, cancelAsked, tokens>>
acceptVars == <<acceptPc, acceptFd>>
workerVars == <<workerPc, workerFd>>
vars == <<issued, cancelAsked, tokens, conn, redeemed, acceptPc, acceptFd,
          taskQueue, workerPc, workerFd, destroyPc>>

Slots == 1..MaxPendingTokens
Slot  == [token : Tokens \cup {NoToken}, used : BOOLEAN, expired : BOOLEAN]

(* Type invariant.  A thread has a socket in hand exactly where the code     *)
(* has one to close, and the queue is never above its capacity.              *)
TypeOK ==
    /\ issued \subseteq Tokens
    /\ cancelAsked \subseteq Tokens
    /\ tokens \in [Slots -> Slot]
    /\ conn \in [Conns -> {"none", "pending", "open", "closed", "done"}]
    /\ redeemed \in [Conns -> Tokens \cup {NoToken}]
    /\ acceptPc \in {"loop", "accept", "recv", "enqueue", "exited"}
    /\ acceptFd \in Conns \cup {NoConn}
    /\ acceptFd # NoConn <=> acceptPc \in {"recv", "enqueue"}
    /\ taskQueue \in Seq(Conns)
    /\ Len(taskQueue) \in 0..MaxQueuedTasks
    /\ workerPc \in [Workers -> {"loop", "locked", "waiting", "serving", "exited"}]
    /\ workerFd \in [Workers -> Conns \cup {NoConn}]
    /\ \A w \in Workers : workerFd[w] # NoConn <=> workerPc[w] = "serving"
    /\ destroyPc \in {"no", "flagged", "woken", "joining", "destroyed"}

(* downloadPoolInit: the zeroed pool, with all its threads started.          *)
Init ==
    /\ issued = {}
    /\ cancelAsked = {}
    /\ tokens = [i \in Slots |-> [token |-> NoToken, used |-> FALSE,
                                  expired |-> TRUE]]
    /\ conn = [c \in Conns |-> "none"]
    /\ redeemed = [c \in Conns |-> NoToken]
    /\ acceptPc = "loop"
    /\ acceptFd = NoConn
    /\ taskQueue = <<>>
    /\ workerPc = [w \in Workers |-> "loop"]
    /\ workerFd = [w \in Workers |-> NoConn]
    /\ destroyPc = "no"

shutdown == destroyPc # "no"

(* shutdown(listenFd) and close are the last steps before the joins.         *)
Listening == destroyPc \in {"no", "flagged", "woken"}

QueueMutexFree == \A w \in Workers : workerPc[w] # "locked"

-----------------------------------------------------------------------------
(* The tokens, under tokenMutex *)

FreeSlots == {i \in Slots : tokens[i].used \/ tokens[i].expired}

(* The unused slots with token t, and those that have not expired.           *)
UnusedSlots(t) == {i \in Slots : ~tokens[i].used /\ tokens[i].token = t}
RedeemableSlots(t) == {i \in UnusedSlots(t) : ~tokens[i].expired}

(* The loops over the slots stop at the first that qualifies.                *)
First(i, S) == i \in S /\ \A j \in S : i <= j

(* Mutant: with no slot to spare the first one is overwritten.               *)
RegisterToken_EvictsFirst(t) ==
    /\ ~shutdown
    /\ t \notin issued
    /\ issued' = issued \cup {t}
    /\ \E i \in Slots :
         /\ First(i, IF FreeSlots # {} THEN FreeSlots ELSE Slots)
         /\ tokens' = [tokens EXCEPT ![i] = [token |-> t, used |-> FALSE,
                                             expired |-> FALSE]]
    /\ UNCHANGED <<cancelAsked, conn, redeemed, acceptVars, taskQueue,
                   workerVars, destroyPc>>

(* serverHandleGameDownload draws a token and registers it.  If no slot is   *)
(* used or expired the client is told so.                                    *)
RegisterToken(t) ==
    /\ ~shutdown
    /\ t \notin issued
    /\ issued' = issued \cup {t}
    /\ IF FreeSlots # {}
       THEN \E i \in Slots :
              /\ First(i, FreeSlots)
              /\ tokens' = [tokens EXCEPT ![i] = [token |-> t, used |-> FALSE,
                                                  expired |-> FALSE]]
       ELSE UNCHANGED tokens
    /\ UNCHANGED <<cancelAsked, conn, redeemed, acceptVars, taskQueue,
                   workerVars, destroyPc>>

(* 30 seconds have passed.                                                   *)
TokenExpires(i) ==
    /\ ~tokens[i].expired
    /\ tokens' = [tokens EXCEPT ![i].expired = TRUE]
    /\ UNCHANGED <<issued, cancelAsked, conn, redeemed, acceptVars, taskQueue,
                   workerVars, destroyPc>>

(* serverHandleGameDownloadCancel: the token of an unused slot becomes used. *)
(* If it was used before, the failure is thrown away and nothing happens.    *)
CancelByToken(t) ==
    /\ ~shutdown
    /\ t \in issued
    /\ cancelAsked' = cancelAsked \cup {t}
    /\ IF UnusedSlots(t) # {}
       THEN \E i \in Slots :
              /\ First(i, UnusedSlots(t))
              /\ tokens' = [tokens EXCEPT ![i].used = TRUE]
       ELSE UNCHANGED tokens
    /\ UNCHANGED <<issued, conn, redeemed, acceptVars, taskQueue, workerVars,
                   destroyPc>>

-----------------------------------------------------------------------------
(* The accept thread *)

(* A client connects to the data port.                                       *)
Connect(c) ==
    /\ conn[c] = "none"
    /\ Listening
    /\ conn' = [conn EXCEPT ![c] = "pending"]
    /\ UNCHANGED <<tokenVars, redeemed, acceptVars, taskQueue, workerVars,
                   destroyPc>>

AcceptLoop ==
    /\ acceptPc = "loop"
    /\ acceptPc' = IF shutdown THEN "exited" ELSE "accept"
    /\ UNCHANGED <<tokenVars, conn, redeemed, acceptFd, taskQueue, workerVars,
                   destroyPc>>

Accept(c) ==
    /\ acceptPc = "accept"
    /\ conn[c] = "pending"
    /\ conn' = [conn EXCEPT ![c] = "open"]
    /\ acceptFd' = c
    /\ acceptPc' = "recv"
    /\ UNCHANGED <<tokenVars, redeemed, taskQueue, workerVars, destroyPc>>

(* accept() fails because the listening socket was shut down.                *)
AcceptFails ==
    /\ acceptPc = "accept"
    /\ ~Listening
    /\ acceptPc' = "exited"
    /\ UNCHANGED <<tokenVars, conn, redeemed, acceptFd, taskQueue, workerVars,
                   destroyPc>>

(* The connection breaks, is silent for 5 seconds, or sends something that   *)
(* is not a token the pool takes: the accept thread closes it.               *)
CloseAccepted ==
    /\ conn' = [conn EXCEPT ![acceptFd] = "closed"]
    /\ acceptFd' = NoConn
    /\ acceptPc' = "loop"

RejectConn ==
    /\ acceptPc = "recv"
    /\ CloseAccepted
    /\ UNCHANGED <<tokenVars, redeemed, taskQueue, workerVars, destroyPc>>

(* Mutant: the slot is not marked as used.                                   *)
Redeem_NotMarkedUsed(t, derived) ==
    /\ acceptPc = "recv"
    /\ RedeemableSlots(t) # {}
    /\ IF derived
       THEN /\ redeemed' = [redeemed EXCEPT ![acceptFd] = t]
            /\ acceptPc' = "enqueue"
            /\ UNCHANGED <<conn, acceptFd>>
       ELSE /\ CloseAccepted
            /\ UNCHANGED redeemed
    /\ UNCHANGED <<tokenVars, taskQueue, workerVars, destroyPc>>

(* The packet brought token t, which a slot matches.  The token is used up   *)
(* even if the key cannot be derived.                                        *)
Redeem(t, derived) ==
    /\ acceptPc = "recv"
    /\ \E i \in Slots :
         /\ First(i, RedeemableSlots(t))
         /\ tokens' = [tokens EXCEPT ![i].used = TRUE]
    /\ IF derived
       THEN /\ redeemed' = [redeemed EXCEPT ![acceptFd] = t]
            /\ acceptPc' = "enqueue"
            /\ UNCHANGED <<conn, acceptFd>>
       ELSE /\ CloseAccepted
            /\ UNCHANGED redeemed
    /\ UNCHANGED <<issued, cancelAsked, taskQueue, workerVars, destroyPc>>

(* Mutant: no pthread_cond_signal.                                           *)
Enqueue_NoSignal ==
    /\ acceptPc = "enqueue"
    /\ QueueMutexFree
    /\ Len(taskQueue) < MaxQueuedTasks
    /\ taskQueue' = Append(taskQueue, acceptFd)
    /\ acceptFd' = NoConn
    /\ acceptPc' = "loop"
    /\ UNCHANGED <<tokenVars, conn, redeemed, workerVars, destroyPc>>

(* enqueueTask, with pthread_cond_signal to one worker if any waits.  A full *)
(* queue drops the task and closes its connection.                           *)
Enqueue ==
    /\ acceptPc = "enqueue"
    /\ QueueMutexFree
    /\ Len(taskQueue) < MaxQueuedTasks
    /\ taskQueue' = Append(taskQueue, acceptFd)
    /\ acceptFd' = NoConn
    /\ acceptPc' = "loop"
    /\ IF \E w \in Workers : workerPc[w] = "waiting"
       THEN \E w \in Workers :
              /\ workerPc[w] = "waiting"
              /\ workerPc' = [workerPc EXCEPT ![w] = "loop"]
       ELSE UNCHANGED workerPc
    /\ UNCHANGED <<tokenVars, conn, redeemed, workerFd, destroyPc>>

DropTask ==
    /\ acceptPc = "enqueue"
    /\ QueueMutexFree
    /\ Len(taskQueue) = MaxQueuedTasks
    /\ CloseAccepted
    /\ UNCHANGED <<tokenVars, redeemed, taskQueue, workerVars, destroyPc>>

-----------------------------------------------------------------------------
(* The workers *)

Goto(w, pc) == workerPc' = [workerPc EXCEPT ![w] = pc]

(* The queue is empty and shutdown not set: the worker holds the mutex and   *)
(* is about to wait.                                                         *)
FindEmpty(w) ==
    /\ workerPc[w] = "loop"
    /\ QueueMutexFree
    /\ taskQueue = <<>>
    /\ ~shutdown
    /\ Goto(w, "locked")
    /\ UNCHANGED <<tokenVars, conn, redeemed, acceptVars, taskQueue, workerFd,
                   destroyPc>>

Wait(w) ==
    /\ workerPc[w] = "locked"
    /\ Goto(w, "waiting")
    /\ UNCHANGED <<tokenVars, conn, redeemed, acceptVars, taskQueue, workerFd,
                   destroyPc>>

Exit(w) ==
    /\ workerPc[w] = "loop"
    /\ QueueMutexFree
    /\ taskQueue = <<>>
    /\ shutdown
    /\ Goto(w, "exited")
    /\ UNCHANGED <<tokenVars, conn, redeemed, acceptVars, taskQueue, workerFd,
                   destroyPc>>

Dequeue(w) ==
    /\ workerPc[w] = "loop"
    /\ QueueMutexFree
    /\ taskQueue # <<>>
    /\ workerFd' = [workerFd EXCEPT ![w] = Head(taskQueue)]
    /\ taskQueue' = Tail(taskQueue)
    /\ Goto(w, "serving")
    /\ UNCHANGED <<tokenVars, conn, redeemed, acceptVars, destroyPc>>

(* Mutant: a transfer that failed leaves its socket open.                    *)
Finish_KeepsSocket(w, whole) ==
    /\ workerPc[w] = "serving"
    /\ conn' = [conn EXCEPT ![workerFd[w]] = IF whole THEN "done" ELSE "open"]
    /\ workerFd' = [workerFd EXCEPT ![w] = NoConn]
    /\ Goto(w, "loop")
    /\ UNCHANGED <<tokenVars, redeemed, acceptVars, taskQueue, destroyPc>>

(* The transfer is over, whole or not (the sockets have timeouts), and the   *)
(* worker closes the connection.                                             *)
Finish(w, whole) ==
    /\ workerPc[w] = "serving"
    /\ conn' = [conn EXCEPT ![workerFd[w]] = IF whole THEN "done" ELSE "closed"]
    /\ workerFd' = [workerFd EXCEPT ![w] = NoConn]
    /\ Goto(w, "loop")
    /\ UNCHANGED <<tokenVars, redeemed, acceptVars, taskQueue, destroyPc>>

-----------------------------------------------------------------------------
(* downloadPoolDestroy, called by serverCleanup after the event loop ended.  *)
(* Neither of the first two steps takes queueMutex.                          *)
SetShutdown ==
    /\ destroyPc = "no"
    /\ destroyPc' = "flagged"
    /\ UNCHANGED <<tokenVars, conn, redeemed, acceptVars, taskQueue, workerVars>>

Broadcast ==
    /\ destroyPc = "flagged"
    /\ destroyPc' = "woken"
    /\ workerPc' = [w \in Workers |-> IF workerPc[w] = "waiting" THEN "loop"
                                      ELSE workerPc[w]]
    /\ UNCHANGED <<tokenVars, conn, redeemed, acceptVars, taskQueue, workerFd>>

(* The listening socket is closed, and with it the backlog.                  *)
CloseListener ==
    /\ destroyPc = "woken"
    /\ destroyPc' = "joining"
    /\ conn' = [c \in Conns |-> IF conn[c] = "pending" THEN "closed"
                                ELSE conn[c]]
    /\ UNCHANGED <<tokenVars, redeemed, acceptVars, taskQueue, workerVars>>

(* Mutant: the connections of the tasks left over are not closed.            *)
Joined_KeepsQueue ==
    /\ destroyPc = "joining"
    /\ acceptPc = "exited"
    /\ \A w \in Workers : workerPc[w] = "exited"
    /\ destroyPc' = "destroyed"
    /\ UNCHANGED <<tokenVars, conn, redeemed, acceptVars, taskQueue, workerVars>>

(* All threads are joined, and the tasks that nobody took are dropped.       *)
Joined ==
    /\ destroyPc = "joining"
    /\ acceptPc = "exited"
    /\ \A w \in Workers : workerPc[w] = "exited"
    /\ destroyPc' = "destroyed"
    /\ conn' = [c \in Conns |-> IF c \in Range(taskQueue) THEN "closed"
                                ELSE conn[c]]
    /\ taskQueue' = <<>>
    /\ UNCHANGED <<tokenVars, redeemed, acceptVars, workerVars>>

AcceptStep ==
    \/ AcceptLoop
    \/ \E c \in Conns : Accept(c)
    \/ AcceptFails
    \/ RejectConn
    \/ \E t \in Tokens, derived \in BOOLEAN : Redeem(t, derived)
    \/ Enqueue
    \/ DropTask

WorkerStep(w) ==
    \/ FindEmpty(w)
    \/ Wait(w)
    \/ Exit(w)
    \/ Dequeue(w)
    \/ \E whole \in BOOLEAN : Finish(w, whole)

DestroyStep == Broadcast \/ CloseListener \/ Joined

Next ==
    \/ \E t \in Tokens : RegisterToken(t) \/ CancelByToken(t)
    \/ \E i \in Slots : TokenExpires(i)
    \/ \E c \in Conns : Connect(c)
    \/ AcceptStep
    \/ \E w \in Workers : WorkerStep(w)
    \/ SetShutdown
    \/ DestroyStep

Spec == Init /\ [][Next]_vars

(* The threads of the pool run: none blocks for ever but in accept() or in   *)
(* pthread_cond_wait, as every data socket has a timeout.  Clients, the      *)
(* event loop and the beginning of the destruction owe nothing.              *)
FairSpec ==
    /\ Spec
    /\ WF_vars(AcceptStep)
    /\ \A w \in Workers : WF_vars(WorkerStep(w))
    /\ WF_vars(DestroyStep)
=============================================================================
