------------------------- MODULE DownloadPoolProps -------------------------
(***************************************************************************)
(* The properties of DownloadPool, and the refinement of DownloadService.  *)
(***************************************************************************)
EXTENDS DownloadPool

-----------------------------------------------------------------------------
(* Safety *)

Serving == {w \in Workers : workerPc[w] = "serving"}

(* downloadPool.c: an open data connection is in one hand: the accept        *)
(* thread's, the queue's or one worker's, and what they hold is open.  Else  *)
(* a socket leaks, is closed twice, or two workers write into one stream.    *)
SocketsInOneHand ==
    /\ \A c \in Conns :
         conn[c] = "open" <=> \/ c = acceptFd
                              \/ c \in Range(taskQueue)
                              \/ \E w \in Serving : workerFd[w] = c
    /\ acceptFd \notin Range(taskQueue)
    /\ IsInjective(taskQueue)
    /\ \A w \in Serving : workerFd[w] \notin {acceptFd} \cup Range(taskQueue)
    /\ \A v, w \in Serving : workerFd[v] = workerFd[w] => v = w

(* downloadPool.c:124-147 and 408: a token opens one transfer only, however  *)
(* its slot is reused, and whatever a client or a second connection does in  *)
(* the meantime.                                                             *)
TokenOpensOneTransfer ==
    \A c, d \in Conns : redeemed[c] # NoToken /\ redeemed[c] = redeemed[d]
                            => c = d

(* The tokens of the slots: one slot per token, each drawn before.           *)
SlotsWellFormed ==
    /\ \A i \in Slots : tokens[i].token \in issued \cup {NoToken}
    /\ \A i \in Slots : tokens[i].token = NoToken => tokens[i].expired
    /\ \A i, j \in Slots :
         tokens[i].token = tokens[j].token /\ tokens[i].token # NoToken => i = j

(* A token that a connection came through with is marked as used.            *)
RedeemedIsUsed ==
    \A c \in Conns :
        /\ redeemed[c] \in issued \cup {NoToken}
        /\ \A i \in Slots :
             tokens[i].token = redeemed[c] /\ redeemed[c] # NoToken
                 => tokens[i].used

(* A connection has a token once it is past the accept thread's recv.        *)
FreshHasNoToken ==
    \A c \in Conns :
        (conn[c] \in {"none", "pending"} \/ (acceptPc = "recv" /\ c = acceptFd))
            => redeemed[c] = NoToken

(* The backlog dies with the listening socket, and nobody is left behind by  *)
(* the joins.                                                                *)
DestroyOrder ==
    /\ ~Listening => \A c \in Conns : conn[c] # "pending"
    /\ destroyPc = "destroyed" => /\ acceptPc = "exited"
                                  /\ \A w \in Workers : workerPc[w] = "exited"
                                  /\ taskQueue = <<>>

(* What every step preserves, and the proofs are about.                      *)
SocketInv == SocketsInOneHand /\ DestroyOrder

TokenInv == /\ TokenOpensOneTransfer
            /\ SlotsWellFormed
            /\ RedeemedIsUsed
            /\ FreshHasNoToken

IInv == TypeOK /\ SocketInv /\ TokenInv

(* downloadPool.c:458: when downloadPoolDestroy returns, no connection is    *)
(* open or waits for an answer, whoever held it when shutdown was set.       *)
DestroyedIsClosed ==
    destroyPc = "destroyed" =>
        \A c \in Conns : conn[c] \notin {"pending", "open"}

-----------------------------------------------------------------------------
(* Liveness *)

(* A connection that was accepted is closed in the end, served or not: no    *)
(* wakeup of a worker is lost between enqueueTask and pthread_cond_wait,     *)
(* with one worker that takes the task meant for another, and also while     *)
(* the pool is being destroyed.                                              *)
AcceptedIsClosed ==
    \A c \in Conns : conn[c] = "open" ~> conn[c] \in {"closed", "done"}

-----------------------------------------------------------------------------
Service == INSTANCE DownloadService WITH
    valid  <- {t \in Tokens : RedeemableSlots(t) # {}},
    opened <- redeemed

(* The pool implements DownloadService: a token that was offered stays good  *)
(* until it is used, cancelled or expired (no registration evicts it), and   *)
(* never comes back.                                                         *)
ImplementsDownloadService == Service!Spec
=============================================================================
