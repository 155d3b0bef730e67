------------------------ MODULE DownloadPool_proofs ------------------------
(***************************************************************************)
(* Proofs about DownloadPool: its invariant, and the refinement of         *)
(* DownloadService.                                                        *)
(***************************************************************************)
EXTENDS DownloadPoolProps, SequenceTheorems, TLAPS

-----------------------------------------------------------------------------
(* The task queue *)

(* downloadPool.c:66: enqueueTask adds one connection at the tail.           *)
LEMMA AppendTask ==
    ASSUME NEW q \in Seq(Conns), NEW c \in Conns
    PROVE  /\ Append(q, c) \in Seq(Conns)
           /\ Len(Append(q, c)) = Len(q) + 1
           /\ Range(Append(q, c)) = Range(q) \cup {c}
           /\ IsInjective(q) /\ c \notin Range(q) => IsInjective(Append(q, c))
<1> DEFINE more == Append(q, c)
<1>1. /\ more \in Seq(Conns) /\ Len(more) = Len(q) + 1
      /\ \A i \in 1..Len(q) : more[i] = q[i]
      /\ more[Len(q) + 1] = c
  BY AppendProperties
<1> HIDE DEF more
<1>2. Len(q) \in Nat /\ DOMAIN q = 1..Len(q) /\ DOMAIN more = 1..(Len(q) + 1)
  BY <1>1, LenProperties
<1>3. Range(more) = Range(q) \cup {c}
  <2>1. Range(more) \subseteq Range(q) \cup {c}
    BY <1>1, <1>2 DEF Range
  <2>2. Range(q) \subseteq Range(more)
    BY <1>1, <1>2 DEF Range
  <2>3. Len(q) + 1 \in DOMAIN more
    BY <1>2
  <2>4. c \in Range(more)
    BY <1>1, <2>3 DEF Range
  <2> QED BY <2>1, <2>2, <2>4
<1>4. IsInjective(q) /\ c \notin Range(q) => IsInjective(more)
  BY <1>1, <1>2 DEF IsInjective, Range
<1> QED BY <1>1, <1>3, <1>4 DEF more

(* downloadPool.c:219: a worker takes the connection at the head.            *)
LEMMA TakeTask ==
    ASSUME NEW q \in Seq(Conns), q # <<>>
    PROVE  /\ Head(q) \in Conns /\ Head(q) \in Range(q)
           /\ Tail(q) \in Seq(Conns)
           /\ Len(Tail(q)) = Len(q) - 1
           /\ Range(q) = Range(Tail(q)) \cup {Head(q)}
           /\ IsInjective(q) => /\ IsInjective(Tail(q))
                                /\ Head(q) \notin Range(Tail(q))
<1> DEFINE rest == Tail(q)
<1>1. /\ Head(q) \in Conns /\ Head(q) = q[1]
      /\ rest \in Seq(Conns) /\ Len(rest) = Len(q) - 1
      /\ \A i \in 1..Len(rest) : rest[i] = q[i + 1]
  BY HeadTailProperties
<1> HIDE DEF rest
<1>2. /\ Len(q) \in Nat /\ Len(q) # 0
      /\ DOMAIN q = 1..Len(q) /\ DOMAIN rest = 1..(Len(q) - 1)
  BY <1>1, LenProperties, EmptySeq
<1>3. Head(q) \in Range(q)
  <2>1. 1 \in DOMAIN q
    BY <1>2
  <2> QED BY <1>1, <2>1 DEF Range
<1>4. Range(q) = Range(rest) \cup {Head(q)}
  <2>1. ASSUME NEW i \in DOMAIN q  PROVE q[i] \in Range(rest) \cup {Head(q)}
    <3>1. CASE i = 1
      BY <1>1, <3>1
    <3>2. CASE i # 1
      <4>1. i - 1 \in DOMAIN rest /\ rest[i - 1] = q[i]
        BY <1>1, <1>2, <3>2
      <4> QED BY <4>1 DEF Range
    <3> QED BY <3>1, <3>2
  <2>2. ASSUME NEW i \in DOMAIN rest  PROVE rest[i] \in Range(q)
    <3>1. i + 1 \in DOMAIN q /\ rest[i] = q[i + 1]
      BY <1>1, <1>2
    <3> QED BY <3>1 DEF Range
  <2> QED BY <1>3, <2>1, <2>2 DEF Range
<1>5. ASSUME IsInjective(q)
      PROVE  IsInjective(rest) /\ Head(q) \notin Range(rest)
  <2>1. \A i, j \in DOMAIN q : q[i] = q[j] => i = j
    BY <1>5 DEF IsInjective
  <2>2. ASSUME NEW i \in DOMAIN rest
        PROVE  /\ i + 1 \in DOMAIN q /\ rest[i] = q[i + 1]
               /\ i \in Nat /\ i >= 1 /\ 1 \in DOMAIN q
    BY <1>1, <1>2
  <2>3. IsInjective(rest)
    <3>1. ASSUME NEW i \in DOMAIN rest, NEW j \in DOMAIN rest,
                 rest[i] = rest[j]
          PROVE  i = j
      <4>1. i + 1 = j + 1
        BY <2>1, <2>2, <3>1
      <4> QED BY <2>2, <4>1
    <3> QED BY <3>1 DEF IsInjective
  <2>4. ASSUME NEW i \in DOMAIN rest  PROVE rest[i] # Head(q)
    BY <1>1, <2>1, <2>2
  <2> QED BY <2>3, <2>4 DEF Range
<1> QED BY <1>1, <1>3, <1>4, <1>5 DEF rest

-----------------------------------------------------------------------------
(* Every step preserves the invariant *)

(* downloadPool.c:343: the zeroed pool.                                      *)
LEMMA InitOK == Init => IInv
<1> SUFFICES ASSUME Init PROVE IInv
  OBVIOUS
<1> USE DownloadPoolAssumption DEF Init
<1>1. taskQueue \in Seq(Conns) /\ Len(taskQueue) = 0 /\ Range(taskQueue) = {}
      /\ IsInjective(taskQueue)
  BY EmptySeq DEF Range, IsInjective
<1>2. TypeOK
  BY <1>1 DEF TypeOK, Slot
<1>3. SocketInv
  BY <1>1 DEF SocketInv, SocketsInOneHand, Serving, DestroyOrder, Listening
<1>4. TokenInv
  BY DEF TokenInv, TokenOpensOneTransfer, SlotsWellFormed, RedeemedIsUsed,
         FreshHasNoToken
<1> QED BY <1>2, <1>3, <1>4 DEF IInv

(* downloadPool.c: the sockets.  Only the accept thread, the workers and the *)
(* destruction move them.                                                    *)
LEMMA SocketsUnchanged ==
    ASSUME TypeOK, SocketInv,
           UNCHANGED <<conn, acceptVars, taskQueue, workerFd, destroyPc>>,
           \A w \in Workers : workerPc'[w] = "serving" <=> workerPc[w] = "serving",
           \A w \in Workers : workerPc[w] = "exited" => workerPc'[w] = "exited"
    PROVE  SocketInv'
BY DEF SocketInv, SocketsInOneHand, Serving, DestroyOrder, Listening, acceptVars

(* downloadPool.c: what a change of one slot may do to the tokens.           *)
LEMMA SlotStep ==
    ASSUME TypeOK, TokenInv,
           NEW i \in Slots, NEW slot \in Slot,
           tokens' = [tokens EXCEPT ![i] = slot],
           UNCHANGED <<redeemed, conn, acceptVars>>,
           \/ /\ slot.token = tokens[i].token
              /\ tokens[i].used => slot.used
              /\ tokens[i].expired => slot.expired
              /\ issued' = issued
           \/ /\ slot.token \in Tokens \ issued
              /\ issued' = issued \cup {slot.token}
    PROVE  tokens' \in [Slots -> Slot] /\ TokenInv'
<1> USE DownloadPoolAssumption
<1>1. /\ tokens' \in [Slots -> Slot]
      /\ tokens'[i] = slot
      /\ \A j \in Slots : j # i => tokens'[j] = tokens[j]
  BY DEF TypeOK
<1>2. slot.token \in Tokens \cup {NoToken} /\ tokens[i].token \in Tokens \cup {NoToken}
  BY DEF TypeOK, Slot
<1>3. TokenOpensOneTransfer'
  BY DEF TokenInv, TokenOpensOneTransfer
<1>4. SlotsWellFormed'
  BY <1>1, <1>2 DEF TokenInv, SlotsWellFormed
<1>5. RedeemedIsUsed'
  BY <1>1, <1>2 DEF TokenInv, SlotsWellFormed, RedeemedIsUsed
<1>6. FreshHasNoToken'
  BY DEF TokenInv, FreshHasNoToken, acceptVars
<1> QED BY <1>1, <1>3, <1>4, <1>5, <1>6 DEF TokenInv

(* downloadPool.c:139, 448: a slot that is marked as used, or has expired,   *)
(* keeps its other fields.                                                   *)
LEMMA SpentSlot ==
    ASSUME NEW s \in Slot
    PROVE  /\ [s EXCEPT !.used = TRUE] \in Slot
           /\ [s EXCEPT !.used = TRUE].token = s.token
           /\ [s EXCEPT !.used = TRUE].used
           /\ [s EXCEPT !.used = TRUE].expired = s.expired
           /\ [s EXCEPT !.expired = TRUE] \in Slot
           /\ [s EXCEPT !.expired = TRUE].token = s.token
           /\ [s EXCEPT !.expired = TRUE].expired
           /\ [s EXCEPT !.expired = TRUE].used = s.used
BY DEF Slot

(* downloadPool.c:119, 415: what a slot of the pool is.                      *)
LEMMA SlotOfPool ==
    ASSUME TypeOK, NEW i \in Slots
    PROVE  tokens[i] \in Slot
BY DEF TypeOK

(* gameDistribution.c:142, 179, downloadPool.c:408, 440: the event loop      *)
(* registers and cancels tokens, and time passes.                            *)
LEMMA TokenStepsOK ==
    ASSUME IInv,
           \/ \E t \in Tokens : RegisterToken(t) \/ CancelByToken(t)
           \/ \E i \in Slots : TokenExpires(i)
    PROVE  IInv'
<1> USE DownloadPoolAssumption DEF IInv
<1>1. ASSUME tokens' \in [Slots -> Slot], issued' \subseteq Tokens,
             cancelAsked' \subseteq Tokens, TokenInv',
             UNCHANGED <<conn, redeemed, acceptVars, taskQueue, workerVars,
                         destroyPc>>
      PROVE  IInv'
  <2>1. TypeOK'
    BY <1>1 DEF TypeOK, acceptVars, workerVars
  <2>2. SocketInv'
    BY <1>1, SocketsUnchanged DEF workerVars
  <2> QED BY <1>1, <2>1, <2>2
<1>2. ASSUME UNCHANGED <<issued, tokens, conn, redeemed, acceptVars>>
      PROVE  TokenInv'
  BY <1>2 DEF TokenInv, TokenOpensOneTransfer, SlotsWellFormed,
              RedeemedIsUsed, FreshHasNoToken, acceptVars
<1>3. ASSUME NEW t \in Tokens, RegisterToken(t)  PROVE IInv'
  <2>1. /\ t \notin issued /\ issued' = issued \cup {t}
        /\ UNCHANGED <<cancelAsked, conn, redeemed, acceptVars, taskQueue,
                       workerVars, destroyPc>>
    BY <1>3 DEF RegisterToken
  <2>2. tokens' \in [Slots -> Slot] /\ TokenInv'
    <3>1. CASE FreeSlots # {}
      <4> DEFINE slot == [token |-> t, used |-> FALSE, expired |-> FALSE]
      <4>1. PICK i \in Slots : tokens' = [tokens EXCEPT ![i] = slot]
        BY <1>3, <3>1 DEF RegisterToken
      <4>2. slot \in Slot /\ slot.token = t
        BY DEF Slot
      <4> HIDE DEF slot
      <4> QED BY <2>1, <4>1, <4>2, SlotStep
    <3>2. CASE FreeSlots = {}
      <4>1. UNCHANGED tokens
        BY <1>3, <3>2 DEF RegisterToken
      <4> QED BY <2>1, <4>1 DEF TokenInv, TokenOpensOneTransfer,
                   SlotsWellFormed, RedeemedIsUsed, FreshHasNoToken,
                   acceptVars, TypeOK
    <3> QED BY <3>1, <3>2
  <2> QED BY <1>1, <2>1, <2>2 DEF TypeOK
<1>4. ASSUME NEW t \in Tokens, CancelByToken(t)  PROVE IInv'
  <2>1. /\ cancelAsked' = cancelAsked \cup {t}
        /\ UNCHANGED <<issued, conn, redeemed, acceptVars, taskQueue,
                       workerVars, destroyPc>>
    BY <1>4 DEF CancelByToken
  <2>2. tokens' \in [Slots -> Slot] /\ TokenInv'
    <3>1. CASE UnusedSlots(t) # {}
      <4>1. PICK i \in Slots : tokens' = [tokens EXCEPT ![i].used = TRUE]
        BY <1>4, <3>1 DEF CancelByToken
      <4> DEFINE slot == [tokens[i] EXCEPT !.used = TRUE]
      <4>2. /\ slot \in Slot /\ slot.token = tokens[i].token
            /\ slot.used /\ slot.expired = tokens[i].expired
        BY SpentSlot, SlotOfPool
      <4>3. tokens' = [tokens EXCEPT ![i] = slot]
        BY <4>1
      <4> HIDE DEF slot
      <4> QED BY <2>1, <4>2, <4>3, SlotStep
    <3>2. CASE UnusedSlots(t) = {}
      BY <1>2, <1>4, <2>1, <3>2 DEF CancelByToken, TypeOK
    <3> QED BY <3>1, <3>2
  <2> QED BY <1>1, <2>1, <2>2 DEF TypeOK
<1>5. ASSUME NEW i \in Slots, TokenExpires(i)  PROVE IInv'
  <2> DEFINE slot == [tokens[i] EXCEPT !.expired = TRUE]
  <2>1. /\ slot \in Slot /\ slot.token = tokens[i].token
        /\ slot.expired /\ slot.used = tokens[i].used
    BY SpentSlot, SlotOfPool
  <2>2. tokens' = [tokens EXCEPT ![i] = slot]
    BY <1>5 DEF TokenExpires
  <2>3. UNCHANGED <<issued, cancelAsked, conn, redeemed, acceptVars, taskQueue,
                    workerVars, destroyPc>>
    BY <1>5 DEF TokenExpires
  <2> HIDE DEF slot
  <2>4. tokens' \in [Slots -> Slot] /\ TokenInv'
    BY <2>1, <2>2, <2>3, SlotStep
  <2> QED BY <1>1, <2>3, <2>4 DEF TypeOK
<1> QED BY <1>3, <1>4, <1>5

(* downloadPool.c: a token that is not moved keeps its invariant, if no      *)
(* connection becomes fresh.                                                 *)
LEMMA TokensUnchanged ==
    ASSUME TokenInv, UNCHANGED <<issued, tokens, redeemed>>,
           \A c \in Conns :
             (\/ conn'[c] \in {"none", "pending"}
              \/ acceptPc' = "recv" /\ c = acceptFd')
             => \/ conn[c] \in {"none", "pending"}
                \/ acceptPc = "recv" /\ c = acceptFd
    PROVE  TokenInv'
BY DEF TokenInv, TokenOpensOneTransfer, SlotsWellFormed, RedeemedIsUsed,
       FreshHasNoToken

(* downloadPool.c:78-117: a connection on its way to the accept thread.      *)
LEMMA AcceptStepsOK ==
    ASSUME IInv,
           \/ \E c \in Conns : Connect(c) \/ Accept(c)
           \/ AcceptLoop
           \/ AcceptFails
           \/ RejectConn
    PROVE  IInv'
<1> USE DownloadPoolAssumption DEF IInv
<1>1. ASSUME NEW c \in Conns, Connect(c)  PROVE IInv'
  <2>1. TypeOK'
    BY <1>1 DEF TypeOK, Connect, tokenVars, acceptVars, workerVars
  <2>2. SocketInv'
    BY <1>1 DEF TypeOK, Connect, SocketInv, SocketsInOneHand, Serving,
                DestroyOrder, Listening, acceptVars, workerVars
  <2>3. TokenInv'
    <3>1. /\ conn' = [conn EXCEPT ![c] = "pending"] /\ conn[c] = "none"
          /\ UNCHANGED <<issued, tokens, redeemed, acceptPc, acceptFd>>
      BY <1>1 DEF Connect, tokenVars, acceptVars
    <3>2. \A d \in Conns : conn'[d] \in {"none", "pending"}
                             => conn[d] \in {"none", "pending"}
      BY <3>1 DEF TypeOK
    <3> QED BY <3>1, <3>2, TokensUnchanged
  <2> QED BY <2>1, <2>2, <2>3
<1>2. ASSUME NEW c \in Conns, Accept(c)  PROVE IInv'
  <2>1. TypeOK'
    BY <1>2 DEF TypeOK, Accept, tokenVars, workerVars
  <2>2. SocketInv'
    BY <1>2 DEF TypeOK, Accept, SocketInv, SocketsInOneHand, Serving,
                DestroyOrder, Listening, workerVars
  <2>3. TokenInv'
    <3>1. /\ conn' = [conn EXCEPT ![c] = "open"] /\ conn[c] = "pending"
          /\ acceptFd' = c
          /\ UNCHANGED <<issued, tokens, redeemed>>
      BY <1>2 DEF Accept, tokenVars
    <3>2. \A d \in Conns : conn'[d] \in {"none", "pending"}
                             => conn[d] \in {"none", "pending"}
      BY <3>1 DEF TypeOK
    <3> QED BY <3>1, <3>2, TokensUnchanged
  <2> QED BY <2>1, <2>2, <2>3
<1>3. ASSUME AcceptLoop \/ AcceptFails  PROVE IInv'
  <2>1. /\ acceptPc \in {"loop", "accept"} /\ acceptPc' \in {"accept", "exited"}
        /\ UNCHANGED <<issued, cancelAsked, tokens, conn, redeemed, acceptFd,
                       taskQueue, workerPc, workerFd, destroyPc>>
    BY <1>3 DEF AcceptLoop, AcceptFails, tokenVars, workerVars
  <2>2. destroyPc = "destroyed" => acceptPc' = acceptPc
    BY <2>1 DEF SocketInv, DestroyOrder
  <2>3. TypeOK'
    BY <2>1 DEF TypeOK
  <2>4. SocketInv'
    BY <2>1, <2>2 DEF SocketInv, SocketsInOneHand, Serving, DestroyOrder,
                      Listening
  <2>5. TokenInv'
    BY <2>1, TokensUnchanged
  <2> QED BY <2>3, <2>4, <2>5
<1>4. ASSUME RejectConn  PROVE IInv'
  <2>1. /\ acceptPc = "recv" /\ acceptFd \in Conns /\ acceptFd # NoConn
        /\ conn' = [conn EXCEPT ![acceptFd] = "closed"]
        /\ acceptFd' = NoConn /\ acceptPc' = "loop"
        /\ UNCHANGED <<issued, cancelAsked, tokens, redeemed, taskQueue,
                       workerPc, workerFd, destroyPc>>
    BY <1>4 DEF RejectConn, CloseAccepted, TypeOK, tokenVars, workerVars
  <2>2. TypeOK'
    BY <2>1 DEF TypeOK
  <2>3. SocketInv'
    BY <2>1 DEF TypeOK, SocketInv, SocketsInOneHand, Serving, DestroyOrder,
                Listening, Range
  <2>4. TokenInv'
    <3>1. \A d \in Conns : conn'[d] \in {"none", "pending"}
                             => conn[d] \in {"none", "pending"}
      BY <2>1 DEF TypeOK
    <3> QED BY <2>1, <3>1, TokensUnchanged
  <2> QED BY <2>2, <2>3, <2>4
<1> QED BY <1>1, <1>2, <1>3, <1>4

(* downloadPool.c:117-160: a token is exchanged for a task.                  *)
LEMMA RedeemOK ==
    ASSUME IInv, NEW t \in Tokens, NEW derived \in BOOLEAN, Redeem(t, derived)
    PROVE  IInv'
<1> USE DownloadPoolAssumption DEF IInv
<1>1. PICK i \in Slots : /\ First(i, RedeemableSlots(t))
                         /\ tokens' = [tokens EXCEPT ![i].used = TRUE]
  BY DEF Redeem
<1>2. tokens[i].token = t /\ ~tokens[i].used
  BY <1>1 DEF First, RedeemableSlots, UnusedSlots
<1>3. /\ tokens' \in [Slots -> Slot]
      /\ \A j \in Slots : tokens'[j].token = tokens[j].token
      /\ \A j \in Slots : tokens'[j].expired = tokens[j].expired
      /\ \A j \in Slots : tokens'[j].used <=> (tokens[j].used \/ j = i)
  <2> DEFINE slot == [tokens[i] EXCEPT !.used = TRUE]
  <2>1. /\ slot \in Slot /\ slot.token = tokens[i].token
        /\ slot.used /\ slot.expired = tokens[i].expired
    BY SpentSlot, SlotOfPool
  <2>2. tokens' = [tokens EXCEPT ![i] = slot]
    BY <1>1
  <2> HIDE DEF slot
  <2>3. tokens[i] \in Slot
    BY SlotOfPool
  <2> QED BY <2>1, <2>2, <2>3 DEF TypeOK
<1>4. /\ acceptPc = "recv" /\ acceptFd \in Conns /\ acceptFd # NoConn
      /\ redeemed[acceptFd] = NoToken
      /\ UNCHANGED <<issued, cancelAsked, taskQueue, workerPc, workerFd,
                     destroyPc>>
  BY DEF Redeem, TypeOK, TokenInv, FreshHasNoToken, workerVars
<1>5. \A c \in Conns : redeemed[c] # t
  BY <1>2 DEF TokenInv, RedeemedIsUsed
<1>6. t \in issued
  BY <1>2 DEF TokenInv, SlotsWellFormed
<1>7. SlotsWellFormed'
  BY <1>3, <1>4 DEF TokenInv, SlotsWellFormed
<1>8. CASE derived
  <2>1. /\ redeemed' = [redeemed EXCEPT ![acceptFd] = t]
        /\ acceptPc' = "enqueue"
        /\ UNCHANGED <<conn, acceptFd>>
    BY <1>8 DEF Redeem
  <2>2. redeemed \in [Conns -> Tokens \cup {NoToken}]
    BY DEF TypeOK
  <2>3. TypeOK'
    BY <1>3, <1>4, <2>1 DEF TypeOK
  <2>4. SocketInv'
    BY <1>4, <2>1 DEF SocketInv, SocketsInOneHand, Serving, DestroyOrder,
                      Listening
  <2>5. TokenOpensOneTransfer'
    BY <1>4, <1>5, <2>1, <2>2 DEF TokenInv, TokenOpensOneTransfer
  <2>6. RedeemedIsUsed'
    <3>1. ASSUME NEW c \in Conns
          PROVE  /\ redeemed'[c] \in issued' \cup {NoToken}
                 /\ \A j \in Slots :
                      tokens'[j].token = redeemed'[c] /\ redeemed'[c] # NoToken
                        => tokens'[j].used
      <4>1. CASE c = acceptFd
        <5>1. redeemed'[c] = t
          BY <1>4, <2>1, <2>2, <4>1
        <5>2. \A j \in Slots : tokens[j].token = t => j = i
          BY <1>2 DEF TokenInv, SlotsWellFormed
        <5> QED BY <1>3, <1>4, <1>6, <5>1, <5>2
      <4>2. CASE c # acceptFd
        <5>1. redeemed'[c] = redeemed[c]
          BY <2>1, <2>2, <4>2
        <5> QED BY <1>3, <1>4, <5>1 DEF TokenInv, RedeemedIsUsed
      <4> QED BY <4>1, <4>2
    <3> QED BY <3>1 DEF RedeemedIsUsed
  <2>7. FreshHasNoToken'
    <3>1. conn[acceptFd] = "open"
      BY <1>4 DEF SocketInv, SocketsInOneHand
    <3> QED BY <1>4, <2>1, <2>2, <3>1 DEF TokenInv, FreshHasNoToken
  <2> QED BY <1>7, <2>3, <2>4, <2>5, <2>6, <2>7 DEF TokenInv
<1>9. CASE ~derived
  <2>1. /\ conn' = [conn EXCEPT ![acceptFd] = "closed"]
        /\ acceptFd' = NoConn /\ acceptPc' = "loop"
        /\ UNCHANGED redeemed
    BY <1>9 DEF Redeem, CloseAccepted
  <2>2. TypeOK'
    BY <1>3, <1>4, <2>1 DEF TypeOK
  <2>3. SocketInv'
    BY <1>4, <2>1 DEF TypeOK, SocketInv, SocketsInOneHand, Serving,
                      DestroyOrder, Listening, Range
  <2>4. TokenOpensOneTransfer'
    BY <2>1 DEF TokenInv, TokenOpensOneTransfer
  <2>5. RedeemedIsUsed'
    BY <1>3, <1>4, <2>1 DEF TokenInv, RedeemedIsUsed
  <2>6. FreshHasNoToken'
    BY <1>4, <2>1 DEF TypeOK, TokenInv, FreshHasNoToken
  <2> QED BY <1>7, <2>2, <2>3, <2>4, <2>5, <2>6 DEF TokenInv
<1> QED BY <1>8, <1>9

(* downloadPool.c:63: the task goes into the queue, or is dropped.           *)
LEMMA EnqueueOK ==
    ASSUME IInv, Enqueue \/ DropTask
    PROVE  IInv'
<1> USE DownloadPoolAssumption DEF IInv
<1>1. acceptPc = "enqueue" /\ acceptFd \in Conns /\ acceptFd # NoConn
  BY DEF Enqueue, DropTask, TypeOK
<1>2. ASSUME Enqueue  PROVE IInv'
  <2>1. /\ taskQueue' = Append(taskQueue, acceptFd)
        /\ Len(taskQueue) < MaxQueuedTasks
        /\ acceptFd' = NoConn /\ acceptPc' = "loop"
        /\ UNCHANGED <<issued, cancelAsked, tokens, conn, redeemed, workerFd,
                       destroyPc>>
    BY <1>2 DEF Enqueue, tokenVars
  <2>2. /\ workerPc' \in [Workers -> {"loop", "locked", "waiting", "serving",
                                      "exited"}]
        /\ \A w \in Workers : /\ workerPc'[w] = "serving" <=> workerPc[w] = "serving"
                              /\ workerPc[w] = "exited" => workerPc'[w] = "exited"
    <3>1. CASE \E w \in Workers : workerPc[w] = "waiting"
      <4>1. PICK w \in Workers : /\ workerPc[w] = "waiting"
                                 /\ workerPc' = [workerPc EXCEPT ![w] = "loop"]
        BY <1>2, <3>1 DEF Enqueue
      <4> QED BY <4>1 DEF TypeOK
    <3>2. CASE ~\E w \in Workers : workerPc[w] = "waiting"
      BY <1>2, <3>2 DEF Enqueue, TypeOK
    <3> QED BY <3>1, <3>2
  <2>3. taskQueue \in Seq(Conns) /\ acceptFd \notin Range(taskQueue)
        /\ IsInjective(taskQueue)
    BY DEF TypeOK, SocketInv, SocketsInOneHand
  <2>4. /\ taskQueue' \in Seq(Conns) /\ Len(taskQueue') = Len(taskQueue) + 1
        /\ Range(taskQueue') = Range(taskQueue) \cup {acceptFd}
        /\ IsInjective(taskQueue')
    BY <1>1, <2>1, <2>3, AppendTask
  <2>5. TypeOK'
    BY <2>1, <2>2, <2>4 DEF TypeOK
  <2>6. SocketInv'
    <3>1. \A c \in Range(taskQueue') : c \in Conns
      BY <2>4 DEF Range
    <3>2. destroyPc # "destroyed"
      BY <1>1 DEF SocketInv, DestroyOrder
    <3>3. SocketsInOneHand'
      BY <1>1, <2>1, <2>2, <2>4, <3>1
         DEF SocketInv, SocketsInOneHand, Serving, TypeOK
    <3>4. DestroyOrder'
      BY <2>1, <3>2 DEF SocketInv, DestroyOrder, Listening
    <3> QED BY <3>3, <3>4 DEF SocketInv
  <2>7. TokenInv'
    BY <2>1, TokensUnchanged
  <2> QED BY <2>5, <2>6, <2>7
<1>3. ASSUME DropTask  PROVE IInv'
  <2>1. /\ conn' = [conn EXCEPT ![acceptFd] = "closed"]
        /\ acceptFd' = NoConn /\ acceptPc' = "loop"
        /\ UNCHANGED <<issued, cancelAsked, tokens, redeemed, taskQueue,
                       workerPc, workerFd, destroyPc>>
    BY <1>3 DEF DropTask, CloseAccepted, tokenVars, workerVars
  <2>2. TypeOK'
    BY <1>1, <2>1 DEF TypeOK
  <2>3. SocketInv'
    BY <1>1, <2>1 DEF TypeOK, SocketInv, SocketsInOneHand, Serving,
                DestroyOrder, Listening, Range
  <2>4. TokenInv'
    <3>1. \A d \in Conns : conn'[d] \in {"none", "pending"}
                             => conn[d] \in {"none", "pending"}
      BY <1>1, <2>1 DEF TypeOK
    <3> QED BY <2>1, <3>1, TokensUnchanged
  <2> QED BY <2>2, <2>3, <2>4
<1> QED BY <1>2, <1>3

(* downloadPool.c:206-341: a worker waits, takes a task, serves it, exits.   *)
LEMMA WorkerStepOK ==
    ASSUME IInv, NEW w \in Workers, WorkerStep(w)
    PROVE  IInv'
<1> USE DownloadPoolAssumption DEF IInv
<1>1. ASSUME FindEmpty(w) \/ Wait(w) \/ Exit(w)  PROVE IInv'
  <2>1. /\ workerPc[w] \in {"loop", "locked"}
        /\ \E pc \in {"locked", "waiting", "exited"} :
             workerPc' = [workerPc EXCEPT ![w] = pc]
        /\ UNCHANGED <<issued, cancelAsked, tokens, conn, redeemed, acceptPc,
                       acceptFd, taskQueue, workerFd, destroyPc>>
    BY <1>1 DEF FindEmpty, Wait, Exit, Goto, tokenVars, acceptVars
  <2>2. TypeOK'
    BY <2>1 DEF TypeOK
  <2>3. SocketInv'
    BY <2>1, SocketsUnchanged DEF TypeOK, acceptVars
  <2>4. TokenInv'
    BY <2>1, TokensUnchanged
  <2> QED BY <2>2, <2>3, <2>4
<1>2. ASSUME Dequeue(w)  PROVE IInv'
  <2>1. /\ workerPc[w] = "loop" /\ taskQueue # <<>>
        /\ workerFd' = [workerFd EXCEPT ![w] = Head(taskQueue)]
        /\ taskQueue' = Tail(taskQueue)
        /\ workerPc' = [workerPc EXCEPT ![w] = "serving"]
        /\ UNCHANGED <<issued, cancelAsked, tokens, conn, redeemed, acceptPc,
                       acceptFd, destroyPc>>
    BY <1>2 DEF Dequeue, Goto, tokenVars, acceptVars
  <2>2. taskQueue \in Seq(Conns) /\ IsInjective(taskQueue)
    BY DEF TypeOK, SocketInv, SocketsInOneHand
  <2>3. /\ Head(taskQueue) \in Conns
        /\ taskQueue' \in Seq(Conns) /\ Len(taskQueue') = Len(taskQueue) - 1
        /\ Range(taskQueue) = Range(taskQueue') \cup {Head(taskQueue)}
        /\ IsInjective(taskQueue') /\ Head(taskQueue) \notin Range(taskQueue')
    BY <2>1, <2>2, TakeTask
  <2> DEFINE c == Head(taskQueue)
  <2>4. Len(taskQueue') \in Nat
    BY <2>3, LenProperties
  <2> HIDE DEF c
  <2>5. /\ c \in Conns /\ workerFd' = [workerFd EXCEPT ![w] = c]
        /\ Range(taskQueue) = Range(taskQueue') \cup {c}
        /\ c \notin Range(taskQueue')
    BY <2>1, <2>3 DEF c
  <2>6. TypeOK'
    BY <2>1, <2>3, <2>4, <2>5 DEF TypeOK
  <2>7. SocketInv'
    <3>1. Serving' = Serving \cup {w} /\ w \notin Serving
      BY <2>1 DEF Serving, TypeOK
    <3>2. destroyPc # "destroyed"
      BY <2>1 DEF SocketInv, DestroyOrder
    <3>3. \A v \in Serving : v # w /\ v \in Workers /\ workerFd'[v] = workerFd[v]
      BY <2>5, <3>1 DEF Serving, TypeOK
    <3>4. workerFd'[w] = c
      BY <2>5 DEF TypeOK
    <3>5. SocketsInOneHand'
      BY <2>1, <2>3, <2>5, <3>1, <3>3, <3>4 DEF SocketInv, SocketsInOneHand
    <3>6. DestroyOrder'
      BY <2>1, <3>2 DEF SocketInv, DestroyOrder, Listening
    <3> QED BY <3>5, <3>6 DEF SocketInv
  <2>8. TokenInv'
    BY <2>1, TokensUnchanged
  <2> QED BY <2>6, <2>7, <2>8
<1>3. ASSUME NEW whole \in BOOLEAN, Finish(w, whole)  PROVE IInv'
  <2> DEFINE c == workerFd[w]
  <2>1. PICK end \in {"done", "closed"} : conn' = [conn EXCEPT ![c] = end]
    BY <1>3 DEF Finish
  <2>2. /\ workerPc[w] = "serving" /\ c \in Conns
        /\ workerFd' = [workerFd EXCEPT ![w] = NoConn]
        /\ workerPc' = [workerPc EXCEPT ![w] = "loop"]
        /\ UNCHANGED <<issued, cancelAsked, tokens, redeemed, acceptPc,
                       acceptFd, taskQueue, destroyPc>>
    BY <1>3 DEF Finish, Goto, TypeOK, tokenVars, acceptVars
  <2> HIDE DEF c
  <2>3. TypeOK'
    BY <2>1, <2>2 DEF TypeOK
  <2>4. SocketInv'
    <3>1. Serving = Serving' \cup {w} /\ w \notin Serving'
      BY <2>2 DEF Serving, TypeOK
    <3>2. \A v \in Serving' : v # w /\ v \in Workers /\ workerFd'[v] = workerFd[v]
      BY <2>2, <3>1 DEF Serving, TypeOK
    <3>3. destroyPc # "destroyed"
      BY <2>2 DEF SocketInv, DestroyOrder
    <3>4. /\ conn'[c] # "open" /\ conn'[c] # "pending"
          /\ \A d \in Conns : d # c => conn'[d] = conn[d]
      BY <2>1, <2>2 DEF TypeOK
    <3>5. /\ c # acceptFd /\ c \notin Range(taskQueue)
          /\ \A v \in Serving' : workerFd[v] # c
      BY <3>1, <3>2, <2>2 DEF SocketInv, SocketsInOneHand, c
    <3>6. SocketsInOneHand'
      BY <2>2, <3>1, <3>2, <3>4, <3>5 DEF SocketInv, SocketsInOneHand, c
    <3>7. DestroyOrder'
      BY <2>2, <3>3, <3>4 DEF SocketInv, DestroyOrder, Listening
    <3> QED BY <3>6, <3>7 DEF SocketInv
  <2>5. TokenInv'
    <3>1. \A d \in Conns : conn'[d] \in {"none", "pending"}
                             => conn[d] \in {"none", "pending"}
      BY <2>1, <2>2 DEF TypeOK
    <3> QED BY <2>2, <3>1, TokensUnchanged
  <2> QED BY <2>3, <2>4, <2>5
<1> QED BY <1>1, <1>2, <1>3 DEF WorkerStep

(* downloadPool.c:458-493: the pool is destroyed.                            *)
LEMMA DestroyOK ==
    ASSUME IInv, SetShutdown \/ DestroyStep
    PROVE  IInv'
<1> USE DownloadPoolAssumption DEF IInv
<1>1. ASSUME SetShutdown \/ Broadcast  PROVE IInv'
  <2>1. /\ UNCHANGED <<issued, cancelAsked, tokens, conn, redeemed, acceptPc,
                       acceptFd, taskQueue, workerFd>>
        /\ destroyPc \in {"no", "flagged"} /\ destroyPc' \in {"flagged", "woken"}
        /\ \/ workerPc' = workerPc
           \/ workerPc' = [w \in Workers |->
                             IF workerPc[w] = "waiting" THEN "loop" ELSE workerPc[w]]
    BY <1>1 DEF SetShutdown, Broadcast, tokenVars, acceptVars, workerVars
  <2>2. TypeOK'
    BY <2>1 DEF TypeOK
  <2>3. SocketInv'
    BY <2>1 DEF TypeOK, SocketInv, SocketsInOneHand, Serving, DestroyOrder,
                Listening
  <2>4. TokenInv'
    BY <2>1, TokensUnchanged
  <2> QED BY <2>2, <2>3, <2>4
<1>2. ASSUME CloseListener  PROVE IInv'
  <2>1. /\ UNCHANGED <<issued, cancelAsked, tokens, redeemed, acceptPc, acceptFd,
                       taskQueue, workerPc, workerFd>>
        /\ destroyPc' = "joining"
        /\ conn' = [c \in Conns |-> IF conn[c] = "pending" THEN "closed"
                                    ELSE conn[c]]
    BY <1>2 DEF CloseListener, tokenVars, acceptVars, workerVars
  <2>2. TypeOK'
    BY <2>1 DEF TypeOK
  <2>3. SocketInv'
    BY <2>1 DEF TypeOK, SocketInv, SocketsInOneHand, Serving, DestroyOrder,
                Listening
  <2>4. TokenInv'
    <3>1. \A d \in Conns : conn'[d] \in {"none", "pending"}
                             => conn[d] \in {"none", "pending"}
      BY <2>1
    <3> QED BY <2>1, <3>1, TokensUnchanged
  <2> QED BY <2>2, <2>3, <2>4
<1>3. ASSUME Joined  PROVE IInv'
  <2>1. /\ UNCHANGED <<issued, cancelAsked, tokens, redeemed, acceptPc, acceptFd,
                       workerPc, workerFd>>
        /\ acceptPc = "exited"
        /\ \A w \in Workers : workerPc[w] = "exited"
        /\ destroyPc = "joining" /\ destroyPc' = "destroyed"
        /\ conn' = [c \in Conns |-> IF c \in Range(taskQueue) THEN "closed"
                                    ELSE conn[c]]
        /\ taskQueue' = <<>>
    BY <1>3 DEF Joined, tokenVars, acceptVars, workerVars
  <2>2. /\ taskQueue' \in Seq(Conns) /\ Len(taskQueue') = 0
        /\ Range(taskQueue') = {} /\ IsInjective(taskQueue')
    BY <2>1, EmptySeq DEF Range, IsInjective
  <2>3. TypeOK'
    BY <2>1, <2>2 DEF TypeOK
  <2>4. SocketInv'
    <3>1. acceptFd = NoConn /\ acceptFd \notin Conns /\ Serving = {}
          /\ Serving' = {}
      BY <2>1 DEF TypeOK, Serving
    <3>2. \A c \in Conns : conn'[c] # "open"
      BY <2>1, <3>1 DEF SocketInv, SocketsInOneHand
    <3>3. SocketsInOneHand'
      BY <2>1, <2>2, <3>1, <3>2 DEF SocketsInOneHand
    <3>4. \A c \in Conns : conn'[c] # "pending"
      BY <2>1 DEF SocketInv, DestroyOrder, Listening
    <3>5. DestroyOrder'
      BY <2>1, <3>4 DEF DestroyOrder
    <3> QED BY <3>3, <3>5 DEF SocketInv
  <2>5. TokenInv'
    <3>1. \A d \in Conns : conn'[d] \in {"none", "pending"}
                             => conn[d] \in {"none", "pending"}
      BY <2>1
    <3> QED BY <2>1, <3>1, TokensUnchanged
  <2> QED BY <2>3, <2>4, <2>5
<1> QED BY <1>1, <1>2, <1>3 DEF DestroyStep

(* downloadPool.c: the inductive invariant holds in every reachable state.   *)
THEOREM PoolInvariant == Spec => []IInv
<1>1. IInv /\ [Next]_vars => IInv'
  <2> SUFFICES ASSUME IInv, [Next]_vars PROVE IInv'
    OBVIOUS
  <2>1. CASE UNCHANGED vars
    BY <2>1 DEF IInv, vars, TypeOK, SocketInv, SocketsInOneHand, Serving,
                DestroyOrder, Listening, TokenInv, TokenOpensOneTransfer,
                SlotsWellFormed, RedeemedIsUsed, FreshHasNoToken
  <2>2. CASE \/ \E t \in Tokens : RegisterToken(t) \/ CancelByToken(t)
             \/ \E i \in Slots : TokenExpires(i)
    BY <2>2, TokenStepsOK
  <2>3. CASE \E c \in Conns : Connect(c)
    BY <2>3, AcceptStepsOK
  <2>4. CASE AcceptStep
    BY <2>4, AcceptStepsOK, RedeemOK, EnqueueOK DEF AcceptStep
  <2>5. CASE \E w \in Workers : WorkerStep(w)
    BY <2>5, WorkerStepOK
  <2>6. CASE SetShutdown \/ DestroyStep
    BY <2>6, DestroyOK
  <2> QED BY <2>1, <2>2, <2>3, <2>4, <2>5, <2>6 DEF Next
<1> QED BY InitOK, <1>1, PTL DEF Spec

(* downloadPool.c: the type invariant, with the bound of the queue and the   *)
(* socket that each thread has in hand.                                      *)
THEOREM PoolTypeCorrect == Spec => []TypeOK
<1>1. IInv => TypeOK
  BY DEF IInv
<1> QED BY PoolInvariant, <1>1, PTL

(* downloadPool.c: every open data connection is in exactly one hand, for    *)
(* any number of connections, workers and queue places.                      *)
THEOREM SocketsCorrect == Spec => []SocketsInOneHand
<1>1. IInv => SocketsInOneHand
  BY DEF IInv, SocketInv
<1> QED BY PoolInvariant, <1>1, PTL

(* downloadPool.c:117-147: no two connections come through with one token.   *)
THEOREM TokenCorrect == Spec => []TokenOpensOneTransfer
<1>1. IInv => TokenOpensOneTransfer
  BY DEF IInv, TokenInv
<1> QED BY PoolInvariant, <1>1, PTL

(* downloadPool.c:458: after the destruction nothing is open.                *)
THEOREM DestroyedCorrect == Spec => []DestroyedIsClosed
<1>1. IInv => DestroyedIsClosed
  <2> SUFFICES ASSUME IInv, destroyPc = "destroyed", NEW c \in Conns
               PROVE  conn[c] \notin {"pending", "open"}
    BY DEF DestroyedIsClosed
  <2>1. conn[c] # "pending"
    BY DEF IInv, SocketInv, DestroyOrder, Listening
  <2>2. acceptFd = NoConn /\ Serving = {} /\ taskQueue = <<>>
    BY DEF IInv, TypeOK, SocketInv, DestroyOrder, Serving
  <2>3. Range(taskQueue) = {}
    BY <2>2, EmptySeq DEF Range
  <2>4. conn[c] # "open"
    BY <2>2, <2>3, DownloadPoolAssumption DEF IInv, SocketInv, SocketsInOneHand
  <2> QED BY <2>1, <2>4
<1> QED BY PoolInvariant, <1>1, PTL

-----------------------------------------------------------------------------
(* The pool implements DownloadService *)

Valid == {t \in Tokens : RedeemableSlots(t) # {}}

(* downloadPool.c:408-418: a slot that the registration may take over holds  *)
(* no token that is still good.                                              *)
LEMMA OneSlotChanges ==
    ASSUME TypeOK, TokenInv, NEW i \in Slots, NEW slot \in Slot,
           tokens' = [tokens EXCEPT ![i] = slot]
    PROVE  /\ \A t \in Tokens \ {tokens[i].token, slot.token} :
                t \in Valid' <=> t \in Valid
           /\ tokens[i].token \in Valid
                <=> /\ tokens[i].token # NoToken
                    /\ ~tokens[i].used /\ ~tokens[i].expired
           /\ \A t \in Tokens :
                t = slot.token /\ ~slot.used /\ ~slot.expired => t \in Valid'
           /\ \A t \in Tokens :
                t \in Valid' /\ t \notin Valid
                  => t = slot.token /\ ~slot.used /\ ~slot.expired
           /\ tokens[i].token # NoToken /\ tokens[i].token \in Valid'
                => slot.token = tokens[i].token /\ ~slot.used /\ ~slot.expired
<1> USE DownloadPoolAssumption DEF Valid, RedeemableSlots, UnusedSlots
<1>1. /\ tokens'[i] = slot
      /\ \A j \in Slots : j # i => tokens'[j] = tokens[j]
  BY DEF TypeOK
<1>2. /\ slot.token \in Tokens \cup {NoToken}
      /\ tokens[i].token \in Tokens \cup {NoToken}
  BY DEF TypeOK, Slot
<1>3. \A j \in Slots : tokens[j].token = tokens[i].token
                       /\ tokens[i].token # NoToken => j = i
  BY DEF TokenInv, SlotsWellFormed
<1>4. \A t \in Tokens \ {tokens[i].token, slot.token} : t \in Valid' <=> t \in Valid
  BY <1>1
<1>5. tokens[i].token \in Valid <=> /\ tokens[i].token # NoToken
                                    /\ ~tokens[i].used /\ ~tokens[i].expired
  BY <1>2, <1>3
<1>6. \A t \in Tokens :
         t = slot.token /\ ~slot.used /\ ~slot.expired => t \in Valid'
  BY <1>1
<1>7. \A t \in Tokens : t \in Valid' /\ t \notin Valid
                          => t = slot.token /\ ~slot.used /\ ~slot.expired
  BY <1>1
<1>8. tokens[i].token # NoToken /\ tokens[i].token \in Valid'
        => slot.token = tokens[i].token /\ ~slot.used /\ ~slot.expired
  BY <1>1, <1>3
<1> QED BY <1>4, <1>5, <1>6, <1>7, <1>8

(* downloadPool.c:440, 127: a change that invalidates one slot at most       *)
(* withdraws the token it holds.                                             *)
LEMMA SlotSpent ==
    ASSUME TypeOK, TokenInv, NEW i \in Slots, NEW slot \in Slot,
           tokens' = [tokens EXCEPT ![i] = slot],
           slot.token = tokens[i].token,
           slot.used \/ slot.expired
    PROVE  Valid' = Valid \ {tokens[i].token}
<1>1. Valid' \subseteq Tokens /\ Valid \subseteq Tokens
  BY DEF Valid
<1>2. tokens[i].token \in Tokens => tokens[i].token \notin Valid'
  BY OneSlotChanges, DownloadPoolAssumption
<1>3. \A t \in Tokens \ {tokens[i].token} : t \in Valid' <=> t \in Valid
  BY OneSlotChanges
<1> QED BY <1>1, <1>2, <1>3

(* downloadPool.c: every step of the pool is a step of DownloadService, or   *)
(* changes nothing of it.                                                    *)
LEMMA StepRefines ==
    ASSUME IInv, [Next]_vars
    PROVE  [Service!Next]_(Service!vars)
<1> USE DownloadPoolAssumption DEF IInv
<1>1. Service!vars = <<issued, Valid, redeemed>>
      /\ Service!vars' = <<issued', Valid', redeemed'>>
  BY DEF Service!vars, Valid
<1>2. ASSUME UNCHANGED <<issued, tokens, redeemed>>
      PROVE  UNCHANGED Service!vars
  BY <1>1, <1>2 DEF Valid, RedeemableSlots, UnusedSlots
<1>3. ASSUME NEW t \in Tokens, RegisterToken(t)  PROVE Service!Next
  <2>1. t \in Tokens \ issued /\ issued' = issued \cup {t} /\ UNCHANGED redeemed
    BY <1>3 DEF RegisterToken
  <2>2. CASE FreeSlots # {}
    <3> DEFINE slot == [token |-> t, used |-> FALSE, expired |-> FALSE]
    <3>1. PICK i \in Slots : /\ First(i, FreeSlots)
                             /\ tokens' = [tokens EXCEPT ![i] = slot]
      BY <1>3, <2>2 DEF RegisterToken
    <3>2. slot \in Slot /\ slot.token = t /\ ~slot.used /\ ~slot.expired
      BY DEF Slot
    <3> HIDE DEF slot
    <3>3. tokens[i].used \/ tokens[i].expired
      BY <3>1 DEF First, FreeSlots
    <3>4. tokens[i].token # t
      BY <2>1 DEF TokenInv, SlotsWellFormed
    <3>5. tokens[i].token \notin Valid /\ (tokens[i].token \in Tokens
                                             => tokens[i].token \notin Valid')
      BY <3>1, <3>2, <3>3, <3>4, OneSlotChanges
    <3>6. t \in Valid' /\ \A u \in Tokens \ {t, tokens[i].token} :
                            u \in Valid' <=> u \in Valid
      BY <3>1, <3>2, OneSlotChanges
    <3>7. Valid' = Valid \cup {t}
      BY <3>5, <3>6 DEF Valid
    <3>8. Service!Offer(t)
      BY <2>1, <3>7 DEF Service!Offer, Valid
    <3> QED BY <3>8 DEF Service!Next
  <2>3. CASE FreeSlots = {}
    <3>1. UNCHANGED tokens
      BY <1>3, <2>3 DEF RegisterToken
    <3>2. Valid' = Valid
      BY <3>1 DEF Valid, RedeemableSlots, UnusedSlots
    <3>3. Service!Refuse(t)
      BY <2>1, <3>2 DEF Service!Refuse, Valid
    <3> QED BY <3>3 DEF Service!Next
  <2> QED BY <2>2, <2>3
<1>4. ASSUME NEW i \in Slots, NEW slot \in Slot,
             tokens' = [tokens EXCEPT ![i] = slot],
             slot.token = tokens[i].token, slot.used \/ slot.expired,
             UNCHANGED <<issued, redeemed>>
      PROVE  Service!Next \/ UNCHANGED Service!vars
  <2>1. Valid' = Valid \ {tokens[i].token}
    BY <1>4, SlotSpent
  <2>2. CASE tokens[i].token \in Valid
    <3>1. Service!Withdraw(tokens[i].token) /\ tokens[i].token \in Tokens
      BY <1>4, <2>1, <2>2 DEF Service!Withdraw, Valid
    <3> QED BY <3>1 DEF Service!Next
  <2>3. CASE tokens[i].token \notin Valid
    BY <1>1, <1>4, <2>1, <2>3
  <2> QED BY <2>2, <2>3
<1>5. ASSUME NEW t \in Tokens, CancelByToken(t)
      PROVE  Service!Next \/ UNCHANGED Service!vars
  <2>1. UNCHANGED <<issued, redeemed>>
    BY <1>5 DEF CancelByToken
  <2>2. CASE UnusedSlots(t) # {}
    <3>1. PICK i \in Slots : tokens' = [tokens EXCEPT ![i].used = TRUE]
      BY <1>5, <2>2 DEF CancelByToken
    <3> DEFINE slot == [tokens[i] EXCEPT !.used = TRUE]
    <3>2. slot \in Slot /\ slot.token = tokens[i].token /\ slot.used
      BY SpentSlot, SlotOfPool
    <3>3. tokens' = [tokens EXCEPT ![i] = slot]
      BY <3>1
    <3> HIDE DEF slot
    <3> QED BY <1>4, <2>1, <3>2, <3>3
  <2>3. CASE UnusedSlots(t) = {}
    BY <1>2, <1>5, <2>1, <2>3 DEF CancelByToken
  <2> QED BY <2>2, <2>3
<1>6. ASSUME NEW i \in Slots, TokenExpires(i)
      PROVE  Service!Next \/ UNCHANGED Service!vars
  <2> DEFINE slot == [tokens[i] EXCEPT !.expired = TRUE]
  <2>1. slot \in Slot /\ slot.token = tokens[i].token /\ slot.expired
    BY SpentSlot, SlotOfPool
  <2>2. tokens' = [tokens EXCEPT ![i] = slot] /\ UNCHANGED <<issued, redeemed>>
    BY <1>6 DEF TokenExpires
  <2> HIDE DEF slot
  <2> QED BY <1>4, <2>1, <2>2
<1>7. ASSUME NEW t \in Tokens, NEW derived \in BOOLEAN, Redeem(t, derived)
      PROVE  Service!Next \/ UNCHANGED Service!vars
  <2>1. PICK i \in Slots : /\ First(i, RedeemableSlots(t))
                           /\ tokens' = [tokens EXCEPT ![i].used = TRUE]
    BY <1>7 DEF Redeem
  <2> DEFINE slot == [tokens[i] EXCEPT !.used = TRUE]
  <2>2. slot \in Slot /\ slot.token = tokens[i].token /\ slot.used
    BY SpentSlot, SlotOfPool
  <2>3. tokens' = [tokens EXCEPT ![i] = slot]
    BY <2>1
  <2> HIDE DEF slot
  <2>4. tokens[i].token = t /\ t \in Valid
    BY <2>1 DEF First, RedeemableSlots, UnusedSlots, Valid
  <2>5. UNCHANGED issued /\ acceptPc = "recv"
    BY <1>7 DEF Redeem
  <2>6. CASE derived
    <3>1. redeemed' = [redeemed EXCEPT ![acceptFd] = t]
      BY <1>7, <2>6 DEF Redeem
    <3>2. acceptFd \in Conns /\ redeemed[acceptFd] = NoToken
      BY <2>5 DEF TypeOK, TokenInv, FreshHasNoToken
    <3>3. Valid' = Valid \ {t}
      BY <2>2, <2>3, <2>4, SlotSpent
    <3>4. Service!Open(acceptFd, t)
      BY <2>4, <2>5, <3>1, <3>2, <3>3 DEF Service!Open, Valid
    <3> QED BY <3>2, <3>4 DEF Service!Next
  <2>7. CASE ~derived
    <3>1. UNCHANGED redeemed
      BY <1>7, <2>7 DEF Redeem
    <3> QED BY <1>4, <2>2, <2>3, <2>5, <3>1
  <2> QED BY <2>6, <2>7
<1>8. ASSUME \/ UNCHANGED vars
             \/ \E c \in Conns : Connect(c) \/ Accept(c)
             \/ AcceptLoop \/ AcceptFails \/ RejectConn \/ Enqueue \/ DropTask
             \/ \E w \in Workers : WorkerStep(w)
             \/ SetShutdown \/ DestroyStep
      PROVE  UNCHANGED <<issued, tokens, redeemed>>
  BY <1>8 DEF vars, Connect, Accept, AcceptLoop, AcceptFails, RejectConn,
              Enqueue, DropTask, WorkerStep, FindEmpty, Wait, Exit, Dequeue,
              Finish, SetShutdown, DestroyStep, Broadcast, CloseListener,
              Joined, tokenVars
<1> QED BY <1>2, <1>3, <1>5, <1>6, <1>7, <1>8 DEF Next, AcceptStep

(* downloadPool.c: a token that was offered opens one transfer or is         *)
(* withdrawn, and never comes back, for any number of slots and threads.     *)
THEOREM PoolRefinesService == Spec => ImplementsDownloadService
<1>1. Init => Service!Init
  BY DEF Init, Service!Init, RedeemableSlots, UnusedSlots
<1>2. IInv /\ [Next]_vars => [Service!Next]_(Service!vars)
  BY StepRefines
<1> QED BY PoolInvariant, <1>1, <1>2, PTL
        DEF Spec, ImplementsDownloadService, Service!Spec
=============================================================================
