-------------------------- MODULE GameLobby_proofs --------------------------
(***************************************************************************)
(* Proofs, for any number of clients and rooms, that the lobby with its    *)
(* streams, its clients and its game threads keeps the room invariants of  *)
(* SessionServer, that no game thread uses a room that was freed, that no  *)
(* page waits for an answer in vain, and that a client that loses no news  *)
(* shows the room it is in.                                                *)
(***************************************************************************)
EXTENDS GameLobbyProps, SessionServer_proofs, WellFoundedInduction

(* serverRemoveClientFromGameRoom frees no room but that of c and clears no  *)
(* gameRunning.                                                              *)
LEMMA LeavingStopsNoOther ==
    ASSUME Parts, NEW c \in Clients, NEW g \in DOMAIN activeGameRooms
    PROVE  LET rooms == LeaveGameRoom(c).rooms
           IN  \/ /\ g \in DOMAIN rooms
                  /\ rooms[g].gameRunning = activeGameRooms[g].gameRunning
               \/ /\ g = currentGameRoomId[c]
                  /\ g \notin DOMAIN rooms
<1> DEFINE v  == LeaveGameRoom(c)
           cg == currentGameRoomId[c]
<1>1. /\ activeGameRooms \in [DOMAIN activeGameRooms -> GameRoomType]
      /\ cg # NoRoom => cg \in DOMAIN activeGameRooms
      /\ NoRoom \notin DOMAIN activeGameRooms
  BY SessionServerAssumption DEF Parts, GameOK, GameTypeOK
<1>2. CASE cg = NoRoom
  <2>1. v.rooms = activeGameRooms
    BY <1>1, <1>2 DEF LeaveGameRoom
  <2> QED BY <2>1
<1>3. CASE cg # NoRoom /\ activeGameRooms[cg].hostUid = uid[c]
  <2>1. v.rooms = Drop(activeGameRooms, cg)
    BY <1>1, <1>3 DEF LeaveGameRoom, DissolveGameRoom
  <2>2. /\ DOMAIN v.rooms = DOMAIN activeGameRooms \ {cg}
        /\ \A h \in DOMAIN v.rooms : v.rooms[h] = activeGameRooms[h]
    BY <2>1 DEF Drop, Restrict
  <2> QED BY <2>2
<1>4. CASE cg # NoRoom /\ activeGameRooms[cg].hostUid # uid[c]
  <2> DEFINE left == RemoveFirst(activeGameRooms[cg].members, c)
  <2>1. v.rooms = IF left = <<>> THEN Drop(activeGameRooms, cg)
                  ELSE [activeGameRooms EXCEPT ![cg].members = left]
    BY <1>1, <1>4 DEF LeaveGameRoom, LeaveAsMember
  <2> HIDE DEF left
  <2>2. CASE left = <<>>
    <3>1. /\ DOMAIN v.rooms = DOMAIN activeGameRooms \ {cg}
          /\ \A h \in DOMAIN v.rooms : v.rooms[h] = activeGameRooms[h]
      BY <2>1, <2>2 DEF Drop, Restrict
    <3> QED BY <3>1
  <2>3. CASE left # <<>>
    <3>1. /\ g \in DOMAIN v.rooms
          /\ v.rooms[g].gameRunning = activeGameRooms[g].gameRunning
      BY <1>1, <2>1, <2>3 DEF GameRoomType
    <3> QED BY <3>1
  <2> QED BY <2>2, <2>3
<1> QED BY <1>2, <1>3, <1>4

(* A room whose thread is at work is running when a handler begins, unless   *)
(* it is the room of c whose thread was joined for it.                       *)
LEMMA RunningAtEntry ==
    ASSUME ThreadInv, NEW c \in Clients, MayLeave(c) \/ loop = NoClient,
           NEW g \in GameRoomIds, thread[g] # "none"
    PROVE  /\ g \in DOMAIN activeGameRooms
           /\ activeGameRooms[g].gameRunning
           /\ loop # NoClient => g # currentGameRoomId[c]
BY GameLobbyAssumption DEF ThreadInv, MayLeave

(* The handlers in which c leaves its game room first.                       *)
LEMMA LeavingHandlerOK ==
    ASSUME Parts, ThreadInv, NEW c \in Clients, MayLeave(c),
           thread' = thread, loop' = NoClient,
           \A g \in DOMAIN LeaveGameRoom(c).rooms :
               /\ g \in DOMAIN activeGameRooms'
               /\ activeGameRooms'[g].gameRunning =
                    LeaveGameRoom(c).rooms[g].gameRunning
    PROVE  ThreadInv'
<1>1. ASSUME NEW g \in GameRoomIds, thread[g] # "none"
      PROVE  /\ g \in DOMAIN activeGameRooms'
             /\ activeGameRooms'[g].gameRunning
  <2> DEFINE rooms == LeaveGameRoom(c).rooms
  <2>1. /\ g \in DOMAIN activeGameRooms
        /\ activeGameRooms[g].gameRunning
        /\ loop # NoClient => g # currentGameRoomId[c]
    BY <1>1, RunningAtEntry
  <2>2. ~(g = currentGameRoomId[c] /\ g \notin DOMAIN rooms)
    BY <2>1, GameLobbyAssumption DEF MustStopGame, MayLeave
  <2>3. g \in DOMAIN rooms /\ rooms[g].gameRunning
    BY <2>1, <2>2, LeavingStopsNoOther
  <2> QED BY <2>3
<1> QED BY <1>1 DEF ThreadInv

(* The handlers that leave the rooms alone.                                  *)
LEMMA QuietHandlerOK ==
    ASSUME ThreadInv, NEW c \in Clients, loop = NoClient,
           UNCHANGED <<thread, activeGameRooms>>, loop' = NoClient
    PROVE  ThreadInv'
BY RunningAtEntry DEF ThreadInv

-----------------------------------------------------------------------------
(* The handlers *)

(* gameRoom.c: creating, joining and quitting a game room, and a session     *)
(* that ends.                                                                *)
LEMMA LeavingHandlersKeepThreads ==
    ASSUME Parts, ThreadInv, NEW c \in Clients,
           \/ \E g \in GameRoomIds, created \in BOOLEAN :
                ServeCreate(c, g, created)
           \/ ServeJoin(c) \/ ServeQuit(c) \/ ServerDrops(c)
    PROVE  ThreadInv'
<1> DEFINE v == LeaveGameRoom(c)
<1>1. /\ DOMAIN v.rooms \subseteq v.rows
      /\ v.rooms \in [DOMAIN v.rooms -> GameRoomType]
  BY LeaveGameRoomOK DEF Parts, CurrentGameOK, LeftGameRoom, GameOK, GameTypeOK
<1> HIDE DEF v
<1> DEFINE Kept == \A g \in DOMAIN v.rooms :
                       /\ g \in DOMAIN activeGameRooms'
                       /\ activeGameRooms'[g].gameRunning = v.rooms[g].gameRunning
<1>2. ASSUME MayLeave(c),
             thread' = thread, loop' = NoClient, Kept
      PROVE  ThreadInv'
  BY <1>2, LeavingHandlerOK DEF v
<1>3. ASSUME NEW g \in GameRoomIds, NEW created \in BOOLEAN,
             ServeCreate(c, g, created)
      PROVE  ThreadInv'
  <2>1. /\ MayLeave(c)
        /\ thread' = thread /\ loop' = NoClient
        /\ GameRoomCreate(c, g, created)
    BY <1>3 DEF ServeCreate, Takes, Handled
  <2>2. \/ activeGameRooms' = v.rooms
        \/ /\ g \notin v.rows
           /\ \E room : activeGameRooms' = Put(v.rooms, g, room)
    BY <2>1, Zenon DEF GameRoomCreate, v
  <2>3. Kept
    BY <1>1, <2>2 DEF Put
  <2> QED BY <1>2, <2>1, <2>3
<1>4. CASE ServeJoin(c)
  <2>1. /\ MayLeave(c)
        /\ thread' = thread /\ loop' = NoClient
        /\ GameRoomJoin(c, Head1(c).room)
    BY <1>4 DEF ServeJoin, Takes, Handled
  <2>2. \/ activeGameRooms' = v.rooms
        \/ \E g \in DOMAIN v.rooms :
             activeGameRooms' = [v.rooms EXCEPT ![g].members = Append(@, c)]
    BY <2>1, Zenon DEF GameRoomJoin, Joinable, v
  <2>3. Kept
    BY <1>1, <2>2 DEF GameRoomType
  <2> QED BY <1>2, <2>1, <2>3
<1>5. CASE ServeQuit(c) \/ ServerDrops(c)
  <2>1. /\ MayLeave(c)
        /\ thread' = thread /\ loop' = NoClient
        /\ GameRoomQuit(c) \/ DropClient(c)
    BY <1>5 DEF ServeQuit, ServerDrops, Takes, Handled
  <2>2. activeGameRooms' = v.rooms
    BY <2>1, Zenon DEF GameRoomQuit, DropClient, ClientDisconnect, v
  <2>3. Kept
    BY <2>2
  <2> QED BY <1>2, <2>1, <2>3
<1> QED BY <1>3, <1>4, <1>5

(* serverHandleGameRoomStart: the new thread has a room that is running.     *)
LEMMA StartKeepsThreads ==
    ASSUME Parts, ThreadInv, NEW c \in Clients, ServeStart(c)
    PROVE  ThreadInv'
<1> DEFINE g == Head1(c).room
<1>1. /\ loop = NoClient /\ loop' = NoClient
      /\ GameRoomStart(c, g)
      /\ thread' = [thread EXCEPT ![g] = "loading"]
  BY DEF ServeStart, Takes, Handled
<1> HIDE DEF g
<1>2. /\ activeGameRooms \in [DOMAIN activeGameRooms -> GameRoomType]
      /\ g \in DOMAIN activeGameRooms /\ g \in GameRoomIds
      /\ activeGameRooms' =
           [activeGameRooms EXCEPT ![g].state = "GameRoomPlaying",
                                   ![g].gameRunning = TRUE]
  BY <1>1 DEF GameRoomStart, Parts, GameOK, GameTypeOK
<1>3. ASSUME NEW h \in GameRoomIds, thread'[h] # "none"
      PROVE  h \in DOMAIN activeGameRooms' /\ activeGameRooms'[h].gameRunning
  <2>1. CASE h = g
    BY <1>2, <2>1 DEF GameRoomType
  <2>2. CASE h # g
    <3>1. thread[h] # "none"
      BY <1>1, <1>3, <2>2
    <3>2. h \in DOMAIN activeGameRooms /\ activeGameRooms[h].gameRunning
      BY <1>1, <3>1, RunningAtEntry
    <3> QED BY <1>2, <2>2, <3>2
  <2> QED BY <2>1, <2>2
<1>4. thread' \in [GameRoomIds -> ThreadSteps]
  BY <1>1 DEF ThreadInv, ThreadSteps
<1> QED BY <1>1, <1>3, <1>4 DEF ThreadInv

(* gameRunner.c:243, gameRoomStopGame clears the flag of one room, for which *)
(* the loop then waits.                                                      *)
LEMMA StopKeepsThreads ==
    ASSUME Parts, ThreadInv, NEW c \in Clients, StopGame(c)
    PROVE  ThreadInv'
<1> DEFINE cg == currentGameRoomId[c]
<1>1. /\ activeGameRooms \in [DOMAIN activeGameRooms -> GameRoomType]
      /\ cg \in DOMAIN activeGameRooms
      /\ activeGameRooms' = [activeGameRooms EXCEPT ![cg].gameRunning = FALSE]
      /\ loop = NoClient /\ loop' = c
      /\ UNCHANGED <<thread, currentGameRoomId>>
  BY DEF StopGame, MustStopGame, sessionVars, Parts, GameOK, GameTypeOK
<1>2. ASSUME NEW g \in GameRoomIds, thread[g] # "none"
      PROVE  /\ g \in DOMAIN activeGameRooms'
             /\ activeGameRooms'[g].gameRunning \/ currentGameRoomId[c] = g
  <2>1. g \in DOMAIN activeGameRooms /\ activeGameRooms[g].gameRunning
    BY <1>1, <1>2, GameLobbyAssumption DEF ThreadInv
  <2> QED BY <1>1, <2>1
<1> QED BY <1>1, <1>2 DEF ThreadInv

(* gameRunner.c, gameRoomThreadFunc: each step of the thread of room t.      *)
LEMMA ThreadStepsKeepThreads ==
    ASSUME ThreadInv, NEW t \in GameRoomIds,
           \/ ThreadLoads(t) \/ GameReturns(t) \/ ThreadDestroysSdk(t)
           \/ ThreadEnds(t)
    PROVE  ThreadInv'
<1>1. CASE ThreadLoads(t) \/ GameReturns(t) \/ ThreadDestroysSdk(t)
  <2>1. /\ thread[t] # "none"
        /\ \E s \in ThreadSteps \ {"none"} : thread' = [thread EXCEPT ![t] = s]
        /\ UNCHANGED <<activeGameRooms, currentGameRoomId, loop>>
    BY <1>1 DEF ThreadLoads, GameReturns, ThreadDestroysSdk, ThreadSteps,
                serverVars, vars
  <2> QED BY <2>1 DEF ThreadInv
<1>2. CASE ThreadEnds(t)
  <2>1. /\ thread' = [thread EXCEPT ![t] = "none"]
        /\ UNCHANGED <<currentGameRoomId, loop>>
        /\ activeGameRooms' =
             IF t \in DOMAIN activeGameRooms
             THEN [activeGameRooms EXCEPT ![t].gameRunning = FALSE]
             ELSE activeGameRooms
    BY <1>2 DEF ThreadEnds, ClearRunning, sessionVars
  <2>2. ASSUME NEW g \in GameRoomIds, thread'[g] # "none"
        PROVE  /\ thread[g] # "none"
               /\ g \in DOMAIN activeGameRooms => g \in DOMAIN activeGameRooms'
               /\ activeGameRooms'[g] = activeGameRooms[g]
    BY <2>1, <2>2 DEF ThreadInv
  <2>3. thread' \in [GameRoomIds -> ThreadSteps]
    BY <2>1 DEF ThreadInv, ThreadSteps
  <2> QED BY <2>1, <2>2, <2>3 DEF ThreadInv
<1> QED BY <1>1, <1>2
-----------------------------------------------------------------------------
(* Every step *)

(* A client touches nothing of the server's memory.                          *)
LEMMA ClientsLeaveTheServerAlone ==
    ASSUME NEW c \in Clients, ClientStep(c)
    PROVE  UNCHANGED <<vars, thread, loop>>
BY DEF ClientStep, PressPlay, PressRefresh, PressCreate, PressJoin, PressStart,
       PressBack, PressBackFromGame, Exit, WaitFor, AnswerFails, ListAnswered,
       CreateAnswered, JoinAnswered, StartAnswered, Answers, Update, IoReads,
       serverVars

(* server.c: whatever happens in the lobby is a step of SessionServer, whose *)
(* handlers and game threads it refines.                                     *)
THEOREM LobbyStepIsServerStep ==
    ASSUME Parts, [LobbyNext]_allVars
    PROVE  [Next]_vars
<1>1. ASSUME NEW c \in Clients, ServerStep(c)  PROVE [Next]_vars
  <2>1. CASE StopGame(c)
    <3>1. GameThreadEnds(currentGameRoomId[c])
      BY <2>1 DEF StopGame, MustStopGame, GameThreadEnds
    <3>2. currentGameRoomId[c] \in GameRoomIds
      BY <3>1 DEF GameThreadEnds, Parts, GameOK, GameTypeOK
    <3> QED BY <3>1, <3>2 DEF Next
  <2>2. ASSUME NEW g \in GameRoomIds, NEW created \in BOOLEAN,
               ServeCreate(c, g, created)
        PROVE  Next
    BY <2>2 DEF ServeCreate, Next, Request
  <2>3. CASE ServeJoin(c) \/ ServeStart(c)
    <3>1. GameRoomJoin(c, Head1(c).room) \/ GameRoomStart(c, Head1(c).room)
      BY <2>3 DEF ServeJoin, ServeStart
    <3>2. Head1(c).room \in GameRoomIds
      BY <3>1 DEF GameRoomJoin, GameRoomStart, Joinable, Parts, GameOK,
                  GameTypeOK
    <3> QED BY <3>1, <3>2 DEF Next, Request
  <2>4. CASE ServeQuit(c) \/ ServerDrops(c)
    BY <2>4 DEF ServeQuit, ServerDrops, Next, Request
  <2>5. CASE ServeList(c) \/ RefuseJoin(c) \/ IgnoreQuit(c) \/ RefuseStart(c)
    BY <2>5 DEF ServeList, RefuseJoin, IgnoreQuit, RefuseStart, serverVars
  <2> QED BY <1>1, <2>1, <2>2, <2>3, <2>4, <2>5 DEF ServerStep
<1>2. ASSUME NEW c \in Clients, ClientStep(c)  PROVE [Next]_vars
  BY <1>2, ClientsLeaveTheServerAlone
<1>3. ASSUME NEW t \in GameRoomIds,
             ThreadLoads(t) \/ GameReturns(t) \/ ThreadDestroysSdk(t)
      PROVE  [Next]_vars
  BY <1>3 DEF ThreadLoads, GameReturns, ThreadDestroysSdk, serverVars
<1>4. ASSUME NEW t \in GameRoomIds, ThreadEnds(t)  PROVE [Next]_vars
  <2>1. CASE t \in DOMAIN activeGameRooms /\ activeGameRooms[t].gameRunning
    BY <1>4, <2>1 DEF ThreadEnds, ClearRunning, GameThreadEnds, Next
  <2>2. CASE ~(t \in DOMAIN activeGameRooms /\ activeGameRooms[t].gameRunning)
    <3>1. activeGameRooms' = activeGameRooms
      BY <1>4, <2>2 DEF ThreadEnds, ClearRunning, Parts, GameOK, GameTypeOK,
                        GameRoomType
    <3> QED BY <1>4, <3>1 DEF ThreadEnds, vars, sessionVars
  <2> QED BY <2>1, <2>2
<1>5. CASE UNCHANGED allVars
  BY <1>5 DEF allVars
<1> QED BY <1>1, <1>2, <1>3, <1>4, <1>5 DEF LobbyNext

(* server.c, gameRunner.c: no handler, key, packet or step of a game thread  *)
(* breaks the agreement between the threads and the rooms.                   *)
LEMMA LobbyStepKeepsThreads ==
    ASSUME Parts, ThreadInv, [LobbyNext]_allVars
    PROVE  ThreadInv'
<1>1. ASSUME NEW c \in Clients, ServerStep(c)  PROVE ThreadInv'
  <2>1. CASE StopGame(c)
    BY <2>1, StopKeepsThreads
  <2>2. CASE ServeStart(c)
    BY <2>2, StartKeepsThreads
  <2>3. CASE ServeList(c) \/ RefuseJoin(c) \/ IgnoreQuit(c) \/ RefuseStart(c)
    <3>1. /\ loop = NoClient /\ loop' = NoClient
          /\ UNCHANGED <<thread, activeGameRooms>>
      BY <2>3 DEF ServeList, RefuseJoin, IgnoreQuit, RefuseStart, Takes,
                  Handled, serverVars, vars
    <3> QED BY <3>1, QuietHandlerOK
  <2> QED BY <1>1, <2>1, <2>2, <2>3, LeavingHandlersKeepThreads DEF ServerStep
<1>2. ASSUME NEW c \in Clients, ClientStep(c)  PROVE ThreadInv'
  BY <1>2, ClientsLeaveTheServerAlone DEF ThreadInv, vars
<1>3. CASE UNCHANGED allVars
  BY <1>3 DEF allVars, vars, lobbyVars, ThreadInv
<1> QED BY <1>1, <1>2, <1>3, ThreadStepsKeepThreads DEF LobbyNext

-----------------------------------------------------------------------------
(* Theorems *)

(* server.c, gameRunner.c: the rooms of the server and its game threads,     *)
(* whatever the clients and the streams do.                                  *)
THEOREM LobbyInvariant == LobbySpec => [](IInv /\ ThreadInv)
<1> USE SessionServerAssumption, GameLobbyAssumption
<1>1. LobbyInit => Parts /\ ThreadInv
  <2> SUFFICES ASSUME LobbyInit PROVE Parts /\ ThreadInv
    OBVIOUS
  <2> USE DEF LobbyInit
  <2>1. ChatOK(activeRooms, currentRoomId)
    BY DEF ChatOK
  <2>2. GameOK(activeGameRooms, currentGameRoomId, state, uid, gameRoomDB)
    BY DEF GameOK, GameTypeOK, InGameRoom, LoggedOut, SessionStates
  <2>3. PlaceOK(currentRoomId, currentGameRoomId, state)
    BY DEF PlaceOK
  <2>4. ThreadInv
    BY DEF ThreadInv, ThreadSteps
  <2> QED BY <2>1, <2>2, <2>3, <2>4 DEF Parts
<1>2. IInv /\ ThreadInv /\ [LobbyNext]_allVars => IInv' /\ ThreadInv'
  BY IInvIsParts, LobbyStepIsServerStep, LobbyStepKeepsThreads, StepKeepsIInv
<1> QED BY <1>1, <1>2, IInvIsParts, PTL DEF LobbySpec

(* gameRunner.c:181: no game thread uses a room that the event loop freed,   *)
(* for any number of clients, rooms and seats.                               *)
THEOREM FreedRoomsAreUnused == LobbySpec => []NoUseOfFreedRoom
<1>1. IInv /\ ThreadInv => NoUseOfFreedRoom
  BY DEF ThreadInv, NoUseOfFreedRoom
<1> QED BY <1>1, LobbyInvariant, PTL

-----------------------------------------------------------------------------
(* Members lists of the client *)

Less == {p \in Nat \X Nat : p[1] < p[2]}

(* A set of numbers that is not empty has a least one.                       *)
LEMMA LeastNumber ==
    ASSUME NEW T, T \subseteq Nat, T # {}
    PROVE  \E x \in T : \A y \in T : x <= y
<1>1. OpToRel(<, Nat) = Less
  BY DEF OpToRel, Less
<1>2. IsWellFoundedOn(Less, Nat)
  BY <1>1, NatLessThanWellFounded
<1>3. PICK x \in T : \A y \in T : <<y, x>> \notin Less
  <2> HIDE DEF Less
  <2> QED BY <1>2, WFMin
<1>4. ASSUME NEW y \in T  PROVE x <= y
  <2>1. x \in Nat /\ y \in Nat /\ <<y, x>> \notin Less
    BY <1>3
  <2>2. <<y, x>> \in Nat \X Nat /\ <<y, x>>[1] = y /\ <<y, x>>[2] = x
    BY <2>1
  <2>3. ~(y < x)
    BY <2>1, <2>2 DEF Less
  <2> QED BY <2>1, <2>3
<1> QED BY <1>4

(* clientPollNotifications: a member that is listed more than once goes from *)
(* its first place.                                                          *)
LEMMA RemoveFirstIs ==
    ASSUME NEW S, NEW s \in Seq(S), NEW e, \E i \in 1..Len(s) : s[i] = e
    PROVE  \E i \in 1..Len(s) :
              /\ s[i] = e /\ \A j \in 1..(i - 1) : s[j] # e
              /\ RemoveFirst(s, e) = SubSeq(s, 1, i - 1) \o SubSeq(s, i + 1, Len(s))
<1> DEFINE places == {i \in 1..Len(s) : s[i] = e}
<1>1. places \subseteq Nat /\ places # {}
  OBVIOUS
<1>2. \E x \in places : \A y \in places : x <= y
  BY <1>1, LeastNumber
<1>3. SelectInSeq(s, LAMBDA v : v = e) = Min(places)
  BY <1>1 DEF SelectInSeq
<1>4. Min(places) \in places /\ \A y \in places : Min(places) <= y
  BY <1>2 DEF Min
<1> DEFINE i == Min(places)
<1>5. RemoveFirst(s, e) = SubSeq(s, 1, i - 1) \o SubSeq(s, i + 1, Len(s))
  BY <1>3 DEF RemoveFirst, RemoveAt
<1>6. \A j \in 1..(i - 1) : s[j] # e
  BY <1>4
<1> QED BY <1>4, <1>5, <1>6

LEMMA RemoveFirstType ==
    ASSUME NEW S, NEW s \in Seq(S), NEW e
    PROVE  RemoveFirst(s, e) \in Seq(S)
<1>1. CASE \E i \in 1..Len(s) : s[i] = e
  <2>1. PICK i \in 1..Len(s) :
                RemoveFirst(s, e) = SubSeq(s, 1, i - 1) \o SubSeq(s, i + 1, Len(s))
    BY <1>1, RemoveFirstIs
  <2> QED BY <2>1
<1>2. CASE ~ \E i \in 1..Len(s) : s[i] = e
  BY <1>2 DEF RemoveFirst
<1> QED BY <1>1, <1>2

-----------------------------------------------------------------------------
(* What the server sends *)

(* gameRoom.c:16: nobody gets anything but the packet, and who sits in the   *)
(* room and is not c gets it.                                                *)
LEMMA BroadcastReaches ==
    ASSUME NEW S, NEW packet \in S, NEW members \in Seq(Clients), NEW c
    PROVE  /\ Broadcast(members, c, packet) \in [Clients -> Seq(S)]
           /\ \A d \in Range(members) :
                d # c => Broadcast(members, c, packet)[d] # <<>>
<1> DEFINE seats(d) == {k \in DOMAIN members : members[k] = d /\ d # c}
           n(d) == Cardinality(seats(d))
           sent == Broadcast(members, c, packet)
<1>1. DOMAIN members = 1..Len(members) /\ Len(members) \in Nat
  OBVIOUS
<1>2. ASSUME NEW d \in Clients
      PROVE  IsFiniteSet(seats(d)) /\ n(d) \in Nat /\ (seats(d) # {} => n(d) # 0)
  <2>1. IsFiniteSet(1..Len(members))
    BY <1>1, FS_Interval
  <2>2. seats(d) \subseteq 1..Len(members)
    BY <1>1
  <2>3. IsFiniteSet(seats(d))
    BY <2>1, <2>2, FS_Subset
  <2> HIDE DEF seats
  <2> QED BY <2>3, FS_CardinalityType, FS_EmptySet
<1> HIDE DEF n
<1>3. \A d \in Clients : sent[d] = [i \in 1..n(d) |-> packet]
  BY DEF Broadcast, n
<1>4. ASSUME NEW d \in Clients
      PROVE  /\ [i \in 1..n(d) |-> packet] \in Seq(S)
             /\ n(d) # 0 => [i \in 1..n(d) |-> packet] # <<>>
  <2>1. n(d) \in Nat
    BY <1>2
  <2> DEFINE s == [i \in 1..n(d) |-> packet]
  <2>2. s \in Seq(S)
    BY <2>1
  <2>3. ASSUME n(d) # 0 PROVE s # <<>>
    <3>1. Len(s) = n(d)
      BY <2>1
    <3> QED BY <2>3, <3>1
  <2> QED BY <2>2, <2>3
<1>5. sent = [d \in Clients |-> sent[d]]
  BY DEF Broadcast
<1> HIDE DEF sent
<1>6. sent \in [Clients -> Seq(S)]
  BY <1>3, <1>4, <1>5
<1>7. ASSUME NEW d \in Range(members), d # c
      PROVE  sent[d] # <<>>
  <2>1. d \in Clients /\ seats(d) # {}
    BY <1>7 DEF Range
  <2> QED BY <1>2, <1>3, <1>4, <2>1
<1> QED BY <1>6, <1>7 DEF sent

LEMMA NewsTogether ==
    ASSUME NEW S, NEW a \in [Clients -> Seq(S)], NEW b \in [Clients -> Seq(S)]
    PROVE  /\ Silence \in [Clients -> Seq(S)]
           /\ Then(a, b) \in [Clients -> Seq(S)]
           /\ \A d \in Clients : b[d] # <<>> => Then(a, b)[d] # <<>>
           /\ \A d \in Clients : a[d] # <<>> => Then(a, b)[d] # <<>>
<1>1. ASSUME NEW d \in Clients
      PROVE  /\ a[d] \o b[d] \in Seq(S)
             /\ b[d] # <<>> => a[d] \o b[d] # <<>>
             /\ a[d] # <<>> => a[d] \o b[d] # <<>>
  <2>1. PICK x \in Seq(S), y \in Seq(S) : x = a[d] /\ y = b[d]
    OBVIOUS
  <2>2. /\ x \o y \in Seq(S) /\ Len(x \o y) = Len(x) + Len(y)
        /\ Len(x) \in Nat /\ Len(y) \in Nat
    OBVIOUS
  <2>3. (y # <<>> => Len(y) # 0) /\ (x # <<>> => Len(x) # 0)
    OBVIOUS
  <2>4. x \o y = <<>> => Len(x \o y) = 0
    OBVIOUS
  <2>5. (y # <<>> => x \o y # <<>>) /\ (x # <<>> => x \o y # <<>>)
    BY <2>2, <2>3, <2>4
  <2> QED BY <2>1, <2>2, <2>5
<1> QED BY <1>1 DEF Silence, Then

LEMMA NewsTo ==
    ASSUME NEW S, NEW c \in Clients, NEW packets \in Seq(S)
    PROVE  /\ To(c, packets) \in [Clients -> Seq(S)]
           /\ To(c, packets)[c] = packets
<1>1. <<>> \in Seq(S)
  OBVIOUS
<1>2. Silence \in [Clients -> Seq(S)]
  BY <1>1 DEF Silence
<1> QED BY <1>2 DEF To

(* All packets but the answer to a creation, which names a room.             *)
PlainPackets == {p \in Packets : p.type # "CreateResp"}

LEMMA PacketsArePlain ==
    /\ ListResp \in PlainPackets /\ Dissolved \in PlainPackets
    /\ \A u \in Users : Joined(u) \in PlainPackets /\ Quitted(u) \in PlainPackets
    /\ \A us \in Seq(Users) : MembersAre(us) \in PlainPackets
    /\ \A t \in {"JoinResp", "QuitResp", "StartResp"}, ok \in BOOLEAN :
         Status(t, ok) \in PlainPackets
<1> USE DEF PlainPackets, Packets
<1>1. ListResp \in PlainPackets
  BY DEF ListResp
<1>2. Dissolved \in PlainPackets
  BY DEF Dissolved, Users
<1>3. \A u \in Users : Joined(u) \in PlainPackets
  BY DEF Joined
<1>4. \A u \in Users : Quitted(u) \in PlainPackets
  BY DEF Quitted
<1>5. \A us \in Seq(Users) : MembersAre(us) \in PlainPackets
  BY DEF MembersAre
<1>6. \A t \in {"JoinResp", "QuitResp", "StartResp"}, ok \in BOOLEAN :
        Status(t, ok) \in PlainPackets
  BY DEF Status
<1> QED BY <1>1, <1>2, <1>3, <1>4, <1>5, <1>6

(* serverRemoveClientFromGameRoom: what the others hear when c leaves.       *)
LEMMA LeaveNewsArePlain ==
    ASSUME Parts, NEW c \in Clients
    PROVE  LeaveNews(c) \in [Clients -> Seq(PlainPackets)]
<1> DEFINE g == currentGameRoomId[c]
<1>1. Silence \in [Clients -> Seq(PlainPackets)]
  <2>1. <<>> \in Seq(PlainPackets)
    OBVIOUS
  <2> QED BY <2>1 DEF Silence
<1>2. CASE g \notin DOMAIN activeGameRooms
  BY <1>1, <1>2 DEF LeaveNews
<1>3. CASE g \in DOMAIN activeGameRooms
  <2>1. activeGameRooms[g].members \in Seq(Clients)
    BY <1>3 DEF Parts, GameOK, GameTypeOK, GameRoomType, MemberList
  <2>2. RemoveFirst(activeGameRooms[g].members, c) \in Seq(Clients)
    BY <2>1, RemoveFirstType
  <2>3. uid[c] \in Users
    BY DEF Parts, GameOK, GameTypeOK, Users
  <2>4. Dissolved \in PlainPackets /\ Quitted(uid[c]) \in PlainPackets
    BY <2>3, PacketsArePlain
  <2>5. Broadcast(activeGameRooms[g].members, c, Dissolved)
          \in [Clients -> Seq(PlainPackets)]
    BY <2>1, <2>4, BroadcastReaches
  <2>6. Broadcast(RemoveFirst(activeGameRooms[g].members, c), NoClient, Quitted(uid[c]))
          \in [Clients -> Seq(PlainPackets)]
    BY <2>2, <2>4, BroadcastReaches
  <2> QED BY <1>3, <2>5, <2>6 DEF LeaveNews
<1> QED BY <1>2, <1>3

(* And when the handler itself runs.                                         *)
LEMMA NewsOfLeavingArePlain ==
    ASSUME Parts, NEW c \in Clients
    PROVE  NewsOfLeaving(c) \in [Clients -> Seq(PlainPackets)]
<1>1. <<>> \in Seq(PlainPackets)
  OBVIOUS
<1> QED BY <1>1, LeaveNewsArePlain DEF NewsOfLeaving, Silence

(* What a stream holds after something was sent.                             *)
LEMMA SentIs ==
    ASSUME LobbyTypes, NEW news \in [Clients -> Seq(Packets)], Send(news)
    PROVE  /\ inbox' \in [Clients -> Seq(Packets)]
           /\ \A d \in Clients :
                /\ ui[d].page # "gone" /\ (inbox[d] # <<>> \/ news[d] # <<>>) =>
                      inbox'[d] # <<>>
                /\ ToSet(inbox'[d]) \subseteq ToSet(inbox[d]) \cup ToSet(news[d])
<1>1. ASSUME NEW d \in Clients
      PROVE  /\ inbox'[d] \in Seq(Packets)
             /\ ui[d].page # "gone" /\ (inbox[d] # <<>> \/ news[d] # <<>>) =>
                   inbox'[d] # <<>>
             /\ ToSet(inbox'[d]) \subseteq ToSet(inbox[d]) \cup ToSet(news[d])
  <2>1. PICK x \in Seq(Packets), y \in Seq(Packets) : x = inbox[d] /\ y = news[d]
    BY DEF LobbyTypes
  <2>2. inbox'[d] = IF ui[d].page = "gone" THEN <<>> ELSE x \o y
    BY <2>1 DEF Send
  <2>3. /\ x \o y \in Seq(Packets) /\ Len(x \o y) = Len(x) + Len(y)
        /\ Len(x) \in Nat /\ Len(y) \in Nat
        /\ \A i \in 1..(Len(x) + Len(y)) :
             (x \o y)[i] = IF i <= Len(x) THEN x[i] ELSE y[i - Len(x)]
    OBVIOUS
  <2>4. (x # <<>> => Len(x) # 0) /\ (y # <<>> => Len(y) # 0) /\ Len(<<>>) = 0
    OBVIOUS
  <2>5. (x # <<>> \/ y # <<>>) => x \o y # <<>>
    BY <2>3, <2>4
  <2>6. ToSet(x \o y) \subseteq ToSet(x) \cup ToSet(y)
    <3>1. ASSUME NEW i \in 1..(Len(x) + Len(y))
          PROVE  (x \o y)[i] \in ToSet(x) \cup ToSet(y)
      <4>1. CASE i <= Len(x)
        <5>1. i \in DOMAIN x
          BY <2>3, <4>1
        <5> QED BY <2>3, <4>1, <5>1 DEF ToSet
      <4>2. CASE ~(i <= Len(x))
        <5>1. i - Len(x) \in DOMAIN y
          BY <2>3, <4>2
        <5> QED BY <2>3, <4>2, <5>1 DEF ToSet
      <4> QED BY <4>1, <4>2
    <3>2. DOMAIN (x \o y) = 1..(Len(x) + Len(y))
      BY <2>3
    <3> QED BY <3>1, <3>2 DEF ToSet
  <2>7. <<>> \in Seq(Packets) /\ ToSet(<<>>) = {}
    BY DEF ToSet
  <2> QED BY <2>1, <2>2, <2>3, <2>5, <2>6, <2>7
<1>2. inbox' = [d \in Clients |-> inbox'[d]]
  BY DEF Send
<1> QED BY <1>1, <1>2

-----------------------------------------------------------------------------
(* The handlers and what a page waits for *)

(* A handler of c has taken requests of c and sent news.                     *)
LEMMA ServedOK ==
    ASSUME LobbyInv, NEW c \in Clients,
           NEW news \in [Clients -> Seq(Packets)], Send(news),
           NEW rest \in Seq(Requests), ToSet(rest) \subseteq ToSet(out[c]),
           out' = [out EXCEPT ![c] = rest],
           UNCHANGED <<ui, client, lost>>,
           \A d \in Clients : \A p \in ToSet(news[d]) :
               p.type = "CreateResp" /\ p.room # NoRoom => OwnRoom(d, p.room)',
           \A d \in Clients, g \in GameRoomIds : OwnRoom(d, g) => OwnRoom(d, g)',
           drawn \subseteq drawn' /\ drawn' \subseteq GameRoomIds,
           DOMAIN activeGameRooms' \subseteq drawn',
           \A d \in Clients : state'[d] # "Closed" => state[d] # "Closed",
           state'[c] # "Closed" =>
               \/ news[c] # <<>>
               \/ \A i \in DOMAIN out[c] : out[c][i].kind # "Quit" =>
                      \E j \in DOMAIN rest : rest[j].kind # "Quit"
    PROVE  LobbyInv'
<1> USE DEF LobbyInv
<1>1. /\ inbox' \in [Clients -> Seq(Packets)]
      /\ \A d \in Clients :
           /\ ui[d].page # "gone" /\ (inbox[d] # <<>> \/ news[d] # <<>>) =>
                 inbox'[d] # <<>>
           /\ ToSet(inbox'[d]) \subseteq ToSet(inbox[d]) \cup ToSet(news[d])
  BY SentIs
<1>2. out \in [Clients -> Seq(Requests)]
  BY DEF LobbyTypes
<1>3. /\ out' \in [Clients -> Seq(Requests)]
      /\ out'[c] = rest /\ \A d \in Clients : d # c => out'[d] = out[d]
  BY <1>2
<1>4. LobbyTypes'
  BY <1>1, <1>3 DEF LobbyTypes
<1>5. WaitInv'
  <2>1. ASSUME NEW d \in Clients,
               ui[d].waiting # NoRequest /\ ~client[d].io /\ state'[d] # "Closed"
        PROVE  inbox'[d] # <<>> \/ \E i \in DOMAIN out'[d] : out'[d][i].kind # "Quit"
    <3>1. /\ ui[d].page # "gone"
          /\ inbox[d] # <<>> \/ \E i \in DOMAIN out[d] : out[d][i].kind # "Quit"
      BY <2>1 DEF WaitInv
    <3>2. CASE inbox[d] # <<>> \/ news[d] # <<>>
      BY <1>1, <3>1, <3>2
    <3>3. CASE inbox[d] = <<>> /\ news[d] = <<>>
      BY <1>3, <2>1, <3>1, <3>3
    <3> QED BY <3>2, <3>3
  <2>2. \A d \in Clients : ui[d].page = "gone" => ui[d].waiting = NoRequest
    BY DEF WaitInv
  <2> QED BY <2>1, <2>2 DEF WaitInv
<1>6. HostInv'
  <2>1. ASSUME NEW d \in Clients
        PROVE  /\ ui[d].host /\ ui[d].joined # NoRoom => OwnRoom(d, ui[d].joined)'
               /\ \A p \in ToSet(inbox'[d]) :
                    p.type = "CreateResp" /\ p.room # NoRoom => OwnRoom(d, p.room)'
               /\ \A q \in ToSet(out'[d]) : q.kind = "Start" => OwnRoom(d, q.room)'
    <3>0. \A g : OwnRoom(d, g) => OwnRoom(d, g)'
      <4>1. \A g : OwnRoom(d, g) => g \in GameRoomIds
        BY DEF OwnRoom, LobbyTypes
      <4> QED BY <4>1
    <3>1. ui[d].host /\ ui[d].joined # NoRoom => OwnRoom(d, ui[d].joined)'
      <4>1. ui[d].host /\ ui[d].joined # NoRoom => OwnRoom(d, ui[d].joined)
        BY DEF HostInv
      <4> QED BY <3>0, <4>1 DEF OwnRoom
    <3>2. ASSUME NEW p \in ToSet(inbox'[d]), p.type = "CreateResp", p.room # NoRoom
          PROVE  OwnRoom(d, p.room)'
      <4>1. CASE p \in ToSet(news[d])
        BY <3>2, <4>1
      <4>2. CASE p \in ToSet(inbox[d])
        <5>1. OwnRoom(d, p.room)
          BY <3>2, <4>2 DEF HostInv
        <5> QED BY <3>0, <5>1
      <4> QED BY <1>1, <4>1, <4>2
    <3>3. ASSUME NEW q \in ToSet(out'[d]), q.kind = "Start"
          PROVE  OwnRoom(d, q.room)'
      <4>1. q \in ToSet(out[d])
        BY <1>3
      <4>2. OwnRoom(d, q.room)
        BY <3>3, <4>1 DEF HostInv
      <4> QED BY <3>0, <4>2
    <3> QED BY <3>1, <3>2, <3>3
  <2> QED BY <2>1 DEF HostInv
<1> QED BY <1>4, <1>5, <1>6

(* The requests left after the first one is taken.                           *)
LEMMA TakenIs ==
    ASSUME NEW s \in Seq(Requests), s # <<>>
    PROVE  /\ Tail(s) \in Seq(Requests)
           /\ Head(s) \in ToSet(s)
           /\ ToSet(Tail(s)) \subseteq ToSet(s)
           /\ Head(s).kind = "Quit" =>
                \A i \in DOMAIN s : s[i].kind # "Quit" =>
                    \E j \in DOMAIN Tail(s) : Tail(s)[j].kind # "Quit"
<1>1. /\ Tail(s) \in Seq(Requests) /\ Len(Tail(s)) = Len(s) - 1
      /\ Len(s) \in Nat /\ Len(s) # 0 /\ Head(s) = s[1]
      /\ \A i \in 1..(Len(s) - 1) : Tail(s)[i] = s[i + 1]
  OBVIOUS
<1>2. DOMAIN s = 1..Len(s) /\ DOMAIN Tail(s) = 1..(Len(s) - 1)
  BY <1>1
<1>3. Head(s) \in ToSet(s)
  <2>1. 1 \in DOMAIN s
    BY <1>1, <1>2
  <2> QED BY <1>1, <2>1 DEF ToSet
<1>4. ToSet(Tail(s)) \subseteq ToSet(s)
  <2>1. \A i \in DOMAIN Tail(s) : Tail(s)[i] = s[i + 1] /\ i + 1 \in DOMAIN s
    BY <1>1, <1>2
  <2> QED BY <2>1 DEF ToSet
<1>5. ASSUME Head(s).kind = "Quit", NEW i \in DOMAIN s, s[i].kind # "Quit"
      PROVE  \E j \in DOMAIN Tail(s) : Tail(s)[j].kind # "Quit"
  <2>1. i # 1
    BY <1>1, <1>5
  <2>2. i - 1 \in DOMAIN Tail(s) /\ Tail(s)[i - 1] = s[i]
    BY <1>1, <1>2, <2>1
  <2> QED BY <1>5, <2>2
<1> QED BY <1>1, <1>3, <1>4, <1>5

LEMMA PlainNews ==
    ASSUME NEW news \in [Clients -> Seq(PlainPackets)]
    PROVE  /\ news \in [Clients -> Seq(Packets)]
           /\ \A d \in Clients : \A p \in ToSet(news[d]) : p.type # "CreateResp"
<1>1. ASSUME NEW s \in Seq(PlainPackets)
      PROVE  s \in Seq(Packets) /\ \A p \in ToSet(s) : p.type # "CreateResp"
  <2>1. \A i \in 1..Len(s) : s[i] \in Packets /\ s[i].type # "CreateResp"
    BY DEF PlainPackets
  <2>2. s \in [1..Len(s) -> Packets] /\ Len(s) \in Nat /\ DOMAIN s = 1..Len(s)
    BY <2>1
  <2>3. s \in Seq(Packets)
    BY <2>2
  <2> QED BY <2>1, <2>2, <2>3 DEF ToSet
<1> QED BY <1>1

(* A handler of c takes one request and answers it, unless it is a quit.     *)
LEMMA HandledOK ==
    ASSUME LobbyInv, NEW c \in Clients, out[c] # <<>>, Handled(c),
           NEW news \in [Clients -> Seq(Packets)], Send(news),
           \A d \in Clients : \A p \in ToSet(news[d]) :
               p.type = "CreateResp" /\ p.room # NoRoom => OwnRoom(d, p.room)',
           \A d \in Clients, g \in GameRoomIds : OwnRoom(d, g) => OwnRoom(d, g)',
           drawn \subseteq drawn' /\ drawn' \subseteq GameRoomIds,
           DOMAIN activeGameRooms' \subseteq drawn',
           \A d \in Clients : state'[d] # "Closed" => state[d] # "Closed",
           Head1(c).kind = "Quit" \/ news[c] # <<>>
    PROVE  LobbyInv'
<1>1. PICK rest : rest = Tail(out[c])
  OBVIOUS
<1>2. out[c] \in Seq(Requests)
  BY DEF LobbyInv, LobbyTypes
<1>3. /\ rest \in Seq(Requests) /\ ToSet(rest) \subseteq ToSet(out[c])
      /\ Head1(c).kind = "Quit" =>
           \A i \in DOMAIN out[c] : out[c][i].kind # "Quit" =>
               \E j \in DOMAIN rest : rest[j].kind # "Quit"
  BY <1>1, <1>2, TakenIs DEF Head1
<1>4. out' = [out EXCEPT ![c] = rest] /\ UNCHANGED <<ui, client, lost>>
  BY <1>1 DEF Handled
<1> QED BY <1>3, <1>4, ServedOK

(* The handlers that leave the rooms alone.                                  *)
LEMMA QuietHandledOK ==
    ASSUME LobbyInv, NEW c \in Clients, out[c] # <<>>, Handled(c),
           NEW news \in [Clients -> Seq(PlainPackets)], Send(news),
           UNCHANGED <<serverVars, drawn>>,
           Head1(c).kind = "Quit" \/ news[c] # <<>>
    PROVE  LobbyInv'
<1>1. UNCHANGED <<activeGameRooms, currentGameRoomId, uid, state, drawn>>
  BY DEF serverVars, vars
<1>2. \A d \in Clients, g \in GameRoomIds : OwnRoom(d, g) => OwnRoom(d, g)'
  BY <1>1 DEF OwnRoom
<1>3. /\ news \in [Clients -> Seq(Packets)]
      /\ \A d \in Clients : \A p \in ToSet(news[d]) : p.type # "CreateResp"
  BY PlainNews
<1>4. /\ drawn \subseteq drawn' /\ drawn' \subseteq GameRoomIds
      /\ DOMAIN activeGameRooms' \subseteq drawn'
      /\ \A d \in Clients : state'[d] # "Closed" => state[d] # "Closed"
  BY <1>1 DEF LobbyInv, LobbyTypes, HostInv
<1> QED BY <1>2, <1>3, <1>4, HandledOK

(* serverRemoveClientFromGameRoom: who made a room that is still there when  *)
(* c has left is not c, and is still in it.                                  *)
LEMMA LeavingKeepsOwn ==
    ASSUME Parts, NEW c \in Clients, NEW v, v = LeaveGameRoom(c),
           NEW d \in Clients, NEW g \in DOMAIN v.rooms, OwnRoom(d, g)
    PROVE  d # c /\ v.ids[d] = g /\ v.rooms[g].hostUid = uid[d]
<1>1. /\ g \in DOMAIN activeGameRooms
      /\ v.rooms[g].hostUid = activeGameRooms[g].hostUid
      /\ Closes(c) => g # currentGameRoomId[c]
      /\ d # c => v.ids[d] = IF Closes(c) /\ currentGameRoomId[d] = currentGameRoomId[c]
                             THEN NoRoom ELSE currentGameRoomId[d]
  BY LeavingShape
<1>2. currentGameRoomId[d] = g /\ activeGameRooms[g].hostUid = uid[d]
  BY <1>1 DEF OwnRoom
<1>3. g # NoRoom
  BY <1>1, SessionServerAssumption DEF Parts, GameOK, GameTypeOK
<1>4. d # c
  BY <1>1, <1>2, <1>3 DEF Closes
<1> QED BY <1>1, <1>2, <1>4

(* serverHandleGameRoomCreate: the answer names a room that is c's own.      *)
LEMMA CreateHandled ==
    ASSUME Parts, LobbyInv, NEW c \in Clients, NEW g \in GameRoomIds,
           NEW created \in BOOLEAN, ServeCreate(c, g, created)
    PROVE  LobbyInv'
<1> USE SessionServerAssumption
<1>1. PICK v : v = LeaveGameRoom(c)
  OBVIOUS
<1>2. PICK away : away = NewsOfLeaving(c)
  OBVIOUS
<1>3. PICK answer : answer = CreateResp(IF created THEN g ELSE NoRoom)
  OBVIOUS
<1>4. /\ out[c] # <<>> /\ Handled(c) /\ g \notin drawn
      /\ drawn' = IF created THEN drawn \cup {g} ELSE drawn
      /\ Send(Then(away, To(c, <<answer>>)))
      /\ GameRoomCreate(c, g, created)
  BY <1>2, <1>3, Zenon DEF ServeCreate, Takes
<1>5. /\ DOMAIN v.rooms \subseteq DOMAIN activeGameRooms
      /\ LeftGameRoom(c, v)
  BY <1>1, LeavingShape, LeaveGameRoomOK DEF Parts, CurrentGameOK
<1>6. DOMAIN activeGameRooms \subseteq drawn /\ drawn \subseteq GameRoomIds
  BY DEF LobbyInv, LobbyTypes, HostInv
<1>7. /\ g \notin DOMAIN v.rooms /\ uid' = uid
      /\ activeGameRooms' =
           IF created
           THEN Put(v.rooms, g, [hostUid |-> uid[c], members |-> Append(<<>>, c),
                                 state |-> "GameRoomLobby", gameRunning |-> FALSE])
           ELSE v.rooms
      /\ currentGameRoomId' = IF created THEN [v.ids EXCEPT ![c] = g] ELSE v.ids
      /\ state' = IF created THEN [v.state EXCEPT ![c] = "SessionGameRoomLobby"]
                  ELSE v.state
  <2>1. g \notin DOMAIN v.rooms
    BY <1>4, <1>5, <1>6
  <2> DEFINE fresh == [hostUid |-> uid[c], members |-> <<>>,
                       state |-> "GameRoomLobby", gameRunning |-> FALSE]
             room  == IF g \in DOMAIN v.rooms THEN v.rooms[g] ELSE fresh
             more  == [room EXCEPT !.members = Append(@, c)]
  <2>2. /\ uid' = uid
        /\ activeGameRooms' = IF created THEN Put(v.rooms, g, more) ELSE v.rooms
        /\ currentGameRoomId' = IF created THEN [v.ids EXCEPT ![c] = g] ELSE v.ids
        /\ state' = IF created THEN [v.state EXCEPT ![c] = "SessionGameRoomLobby"]
                    ELSE v.state
    BY <1>1, <1>4, Zenon DEF GameRoomCreate
  <2>3. room = fresh
    BY <2>1
  <2>4. more = [hostUid |-> uid[c], members |-> Append(<<>>, c),
                state |-> "GameRoomLobby", gameRunning |-> FALSE]
    <3>1. more = [fresh EXCEPT !.members = Append(@, c)]
      <4> HIDE DEF fresh, room
      <4> QED BY <2>3, Zenon
    <3> HIDE DEF more
    <3> QED BY <3>1
  <2> HIDE DEF more
  <2> QED BY <2>1, <2>2, <2>4
<1>8. /\ v.ids \in [Clients -> GameRoomIds \cup {NoRoom}]
      /\ v.state \in [Clients -> SessionStates]
      /\ \A d \in Clients :
           v.state[d] = state[d] \/ (state[d] \in InGameRoom /\ v.state[d] = "SessionRoom")
  BY <1>5 DEF LeftGameRoom, GameOK, GameTypeOK
<1>9. \A d \in Clients, h \in GameRoomIds : OwnRoom(d, h) => OwnRoom(d, h)'
  <2>1. ASSUME NEW d \in Clients, NEW h \in GameRoomIds, OwnRoom(d, h)
        PROVE  OwnRoom(d, h)'
    <3>1. h \in drawn /\ h \in drawn'
      BY <1>4, <2>1 DEF OwnRoom
    <3>2. ASSUME h \in DOMAIN activeGameRooms'
          PROVE  currentGameRoomId'[d] = h /\ activeGameRooms'[h].hostUid = uid'[d]
      <4>1. h # g
        BY <1>4, <3>1
      <4>2. h \in DOMAIN v.rooms
        BY <1>7, <3>2, <4>1 DEF Put
      <4>3. d # c /\ v.ids[d] = h /\ v.rooms[h].hostUid = uid[d]
        BY <1>1, <2>1, <4>2, LeavingKeepsOwn
      <4>4. activeGameRooms'[h] = v.rooms[h]
        BY <1>7, <4>1, <4>2 DEF Put
      <4>5. currentGameRoomId'[d] = v.ids[d]
        BY <1>7, <1>8, <4>3
      <4> QED BY <1>7, <4>3, <4>4, <4>5
    <3> QED BY <3>1, <3>2 DEF OwnRoom
  <2> QED BY <2>1
<1>10. created => OwnRoom(c, g)'
  <2>1. ASSUME created
        PROVE  /\ g \in drawn' /\ currentGameRoomId'[c] = g
               /\ activeGameRooms'[g].hostUid = uid'[c]
    <3>1. currentGameRoomId'[c] = g
      BY <1>7, <1>8, <2>1
    <3>2. activeGameRooms'[g].hostUid = uid[c]
      BY <1>7, <2>1 DEF Put
    <3> QED BY <1>4, <1>7, <2>1, <3>1, <3>2
  <2> QED BY <2>1 DEF OwnRoom
<1>11. PICK news : news = Then(away, To(c, <<answer>>))
  OBVIOUS
<1>12. /\ news \in [Clients -> Seq(Packets)] /\ news[c] # <<>>
       /\ \A d \in Clients : \A p \in ToSet(news[d]) :
            p.type = "CreateResp" => d = c /\ p = answer
  <2>1. away \in [Clients -> Seq(PlainPackets)]
    BY <1>2, NewsOfLeavingArePlain
  <2>2. /\ away \in [Clients -> Seq(Packets)]
        /\ \A d \in Clients : \A p \in ToSet(away[d]) : p.type # "CreateResp"
    BY <2>1, PlainNews
  <2>3. answer \in Packets /\ <<answer>> \in Seq(Packets) /\ <<answer>> # <<>>
    <3>1. answer \in Packets
      BY <1>3 DEF CreateResp, Packets
    <3> QED BY <3>1
  <2>4. PICK mine : mine = To(c, <<answer>>)
    OBVIOUS
  <2>5. mine \in [Clients -> Seq(Packets)] /\ mine[c] = <<answer>>
    <3>1. PICK packets \in Seq(Packets) : packets = <<answer>>
      BY <2>3
    <3>2. mine = To(c, packets)
      BY <2>4, <3>1
    <3>3. mine \in [Clients -> Seq(Packets)] /\ mine[c] = packets
      BY <3>2, NewsTo
    <3> QED BY <3>1, <3>3
  <2>6. news = Then(away, mine)
    BY <1>11, <2>4
  <2>7. news \in [Clients -> Seq(Packets)] /\ news[c] # <<>>
    BY <2>2, <2>3, <2>5, <2>6, NewsTogether
  <2>8. \A d \in Clients : mine[d] = IF d = c THEN <<answer>> ELSE <<>>
    BY <2>4 DEF To, Silence
  <2>9. ASSUME NEW d \in Clients, NEW p \in ToSet(news[d]), p.type = "CreateResp"
        PROVE  d = c /\ p = answer
    <3>1. PICK x \in Seq(Packets) : x = away[d] /\ \A q \in ToSet(x) : q.type # "CreateResp"
      BY <2>2
    <3>2. CASE d = c
      <4>1. news[d] = x \o <<answer>>
        BY <2>6, <2>8, <3>1, <3>2 DEF Then
      <4>2. /\ DOMAIN (x \o <<answer>>) = 1..(Len(x) + 1)
            /\ \A i \in 1..Len(x) : (x \o <<answer>>)[i] = x[i]
            /\ (x \o <<answer>>)[Len(x) + 1] = answer
            /\ Len(x) \in Nat /\ DOMAIN x = 1..Len(x)
        BY <2>3
      <4>3. PICK i \in 1..(Len(x) + 1) : p = (x \o <<answer>>)[i]
        BY <2>9, <4>1, <4>2 DEF ToSet
      <4>4. CASE i \in 1..Len(x)
        <5>1. p \in ToSet(x)
          BY <4>2, <4>3, <4>4 DEF ToSet
        <5> QED BY <2>9, <3>1, <5>1
      <4>5. CASE i = Len(x) + 1
        BY <3>2, <4>2, <4>3, <4>5
      <4> QED BY <4>2, <4>4, <4>5
    <3>3. CASE d # c
      <4>1. news[d] = x \o <<>>
        BY <2>6, <2>8, <3>1, <3>3 DEF Then
      <4>2. news[d] = x
        BY <4>1
      <4> QED BY <2>9, <3>1, <4>2
    <3> QED BY <3>2, <3>3
  <2> QED BY <2>7, <2>9
<1>13. \A d \in Clients : \A p \in ToSet(news[d]) :
         p.type = "CreateResp" /\ p.room # NoRoom => OwnRoom(d, p.room)'
  <2>1. answer.room = IF created THEN g ELSE NoRoom
    BY <1>3 DEF CreateResp
  <2>2. ASSUME NEW d \in Clients, NEW p \in ToSet(news[d]),
               p.type = "CreateResp", p.room # NoRoom
        PROVE  OwnRoom(d, p.room)'
    <3>1. d = c /\ p = answer
      BY <1>12, <2>2
    <3>2. created /\ p.room = g
      BY <2>1, <2>2, <3>1
    <3> QED BY <1>10, <3>1, <3>2
  <2> QED BY <2>2
<1>14. /\ drawn \subseteq drawn' /\ drawn' \subseteq GameRoomIds
       /\ DOMAIN activeGameRooms' \subseteq drawn'
  BY <1>4, <1>5, <1>6, <1>7 DEF Put
<1>15. \A d \in Clients : state'[d] # "Closed" => state[d] # "Closed"
  <2>1. state[c] # "Closed"
    BY DEF ServeCreate, Takes
  <2> QED BY <1>7, <1>8, <2>1 DEF InGameRoom
<1>16. Send(news)
  BY <1>4, <1>11
<1> QED BY <1>4, <1>9, <1>12, <1>13, <1>14, <1>15, <1>16, HandledOK

(* A handler in which c leaves its room and makes none.                      *)
LEMMA LeavingKeepsHosts ==
    ASSUME Parts, LobbyInv, NEW c \in Clients, state[c] # "Closed",
           NEW v, v = LeaveGameRoom(c), drawn' = drawn,
           DOMAIN activeGameRooms' = DOMAIN v.rooms,
           \A h \in DOMAIN v.rooms :
               activeGameRooms'[h].hostUid = v.rooms[h].hostUid,
           \A d \in Clients \ {c} : /\ currentGameRoomId'[d] = v.ids[d]
                                    /\ uid'[d] = uid[d]
                                    /\ state'[d] = v.state[d]
    PROVE  /\ \A d \in Clients, g \in GameRoomIds : OwnRoom(d, g) => OwnRoom(d, g)'
           /\ drawn \subseteq drawn' /\ drawn' \subseteq GameRoomIds
           /\ DOMAIN activeGameRooms' \subseteq drawn'
           /\ \A d \in Clients : state'[d] # "Closed" => state[d] # "Closed"
<1>1. ASSUME NEW d \in Clients, NEW g \in GameRoomIds, OwnRoom(d, g)
      PROVE  OwnRoom(d, g)'
  <2>1. g \in drawn'
    BY <1>1 DEF OwnRoom
  <2>2. ASSUME g \in DOMAIN activeGameRooms'
        PROVE  currentGameRoomId'[d] = g /\ activeGameRooms'[g].hostUid = uid'[d]
    <3>1. g \in DOMAIN v.rooms
      BY <2>2
    <3>2. d # c /\ v.ids[d] = g /\ v.rooms[g].hostUid = uid[d]
      BY <1>1, <3>1, LeavingKeepsOwn
    <3> QED BY <3>1, <3>2
  <2> QED BY <2>1, <2>2 DEF OwnRoom
<1>2. DOMAIN v.rooms \subseteq DOMAIN activeGameRooms /\ LeftGameRoom(c, v)
  BY LeavingShape, LeaveGameRoomOK DEF Parts, CurrentGameOK
<1>3. DOMAIN activeGameRooms \subseteq drawn /\ drawn \subseteq GameRoomIds
  BY DEF LobbyInv, LobbyTypes, HostInv
<1>4. \A d \in Clients : state'[d] # "Closed" => state[d] # "Closed"
  BY <1>2 DEF LeftGameRoom, InGameRoom
<1> QED BY <1>1, <1>2, <1>3, <1>4

(* serverHandleGameRoomQuit, and clientDisconnect, a session that ends.      *)
LEMMA QuitAndDropHandled ==
    ASSUME Parts, LobbyInv, NEW c \in Clients, ServeQuit(c) \/ ServerDrops(c)
    PROVE  LobbyInv'
<1>1. PICK v : v = LeaveGameRoom(c)
  OBVIOUS
<1>2. PICK away : away = NewsOfLeaving(c)
  OBVIOUS
<1>3. away \in [Clients -> Seq(PlainPackets)]
  BY <1>2, NewsOfLeavingArePlain
<1>4. GameOK(v.rooms, v.ids, v.state, uid, v.rows)
  BY <1>1, LeaveGameRoomOK DEF LeftGameRoom, Parts, CurrentGameOK
<1>5. /\ v.state \in [Clients -> SessionStates]
      /\ uid \in [Clients -> Uids \cup {NoUid}]
  BY <1>4 DEF GameOK, GameTypeOK
<1>6. CASE ServeQuit(c)
  <2>1. /\ out[c] # <<>> /\ state[c] # "Closed" /\ Head1(c).kind = "Quit"
        /\ Handled(c) /\ drawn' = drawn /\ GameRoomQuit(c)
        /\ Send(Then(away, To(c, <<Status("QuitResp", TRUE)>>)))
    BY <1>2, <1>6, Zenon DEF ServeQuit, Takes
  <2>2. /\ activeGameRooms' = v.rooms /\ currentGameRoomId' = v.ids
        /\ state' = v.state /\ uid' = uid
    BY <1>1, <2>1, Zenon DEF GameRoomQuit
  <2>3. /\ \A d \in Clients, g \in GameRoomIds : OwnRoom(d, g) => OwnRoom(d, g)'
        /\ drawn \subseteq drawn' /\ drawn' \subseteq GameRoomIds
        /\ DOMAIN activeGameRooms' \subseteq drawn'
        /\ \A d \in Clients : state'[d] # "Closed" => state[d] # "Closed"
    BY <1>1, <2>1, <2>2, LeavingKeepsHosts
  <2>4. PICK news : news = Then(away, To(c, <<Status("QuitResp", TRUE)>>))
    OBVIOUS
  <2>5. news \in [Clients -> Seq(PlainPackets)]
    <3>1. PICK packets \in Seq(PlainPackets) : packets = <<Status("QuitResp", TRUE)>>
      <4>1. PICK p \in PlainPackets : p = Status("QuitResp", TRUE)
        BY PacketsArePlain
      <4>2. <<p>> \in Seq(PlainPackets)
        OBVIOUS
      <4> QED BY <4>1, <4>2
    <3>2. PICK mine \in [Clients -> Seq(PlainPackets)] : mine = To(c, packets)
      BY NewsTo
    <3>3. news = Then(away, mine)
      BY <2>4, <3>1, <3>2
    <3> QED BY <1>3, <3>3, NewsTogether
  <2>6. Send(news)
    BY <2>1, <2>4
  <2> QED BY <2>1, <2>3, <2>5, <2>6, PlainNews, HandledOK
<1>7. CASE ServerDrops(c)
  <2>1. /\ DropClient(c) /\ Send(away) /\ drawn' = drawn
        /\ out' = [out EXCEPT ![c] = <<>>]
        /\ UNCHANGED <<ui, client, lost>>
    BY <1>2, <1>7, Zenon DEF ServerDrops
  <2>2. /\ state[c] # "Closed"
        /\ activeGameRooms' = v.rooms /\ currentGameRoomId' = v.ids
        /\ state' = [v.state EXCEPT ![c] = "Closed"]
        /\ uid' = [uid EXCEPT ![c] = NoUid]
    BY <1>1, <2>1, Zenon DEF DropClient, ClientDisconnect
  <2>3. /\ \A d \in Clients \ {c} : uid'[d] = uid[d] /\ state'[d] = v.state[d]
        /\ state'[c] = "Closed"
    BY <1>5, <2>2
  <2>4. /\ \A d \in Clients, g \in GameRoomIds : OwnRoom(d, g) => OwnRoom(d, g)'
        /\ drawn \subseteq drawn' /\ drawn' \subseteq GameRoomIds
        /\ DOMAIN activeGameRooms' \subseteq drawn'
        /\ \A d \in Clients : state'[d] # "Closed" => state[d] # "Closed"
    BY <1>1, <2>1, <2>2, <2>3, LeavingKeepsHosts
  <2>5. PICK rest \in Seq(Requests) : rest = <<>>
    <3>1. <<>> \in Seq(Requests)
      OBVIOUS
    <3> QED BY <3>1
  <2>6. ToSet(rest) \subseteq ToSet(out[c])
    BY <2>5 DEF ToSet
  <2> QED BY <1>3, <2>1, <2>3, <2>4, <2>5, <2>6, PlainNews, ServedOK
<1> QED BY <1>6, <1>7

(* serverHandleGameRoomJoin past its tests.                                  *)
LEMMA JoinHandled ==
    ASSUME Parts, LobbyInv, NEW c \in Clients, ServeJoin(c)
    PROVE  LobbyInv'
<1>1. PICK v : v = LeaveGameRoom(c)
  OBVIOUS
<1>2. PICK away : away = NewsOfLeaving(c)
  OBVIOUS
<1>3. away \in [Clients -> Seq(PlainPackets)]
  BY <1>2, NewsOfLeavingArePlain
<1>4. PICK g : g = Head1(c).room
  OBVIOUS
<1>5. PICK at : at = activeGameRooms'[g].members
  OBVIOUS
<1>6. PICK no : no = To(c, <<Status("JoinResp", FALSE)>>)
  OBVIOUS
<1>7. PICK yes : yes = To(c, <<Status("JoinResp", TRUE),
                               MembersAre([i \in DOMAIN at |-> uid[at[i]]])>>)
  OBVIOUS
<1>8. PICK others : others = Broadcast(at, c, Joined(uid[c]))
  OBVIOUS
<1>9. PICK ok \in BOOLEAN : ok = Joinable(v.rooms, g)
  BY DEF Joinable
<1>10. PICK mine : mine = IF ~ok THEN no ELSE Then(yes, others)
  OBVIOUS
<1>11. /\ out[c] # <<>> /\ state[c] # "Closed" /\ Handled(c) /\ drawn' = drawn
       /\ GameRoomJoin(c, g) /\ Send(Then(away, mine))
  <2>1. /\ Takes(c, "Join") /\ Handled(c) /\ drawn' = drawn /\ GameRoomJoin(c, g)
    BY <1>4, Zenon DEF ServeJoin
  <2>2. Send(Then(away, mine))
    BY <1>1, <1>2, <1>4, <1>5, <1>6, <1>7, <1>8, <1>9, <1>10, Zenon DEF ServeJoin
  <2> QED BY <2>1, <2>2 DEF Takes
<1>12. /\ activeGameRooms' = IF ok THEN [v.rooms EXCEPT ![g].members = Append(@, c)]
                             ELSE v.rooms
       /\ currentGameRoomId' = IF ok THEN [v.ids EXCEPT ![c] = g] ELSE v.ids
       /\ state' = IF ok THEN [v.state EXCEPT ![c] = "SessionGameRoomLobby"]
                   ELSE v.state
       /\ uid' = uid
  BY <1>1, <1>9, <1>11, Zenon DEF GameRoomJoin
<1>13. GameOK(v.rooms, v.ids, v.state, uid, v.rows)
  BY <1>1, LeaveGameRoomOK DEF LeftGameRoom, Parts, CurrentGameOK
<1>14. /\ v.rooms \in [DOMAIN v.rooms -> GameRoomType]
       /\ v.ids \in [Clients -> GameRoomIds \cup {NoRoom}]
       /\ v.state \in [Clients -> SessionStates]
       /\ \A d \in Clients : uid[d] \in Users
  BY <1>13 DEF GameOK, GameTypeOK, Users
<1>15. ok => g \in DOMAIN v.rooms
  BY <1>9 DEF Joinable
<1>16. /\ \A d \in Clients, h \in GameRoomIds : OwnRoom(d, h) => OwnRoom(d, h)'
       /\ drawn \subseteq drawn' /\ drawn' \subseteq GameRoomIds
       /\ DOMAIN activeGameRooms' \subseteq drawn'
       /\ \A d \in Clients : state'[d] # "Closed" => state[d] # "Closed"
  <2>1. /\ DOMAIN activeGameRooms' = DOMAIN v.rooms
        /\ \A h \in DOMAIN v.rooms :
             activeGameRooms'[h].hostUid = v.rooms[h].hostUid
    BY <1>12, <1>14, <1>15 DEF GameRoomType
  <2>2. \A d \in Clients \ {c} : /\ currentGameRoomId'[d] = v.ids[d]
                                 /\ uid'[d] = uid[d]
                                 /\ state'[d] = v.state[d]
    BY <1>12, <1>14
  <2> QED BY <1>1, <1>11, <2>1, <2>2, LeavingKeepsHosts
<1>17. no \in [Clients -> Seq(PlainPackets)] /\ no[c] # <<>>
  <2>1. PICK packets \in Seq(PlainPackets) :
               packets = <<Status("JoinResp", FALSE)>> /\ packets # <<>>
    <3>1. PICK p \in PlainPackets : p = Status("JoinResp", FALSE)
      BY PacketsArePlain
    <3>2. <<p>> \in Seq(PlainPackets) /\ <<p>> # <<>>
      OBVIOUS
    <3> QED BY <3>1, <3>2
  <2>2. no = To(c, packets)
    BY <1>6, <2>1
  <2>3. no \in [Clients -> Seq(PlainPackets)] /\ no[c] = packets
    BY <2>2, NewsTo
  <2> QED BY <2>1, <2>3
<1>18. ASSUME ok
       PROVE  Then(yes, others) \in [Clients -> Seq(PlainPackets)]
              /\ Then(yes, others)[c] # <<>>
  <2>1. at \in Seq(Clients)
    <3>1. at = Append(v.rooms[g].members, c)
      BY <1>5, <1>12, <1>14, <1>15, <1>18 DEF GameRoomType
    <3>2. v.rooms[g].members \in Seq(Clients)
      BY <1>14, <1>15, <1>18 DEF GameRoomType, MemberList
    <3> QED BY <3>1, <3>2
  <2>2. [i \in DOMAIN at |-> uid[at[i]]] \in Seq(Users)
    <3>1. /\ Len(at) \in Nat /\ DOMAIN at = 1..Len(at)
          /\ \A i \in 1..Len(at) : at[i] \in Clients
      BY <2>1
    <3>2. [i \in 1..Len(at) |-> uid[at[i]]] \in Seq(Users)
      BY <1>14, <3>1
    <3> QED BY <3>1, <3>2
  <2>3. PICK packets \in Seq(PlainPackets) :
               /\ packets = <<Status("JoinResp", TRUE),
                              MembersAre([i \in DOMAIN at |-> uid[at[i]]])>>
               /\ packets # <<>>
    <3>1. PICK p \in PlainPackets : p = Status("JoinResp", TRUE)
      BY PacketsArePlain
    <3>2. PICK q \in PlainPackets : q = MembersAre([i \in DOMAIN at |-> uid[at[i]]])
      BY <2>2, PacketsArePlain
    <3>3. <<p, q>> \in Seq(PlainPackets) /\ <<p, q>> # <<>>
      OBVIOUS
    <3> QED BY <3>1, <3>2, <3>3
  <2>4. yes = To(c, packets)
    BY <1>7, <2>3
  <2>5. yes \in [Clients -> Seq(PlainPackets)] /\ yes[c] # <<>>
    <3>1. yes \in [Clients -> Seq(PlainPackets)] /\ yes[c] = packets
      BY <2>4, NewsTo
    <3> QED BY <2>3, <3>1
  <2>6. others \in [Clients -> Seq(PlainPackets)]
    <3>1. PICK p \in PlainPackets : p = Joined(uid[c])
      BY <1>14, PacketsArePlain
    <3>2. others = Broadcast(at, c, p)
      BY <1>8, <3>1
    <3> QED BY <2>1, <3>2, BroadcastReaches
  <2> QED BY <2>5, <2>6, NewsTogether
<1>19. mine \in [Clients -> Seq(PlainPackets)] /\ mine[c] # <<>>
  BY <1>10, <1>17, <1>18
<1>20. PICK news : news = Then(away, mine)
  OBVIOUS
<1>21. news \in [Clients -> Seq(PlainPackets)] /\ news[c] # <<>>
  BY <1>3, <1>19, <1>20, NewsTogether
<1>22. Send(news)
  BY <1>11, <1>20
<1> QED BY <1>11, <1>16, <1>21, <1>22, PlainNews, HandledOK

(* serverHandleGameRoomStart: who starts a game made its room and is among   *)
(* those who hear of it.                                                     *)
LEMMA StartHandled ==
    ASSUME Parts, LobbyInv, NEW c \in Clients, ServeStart(c)
    PROVE  LobbyInv'
<1>1. PICK g : g = Head1(c).room
  OBVIOUS
<1>2. PICK p \in PlainPackets : p = Status("StartResp", TRUE)
  BY PacketsArePlain
<1>3. PICK news : news = Broadcast(activeGameRooms[g].members, NoClient, p)
  OBVIOUS
<1>4. /\ out[c] # <<>> /\ Head1(c).kind = "Start" /\ Handled(c) /\ drawn' = drawn
      /\ Send(news) /\ GameRoomStart(c, g)
  BY <1>1, <1>2, <1>3, Zenon DEF ServeStart, Takes
<1>5. /\ g \in DOMAIN activeGameRooms
      /\ activeGameRooms' = [activeGameRooms EXCEPT ![g].state = "GameRoomPlaying",
                                                    ![g].gameRunning = TRUE]
      /\ state' = [d \in Clients |-> IF d \in Range(activeGameRooms[g].members)
                                     THEN "SessionGameRoomPlay" ELSE state[d]]
      /\ UNCHANGED <<uid, currentGameRoomId>>
  BY <1>4 DEF GameRoomStart
<1>6. /\ activeGameRooms \in [DOMAIN activeGameRooms -> GameRoomType]
      /\ activeGameRooms[g].members \in Seq(Clients)
  BY <1>5 DEF Parts, GameOK, GameTypeOK, GameRoomType, MemberList
<1>7. /\ DOMAIN activeGameRooms' = DOMAIN activeGameRooms
      /\ \A h \in DOMAIN activeGameRooms :
           activeGameRooms'[h].hostUid = activeGameRooms[h].hostUid
  BY <1>5, <1>6 DEF GameRoomType
<1>8. \A d \in Clients, h \in GameRoomIds : OwnRoom(d, h) => OwnRoom(d, h)'
  BY <1>4, <1>5, <1>7 DEF OwnRoom
<1>9. /\ drawn \subseteq drawn' /\ drawn' \subseteq GameRoomIds
      /\ DOMAIN activeGameRooms' \subseteq drawn'
  BY <1>4, <1>7 DEF LobbyInv, LobbyTypes, HostInv
<1>10. \A d \in Clients : state'[d] # "Closed" => state[d] # "Closed"
  <2>1. \A d \in Range(activeGameRooms[g].members) : state[d] # "Closed"
    BY <1>5 DEF Parts, GameOK, SeatsOK
  <2> QED BY <1>5, <2>1
<1>11. c \in Range(activeGameRooms[g].members)
  <2>1. Head1(c) \in ToSet(out[c])
    BY <1>4, TakenIs DEF LobbyInv, LobbyTypes, Head1
  <2>2. OwnRoom(c, g)
    BY <1>1, <1>4, <2>1 DEF LobbyInv, HostInv
  <2>3. currentGameRoomId[c] = g /\ g # NoRoom
    BY <1>5, <2>2, SessionServerAssumption DEF OwnRoom, Parts, GameOK, GameTypeOK
  <2> QED BY <2>3 DEF Parts, GameOK
<1>12. news \in [Clients -> Seq(PlainPackets)] /\ news[c] # <<>>
  BY <1>3, <1>6, <1>11, BroadcastReaches, GameLobbyAssumption
<1> QED BY <1>4, <1>8, <1>9, <1>10, <1>12, PlainNews, HandledOK

(* The requests that leave the rooms as they are.                            *)
LEMMA QuietHandlersHandled ==
    ASSUME LobbyInv, NEW c \in Clients,
           ServeList(c) \/ RefuseJoin(c) \/ IgnoreQuit(c) \/ RefuseStart(c)
    PROVE  LobbyInv'
<1>1. out[c] # <<>> /\ Handled(c) /\ UNCHANGED <<serverVars, drawn>>
  BY DEF ServeList, RefuseJoin, IgnoreQuit, RefuseStart, Takes
<1>2. CASE IgnoreQuit(c)
  <2>1. PICK news : news = Silence
    OBVIOUS
  <2>2. /\ Send(news) /\ Head1(c).kind = "Quit"
        /\ news \in [Clients -> Seq(PlainPackets)]
    <3>1. <<>> \in Seq(PlainPackets)
      OBVIOUS
    <3> QED BY <1>2, <2>1, <3>1 DEF IgnoreQuit, Takes, Silence
  <2> QED BY <1>1, <2>2, QuietHandledOK
<1>3. CASE ServeList(c) \/ RefuseJoin(c) \/ RefuseStart(c)
  <2>1. PICK p \in PlainPackets : Send(To(c, <<p>>))
    BY <1>3, PacketsArePlain, Zenon DEF ServeList, RefuseJoin, RefuseStart
  <2>2. PICK packets \in Seq(PlainPackets) : packets = <<p>> /\ packets # <<>>
    <3>1. <<p>> \in Seq(PlainPackets) /\ <<p>> # <<>>
      OBVIOUS
    <3> QED BY <3>1
  <2>3. PICK news : news = To(c, packets)
    OBVIOUS
  <2>4. news \in [Clients -> Seq(PlainPackets)] /\ news[c] = packets
    BY <2>3, NewsTo
  <2>5. Send(news)
    BY <2>1, <2>2, <2>3
  <2> QED BY <1>1, <2>2, <2>4, <2>5, QuietHandledOK
<1> QED BY <1>2, <1>3

(* serverDissolveGameRoom: the members hear of it, and the event loop waits. *)
LEMMA StopHandled ==
    ASSUME Parts, LobbyInv, NEW c \in Clients, StopGame(c)
    PROVE  LobbyInv'
<1>1. /\ activeGameRooms \in [DOMAIN activeGameRooms -> GameRoomType]
      /\ out \in [Clients -> Seq(Requests)]
  BY DEF Parts, GameOK, GameTypeOK, LobbyInv, LobbyTypes
<1>2. PICK g : g = currentGameRoomId[c]
  OBVIOUS
<1>3. /\ UNCHANGED <<state, uid, currentGameRoomId, out, ui, client, lost, drawn>>
      /\ Send(LeaveNews(c))
      /\ g \in DOMAIN activeGameRooms
      /\ activeGameRooms' = [activeGameRooms EXCEPT ![g].gameRunning = FALSE]
      /\ state[c] # "Closed"
      /\ out[c] # <<>> \/ ui[c].page = "gone"
  BY <1>2, Zenon DEF StopGame, MustStopGame, sessionVars
<1>4. /\ DOMAIN activeGameRooms' = DOMAIN activeGameRooms
      /\ \A h \in DOMAIN activeGameRooms :
           activeGameRooms'[h].hostUid = activeGameRooms[h].hostUid
  BY <1>1, <1>3 DEF GameRoomType
<1>5. \A d \in Clients, h \in GameRoomIds : OwnRoom(d, h) => OwnRoom(d, h)'
  BY <1>3, <1>4 DEF OwnRoom
<1>6. PICK news \in [Clients -> Seq(PlainPackets)] : news = LeaveNews(c)
  BY LeaveNewsArePlain
<1>7. PICK rest \in Seq(Requests) : rest = out[c]
  BY <1>1
<1>8. out' = [out EXCEPT ![c] = rest]
  BY <1>1, <1>3, <1>7
<1>9. /\ drawn \subseteq drawn' /\ drawn' \subseteq GameRoomIds
      /\ DOMAIN activeGameRooms' \subseteq drawn'
      /\ \A d \in Clients : state'[d] # "Closed" => state[d] # "Closed"
  BY <1>3, <1>4 DEF LobbyInv, LobbyTypes, HostInv
<1>10. /\ news \in [Clients -> Seq(Packets)] /\ Send(news)
       /\ \A d \in Clients : \A p \in ToSet(news[d]) : p.type # "CreateResp"
  BY <1>3, <1>6, PlainNews
<1>11. /\ ui' = ui /\ client' = client /\ lost' = lost
       /\ ToSet(rest) \subseteq ToSet(out[c])
  BY <1>3, <1>7
<1>12. \A i \in DOMAIN out[c] : out[c][i].kind # "Quit" =>
         \E j \in DOMAIN rest : rest[j].kind # "Quit"
  BY <1>7
<1> QED BY <1>5, <1>8, <1>9, <1>10, <1>11, <1>12, ServedOK

(* gameRunner.c: the game threads change nothing of a room but gameRunning.  *)
LEMMA GamesRunUnseen ==
    ASSUME Parts, LobbyInv,
           \E g \in GameRoomIds : \/ ThreadLoads(g) \/ GameReturns(g)
                                  \/ ThreadDestroysSdk(g) \/ ThreadEnds(g)
    PROVE  LobbyInv'
<1>1. activeGameRooms \in [DOMAIN activeGameRooms -> GameRoomType]
  BY DEF Parts, GameOK, GameTypeOK
<1>2. /\ UNCHANGED <<state, uid, currentGameRoomId, out, inbox, ui, client, lost, drawn>>
      /\ \/ activeGameRooms' = activeGameRooms
         \/ \E g \in DOMAIN activeGameRooms :
              activeGameRooms' = [activeGameRooms EXCEPT ![g].gameRunning = FALSE]
  BY Zenon DEF ThreadLoads, GameReturns, ThreadDestroysSdk,
               ThreadEnds, ClearRunning, sessionVars, serverVars, vars
<1>3. /\ DOMAIN activeGameRooms' = DOMAIN activeGameRooms
      /\ \A h \in DOMAIN activeGameRooms :
           activeGameRooms'[h].hostUid = activeGameRooms[h].hostUid
  BY <1>1, <1>2 DEF GameRoomType
<1>4. LobbyTypes' /\ WaitInv'
  BY <1>2 DEF LobbyInv, LobbyTypes, WaitInv
<1>5. \A d \in Clients : \A h : OwnRoom(d, h) <=> OwnRoom(d, h)'
  BY <1>2, <1>3 DEF OwnRoom
<1>6. HostInv'
  BY <1>2, <1>3, <1>5 DEF LobbyInv, HostInv
<1> QED BY <1>4, <1>6 DEF LobbyInv

-----------------------------------------------------------------------------
(* The clients and what a page waits for *)

(* A step of client c leaves the server and the other clients alone.         *)
LEMMA ClientActed ==
    ASSUME LobbyInv, LobbyTypes', NEW c \in Clients, UNCHANGED <<serverVars, drawn>>,
           \A d \in Clients \ {c} : /\ out'[d] = out[d] /\ inbox'[d] = inbox[d]
                                    /\ ui'[d] = ui[d] /\ client'[d] = client[d],
           ui'[c].page = "gone" => ui'[c].waiting = NoRequest,
           ui'[c].waiting # NoRequest /\ ~client'[c].io /\ state[c] # "Closed" =>
               inbox'[c] # <<>> \/ \E i \in DOMAIN out'[c] : out'[c][i].kind # "Quit",
           ui'[c].host /\ ui'[c].joined # NoRoom => OwnRoom(c, ui'[c].joined),
           ToSet(inbox'[c]) \subseteq ToSet(inbox[c]),
           \A q \in ToSet(out'[c]) : q.kind = "Start" => OwnRoom(c, q.room)
    PROVE  LobbyInv'
<1> USE DEF LobbyInv
<1>1. UNCHANGED <<activeGameRooms, currentGameRoomId, uid, state, drawn>>
  BY DEF serverVars, vars
<1>2. WaitInv'
  <2>1. ASSUME NEW d \in Clients
        PROVE  /\ ui'[d].page = "gone" => ui'[d].waiting = NoRequest
               /\ ui'[d].waiting # NoRequest /\ ~client'[d].io /\ state'[d] # "Closed" =>
                    inbox'[d] # <<>> \/ \E i \in DOMAIN out'[d] : out'[d][i].kind # "Quit"
    <3>1. CASE d = c
      BY <1>1, <3>1
    <3>2. CASE d # c
      BY <1>1, <3>2 DEF WaitInv
    <3> QED BY <3>1, <3>2
  <2> QED BY <2>1 DEF WaitInv
<1>3. HostInv'
  <2>1. \A d \in Clients : \A g : OwnRoom(d, g) <=> OwnRoom(d, g)'
    BY <1>1 DEF OwnRoom
  <2>2. ASSUME NEW d \in Clients
        PROVE  /\ ui'[d].host /\ ui'[d].joined # NoRoom => OwnRoom(d, ui'[d].joined)
               /\ \A p \in ToSet(inbox'[d]) :
                    p.type = "CreateResp" /\ p.room # NoRoom => OwnRoom(d, p.room)
               /\ \A q \in ToSet(out'[d]) : q.kind = "Start" => OwnRoom(d, q.room)
    BY DEF HostInv
  <2>3. ASSUME NEW d \in Clients
        PROVE  /\ ui'[d].host /\ ui'[d].joined # NoRoom => OwnRoom(d, ui[d].joined)'
               /\ \A p \in ToSet(inbox'[d]) :
                    p.type = "CreateResp" /\ p.room # NoRoom => OwnRoom(d, p.room)'
               /\ \A q \in ToSet(out'[d]) : q.kind = "Start" => OwnRoom(d, q.room)'
    <3>1. ui'[d].host /\ ui'[d].joined # NoRoom => OwnRoom(d, ui[d].joined)'
      BY <1>1, <2>2 DEF OwnRoom
    <3> QED BY <2>1, <2>2, <3>1
  <2>4. DOMAIN activeGameRooms' \subseteq drawn'
    BY <1>1 DEF HostInv
  <2> QED BY <2>3, <2>4 DEF HostInv
<1> QED BY <1>2, <1>3

(* What a client's stream of requests holds after some were sent.            *)
LEMMA PostIs ==
    ASSUME LobbyTypes, NEW c \in Clients, NEW rs \in Seq(Requests), Post(c, rs)
    PROVE  /\ out' \in [Clients -> Seq(Requests)]
           /\ \A d \in Clients \ {c} : out'[d] = out[d]
           /\ ToSet(out'[c]) \subseteq ToSet(out[c]) \cup ToSet(rs)
           /\ state[c] # "Closed" =>
                \A j \in DOMAIN rs : \E i \in DOMAIN out'[c] : out'[c][i] = rs[j]
<1>1. PICK s \in Seq(Requests) : s = out[c]
  BY DEF LobbyTypes
<1>2. out \in [Clients -> Seq(Requests)]
  BY DEF LobbyTypes
<1>3. /\ out' = [out EXCEPT ![c] = IF state[c] = "Closed" THEN s ELSE s \o rs]
  BY <1>1 DEF Post
<1>4. /\ s \o rs \in Seq(Requests) /\ Len(s \o rs) = Len(s) + Len(rs)
      /\ Len(s) \in Nat /\ Len(rs) \in Nat
      /\ \A i \in 1..(Len(s) + Len(rs)) :
           (s \o rs)[i] = IF i <= Len(s) THEN s[i] ELSE rs[i - Len(s)]
  OBVIOUS
<1>5. /\ DOMAIN (s \o rs) = 1..(Len(s) + Len(rs))
      /\ DOMAIN s = 1..Len(s) /\ DOMAIN rs = 1..Len(rs)
  BY <1>4
<1>6. ToSet(s \o rs) \subseteq ToSet(s) \cup ToSet(rs)
  <2>1. ASSUME NEW i \in 1..(Len(s) + Len(rs))
        PROVE  (s \o rs)[i] \in ToSet(s) \cup ToSet(rs)
    <3>1. CASE i <= Len(s)
      <4>1. i \in DOMAIN s
        BY <1>4, <1>5, <3>1
      <4> QED BY <1>4, <3>1, <4>1 DEF ToSet
    <3>2. CASE ~(i <= Len(s))
      <4>1. i - Len(s) \in DOMAIN rs
        BY <1>4, <1>5, <3>2
      <4> QED BY <1>4, <3>2, <4>1 DEF ToSet
    <3> QED BY <3>1, <3>2
  <2> QED BY <1>5, <2>1 DEF ToSet
<1>7. ASSUME NEW j \in DOMAIN rs
      PROVE  \E i \in DOMAIN (s \o rs) : (s \o rs)[i] = rs[j]
  <2>1. /\ Len(s) + j \in 1..(Len(s) + Len(rs)) /\ ~(Len(s) + j <= Len(s))
        /\ (Len(s) + j) - Len(s) = j
    BY <1>4, <1>5
  <2>2. (s \o rs)[Len(s) + j] = rs[j]
    BY <1>4, <2>1
  <2> QED BY <1>5, <2>1, <2>2
<1>8. PICK t : t = s \o rs
  OBVIOUS
<1>9. /\ out' \in [Clients -> Seq(Requests)]
      /\ \A d \in Clients \ {c} : out'[d] = out[d]
      /\ out'[c] = IF state[c] = "Closed" THEN s ELSE t
  BY <1>2, <1>3, <1>4, <1>8
<1> QED BY <1>1, <1>6, <1>7, <1>8, <1>9

(* What is left in the stream of packets when the first was read.            *)
LEMMA ReadIs ==
    ASSUME LobbyTypes, NEW c \in Clients, inbox[c] # <<>>, Read(c)
    PROVE  /\ inbox' \in [Clients -> Seq(Packets)]
           /\ \A d \in Clients \ {c} : inbox'[d] = inbox[d]
           /\ ToSet(inbox'[c]) \subseteq ToSet(inbox[c])
           /\ Head(inbox[c]) \in ToSet(inbox[c]) /\ Head(inbox[c]) \in Packets
<1>1. PICK s \in Seq(Packets) : s = inbox[c]
  BY DEF LobbyTypes
<1>2. inbox \in [Clients -> Seq(Packets)] /\ inbox' = [inbox EXCEPT ![c] = Tail(s)]
  BY <1>1 DEF LobbyTypes, Read
<1>3. /\ s # <<>> /\ Tail(s) \in Seq(Packets) /\ Len(Tail(s)) = Len(s) - 1
      /\ Len(s) \in Nat /\ Len(s) # 0 /\ Head(s) = s[1] /\ Head(s) \in Packets
      /\ \A i \in 1..(Len(s) - 1) : Tail(s)[i] = s[i + 1]
  BY <1>1
<1>4. DOMAIN s = 1..Len(s) /\ DOMAIN Tail(s) = 1..(Len(s) - 1)
  BY <1>3
<1>5. Head(s) \in ToSet(s)
  <2>1. 1 \in DOMAIN s
    BY <1>3, <1>4
  <2> QED BY <1>3, <2>1 DEF ToSet
<1>6. ToSet(Tail(s)) \subseteq ToSet(s)
  <2>1. \A i \in DOMAIN Tail(s) : Tail(s)[i] = s[i + 1] /\ i + 1 \in DOMAIN s
    BY <1>3, <1>4
  <2> QED BY <2>1 DEF ToSet
<1> QED BY <1>1, <1>2, <1>3, <1>5, <1>6

(* A page that waits asked for something that is answered.                   *)
LEMMA ClientAsks ==
    ASSUME LobbyInv, NEW c \in Clients, UNCHANGED <<serverVars, drawn>>,
           NEW q \in Requests, q.kind # "Quit",
           q.kind = "Start" => OwnRoom(c, q.room), Post(c, <<q>>),
           inbox' \in [Clients -> Seq(Packets)], ui' \in [Clients -> Pages],
           client' \in [Clients -> ClientStates], lost' \in [Clients -> Nat],
           \A d \in Clients \ {c} : /\ inbox'[d] = inbox[d] /\ ui'[d] = ui[d]
                                    /\ client'[d] = client[d],
           ui'[c].page # "gone", ui'[c].waiting = q,
           ui'[c].host /\ ui'[c].joined # NoRoom => OwnRoom(c, ui'[c].joined),
           ToSet(inbox'[c]) \subseteq ToSet(inbox[c])
    PROVE  LobbyInv'
<1>1. PICK rs \in Seq(Requests) : rs = <<q>> /\ ToSet(rs) = {q} /\ 1 \in DOMAIN rs
                                  /\ rs[1] = q
  <2>1. /\ <<q>> \in Seq(Requests) /\ DOMAIN <<q>> = {1} /\ <<q>>[1] = q
    OBVIOUS
  <2>2. ToSet(<<q>>) = {q}
    BY <2>1 DEF ToSet
  <2> QED BY <2>1, <2>2
<1>2. /\ out' \in [Clients -> Seq(Requests)]
      /\ \A d \in Clients \ {c} : out'[d] = out[d]
      /\ ToSet(out'[c]) \subseteq ToSet(out[c]) \cup {q}
      /\ state[c] # "Closed" => \E i \in DOMAIN out'[c] : out'[c][i] = q
  BY <1>1, PostIs DEF LobbyInv
<1>3. \A r \in ToSet(out'[c]) : r.kind = "Start" => OwnRoom(c, r.room)
  BY <1>2 DEF LobbyInv, HostInv
<1>4. drawn' \subseteq GameRoomIds
  BY DEF LobbyInv, LobbyTypes
<1>5. LobbyTypes'
  BY <1>2, <1>4 DEF LobbyTypes
<1> QED BY <1>2, <1>3, <1>5, ClientActed

LEMMA AskIsRequest ==
    ASSUME NEW k \in Kinds, NEW g \in GameRoomIds \cup {NoRoom}
    PROVE  Ask(k, g) \in Requests /\ Ask(k, g).kind = k /\ Ask(k, g).room = g
BY DEF Ask, Requests

LEMMA ClientTypes ==
    ASSUME LobbyInv, NEW c \in Clients
    PROVE  /\ ui \in [Clients -> Pages] /\ ui[c] \in Pages
           /\ client \in [Clients -> ClientStates] /\ client[c] \in ClientStates
           /\ inbox \in [Clients -> Seq(Packets)] /\ lost \in [Clients -> Nat]
           /\ out \in [Clients -> Seq(Requests)]
           /\ ui[c].host /\ ui[c].joined # NoRoom => OwnRoom(c, ui[c].joined)
           /\ \A q \in ToSet(out[c]) : q.kind = "Start" => OwnRoom(c, q.room)
           /\ ui[c].page = "gone" => ui[c].waiting = NoRequest
BY DEF LobbyInv, LobbyTypes, HostInv, WaitInv

(* mainPage.c: the buttons that ask for something.                           *)
LEMMA PressesAsk ==
    ASSUME LobbyInv, NEW c \in Clients,
           \/ PressPlay(c) \/ PressRefresh(c) \/ PressCreate(c)
           \/ \E g \in GameRoomIds : PressJoin(c, g)
           \/ PressStart(c)
    PROVE  LobbyInv'
<1>1. /\ ui \in [Clients -> Pages] /\ ui[c] \in Pages
      /\ client \in [Clients -> ClientStates]
      /\ inbox \in [Clients -> Seq(Packets)] /\ lost \in [Clients -> Nat]
      /\ ui[c].host /\ ui[c].joined # NoRoom => OwnRoom(c, ui[c].joined)
  BY ClientTypes
<1>2. UNCHANGED <<serverVars, inbox, client, lost, drawn>>
  BY DEF PressPlay, PressRefresh, PressCreate, PressJoin, PressStart, WaitFor
<1>3. CASE PressPlay(c)
  <2>1. PICK q \in Requests : q = Ask("List", NoRoom) /\ q.kind = "List"
    BY AskIsRequest DEF Kinds
  <2>2. /\ ui' = [ui EXCEPT ![c] = [page |-> "lobby", due |-> FALSE, waiting |-> q,
                                    joined |-> NoRoom, host |-> FALSE]]
        /\ Post(c, <<q>>)
    BY <1>3, <2>1 DEF PressPlay
  <2>3. /\ ui' \in [Clients -> Pages] /\ \A d \in Clients \ {c} : ui'[d] = ui[d]
        /\ ui'[c].page # "gone" /\ ui'[c].waiting = q /\ ~ui'[c].host
    <3>1. [page |-> "lobby", due |-> FALSE, waiting |-> q, joined |-> NoRoom,
           host |-> FALSE] \in Pages
      BY DEF Pages
    <3> QED BY <1>1, <2>2, <3>1
  <2> QED BY <1>1, <1>2, <2>1, <2>2, <2>3, ClientAsks
<1>4. CASE \/ PressRefresh(c) \/ PressCreate(c)
           \/ \E g \in GameRoomIds : PressJoin(c, g)
           \/ PressStart(c)
  <2>1. PICK q \in Requests :
               /\ q.kind # "Quit"
               /\ q.kind = "Start" => OwnRoom(c, q.room)
               /\ ui[c].page = "lobby" /\ WaitFor(c, q)
    <3>1. CASE PressRefresh(c) \/ PressCreate(c)
      <4>1. PICK k \in {"List", "Create"} : WaitFor(c, Ask(k, NoRoom)) /\ ui[c].page = "lobby"
        BY <3>1 DEF PressRefresh, PressCreate, Idle
      <4> QED BY <4>1, AskIsRequest DEF Kinds
    <3>2. ASSUME NEW g \in GameRoomIds, PressJoin(c, g)
          PROVE  /\ Ask("Join", g) \in Requests /\ Ask("Join", g).kind = "Join"
                 /\ ui[c].page = "lobby" /\ WaitFor(c, Ask("Join", g))
      BY <3>2, AskIsRequest DEF PressJoin, Idle, Kinds
    <3>3. CASE PressStart(c)
      <4>1. /\ ui[c].joined \in GameRoomIds \cup {NoRoom}
            /\ OwnRoom(c, ui[c].joined) /\ ui[c].page = "lobby"
            /\ WaitFor(c, Ask("Start", ui[c].joined))
        BY <1>1, <3>3 DEF PressStart, Idle, Pages
      <4> QED BY <4>1, AskIsRequest DEF Kinds
    <3> QED BY <1>4, <3>1, <3>2, <3>3
  <2>2. ui' = [ui EXCEPT ![c].waiting = q] /\ Post(c, <<q>>)
    BY <2>1 DEF WaitFor
  <2>3. /\ ui' \in [Clients -> Pages] /\ \A d \in Clients \ {c} : ui'[d] = ui[d]
        /\ ui'[c].page # "gone" /\ ui'[c].waiting = q
        /\ ui'[c].host = ui[c].host /\ ui'[c].joined = ui[c].joined
    BY <1>1, <2>1, <2>2 DEF Pages
  <2> QED BY <1>1, <1>2, <2>1, <2>2, <2>3, ClientAsks
<1> QED BY <1>3, <1>4

(* A client whose page waits for nothing, or has an IO thread, loses nothing *)
(* that it was waiting for.                                                  *)
LEMMA ClientRests ==
    ASSUME LobbyInv, NEW c \in Clients, UNCHANGED <<serverVars, drawn>>,
           out' \in [Clients -> Seq(Requests)], inbox' \in [Clients -> Seq(Packets)],
           ui' \in [Clients -> Pages], client' \in [Clients -> ClientStates],
           lost' \in [Clients -> Nat],
           \A d \in Clients \ {c} : /\ out'[d] = out[d] /\ inbox'[d] = inbox[d]
                                    /\ ui'[d] = ui[d] /\ client'[d] = client[d],
           \/ ui'[c].waiting = NoRequest
           \/ ui'[c].page # "gone" /\ client'[c].io,
           ui'[c].host /\ ui'[c].joined # NoRoom => OwnRoom(c, ui'[c].joined),
           ToSet(inbox'[c]) \subseteq ToSet(inbox[c]),
           \A q \in ToSet(out'[c]) : q.kind = "Start" => OwnRoom(c, q.room)
    PROVE  LobbyInv'
<1>1. drawn' \subseteq GameRoomIds
  BY DEF LobbyInv, LobbyTypes
<1>2. LobbyTypes'
  BY <1>1 DEF LobbyTypes
<1> QED BY <1>2, ClientActed

(* mainPage.c: leaving a page, and the client.                               *)
LEMMA BackAndExitRest ==
    ASSUME LobbyInv, NEW c \in Clients,
           PressBack(c) \/ PressBackFromGame(c) \/ Exit(c)
    PROVE  LobbyInv'
<1>1. /\ ui \in [Clients -> Pages] /\ ui[c] \in Pages
      /\ client \in [Clients -> ClientStates] /\ client[c] \in ClientStates
      /\ inbox \in [Clients -> Seq(Packets)] /\ lost \in [Clients -> Nat]
      /\ out \in [Clients -> Seq(Requests)]
      /\ ui[c].host /\ ui[c].joined # NoRoom => OwnRoom(c, ui[c].joined)
      /\ \A q \in ToSet(out[c]) : q.kind = "Start" => OwnRoom(c, q.room)
  BY ClientTypes
<1>2. CASE PressBack(c)
  <2>1. /\ ui[c].waiting = NoRequest /\ UNCHANGED <<serverVars, inbox, lost, drawn>>
        /\ ui' = [ui EXCEPT ![c].page = "home", ![c].joined = NoRoom, ![c].host = FALSE]
    BY <1>2 DEF PressBack, Idle
  <2>2. PICK quit \in Requests : quit = Ask("Quit", NoRoom) /\ quit.kind = "Quit"
    BY AskIsRequest DEF Kinds
  <2>3. /\ client' = client \/ client' = [client EXCEPT ![c].room = NoRoom]
        /\ out' = out \/ Post(c, <<quit>>)
    BY <1>2, <2>2 DEF PressBack
  <2>4. /\ client' \in [Clients -> ClientStates]
        /\ \A d \in Clients \ {c} : client'[d] = client[d]
    <3>1. CASE client' = [client EXCEPT ![c].room = NoRoom]
      BY <1>1, <3>1 DEF ClientStates
    <3> QED BY <1>1, <2>3, <3>1
  <2>5. /\ ui' \in [Clients -> Pages] /\ \A d \in Clients \ {c} : ui'[d] = ui[d]
        /\ ui'[c].waiting = NoRequest /\ ~ui'[c].host
    BY <1>1, <2>1 DEF Pages
  <2>6. PICK rs \in Seq(Requests) : rs = <<quit>> /\ ToSet(rs) = {quit}
    <3>1. <<quit>> \in Seq(Requests) /\ DOMAIN <<quit>> = {1} /\ <<quit>>[1] = quit
      OBVIOUS
    <3>2. ToSet(<<quit>>) = {quit}
      BY <3>1 DEF ToSet
    <3> QED BY <3>1, <3>2
  <2>7. /\ out' \in [Clients -> Seq(Requests)]
        /\ \A d \in Clients \ {c} : out'[d] = out[d]
        /\ ToSet(out'[c]) \subseteq ToSet(out[c]) \cup {quit}
    BY <1>1, <2>3, <2>6, PostIs DEF LobbyInv
  <2>8. \A q \in ToSet(out'[c]) : q.kind = "Start" => OwnRoom(c, q.room)
    BY <1>1, <2>2, <2>7
  <2> QED BY <1>1, <2>1, <2>4, <2>5, <2>7, <2>8, ClientRests
<1>3. CASE PressBackFromGame(c)
  <2>1. /\ ui[c].waiting = NoRequest
        /\ UNCHANGED <<serverVars, out, inbox, client, lost, drawn>>
        /\ ui' = [ui EXCEPT ![c].page = "home"]
    BY <1>3 DEF PressBackFromGame, Idle
  <2>2. /\ ui' \in [Clients -> Pages] /\ \A d \in Clients \ {c} : ui'[d] = ui[d]
        /\ ui'[c].waiting = NoRequest
        /\ ui'[c].host = ui[c].host /\ ui'[c].joined = ui[c].joined
    BY <1>1, <2>1 DEF Pages
  <2> QED BY <1>1, <2>1, <2>2, ClientRests
<1>4. CASE Exit(c)
  <2>1. UNCHANGED <<serverVars, out, drawn>>
    BY <1>4 DEF Exit
  <2>2. /\ ui' \in [Clients -> Pages] /\ \A d \in Clients \ {c} : ui'[d] = ui[d]
        /\ ui'[c].waiting = NoRequest /\ ~ui'[c].host
    <3>1. PICK page \in Pages :
                 page = [page |-> "gone", due |-> FALSE, waiting |-> NoRequest,
                         joined |-> NoRoom, host |-> FALSE]
      BY DEF Pages
    <3>2. ui' = [ui EXCEPT ![c] = page]
      BY <1>4, <3>1 DEF Exit
    <3> QED BY <1>1, <3>1, <3>2
  <2>3. /\ client' \in [Clients -> ClientStates]
        /\ \A d \in Clients \ {c} : client'[d] = client[d]
    <3>1. <<>> \in Seq(Users)
      OBVIOUS
    <3>2. PICK none \in ClientStates :
                 none = [room |-> NoRoom, members |-> <<>>, started |-> FALSE,
                         io |-> FALSE]
      BY <3>1 DEF ClientStates
    <3>3. client' = [client EXCEPT ![c] = none]
      BY <1>4, <3>2 DEF Exit
    <3> QED BY <1>1, <3>3
  <2>4. /\ inbox' \in [Clients -> Seq(Packets)]
        /\ \A d \in Clients \ {c} : inbox'[d] = inbox[d]
        /\ ToSet(inbox'[c]) \subseteq ToSet(inbox[c])
        /\ lost' \in [Clients -> Nat]
    <3>1. PICK s \in Seq(Packets) : s = <<>> /\ ToSet(s) = {}
      <4>1. <<>> \in Seq(Packets) /\ ToSet(<<>>) = {}
        BY DEF ToSet
      <4> QED BY <4>1
    <3>2. inbox' = [inbox EXCEPT ![c] = s] /\ lost' = [lost EXCEPT ![c] = 0]
      BY <1>4, <3>1 DEF Exit
    <3> QED BY <1>1, <3>1, <3>2
  <2> QED BY <1>1, <2>1, <2>2, <2>3, <2>4, ClientRests
<1> QED BY <1>2, <1>3, <1>4

LEMMA DropsIs ==
    ASSUME LobbyTypes, NEW c \in Clients, NEW p, Drops(c, p)
    PROVE  lost' \in [Clients -> Nat]
<1>1. PICK n \in {0, 1} : n = IF News(c, p) THEN 1 ELSE 0
  OBVIOUS
<1>2. lost' = [lost EXCEPT ![c] = @ + n]
  BY <1>1 DEF Drops
<1> QED BY <1>2 DEF LobbyTypes

(* mainPage.c, client/gameRoom.c: a request fails or is answered; the page   *)
(* waits no more or lists the rooms again.                                   *)
LEMMA ListingAfter ==
    ASSUME LobbyInv, NEW c \in Clients, UNCHANGED <<serverVars, drawn>>,
           NEW relist \in BOOLEAN, AfterRequest(c, relist),
           ui[c].waiting # NoRequest, client' = client,
           inbox' \in [Clients -> Seq(Packets)], lost' \in [Clients -> Nat],
           \A d \in Clients \ {c} : inbox'[d] = inbox[d],
           ToSet(inbox'[c]) \subseteq ToSet(inbox[c])
    PROVE  LobbyInv'
<1>1. /\ ui \in [Clients -> Pages] /\ ui[c] \in Pages
      /\ client \in [Clients -> ClientStates]
      /\ ui[c].host /\ ui[c].joined # NoRoom => OwnRoom(c, ui[c].joined)
      /\ \A q \in ToSet(out[c]) : q.kind = "Start" => OwnRoom(c, q.room)
      /\ ui[c].page # "gone"
  BY ClientTypes
<1>2. CASE relist
  <2>1. PICK q \in Requests : q = Ask("List", NoRoom) /\ q.kind = "List"
    BY AskIsRequest DEF Kinds
  <2>2. /\ ui' = [ui EXCEPT ![c].waiting = q, ![c].due = FALSE]
        /\ Post(c, <<q>>)
    BY <1>2, <2>1 DEF AfterRequest
  <2>3. /\ ui' \in [Clients -> Pages] /\ \A d \in Clients \ {c} : ui'[d] = ui[d]
        /\ ui'[c].page # "gone" /\ ui'[c].waiting = q
        /\ ui'[c].host = ui[c].host /\ ui'[c].joined = ui[c].joined
    BY <1>1, <2>2 DEF Pages
  <2>4. ui'[c].host /\ ui'[c].joined # NoRoom => OwnRoom(c, ui'[c].joined)
    BY <1>1, <2>3
  <2>5. /\ q.kind # "Quit" /\ q.kind # "Start"
        /\ client' \in [Clients -> ClientStates]
        /\ \A d \in Clients \ {c} : client'[d] = client[d]
    BY <1>1, <2>1
  <2> QED BY <2>2, <2>3, <2>4, <2>5, ClientAsks
<1>3. CASE ~relist
  <2>1. ui' = [ui EXCEPT ![c].waiting = NoRequest, ![c].due = TRUE]
    BY <1>3 DEF AfterRequest
  <2>2. PICK rs \in Seq(Requests) : Post(c, rs) /\ ToSet(rs) = {}
    <3>1. <<>> \in Seq(Requests) /\ ToSet(<<>>) = {}
      BY DEF ToSet
    <3> QED BY <1>3, <3>1 DEF AfterRequest
  <2>3. /\ out' \in [Clients -> Seq(Requests)]
        /\ \A d \in Clients \ {c} : out'[d] = out[d]
        /\ ToSet(out'[c]) \subseteq ToSet(out[c])
    BY <2>2, PostIs DEF LobbyInv
  <2>4. /\ ui' \in [Clients -> Pages] /\ \A d \in Clients \ {c} : ui'[d] = ui[d]
        /\ ui'[c].waiting = NoRequest
        /\ ui'[c].host = ui[c].host /\ ui'[c].joined = ui[c].joined
    BY <1>1, <2>1 DEF Pages
  <2> QED BY <1>1, <2>3, <2>4, ClientRests
<1> QED BY <1>2, <1>3

LEMMA AnswersKept ==
    ASSUME LobbyInv, NEW c \in Clients,
           \/ AnswerFails(c) \/ ListAnswered(c) \/ CreateAnswered(c)
           \/ JoinAnswered(c) \/ StartAnswered(c)
    PROVE  LobbyInv'
<1>1. /\ ui \in [Clients -> Pages] /\ ui[c] \in Pages
      /\ client \in [Clients -> ClientStates] /\ client[c] \in ClientStates
      /\ inbox \in [Clients -> Seq(Packets)] /\ lost \in [Clients -> Nat]
      /\ out \in [Clients -> Seq(Requests)]
      /\ ui[c].host /\ ui[c].joined # NoRoom => OwnRoom(c, ui[c].joined)
      /\ \A q \in ToSet(out[c]) : q.kind = "Start" => OwnRoom(c, q.room)
      /\ ui[c].page = "gone" => ui[c].waiting = NoRequest
  BY ClientTypes
<1>2. CASE AnswerFails(c)
  <2>0. PICK relist \in BOOLEAN :
               relist = (ui[c].waiting.kind \in {"Create", "Join"})
    <3>1. (ui[c].waiting.kind \in {"Create", "Join"}) \in BOOLEAN
      OBVIOUS
    <3> QED BY <3>1, Zenon
  <2>1. /\ ui[c].waiting # NoRequest /\ client' = client
        /\ UNCHANGED <<serverVars, drawn>>
        /\ AfterRequest(c, relist)
    BY <1>2, <2>0, Zenon DEF AnswerFails
  <2>2. \/ UNCHANGED <<inbox, lost>>
        \/ inbox[c] # <<>> /\ Read(c) /\ \E p : Drops(c, p)
    BY <1>2, Zenon DEF AnswerFails
  <2>3. /\ inbox' \in [Clients -> Seq(Packets)] /\ lost' \in [Clients -> Nat]
        /\ \A d \in Clients \ {c} : inbox'[d] = inbox[d]
        /\ ToSet(inbox'[c]) \subseteq ToSet(inbox[c])
    BY <1>1, <2>2, ReadIs, DropsIs DEF LobbyInv
  <2> QED BY <2>1, <2>3, ListingAfter
<1>3. ASSUME NEW kind \in Kinds, Answers(c, kind)
      PROVE  /\ ui[c].waiting # NoRequest /\ ui[c].waiting.kind = kind
             /\ ui[c].page # "gone" /\ Head(inbox[c]).type = Expected(kind)
             /\ UNCHANGED <<serverVars, lost, drawn>>
             /\ inbox' \in [Clients -> Seq(Packets)] /\ lost' \in [Clients -> Nat]
             /\ \A d \in Clients \ {c} : inbox'[d] = inbox[d]
             /\ ToSet(inbox'[c]) \subseteq ToSet(inbox[c])
             /\ Head(inbox[c]) \in ToSet(inbox[c]) /\ Head(inbox[c]) \in Packets
  BY <1>1, <1>3, ReadIs DEF Answers, LobbyInv
<1>4. CASE ListAnswered(c)
  <2>1. Answers(c, "List") /\ AfterRequest(c, FALSE) /\ client' = client
    BY <1>4 DEF ListAnswered
  <2> QED BY <1>3, <2>1, ListingAfter DEF Kinds
<1>5. CASE CreateAnswered(c)
  <2>1. Answers(c, "Create")
    BY <1>5 DEF CreateAnswered
  <2>2. PICK p \in Packets : p = Head(inbox[c]) /\ p \in ToSet(inbox[c])
    BY <1>3, <2>1 DEF Kinds
  <2>3. p.type = "CreateResp"
    BY <1>3, <2>1, <2>2 DEF Kinds, Expected
  <2>4. PICK q \in Requests : q = Ask("List", NoRoom) /\ q.kind = "List"
    BY AskIsRequest DEF Kinds
  <2>5. /\ p.room # NoRoom /\ client' = [client EXCEPT ![c].room = p.room]
        /\ ui' = [ui EXCEPT ![c].waiting = q, ![c].joined = p.room, ![c].host = TRUE]
        /\ Post(c, <<q>>)
    BY <1>5, <2>2, <2>4 DEF CreateAnswered
  <2>6. p.room \in GameRoomIds
    BY <2>3, <2>5 DEF Packets
  <2>7. OwnRoom(c, p.room)
    BY <2>2, <2>3, <2>5 DEF LobbyInv, HostInv
  <2>8. /\ ui' \in [Clients -> Pages] /\ \A d \in Clients \ {c} : ui'[d] = ui[d]
        /\ ui'[c].page = ui[c].page /\ ui'[c].waiting = q /\ ui'[c].joined = p.room
    BY <1>1, <2>5, <2>6 DEF Pages
  <2>9. /\ client' \in [Clients -> ClientStates]
        /\ \A d \in Clients \ {c} : client'[d] = client[d]
    BY <1>1, <2>5, <2>6 DEF ClientStates
  <2>10. /\ ui'[c].page # "gone"
         /\ OwnRoom(c, ui'[c].joined)
    BY <1>3, <2>1, <2>7, <2>8 DEF Kinds
  <2>11. /\ UNCHANGED <<serverVars, drawn>>
         /\ inbox' \in [Clients -> Seq(Packets)] /\ lost' \in [Clients -> Nat]
         /\ \A d \in Clients \ {c} : inbox'[d] = inbox[d]
         /\ ToSet(inbox'[c]) \subseteq ToSet(inbox[c])
    BY <1>3, <2>1 DEF Kinds
  <2>12. q.kind # "Quit" /\ q.kind # "Start"
    BY <2>4
  <2> QED BY <2>5, <2>8, <2>9, <2>10, <2>11, <2>12, ClientAsks
<1>6. CASE JoinAnswered(c)
  <2>1. Answers(c, "Join") /\ out' = out
    BY <1>6 DEF JoinAnswered
  <2>2. PICK g \in GameRoomIds \cup {NoRoom} : g = ui[c].waiting.room
    BY <1>1, <1>3, <2>1 DEF Pages, Requests, Kinds
  <2>3. /\ client' = [client EXCEPT ![c].room = g]
        /\ ui' = [ui EXCEPT ![c].waiting = NoRequest, ![c].due = TRUE,
                            ![c].joined = g, ![c].host = FALSE]
    BY <1>6, <2>2 DEF JoinAnswered
  <2>4. /\ ui' \in [Clients -> Pages] /\ \A d \in Clients \ {c} : ui'[d] = ui[d]
        /\ ui'[c].waiting = NoRequest /\ ~ui'[c].host
    BY <1>1, <2>3 DEF Pages
  <2>5. /\ client' \in [Clients -> ClientStates]
        /\ \A d \in Clients \ {c} : client'[d] = client[d]
    BY <1>1, <2>3 DEF ClientStates
  <2> QED BY <1>1, <1>3, <2>1, <2>4, <2>5, ClientRests DEF Kinds
<1>7. CASE StartAnswered(c)
  <2>1. Answers(c, "Start") /\ out' = out /\ Launches(c)
    BY <1>7 DEF StartAnswered
  <2>2. /\ ui' \in [Clients -> Pages] /\ \A d \in Clients \ {c} : ui'[d] = ui[d]
        /\ ui'[c].waiting = NoRequest
        /\ ui'[c].host = ui[c].host /\ ui'[c].joined = ui[c].joined
    BY <1>1, <2>1 DEF Launches, Pages
  <2>3. /\ client' \in [Clients -> ClientStates]
        /\ \A d \in Clients \ {c} : client'[d] = client[d]
    BY <1>1, <2>1 DEF Launches, ClientStates
  <2> QED BY <1>1, <1>3, <2>1, <2>2, <2>3, ClientRests DEF Kinds
<1> QED BY <1>2, <1>4, <1>5, <1>6, <1>7

(* clientPollNotifications, and the IO thread of a game.                     *)
LEMMA PolledType ==
    ASSUME LobbyInv, NEW c \in Clients, NEW p \in Packets
    PROVE  Polled(c, p) \in ClientStates
<1>1. client[c] \in ClientStates
  BY ClientTypes
<1>2. PICK old \in ClientStates : old = client[c]
  BY <1>1
<1>3. old.members \in Seq(Users)
  BY DEF ClientStates
<1>4. CASE p.type = "MemberList"
  <2>1. p.uids \in Seq(Users)
    BY <1>4 DEF Packets
  <2>2. Polled(c, p) = [old EXCEPT !.members = p.uids]
    BY <1>2, <1>4 DEF Polled
  <2> QED BY <2>1, <2>2 DEF ClientStates
<1>5. CASE p.type = "MemberJoin"
  <2>1. p.uid \in Users
    BY <1>5 DEF Packets
  <2>2. Append(old.members, p.uid) \in Seq(Users)
    BY <1>3, <2>1
  <2>3. Polled(c, p) = [old EXCEPT !.members = Append(old.members, p.uid)]
    BY <1>2, <1>5 DEF Polled
  <2> QED BY <2>2, <2>3 DEF ClientStates
<1>6. CASE p.type = "MemberQuit" /\ p.dissolved
  <2>1. <<>> \in Seq(Users)
    OBVIOUS
  <2>2. Polled(c, p) = [old EXCEPT !.members = <<>>, !.room = NoRoom]
    BY <1>2, <1>6 DEF Polled
  <2> QED BY <2>1, <2>2 DEF ClientStates
<1>7. CASE p.type = "MemberQuit" /\ ~p.dissolved
  <2>1. PICK left \in Seq(Users) : left = RemoveFirst(old.members, p.uid)
    BY <1>3, RemoveFirstType
  <2>2. Polled(c, p) = [old EXCEPT !.members = RemoveFirst(old.members, p.uid)]
    BY <1>2, <1>7 DEF Polled
  <2> QED BY <2>1, <2>2 DEF ClientStates
<1>8. CASE p.type \notin {"MemberList", "MemberJoin", "MemberQuit"}
  <2>1. \/ Polled(c, p) = old
        \/ Polled(c, p) = [old EXCEPT !.started = TRUE]
    BY <1>2, <1>8 DEF Polled
  <2> QED BY <2>1 DEF ClientStates
<1> QED BY <1>4, <1>5, <1>6, <1>7, <1>8

LEMMA ReadersRest ==
    ASSUME LobbyInv, NEW c \in Clients, Update(c) \/ IoReads(c)
    PROVE  LobbyInv'
<1>1. /\ ui \in [Clients -> Pages] /\ ui[c] \in Pages
      /\ client \in [Clients -> ClientStates] /\ client[c] \in ClientStates
      /\ inbox \in [Clients -> Seq(Packets)] /\ lost \in [Clients -> Nat]
      /\ out \in [Clients -> Seq(Requests)]
      /\ ui[c].host /\ ui[c].joined # NoRoom => OwnRoom(c, ui[c].joined)
      /\ \A q \in ToSet(out[c]) : q.kind = "Start" => OwnRoom(c, q.room)
      /\ ui[c].page = "gone" => ui[c].waiting = NoRequest
  BY ClientTypes
<1>2. CASE Update(c)
  <2>1. ui[c].waiting = NoRequest /\ UNCHANGED <<serverVars, out, drawn>>
    BY <1>2 DEF Update
  <2>2. PICK now : now = Polled(c, Head(inbox[c]))
    OBVIOUS
  <2>3. \/ inbox[c] = <<>> /\ UNCHANGED <<inbox, client, lost>>
        \/ /\ inbox[c] # <<>> /\ Read(c)
           /\ lost' = lost \/ \E p : Drops(c, p)
           /\ Launches(c) \/ client' = [client EXCEPT ![c] = now]
    BY <1>2, <2>2, Zenon DEF Update
  <2>4. Launches(c) \/ ui' = [ui EXCEPT ![c].due = FALSE]
    BY <1>2, Zenon DEF Update
  <2>5. /\ ui' \in [Clients -> Pages] /\ \A d \in Clients \ {c} : ui'[d] = ui[d]
        /\ ui'[c].waiting = NoRequest
        /\ ui'[c].host = ui[c].host /\ ui'[c].joined = ui[c].joined
    <3>1. CASE Launches(c)
      BY <1>1, <3>1 DEF Launches, Pages
    <3>2. CASE ui' = [ui EXCEPT ![c].due = FALSE]
      BY <1>1, <2>1, <3>2 DEF Pages
    <3> QED BY <2>4, <3>1, <3>2
  <2>6. /\ inbox' \in [Clients -> Seq(Packets)] /\ lost' \in [Clients -> Nat]
        /\ \A d \in Clients \ {c} : inbox'[d] = inbox[d]
        /\ ToSet(inbox'[c]) \subseteq ToSet(inbox[c])
    BY <1>1, <2>3, ReadIs, DropsIs DEF LobbyInv
  <2>7. /\ client' \in [Clients -> ClientStates]
        /\ \A d \in Clients \ {c} : client'[d] = client[d]
    <3>1. CASE client' = client
      BY <1>1, <3>1
    <3>2. CASE Launches(c)
      BY <1>1, <3>2 DEF Launches, ClientStates
    <3>3. CASE inbox[c] # <<>> /\ Read(c) /\ client' = [client EXCEPT ![c] = now]
      <4>1. now \in ClientStates
        BY <2>2, <3>3, ReadIs, PolledType DEF LobbyInv
      <4> QED BY <1>1, <3>3, <4>1
    <3> QED BY <2>3, <3>1, <3>2, <3>3
  <2> QED BY <1>1, <2>1, <2>5, <2>6, <2>7, ClientRests
<1>3. CASE IoReads(c)
  <2>1. /\ client[c].io /\ inbox[c] # <<>> /\ Read(c) /\ \E p : Drops(c, p)
        /\ UNCHANGED <<serverVars, out, ui, client, drawn>>
    BY <1>3 DEF IoReads
  <2>2. /\ inbox' \in [Clients -> Seq(Packets)] /\ lost' \in [Clients -> Nat]
        /\ \A d \in Clients \ {c} : inbox'[d] = inbox[d]
        /\ ToSet(inbox'[c]) \subseteq ToSet(inbox[c])
    BY <2>1, ReadIs, DropsIs DEF LobbyInv
  <2> QED BY <1>1, <2>1, <2>2, ClientRests
<1> QED BY <1>2, <1>3

(* Every step of the lobby.                                                  *)
LEMMA LobbyStepKeepsWaits ==
    ASSUME Parts, LobbyInv, [LobbyNext]_allVars
    PROVE  LobbyInv'
<1>1. ASSUME NEW c \in Clients, ServerStep(c)  PROVE LobbyInv'
  <2>1. ASSUME NEW g \in GameRoomIds, NEW created \in BOOLEAN,
               ServeCreate(c, g, created)
        PROVE  LobbyInv'
    BY <2>1, CreateHandled
  <2>2. CASE StopGame(c)
    BY <2>2, StopHandled
  <2>3. CASE ServeJoin(c) \/ ServeStart(c)
    BY <2>3, JoinHandled, StartHandled
  <2>4. CASE ServeQuit(c) \/ ServerDrops(c)
    BY <2>4, QuitAndDropHandled
  <2>5. CASE ServeList(c) \/ RefuseJoin(c) \/ IgnoreQuit(c) \/ RefuseStart(c)
    BY <2>5, QuietHandlersHandled
  <2> QED BY <1>1, <2>1, <2>2, <2>3, <2>4, <2>5 DEF ServerStep
<1>2. ASSUME NEW c \in Clients, ClientStep(c)  PROVE LobbyInv'
  BY <1>2, PressesAsk, BackAndExitRest, AnswersKept, ReadersRest DEF ClientStep
<1>3. ASSUME NEW t \in GameRoomIds,
             \/ ThreadLoads(t) \/ GameReturns(t) \/ ThreadDestroysSdk(t)
             \/ ThreadEnds(t)
      PROVE  LobbyInv'
  BY <1>3, GamesRunUnseen
<1>4. CASE UNCHANGED allVars
  BY <1>4 DEF allVars, vars, lobbyVars, LobbyInv, LobbyTypes, WaitInv, HostInv, OwnRoom
<1> QED BY <1>1, <1>2, <1>3, <1>4 DEF LobbyNext

(* client/gameRoom.c, server/gameRoom.c: the streams are well formed, the    *)
(* answer a page waits for is on its way, and a game is started by nobody    *)
(* but who made its room, whatever the clients and the server do.            *)
THEOREM LobbyStreams == LobbySpec => []LobbyInv
<1>1. LobbyInit => LobbyInv
  <2> SUFFICES ASSUME LobbyInit PROVE LobbyInv
    OBVIOUS
  <2>1. LobbyTypes
    <3>1. <<>> \in Seq(Requests) /\ <<>> \in Seq(Packets) /\ <<>> \in Seq(Users)
      OBVIOUS
    <3>2. out \in [Clients -> Seq(Requests)] /\ inbox \in [Clients -> Seq(Packets)]
      BY <3>1 DEF LobbyInit
    <3>3. ui \in [Clients -> Pages]
      BY DEF LobbyInit, Pages
    <3>4. client \in [Clients -> ClientStates]
      BY <3>1 DEF LobbyInit, ClientStates
    <3> QED BY <3>2, <3>3, <3>4 DEF LobbyInit, LobbyTypes
  <2>2. WaitInv
    BY DEF LobbyInit, WaitInv
  <2>3. HostInv
    <3>1. ToSet(<<>>) = {}
      BY DEF ToSet
    <3>2. \A c \in Clients : /\ ~ui[c].host
                             /\ ToSet(inbox[c]) = {} /\ ToSet(out[c]) = {}
      BY <3>1 DEF LobbyInit
    <3>3. DOMAIN activeGameRooms \subseteq drawn
      BY DEF LobbyInit
    <3> QED BY <3>2, <3>3 DEF HostInv
  <2> QED BY <2>1, <2>2, <2>3 DEF LobbyInv
<1>2. IInv /\ LobbyInv /\ [LobbyNext]_allVars => LobbyInv'
  BY IInvIsParts, LobbyStepKeepsWaits
<1>3. LobbySpec => []IInv
  BY LobbyInvariant, PTL
<1> QED BY <1>1, <1>2, <1>3, PTL DEF LobbySpec

(* client/gameRoom.c: no page waits for an answer that will not come, until  *)
(* an IO thread takes answers as well, for any number of clients, rooms and  *)
(* seats, however long the streams.                                          *)
THEOREM NobodyWaitsCorrect == LobbySpec => []NobodyWaitsInVain
<1>1. LobbyInv => NobodyWaitsInVain
  <2> SUFFICES ASSUME LobbyInv, NEW c \in Clients,
                      ui[c].waiting # NoRequest /\ ~client[c].io,
                      state[c] # "Closed", inbox[c] = <<>>
               PROVE  out[c] # <<>>
    BY DEF NobodyWaitsInVain
  <2>1. PICK i \in DOMAIN out[c] : out[c][i].kind # "Quit"
    BY DEF LobbyInv, WaitInv
  <2> QED BY <2>1
<1> QED BY <1>1, LobbyStreams, PTL

-----------------------------------------------------------------------------
(* A client knows its room: the ways its stream may be read, and their end   *)

(* An empty stream leads nowhere else.                                       *)
LEMMA ReachesNone ==
    ASSUME NEW v \in Views, NEW w
    PROVE  Reaches(v, <<>>, w) <=> v = w
<1>1. ASSUME Reaches(v, <<>>, w)  PROVE v = w
  BY <1>1 DEF Reaches
<1>2. Reaches(v, <<>>, v)
  <2>1. PICK h : h = [i \in 1..1 |-> v]
    OBVIOUS
  <2>2. h \in [1..(Len(<<>>) + 1) -> Views] /\ h[1] = v
    BY <2>1
  <2> QED BY <2>2 DEF Reaches
<1> QED BY <1>1, <1>2

(* The first packet first.                                                   *)
LEMMA ReachesHead ==
    ASSUME NEW v \in Views, NEW w \in Views, NEW s \in Seq(Packets), s # <<>>
    PROVE  Reaches(v, s, w) <=>
             \E x \in Views : Reads(v, Head(s), x) /\ Reaches(x, Tail(s), w)
<1>1. /\ Len(s) \in Nat \ {0} /\ Len(Tail(s)) = Len(s) - 1 /\ Head(s) = s[1]
      /\ \A i \in 1..(Len(s) - 1) : Tail(s)[i] = s[i + 1]
  OBVIOUS
<1>2. ASSUME Reaches(v, s, w)
      PROVE  \E x \in Views : Reads(v, Head(s), x) /\ Reaches(x, Tail(s), w)
  <2>1. PICK h \in [1..(Len(s) + 1) -> Views] :
               /\ h[1] = v /\ h[Len(s) + 1] = w
               /\ \A i \in 1..Len(s) : Reads(h[i], s[i], h[i + 1])
    BY <1>2 DEF Reaches
  <2>2. PICK k : k = [i \in 1..Len(s) |-> h[i + 1]]
    OBVIOUS
  <2>3. /\ k \in [1..(Len(Tail(s)) + 1) -> Views]
        /\ k[1] = h[2] /\ k[Len(Tail(s)) + 1] = w
    BY <1>1, <2>1, <2>2
  <2>4. ASSUME NEW i \in 1..Len(Tail(s))
        PROVE  Reads(k[i], Tail(s)[i], k[i + 1])
    <3>1. /\ i + 1 \in 1..Len(s) /\ Tail(s)[i] = s[i + 1]
          /\ k[i] = h[i + 1] /\ k[i + 1] = h[(i + 1) + 1]
      BY <1>1, <2>2
    <3> QED BY <2>1, <3>1
  <2>5. Reaches(h[2], Tail(s), w)
    BY <2>3, <2>4 DEF Reaches
  <2>6. Reads(v, Head(s), h[2]) /\ h[2] \in Views
    BY <1>1, <2>1
  <2> QED BY <2>5, <2>6
<1>3. ASSUME NEW x \in Views, Reads(v, Head(s), x), Reaches(x, Tail(s), w)
      PROVE  Reaches(v, s, w)
  <2>1. PICK k \in [1..(Len(Tail(s)) + 1) -> Views] :
               /\ k[1] = x /\ k[Len(Tail(s)) + 1] = w
               /\ \A i \in 1..Len(Tail(s)) : Reads(k[i], Tail(s)[i], k[i + 1])
    BY <1>3 DEF Reaches
  <2>2. PICK h : h = [i \in 1..(Len(s) + 1) |-> IF i = 1 THEN v ELSE k[i - 1]]
    OBVIOUS
  <2>3. /\ h \in [1..(Len(s) + 1) -> Views]
        /\ h[1] = v /\ h[Len(s) + 1] = w
    BY <1>1, <2>1, <2>2
  <2>4. ASSUME NEW i \in 1..Len(s)
        PROVE  Reads(h[i], s[i], h[i + 1])
    <3>1. CASE i = 1
      <4>1. h[i] = v /\ h[i + 1] = x /\ s[i] = Head(s)
        BY <1>1, <2>1, <2>2, <3>1
      <4> QED BY <1>3, <4>1
    <3>2. CASE i # 1
      <4>1. /\ i - 1 \in 1..Len(Tail(s)) /\ Tail(s)[i - 1] = s[i]
            /\ h[i] = k[i - 1] /\ h[i + 1] = k[(i - 1) + 1]
        BY <1>1, <2>2, <3>2
      <4> QED BY <2>1, <4>1
    <3> QED BY <3>1, <3>2
  <2> QED BY <2>3, <2>4 DEF Reaches
<1> QED BY <1>2, <1>3

(* What was sent later is read later.                                        *)
LEMMA ReachesOn ==
    ASSUME NEW v \in Views, NEW w \in Views,
           NEW s \in Seq(Packets), NEW t \in Seq(Packets), Reaches(v, s \o t, w)
    PROVE  \E x \in Views : Reaches(v, s, x) /\ Reaches(x, t, w)
<1> DEFINE n == Len(s)
<1>1. /\ n \in Nat /\ Len(t) \in Nat /\ Len(s \o t) = n + Len(t)
      /\ \A i \in 1..n : (s \o t)[i] = s[i]
      /\ \A i \in 1..Len(t) : (s \o t)[n + i] = t[i]
  OBVIOUS
<1>2. PICK h \in [1..(Len(s \o t) + 1) -> Views] :
             /\ h[1] = v /\ h[Len(s \o t) + 1] = w
             /\ \A i \in 1..Len(s \o t) : Reads(h[i], (s \o t)[i], h[i + 1])
  BY DEF Reaches
<1>3. PICK x \in Views : x = h[n + 1]
  BY <1>1, <1>2
<1>4. Reaches(v, s, x)
  <2>1. PICK k : k = [i \in 1..(n + 1) |-> h[i]]
    OBVIOUS
  <2>2. k \in [1..(n + 1) -> Views] /\ k[1] = v /\ k[n + 1] = x
    BY <1>1, <1>2, <1>3, <2>1
  <2>3. ASSUME NEW i \in 1..n  PROVE Reads(k[i], s[i], k[i + 1])
    <3>1. /\ i \in 1..Len(s \o t) /\ (s \o t)[i] = s[i]
          /\ k[i] = h[i] /\ k[i + 1] = h[i + 1]
      BY <1>1, <2>1
    <3> QED BY <1>2, <3>1
  <2> QED BY <2>2, <2>3 DEF Reaches
<1>5. Reaches(x, t, w)
  <2>1. PICK k : k = [i \in 1..(Len(t) + 1) |-> h[n + i]]
    OBVIOUS
  <2>2. k \in [1..(Len(t) + 1) -> Views] /\ k[1] = x /\ k[Len(t) + 1] = w
    <3>1. \A i \in 1..(Len(t) + 1) : n + i \in 1..(Len(s \o t) + 1)
      BY <1>1
    <3>2. n + (Len(t) + 1) = Len(s \o t) + 1
      BY <1>1
    <3> QED BY <1>1, <1>2, <1>3, <2>1, <3>1, <3>2
  <2>3. ASSUME NEW i \in 1..Len(t)  PROVE Reads(k[i], t[i], k[i + 1])
    <3>1. /\ n + i \in 1..Len(s \o t) /\ (s \o t)[n + i] = t[i]
          /\ k[i] = h[n + i] /\ k[i + 1] = h[(n + i) + 1]
      BY <1>1, <2>1
    <3> QED BY <1>2, <3>1
  <2> QED BY <2>2, <2>3 DEF Reaches
<1> QED BY <1>4, <1>5

(* One packet.                                                               *)
LEMMA ReachesOne ==
    ASSUME NEW v \in Views, NEW w \in Views, NEW p \in Packets
    PROVE  Reaches(v, <<p>>, w) <=> Reads(v, p, w)
<1>1. PICK s \in Seq(Packets) : /\ s = <<p>> /\ s # <<>>
                                /\ Head(s) = p /\ Tail(s) = <<>>
  <2>1. <<p>> \in Seq(Packets) /\ <<p>> # <<>> /\ Head(<<p>>) = p /\ Tail(<<p>>) = <<>>
    OBVIOUS
  <2> QED BY <2>1
<1>2. Reaches(v, s, w) <=> \E x \in Views : Reads(v, p, x) /\ Reaches(x, <<>>, w)
  <2>1. Reaches(v, s, w) <=>
          \E x \in Views : Reads(v, Head(s), x) /\ Reaches(x, Tail(s), w)
    BY <1>1, ReachesHead
  <2> QED BY <1>1, <2>1
<1>3. \A x \in Views : Reaches(x, <<>>, w) <=> x = w
  BY ReachesNone
<1>4. Reaches(v, s, w) <=> Reads(v, p, w)
  BY <1>2, <1>3
<1> QED BY <1>1, <1>4

(* Two packets.                                                              *)
LEMMA ReachesTwo ==
    ASSUME NEW v \in Views, NEW w \in Views, NEW p \in Packets, NEW q \in Packets,
           Reaches(v, <<p, q>>, w)
    PROVE  \E x \in Views : Reads(v, p, x) /\ Reads(x, q, w)
<1>1. PICK s \in Seq(Packets) : /\ s = <<p, q>> /\ s # <<>>
                                /\ Head(s) = p /\ Tail(s) = <<q>>
  <2>1. /\ <<p, q>> \in Seq(Packets) /\ <<p, q>> # <<>>
        /\ Head(<<p, q>>) = p /\ Tail(<<p, q>>) = <<q>>
    OBVIOUS
  <2> QED BY <2>1
<1>2. PICK x \in Views : Reads(v, Head(s), x) /\ Reaches(x, Tail(s), w)
  BY <1>1, ReachesHead
<1>3. Reads(x, q, w)
  <2>1. Reaches(x, <<q>>, w)
    BY <1>1, <1>2
  <2> QED BY <2>1, ReachesOne
<1> QED BY <1>1, <1>2, <1>3

-----------------------------------------------------------------------------
(* What a packet can do to a reader that loses no news                       *)

(* The request for the list is one, and not the value for none.              *)
LEMMA ListingAsks ==
    /\ Listing \in Requests /\ Listing.kind = "List" /\ Listing.room = NoRoom
    /\ Listing # NoRequest /\ NoRequest \notin Requests
  BY GameLobbyAssumption DEF Listing, Ask, Requests, Kinds

(* What the fields of a packet of each type hold.                            *)
LEMMA PacketTypes ==
    ASSUME NEW p \in Packets
    PROVE  /\ p.type \in {"ListResp", "CreateResp", "JoinResp", "QuitResp",
                           "StartResp", "MemberList", "MemberJoin", "MemberQuit"}
           /\ p.type = "CreateResp" => p.room \in GameRoomIds \cup {NoRoom}
           /\ p.type \in {"JoinResp", "QuitResp", "StartResp"} => p.ok \in BOOLEAN
           /\ p.type = "MemberList" => p.uids \in Seq(Users)
           /\ p.type \in {"MemberJoin", "MemberQuit"} => p.uid \in Users
           /\ p.type = "MemberQuit" => p.dissolved \in BOOLEAN
  BY DEF Packets

(* A notice is only read by the update of the lobby page, but for the start  *)
(* of the game that was asked for.                                           *)
LEMMA NoticeRead ==
    ASSUME NEW v \in Views, NEW w \in Views, NEW p \in Packets, Notice(p),
           Reads(v, p, w)
    PROVE  \/ v.asks = NoRequest /\ w = Shown(v, p)
           \/ /\ v.asks # NoRequest /\ v.asks.kind = "Start"
              /\ p.type = "StartResp" /\ w = Launched(v)
<1>1. ~SkipsOver(v, p, w)
  BY DEF SkipsOver, Tells
<1>2. CASE Shows(v, p, w)
  BY <1>2 DEF Shows
<1>3. CASE IsAnswered(v, p, w)
  <2>1. v.asks \in Requests /\ v.asks # NoRequest /\ p.type = Expected(v.asks.kind)
    BY <1>3 DEF IsAnswered, Views
  <2>2. p.type # "CreateResp" /\ p.type # "JoinResp"
    BY DEF Notice
  <2>3. v.asks.kind # "Create" /\ v.asks.kind # "Join"
    BY <2>1, <2>2 DEF Expected
  <2>4. v.asks.kind = "Start" /\ w = Launched(v)
    BY <1>3, <2>3 DEF IsAnswered
  <2>5. p.type = "StartResp"
    BY <2>1, <2>4 DEF Expected
  <2> QED BY <2>1, <2>4, <2>5
<1> QED BY <1>1, <1>2, <1>3 DEF Reads

(* A packet that says nothing.                                               *)
LEMMA PlainRead ==
    ASSUME NEW v \in Views, NEW w \in Views, NEW p \in Packets, ~Tells(v, p),
           Reads(v, p, w)
    PROVE  \/ w = v
           \/ v.asks # NoRequest /\ w = [v EXCEPT !.asks = NextAsk(v)]
<1>1. CASE SkipsOver(v, p, w)
  BY <1>1 DEF SkipsOver
<1>2. ~Shows(v, p, w)
  BY DEF Shows, Tells
<1>3. CASE IsAnswered(v, p, w)
  <2>1. v.asks # NoRequest /\ p.type = Expected(v.asks.kind)
    BY <1>3 DEF IsAnswered
  <2>2. ~(p.type = "JoinResp" /\ p.ok) /\ ~(p.type = "StartResp" /\ p.ok)
    BY DEF Tells, Notice
  <2>3. ~(p.type = "CreateResp" /\ p.room # NoRoom)
    BY DEF Tells
  <2>4. CASE v.asks.kind = "Create" /\ p.room # NoRoom
    BY <2>1, <2>3, <2>4 DEF Expected
  <2>5. CASE v.asks.kind = "Join" /\ p.ok
    BY <2>1, <2>2, <2>5 DEF Expected
  <2>6. CASE v.asks.kind = "Start" /\ p.ok
    BY <2>1, <2>2, <2>6 DEF Expected
  <2> QED BY <1>3, <2>4, <2>5, <2>6 DEF IsAnswered
<1> QED BY <1>1, <1>2, <1>3 DEF Reads

-----------------------------------------------------------------------------
(* The answers in a stream                                                   *)

(* The answers in a stream of which the end was sent later.                  *)
LEMMA StreamsTogether ==
    ASSUME NEW s \in Seq(Packets), NEW t \in Seq(Packets), NEW K, NEW L
    PROVE  /\ None(s) /\ None(t) => None(s \o t)
           /\ One(s, K) /\ None(t) => One(s \o t, K)
           /\ None(s) /\ One(t, K) => One(s \o t, K)
           /\ One(s, K) /\ One(t, L) => Two(s \o t, K, L)
           /\ Two(s, K, L) /\ None(t) => Two(s \o t, K, L)
<1>1. PICK n \in Nat : n = Len(s)
  OBVIOUS
<1>2. PICK u : u = s \o t
  OBVIOUS
<1>3. /\ DOMAIN s = 1..n /\ DOMAIN t = 1..Len(t) /\ DOMAIN u = 1..(n + Len(t))
      /\ Len(t) \in Nat
      /\ \A i \in 1..n : u[i] = s[i]
      /\ \A i \in 1..Len(t) : u[n + i] = t[i]
      /\ \A i \in DOMAIN u : i \in 1..n \/ (i - n \in 1..Len(t) /\ u[i] = t[i - n])
  BY <1>1, <1>2
<1>4. None(s) /\ None(t) => None(u)
  BY <1>3 DEF None
<1>5. ASSUME One(s, K), None(t)  PROVE One(u, K)
  <2>1. PICK i \in DOMAIN s : /\ AnswersTo(s[i], K)
                              /\ \A j \in DOMAIN s \ {i} : Notice(s[j])
    BY <1>5 DEF One
  <2>2. i \in DOMAIN u /\ AnswersTo(u[i], K)
    BY <1>3, <2>1
  <2>3. \A j \in DOMAIN u \ {i} : Notice(u[j])
    BY <1>3, <1>5, <2>1 DEF None
  <2> QED BY <2>2, <2>3 DEF One
<1>6. ASSUME None(s), One(t, K)  PROVE One(u, K)
  <2>1. PICK i \in DOMAIN t : /\ AnswersTo(t[i], K)
                              /\ \A j \in DOMAIN t \ {i} : Notice(t[j])
    BY <1>6 DEF One
  <2>2. n + i \in DOMAIN u /\ AnswersTo(u[n + i], K)
    BY <1>3, <2>1
  <2>3. \A j \in DOMAIN u \ {n + i} : Notice(u[j])
    BY <1>3, <1>6, <2>1 DEF None
  <2> QED BY <2>2, <2>3 DEF One
<1>7. ASSUME One(s, K), One(t, L)  PROVE Two(u, K, L)
  <2>1. PICK i \in DOMAIN s : /\ AnswersTo(s[i], K)
                              /\ \A j \in DOMAIN s \ {i} : Notice(s[j])
    BY <1>7 DEF One
  <2>2. PICK k \in DOMAIN t : /\ AnswersTo(t[k], L)
                              /\ \A j \in DOMAIN t \ {k} : Notice(t[j])
    BY <1>7 DEF One
  <2>3. /\ i \in DOMAIN u /\ AnswersTo(u[i], K) /\ i < n + k
        /\ n + k \in DOMAIN u /\ AnswersTo(u[n + k], L)
    BY <1>3, <2>1, <2>2
  <2>4. \A j \in DOMAIN u \ {i, n + k} : Notice(u[j])
    BY <1>3, <2>1, <2>2
  <2> QED BY <2>3, <2>4 DEF Two
<1>8. ASSUME Two(s, K, L), None(t)  PROVE Two(u, K, L)
  <2>1. PICK i \in DOMAIN s, k \in DOMAIN s :
               /\ i < k /\ AnswersTo(s[i], K) /\ AnswersTo(s[k], L)
               /\ \A j \in DOMAIN s \ {i, k} : Notice(s[j])
    BY <1>8 DEF Two
  <2>2. /\ i \in DOMAIN u /\ AnswersTo(u[i], K)
        /\ k \in DOMAIN u /\ AnswersTo(u[k], L)
    BY <1>3, <2>1
  <2>3. \A j \in DOMAIN u \ {i, k} : Notice(u[j])
    BY <1>3, <1>8, <2>1 DEF None
  <2> QED BY <2>1, <2>2, <2>3 DEF Two
<1> QED BY <1>2, <1>4, <1>5, <1>6, <1>7, <1>8

(* The first packet of a stream is a notice, or it is the first answer.      *)
LEMMA StreamsRead ==
    ASSUME NEW s \in Seq(Packets), s # <<>>, NEW K, NEW L
    PROVE  /\ None(s) => Notice(Head(s)) /\ None(Tail(s))
           /\ One(s, K) => \/ Notice(Head(s)) /\ One(Tail(s), K)
                           \/ AnswersTo(Head(s), K) /\ None(Tail(s))
           /\ Two(s, K, L) => \/ Notice(Head(s)) /\ Two(Tail(s), K, L)
                              \/ AnswersTo(Head(s), K) /\ One(Tail(s), L)
<1>1. PICK t \in Seq(Packets) : t = Tail(s)
  <2>1. Tail(s) \in Seq(Packets)
    OBVIOUS
  <2> QED BY <2>1
<1>2. /\ Len(s) \in Nat \ {0} /\ DOMAIN s = 1..Len(s) /\ DOMAIN t = 1..(Len(s) - 1)
      /\ Head(s) = s[1] /\ 1 \in DOMAIN s
      /\ \A i \in DOMAIN t : i + 1 \in DOMAIN s /\ t[i] = s[i + 1] /\ i + 1 # 1
      /\ \A i \in DOMAIN s : i # 1 => i - 1 \in DOMAIN t /\ s[i] = t[i - 1]
  BY <1>1
<1>3. None(s) => Notice(Head(s)) /\ None(t)
  BY <1>2 DEF None
<1>4. ASSUME One(s, K)
      PROVE  \/ Notice(Head(s)) /\ One(t, K)
             \/ AnswersTo(Head(s), K) /\ None(t)
  <2>1. PICK i \in DOMAIN s : /\ AnswersTo(s[i], K)
                              /\ \A j \in DOMAIN s \ {i} : Notice(s[j])
    BY <1>4 DEF One
  <2>2. CASE i = 1
    BY <1>2, <2>1, <2>2 DEF None
  <2>3. CASE i # 1
    <3>1. i - 1 \in DOMAIN t /\ AnswersTo(t[i - 1], K) /\ Notice(Head(s))
      BY <1>2, <2>1, <2>3
    <3>2. \A j \in DOMAIN t \ {i - 1} : Notice(t[j])
      BY <1>2, <2>1, <2>3
    <3> QED BY <3>1, <3>2 DEF One
  <2> QED BY <2>2, <2>3
<1>5. ASSUME Two(s, K, L)
      PROVE  \/ Notice(Head(s)) /\ Two(t, K, L)
             \/ AnswersTo(Head(s), K) /\ One(t, L)
  <2>1. PICK i \in DOMAIN s, k \in DOMAIN s :
               /\ i < k /\ AnswersTo(s[i], K) /\ AnswersTo(s[k], L)
               /\ \A j \in DOMAIN s \ {i, k} : Notice(s[j])
    BY <1>5 DEF Two
  <2>2. k - 1 \in DOMAIN t /\ AnswersTo(t[k - 1], L)
    BY <1>2, <2>1
  <2>3. CASE i = 1
    <3>1. \A j \in DOMAIN t \ {k - 1} : Notice(t[j])
      BY <1>2, <2>1, <2>3
    <3> QED BY <1>2, <2>1, <2>2, <2>3, <3>1 DEF One
  <2>4. CASE i # 1
    <3>1. /\ i - 1 \in DOMAIN t /\ AnswersTo(t[i - 1], K) /\ Notice(Head(s))
          /\ i - 1 < k - 1
      BY <1>2, <2>1, <2>4
    <3>2. ASSUME NEW j \in DOMAIN t, j # i - 1, j # k - 1  PROVE Notice(t[j])
      <4>1. j + 1 \in DOMAIN s \ {i, k} /\ t[j] = s[j + 1]
        BY <1>2, <3>2
      <4> QED BY <2>1, <4>1
    <3> QED BY <2>2, <3>1, <3>2 DEF Two
  <2> QED BY <2>3, <2>4
<1> QED BY <1>1, <1>3, <1>4, <1>5

(* The answers in what the server sends at once.                             *)
LEMMA SmallStreams ==
    /\ None(<<>>)
    /\ \A p \in Packets : Notice(p) => None(<<p>>)
    /\ \A p, q \in Packets : Notice(p) /\ Notice(q) => None(<<p, q>>)
    /\ \A K : \A p \in Packets : AnswersTo(p, K) => One(<<p>>, K)
    /\ \A K : \A p, q \in Packets : AnswersTo(p, K) /\ Notice(q) => One(<<p, q>>, K)
<1>1. None(<<>>) /\ \A p \in Packets : Notice(p) => None(<<p>>)
  BY DEF None
<1>2. \A p, q \in Packets : Notice(p) /\ Notice(q) => None(<<p, q>>)
  BY DEF None
<1>3. \A K : \A p \in Packets : AnswersTo(p, K) => One(<<p>>, K)
  BY DEF One
<1>4. ASSUME NEW p \in Packets, NEW q \in Packets, NEW K,
             AnswersTo(p, K), Notice(q)
      PROVE  One(<<p, q>>, K)
  <2>1. PICK s : s = <<p, q>>
    OBVIOUS
  <2>2. DOMAIN s = {1, 2} /\ s[1] = p /\ s[2] = q
    BY <2>1
  <2>3. One(s, K)
    BY <1>4, <2>2 DEF One
  <2> QED BY <2>1, <2>3
<1> QED BY <1>1, <1>2, <1>3, <1>4

-----------------------------------------------------------------------------
(* What is owed to a client                                                  *)

(* Each kind of request has an answer of its own type.                       *)
LEMMA AnswerKinds ==
    ASSUME NEW p, NEW k \in Kinds, NEW K \in SUBSET Kinds, AnswersTo(p, K)
    PROVE  /\ AnswersTo(p, {k}) <=> p.type = Expected(k)
           /\ p.type = Expected(k) => k \in K
           /\ ~Notice(p)
  BY DEF AnswersTo, Expected, Kinds

(* The kinds of requests that may be before another one.                     *)
LEMMA RequestKinds ==
    /\ \A q \in Requests : /\ q.kind \in Kinds /\ Before(q) \subseteq Kinds
                           /\ Stale \subseteq Before(q)
    /\ Stale \subseteq Kinds
    /\ \A k \in Kinds : {k} \subseteq Kinds
  BY DEF Requests, Before, Stale, Kinds

(* One or two requests before the server.                                    *)
LEMMA ShortStreams ==
    /\ \A q \in Requests : /\ <<q>> # <<>> /\ Head(<<q>>) = q /\ Tail(<<q>>) = <<>>
                           /\ \A r \in Requests : /\ <<q>> # <<q, r>>
                                                  /\ <<q>> = <<r>> => q = r
    /\ \A q, r \in Requests : /\ <<q, r>> # <<>> /\ Head(<<q, r>>) = q
                              /\ Tail(<<q, r>>) = <<r>>
    /\ \A q \in Requests : ToSet(<<q>>) = {q}
    /\ \A q, r \in Requests : ToSet(<<q, r>>) = {q, r}
    /\ ToSet(<<>>) = {}
  BY DEF ToSet

(* A request is sent after another one, or after none.                       *)
LEMMA Joining ==
    ASSUME NEW q \in Requests
    PROVE  /\ <<>> \o <<q>> = <<q>>
           /\ \A r \in Requests : <<r>> \o <<q>> = <<r, q>>
<1>1. <<q>> \in Seq(Requests)
  OBVIOUS
<1>2. <<>> \o <<q>> = <<q>>
  BY <1>1, ConcatEmptySeq
<1>3. ASSUME NEW r \in Requests  PROVE <<r>> \o <<q>> = <<r, q>>
  <2>1. PICK a \in Seq(Requests), b \in Seq(Requests) :
               a = <<r>> \o <<q>> /\ b = <<r, q>>
    <3>1. <<r>> \in Seq(Requests) /\ <<r, q>> \in Seq(Requests)
      OBVIOUS
    <3>2. <<r>> \o <<q>> \in Seq(Requests)
      BY <1>1, <3>1, ConcatProperties
    <3> QED BY <3>1, <3>2
  <2>2. Len(a) = Len(b) /\ \A i \in 1..Len(a) : a[i] = b[i]
    BY <2>1
  <2>3. a = b
    BY <2>2, SeqEqual
  <2> QED BY <2>1, <2>3
<1> QED BY <1>2, <1>3

(* What answers a request of K answers one of a larger set.                  *)
LEMMA MoreKinds ==
    ASSUME NEW s, NEW K, NEW L, NEW M, K \subseteq M
    PROVE  /\ One(s, K) => One(s, M)
           /\ Two(s, K, L) => Two(s, M, L)
  BY DEF One, Two, AnswersTo

(* The server takes the first request and answers it.                        *)
LEMMA AnswerOwed ==
    ASSUME NEW w \in Requests \cup {NoRequest}, NEW bound \in BOOLEAN,
           NEW s \in Seq(Packets), NEW t \in Seq(Packets), NEW o \in Seq(Requests),
           Owes(w, bound, s, o), o # <<>>, One(t, {Head(o).kind})
    PROVE  Owes(w, bound, s \o t, Tail(o))
<1>1. /\ None(s) => One(s \o t, {Head(o).kind})
      /\ \A K : One(s, K) => Two(s \o t, K, {Head(o).kind})
  BY StreamsTogether
<1>2. CASE w = NoRequest
  <2>1. PICK q \in Requests : ~bound /\ None(s) /\ q.kind \in Stale /\ o = <<q>>
    BY <1>2 DEF Owes
  <2>2. Head(o) = q /\ Tail(o) = <<>>
    BY <2>1, ShortStreams
  <2>3. One(s \o t, Stale)
    BY <1>1, <2>1, <2>2, MoreKinds
  <2> QED BY <1>2, <2>1, <2>2, <2>3 DEF Owes
<1>3. CASE w # NoRequest
  <2>1. w \in Requests
    BY <1>3
  <2>2. CASE None(s) /\ o = <<w>>
    <3>1. Head(o) = w /\ Tail(o) = <<>>
      BY <2>1, <2>2, ShortStreams
    <3> QED BY <1>1, <1>3, <2>2, <3>1 DEF Owes
  <2>3. CASE ~bound /\ w.kind # "Start" /\ One(s, Before(w)) /\ o = <<w>>
    <3>1. Head(o) = w /\ Tail(o) = <<>>
      BY <2>1, <2>3, ShortStreams
    <3>2. Two(s \o t, Before(w), {w.kind})
      BY <1>1, <2>3, <3>1
    <3> QED BY <1>3, <2>3, <3>1, <3>2 DEF Owes
  <2>4. CASE /\ ~bound /\ w.kind # "Start" /\ None(s)
             /\ \E q \in Requests : q.kind \in Before(w) /\ o = <<q, w>>
    <3>1. PICK q \in Requests : q.kind \in Before(w) /\ o = <<q, w>>
      BY <2>4
    <3>2. Head(o) = q /\ Tail(o) = <<w>>
      BY <2>1, <3>1, ShortStreams
    <3>3. One(s \o t, Before(w))
      BY <1>1, <2>4, <3>1, <3>2, MoreKinds
    <3> QED BY <1>3, <2>4, <3>2, <3>3 DEF Owes
  <2> QED BY <1>3, <2>2, <2>3, <2>4 DEF Owes
<1> QED BY <1>2, <1>3

(* The server takes a quit it does not answer, or starts the game.           *)
LEMMA TakenOwed ==
    ASSUME NEW w \in Requests \cup {NoRequest}, NEW bound \in BOOLEAN,
           NEW s \in Seq(Packets), NEW t \in Seq(Packets), NEW o \in Seq(Requests),
           Owes(w, bound, s, o), o # <<>>, Head(o).kind \in {"Quit", "Start"}, None(t),
           w # NoRequest => w.kind # "Quit"
    PROVE  Owes(w, bound, s \o t, Tail(o))
<1>1. None(s) => None(s \o t)
  BY StreamsTogether
<1>2. CASE w = NoRequest
  <2>1. PICK q \in Requests : ~bound /\ None(s) /\ q.kind \in Stale /\ o = <<q>>
    BY <1>2 DEF Owes
  <2>2. Head(o) = q /\ Tail(o) = <<>>
    BY <2>1, ShortStreams
  <2> QED BY <1>1, <1>2, <2>1, <2>2 DEF Owes
<1>3. CASE w # NoRequest
  <2>1. w \in Requests
    BY <1>3
  <2>2. CASE None(s) /\ o = <<w>>
    <3>1. Tail(o) = <<>>
      BY <2>1, <2>2, ShortStreams
    <3> QED BY <1>1, <1>3, <2>2, <3>1 DEF Owes
  <2>3. ~(w.kind # "Start" /\ o = <<w>>)
    BY <1>3, <2>1, ShortStreams
  <2>4. CASE /\ ~bound /\ w.kind # "Start" /\ None(s)
             /\ \E q \in Requests : q.kind \in Before(w) /\ o = <<q, w>>
    <3>1. Tail(o) = <<w>>
      BY <2>1, <2>4, ShortStreams
    <3> QED BY <1>1, <1>3, <2>4, <3>1 DEF Owes
  <2> QED BY <1>3, <2>2, <2>3, <2>4 DEF Owes
<1> QED BY <1>2, <1>3

(* News that answers nothing arrives.                                        *)
LEMMA NewsOwed ==
    ASSUME NEW w \in Requests \cup {NoRequest}, NEW bound \in BOOLEAN,
           NEW s \in Seq(Packets), NEW t \in Seq(Packets), NEW o,
           Owes(w, bound, s, o), None(t)
    PROVE  Owes(w, bound, s \o t, o)
<1>1. /\ None(s) => None(s \o t)
      /\ \A K, L : /\ One(s, K) => One(s \o t, K)
                   /\ Two(s, K, L) => Two(s \o t, K, L)
  BY StreamsTogether
<1> QED BY <1>1 DEF Owes

(* What is before the server.                                                *)
LEMMA RequestsOwed ==
    ASSUME NEW w \in Requests \cup {NoRequest}, NEW bound, NEW s, NEW o,
           Owes(w, bound, s, o), w # NoRequest => w.kind # "Quit"
    PROVE  /\ w = NoRequest => \A q \in ToSet(o) : q.kind # "Join"
           /\ w = NoRequest /\ bound => None(s) /\ o = <<>>
           /\ w = NoRequest => None(s) \/ One(s, Stale)
           /\ o # <<>> =>
                /\ Head(o).kind \in {"Create", "Join"} =>
                     \A q \in ToSet(Tail(o)) : q.kind # "Join"
                /\ Head(o).kind = "Quit" => \A q \in ToSet(Tail(o)) : q.kind # "Quit"
                /\ Head(o).kind # "Quit" => \A q \in ToSet(o) : q.kind # "Quit"
<1>1. CASE o = <<>>
  BY <1>1, ShortStreams DEF Owes
<1>2. CASE w = NoRequest /\ o # <<>>
  <2>1. PICK q \in Requests : ~bound /\ None(s) /\ q.kind \in Stale /\ o = <<q>>
    BY <1>2 DEF Owes
  <2>2. Head(o) = q /\ Tail(o) = <<>> /\ ToSet(o) = {q} /\ ToSet(Tail(o)) = {}
    BY <2>1, ShortStreams
  <2> QED BY <1>2, <2>1, <2>2 DEF Stale
<1>3. CASE w # NoRequest /\ o = <<w>>
  <2>1. Head(o) = w /\ Tail(o) = <<>> /\ ToSet(o) = {w} /\ ToSet(Tail(o)) = {}
    BY <1>3, ShortStreams
  <2> QED BY <1>3, <2>1
<1>4. CASE w # NoRequest /\ o # <<>> /\ o # <<w>>
  <2>1. PICK q \in Requests : q.kind \in Before(w) /\ o = <<q, w>>
    BY <1>4 DEF Owes
  <2>2. Head(o) = q /\ Tail(o) = <<w>> /\ ToSet(o) = {q, w} /\ ToSet(Tail(o)) = {w}
    BY <1>4, <2>1, ShortStreams
  <2>3. w.kind = "List" \/ q.kind \in Stale
    BY <2>1 DEF Before
  <2> QED BY <1>4, <2>1, <2>2, <2>3 DEF Stale
<1> QED BY <1>1, <1>2, <1>3, <1>4

(* The client takes a packet and waits on for what it waited for.            *)
LEMMA ReadOwed ==
    ASSUME NEW w \in Requests \cup {NoRequest}, NEW bound \in BOOLEAN,
           NEW s \in Seq(Packets), s # <<>>, NEW o, Owes(w, bound, s, o)
    PROVE  Owes(w, bound, Tail(s), o)
<1>1. /\ None(s) => None(Tail(s))
      /\ \A K : One(s, K) => One(Tail(s), K) \/ None(Tail(s))
      /\ \A K, L : Two(s, K, L) => Two(Tail(s), K, L) \/ One(Tail(s), L)
  BY StreamsRead
<1> QED BY <1>1 DEF Owes

(* It takes the end of its wait, or what it takes for it, and lists the      *)
(* rooms; the page may have joined a room by the answer it waited for.       *)
LEMMA RelistOwed ==
    ASSUME NEW w \in Requests, w # NoRequest, NEW bound \in BOOLEAN, NEW after \in BOOLEAN,
           NEW s \in Seq(Packets), s # <<>>, NEW o, Owes(w, bound, s, o),
           ~Notice(Head(s)), w.kind \in {"Create", "Join"},
           after = bound \/ Head(s).type = Expected(w.kind)
    PROVE  Owes(Listing, after, Tail(s), o \o <<Listing>>)
<1>1. Listing \in Requests /\ Listing.kind = "List" /\ Listing # NoRequest
  BY ListingAsks
<1>2. /\ ~None(s)
      /\ \A K : One(s, K) => AnswersTo(Head(s), K) /\ None(Tail(s))
      /\ \A K, L : Two(s, K, L) => AnswersTo(Head(s), K) /\ One(Tail(s), L)
  BY StreamsRead
<1>3. /\ <<>> \o <<Listing>> = <<Listing>>
      /\ <<w>> \o <<Listing>> = <<w, Listing>>
  BY <1>1, Joining
<1>4. w.kind \in Kinds /\ {w.kind} \subseteq Kinds /\ Before(Listing) = Kinds
      /\ Before(w) = Stale /\ w.kind \notin Stale /\ Stale \subseteq Kinds
  BY <1>1, RequestKinds DEF Before, Stale
<1>5. AnswersTo(Head(s), Stale) => Head(s).type # Expected(w.kind)
  BY <1>4, AnswerKinds
<1>6. CASE One(s, {w.kind}) /\ o = <<>>
  BY <1>1, <1>2, <1>3, <1>6 DEF Owes
<1>7. CASE ~bound /\ Two(s, Before(w), {w.kind}) /\ o = <<>>
  <2>1. One(Tail(s), Kinds) /\ ~after
    BY <1>2, <1>4, <1>5, <1>7, MoreKinds
  <2> QED BY <1>1, <1>3, <1>4, <1>7, <2>1 DEF Owes
<1>8. CASE ~bound /\ One(s, Before(w)) /\ o = <<w>>
  <2>1. None(Tail(s)) /\ ~after
    BY <1>2, <1>4, <1>5, <1>8
  <2> QED BY <1>1, <1>3, <1>4, <1>8, <2>1 DEF Owes
<1> QED BY <1>2, <1>6, <1>7, <1>8 DEF Owes

(* It takes it and waits for nothing.                                        *)
LEMMA RestOwed ==
    ASSUME NEW w \in Requests, w # NoRequest, NEW bound \in BOOLEAN, NEW after \in BOOLEAN,
           NEW s \in Seq(Packets), s # <<>>, NEW o, Owes(w, bound, s, o),
           ~Notice(Head(s)),
           \/ w.kind \in {"List", "Start"} /\ after = bound
           \/ w.kind = "Join" /\ Head(s).type = Expected(w.kind)
    PROVE  Owes(NoRequest, after, Tail(s), o)
<1>1. /\ ~None(s)
      /\ \A K : One(s, K) => AnswersTo(Head(s), K) /\ None(Tail(s))
      /\ \A K, L : Two(s, K, L) => AnswersTo(Head(s), K) /\ One(Tail(s), L)
  BY StreamsRead
<1>2. w.kind \in Kinds /\ {w.kind} \subseteq Kinds /\ Stale \subseteq Kinds
  BY RequestKinds
<1>3. AnswersTo(Head(s), Stale) /\ w.kind = "Join" => Head(s).type # Expected(w.kind)
  BY <1>2 DEF AnswersTo, Stale, Expected
<1>4. CASE One(s, {w.kind}) /\ o = <<>>
  BY <1>1, <1>4 DEF Owes
<1>5. CASE ~bound /\ w.kind # "Start" /\ Two(s, Before(w), {w.kind}) /\ o = <<>>
  <2>1. w.kind = "List" /\ ~after
    BY <1>1, <1>3, <1>5 DEF Before
  <2>2. One(Tail(s), Stale)
    <3>1. {w.kind} \subseteq Stale
      BY <2>1 DEF Stale
    <3> QED BY <1>1, <1>5, <3>1, MoreKinds
  <2> QED BY <1>5, <2>1, <2>2 DEF Owes
<1>6. CASE ~bound /\ w.kind # "Start" /\ One(s, Before(w)) /\ o = <<w>>
  <2>1. w.kind = "List" /\ ~after
    BY <1>1, <1>3, <1>6 DEF Before
  <2> QED BY <1>1, <1>6, <2>1 DEF Owes, Stale
<1> QED BY <1>1, <1>4, <1>5, <1>6 DEF Owes

(* The game is launched and the lobby page is left.                          *)
LEMMA LaunchOwed ==
    ASSUME NEW w \in Requests \cup {NoRequest}, NEW bound \in BOOLEAN,
           NEW s \in Seq(Packets), s # <<>>, NEW o, Owes(w, bound, s, o),
           Notice(Head(s)), w # NoRequest => w.kind = "Start"
    PROVE  Owes(NoRequest, FALSE, Tail(s), o)
<1>1. /\ None(s) => None(Tail(s))
      /\ \A K : One(s, K) => One(Tail(s), K)
  BY StreamsRead DEF AnswersTo
<1>2. One(Tail(s), {"Start"}) => One(Tail(s), Stale)
  BY MoreKinds DEF Stale
<1>3. CASE w = NoRequest
  BY <1>1, <1>3 DEF Owes
<1>4. CASE w # NoRequest
  BY <1>1, <1>2, <1>4 DEF Owes, Stale
<1> QED BY <1>3, <1>4

(* The user presses a button of the lobby page, or play on the home page.    *)
LEMMA PressOwed ==
    ASSUME NEW bound \in BOOLEAN, NEW q \in Requests, q # NoRequest, NEW s, NEW o,
           Owes(NoRequest, bound, s, o), q.kind = "Start" => bound
    PROVE  Owes(q, bound, s, o \o <<q>>)
<1>1. /\ <<>> \o <<q>> = <<q>>
      /\ \A r \in Requests : <<r>> \o <<q>> = <<r, q>>
  BY Joining
<1>2. One(s, Stale) => One(s, Before(q))
  BY RequestKinds, MoreKinds
<1>3. \A r \in Requests : r.kind \in Stale => r.kind \in Before(q)
  BY RequestKinds
<1>4. CASE None(s) /\ o = <<>>
  BY <1>1, <1>4 DEF Owes
<1>5. CASE ~bound /\ One(s, Stale) /\ o = <<>>
  BY <1>1, <1>2, <1>5 DEF Owes
<1>6. CASE ~bound /\ None(s) /\ \E r \in Requests : r.kind \in Stale /\ o = <<r>>
  BY <1>1, <1>3, <1>6 DEF Owes
<1> QED BY <1>4, <1>5, <1>6 DEF Owes

(* Records: what the fields of a view become.                                *)
LEMMA ViewFields ==
    ASSUME NEW v \in Views
    PROVE  /\ v.room \in GameRoomIds \cup {NoRoom} /\ v.members \in Seq(Users)
           /\ v.asks \in Requests \cup {NoRequest} /\ v.joined \in GameRoomIds \cup {NoRoom}
           /\ \A q \in Requests \cup {NoRequest} :
                /\ [v EXCEPT !.asks = q] \in Views
                /\ [v EXCEPT !.asks = q].asks = q
                /\ [v EXCEPT !.asks = q].room = v.room
                /\ [v EXCEPT !.asks = q].members = v.members
                /\ [v EXCEPT !.asks = q].joined = v.joined
                /\ \A r : [[v EXCEPT !.asks = q] EXCEPT !.asks = r] = [v EXCEPT !.asks = r]
                /\ Launched([v EXCEPT !.asks = q]) = Launched(v)
           /\ v = [v EXCEPT !.asks = v.asks]
           /\ Launched(v) \in Views /\ Launched(v).room = v.room
           /\ Launched(v).members = v.members /\ Launched(v).joined = NoRoom
           /\ Launched(v).asks = Listing
<1>1. Listing \in Requests
  BY ListingAsks
<1>2. /\ v.room \in GameRoomIds \cup {NoRoom} /\ v.members \in Seq(Users)
      /\ v.asks \in Requests \cup {NoRequest} /\ v.joined \in GameRoomIds \cup {NoRoom}
  BY DEF Views
<1>3. ASSUME NEW q \in Requests \cup {NoRequest}
      PROVE  /\ [v EXCEPT !.asks = q] \in Views
             /\ [v EXCEPT !.asks = q].asks = q
             /\ [v EXCEPT !.asks = q].room = v.room
             /\ [v EXCEPT !.asks = q].members = v.members
             /\ [v EXCEPT !.asks = q].joined = v.joined
             /\ \A r : [[v EXCEPT !.asks = q] EXCEPT !.asks = r] = [v EXCEPT !.asks = r]
  BY DEF Views
<1>4. ASSUME NEW q \in Requests \cup {NoRequest}
      PROVE  Launched([v EXCEPT !.asks = q]) = Launched(v)
  BY DEF Views, Launched
<1>5. v = [v EXCEPT !.asks = v.asks]
  BY DEF Views
<1>6. /\ Launched(v) \in Views /\ Launched(v).room = v.room
      /\ Launched(v).members = v.members /\ Launched(v).joined = NoRoom
      /\ Launched(v).asks = Listing
  BY <1>1 DEF Views, Launched
<1> QED BY <1>2, <1>3, <1>4, <1>5, <1>6

(* The user of a page that waits for nothing presses a button.  What its     *)
(* stream leads to from there, it led to before, or it is all there to see   *)
(* without the request: a notice is read when nothing is waited for.         *)
LEMMA PressedRuns ==
    ASSUME NEW v \in Views, v.asks = NoRequest, NEW q \in Requests, q.kind # "Quit",
           NEW s \in Seq(Packets), None(s) \/ One(s, Stale), NEW w \in Views,
           Reaches([v EXCEPT !.asks = q], s, w)
    PROVE  \/ Reaches(v, s, w)
           \/ /\ Reaches(v, s, v)
              /\ w = [v EXCEPT !.asks = q] \/ w = [v EXCEPT !.asks = Listing]
<1>1. PICK u \in Views : /\ u = [v EXCEPT !.asks = q] /\ u.asks = q /\ q # NoRequest
                         /\ Launched(u) = Launched(v)
                         /\ \A r : [u EXCEPT !.asks = r] = [v EXCEPT !.asks = r]
  <2>1. q \in Requests \cup {NoRequest} /\ q # NoRequest
    BY ListingAsks
  <2>2. PICK u : u = [v EXCEPT !.asks = q]
    OBVIOUS
  <2>3. u \in Views /\ u.asks = q /\ Launched(u) = Launched(v)
    BY <2>1, <2>2, ViewFields
  <2>4. \A r : [u EXCEPT !.asks = r] = [v EXCEPT !.asks = r]
    BY <2>2 DEF Views
  <2> QED BY <2>1, <2>2, <2>3, <2>4
<1>2. Reaches(u, s, w)
  BY <1>1
<1>3. CASE s = <<>>
  <2>1. Reaches(v, s, v) /\ w = u
    BY <1>2, <1>3, ReachesNone
  <2> QED BY <1>1, <2>1
<1>4. CASE s # <<>>
  <2>1. PICK x \in Views : Reads(u, Head(s), x) /\ Reaches(x, Tail(s), w)
    BY <1>2, <1>4, ReachesHead
  <2>2. PICK p \in Packets : p = Head(s)
    BY <1>4
  <2>3. PICK t \in Seq(Packets) : t = Tail(s)
    <3>1. Tail(s) \in Seq(Packets)
      BY <1>4
    <3> QED BY <3>1
  <2>4. ASSUME NEW y \in Views, Launched(y) = Launched(v), y.asks # NoRequest,
               NEW n \in Packets, Notice(n), NEW z \in Views, Reads(y, n, z)
        PROVE  Reads(v, n, z)
    <3>1. n.type = "StartResp" /\ z = Launched(v)
      BY <2>4, NoticeRead
    <3>2. z = Shown(v, n)
      BY <3>1 DEF Shown
    <3> QED BY <2>4, <3>2 DEF Reads, Shows
  <2>5. CASE Notice(p)
    <3>1. Reads(v, p, x)
      BY <1>1, <2>1, <2>2, <2>4, <2>5
    <3> QED BY <1>4, <2>1, <2>2, <3>1, ReachesHead
  <2>6. CASE ~Notice(p)
    <3>1. AnswersTo(p, Stale) /\ None(t)
      BY <1>4, <2>2, <2>3, <2>6, StreamsRead
    <3>2. p.type \in {"ListResp", "QuitResp", "StartResp"}
      BY <3>1 DEF AnswersTo, Stale, Expected
    <3>3. ~Tells(u, p) /\ ~Tells(v, p)
      BY <2>6, <3>2 DEF Tells
    <3>4. Reads(v, p, v)
      BY <3>3 DEF Reads, SkipsOver
    <3>5. x = u \/ x = [u EXCEPT !.asks = NextAsk(u)]
      BY <2>1, <2>2, <3>3, PlainRead
    <3>6. x = u \/ x = [v EXCEPT !.asks = Listing] \/ x = [v EXCEPT !.asks = NoRequest]
      <4>1. PICK r : r = NextAsk(u)
        OBVIOUS
      <4>2. r = Listing \/ r = NoRequest
        BY <4>1 DEF NextAsk
      <4>3. x = u \/ x = [v EXCEPT !.asks = r]
        BY <1>1, <3>5, <4>1
      <4> QED BY <4>2, <4>3
    <3>7. CASE x = v
      BY <1>4, <2>1, <2>2, <3>4, <3>7, ReachesHead
    <3>8. CASE x # v
      <4>1. x = u \/ x = [v EXCEPT !.asks = Listing]
        BY <3>6, <3>8, ViewFields
      <4>2. x.asks # NoRequest /\ Launched(x) = Launched(v)
        <5>1. CASE x = u
          BY <1>1, <5>1
        <5>2. CASE x = [v EXCEPT !.asks = Listing]
          <6>1. Listing \in Requests \cup {NoRequest} /\ Listing # NoRequest
            BY ListingAsks
          <6> QED BY <5>2, <6>1, ViewFields
        <5> QED BY <4>1, <5>1, <5>2
      <4>3. CASE t = <<>>
        <5>1. Reaches(v, t, v) /\ w = x
          <6>1. Reaches(x, <<>>, w)
            BY <2>1, <2>3, <4>3
          <6> QED BY <4>3, <6>1, ReachesNone
        <5>2. Reaches(v, s, v)
          BY <1>4, <2>2, <2>3, <3>4, <5>1, ReachesHead
        <5> QED BY <1>1, <4>1, <5>1, <5>2
      <4>4. CASE t # <<>>
        <5>1. PICK y \in Views : Reads(x, Head(t), y) /\ Reaches(y, Tail(t), w)
          BY <2>1, <2>3, <4>4, ReachesHead
        <5>2. Head(t) \in Packets /\ Notice(Head(t))
          BY <3>1, <4>4, StreamsRead
        <5>3. Reads(v, Head(t), y)
          BY <2>4, <4>2, <5>1, <5>2
        <5>4. Reaches(v, t, w)
          BY <4>4, <5>1, <5>3, ReachesHead
        <5> QED BY <1>4, <2>2, <2>3, <3>4, <5>4, ReachesHead
      <4> QED BY <4>3, <4>4
    <3> QED BY <3>7, <3>8
  <2> QED BY <2>5, <2>6
<1> QED BY <1>3, <1>4

(* Nobody who will list the rooms next reads a notice.                       *)
LEMMA ListingReadsNoNews ==
    ASSUME NEW v \in Views, v.asks = Listing, NEW s \in Seq(Packets), None(s),
           NEW w \in Views, Reaches(v, s, w)
    PROVE  w = v
<1>1. CASE s = <<>>
  BY <1>1, ReachesNone
<1>2. CASE s # <<>>
  <2>1. PICK x \in Views : Reads(v, Head(s), x)
    BY <1>2, ReachesHead
  <2>2. Head(s) \in Packets /\ Notice(Head(s))
    BY <1>2, StreamsRead
  <2> QED BY <2>1, <2>2, NoticeRead, ListingAsks
<1> QED BY <1>1, <1>2

-----------------------------------------------------------------------------
(* What the packets of the server do to a reader that loses no news          *)

(* The notices the server sends, and their fields.                           *)
LEMMA NoticesAre ==
    /\ Dissolved \in Packets /\ Notice(Dissolved) /\ Dissolved.type = "MemberQuit"
    /\ Dissolved.dissolved
    /\ \A u \in Users : /\ Joined(u) \in Packets /\ Notice(Joined(u))
                        /\ Joined(u).type = "MemberJoin" /\ Joined(u).uid = u
                        /\ Quitted(u) \in Packets /\ Notice(Quitted(u))
                        /\ Quitted(u).type = "MemberQuit" /\ Quitted(u).uid = u
                        /\ ~Quitted(u).dissolved
    /\ \A us \in Seq(Users) : /\ MembersAre(us) \in Packets /\ Notice(MembersAre(us))
                              /\ MembersAre(us).type = "MemberList"
                              /\ MembersAre(us).uids = us
    /\ LET p == Status("StartResp", TRUE)
       IN  p \in Packets /\ Notice(p) /\ p.type = "StartResp"
  BY DEF Dissolved, Joined, Quitted, MembersAre, Status, Packets, Notice, Users

(* The answers the server sends, and which of them say nothing.              *)
LEMMA AnswersAre ==
    /\ ListResp \in Packets /\ AnswersTo(ListResp, {"List"})
    /\ \A v : ~Tells(v, ListResp)
    /\ \A g \in GameRoomIds \cup {NoRoom} :
         CreateResp(g) \in Packets /\ AnswersTo(CreateResp(g), {"Create"})
    /\ \A t \in {"JoinResp", "QuitResp", "StartResp"} :
         /\ Status(t, FALSE) \in Packets /\ ~Notice(Status(t, FALSE))
         /\ \A v : ~Tells(v, Status(t, FALSE))
    /\ AnswersTo(Status("JoinResp", FALSE), {"Join"})
    /\ AnswersTo(Status("StartResp", FALSE), {"Start"})
    /\ Status("JoinResp", TRUE) \in Packets /\ AnswersTo(Status("JoinResp", TRUE), {"Join"})
    /\ Status("QuitResp", TRUE) \in Packets /\ AnswersTo(Status("QuitResp", TRUE), {"Quit"})
    /\ \A v : ~Tells(v, Status("QuitResp", TRUE))
<1>1. ListResp \in Packets /\ AnswersTo(ListResp, {"List"}) /\ \A v : ~Tells(v, ListResp)
  BY DEF ListResp, Packets, AnswersTo, Tells, Notice, Expected
<1>2. ASSUME NEW g \in GameRoomIds \cup {NoRoom}
      PROVE  CreateResp(g) \in Packets /\ AnswersTo(CreateResp(g), {"Create"})
  BY DEF CreateResp, Packets, AnswersTo, Notice, Expected
<1>3. ASSUME NEW t \in {"JoinResp", "QuitResp", "StartResp"}
      PROVE  /\ Status(t, FALSE) \in Packets /\ ~Notice(Status(t, FALSE))
             /\ \A v : ~Tells(v, Status(t, FALSE))
  BY DEF Status, Packets, Tells, Notice
<1>4. /\ AnswersTo(Status("JoinResp", FALSE), {"Join"})
      /\ AnswersTo(Status("StartResp", FALSE), {"Start"})
  BY DEF Status, AnswersTo, Notice, Expected
<1>5. Status("JoinResp", TRUE) \in Packets /\ AnswersTo(Status("JoinResp", TRUE), {"Join"})
  BY DEF Status, Packets, AnswersTo, Notice, Expected
<1>6. /\ Status("QuitResp", TRUE) \in Packets /\ AnswersTo(Status("QuitResp", TRUE), {"Quit"})
      /\ \A v : ~Tells(v, Status("QuitResp", TRUE))
  BY DEF Status, Packets, AnswersTo, Tells, Notice, Expected
<1> QED BY <1>1, <1>2, <1>3, <1>4, <1>5, <1>6

-----------------------------------------------------------------------------
(* Lists of members                                                          *)

(* The list s without its i-th seat.                                         *)
Without(s, i) == SubSeq(s, 1, i - 1) \o SubSeq(s, i + 1, Len(s))

(* One seat less, and the seats behind it move up.                           *)
LEMMA WithoutIs ==
    ASSUME NEW S, NEW s \in Seq(S), NEW i \in 1..Len(s)
    PROVE  /\ Without(s, i) \in Seq(S) /\ Len(Without(s, i)) = Len(s) - 1
           /\ \A j \in 1..(Len(s) - 1) :
                Without(s, i)[j] = IF j < i THEN s[j] ELSE s[j + 1]
<1>7. Len(s) \in Nat /\ i \in Nat /\ 1 <= i /\ i <= Len(s)
  OBVIOUS
<1>1. PICK a : a = SubSeq(s, 1, i - 1)
  OBVIOUS
<1>2. PICK b : b = SubSeq(s, i + 1, Len(s))
  OBVIOUS
<1>3. a \in Seq(S) /\ Len(a) = i - 1 /\ \A j \in 1..(i - 1) : a[j] = s[j]
  BY <1>1
<1>4. b \in Seq(S) /\ Len(b) = Len(s) - i /\ \A j \in 1..(Len(s) - i) : b[j] = s[i + j]
  BY <1>2
<1>5. PICK t : t = a \o b
  OBVIOUS
<1>6. /\ t \in Seq(S) /\ Len(t) = Len(s) - 1
      /\ \A j \in 1..(Len(s) - 1) : t[j] = IF j < i THEN s[j] ELSE s[j + 1]
  <2>1. /\ t \in Seq(S) /\ Len(t) = Len(a) + Len(b)
        /\ \A j \in 1..(Len(a) + Len(b)) :
             t[j] = IF j <= Len(a) THEN a[j] ELSE b[j - Len(a)]
    BY <1>3, <1>4, <1>5, ConcatProperties
  <2>2. Len(t) = Len(s) - 1
    BY <1>3, <1>4, <2>1
  <2>3. ASSUME NEW j \in 1..(Len(s) - 1)
        PROVE  t[j] = IF j < i THEN s[j] ELSE s[j + 1]
    <3>3. j \in 1..(Len(a) + Len(b))
      BY <1>3, <1>4, <1>7
    <3>1. CASE j < i
      <4>1. j <= Len(a) /\ j \in 1..(i - 1)
        BY <1>3, <1>7, <3>1
      <4>2. t[j] = a[j]
        BY <2>1, <3>3, <4>1
      <4> QED BY <1>3, <3>1, <4>1, <4>2
    <3>2. CASE ~(j < i)
      <4>1. /\ j - Len(a) \in 1..(Len(s) - i) /\ i + (j - Len(a)) = j + 1
            /\ ~(j <= Len(a))
        BY <1>3, <1>7, <3>2
      <4>2. t[j] = b[j - Len(a)]
        BY <2>1, <3>3, <4>1
      <4> QED BY <1>4, <3>2, <4>1, <4>2
    <3> QED BY <3>1, <3>2
  <2> QED BY <2>1, <2>2, <2>3
<1> QED BY <1>1, <1>2, <1>5, <1>6 DEF Without

(* The seats of a user can be counted.                                       *)
LEMMA SeatsAreFew ==
    ASSUME NEW S, NEW s \in Seq(S), NEW u
    PROVE  /\ IsFiniteSet({i \in DOMAIN s : s[i] = u})
           /\ Seats(s, u) \in Nat
           /\ Seats(s, u) = 0 <=> \A i \in 1..Len(s) : s[i] # u
<1>1. IsFiniteSet(1..Len(s)) /\ DOMAIN s = 1..Len(s)
  BY FS_Interval
<1>2. PICK T : T = {i \in DOMAIN s : s[i] = u}
  OBVIOUS
<1>3. IsFiniteSet(T)
  BY <1>1, <1>2, FS_Subset
<1>4. Cardinality(T) \in Nat /\ (Cardinality(T) = 0 <=> T = {})
  BY <1>3, FS_CardinalityType, FS_EmptySet
<1> QED BY <1>1, <1>2, <1>3, <1>4 DEF Seats

(* A member comes: one more seat.                                            *)
LEMMA SeatsAppend ==
    ASSUME NEW S, NEW s \in Seq(S), NEW e \in S, NEW u
    PROVE  Seats(Append(s, e), u) = Seats(s, u) + (IF e = u THEN 1 ELSE 0)
<1>1. PICK n \in Nat : n = Len(s)
  OBVIOUS
<1>2. PICK t : t = Append(s, e)
  OBVIOUS
<1>3. /\ DOMAIN s = 1..n /\ DOMAIN t = 1..(n + 1) /\ t[n + 1] = e
      /\ \A i \in 1..n : t[i] = s[i]
  BY <1>1, <1>2
<1>4. PICK A : A = {i \in DOMAIN s : s[i] = u}
  OBVIOUS
<1>5. PICK B : B = {i \in DOMAIN t : t[i] = u}
  OBVIOUS
<1>6. IsFiniteSet(A) /\ n + 1 \notin A
  <2>1. IsFiniteSet({i \in DOMAIN s : s[i] = u})
    BY SeatsAreFew
  <2>2. n + 1 \notin A
    BY <1>3, <1>4
  <2> QED BY <1>4, <2>1, <2>2
<1>7. CASE e = u
  <2>1. B = A \cup {n + 1}
    BY <1>3, <1>4, <1>5, <1>7
  <2>2. Cardinality(B) = Cardinality(A) + 1
    BY <1>6, <2>1, FS_AddElement
  <2>3. Seats(s, u) = Cardinality(A) /\ Seats(t, u) = Cardinality(B)
    BY <1>4, <1>5 DEF Seats
  <2> QED BY <1>2, <1>7, <2>2, <2>3
<1>8. CASE e # u
  <2>1. B = A
    BY <1>3, <1>4, <1>5, <1>8
  <2>2. Cardinality(A) \in Nat
    BY <1>6, FS_CardinalityType
  <2>3. Seats(s, u) = Cardinality(A) /\ Seats(t, u) = Cardinality(B)
    BY <1>4, <1>5 DEF Seats
  <2> QED BY <1>2, <1>8, <2>1, <2>2, <2>3
<1> QED BY <1>7, <1>8

(* A member goes: one seat less.                                             *)
LEMMA SeatsWithout ==
    ASSUME NEW S, NEW s \in Seq(S), NEW i \in 1..Len(s), NEW u
    PROVE  Seats(Without(s, i), u) = Seats(s, u) - (IF s[i] = u THEN 1 ELSE 0)
<1>1. PICK n \in Nat : n = Len(s) /\ n >= 1
  OBVIOUS
<1>2. PICK t \in Seq(S) : t = Without(s, i)
  BY WithoutIs
<1>3. /\ DOMAIN s = 1..n /\ DOMAIN t = 1..(n - 1)
      /\ \A j \in 1..(n - 1) : t[j] = IF j < i THEN s[j] ELSE s[j + 1]
  BY <1>1, <1>2, WithoutIs
<1>4. PICK A : A = {j \in DOMAIN t : t[j] = u}
  OBVIOUS
<1>5. PICK B : B = {j \in DOMAIN s : s[j] = u}
  OBVIOUS
<1>6. IsFiniteSet(A) /\ IsFiniteSet(B)
  <2>1. /\ IsFiniteSet({j \in DOMAIN t : t[j] = u})
        /\ IsFiniteSet({j \in DOMAIN s : s[j] = u})
    BY SeatsAreFew
  <2> QED BY <1>4, <1>5, <2>1
<1>7. PICK f : f = [j \in A |-> IF j < i THEN j ELSE j + 1]
  OBVIOUS
<1>8. f \in Bijection(A, B \ {i})
  <2>1. f \in [A -> B \ {i}]
    BY <1>3, <1>4, <1>5, <1>7
  <2>2. \A j, k \in A : f[j] = f[k] => j = k
    BY <1>3, <1>4, <1>7
  <2>3. ASSUME NEW k \in B \ {i}  PROVE \E j \in A : f[j] = k
    <3>1. CASE k < i
      BY <1>3, <1>4, <1>5, <1>7, <2>3, <3>1
    <3>2. CASE k > i
      <4>1. k - 1 \in A
        BY <1>3, <1>4, <1>5, <2>3, <3>2
      <4>2. f[k - 1] = k
        BY <1>3, <1>5, <1>7, <2>3, <3>2, <4>1
      <4> QED BY <4>1, <4>2
    <3> QED BY <1>3, <1>5, <2>3, <3>1, <3>2
  <2> QED BY <2>1, <2>2, <2>3 DEF Bijection, Injection, Surjection, IsInjective
<1>9. Cardinality(B \ {i}) = Cardinality(A)
  BY <1>6, <1>8, FS_Bijection DEF ExistsBijection
<1>10. /\ Cardinality(B) \in Nat
       /\ Cardinality(B \ {i}) = IF i \in B THEN Cardinality(B) - 1 ELSE Cardinality(B)
  BY <1>6, FS_RemoveElement, FS_CardinalityType
<1>11. i \in B <=> s[i] = u
  BY <1>3, <1>5, <1>1
<1> QED BY <1>2, <1>4, <1>5, <1>9, <1>10, <1>11 DEF Seats

(* The users of the members, as one comes and as one goes.                   *)
LEMMA UsersOfMembers ==
    ASSUME uid \in [Clients -> Users], NEW m \in Seq(Clients)
    PROVE  /\ UsersOf(m) \in Seq(Users) /\ Len(UsersOf(m)) = Len(m)
           /\ \A i \in 1..Len(m) : UsersOf(m)[i] = uid[m[i]]
           /\ \A c \in Clients : UsersOf(Append(m, c)) = Append(UsersOf(m), uid[c])
           /\ \A i \in 1..Len(m) : UsersOf(Without(m, i)) = Without(UsersOf(m), i)
<1>1. ASSUME NEW s \in Seq(Clients)
      PROVE  /\ UsersOf(s) \in Seq(Users) /\ Len(UsersOf(s)) = Len(s)
             /\ \A i \in 1..Len(s) : UsersOf(s)[i] = uid[s[i]]
  <2>1. DOMAIN s = 1..Len(s) /\ Len(s) \in Nat /\ \A i \in 1..Len(s) : s[i] \in Clients
    OBVIOUS
  <2>2. UsersOf(s) = [i \in 1..Len(s) |-> uid[s[i]]]
    BY <2>1 DEF UsersOf
  <2> QED BY <2>1, <2>2
<1>2. ASSUME NEW c \in Clients
      PROVE  UsersOf(Append(m, c)) = Append(UsersOf(m), uid[c])
  <2>1. PICK t \in Seq(Clients) : t = Append(m, c)
    <3>1. Append(m, c) \in Seq(Clients)
      OBVIOUS
    <3> QED BY <3>1
  <2>2. PICK a \in Seq(Users) : a = UsersOf(t)
    BY <1>1
  <2>3. PICK us \in Seq(Users) : us = UsersOf(m) /\ Len(us) = Len(m)
                                 /\ \A i \in 1..Len(m) : us[i] = uid[m[i]]
    BY <1>1
  <2>4. PICK b \in Seq(Users) : b = Append(us, uid[c])
    <3>1. Append(us, uid[c]) \in Seq(Users)
      OBVIOUS
    <3> QED BY <3>1
  <2>5. /\ Len(t) = Len(m) + 1
        /\ \A i \in 1..Len(t) : t[i] = IF i <= Len(m) THEN m[i] ELSE c
    BY <2>1
  <2>9. Len(a) = Len(t) /\ \A i \in 1..Len(t) : a[i] = uid[t[i]]
    BY <1>1, <2>2
  <2>6. Len(a) = Len(b) /\ \A i \in 1..Len(a) : a[i] = b[i]
    BY <2>3, <2>4, <2>5, <2>9
  <2>7. a = b
    BY <2>6, SeqEqual
  <2> QED BY <2>1, <2>2, <2>3, <2>4, <2>7
<1>3. ASSUME NEW k \in 1..Len(m)
      PROVE  UsersOf(Without(m, k)) = Without(UsersOf(m), k)
  <2>1. PICK t \in Seq(Clients) : t = Without(m, k)
    BY WithoutIs
  <2>2. PICK a \in Seq(Users) : a = UsersOf(t)
    BY <1>1
  <2>3. PICK us \in Seq(Users) : us = UsersOf(m) /\ Len(us) = Len(m)
                                 /\ \A i \in 1..Len(m) : us[i] = uid[m[i]]
    BY <1>1
  <2>4. PICK b \in Seq(Users) : b = Without(us, k)
    BY <2>3, WithoutIs
  <2>9. /\ Len(t) = Len(m) - 1
        /\ \A i \in 1..(Len(m) - 1) : t[i] = IF i < k THEN m[i] ELSE m[i + 1]
    BY <2>1, WithoutIs
  <2>10. Len(a) = Len(t) /\ \A i \in 1..Len(t) : a[i] = uid[t[i]]
    BY <1>1, <2>2
  <2>5. /\ Len(t) = Len(m) - 1 /\ Len(a) = Len(t)
        /\ \A i \in 1..Len(t) : a[i] = uid[t[i]]
        /\ \A i \in 1..Len(t) : t[i] = IF i < k THEN m[i] ELSE m[i + 1]
    BY <2>9, <2>10
  <2>6. /\ Len(b) = Len(m) - 1
        /\ \A i \in 1..(Len(m) - 1) : b[i] = IF i < k THEN us[i] ELSE us[i + 1]
    <3>1. k \in 1..Len(us)
      BY <2>3
    <3>2. /\ Len(Without(us, k)) = Len(us) - 1
          /\ \A i \in 1..(Len(us) - 1) : Without(us, k)[i] = IF i < k THEN us[i] ELSE us[i + 1]
      BY <3>1, WithoutIs
    <3> QED BY <2>3, <2>4, <3>2
  <2>7. Len(a) = Len(b) /\ \A i \in 1..Len(a) : a[i] = b[i]
    BY <2>3, <2>5, <2>6
  <2>8. a = b
    BY <2>7, SeqEqual
  <2> QED BY <2>1, <2>2, <2>3, <2>4, <2>8
<1> QED BY <1>1, <1>2, <1>3

(* RemoveFirst of somebody who is there.                                     *)
LEMMA RemoveFirstWithout ==
    ASSUME NEW S, NEW s \in Seq(S), NEW e, \E i \in 1..Len(s) : s[i] = e
    PROVE  \E i \in 1..Len(s) :
              /\ s[i] = e /\ \A j \in 1..(i - 1) : s[j] # e
              /\ RemoveFirst(s, e) = Without(s, i)
  BY RemoveFirstIs DEF Without

(* Of three seats the first is the host's: the two others, if they are of    *)
(* one user, cannot be told apart.                                           *)
LEMMA WithoutAlike ==
    ASSUME NEW S, NEW s \in Seq(S), Len(s) <= 3,
           NEW i \in 2..Len(s), NEW k \in 2..Len(s), s[i] = s[k]
    PROVE  Without(s, i) = Without(s, k)
<1>1. PICK a \in Seq(S) : /\ a = Without(s, i) /\ Len(a) = Len(s) - 1
                          /\ \A j \in 1..(Len(s) - 1) : a[j] = IF j < i THEN s[j] ELSE s[j + 1]
  BY WithoutIs
<1>2. PICK b \in Seq(S) : /\ b = Without(s, k) /\ Len(b) = Len(s) - 1
                          /\ \A j \in 1..(Len(s) - 1) : b[j] = IF j < k THEN s[j] ELSE s[j + 1]
  BY WithoutIs
<1>3. i = k \/ (Len(s) = 3 /\ ((i = 2 /\ k = 3) \/ (i = 3 /\ k = 2)))
  <2>1. /\ Len(s) \in Nat /\ i \in Nat /\ k \in Nat
        /\ 2 <= i /\ i <= Len(s) /\ 2 <= k /\ k <= Len(s) /\ Len(s) <= 3
    OBVIOUS
  <2>2. PICK n \in Nat : n = Len(s)
    BY <2>1
  <2>3. (i = 2 \/ i = 3) /\ (k = 2 \/ k = 3) /\ (n = 2 \/ n = 3)
    BY <2>1, <2>2
  <2>4. CASE n = 2
    BY <2>1, <2>2, <2>4
  <2>5. CASE n = 3
    BY <2>2, <2>3, <2>5
  <2> QED BY <2>3, <2>4, <2>5
<1>4. ASSUME NEW j \in 1..Len(a)  PROVE a[j] = b[j]
  BY <1>1, <1>2, <1>3
<1>5. a = b
  BY <1>1, <1>2, <1>4, SeqEqual
<1> QED BY <1>1, <1>2, <1>5

-----------------------------------------------------------------------------
(* Members who come and go, as the others see it                             *)

(* serverHandleGameRoomJoin: a member comes to a room with somebody in it.   *)
LEMMA SeesJoin ==
    ASSUME uid \in [Clients -> Users], NEW m \in Seq(Clients), m # <<>>,
           NEW c \in Clients, NEW d, NEW g, NEW v \in Views, Agrees(d, v, g, m),
           NEW w, w = [v EXCEPT !.members = Append(@, uid[c])]
    PROVE  Agrees(d, w, g, Append(m, c))
<1>1. w.room = v.room /\ w.members = Append(v.members, uid[c]) /\ v.members \in Seq(Users)
  BY DEF Views
<1>2. Append(m, c)[1] = m[1]
  OBVIOUS
<1>3. PICK us \in Seq(Users) : us = UsersOf(m)
  BY UsersOfMembers
<1>4. UsersOf(Append(m, c)) = Append(us, uid[c])
  BY <1>3, UsersOfMembers
<1>5. ASSUME NEW u, Seats(v.members, u) = Seats(us, u)
      PROVE  Seats(w.members, u) = Seats(Append(us, uid[c]), u)
  <2>1. uid[c] \in Users
    OBVIOUS
  <2>2. Seats(Append(v.members, uid[c]), u) =
          Seats(v.members, u) + (IF uid[c] = u THEN 1 ELSE 0)
    BY <1>1, <2>1, SeatsAppend
  <2>3. Seats(Append(us, uid[c]), u) = Seats(us, u) + (IF uid[c] = u THEN 1 ELSE 0)
    BY <2>1, SeatsAppend
  <2> QED BY <1>1, <1>5, <2>2, <2>3
<1>6. CASE g = NoRoom \/ m[1] = d
  BY <1>1, <1>2, <1>6 DEF Agrees
<1>7. CASE g # NoRoom /\ m[1] # d
  <2>1. /\ \A u \in Uids : Seats(v.members, u) = Seats(us, u)
        /\ MaxMembers <= 3 => v.members = us
    BY <1>3, <1>7 DEF Agrees
  <2>2. \A u \in Uids : Seats(w.members, u) = Seats(Append(us, uid[c]), u)
    BY <1>5, <2>1
  <2>3. MaxMembers <= 3 => w.members = Append(us, uid[c])
    BY <1>1, <2>1
  <2>4. w.room = g
    BY <1>1 DEF Agrees
  <2> QED BY <1>4, <2>2, <2>3, <2>4 DEF Agrees
<1> QED BY <1>6, <1>7

(* serverRemoveClientFromGameRoom: a member goes who is not of the host's    *)
(* user.                                                                     *)
LEMMA SeesQuit ==
    ASSUME uid \in [Clients -> Users], NEW m \in Seq(Clients), Len(m) <= MaxMembers,
           NEW c \in Clients, c \in Range(m), IsInjective(m), uid[m[1]] # uid[c],
           uid[c] \in Uids,
           NEW d, NEW g, NEW v \in Views, Agrees(d, v, g, m),
           NEW w, w = [v EXCEPT !.members = RemoveFirst(@, uid[c])]
    PROVE  /\ Agrees(d, w, g, RemoveFirst(m, c))
           /\ RemoveFirst(m, c)[1] = m[1] /\ RemoveFirst(m, c) # <<>>
<1>1. w.room = v.room /\ w.members = RemoveFirst(v.members, uid[c]) /\ v.members \in Seq(Users)
  BY DEF Views
<1>2. PICK i \in 1..Len(m) : m[i] = c /\ RemoveFirst(m, c) = Without(m, i)
  <2>1. \E i \in 1..Len(m) : m[i] = c
    BY DEF Range
  <2> QED BY <2>1, RemoveFirstWithout
<1>3. i \in 2..Len(m) /\ Len(m) \in Nat
  <2>1. i # 1
    BY <1>2
  <2> QED BY <2>1
<1>4. RemoveFirst(m, c)[1] = m[1] /\ RemoveFirst(m, c) # <<>>
  <2>1. 1 \in 1..(Len(m) - 1) /\ 1 < i
    BY <1>3
  <2>2. Without(m, i)[1] = m[1] /\ Len(Without(m, i)) = Len(m) - 1
    BY <2>1, WithoutIs
  <2>3. Without(m, i) # <<>>
    BY <1>3, <2>2
  <2> QED BY <1>2, <2>2, <2>3
<1>5. PICK us \in Seq(Users) : /\ us = UsersOf(m) /\ Len(us) = Len(m)
                               /\ \A k \in 1..Len(m) : us[k] = uid[m[k]]
  BY UsersOfMembers
<1>6. UsersOf(RemoveFirst(m, c)) = Without(us, i)
  BY <1>2, <1>5, UsersOfMembers
<1>7. i \in 1..Len(us) /\ us[i] = uid[c] /\ us[1] # uid[c]
  <2>1. 1 \in 1..Len(m)
    BY <1>3
  <2> QED BY <1>2, <1>5, <2>1
<1>8. CASE g = NoRoom \/ m[1] = d
  BY <1>1, <1>4, <1>8 DEF Agrees
<1>9. CASE g # NoRoom /\ m[1] # d
  <2>1. /\ \A u \in Uids : Seats(v.members, u) = Seats(us, u)
        /\ MaxMembers <= 3 => v.members = us
    BY <1>5, <1>9 DEF Agrees
  <2>2. \E k \in 1..Len(v.members) : v.members[k] = uid[c]
    <3>1. Seats(us, uid[c]) # 0
      BY <1>7, SeatsAreFew
    <3>2. Seats(v.members, uid[c]) # 0
      BY <2>1, <3>1
    <3> QED BY <1>1, <3>2, SeatsAreFew
  <2>3. PICK k \in 1..Len(v.members) :
               /\ v.members[k] = uid[c] /\ w.members = Without(v.members, k)
    <3>1. PICK s \in Seq(Users) : s = v.members
      BY <1>1
    <3>2. \E k \in 1..Len(s) : s[k] = uid[c] /\ RemoveFirst(s, uid[c]) = Without(s, k)
      BY <2>2, <3>1, RemoveFirstWithout
    <3> QED BY <1>1, <3>1, <3>2
  <2>4. ASSUME NEW u \in Uids
        PROVE  Seats(w.members, u) = Seats(Without(us, i), u)
    <3>1. Seats(Without(v.members, k), u) =
            Seats(v.members, u) - (IF uid[c] = u THEN 1 ELSE 0)
      BY <1>1, <2>3, SeatsWithout
    <3>2. Seats(Without(us, i), u) = Seats(us, u) - (IF uid[c] = u THEN 1 ELSE 0)
      BY <1>7, SeatsWithout
    <3> QED BY <2>1, <2>3, <3>1, <3>2
  <2>5. ASSUME MaxMembers <= 3  PROVE w.members = Without(us, i)
    <3>1. v.members = us /\ k \in 1..Len(us) /\ us[k] = uid[c]
      BY <2>1, <2>3, <2>5
    <3>2. k # 1
      BY <1>7, <3>1
    <3>3. Len(us) <= 3
      BY <1>3, <1>5, <2>5, SessionServerAssumption
    <3>4. i \in 2..Len(us) /\ k \in 2..Len(us)
      BY <1>3, <1>5, <3>1, <3>2
    <3>5. Without(us, k) = Without(us, i)
      BY <1>7, <3>1, <3>3, <3>4, WithoutAlike
    <3> QED BY <2>3, <3>1, <3>5
  <2>6. w.room = g
    BY <1>1 DEF Agrees
  <2> QED BY <1>4, <1>6, <2>4, <2>5, <2>6 DEF Agrees
<1> QED BY <1>4, <1>8, <1>9

-----------------------------------------------------------------------------
(* What a client that loses no news makes of each packet                     *)

(* clientPollNotifications: a room is dissolved.                             *)
LEMMA DissolvedRead ==
    ASSUME NEW v \in Views, NEW w \in Views, Reads(v, Dissolved, w)
    PROVE  /\ v.asks = NoRequest
           /\ w.room = NoRoom /\ w.asks = v.asks /\ w.joined = v.joined
<1>1. PICK p \in Packets : /\ p = Dissolved /\ Notice(p) /\ p.type = "MemberQuit"
                           /\ p.dissolved
  BY NoticesAre
<1>2. v.asks = NoRequest /\ w = Shown(v, p)
  BY <1>1, NoticeRead
<1>3. w = [v EXCEPT !.members = <<>>, !.room = NoRoom]
  BY <1>1, <1>2 DEF Shown
<1> QED BY <1>2, <1>3 DEF Views

(* clientPollNotifications: a member goes.                                   *)
LEMMA QuittedRead ==
    ASSUME NEW u \in Users, NEW v \in Views, NEW w \in Views, Reads(v, Quitted(u), w)
    PROVE  v.asks = NoRequest /\ w = [v EXCEPT !.members = RemoveFirst(@, u)]
<1>1. PICK p \in Packets : /\ p = Quitted(u) /\ Notice(p) /\ p.type = "MemberQuit"
                           /\ p.uid = u /\ ~p.dissolved
  BY NoticesAre
<1>2. v.asks = NoRequest /\ w = Shown(v, p)
  BY <1>1, NoticeRead
<1> QED BY <1>1, <1>2 DEF Shown

(* clientPollNotifications: a member comes.                                  *)
LEMMA JoinedRead ==
    ASSUME NEW u \in Users, NEW v \in Views, NEW w \in Views, Reads(v, Joined(u), w)
    PROVE  v.asks = NoRequest /\ w = [v EXCEPT !.members = Append(@, u)]
<1>1. PICK p \in Packets : /\ p = Joined(u) /\ Notice(p) /\ p.type = "MemberJoin"
                           /\ p.uid = u
  BY NoticesAre
<1>2. v.asks = NoRequest /\ w = Shown(v, p)
  BY <1>1, NoticeRead
<1> QED BY <1>1, <1>2 DEF Shown

(* clientPollNotifications: the list of a room that was joined.              *)
LEMMA MembersRead ==
    ASSUME NEW us \in Seq(Users), NEW v \in Views, NEW w \in Views,
           Reads(v, MembersAre(us), w)
    PROVE  v.asks = NoRequest /\ w = [v EXCEPT !.members = us]
<1>1. PICK p \in Packets : /\ p = MembersAre(us) /\ Notice(p) /\ p.type = "MemberList"
                           /\ p.uids = us
  BY NoticesAre
<1>2. v.asks = NoRequest /\ w = Shown(v, p)
  BY <1>1, NoticeRead
<1> QED BY <1>1, <1>2 DEF Shown

(* The game is launched, for whoever waits for that and whoever does not.    *)
LEMMA StartedRead ==
    ASSUME NEW v \in Views, NEW w \in Views, Reads(v, Status("StartResp", TRUE), w)
    PROVE  w = Launched(v)
<1>1. PICK p \in Packets : p = Status("StartResp", TRUE) /\ Notice(p) /\ p.type = "StartResp"
  BY NoticesAre
<1>2. w = Shown(v, p) \/ w = Launched(v)
  BY <1>1, NoticeRead
<1> QED BY <1>1, <1>2 DEF Shown

(* A room was made: nobody but who asked for it reads that.                  *)
LEMMA CreatedRead ==
    ASSUME NEW g \in GameRoomIds, NEW v \in Views, NEW w \in Views,
           Reads(v, CreateResp(g), w)
    PROVE  w.room = g /\ w.joined = g /\ w.asks = Listing
<1>1. PICK p \in Packets : p = CreateResp(g) /\ p.type = "CreateResp" /\ p.room = g
  BY AnswersAre DEF CreateResp
<1>2. g # NoRoom
  BY SessionServerAssumption
<1>3. Tells(v, p) /\ ~Notice(p)
  BY <1>1, <1>2 DEF Tells, Notice
<1>4. IsAnswered(v, p, w)
  BY <1>1, <1>3 DEF Reads, SkipsOver, Shows
<1>5. v.asks \in Requests /\ v.asks # NoRequest /\ p.type = Expected(v.asks.kind)
  BY <1>4 DEF IsAnswered, Views
<1>6. v.asks.kind # "Join" /\ v.asks.kind # "Start"
  BY <1>1, <1>5 DEF Expected
<1>7. w = [v EXCEPT !.room = g, !.joined = g, !.asks = Listing]
  BY <1>1, <1>4, <1>6 DEF IsAnswered
<1> QED BY <1>7 DEF Views

(* No room was made: that says nothing to somebody who shows none.           *)
LEMMA NotCreatedRead ==
    ASSUME NEW v \in Views, NEW w \in Views, Reads(v, CreateResp(NoRoom), w)
    PROVE  v.room = NoRoom /\ ~Tells(v, CreateResp(NoRoom))
<1>1. PICK p \in Packets : p = CreateResp(NoRoom) /\ p.type = "CreateResp" /\ p.room = NoRoom
  BY AnswersAre DEF CreateResp
<1>2. ~Notice(p)
  BY <1>1 DEF Notice
<1>3. ASSUME IsAnswered(v, p, w)  PROVE FALSE
  <2>1. v.asks \in Requests /\ v.asks # NoRequest /\ p.type = Expected(v.asks.kind)
    BY <1>3 DEF IsAnswered, Views
  <2>2. v.asks.kind # "Join" /\ v.asks.kind # "Start"
    BY <1>1, <2>1 DEF Expected
  <2> QED BY <1>1, <1>3, <2>2 DEF IsAnswered
<1>4. ~Tells(v, p)
  BY <1>1, <1>2, <1>3 DEF Reads, SkipsOver, Shows
<1>5. v.room = NoRoom
  BY <1>1, <1>4 DEF Tells
<1> QED BY <1>1, <1>4, <1>5

(* A room was joined: nobody but who asked for it reads that.                *)
LEMMA EnteredRead ==
    ASSUME NEW v \in Views, NEW w \in Views, Reads(v, Status("JoinResp", TRUE), w)
    PROVE  /\ v.asks \in Requests /\ v.asks # NoRequest /\ v.asks.kind = "Join"
           /\ w.room = v.asks.room /\ w.joined = v.asks.room /\ w.asks = NoRequest
<1>1. PICK p \in Packets : p = Status("JoinResp", TRUE) /\ p.type = "JoinResp" /\ p.ok
  BY AnswersAre DEF Status
<1>3. Tells(v, p) /\ ~Notice(p)
  BY <1>1 DEF Tells, Notice
<1>4. IsAnswered(v, p, w)
  BY <1>1, <1>3 DEF Reads, SkipsOver, Shows
<1>5. v.asks \in Requests /\ v.asks # NoRequest /\ p.type = Expected(v.asks.kind)
  BY <1>4 DEF IsAnswered, Views
<1>6. v.asks.kind # "Create" /\ v.asks.kind # "Start"
  <2>1. Expected(v.asks.kind) = "JoinResp"
    BY <1>1, <1>5
  <2> QED BY <2>1 DEF Expected
<1>7. /\ v.asks.kind = "Join"
      /\ w = [v EXCEPT !.room = v.asks.room, !.joined = v.asks.room, !.asks = NoRequest]
  BY <1>4, <1>6 DEF IsAnswered
<1> QED BY <1>5, <1>7 DEF Views

(* A packet that says nothing leaves all there is to see.                    *)
LEMMA NothingRead ==
    ASSUME NEW v \in Views, NEW w \in Views, NEW p \in Packets, ~Tells(v, p),
           Reads(v, p, w)
    PROVE  /\ w.room = v.room /\ w.members = v.members /\ w.joined = v.joined
           /\ v.asks = NoRequest => w.asks = NoRequest
           /\ w.asks # NoRequest /\ w.asks.kind = "Join" => w.asks = v.asks
<1>1. CASE w = v
  BY <1>1
<1>2. CASE v.asks # NoRequest /\ w = [v EXCEPT !.asks = NextAsk(v)]
  <2>1. PICK r : r = NextAsk(v)
    OBVIOUS
  <2>2. r \in Requests \cup {NoRequest} /\ (r # NoRequest => r.kind = "List")
    BY <2>1, ListingAsks DEF NextAsk
  <2>3. /\ w.asks = r /\ w.room = v.room
        /\ w.members = v.members /\ w.joined = v.joined
    BY <1>2, <2>1, <2>2, ViewFields
  <2> QED BY <1>2, <2>2, <2>3
<1> QED BY <1>1, <1>2, PlainRead

-----------------------------------------------------------------------------
(* The news of a room, one for each member                                   *)

(* broadcastToRoom: every member sits in its room once, and gets one packet. *)
LEMMA BroadcastIs ==
    ASSUME NEW p \in Packets, NEW members \in Seq(Clients), IsInjective(members),
           NEW c, NEW d \in Clients
    PROVE  Broadcast(members, c, p)[d] =
             IF d \in Range(members) /\ d # c THEN <<p>> ELSE <<>>
<1>1. PICK T : T = {k \in DOMAIN members : members[k] = d /\ d # c}
  OBVIOUS
<1>2. PICK t : t = Broadcast(members, c, p)[d]
  OBVIOUS
<1>3. t = [i \in 1..Cardinality(T) |-> p]
  BY <1>1, <1>2 DEF Broadcast
<1>4. CASE d \in Range(members) /\ d # c
  <2>1. PICK k \in DOMAIN members : members[k] = d
    BY <1>4 DEF Range
  <2>2. T = {k}
    BY <1>1, <1>4, <2>1 DEF IsInjective
  <2>3. Cardinality(T) = 1
    BY <2>2, FS_Singleton
  <2>4. t = [i \in 1..1 |-> p]
    BY <1>3, <2>3
  <2>5. t = <<p>>
    <3>1. t \in Seq(Packets) /\ Len(t) = 1 /\ t[1] = p
      BY <2>4
    <3>2. PICK s \in Seq(Packets) : s = <<p>> /\ Len(s) = 1 /\ s[1] = p
      <4>1. <<p>> \in Seq(Packets)
        OBVIOUS
      <4> QED BY <4>1
    <3>3. Len(s) = Len(t) /\ \A i \in 1..Len(s) : s[i] = t[i]
      BY <3>1, <3>2
    <3> QED BY <3>1, <3>2, <3>3, SeqEqual
  <2> QED BY <1>2, <1>4, <2>5
<1>5. CASE ~(d \in Range(members) /\ d # c)
  <2>1. T = {}
    BY <1>1, <1>5 DEF Range
  <2>2. Cardinality(T) = 0
    BY <2>1, FS_EmptySet
  <2>3. t = <<>>
    BY <1>3, <2>2
  <2> QED BY <1>2, <1>5, <2>3
<1> QED BY <1>4, <1>5

-----------------------------------------------------------------------------
(* A member leaves, and the others read of it                                *)

(* The members of a room: each of them once, and each of them there.         *)
LEMMA MembersOf ==
    ASSUME Parts, NEW g \in DOMAIN activeGameRooms,
           NEW m, m = activeGameRooms[g].members
    PROVE  /\ g \in GameRoomIds /\ g # NoRoom
           /\ m \in Seq(Clients) /\ IsInjective(m) /\ m # <<>> /\ Len(m) <= MaxMembers
           /\ \A d \in Clients : d \in Range(m) <=> currentGameRoomId[d] = g
           /\ \A i \in 1..Len(m) : uid[m[i]] \in Uids
<1>1. /\ GameTypeOK(activeGameRooms, currentGameRoomId, state, uid, gameRoomDB)
      /\ SeatsOK(activeGameRooms[g], g, currentGameRoomId, state, uid)
      /\ \A d \in Clients : currentGameRoomId[d] # NoRoom =>
           d \in Range(activeGameRooms[currentGameRoomId[d]].members)
      /\ \A d \in Clients : state[d] \in InGameRoom <=> currentGameRoomId[d] # NoRoom
  BY DEF Parts, GameOK
<1>2. g \in GameRoomIds /\ g # NoRoom
  BY <1>1, SessionServerAssumption DEF GameTypeOK
<1>3. m \in Seq(Clients)
  BY <1>1 DEF GameTypeOK, GameRoomType, MemberList
<1>4. IsInjective(m) /\ Len(m) \in 1..MaxMembers
  BY <1>1 DEF SeatsOK
<1>5. m # <<>> /\ Len(m) <= MaxMembers
  BY <1>3, <1>4, SessionServerAssumption
<1>6. \A d \in Range(m) : currentGameRoomId[d] = g
  BY <1>1 DEF SeatsOK
<1>7. \A d \in Clients : d \in Range(m) <=> currentGameRoomId[d] = g
  BY <1>1, <1>2, <1>6
<1>8. ASSUME NEW i \in 1..Len(m)  PROVE uid[m[i]] \in Uids
  <2>1. m[i] \in Clients /\ m[i] \in Range(m)
    BY <1>3 DEF Range
  <2>2. state[m[i]] \in InGameRoom
    BY <1>1, <1>2, <1>6, <2>1
  <2> QED BY <1>1, <2>1, <2>2 DEF GameTypeOK, InGameRoom, LoggedOut
<1> QED BY <1>2, <1>3, <1>4, <1>5, <1>7, <1>8

(* serverRemoveClientFromGameRoom: c, in the room g, is in no room, or takes *)
(* it along, or goes alone; v is what the rooms become, and each other       *)
(* member gets one packet.                                                   *)
StaysOut(c, g, v) ==
    /\ g = NoRoom
    /\ v.rooms = activeGameRooms /\ v.ids = currentGameRoomId /\ v.state = state
    /\ \A d \in Clients : LeaveNews(c)[d] = <<>>
TakesAlong(c, g, v) ==
    /\ g \in DOMAIN activeGameRooms /\ activeGameRooms[g].hostUid = uid[c]
    /\ DOMAIN v.rooms = DOMAIN activeGameRooms \ {g}
    /\ \A h \in DOMAIN v.rooms : v.rooms[h] = activeGameRooms[h]
    /\ \A d \in Clients :
         /\ v.ids[d] = IF currentGameRoomId[d] = g THEN NoRoom
                       ELSE currentGameRoomId[d]
         /\ v.state[d] = IF currentGameRoomId[d] = g THEN "SessionRoom"
                         ELSE state[d]
         /\ LeaveNews(c)[d] = IF currentGameRoomId[d] = g /\ d # c
                              THEN <<Dissolved>> ELSE <<>>
GoesAlone(c, g, v) ==
    /\ g \in DOMAIN activeGameRooms /\ activeGameRooms[g].hostUid # uid[c]
    /\ v.rooms = [activeGameRooms EXCEPT
                    ![g].members = RemoveFirst(activeGameRooms[g].members, c)]
    /\ v.ids = [currentGameRoomId EXCEPT ![c] = NoRoom]
    /\ v.state = [state EXCEPT ![c] = "SessionRoom"]
    /\ \A d \in Clients :
         LeaveNews(c)[d] = IF currentGameRoomId[d] = g /\ d # c
                           THEN <<Quitted(uid[c])>> ELSE <<>>

(* These are the ways to leave.                                              *)
LEMMA LeavingIs ==
    ASSUME Parts, NEW c \in Clients, NEW v, v = LeaveGameRoom(c),
           NEW g, g = currentGameRoomId[c]
    PROVE  StaysOut(c, g, v) \/ TakesAlong(c, g, v) \/ GoesAlone(c, g, v)
<1>1. /\ g # NoRoom => g \in DOMAIN activeGameRooms
      /\ NoRoom \notin DOMAIN activeGameRooms
  BY SessionServerAssumption DEF Parts, GameOK, GameTypeOK
<1>2. CASE g = NoRoom
  <2>1. v.rooms = activeGameRooms /\ v.ids = currentGameRoomId /\ v.state = state
    BY <1>1, <1>2 DEF LeaveGameRoom
  <2>2. LeaveNews(c) = Silence
    BY <1>1, <1>2 DEF LeaveNews
  <2>3. \A d \in Clients : LeaveNews(c)[d] = <<>>
    BY <2>2 DEF Silence
  <2> QED BY <1>2, <2>1, <2>3 DEF StaysOut
<1>3. CASE g # NoRoom
  <2>1. PICK m : m = activeGameRooms[g].members
    OBVIOUS
  <2>2. /\ m \in Seq(Clients) /\ IsInjective(m)
        /\ \A d \in Clients : d \in Range(m) <=> currentGameRoomId[d] = g
    BY <1>1, <1>3, <2>1, MembersOf
  <2>3. uid[c] \in Users
    BY DEF Parts, GameOK, GameTypeOK, Users
  <2>4. CASE activeGameRooms[g].hostUid = uid[c]
    <3>1. v = DissolveGameRoom(g)
      BY <1>1, <1>3, <2>4 DEF LeaveGameRoom
    <3>2. \A d \in Clients :
             /\ v.ids[d] = IF currentGameRoomId[d] = g THEN NoRoom
                           ELSE currentGameRoomId[d]
             /\ v.state[d] = IF currentGameRoomId[d] = g THEN "SessionRoom"
                             ELSE state[d]
      BY <1>1, <1>3, <3>1, DissolveOK DEF Parts, CurrentGameOK
    <3>3. v.rooms = Drop(activeGameRooms, g)
      BY <3>1 DEF DissolveGameRoom
    <3>4. /\ DOMAIN v.rooms = DOMAIN activeGameRooms \ {g}
          /\ \A h \in DOMAIN v.rooms : v.rooms[h] = activeGameRooms[h]
      BY <3>3 DEF Drop, Restrict
    <3>5. LeaveNews(c) = Broadcast(m, c, Dissolved)
      BY <1>1, <1>3, <2>1, <2>4 DEF LeaveNews
    <3>6. \A d \in Clients :
            Broadcast(m, c, Dissolved)[d] =
               IF d \in Range(m) /\ d # c THEN <<Dissolved>> ELSE <<>>
      BY <2>2, NoticesAre, BroadcastIs
    <3>7. \A d \in Clients :
            LeaveNews(c)[d] = IF currentGameRoomId[d] = g /\ d # c
                              THEN <<Dissolved>> ELSE <<>>
      BY <2>2, <3>5, <3>6
    <3> QED BY <1>1, <1>3, <2>4, <3>2, <3>4, <3>7 DEF TakesAlong
  <2>5. CASE activeGameRooms[g].hostUid # uid[c]
    <3>1. v = LeaveAsMember(c, g)
      BY <1>1, <1>3, <2>5 DEF LeaveGameRoom
    <3>2. PICK left : left = RemoveFirst(m, c)
      OBVIOUS
    <3>3. c \in Range(m)
      BY <2>2
    <3>4. /\ left \in Seq(Clients) /\ IsInjective(left) /\ Range(left) = Range(m) \ {c}
      BY <2>2, <3>2, <3>3, RemoveFirstMember
    <3>5. left # <<>>
      <4>1. \E h \in Range(m) : uid[h] = activeGameRooms[g].hostUid
        BY <1>1, <1>3, <2>1 DEF Parts, GameOK, SeatsOK
      <4>2. PICK h \in Range(left) : uid[h] = activeGameRooms[g].hostUid
        BY <2>5, <3>4, <4>1
      <4>3. Range(<<>>) = {}
        BY DEF Range
      <4> QED BY <4>2, <4>3
    <3>6. /\ v.rooms = [activeGameRooms EXCEPT ![g].members = left]
          /\ v.ids = [currentGameRoomId EXCEPT ![c] = NoRoom]
          /\ v.state = [state EXCEPT ![c] = "SessionRoom"]
      BY <2>1, <3>1, <3>2, <3>5 DEF LeaveAsMember
    <3>7. LeaveNews(c) = Broadcast(left, NoClient, Quitted(uid[c]))
      BY <1>1, <1>3, <2>1, <2>5, <3>2 DEF LeaveNews
    <3>8. \A d \in Clients :
            Broadcast(left, NoClient, Quitted(uid[c]))[d] =
               IF d \in Range(left) /\ d # NoClient THEN <<Quitted(uid[c])>> ELSE <<>>
      <4>1. PICK p \in Packets : p = Quitted(uid[c])
        BY <2>3, NoticesAre
      <4>2. \A d \in Clients :
              Broadcast(left, NoClient, p)[d] =
                 IF d \in Range(left) /\ d # NoClient THEN <<p>> ELSE <<>>
        BY <3>4, BroadcastIs
      <4> QED BY <4>1, <4>2
    <3>9. \A d \in Clients : d \in Range(left) /\ d # NoClient
                               <=> currentGameRoomId[d] = g /\ d # c
      BY <2>2, <3>4, GameLobbyAssumption
    <3>10. \A d \in Clients :
             LeaveNews(c)[d] = IF currentGameRoomId[d] = g /\ d # c
                               THEN <<Quitted(uid[c])>> ELSE <<>>
      BY <3>7, <3>8, <3>9
    <3> QED BY <1>1, <1>3, <2>1, <2>5, <3>2, <3>6, <3>10 DEF GoesAlone
  <2> QED BY <2>4, <2>5
<1> QED BY <1>2, <1>3

(* The first member of every room is of the host's user, as it was.          *)
LEMMA LeavingKeepsFirst ==
    ASSUME Parts, FirstIsHost, NEW c \in Clients, NEW v, v = LeaveGameRoom(c)
    PROVE  \A h \in DOMAIN v.rooms :
             /\ h \in DOMAIN activeGameRooms
             /\ v.rooms[h].hostUid = activeGameRooms[h].hostUid
             /\ v.rooms[h].members # <<>>
             /\ v.rooms[h].members[1] = activeGameRooms[h].members[1]
             /\ v.rooms[h].members \in Seq(Clients)
             /\ c \notin Range(v.rooms[h].members)
<1>1. PICK g : g = currentGameRoomId[c]
  OBVIOUS
<1>2. ASSUME NEW h \in DOMAIN activeGameRooms
      PROVE  /\ activeGameRooms[h].members # <<>>
             /\ activeGameRooms[h].members \in Seq(Clients)
             /\ h # NoRoom
             /\ c \in Range(activeGameRooms[h].members) <=> h = g
  BY <1>1, MembersOf
<1>3. CASE StaysOut(c, g, v)
  <2>1. g = NoRoom /\ v.rooms = activeGameRooms
    BY <1>3 DEF StaysOut
  <2> QED BY <1>2, <2>1
<1>4. CASE TakesAlong(c, g, v)
  <2>1. /\ DOMAIN v.rooms = DOMAIN activeGameRooms \ {g}
        /\ \A h \in DOMAIN v.rooms : v.rooms[h] = activeGameRooms[h]
    BY <1>4 DEF TakesAlong
  <2> QED BY <1>2, <2>1
<1>5. CASE GoesAlone(c, g, v)
  <2>11. /\ g \in DOMAIN activeGameRooms /\ activeGameRooms[g].hostUid # uid[c]
         /\ v.rooms = [activeGameRooms EXCEPT
                         ![g].members = RemoveFirst(activeGameRooms[g].members, c)]
    BY <1>5 DEF GoesAlone
  <2>1. PICK m : m = activeGameRooms[g].members
    OBVIOUS
  <2>2. /\ m \in Seq(Clients) /\ IsInjective(m) /\ m # <<>> /\ c \in Range(m)
    BY <1>1, <2>11, <2>1, MembersOf
  <2>3. PICK left : left = RemoveFirst(m, c)
    OBVIOUS
  <2>4. left \in Seq(Clients) /\ Range(left) = Range(m) \ {c}
    BY <2>2, <2>3, RemoveFirstMember
  <2>5. uid[m[1]] # uid[c]
    BY <2>11, <2>1 DEF FirstIsHost
  <2>6. left # <<>> /\ left[1] = m[1]
    <3>1. PICK i \in 1..Len(m) : m[i] = c /\ left = Without(m, i)
      <4>1. \E i \in 1..Len(m) : m[i] = c
        BY <2>2 DEF Range
      <4> QED BY <2>2, <2>3, <4>1, RemoveFirstWithout
    <3>2. i # 1 /\ Len(m) \in Nat /\ i \in 1..Len(m)
      BY <2>2, <2>5, <3>1
    <3>3. 1 \in 1..(Len(m) - 1) /\ 1 < i
      BY <3>2
    <3>4. left[1] = m[1] /\ Len(left) = Len(m) - 1
      BY <2>2, <3>1, <3>3, WithoutIs
    <3>5. left # <<>>
      BY <3>3, <3>4
    <3> QED BY <3>4, <3>5
  <2>7. /\ v.rooms[g] = [activeGameRooms[g] EXCEPT !.members = left]
        /\ DOMAIN v.rooms = DOMAIN activeGameRooms
        /\ \A h \in DOMAIN activeGameRooms \ {g} : v.rooms[h] = activeGameRooms[h]
    BY <2>11, <2>1, <2>3
  <2>8. v.rooms[g].members = left /\ v.rooms[g].hostUid = activeGameRooms[g].hostUid
    <3>1. activeGameRooms[g] \in GameRoomType
      BY <2>11 DEF Parts, GameOK, GameTypeOK
    <3> QED BY <2>7, <3>1 DEF GameRoomType
  <2>9. c \notin Range(left)
    BY <2>4
  <2>10. ASSUME NEW h \in DOMAIN v.rooms
         PROVE  /\ h \in DOMAIN activeGameRooms
                /\ v.rooms[h].hostUid = activeGameRooms[h].hostUid
                /\ v.rooms[h].members # <<>>
                /\ v.rooms[h].members[1] = activeGameRooms[h].members[1]
                /\ v.rooms[h].members \in Seq(Clients)
                /\ c \notin Range(v.rooms[h].members)
    <3>1. CASE h = g
      BY <2>11, <2>1, <2>4, <2>6, <2>8, <2>9, <3>1
    <3>2. CASE h # g
      BY <1>2, <2>7, <2>10, <3>2
    <3> QED BY <3>1, <3>2
  <2> QED BY <2>10
<1>6. StaysOut(c, g, v) \/ TakesAlong(c, g, v) \/ GoesAlone(c, g, v)
  BY <1>1, LeavingIs
<1> QED BY <1>3, <1>4, <1>5, <1>6

-----------------------------------------------------------------------------
(* What a client shows that has read all, before and after a handler         *)

(* In no room there are no members to show.                                  *)
LEMMA EndsNowhere ==
    ASSUME NEW c, NEW v, NEW m, NEW n, NEW st, EndsAt(c, v, NoRoom, m, st)
    PROVE  EndsAt(c, v, NoRoom, n, st)
  BY DEF EndsAt, Agrees

(* serverRemoveClientFromGameRoom, clientPollNotifications: the room of d is *)
(* dissolved.                                                                *)
LEMMA DissolvedEnds ==
    ASSUME NEW d, NEW x \in Views, NEW w \in Views, NEW g, NEW m, NEW st, NEW n, NEW after,
           EndsAt(d, x, g, m, st), Reads(x, Dissolved, w), after # "SessionGameRoomLobby"
    PROVE  EndsAt(d, w, NoRoom, n, after)
<1>1. x.asks = NoRequest /\ w.room = NoRoom /\ w.asks = x.asks /\ w.joined = x.joined
  BY DissolvedRead
<1>2. ~QuitSent(d)
  BY <1>1 DEF EndsAt
<1>3. Agrees(d, w, NoRoom, n)
  BY <1>1 DEF Agrees
<1>4. \A q \in ToSet(out[d]) : q.kind = "Join" =>
        /\ q.room \notin {w.joined, NoRoom}
        /\ w.asks # NoRequest /\ w.asks.kind = "Join" => w.asks = q
  BY <1>1 DEF EndsAt
<1> QED BY <1>2, <1>3, <1>4 DEF EndsAt

(* serverRemoveClientFromGameRoom, clientPollNotifications: c goes from the  *)
(* room of d.                                                                *)
LEMMA QuittedEnds ==
    ASSUME uid \in [Clients -> Users], NEW m \in Seq(Clients), Len(m) <= MaxMembers,
           NEW c \in Clients, c \in Range(m), IsInjective(m), uid[m[1]] # uid[c],
           uid[c] \in Uids,
           NEW d, NEW x \in Views, NEW w \in Views, NEW g, NEW st,
           EndsAt(d, x, g, m, st), Reads(x, Quitted(uid[c]), w)
    PROVE  EndsAt(d, w, g, RemoveFirst(m, c), st)
<1>1. x.asks = NoRequest /\ w = [x EXCEPT !.members = RemoveFirst(@, uid[c])]
  BY QuittedRead
<1>2. w.asks = x.asks /\ w.joined = x.joined
  BY <1>1 DEF Views
<1>3. ~QuitSent(d)
  BY <1>1 DEF EndsAt
<1>4. Agrees(d, x, g, m)
  BY <1>3 DEF EndsAt
<1>5. Agrees(d, w, g, RemoveFirst(m, c))
  BY <1>1, <1>4, SeesQuit
<1>6. st = "SessionGameRoomLobby" => w.joined = g
  BY <1>2, <1>3 DEF EndsAt
<1>7. \A q \in ToSet(out[d]) : q.kind = "Join" =>
        /\ q.room \notin {w.joined, NoRoom}
        /\ w.asks # NoRequest /\ w.asks.kind = "Join" => w.asks = q
  BY <1>2 DEF EndsAt
<1> QED BY <1>3, <1>5, <1>6, <1>7 DEF EndsAt

(* serverHandleGameRoomJoin, clientPollNotifications: c comes to the room of *)
(* d.                                                                        *)
LEMMA JoinedEnds ==
    ASSUME uid \in [Clients -> Users], NEW m \in Seq(Clients), m # <<>>,
           NEW c \in Clients, NEW d, NEW x \in Views, NEW w \in Views, NEW g, NEW st,
           EndsAt(d, x, g, m, st), Reads(x, Joined(uid[c]), w)
    PROVE  EndsAt(d, w, g, Append(m, c), st)
<1>1. x.asks = NoRequest /\ w = [x EXCEPT !.members = Append(@, uid[c])]
  BY JoinedRead
<1>2. w.asks = x.asks /\ w.joined = x.joined
  BY <1>1 DEF Views
<1>3. ~QuitSent(d)
  BY <1>1 DEF EndsAt
<1>4. Agrees(d, x, g, m)
  BY <1>3 DEF EndsAt
<1>5. Agrees(d, w, g, Append(m, c))
  BY <1>1, <1>4, SeesJoin
<1>6. st = "SessionGameRoomLobby" => w.joined = g
  BY <1>2, <1>3 DEF EndsAt
<1>7. \A q \in ToSet(out[d]) : q.kind = "Join" =>
        /\ q.room \notin {w.joined, NoRoom}
        /\ w.asks # NoRequest /\ w.asks.kind = "Join" => w.asks = q
  BY <1>2 DEF EndsAt
<1> QED BY <1>3, <1>5, <1>6, <1>7 DEF EndsAt

(* Whose own room is not held up was told of the room it is in.              *)
LEMMA EndsHere ==
    ASSUME NEW d \in Clients, loop \in {NoClient, d}
    PROVE  /\ ~BeingDissolved(d) /\ RoomOf(d) = currentGameRoomId[d] /\ StateOf(d) = state[d]
           /\ \A x : EndOK(d, x) <=>
                EndsAt(d, x, currentGameRoomId[d],
                       activeGameRooms[currentGameRoomId[d]].members, state[d])
<1>1. ~BeingDissolved(d)
  BY GameLobbyAssumption DEF BeingDissolved
<1>2. RoomOf(d) = currentGameRoomId[d] /\ StateOf(d) = state[d]
  BY <1>1 DEF RoomOf, StateOf
<1> QED BY <1>1, <1>2 DEF EndOK

LEMMA EndsThere ==
    ASSUME NEW d \in Clients, loop' \in {NoClient, d}
    PROVE  /\ RoomOf(d)' = currentGameRoomId'[d] /\ StateOf(d)' = state'[d]
           /\ \A x : EndOK(d, x)' <=>
                EndsAt(d, x, currentGameRoomId[d],
                       activeGameRooms[currentGameRoomId[d]].members, state[d])'
<1>1. ~BeingDissolved(d)'
  BY GameLobbyAssumption DEF BeingDissolved
<1>2. RoomOf(d)' = currentGameRoomId'[d] /\ StateOf(d)' = state'[d]
  BY <1>1 DEF RoomOf, StateOf
<1> QED BY <1>1, <1>2 DEF EndOK

(* Nobody holds up the event loop after a handler.                           *)
LEMMA NobodyDissolves ==
    ASSUME loop' = NoClient
    PROVE  TheHostDissolves'
BY GameLobbyAssumption DEF TheHostDissolves

(* c leaves, and d knows what it leaves behind.                              *)
LEMMA LeavingTold ==
    ASSUME Parts, FirstIsHost, NEW c \in Clients, NEW d \in Clients, d # c,
           loop = NoClient,
           NEW v, v = LeaveGameRoom(c), NEW t, t = LeaveNews(c)[d]
    PROVE  /\ t \in Seq(Packets) /\ None(t)
           /\ \A x, w \in Views : EndOK(d, x) /\ Reaches(x, t, w) =>
                EndsAt(d, w, v.ids[d], v.rooms[v.ids[d]].members, v.state[d])
<1>1. PICK g : g = currentGameRoomId[c]
  OBVIOUS
<1>2. StaysOut(c, g, v) \/ TakesAlong(c, g, v) \/ GoesAlone(c, g, v)
  BY <1>1, LeavingIs
<1>3. /\ currentGameRoomId \in [Clients -> GameRoomIds \cup {NoRoom}]
      /\ state \in [Clients -> SessionStates]
      /\ uid \in [Clients -> Users] /\ uid[c] \in Users
      /\ currentGameRoomId[d] # NoRoom => currentGameRoomId[d] \in DOMAIN activeGameRooms
      /\ NoRoom \notin GameRoomIds
  BY SessionServerAssumption DEF Parts, GameOK, GameTypeOK, Users
<1>4. PICK h : h = currentGameRoomId[d]
  OBVIOUS
<1>5. \A x : EndOK(d, x) => EndsAt(d, x, h, activeGameRooms[h].members, state[d])
  BY <1>4, EndsHere
<1>6. <<>> \in Seq(Packets) /\ None(<<>>)
  BY SmallStreams
<1>7. ASSUME t = <<>>, v.ids[d] = h, v.state[d] = state[d],
             h # NoRoom => v.rooms[h].members = activeGameRooms[h].members
      PROVE  \A x, w \in Views : EndOK(d, x) /\ Reaches(x, t, w) =>
                EndsAt(d, w, v.ids[d], v.rooms[v.ids[d]].members, v.state[d])
  <2>1. \A x, w \in Views : Reaches(x, t, w) => x = w
    BY <1>7, ReachesNone
  <2>2. \A x : EndOK(d, x) => EndsAt(d, x, h, v.rooms[h].members, state[d])
    BY <1>5, <1>7, EndsNowhere
  <2> QED BY <1>7, <2>1, <2>2
<1>8. CASE StaysOut(c, g, v)
  <2>1. t = <<>> /\ v.ids[d] = h /\ v.state[d] = state[d] /\ v.rooms = activeGameRooms
    BY <1>4, <1>8 DEF StaysOut
  <2> QED BY <1>6, <1>7, <2>1
<1>9. CASE TakesAlong(c, g, v)
  <2>1. CASE h = g
    <3>1. t = <<Dissolved>> /\ v.ids[d] = NoRoom /\ v.state[d] = "SessionRoom"
      BY <1>4, <1>9, <2>1 DEF TakesAlong
    <3>2. t \in Seq(Packets) /\ None(t)
      <4>1. <<Dissolved>> \in Seq(Packets)
        BY NoticesAre
      <4> QED BY <3>1, <4>1, NoticesAre, SmallStreams
    <3>3. ASSUME NEW x \in Views, NEW w \in Views, EndOK(d, x), Reaches(x, t, w)
          PROVE  EndsAt(d, w, v.ids[d], v.rooms[v.ids[d]].members, v.state[d])
      <4>1. Reads(x, Dissolved, w)
        BY <3>1, <3>3, NoticesAre, ReachesOne
      <4>2. PICK st : st = v.state[d] /\ st # "SessionGameRoomLobby"
        BY <3>1
      <4>3. PICK n : n = v.rooms[v.ids[d]].members
        OBVIOUS
      <4>4. EndsAt(d, w, NoRoom, n, st)
        BY <1>5, <3>3, <4>1, <4>2, DissolvedEnds
      <4> QED BY <3>1, <4>2, <4>3, <4>4
    <3> QED BY <3>2, <3>3
  <2>2. CASE h # g
    <3>1. t = <<>> /\ v.ids[d] = h /\ v.state[d] = state[d]
      BY <1>4, <1>9, <2>2 DEF TakesAlong
    <3>2. h # NoRoom => v.rooms[h].members = activeGameRooms[h].members
      BY <1>3, <1>4, <1>9, <2>2 DEF TakesAlong
    <3> QED BY <1>6, <1>7, <3>1, <3>2
  <2> QED BY <2>1, <2>2
<1>10. CASE GoesAlone(c, g, v)
  <2>1. /\ v.ids[d] = h /\ v.state[d] = state[d]
        /\ g \in DOMAIN activeGameRooms /\ activeGameRooms[g].hostUid # uid[c]
    BY <1>3, <1>4, <1>10 DEF GoesAlone
  <2>2. PICK m : m = activeGameRooms[g].members
    OBVIOUS
  <2>3. /\ v.rooms[g].members = RemoveFirst(m, c)
        /\ \A k \in DOMAIN activeGameRooms : k # g =>
             v.rooms[k].members = activeGameRooms[k].members
    <3>1. activeGameRooms \in [DOMAIN activeGameRooms -> GameRoomType]
      BY DEF Parts, GameOK, GameTypeOK
    <3> QED BY <1>10, <2>1, <2>2, <3>1 DEF GoesAlone, GameRoomType
  <2>4. CASE h = g
    <3>1. t = <<Quitted(uid[c])>>
      BY <1>4, <1>10, <2>4 DEF GoesAlone
    <3>2. PICK p \in Packets : p = Quitted(uid[c]) /\ Notice(p)
      BY <1>3, NoticesAre
    <3>3. t \in Seq(Packets) /\ None(t)
      <4>1. <<p>> \in Seq(Packets)
        OBVIOUS
      <4> QED BY <3>1, <3>2, <4>1, SmallStreams
    <3>4. /\ m \in Seq(Clients) /\ IsInjective(m) /\ m # <<>> /\ Len(m) <= MaxMembers
          /\ c \in Range(m) /\ \A i \in 1..Len(m) : uid[m[i]] \in Uids
      BY <1>1, <2>1, <2>2, MembersOf
    <3>5. uid[m[1]] # uid[c] /\ uid[c] \in Uids
      <4>1. uid[m[1]] = activeGameRooms[g].hostUid
        BY <2>1, <2>2 DEF FirstIsHost
      <4>2. PICK i \in 1..Len(m) : m[i] = c
        BY <3>4 DEF Range
      <4> QED BY <2>1, <3>4, <4>1, <4>2
    <3>6. ASSUME NEW x \in Views, NEW w \in Views, EndOK(d, x), Reaches(x, t, w)
          PROVE  EndsAt(d, w, h, RemoveFirst(m, c), state[d])
      <4>1. Reads(x, Quitted(uid[c]), w)
        BY <3>1, <3>2, <3>6, ReachesOne
      <4>2. PICK st : st = state[d]
        OBVIOUS
      <4>3. EndsAt(d, x, h, m, st)
        BY <1>5, <2>2, <2>4, <3>6, <4>2
      <4>4. EndsAt(d, w, h, RemoveFirst(m, c), st)
        BY <1>3, <3>4, <3>5, <4>1, <4>3, QuittedEnds
      <4> QED BY <4>2, <4>4
    <3> QED BY <2>1, <2>3, <2>4, <3>3, <3>6
  <2>5. CASE h # g
    <3>1. t = <<>>
      BY <1>4, <1>10, <2>5 DEF GoesAlone
    <3>2. h # NoRoom => v.rooms[h].members = activeGameRooms[h].members
      BY <1>3, <1>4, <2>3, <2>5
    <3> QED BY <1>6, <1>7, <2>1, <3>1, <3>2
  <2> QED BY <2>4, <2>5
<1> QED BY <1>2, <1>8, <1>9, <1>10

(* The same if the others have heard of it before: they were told that they  *)
(* are in no room.                                                           *)
LEMMA LeavingHeard ==
    ASSUME Parts, FirstIsHost, TheHostDissolves, NEW c \in Clients, NEW d \in Clients,
           d # c, loop \in {NoClient, c},
           NEW v, v = LeaveGameRoom(c), NEW t, t = NewsOfLeaving(c)[d]
    PROVE  /\ t \in Seq(Packets) /\ None(t)
           /\ \A x, w \in Views : EndOK(d, x) /\ Reaches(x, t, w) =>
                EndsAt(d, w, v.ids[d], v.rooms[v.ids[d]].members, v.state[d])
<1>1. CASE loop = NoClient
  <2>1. t = LeaveNews(c)[d]
    BY <1>1, GameLobbyAssumption DEF NewsOfLeaving
  <2> QED BY <1>1, <2>1, LeavingTold
<1>2. CASE loop = c
  <2>1. t = <<>>
    BY <1>2 DEF NewsOfLeaving, Silence
  <2>2. t \in Seq(Packets) /\ None(t)
    BY <2>1, SmallStreams
  <2>3. PICK g : g = currentGameRoomId[c]
    OBVIOUS
  <2>4. StaysOut(c, g, v) \/ TakesAlong(c, g, v) \/ GoesAlone(c, g, v)
    BY <2>3, LeavingIs
  <2>5. g \in DOMAIN activeGameRooms /\ activeGameRooms[g].hostUid = uid[c] /\ g # NoRoom
    BY <1>2, <2>3, SessionServerAssumption DEF TheHostDissolves, Parts, GameOK, GameTypeOK
  <2>6. TakesAlong(c, g, v)
    BY <2>4, <2>5 DEF StaysOut, GoesAlone
  <2>7. BeingDissolved(d) <=> currentGameRoomId[d] = g
    BY <1>2, <2>3, <2>5 DEF BeingDissolved
  <2>8. PICK h : h = RoomOf(d)
    OBVIOUS
  <2>9. v.ids[d] = h /\ v.state[d] = StateOf(d)
    BY <2>6, <2>7, <2>8 DEF TakesAlong, RoomOf, StateOf
  <2>10. h # NoRoom => v.rooms[h].members = activeGameRooms[h].members
    <3>1. h # NoRoom => h # g /\ h \in DOMAIN activeGameRooms
      BY <2>7, <2>8 DEF RoomOf, Parts, GameOK
    <3> QED BY <2>6, <3>1 DEF TakesAlong
  <2>11. \A x, w \in Views : Reaches(x, t, w) => x = w
    BY <2>1, ReachesNone
  <2>12. \A x : EndOK(d, x) => EndsAt(d, x, h, activeGameRooms[h].members, StateOf(d))
    BY <2>8 DEF EndOK
  <2>13. \A x : EndOK(d, x) => EndsAt(d, x, h, v.rooms[h].members, StateOf(d))
    BY <2>10, <2>12, EndsNowhere
  <2> QED BY <2>2, <2>9, <2>11, <2>13
<1> QED BY <1>1, <1>2

(* The members are who they were, and the server has taken no request of d,  *)
(* or one of those that change nothing.                                      *)
LEMMA EndsLater ==
    ASSUME NEW d,
           \/ out'[d] = out[d]
           \/ ToSet(out'[d]) \subseteq ToSet(out[d]) /\ ~QuitSent(d),
           NEW g, NEW m,
           g # NoRoom => m \in Seq(Clients) /\ \A i \in 1..Len(m) : uid'[m[i]] = uid[m[i]],
           NEW v, NEW st, EndsAt(d, v, g, m, st)
    PROVE  EndsAt(d, v, g, m, st)'
<1>1. g # NoRoom => UsersOf(m)' = UsersOf(m)
  <2>1. ASSUME g # NoRoom  PROVE UsersOf(m)' = UsersOf(m)
    <3>1. DOMAIN m = 1..Len(m)
      BY <2>1
    <3> QED BY <2>1, <3>1 DEF UsersOf
  <2> QED BY <2>1
<1>2. Agrees(d, v, g, m) => Agrees(d, v, g, m)'
  BY <1>1 DEF Agrees
<1>3. ToSet(out[d])' \subseteq ToSet(out[d]) /\ (QuitSent(d)' <=> QuitSent(d))
  BY DEF QuitSent
<1>4. \A q \in ToSet(out[d])' : q.kind = "Join" =>
        /\ q.room \notin {v.joined, NoRoom}
        /\ v.asks # NoRequest /\ v.asks.kind = "Join" => v.asks = q
  BY <1>3 DEF EndsAt
<1> QED BY <1>2, <1>3, <1>4 DEF EndsAt

-----------------------------------------------------------------------------
(* What a client makes of the answer to its own request                      *)

(* A list, or a request that failed.                                         *)
LEMMA NothingEnds ==
    ASSUME NEW d, ~QuitSent(d), NEW x \in Views, NEW w \in Views, NEW p \in Packets,
           ~Tells(x, p), Reads(x, p, w), NEW g, NEW m, NEW st, EndsAt(d, x, g, m, st)
    PROVE  EndsAt(d, w, g, m, st)
<1>1. /\ w.room = x.room /\ w.members = x.members /\ w.joined = x.joined
      /\ x.asks = NoRequest => w.asks = NoRequest
      /\ w.asks # NoRequest /\ w.asks.kind = "Join" => w.asks = x.asks
  BY NothingRead
<1>2. Agrees(d, x, g, m) => Agrees(d, w, g, m)
  BY <1>1 DEF Agrees
<1>3. \A q \in ToSet(out[d]) : q.kind = "Join" =>
        /\ q.room \notin {w.joined, NoRoom}
        /\ w.asks # NoRequest /\ w.asks.kind = "Join" => w.asks = q
  BY <1>1 DEF EndsAt
<1> QED BY <1>1, <1>2, <1>3 DEF EndsAt

(* serverHandleGameRoomQuit: a quit; d has shown no room since it sent it.   *)
LEMMA QuitEnds ==
    ASSUME NEW d, QuitSent(d), NEW x, NEW g, NEW m, NEW st, EndsAt(d, x, g, m, st),
           NEW w, w.room = x.room, w.joined = x.joined,
           w.asks # NoRequest /\ w.asks.kind = "Join" => w.asks = x.asks,
           ToSet(out'[d]) \subseteq ToSet(out[d]), \A q \in ToSet(out'[d]) : q.kind # "Quit",
           NEW n, NEW after, after # "SessionGameRoomLobby"
    PROVE  EndsAt(d, w, NoRoom, n, after)'
<1>1. w.room = NoRoom
  BY DEF EndsAt
<1>2. ~QuitSent(d)'
  BY DEF QuitSent
<1>3. Agrees(d, w, NoRoom, n)'
  BY <1>1 DEF Agrees
<1>4. \A q \in ToSet(out[d])' : q.kind = "Join" =>
        /\ q.room \notin {w.joined, NoRoom}
        /\ w.asks # NoRequest /\ w.asks.kind = "Join" => w.asks = q
  BY DEF EndsAt
<1> QED BY <1>2, <1>3, <1>4 DEF EndsAt

(* serverHandleGameRoomCreate: a room made by d, who is its first member.    *)
LEMMA CreatedEnds ==
    ASSUME NEW d, NEW g \in GameRoomIds, NEW x \in Views, NEW w \in Views,
           Reads(x, CreateResp(g), w),
           \A q \in ToSet(out'[d]) : q.kind \notin {"Join", "Quit"},
           NEW m, m[1] = d, NEW st
    PROVE  EndsAt(d, w, g, m, st)'
<1>1. w.room = g /\ w.joined = g
  BY CreatedRead
<1>2. ~QuitSent(d)'
  BY DEF QuitSent
<1>3. Agrees(d, w, g, m)'
  BY <1>1 DEF Agrees
<1> QED BY <1>1, <1>2, <1>3 DEF EndsAt

(* serverHandleGameRoomCreate: no room was made, and the old one was left.   *)
LEMMA NotCreatedEnds ==
    ASSUME NEW d, NEW x \in Views, NEW w \in Views, Reads(x, CreateResp(NoRoom), w),
           \A q \in ToSet(out'[d]) : q.kind \notin {"Join", "Quit"},
           NEW m, NEW st, st # "SessionGameRoomLobby"
    PROVE  EndsAt(d, w, NoRoom, m, st)'
<1>1. w.room = NoRoom
  <2>1. PICK p \in Packets : p = CreateResp(NoRoom)
    BY AnswersAre
  <2>2. x.room = NoRoom /\ ~Tells(x, p)
    BY <2>1, NotCreatedRead
  <2>3. w.room = x.room
    BY <2>1, <2>2, NothingRead
  <2> QED BY <2>2, <2>3
<1>2. ~QuitSent(d)'
  BY DEF QuitSent
<1>3. Agrees(d, w, NoRoom, m)'
  BY <1>1 DEF Agrees
<1> QED BY <1>2, <1>3 DEF EndsAt

(* serverHandleGameRoomJoin: the room d asked to join, with d in it.         *)
LEMMA EnteredEnds ==
    ASSUME NEW d, NEW x \in Views, NEW g, NEW m, NEW st, EndsAt(d, x, g, m, st),
           NEW q, q \in ToSet(out[d]), q.kind = "Join",
           NEW n, NEW us \in Seq(Users), us = UsersOf(n)',
           NEW w \in Views, Reaches(x, <<Status("JoinResp", TRUE), MembersAre(us)>>, w),
           \A r \in ToSet(out'[d]) : r.kind \notin {"Join", "Quit"},
           NEW after
    PROVE  EndsAt(d, w, q.room, n, after)'
<1>1. PICK a \in Packets, b \in Packets :
             a = Status("JoinResp", TRUE) /\ b = MembersAre(us)
  BY AnswersAre, NoticesAre
<1>2. PICK y \in Views : Reads(x, a, y) /\ Reads(y, b, w)
  <2>1. Reaches(x, <<a, b>>, w)
    BY <1>1
  <2> QED BY <2>1, ReachesTwo
<1>3. /\ x.asks # NoRequest /\ x.asks.kind = "Join"
      /\ y.room = x.asks.room /\ y.joined = x.asks.room /\ y.asks = NoRequest
  BY <1>1, <1>2, EnteredRead
<1>4. w = [y EXCEPT !.members = us]
  BY <1>1, <1>2, MembersRead
<1>5. w.room = y.room /\ w.joined = y.joined /\ w.members = us
  BY <1>4 DEF Views
<1>6. x.asks = q
  BY <1>3 DEF EndsAt
<1>7. ~QuitSent(d)'
  BY DEF QuitSent
<1>8. Agrees(d, w, q.room, n)'
  BY <1>3, <1>5, <1>6 DEF Agrees
<1> QED BY <1>3, <1>5, <1>6, <1>7, <1>8 DEF EndsAt

(* serverHandleGameRoomStart: the game of the room of d is started.          *)
LEMMA StartedEnds ==
    ASSUME NEW d, NEW x \in Views, NEW g, NEW m, NEW st, EndsAt(d, x, g, m, st),
           NEW w \in Views, Reads(x, Status("StartResp", TRUE), w),
           NEW after, after # "SessionGameRoomLobby"
    PROVE  EndsAt(d, w, g, m, after)
<1>1. w = Launched(x)
  BY StartedRead
<1>2. w.room = x.room /\ w.members = x.members /\ w.joined = NoRoom /\ w.asks = Listing
  BY <1>1, ViewFields
<1>3. Agrees(d, x, g, m) => Agrees(d, w, g, m)
  BY <1>2 DEF Agrees
<1>4. \A q \in ToSet(out[d]) : q.kind = "Join" =>
        /\ q.room \notin {w.joined, NoRoom}
        /\ w.asks # NoRequest /\ w.asks.kind = "Join" => w.asks = q
  BY <1>2, ListingAsks DEF EndsAt
<1> QED BY <1>2, <1>3, <1>4, ListingAsks DEF EndsAt

-----------------------------------------------------------------------------
(* A client knows its room after a step of somebody else                     *)

(* What a client shows, and its two streams, have their types.               *)
LEMMA ViewType ==
    ASSUME LobbyTypes, NEW c \in Clients
    PROVE  /\ View(c) \in Views /\ ui[c] \in Pages /\ client[c] \in ClientStates
           /\ inbox[c] \in Seq(Packets) /\ out[c] \in Seq(Requests)
           /\ ui[c].waiting \in Requests \cup {NoRequest} /\ Bound(c) \in BOOLEAN
<1>1. ui[c] \in Pages /\ client[c] \in ClientStates
  BY DEF LobbyTypes
<1>2. inbox[c] \in Seq(Packets) /\ out[c] \in Seq(Requests)
  BY DEF LobbyTypes
<1>3. /\ ui[c].waiting \in Requests \cup {NoRequest}
      /\ ui[c].joined \in GameRoomIds \cup {NoRoom}
      /\ client[c].room \in GameRoomIds \cup {NoRoom}
      /\ client[c].members \in Seq(Users)
  BY <1>1 DEF Pages, ClientStates
<1>4. Listing \in Requests
  BY ListingAsks
<1>5. View(c) \in Views
  BY <1>3, <1>4 DEF View, Views
<1> QED BY <1>1, <1>2, <1>3, <1>5 DEF Bound

(* The packets t arrive at d: what it shows in the end, then and now.        *)
LEMMA ToldKnows ==
    ASSUME LobbyTypes, NEW d \in Clients, Knows(d), NEW t \in Seq(Packets),
           inbox'[d] = inbox[d] \o t, ui'[d] = ui[d], client'[d] = client[d],
           lost'[d] = lost[d], state'[d] # "Closed" => state[d] # "Closed",
           Shape(d) => Owes(ui[d].waiting, Bound(d), inbox[d] \o t, out'[d]),
           \A x, w \in Views : Shape(d) /\ EndOK(d, x) /\ Reaches(x, t, w) => EndOK(d, w)'
    PROVE  Knows(d)'
<1>1. SUFFICES ASSUME Live(d)'
               PROVE  /\ Shape(d)'
                      /\ \A w \in Views : Reaches(View(d)', inbox'[d], w) => EndOK(d, w)'
  BY DEF Knows
<1>2. Live(d)
  BY <1>1 DEF Live
<1>3. /\ Shape(d)
      /\ \A x \in Views : Reaches(View(d), inbox[d], x) => EndOK(d, x)
  BY <1>2 DEF Knows
<1>4. Bound(d)' = Bound(d) /\ View(d)' = View(d)
  BY DEF Bound, View
<1>5. Shape(d)'
  BY <1>3, <1>4 DEF Shape
<1>6. ASSUME NEW w \in Views, Reaches(View(d)', inbox'[d], w)
      PROVE  EndOK(d, w)'
  <2>1. PICK v \in Views : v = View(d)
    BY ViewType
  <2>2. PICK s \in Seq(Packets) : s = inbox[d]
    BY ViewType
  <2>3. PICK x \in Views : Reaches(v, s, x) /\ Reaches(x, t, w)
    BY <1>4, <1>6, <2>1, <2>2, ReachesOn
  <2>4. EndOK(d, x)
    BY <1>3, <2>1, <2>2, <2>3
  <2> QED BY <1>3, <2>3, <2>4
<1> QED BY <1>5, <1>6

(* Nothing happens to d but that its room may be there in another way.       *)
LEMMA UntouchedKnows ==
    ASSUME LobbyTypes, NEW d \in Clients, Knows(d),
           inbox'[d] = inbox[d], ui'[d] = ui[d], client'[d] = client[d],
           lost'[d] = lost[d], out'[d] = out[d],
           state'[d] # "Closed" => state[d] # "Closed",
           \A x \in Views : EndOK(d, x) => EndOK(d, x)'
    PROVE  Knows(d)'
<1>1. SUFFICES ASSUME Live(d)'
               PROVE  /\ Shape(d)'
                      /\ \A w \in Views : Reaches(View(d)', inbox'[d], w) => EndOK(d, w)'
  BY DEF Knows
<1>2. Live(d)
  BY <1>1 DEF Live
<1>3. /\ Shape(d)
      /\ \A x \in Views : Reaches(View(d), inbox[d], x) => EndOK(d, x)
  BY <1>2 DEF Knows
<1>4. Bound(d)' = Bound(d) /\ View(d)' = View(d)
  BY DEF Bound, View
<1>5. Shape(d)'
  BY <1>3, <1>4 DEF Shape
<1> QED BY <1>3, <1>4, <1>5

(* Nothing is said of a client that is gone or has lost news.                *)
LEMMA GoneKnows ==
    ASSUME NEW d, ui'[d].page = "gone" \/ state'[d] = "Closed" \/ lost'[d] # 0
    PROVE  Knows(d)'
  BY DEF Knows, Live

(* What the server sends to d is at the end of its stream.                   *)
LEMMA SentTo ==
    ASSUME NEW d \in Clients, NEW news, Send(news)
    PROVE  inbox'[d] = IF ui[d].page = "gone" THEN <<>> ELSE inbox[d] \o news[d]
  BY DEF Send

(* c leaves its room, and d gets some more packets than the news of that.    *)
LEMMA LeftBehindKnow ==
    ASSUME Parts, LobbyTypes, FirstIsHost, TheHostDissolves,
           NEW c \in Clients, NEW d \in Clients, d # c,
           loop \in {NoClient, c}, Knows(d), NEW v, v = LeaveGameRoom(c),
           NEW more \in Seq(Packets), None(more),
           inbox'[d] = inbox[d] \o (NewsOfLeaving(c)[d] \o more),
           ui'[d] = ui[d], client'[d] = client[d], lost'[d] = lost[d], out'[d] = out[d],
           RoomOf(d)' = v.ids[d], StateOf(d)' = v.state[d],
           state'[d] \in {v.state[d], state[d]},
           NEW m, v.ids[d] # NoRoom =>
                    /\ m \in Seq(Clients) /\ m = activeGameRooms'[v.ids[d]].members
                    /\ \A i \in 1..Len(m) : uid'[m[i]] = uid[m[i]],
           \A y, w \in Views :
               /\ EndsAt(d, y, v.ids[d], v.rooms[v.ids[d]].members, v.state[d])
               /\ Reaches(y, more, w)
               => EndsAt(d, w, v.ids[d], m, v.state[d])
    PROVE  Knows(d)'
<1>1. PICK t \in Seq(Packets) : t = NewsOfLeaving(c)[d] /\ None(t)
  BY LeavingHeard
<1>2. PICK s \in Seq(Packets) : s = t \o more
  <2>1. t \o more \in Seq(Packets)
    OBVIOUS
  <2> QED BY <2>1
<1>3. None(s)
  BY <1>1, <1>2, StreamsTogether
<1>4. inbox'[d] = inbox[d] \o s
  BY <1>1, <1>2
<1>5. state'[d] # "Closed" => state[d] # "Closed"
  <2>1. LeftGameRoom(c, v)
    BY LeaveGameRoomOK DEF Parts, CurrentGameOK
  <2> QED BY <2>1 DEF LeftGameRoom, InGameRoom
<1>6. Shape(d) => Owes(ui[d].waiting, Bound(d), inbox[d] \o s, out'[d])
  <2>1. ASSUME Shape(d)  PROVE Owes(ui[d].waiting, Bound(d), inbox[d] \o s, out[d])
    BY <1>3, <2>1, ViewType, NewsOwed DEF Shape
  <2> QED BY <2>1
<1>7. ASSUME NEW x \in Views, NEW w \in Views, EndOK(d, x), Reaches(x, s, w)
      PROVE  EndOK(d, w)'
  <2>1. PICK y \in Views : Reaches(x, t, y) /\ Reaches(y, more, w)
    BY <1>2, <1>7, ReachesOn
  <2>2. EndsAt(d, y, v.ids[d], v.rooms[v.ids[d]].members, v.state[d])
    BY <1>1, <1>7, <2>1, LeavingHeard
  <2>3. EndsAt(d, w, v.ids[d], m, v.state[d])
    BY <2>1, <2>2
  <2>4. PICK g : g = v.ids[d]
    OBVIOUS
  <2>5. PICK st : st = v.state[d]
    OBVIOUS
  <2>6. PICK n : n = activeGameRooms'[g].members
    OBVIOUS
  <2>7. EndsAt(d, w, g, n, st)
    <3>1. CASE g = NoRoom
      BY <2>3, <2>4, <2>5, <3>1, EndsNowhere
    <3>2. CASE g # NoRoom
      BY <2>3, <2>4, <2>5, <2>6, <3>2
    <3> QED BY <3>1, <3>2
  <2>8. EndsAt(d, w, g, n, st)'
    BY <2>4, <2>6, <2>7, EndsLater
  <2> QED BY <2>4, <2>5, <2>6, <2>8 DEF EndOK
<1> QED BY <1>4, <1>5, <1>6, <1>7, ToldKnows

(* It gets no more.                                                          *)
LEMMA LeftAloneKnow ==
    ASSUME Parts, LobbyTypes, FirstIsHost, TheHostDissolves,
           NEW c \in Clients, NEW d \in Clients, d # c,
           loop \in {NoClient, c}, Knows(d), NEW v, v = LeaveGameRoom(c),
           NEW news, Send(news), news[d] = NewsOfLeaving(c)[d],
           ui'[d] = ui[d], client'[d] = client[d], lost'[d] = lost[d], out'[d] = out[d],
           RoomOf(d)' = v.ids[d], StateOf(d)' = v.state[d],
           state'[d] \in {v.state[d], state[d]},
           \A h \in DOMAIN v.rooms : activeGameRooms'[h].members = v.rooms[h].members,
           \A e \in Clients \ {c} : uid'[e] = uid[e]
    PROVE  Knows(d)'
<1>1. CASE ui[d].page = "gone"
  BY <1>1, GoneKnows
<1>2. CASE ui[d].page # "gone"
  <2>1. PICK t \in Seq(Packets) : t = NewsOfLeaving(c)[d]
    BY LeavingHeard
  <2>2. PICK more \in Seq(Packets) : more = <<>> /\ None(more)
    <3>1. <<>> \in Seq(Packets)
      OBVIOUS
    <3> QED BY <3>1, SmallStreams
  <2>3. t \o more = t
    BY <2>2, ConcatEmptySeq
  <2>4. inbox'[d] = inbox[d] \o (NewsOfLeaving(c)[d] \o more)
    <3>1. inbox'[d] = inbox[d] \o news[d]
      BY <1>2, SentTo
    <3>2. NewsOfLeaving(c)[d] \o more = NewsOfLeaving(c)[d]
      BY <2>1, <2>3
    <3> QED BY <3>1, <3>2
  <2>5. PICK m : m = v.rooms[v.ids[d]].members
    OBVIOUS
  <2>6. v.ids[d] # NoRoom => v.ids[d] \in DOMAIN v.rooms
    BY LeaveGameRoomOK DEF Parts, CurrentGameOK, LeftGameRoom, GameOK
  <2>7. v.ids[d] # NoRoom =>
          /\ m \in Seq(Clients) /\ m = activeGameRooms'[v.ids[d]].members
          /\ \A i \in 1..Len(m) : uid'[m[i]] = uid[m[i]]
    <3>1. ASSUME v.ids[d] # NoRoom
          PROVE  /\ m \in Seq(Clients) /\ m = activeGameRooms'[v.ids[d]].members
                 /\ c \notin Range(m)
      BY <2>5, <2>6, <3>1, LeavingKeepsFirst
    <3>2. ASSUME v.ids[d] # NoRoom, NEW i \in 1..Len(m)  PROVE uid'[m[i]] = uid[m[i]]
      <4>1. m[i] \in Clients /\ m[i] \in Range(m)
        BY <3>1, <3>2 DEF Range
      <4> QED BY <3>1, <3>2, <4>1
    <3> QED BY <3>1, <3>2
  <2>8. \A y, w \in Views :
            /\ EndsAt(d, y, v.ids[d], v.rooms[v.ids[d]].members, v.state[d])
            /\ Reaches(y, more, w)
            => EndsAt(d, w, v.ids[d], m, v.state[d])
    BY <2>2, <2>5, ReachesNone
  <2> QED BY <2>2, <2>4, <2>7, <2>8, LeftBehindKnow
<1> QED BY <1>1, <1>2

(* The server takes the next request of c.                                   *)
LEMMA RequestTaken ==
    ASSUME LobbyTypes, NEW c \in Clients, out[c] # <<>>, Shape(c),
           out'[c] = Tail(out[c])
    PROVE  /\ ToSet(out'[c]) \subseteq ToSet(out[c]) /\ Head1(c) \in ToSet(out[c])
           /\ Head1(c) \in Requests
           /\ Head1(c).kind \in {"Create", "Join"} =>
                \A q \in ToSet(out'[c]) : q.kind \notin {"Join", "Quit"}
           /\ Head1(c).kind # "Quit" => ~QuitSent(c)
           /\ Head1(c).kind = "Quit" =>
                QuitSent(c) /\ \A q \in ToSet(out'[c]) : q.kind # "Quit"
<1>1. out[c] \in Seq(Requests)
  BY ViewType
<1>2. /\ ToSet(Tail(out[c])) \subseteq ToSet(out[c]) /\ Head(out[c]) \in ToSet(out[c])
      /\ Head(out[c]) \in Requests
  BY <1>1, TakenIs
<1>3. PICK w \in Requests \cup {NoRequest} : w = ui[c].waiting
  BY ViewType
<1>4. Owes(w, Bound(c), inbox[c], out[c]) /\ (w # NoRequest => w.kind # "Quit")
  BY <1>3 DEF Shape
<1>5. /\ Head(out[c]).kind \in {"Create", "Join"} =>
           \A q \in ToSet(Tail(out[c])) : q.kind # "Join"
      /\ Head(out[c]).kind = "Quit" => \A q \in ToSet(Tail(out[c])) : q.kind # "Quit"
      /\ Head(out[c]).kind # "Quit" => \A q \in ToSet(out[c]) : q.kind # "Quit"
  BY <1>4, RequestsOwed
<1> QED BY <1>2, <1>5 DEF Head1, QuitSent

(* The server answers it; t is what c gets.                                  *)
LEMMA ServedKnows ==
    ASSUME LobbyTypes, NEW c \in Clients, Knows(c), out[c] # <<>>, Handled(c),
           NEW news, Send(news), NEW t \in Seq(Packets), news[c] = t,
           \/ One(t, {Head1(c).kind})
           \/ None(t) /\ Head1(c).kind \in {"Quit", "Start"},
           state'[c] # "Closed" => state[c] # "Closed",
           \A x, w \in Views : Shape(c) /\ EndOK(c, x) /\ Reaches(x, t, w) => EndOK(c, w)'
    PROVE  Knows(c)'
<1>1. out'[c] = Tail(out[c]) /\ ui' = ui /\ client' = client /\ lost' = lost
  BY DEF Handled, LobbyTypes
<1>2. CASE ui[c].page = "gone"
  BY <1>1, <1>2, GoneKnows
<1>3. CASE ui[c].page # "gone"
  <2>1. inbox'[c] = inbox[c] \o t
    BY <1>3, SentTo
  <2>2. ASSUME Shape(c)  PROVE Owes(ui[c].waiting, Bound(c), inbox[c] \o t, Tail(out[c]))
    <3>1. PICK w \in Requests \cup {NoRequest} : w = ui[c].waiting
      BY ViewType
    <3>2. /\ Owes(w, Bound(c), inbox[c], out[c]) /\ (w # NoRequest => w.kind # "Quit")
          /\ inbox[c] \in Seq(Packets) /\ out[c] \in Seq(Requests) /\ Bound(c) \in BOOLEAN
      BY <2>2, <3>1, ViewType DEF Shape
    <3>3. CASE One(t, {Head1(c).kind})
      BY <3>1, <3>2, <3>3, AnswerOwed DEF Head1
    <3>4. CASE None(t) /\ Head1(c).kind \in {"Quit", "Start"}
      BY <3>1, <3>2, <3>4, TakenOwed DEF Head1
    <3> QED BY <3>3, <3>4
  <2> QED BY <1>1, <2>1, <2>2, ToldKnows
<1> QED BY <1>2, <1>3

(* The room of d and d's place in it are what they were.                     *)
LEMMA SameEnds ==
    ASSUME Parts, NEW d \in Clients, uid' = uid,
           \/ out'[d] = out[d]
           \/ ToSet(out'[d]) \subseteq ToSet(out[d]) /\ ~QuitSent(d),
           currentGameRoomId' = currentGameRoomId, state'[d] = state[d], loop' = loop,
           \A g \in DOMAIN activeGameRooms :
               activeGameRooms'[g].members = activeGameRooms[g].members,
           NEW x, EndOK(d, x)
    PROVE  EndOK(d, x)'
<1>1. PICK g : g = RoomOf(d)
  OBVIOUS
<1>2. PICK m : m = activeGameRooms[g].members
  OBVIOUS
<1>3. PICK n : n = activeGameRooms'[g].members
  OBVIOUS
<1>4. PICK st : st = StateOf(d)
  OBVIOUS
<1>5. EndsAt(d, x, g, m, st)
  BY <1>1, <1>2, <1>4 DEF EndOK
<1>6. g # NoRoom => m \in Seq(Clients) /\ n = m
  <2>1. g # NoRoom => g \in DOMAIN activeGameRooms
    BY <1>1 DEF Parts, GameOK, RoomOf
  <2> QED BY <1>2, <1>3, <2>1, MembersOf
<1>7. EndsAt(d, x, g, m, st)'
  BY <1>5, <1>6, EndsLater
<1>8. EndsAt(d, x, g, n, st)'
  <2>1. CASE g # NoRoom
    BY <1>6, <1>7, <2>1
  <2>2. CASE g = NoRoom
    BY <1>7, <2>2 DEF EndsAt, Agrees
  <2> QED BY <2>1, <2>2
<1>9. RoomOf(d)' = g /\ StateOf(d)' = st
  BY <1>1, <1>4 DEF RoomOf, StateOf, BeingDissolved
<1> QED BY <1>3, <1>8, <1>9 DEF EndOK

(* The answer to one client is sent to nobody else.                          *)
LEMMA NewsOnlyTo ==
    ASSUME NEW c \in Clients, NEW packets, NEW d \in Clients
    PROVE  /\ To(c, packets)[d] = IF d = c THEN packets ELSE <<>>
           /\ Silence[d] = <<>>
  BY DEF To, Silence

(* A client to which nothing is sent has the stream it had.                  *)
LEMMA NothingSent ==
    ASSUME LobbyTypes, NEW d \in Clients, NEW news, Send(news), news[d] = <<>>,
           ui[d].page # "gone"
    PROVE  inbox'[d] = inbox[d]
<1>1. inbox[d] \in Seq(Packets)
  BY ViewType
<1>2. inbox'[d] = inbox[d] \o <<>>
  BY SentTo
<1> QED BY <1>1, <1>2, ConcatEmptySeq

(* The others hear nothing of it, and nothing happens to their rooms.        *)
LEMMA UninvolvedKnow ==
    ASSUME Parts, LobbyTypes, NEW d \in Clients, Knows(d), NEW news, Send(news),
           news[d] = <<>>, uid' = uid, out'[d] = out[d],
           ui' = ui, client' = client, lost' = lost,
           currentGameRoomId' = currentGameRoomId, state'[d] = state[d], loop' = loop,
           \A g \in DOMAIN activeGameRooms :
               activeGameRooms'[g].members = activeGameRooms[g].members
    PROVE  Knows(d)'
<1>1. CASE ui[d].page = "gone"
  BY <1>1, GoneKnows
<1>2. CASE ui[d].page # "gone"
  <2>1. inbox'[d] = inbox[d]
    BY <1>2, NothingSent
  <2>2. \A x \in Views : EndOK(d, x) => EndOK(d, x)'
    BY SameEnds
  <2> QED BY <2>1, <2>2, UntouchedKnows
<1> QED BY <1>1, <1>2

(* A handled request is taken from the stream, and nothing else of a client  *)
(* changes.                                                                  *)
LEMMA HandledIs ==
    ASSUME LobbyTypes, NEW c \in Clients, out[c] # <<>>, Handled(c)
    PROVE  /\ out'[c] = Tail(out[c]) /\ \A d \in Clients \ {c} : out'[d] = out[d]
           /\ ui' = ui /\ client' = client /\ lost' = lost
  BY DEF Handled, LobbyTypes

(* serverHandleGameRoomList, and the requests that are refused or taken      *)
(* without an answer.                                                        *)
LEMMA QuietHandlersKnow ==
    ASSUME Parts, LobbyTypes, KnowInv, NEW c \in Clients,
           ServeList(c) \/ RefuseJoin(c) \/ IgnoreQuit(c) \/ RefuseStart(c)
    PROVE  KnowInv'
<1>1. /\ out[c] # <<>> /\ state[c] # "Closed" /\ Handled(c) /\ UNCHANGED serverVars
      /\ loop = NoClient /\ loop' = NoClient
  BY Zenon DEF ServeList, RefuseJoin, IgnoreQuit, RefuseStart, Takes, Handled
<1>2. /\ uid' = uid /\ currentGameRoomId' = currentGameRoomId /\ state' = state
      /\ activeGameRooms' = activeGameRooms /\ loop' = loop
  BY <1>1 DEF serverVars, vars
<1>3. FirstIsHost' /\ TheHostDissolves'
  BY <1>1, <1>2, NobodyDissolves DEF FirstIsHost, KnowInv
<1>4. /\ out'[c] = Tail(out[c]) /\ \A d \in Clients \ {c} : out'[d] = out[d]
      /\ ui' = ui /\ client' = client /\ lost' = lost
  BY <1>1, HandledIs
<1>5. PICK news : /\ Send(news) /\ \A d \in Clients \ {c} : news[d] = <<>>
                  /\ \/ /\ Head1(c).kind # "Quit"
                        /\ \E p \in Packets : /\ AnswersTo(p, {Head1(c).kind})
                                              /\ \A v : ~Tells(v, p)
                                              /\ news[c] = <<p>>
                     \/ /\ Head1(c).kind = "Quit" /\ state[c] = "SessionRoom"
                        /\ news[c] = <<>>
  <2>1. CASE ServeList(c)
    <3>1. Head1(c).kind = "List" /\ Send(To(c, <<ListResp>>))
      BY <2>1, Zenon DEF ServeList, Takes
    <3> QED BY <3>1, NewsOnlyTo, AnswersAre
  <2>2. CASE RefuseJoin(c)
    <3>1. Head1(c).kind = "Join" /\ Send(To(c, <<Status("JoinResp", FALSE)>>))
      BY <2>2, Zenon DEF RefuseJoin, Takes
    <3>2. PICK p \in Packets : /\ p = Status("JoinResp", FALSE)
                                /\ AnswersTo(p, {"Join"}) /\ \A v : ~Tells(v, p)
      BY AnswersAre
    <3>3. PICK news : news = To(c, <<p>>)
      OBVIOUS
    <3>4. news[c] = <<p>> /\ \A d \in Clients \ {c} : news[d] = <<>>
      BY <3>3, NewsOnlyTo
    <3>5. Send(news)
      BY <3>1, <3>2, <3>3
    <3> QED BY <3>1, <3>2, <3>4, <3>5
  <2>3. CASE RefuseStart(c)
    <3>1. Head1(c).kind = "Start" /\ Send(To(c, <<Status("StartResp", FALSE)>>))
      BY <2>3, Zenon DEF RefuseStart, Takes
    <3>2. PICK p \in Packets : /\ p = Status("StartResp", FALSE)
                                /\ AnswersTo(p, {"Start"}) /\ \A v : ~Tells(v, p)
      BY AnswersAre
    <3>3. PICK news : news = To(c, <<p>>)
      OBVIOUS
    <3>4. news[c] = <<p>> /\ \A d \in Clients \ {c} : news[d] = <<>>
      BY <3>3, NewsOnlyTo
    <3>5. Send(news)
      BY <3>1, <3>2, <3>3
    <3> QED BY <3>1, <3>2, <3>4, <3>5
  <2>4. CASE IgnoreQuit(c)
    <3>1. Head1(c).kind = "Quit" /\ state[c] = "SessionRoom" /\ Send(Silence)
      BY <2>4, Zenon DEF IgnoreQuit, Takes
    <3> QED BY <3>1, NewsOnlyTo
  <2> QED BY <2>1, <2>2, <2>3, <2>4
<1>6. ASSUME NEW d \in Clients, d # c  PROVE Knows(d)'
  BY <1>2, <1>4, <1>5, <1>6, UninvolvedKnow DEF KnowInv
<1>7. ASSUME \E p \in Packets : /\ AnswersTo(p, {Head1(c).kind}) /\ Head1(c).kind # "Quit"
                              /\ \A v : ~Tells(v, p)
                              /\ news[c] = <<p>>
      PROVE  Knows(c)'
  <2>1. PICK p \in Packets : /\ AnswersTo(p, {Head1(c).kind}) /\ Head1(c).kind # "Quit"
                             /\ \A v : ~Tells(v, p)
                             /\ news[c] = <<p>>
    BY <1>7
  <2>2. PICK t \in Seq(Packets) : t = <<p>> /\ One(t, {Head1(c).kind})
    <3>1. <<p>> \in Seq(Packets)
      OBVIOUS
    <3> QED BY <2>1, <3>1, SmallStreams
  <2>3. ASSUME NEW x \in Views, NEW w \in Views, Shape(c), EndOK(c, x), Reaches(x, t, w)
        PROVE  EndOK(c, w)'
    <3>1. Reads(x, p, w)
      BY <2>2, <2>3, ReachesOne
    <3>2. ~QuitSent(c) /\ ToSet(out'[c]) \subseteq ToSet(out[c])
      BY <1>1, <1>4, <2>1, <2>3, RequestTaken
    <3>3. EndOK(c, w)
      BY <1>1, <2>1, <2>3, <3>1, <3>2, NothingEnds DEF EndOK
    <3> QED BY <1>2, <3>2, <3>3, SameEnds
  <2> QED BY <1>1, <1>2, <1>5, <2>1, <2>2, <2>3, ServedKnows DEF KnowInv
<1>8. ASSUME Head1(c).kind = "Quit", state[c] = "SessionRoom", news[c] = <<>>
      PROVE  Knows(c)'
  <2>1. PICK t \in Seq(Packets) : t = <<>> /\ None(t)
    <3>1. <<>> \in Seq(Packets)
      OBVIOUS
    <3> QED BY <3>1, SmallStreams
  <2>2. currentGameRoomId[c] = NoRoom
    BY <1>8, OutsideGameRooms DEF InGameRoom
  <2>3. ASSUME NEW x \in Views, NEW w \in Views, Shape(c), EndOK(c, x), Reaches(x, t, w)
        PROVE  EndOK(c, w)'
    <3>1. w = x
      BY <2>1, <2>3, ReachesNone
    <3>2. /\ QuitSent(c) /\ ToSet(out'[c]) \subseteq ToSet(out[c])
          /\ \A q \in ToSet(out'[c]) : q.kind # "Quit"
      BY <1>1, <1>4, <1>8, <2>3, RequestTaken
    <3>3. PICK n : n = activeGameRooms'[NoRoom].members
      OBVIOUS
    <3>4. PICK st : st = state'[c] /\ st # "SessionGameRoomLobby"
      BY <1>2, <1>8
    <3>5. EndsAt(c, w, NoRoom, n, st)'
      <4>1. PICK g : g = currentGameRoomId[c]
        OBVIOUS
      <4>2. PICK m : m = activeGameRooms[g].members
        OBVIOUS
      <4>3. PICK before : before = state[c]
        OBVIOUS
      <4>4. EndsAt(c, x, g, m, before)
        BY <1>1, <2>3, <4>1, <4>2, <4>3, EndsHere
      <4> QED BY <3>1, <3>2, <3>4, <4>4, QuitEnds
    <3> QED BY <1>1, <1>2, <2>2, <3>3, <3>4, <3>5, EndsThere
  <2> QED BY <1>1, <1>2, <1>5, <1>8, <2>1, <2>3, ServedKnows DEF KnowInv
<1>9. Knows(c)'
  BY <1>5, <1>7, <1>8
<1> QED BY <1>3, <1>6, <1>9 DEF KnowInv

-----------------------------------------------------------------------------
(* The handlers in which a client leaves its room                            *)

(* The rooms that are left are led by their hosts' users.                    *)
LEMMA LeavingKeepsHostFirst ==
    ASSUME Parts, FirstIsHost, NEW c \in Clients, NEW v, v = LeaveGameRoom(c),
           \A d \in Clients \ {c} : uid'[d] = uid[d]
    PROVE  \A h \in DOMAIN v.rooms :
             v.rooms[h].hostUid = uid'[v.rooms[h].members[1]]
<1> SUFFICES ASSUME NEW h \in DOMAIN v.rooms
             PROVE  v.rooms[h].hostUid = uid'[v.rooms[h].members[1]]
  OBVIOUS
<1>1. PICK m : m = v.rooms[h].members
  OBVIOUS
<1>2. /\ h \in DOMAIN activeGameRooms
      /\ v.rooms[h].hostUid = activeGameRooms[h].hostUid
      /\ m # <<>> /\ m \in Seq(Clients) /\ c \notin Range(m)
      /\ m[1] = activeGameRooms[h].members[1]
  BY <1>1, LeavingKeepsFirst
<1>3. 1 \in DOMAIN m
  BY <1>2
<1>4. m[1] \in Clients /\ m[1] \in Range(m)
  BY <1>2, <1>3 DEF Range
<1>5. uid'[m[1]] = uid[m[1]]
  BY <1>2, <1>4
<1> QED BY <1>1, <1>2, <1>5 DEF FirstIsHost

(* The one who leaves hears nothing of it but its answer.                    *)
LEMMA AnswerAlone ==
    ASSUME Parts, FirstIsHost, TheHostDissolves, NEW c \in Clients,
           loop \in {NoClient, c}, NEW packets \in Seq(Packets),
           NEW news, news = Then(NewsOfLeaving(c), To(c, packets))
    PROVE  /\ news[c] = packets
           /\ \A d \in Clients \ {c} : news[d] = NewsOfLeaving(c)[d]
<1>1. PICK g : g = currentGameRoomId[c]
  OBVIOUS
<1>2. PICK v : v = LeaveGameRoom(c)
  OBVIOUS
<1>3. StaysOut(c, g, v) \/ TakesAlong(c, g, v) \/ GoesAlone(c, g, v)
  BY <1>1, <1>2, LeavingIs
<1>4. NewsOfLeaving(c)[c] = <<>>
  BY <1>3 DEF StaysOut, TakesAlong, GoesAlone, NewsOfLeaving, Silence
<1>5. news[c] = <<>> \o packets
  BY <1>4, NewsOnlyTo DEF Then
<1>6. <<>> \o packets = packets
  BY ConcatEmptySeq
<1>7. ASSUME NEW d \in Clients \ {c}  PROVE news[d] = NewsOfLeaving(c)[d]
  <2>1. PICK t \in Seq(Packets) : t = NewsOfLeaving(c)[d]
    BY LeavingHeard
  <2>2. news[d] = t \o <<>>
    BY <2>1, NewsOnlyTo DEF Then
  <2> QED BY <2>1, <2>2, ConcatEmptySeq
<1> QED BY <1>5, <1>6, <1>7

(* serverHandleGameRoomCreate: a room is made, or the old one is left for    *)
(* nothing.                                                                  *)
LEMMA CreateKnows ==
    ASSUME Parts, LobbyInv, KnowInv, NEW c \in Clients, NEW g \in GameRoomIds,
           NEW created \in BOOLEAN, ServeCreate(c, g, created)
    PROVE  KnowInv'
<1>1. PICK v : v = LeaveGameRoom(c)
  OBVIOUS
<1>2. PICK r \in GameRoomIds \cup {NoRoom} : r = IF created THEN g ELSE NoRoom
  OBVIOUS
<1>3. PICK p \in Packets : p = CreateResp(r) /\ AnswersTo(p, {"Create"})
  BY AnswersAre
<1>4. PICK t \in Seq(Packets) : t = <<p>> /\ One(t, {"Create"})
  <2>1. <<p>> \in Seq(Packets)
    OBVIOUS
  <2> QED BY <1>3, <2>1, SmallStreams
<1>5. PICK news : news = Then(NewsOfLeaving(c), To(c, t))
  OBVIOUS
<1>6. /\ out[c] # <<>> /\ state[c] # "Closed" /\ Head1(c).kind = "Create"
      /\ Handled(c) /\ g \notin drawn /\ Send(news)
      /\ GameRoomCreate(c, g, created)
  BY <1>2, <1>3, <1>4, <1>5, Zenon DEF ServeCreate, Takes
<1>7. /\ LobbyTypes /\ FirstIsHost /\ TheHostDissolves
      /\ loop \in {NoClient, c} /\ loop' = NoClient
  BY Zenon DEF LobbyInv, KnowInv, ServeCreate, MayLeave, Handled
<1>8. /\ out'[c] = Tail(out[c]) /\ \A d \in Clients \ {c} : out'[d] = out[d]
      /\ ui' = ui /\ client' = client /\ lost' = lost
  BY <1>6, <1>7, HandledIs
<1>9. /\ DOMAIN v.rooms \subseteq DOMAIN activeGameRooms
      /\ LeftGameRoom(c, v)
  BY <1>1, LeavingShape, LeaveGameRoomOK DEF Parts, CurrentGameOK
<1>10. g \notin DOMAIN v.rooms /\ uid' = uid /\ g # NoRoom
  <2>1. uid' = uid
    BY <1>6, Zenon DEF GameRoomCreate
  <2> QED BY <1>6, <1>9, <2>1, SessionServerAssumption DEF LobbyInv, HostInv
<1>11. PICK made : /\ made.hostUid = uid[c] /\ made.members = <<c>>
                   /\ activeGameRooms' = IF created THEN Put(v.rooms, g, made) ELSE v.rooms
                   /\ currentGameRoomId' = IF created THEN [v.ids EXCEPT ![c] = g]
                                           ELSE v.ids
                   /\ state' = IF created
                               THEN [v.state EXCEPT ![c] = "SessionGameRoomLobby"]
                               ELSE v.state
  <2> DEFINE fresh == [hostUid |-> uid[c], members |-> <<>>,
                       state |-> "GameRoomLobby", gameRunning |-> FALSE]
             room  == IF g \in DOMAIN v.rooms THEN v.rooms[g] ELSE fresh
             more  == [room EXCEPT !.members = Append(@, c)]
  <2>1. /\ activeGameRooms' = IF created THEN Put(v.rooms, g, more) ELSE v.rooms
        /\ currentGameRoomId' = IF created THEN [v.ids EXCEPT ![c] = g] ELSE v.ids
        /\ state' = IF created THEN [v.state EXCEPT ![c] = "SessionGameRoomLobby"]
                    ELSE v.state
    BY <1>1, <1>6, Zenon DEF GameRoomCreate
  <2>2. room = fresh
    BY <1>10
  <2>3. more = [fresh EXCEPT !.members = Append(@, c)]
    <3> HIDE DEF fresh, room
    <3> QED BY <2>2, Zenon
  <2> HIDE DEF more
  <2>4. more.hostUid = uid[c] /\ more.members = <<c>>
    BY <2>3
  <2> QED BY <2>1, <2>4
<1>12. /\ v.ids \in [Clients -> GameRoomIds \cup {NoRoom}]
       /\ v.state \in [Clients -> SessionStates] /\ v.ids[c] = NoRoom
       /\ v.state[c] \notin InGameRoom
  BY <1>9 DEF LeftGameRoom, GameOK, GameTypeOK
<1>13. /\ \A h \in DOMAIN v.rooms : /\ h \in DOMAIN activeGameRooms'
                                    /\ activeGameRooms'[h] = v.rooms[h]
       /\ \A h \in DOMAIN activeGameRooms' \ DOMAIN v.rooms :
            created /\ h = g /\ activeGameRooms'[h] = made
       /\ created => activeGameRooms'[g] = made
  BY <1>10, <1>11 DEF Put
<1>14. \A d \in Clients \ {c} :
          RoomOf(d)' = v.ids[d] /\ StateOf(d)' = v.state[d] /\ state'[d] = v.state[d]
  BY <1>7, <1>11, <1>12, EndsThere
<1>15. FirstIsHost'
  <2>1. \A h \in DOMAIN v.rooms : v.rooms[h].hostUid = uid'[v.rooms[h].members[1]]
    BY <1>1, <1>7, <1>10, LeavingKeepsHostFirst
  <2>2. ASSUME NEW h \in DOMAIN activeGameRooms'
        PROVE  activeGameRooms'[h].hostUid = uid'[activeGameRooms'[h].members[1]]
    <3>1. CASE h \in DOMAIN v.rooms
      BY <1>13, <2>1, <3>1
    <3>2. CASE h \notin DOMAIN v.rooms
      BY <1>10, <1>11, <1>13, <3>2
    <3> QED BY <3>1, <3>2
  <2> QED BY <2>2 DEF FirstIsHost
<1>16. news[c] = t /\ \A d \in Clients \ {c} : news[d] = NewsOfLeaving(c)[d]
  BY <1>5, <1>7, AnswerAlone
<1>17. ASSUME NEW d \in Clients, d # c  PROVE Knows(d)'
  BY <1>1, <1>6, <1>7, <1>8, <1>10, <1>13, <1>14, <1>16, <1>17, LeftAloneKnow DEF KnowInv
<1>18. ASSUME NEW x \in Views, NEW w \in Views, Shape(c), Reaches(x, t, w)
       PROVE  EndOK(c, w)'
  <2>1. Reads(x, p, w)
    BY <1>4, <1>18, ReachesOne
  <2>2. \A q \in ToSet(out'[c]) : q.kind \notin {"Join", "Quit"}
    BY <1>6, <1>7, <1>8, <1>18, RequestTaken
  <2>3. PICK n : n = activeGameRooms'[r].members
    OBVIOUS
  <2>4. PICK st : st = state'[c]
    OBVIOUS
  <2>5. EndsAt(c, w, r, n, st)'
    <3>1. CASE created
      <4>1. r = g /\ n[1] = c
        BY <1>2, <1>11, <1>13, <2>3, <3>1
      <4> QED BY <1>3, <2>1, <2>2, <4>1, CreatedEnds
    <3>2. CASE ~created
      <4>1. r = NoRoom /\ st # "SessionGameRoomLobby"
        BY <1>2, <1>11, <1>12, <2>4, <3>2 DEF InGameRoom
      <4> QED BY <1>3, <2>1, <2>2, <4>1, NotCreatedEnds
    <3> QED BY <3>1, <3>2
  <2>6. currentGameRoomId'[c] = r
    BY <1>2, <1>11, <1>12
  <2> QED BY <1>7, <2>3, <2>4, <2>5, <2>6, EndsThere
<1>19. Knows(c)'
  BY <1>4, <1>6, <1>7, <1>16, <1>18, ServedKnows DEF KnowInv
<1> QED BY <1>7, <1>15, <1>17, <1>19, NobodyDissolves DEF KnowInv

(* A handler in which c leaves its room and makes none.                      *)
LEMMA OthersLeftKnow ==
    ASSUME Parts, LobbyTypes, KnowInv, NEW c \in Clients, NEW v, v = LeaveGameRoom(c),
           loop \in {NoClient, c}, loop' = NoClient,
           NEW news, Send(news), \A d \in Clients \ {c} : news[d] = NewsOfLeaving(c)[d],
           \A d \in Clients \ {c} : uid'[d] = uid[d] /\ out'[d] = out[d],
           ui' = ui, client' = client, lost' = lost,
           activeGameRooms' = v.rooms, currentGameRoomId' = v.ids,
           \A d \in Clients \ {c} : state'[d] = v.state[d], Knows(c)'
    PROVE  KnowInv'
<1>1. \A h \in DOMAIN v.rooms : v.rooms[h].hostUid = uid'[v.rooms[h].members[1]]
  BY LeavingKeepsHostFirst DEF KnowInv
<1>2. FirstIsHost'
  BY <1>1 DEF FirstIsHost
<1>3. ASSUME NEW d \in Clients, d # c  PROVE Knows(d)'
  <2>1. RoomOf(d)' = v.ids[d] /\ StateOf(d)' = v.state[d]
    BY <1>3, EndsThere
  <2> QED BY <1>3, <2>1, LeftAloneKnow DEF KnowInv
<1> QED BY <1>2, <1>3, NobodyDissolves DEF KnowInv

(* serverHandleGameRoomQuit: a quit of somebody who is in a room.            *)
LEMMA QuitKnows ==
    ASSUME Parts, LobbyInv, KnowInv, NEW c \in Clients, ServeQuit(c)
    PROVE  KnowInv'
<1>1. PICK v : v = LeaveGameRoom(c)
  OBVIOUS
<1>2. PICK p \in Packets : /\ p = Status("QuitResp", TRUE) /\ AnswersTo(p, {"Quit"})
                           /\ \A x : ~Tells(x, p)
  BY AnswersAre
<1>3. PICK t \in Seq(Packets) : t = <<p>> /\ One(t, {"Quit"})
  <2>1. <<p>> \in Seq(Packets)
    OBVIOUS
  <2> QED BY <1>2, <2>1, SmallStreams
<1>4. PICK news : news = Then(NewsOfLeaving(c), To(c, t))
  OBVIOUS
<1>5. /\ out[c] # <<>> /\ state[c] # "Closed" /\ Head1(c).kind = "Quit"
      /\ Handled(c) /\ Send(news)
      /\ GameRoomQuit(c)
  BY <1>2, <1>3, <1>4, Zenon DEF ServeQuit, Takes
<1>6. /\ LobbyTypes /\ FirstIsHost /\ TheHostDissolves
      /\ loop \in {NoClient, c} /\ loop' = NoClient
  BY Zenon DEF LobbyInv, KnowInv, ServeQuit, MayLeave, Handled
<1>7. /\ out'[c] = Tail(out[c]) /\ \A d \in Clients \ {c} : out'[d] = out[d]
      /\ ui' = ui /\ client' = client /\ lost' = lost
  BY <1>5, <1>6, HandledIs
<1>8. /\ activeGameRooms' = v.rooms /\ currentGameRoomId' = v.ids /\ state' = v.state
      /\ uid' = uid
  BY <1>1, <1>5, Zenon DEF GameRoomQuit
<1>9. news[c] = t /\ \A d \in Clients \ {c} : news[d] = NewsOfLeaving(c)[d]
  BY <1>4, <1>6, AnswerAlone
<1>10. v.ids[c] = NoRoom /\ v.state[c] # "SessionGameRoomLobby"
  <2>1. LeftGameRoom(c, v)
    BY <1>1, LeaveGameRoomOK DEF Parts, CurrentGameOK
  <2>2. v.ids[c] = NoRoom /\ v.state[c] \notin InGameRoom
    BY <2>1 DEF LeftGameRoom, GameOK
  <2> QED BY <2>2 DEF InGameRoom
<1>11. ASSUME NEW x \in Views, NEW w \in Views, Shape(c), EndOK(c, x), Reaches(x, t, w)
       PROVE  EndOK(c, w)'
  <2>1. Reads(x, p, w)
    BY <1>3, <1>11, ReachesOne
  <2>2. /\ QuitSent(c) /\ ToSet(out'[c]) \subseteq ToSet(out[c])
        /\ \A q \in ToSet(out'[c]) : q.kind # "Quit"
    BY <1>5, <1>6, <1>7, <1>11, RequestTaken
  <2>3. /\ w.room = x.room /\ w.joined = x.joined
        /\ w.asks # NoRequest /\ w.asks.kind = "Join" => w.asks = x.asks
    BY <1>2, <2>1, NothingRead
  <2>4. PICK g : g = currentGameRoomId[c]
    OBVIOUS
  <2>5. PICK m : m = activeGameRooms[g].members
    OBVIOUS
  <2>6. PICK before : before = state[c]
    OBVIOUS
  <2>7. EndsAt(c, x, g, m, before)
    BY <1>6, <1>11, <2>4, <2>5, <2>6, EndsHere
  <2>8. PICK n : n = activeGameRooms'[NoRoom].members
    OBVIOUS
  <2>9. PICK st : st = state'[c] /\ st # "SessionGameRoomLobby"
    BY <1>8, <1>10
  <2>10. EndsAt(c, w, NoRoom, n, st)'
    BY <2>2, <2>3, <2>7, <2>9, QuitEnds
  <2>11. currentGameRoomId'[c] = NoRoom
    BY <1>8, <1>10
  <2> QED BY <1>6, <2>8, <2>9, <2>10, <2>11, EndsThere
<1>12. Knows(c)'
  BY <1>3, <1>5, <1>6, <1>9, <1>11, ServedKnows DEF KnowInv
<1> QED BY <1>1, <1>5, <1>6, <1>7, <1>8, <1>9, <1>12, OthersLeftKnow

(* clientDisconnect: a session ends.                                         *)
LEMMA DropKnows ==
    ASSUME Parts, LobbyInv, KnowInv, NEW c \in Clients, ServerDrops(c)
    PROVE  KnowInv'
<1>1. PICK v : v = LeaveGameRoom(c)
  OBVIOUS
<1>2. PICK news : news = NewsOfLeaving(c)
  OBVIOUS
<1>3. /\ Send(news) /\ ClientDisconnect(c) /\ out' = [out EXCEPT ![c] = <<>>]
      /\ UNCHANGED <<ui, client, lost>>
      /\ loop \in {NoClient, c} /\ loop' = NoClient
  BY <1>2, Zenon DEF ServerDrops, DropClient, MayLeave
<1>4. /\ activeGameRooms' = v.rooms /\ currentGameRoomId' = v.ids
      /\ state' = [v.state EXCEPT ![c] = "Closed"] /\ uid' = [uid EXCEPT ![c] = NoUid]
  BY <1>1, <1>3, Zenon DEF ClientDisconnect
<1>5. uid \in [Clients -> Users] /\ LobbyTypes /\ out \in [Clients -> Seq(Requests)]
  BY DEF Parts, GameOK, GameTypeOK, Users, LobbyInv, LobbyTypes
<1>6. v.state \in [Clients -> SessionStates]
  BY <1>1, LeaveGameRoomOK DEF Parts, CurrentGameOK, LeftGameRoom, GameOK, GameTypeOK
<1>7. /\ \A d \in Clients \ {c} : uid'[d] = uid[d] /\ out'[d] = out[d]
      /\ \A d \in Clients \ {c} : state'[d] = v.state[d]
      /\ state'[c] = "Closed"
  BY <1>3, <1>4, <1>5, <1>6
<1>8. Knows(c)'
  BY <1>7, GoneKnows
<1>9. \A d \in Clients \ {c} : news[d] = NewsOfLeaving(c)[d]
  BY <1>2
<1>10. /\ ui' = ui /\ client' = client /\ lost' = lost
       /\ Send(news) /\ loop \in {NoClient, c} /\ loop' = NoClient
       /\ activeGameRooms' = v.rooms /\ currentGameRoomId' = v.ids
  BY <1>3, <1>4
<1>11. \A d \in Clients \ {c} : uid'[d] = uid[d] /\ out'[d] = out[d]
  BY <1>7
<1>12. \A d \in Clients \ {c} : state'[d] = v.state[d]
  BY <1>7
<1> QED BY <1>1, <1>5, <1>8, <1>9, <1>10, <1>11, <1>12, OthersLeftKnow

-----------------------------------------------------------------------------
(* Steps in which no session and no seat changes                             *)

(* The rooms keep their members and their hosts.                             *)
SeatsStay ==
    /\ uid' = uid /\ state' = state /\ currentGameRoomId' = currentGameRoomId
    /\ loop' = loop
    /\ DOMAIN activeGameRooms' = DOMAIN activeGameRooms
    /\ \A g \in DOMAIN activeGameRooms :
         /\ activeGameRooms'[g].members = activeGameRooms[g].members
         /\ activeGameRooms'[g].hostUid = activeGameRooms[g].hostUid

(* In such a step everybody knows what they knew.                            *)
LEMMA SeatsStayKnown ==
    ASSUME Parts, LobbyTypes, KnowInv, SeatsStay
    PROVE  /\ FirstIsHost' /\ TheHostDissolves'
           /\ \A d \in Clients :
                /\ out'[d] = out[d] => \A x : EndOK(d, x) => EndOK(d, x)'
                /\ /\ out'[d] = out[d] /\ inbox'[d] = inbox[d] /\ ui'[d] = ui[d]
                   /\ client'[d] = client[d] /\ lost'[d] = lost[d]
                   => Knows(d)'
<1>1. FirstIsHost' /\ TheHostDissolves'
  BY DEF FirstIsHost, TheHostDissolves, KnowInv, SeatsStay
<1>2. ASSUME NEW d \in Clients, out'[d] = out[d], NEW x, EndOK(d, x)
      PROVE  EndOK(d, x)'
  BY <1>2, SameEnds DEF SeatsStay
<1>3. ASSUME NEW d \in Clients, out'[d] = out[d], inbox'[d] = inbox[d], ui'[d] = ui[d],
             client'[d] = client[d], lost'[d] = lost[d]
      PROVE  Knows(d)'
  BY <1>2, <1>3, UntouchedKnows DEF KnowInv, SeatsStay
<1> QED BY <1>1, <1>2, <1>3

(* gameRunner.c: games run; no client sees any of it.                        *)
LEMMA GamesRunUnknown ==
    ASSUME Parts, LobbyInv, KnowInv,
           \E g \in GameRoomIds : \/ ThreadLoads(g) \/ GameReturns(g)
                                  \/ ThreadDestroysSdk(g) \/ ThreadEnds(g)
    PROVE  KnowInv'
<1>1. /\ UNCHANGED <<out, inbox, ui, client, lost, loop, uid, state, currentGameRoomId>>
      /\ \/ activeGameRooms' = activeGameRooms
         \/ \E h \in DOMAIN activeGameRooms :
              activeGameRooms' = [activeGameRooms EXCEPT ![h].gameRunning = FALSE]
  <2>1. ASSUME NEW g \in GameRoomIds,
               ThreadLoads(g) \/ GameReturns(g) \/ ThreadDestroysSdk(g)
        PROVE  UNCHANGED <<out, inbox, ui, client, lost, loop, vars>>
    BY <2>1 DEF ThreadLoads, GameReturns, ThreadDestroysSdk, serverVars
  <2>2. ASSUME NEW g \in GameRoomIds, ThreadEnds(g)
        PROVE  /\ UNCHANGED <<out, inbox, ui, client, lost, loop, sessionVars>>
               /\ \/ activeGameRooms' = activeGameRooms
                  \/ \E h \in DOMAIN activeGameRooms :
                       activeGameRooms' = [activeGameRooms EXCEPT ![h].gameRunning = FALSE]
    BY <2>2 DEF ThreadEnds, ClearRunning
  <2> QED BY <2>1, <2>2 DEF sessionVars, vars
<1>2. /\ activeGameRooms \in [DOMAIN activeGameRooms -> GameRoomType]
      /\ LobbyTypes
  BY DEF Parts, GameOK, GameTypeOK, LobbyInv
<1>3. SeatsStay
  BY <1>1, <1>2 DEF SeatsStay, GameRoomType
<1> QED BY <1>1, <1>2, <1>3, SeatsStayKnown DEF KnowInv

(* serverDissolveGameRoom: the others of the room of c hear that they are in *)
(* no room, before the server waits for the game and takes them out of it.   *)
LEMMA StopKnows ==
    ASSUME Parts, LobbyInv, KnowInv, NEW c \in Clients, StopGame(c)
    PROVE  KnowInv'
<1>1. PICK g : g = currentGameRoomId[c]
  OBVIOUS
<1>2. PICK v : v = LeaveGameRoom(c)
  OBVIOUS
<1>3. PICK news : news = LeaveNews(c)
  OBVIOUS
<1>4. /\ UNCHANGED <<out, ui, client, lost, uid, state, currentGameRoomId>>
      /\ loop = NoClient /\ loop' = c /\ Send(news)
      /\ g \in DOMAIN activeGameRooms /\ g \notin DOMAIN v.rooms
      /\ activeGameRooms' = [activeGameRooms EXCEPT ![g].gameRunning = FALSE]
  BY <1>1, <1>2, <1>3, Zenon DEF StopGame, MustStopGame, sessionVars
<1>5. /\ activeGameRooms \in [DOMAIN activeGameRooms -> GameRoomType]
      /\ currentGameRoomId \in [Clients -> GameRoomIds \cup {NoRoom}]
      /\ state \in [Clients -> SessionStates]
      /\ NoRoom \notin DOMAIN activeGameRooms
      /\ LobbyTypes /\ FirstIsHost /\ TheHostDissolves
  BY SessionServerAssumption DEF Parts, GameOK, GameTypeOK, LobbyInv, KnowInv
<1>6. /\ DOMAIN activeGameRooms' = DOMAIN activeGameRooms
      /\ \A h \in DOMAIN activeGameRooms :
           /\ activeGameRooms'[h].members = activeGameRooms[h].members
           /\ activeGameRooms'[h].hostUid = activeGameRooms[h].hostUid
  BY <1>4, <1>5 DEF GameRoomType
<1>7. TakesAlong(c, g, v)
  <2>1. StaysOut(c, g, v) \/ TakesAlong(c, g, v) \/ GoesAlone(c, g, v)
    BY <1>1, <1>2, LeavingIs
  <2>2. ~StaysOut(c, g, v)
    BY <1>4, <1>5 DEF StaysOut
  <2>3. ~GoesAlone(c, g, v)
    BY <1>4 DEF GoesAlone
  <2> QED BY <2>1, <2>2, <2>3
<1>8. FirstIsHost'
  BY <1>4, <1>5, <1>6 DEF FirstIsHost
<1>9. TheHostDissolves'
  BY <1>1, <1>4, <1>6, <1>7 DEF TheHostDissolves, TakesAlong
<1>10. ASSUME NEW d \in Clients, d # c  PROVE Knows(d)'
  <2>1. BeingDissolved(d)' <=> currentGameRoomId[d] = g
    BY <1>1, <1>4, <1>5, <1>10 DEF BeingDissolved
  <2>2. RoomOf(d)' = v.ids[d] /\ StateOf(d)' = v.state[d]
    BY <1>4, <1>7, <2>1 DEF RoomOf, StateOf, TakesAlong
  <2>3. news[d] = NewsOfLeaving(c)[d]
    BY <1>3, <1>4, GameLobbyAssumption DEF NewsOfLeaving
  <2>4. \A h \in DOMAIN v.rooms : activeGameRooms'[h].members = v.rooms[h].members
    BY <1>6, <1>7 DEF TakesAlong
  <2>5. /\ ui'[d] = ui[d] /\ client'[d] = client[d] /\ lost'[d] = lost[d]
        /\ out'[d] = out[d] /\ state'[d] \in {v.state[d], state[d]}
        /\ \A e \in Clients \ {c} : uid'[e] = uid[e]
    BY <1>4
  <2>6. Knows(d) /\ loop \in {NoClient, c}
    BY <1>4 DEF KnowInv
  <2> QED BY <1>2, <1>4, <1>5, <1>10, <2>2, <2>3, <2>4, <2>5, <2>6, LeftAloneKnow
<1>11. Knows(c)'
  <2>1. CASE ui[c].page = "gone"
    BY <1>4, <2>1, GoneKnows
  <2>2. CASE ui[c].page # "gone"
    <3>1. news[c] = <<>>
      BY <1>3, <1>7 DEF TakesAlong
    <3>2. inbox'[c] = inbox[c]
      BY <1>4, <1>5, <2>2, <3>1, NothingSent
    <3>3. ASSUME NEW x \in Views, EndOK(c, x)  PROVE EndOK(c, x)'
      <4>1. PICK m : m = activeGameRooms[g].members
        OBVIOUS
      <4>2. PICK st : st = state[c]
        OBVIOUS
      <4>3. EndsAt(c, x, g, m, st)
        BY <1>1, <1>4, <3>3, <4>1, <4>2, EndsHere
      <4>4. m \in Seq(Clients)
        BY <1>4, <4>1, MembersOf
      <4>5. EndsAt(c, x, g, m, st)'
        BY <1>4, <4>3, <4>4, EndsLater
      <4> QED BY <1>1, <1>4, <1>6, <4>1, <4>2, <4>5, EndsThere
    <3> QED BY <1>4, <1>5, <3>2, <3>3, UntouchedKnows DEF KnowInv
  <2> QED BY <2>1, <2>2
<1> QED BY <1>8, <1>9, <1>10, <1>11 DEF KnowInv

-----------------------------------------------------------------------------
(* A client joins a room, and a game is started                              *)

(* serverHandleGameRoomJoin: a client that knows its room asks for another   *)
(* one, and what it leaves takes nothing from that.                          *)
LEMMA JoinableStays ==
    ASSUME Parts, NEW c \in Clients, NEW v, v = LeaveGameRoom(c), NEW g,
           Joinable(activeGameRooms, g), g # currentGameRoomId[c]
    PROVE  Joinable(v.rooms, g)
<1>1. PICK cg : cg = currentGameRoomId[c]
  OBVIOUS
<1>2. StaysOut(c, cg, v) \/ TakesAlong(c, cg, v) \/ GoesAlone(c, cg, v)
  BY <1>1, LeavingIs
<1>3. g \in DOMAIN activeGameRooms
  BY DEF Joinable
<1>4. g \in DOMAIN v.rooms /\ v.rooms[g] = activeGameRooms[g]
  <2>1. CASE StaysOut(c, cg, v)
    BY <1>3, <2>1 DEF StaysOut
  <2>2. CASE TakesAlong(c, cg, v)
    BY <1>1, <1>3, <2>2 DEF TakesAlong
  <2>3. CASE GoesAlone(c, cg, v)
    <3>1. activeGameRooms \in [DOMAIN activeGameRooms -> GameRoomType]
      BY DEF Parts, GameOK, GameTypeOK
    <3>2. v.rooms = [activeGameRooms EXCEPT
                       ![cg].members = RemoveFirst(activeGameRooms[cg].members, c)]
      BY <2>3 DEF GoesAlone
    <3> QED BY <1>1, <1>3, <3>1, <3>2
  <2> QED BY <1>2, <2>1, <2>2, <2>3
<1> QED BY <1>4 DEF Joinable

(* serverHandleGameRoomJoin: a client that knows its room does not ask to    *)
(* join the one it is in.                                                    *)
LEMMA JoinAsksForAnother ==
    ASSUME Parts, LobbyTypes, NEW c \in Clients, out[c] # <<>>, Head1(c).kind = "Join",
           state[c] \in {"SessionRoom", "SessionGameRoomLobby"},
           loop \in {NoClient, c}, Shape(c), NEW x, EndOK(c, x), out'[c] = Tail(out[c])
    PROVE  Head1(c).room # currentGameRoomId[c]
<1>1. PICK q : q = Head1(c)
  OBVIOUS
<1>2. q \in ToSet(out[c]) /\ ~QuitSent(c) /\ q.kind = "Join"
  BY <1>1, RequestTaken
<1>3. PICK g : g = currentGameRoomId[c]
  OBVIOUS
<1>4. PICK m : m = activeGameRooms[g].members
  OBVIOUS
<1>5. PICK st : st = state[c]
  OBVIOUS
<1>6. EndsAt(c, x, g, m, st)
  BY <1>3, <1>4, <1>5, EndsHere
<1>7. q.room \notin {x.joined, NoRoom} /\ (st = "SessionGameRoomLobby" => x.joined = g)
  BY <1>2, <1>6 DEF EndsAt
<1>8. st # "SessionGameRoomLobby" => g = NoRoom
  BY <1>3, <1>5, OutsideGameRooms DEF InGameRoom
<1> QED BY <1>1, <1>3, <1>7, <1>8

(* serverHandleGameRoomJoin: the room was taken away by leaving; no client   *)
(* that knows its room can meet this.                                        *)
LEMMA LateRefusalKnows ==
    ASSUME Parts, LobbyInv, KnowInv, NEW c \in Clients, ServeJoin(c),
           ~Joinable(LeaveGameRoom(c).rooms, Head1(c).room)
    PROVE  KnowInv'
<1>1. PICK v : v = LeaveGameRoom(c)
  OBVIOUS
<1>2. PICK p \in Packets : /\ p = Status("JoinResp", FALSE) /\ AnswersTo(p, {"Join"})
                           /\ \A x : ~Tells(x, p)
  BY AnswersAre
<1>3. PICK t \in Seq(Packets) : t = <<p>> /\ One(t, {"Join"})
  <2>1. <<p>> \in Seq(Packets)
    OBVIOUS
  <2> QED BY <1>2, <2>1, SmallStreams
<1>4. PICK news : news = Then(NewsOfLeaving(c), To(c, t))
  OBVIOUS
<1>5. /\ out[c] # <<>> /\ state[c] # "Closed" /\ Head1(c).kind = "Join"
      /\ Handled(c) /\ Send(news)
      /\ GameRoomJoin(c, Head1(c).room)
  BY <1>2, <1>3, <1>4, Zenon DEF ServeJoin, Takes
<1>6. /\ LobbyTypes /\ FirstIsHost /\ TheHostDissolves
      /\ loop \in {NoClient, c} /\ loop' = NoClient
  BY Zenon DEF LobbyInv, KnowInv, ServeJoin, MayLeave, Handled
<1>7. /\ out'[c] = Tail(out[c]) /\ \A d \in Clients \ {c} : out'[d] = out[d]
      /\ ui' = ui /\ client' = client /\ lost' = lost
  BY <1>5, <1>6, HandledIs
<1>8. /\ activeGameRooms' = v.rooms /\ currentGameRoomId' = v.ids /\ state' = v.state
      /\ uid' = uid /\ Joinable(activeGameRooms, Head1(c).room)
  BY <1>1, <1>5, Zenon DEF GameRoomJoin
<1>9. news[c] = t /\ \A d \in Clients \ {c} : news[d] = NewsOfLeaving(c)[d]
  BY <1>4, <1>6, AnswerAlone
<1>10. state[c] \in {"SessionRoom", "SessionGameRoomLobby"}
  BY <1>5, ReceivedIn DEF GameRoomJoin
<1>11. ASSUME NEW x \in Views, Shape(c), EndOK(c, x)
       PROVE  FALSE
  <2>1. Head1(c).room # currentGameRoomId[c]
    BY <1>5, <1>6, <1>7, <1>10, <1>11, JoinAsksForAnother
  <2> QED BY <1>1, <1>8, <2>1, JoinableStays
<1>12. Knows(c)'
  BY <1>3, <1>5, <1>6, <1>9, <1>11, ServedKnows DEF KnowInv
<1> QED BY <1>1, <1>5, <1>6, <1>7, <1>8, <1>9, <1>12, OthersLeftKnow

(* serverRemoveClientFromGameRoom: nobody hears of its own leaving.          *)
LEMMA LeaverHearsNothing ==
    ASSUME Parts, NEW c \in Clients
    PROVE  NewsOfLeaving(c)[c] = <<>>
<1>1. PICK g : g = currentGameRoomId[c]
  OBVIOUS
<1>2. PICK v : v = LeaveGameRoom(c)
  OBVIOUS
<1>3. StaysOut(c, g, v) \/ TakesAlong(c, g, v) \/ GoesAlone(c, g, v)
  BY <1>1, <1>2, LeavingIs
<1> QED BY <1>3 DEF StaysOut, TakesAlong, GoesAlone, NewsOfLeaving, Silence

(* serverHandleGameRoomJoin: c is let in; at are the members with it.        *)
LEMMA JoinedKnows ==
    ASSUME Parts, LobbyInv, KnowInv, NEW c \in Clients, ServeJoin(c),
           Joinable(LeaveGameRoom(c).rooms, Head1(c).room)
    PROVE  KnowInv'
<1>1. PICK v : v = LeaveGameRoom(c)
  OBVIOUS
<1>2. PICK g : g = Head1(c).room
  OBVIOUS
<1>3. PICK n : n = v.rooms[g].members
  OBVIOUS
<1>4. /\ LobbyTypes /\ FirstIsHost /\ TheHostDissolves
      /\ loop \in {NoClient, c} /\ loop' = NoClient
  BY Zenon DEF LobbyInv, KnowInv, ServeJoin, MayLeave, Handled
<1>5. /\ out[c] # <<>> /\ state[c] # "Closed" /\ Head1(c).kind = "Join" /\ Handled(c)
      /\ GameRoomJoin(c, g)
  BY <1>2, Zenon DEF ServeJoin, Takes
<1>6. /\ out'[c] = Tail(out[c]) /\ \A d \in Clients \ {c} : out'[d] = out[d]
      /\ ui' = ui /\ client' = client /\ lost' = lost
  BY <1>4, <1>5, HandledIs
<1>7. /\ g \in DOMAIN v.rooms
      /\ activeGameRooms' = [v.rooms EXCEPT ![g].members = Append(@, c)]
      /\ currentGameRoomId' = [v.ids EXCEPT ![c] = g]
      /\ state' = [v.state EXCEPT ![c] = "SessionGameRoomLobby"]
      /\ uid' = uid
  BY <1>1, <1>2, <1>5, Zenon DEF GameRoomJoin, Joinable
<1>8. LeftGameRoom(c, v)
  BY <1>1, LeaveGameRoomOK DEF Parts, CurrentGameOK
<1>9. /\ v.ids \in [Clients -> GameRoomIds \cup {NoRoom}]
      /\ v.state \in [Clients -> SessionStates] /\ v.ids[c] = NoRoom
      /\ v.rooms \in [DOMAIN v.rooms -> GameRoomType]
      /\ g \in GameRoomIds /\ g # NoRoom
      /\ SeatsOK(v.rooms[g], g, v.ids, v.state, uid)
      /\ \A d \in Clients : v.ids[d] # NoRoom =>
           v.ids[d] \in DOMAIN v.rooms /\ d \in Range(v.rooms[v.ids[d]].members)
      /\ uid \in [Clients -> Users]
  BY <1>7, <1>8, SessionServerAssumption DEF LeftGameRoom, GameOK, GameTypeOK, Users
<1>10. /\ n \in Seq(Clients) /\ n # <<>> /\ c \notin Range(n) /\ IsInjective(n)
       /\ \A d \in Clients : d \in Range(n) <=> v.ids[d] = g
  <2>1. n \in Seq(Clients) /\ n # <<>> /\ c \notin Range(n)
    BY <1>1, <1>3, <1>4, <1>7, LeavingKeepsFirst
  <2>2. IsInjective(n) /\ \A d \in Range(n) : v.ids[d] = g
    BY <1>3, <1>9 DEF SeatsOK
  <2> QED BY <1>3, <1>9, <2>1, <2>2
<1>11. PICK at \in Seq(Clients) : at = Append(n, c) /\ IsInjective(at)
                                  /\ Range(at) = Range(n) \cup {c}
  BY <1>10, AppendMember
<1>12. /\ activeGameRooms'[g].members = at
       /\ activeGameRooms'[g].hostUid = v.rooms[g].hostUid
       /\ DOMAIN activeGameRooms' = DOMAIN v.rooms
       /\ \A h \in DOMAIN v.rooms \ {g} : activeGameRooms'[h] = v.rooms[h]
  BY <1>3, <1>7, <1>9, <1>11 DEF GameRoomType
<1>13. PICK us : us = UsersOf(at)'
  OBVIOUS
<1>14. us \in Seq(Users) /\ us = [i \in DOMAIN at |-> uid[at[i]]]
  <2>1. us = [i \in DOMAIN at |-> uid[at[i]]]
    BY <1>7, <1>13 DEF UsersOf
  <2>2. DOMAIN at = 1..Len(at) /\ Len(at) \in Nat /\ \A i \in 1..Len(at) : uid[at[i]] \in Users
    BY <1>9
  <2> QED BY <2>1, <2>2
<1>15. PICK a \in Packets, b \in Packets :
              /\ a = Status("JoinResp", TRUE) /\ AnswersTo(a, {"Join"})
              /\ b = MembersAre(us) /\ Notice(b)
  BY <1>14, AnswersAre, NoticesAre
<1>16. PICK t \in Seq(Packets) : t = <<a, b>> /\ One(t, {"Join"})
  <2>1. <<a, b>> \in Seq(Packets)
    OBVIOUS
  <2> QED BY <1>15, <2>1, SmallStreams
<1>17. PICK p \in Packets : p = Joined(uid[c]) /\ Notice(p)
  <2>1. uid[c] \in Users
    BY <1>9
  <2> QED BY <2>1, NoticesAre
<1>18. PICK news : news = Then(NewsOfLeaving(c), Then(To(c, t), Broadcast(at, c, p)))
  OBVIOUS
<1>19. Send(news)
  <2>1. PICK here : here = activeGameRooms'[g].members
    OBVIOUS
  <2>2. Send(Then(NewsOfLeaving(c),
                  Then(To(c, <<Status("JoinResp", TRUE),
                               MembersAre([i \in DOMAIN here |-> uid[here[i]]])>>),
                       Broadcast(here, c, Joined(uid[c])))))
    BY <1>2, <2>1, Zenon DEF ServeJoin
  <2>3. here = at
    BY <1>12, <2>1
  <2> QED BY <1>14, <1>15, <1>16, <1>17, <1>18, <2>2, <2>3
<1>20. PICK here : /\ news[c] = t /\ news = Then(NewsOfLeaving(c), here)
                   /\ \A d \in Clients \ {c} :
                        here[d] = IF d \in Range(at) THEN <<p>> ELSE <<>>
  <2>1. PICK told : told = Broadcast(at, c, p)
    OBVIOUS
  <2>2. \A d \in Clients : told[d] = IF d \in Range(at) /\ d # c THEN <<p>> ELSE <<>>
    <3>1. IsInjective(at)
      BY <1>11
    <3> QED BY <2>1, <3>1, BroadcastIs
  <2>3. PICK here : here = Then(To(c, t), told)
    OBVIOUS
  <2>4. news = Then(NewsOfLeaving(c), here)
    BY <1>18, <2>1, <2>3
  <2>5. here[c] = t
    <3>1. here[c] = t \o <<>>
      BY <2>2, <2>3, NewsOnlyTo DEF Then
    <3> QED BY <3>1, ConcatEmptySeq
  <2>6. ASSUME NEW d \in Clients \ {c}
        PROVE  here[d] = IF d \in Range(at) THEN <<p>> ELSE <<>>
    <3>1. here[d] = <<>> \o told[d]
      BY <2>3, NewsOnlyTo DEF Then
    <3>2. told[d] \in Seq(Packets)
      <4>1. <<p>> \in Seq(Packets) /\ <<>> \in Seq(Packets)
        OBVIOUS
      <4> QED BY <2>2, <4>1
    <3>3. here[d] = told[d]
      BY <3>1, <3>2, ConcatEmptySeq
    <3> QED BY <2>2, <3>3
  <2>7. news[c] = t
    <3>1. news[c] = <<>> \o t
      BY <2>4, <2>5, LeaverHearsNothing DEF Then
    <3> QED BY <3>1, ConcatEmptySeq
  <2> QED BY <2>4, <2>6, <2>7
<1>21. FirstIsHost'
  <2>1. \A h \in DOMAIN v.rooms : v.rooms[h].hostUid = uid'[v.rooms[h].members[1]]
    BY <1>1, <1>4, <1>7, LeavingKeepsHostFirst
  <2>2. at[1] = n[1]
    BY <1>10, <1>11
  <2>3. ASSUME NEW h \in DOMAIN activeGameRooms'
        PROVE  activeGameRooms'[h].hostUid = uid'[activeGameRooms'[h].members[1]]
    <3>1. CASE h = g
      BY <1>3, <1>7, <1>12, <2>1, <2>2, <3>1
    <3>2. CASE h # g
      BY <1>12, <2>1, <3>2
    <3> QED BY <3>1, <3>2
  <2> QED BY <2>3 DEF FirstIsHost
<1>22. ASSUME NEW d \in Clients, d # c  PROVE Knows(d)'
  <2>1. /\ RoomOf(d)' = v.ids[d] /\ StateOf(d)' = v.state[d] /\ state'[d] = v.state[d]
        /\ ui'[d] = ui[d] /\ client'[d] = client[d] /\ lost'[d] = lost[d]
        /\ out'[d] = out[d] /\ Knows(d)
    BY <1>4, <1>6, <1>7, <1>9, <1>22, EndsThere DEF KnowInv
  <2>2. CASE ui[d].page = "gone"
    BY <2>1, <2>2, GoneKnows
  <2>3. ASSUME ui[d].page # "gone", v.ids[d] = g  PROVE Knows(d)'
    <3>1. PICK more \in Seq(Packets) : more = <<p>> /\ None(more)
      <4>1. <<p>> \in Seq(Packets)
        OBVIOUS
      <4> QED BY <1>17, <4>1, SmallStreams
    <3>2. inbox'[d] = inbox[d] \o (NewsOfLeaving(c)[d] \o more)
      <4>1. d \in Range(at)
        BY <1>10, <1>11, <2>3
      <4>2. news[d] = NewsOfLeaving(c)[d] \o more
        BY <1>20, <1>22, <3>1, <4>1 DEF Then
      <4> QED BY <1>19, <2>3, <4>2, SentTo
    <3>3. \A y, w \in Views :
            /\ EndsAt(d, y, v.ids[d], v.rooms[v.ids[d]].members, v.state[d])
            /\ Reaches(y, more, w)
            => EndsAt(d, w, v.ids[d], at, v.state[d])
      <4>1. PICK st : st = v.state[d]
        OBVIOUS
      <4>2. ASSUME NEW y \in Views, NEW w \in Views, EndsAt(d, y, g, n, st),
                   Reaches(y, more, w)
            PROVE  EndsAt(d, w, g, at, st)
        <5>1. Reads(y, Joined(uid[c]), w)
          BY <1>17, <3>1, <4>2, ReachesOne
        <5> QED BY <1>9, <1>10, <1>11, <4>2, <5>1, JoinedEnds
      <4> QED BY <1>3, <2>3, <4>1, <4>2
    <3>4. at = activeGameRooms'[v.ids[d]].members /\ \A i \in 1..Len(at) : uid'[at[i]] = uid[at[i]]
      BY <1>7, <1>12, <2>3
    <3> QED BY <1>1, <1>4, <1>22, <2>1, <3>1, <3>2, <3>3, <3>4, LeftBehindKnow
  <2>4. ASSUME ui[d].page # "gone", v.ids[d] # g  PROVE Knows(d)'
    <3>1. PICK more \in Seq(Packets) : more = <<>> /\ None(more)
      <4>1. <<>> \in Seq(Packets)
        OBVIOUS
      <4> QED BY <4>1, SmallStreams
    <3>2. inbox'[d] = inbox[d] \o (NewsOfLeaving(c)[d] \o more)
      <4>1. d \notin Range(at)
        BY <1>10, <1>11, <1>22, <2>4
      <4>2. news[d] = NewsOfLeaving(c)[d] \o more
        BY <1>20, <1>22, <3>1, <4>1 DEF Then
      <4> QED BY <1>19, <2>4, <4>2, SentTo
    <3>3. PICK m : m = v.rooms[v.ids[d]].members
      OBVIOUS
    <3>4. \A y, w \in Views :
            /\ EndsAt(d, y, v.ids[d], v.rooms[v.ids[d]].members, v.state[d])
            /\ Reaches(y, more, w)
            => EndsAt(d, w, v.ids[d], m, v.state[d])
      BY <3>1, <3>3, ReachesNone
    <3>5. v.ids[d] # NoRoom =>
            /\ m \in Seq(Clients) /\ m = activeGameRooms'[v.ids[d]].members
            /\ \A i \in 1..Len(m) : uid'[m[i]] = uid[m[i]]
      BY <1>1, <1>4, <1>7, <1>9, <1>12, <2>4, <3>3, LeavingKeepsFirst
    <3> QED BY <1>1, <1>4, <1>22, <2>1, <3>1, <3>2, <3>4, <3>5, LeftBehindKnow
  <2> QED BY <2>2, <2>3, <2>4
<1>23. ASSUME NEW x \in Views, NEW w \in Views, Shape(c), EndOK(c, x), Reaches(x, t, w)
       PROVE  EndOK(c, w)'
  <2>1. PICK q : q = Head1(c) /\ q \in ToSet(out[c]) /\ q.kind = "Join" /\ q.room = g
    BY <1>2, <1>4, <1>5, <1>6, <1>23, RequestTaken
  <2>2. \A r \in ToSet(out'[c]) : r.kind \notin {"Join", "Quit"}
    BY <1>4, <1>5, <1>6, <1>23, RequestTaken
  <2>3. PICK cg : cg = currentGameRoomId[c]
    OBVIOUS
  <2>4. PICK m : m = activeGameRooms[cg].members
    OBVIOUS
  <2>5. PICK st : st = state[c]
    OBVIOUS
  <2>6. EndsAt(c, x, cg, m, st)
    BY <1>4, <1>23, <2>3, <2>4, <2>5, EndsHere
  <2>7. PICK after : after = state'[c]
    OBVIOUS
  <2>8. Reaches(x, <<Status("JoinResp", TRUE), MembersAre(us)>>, w)
    BY <1>15, <1>16, <1>23
  <2>9. EndsAt(c, w, q.room, at, after)'
    BY <1>13, <1>14, <2>1, <2>2, <2>6, <2>8, EnteredEnds
  <2>10. currentGameRoomId'[c] = g
    BY <1>7, <1>9
  <2> QED BY <1>4, <1>12, <2>1, <2>7, <2>9, <2>10, EndsThere
<1>24. Knows(c)'
  BY <1>4, <1>5, <1>16, <1>19, <1>20, <1>23, ServedKnows DEF KnowInv
<1> QED BY <1>4, <1>21, <1>22, <1>24, NobodyDissolves DEF KnowInv

(* serverHandleGameRoomStart: the game of a room is started by its host.     *)
LEMMA StartKnows ==
    ASSUME Parts, LobbyInv, KnowInv, NEW c \in Clients, ServeStart(c)
    PROVE  KnowInv'
<1>1. PICK g : g = Head1(c).room
  OBVIOUS
<1>2. PICK m : m = activeGameRooms[g].members
  OBVIOUS
<1>3. LobbyTypes /\ FirstIsHost /\ loop = NoClient /\ loop' = NoClient
  BY Zenon DEF LobbyInv, KnowInv, ServeStart, Handled
<1>4. PICK p \in Packets : p = Status("StartResp", TRUE) /\ Notice(p)
  BY NoticesAre
<1>5. PICK news : news = Broadcast(m, NoClient, p)
  OBVIOUS
<1>6. /\ out[c] # <<>> /\ state[c] # "Closed" /\ Head1(c).kind = "Start" /\ Handled(c)
      /\ GameRoomStart(c, g) /\ Send(news)
  BY <1>1, <1>2, <1>4, <1>5, Zenon DEF ServeStart, Takes
<1>7. /\ out'[c] = Tail(out[c]) /\ \A d \in Clients \ {c} : out'[d] = out[d]
      /\ ui' = ui /\ client' = client /\ lost' = lost
  BY <1>3, <1>6, HandledIs
<1>8. /\ g \in DOMAIN activeGameRooms
      /\ activeGameRooms' =
           [activeGameRooms EXCEPT ![g].state = "GameRoomPlaying", ![g].gameRunning = TRUE]
      /\ state' = [d \in Clients |-> IF d \in Range(m) THEN "SessionGameRoomPlay"
                                     ELSE state[d]]
      /\ uid' = uid /\ currentGameRoomId' = currentGameRoomId
  BY <1>2, <1>6, Zenon DEF GameRoomStart
<1>9. /\ m \in Seq(Clients) /\ IsInjective(m) /\ g # NoRoom
      /\ \A d \in Clients : d \in Range(m) <=> currentGameRoomId[d] = g
  BY <1>2, <1>8, MembersOf
<1>10. /\ DOMAIN activeGameRooms' = DOMAIN activeGameRooms
       /\ \A h \in DOMAIN activeGameRooms :
            /\ activeGameRooms'[h].members = activeGameRooms[h].members
            /\ activeGameRooms'[h].hostUid = activeGameRooms[h].hostUid
  <2>1. activeGameRooms \in [DOMAIN activeGameRooms -> GameRoomType]
    BY DEF Parts, GameOK, GameTypeOK
  <2> QED BY <1>8, <2>1 DEF GameRoomType
<1>11. FirstIsHost'
  BY <1>3, <1>8, <1>10 DEF FirstIsHost
<1>12. \A d \in Clients : news[d] = IF d \in Range(m) THEN <<p>> ELSE <<>>
  <2>1. IsInjective(m)
    BY <1>9
  <2>2. m \in Seq(Clients)
    BY <1>9
  <2>3. \A d \in Clients : news[d] = IF d \in Range(m) /\ d # NoClient THEN <<p>> ELSE <<>>
    BY <1>5, <2>1, <2>2, BroadcastIs
  <2> QED BY <2>3, GameLobbyAssumption
<1>13. PICK t \in Seq(Packets) : t = <<p>> /\ None(t)
  <2>1. <<p>> \in Seq(Packets)
    OBVIOUS
  <2> QED BY <1>4, <2>1, SmallStreams
<1>14. ASSUME NEW d \in Clients, d \in Range(m), d = c => Shape(c),
              NEW x \in Views, NEW w \in Views, EndOK(d, x), Reaches(x, t, w)
       PROVE  EndOK(d, w)'
  <2>1. Reads(x, Status("StartResp", TRUE), w)
    BY <1>4, <1>13, <1>14, ReachesOne
  <2>2. PICK st : st = state[d]
    OBVIOUS
  <2>3. PICK after : after = state'[d] /\ after # "SessionGameRoomLobby"
    BY <1>8, <1>14
  <2>4. currentGameRoomId[d] = g
    BY <1>9, <1>14
  <2>5. EndsAt(d, x, g, m, st)
    BY <1>2, <1>3, <1>14, <2>2, <2>4, EndsHere
  <2>6. EndsAt(d, w, g, m, after)
    BY <2>1, <2>3, <2>5, StartedEnds
  <2>7. \/ out'[d] = out[d]
        \/ ToSet(out'[d]) \subseteq ToSet(out[d]) /\ ~QuitSent(d)
    <3>1. CASE d = c
      <4>1. ToSet(out'[c]) \subseteq ToSet(out[c]) /\ ~QuitSent(c)
        BY <1>3, <1>6, <1>7, <1>14, <3>1, RequestTaken
      <4> QED BY <3>1, <4>1
    <3>2. CASE d # c
      BY <1>7, <3>2
    <3> QED BY <3>1, <3>2
  <2>8. EndsAt(d, w, g, m, after)'
    BY <1>8, <1>9, <2>6, <2>7, EndsLater
  <2> QED BY <1>2, <1>3, <1>8, <1>10, <2>3, <2>4, <2>8, EndsThere
<1>15. ASSUME NEW d \in Clients, d # c  PROVE Knows(d)'
  <2>1. Knows(d) /\ out'[d] = out[d]
    BY <1>7, <1>15 DEF KnowInv
  <2>2. CASE d \notin Range(m)
    BY <1>3, <1>6, <1>7, <1>8, <1>10, <1>12, <2>1, <2>2, UninvolvedKnow
  <2>3. ASSUME d \in Range(m), ui[d].page # "gone"  PROVE Knows(d)'
    <3>1. inbox'[d] = inbox[d] \o t
      BY <1>6, <1>12, <1>13, <2>3, SentTo
    <3>2. ASSUME Shape(d)  PROVE Owes(ui[d].waiting, Bound(d), inbox[d] \o t, out'[d])
      <4>1. Owes(ui[d].waiting, Bound(d), inbox[d] \o t, out[d])
        BY <1>3, <1>13, <3>2, ViewType, NewsOwed DEF Shape
      <4> QED BY <2>1, <4>1
    <3>3. state'[d] # "Closed" => state[d] # "Closed"
      <4>1. state[d] \in InGameRoom
        BY <1>9, <2>3 DEF Parts, GameOK
      <4> QED BY <4>1 DEF InGameRoom
    <3> QED BY <1>3, <1>7, <1>14, <1>15, <2>1, <2>3, <3>1, <3>2, <3>3, ToldKnows
  <2>4. CASE ui[d].page = "gone"
    BY <1>7, <2>4, GoneKnows
  <2> QED BY <2>2, <2>3, <2>4
<1>16. c \in Range(m)
  <2>1. out[c] \in Seq(Requests)
    BY <1>3 DEF LobbyTypes
  <2>2. Head1(c) \in ToSet(out[c])
    BY <1>6, <2>1, TakenIs DEF Head1
  <2>3. OwnRoom(c, g)
    BY <1>1, <1>6, <2>2 DEF LobbyInv, HostInv
  <2> QED BY <1>8, <1>9, <2>3 DEF OwnRoom
<1>17. Knows(c)'
  <2>1. news[c] = t
    BY <1>12, <1>13, <1>16
  <2> QED BY <1>3, <1>6, <1>13, <1>14, <1>16, <2>1, ServedKnows DEF KnowInv
<1> QED BY <1>3, <1>11, <1>15, <1>17, NobodyDissolves DEF KnowInv

(* Every handler of the server.                                              *)
LEMMA ServerStepKnows ==
    ASSUME Parts, LobbyInv, KnowInv, NEW c \in Clients, ServerStep(c)
    PROVE  KnowInv'
<1>1. ASSUME NEW g \in GameRoomIds, NEW created \in BOOLEAN, ServeCreate(c, g, created)
      PROVE  KnowInv'
  BY <1>1, CreateKnows
<1>2. CASE StopGame(c)
  BY <1>2, StopKnows
<1>3. CASE ServeJoin(c)
  BY <1>3, JoinedKnows, LateRefusalKnows
<1>4. CASE ServeList(c) \/ RefuseJoin(c) \/ IgnoreQuit(c) \/ RefuseStart(c)
  <2>1. LobbyTypes
    BY DEF LobbyInv
  <2> QED BY <1>4, <2>1, QuietHandlersKnow
<1>5. CASE ServeQuit(c)
  BY <1>5, QuitKnows
<1>6. CASE ServeStart(c)
  BY <1>6, StartKnows
<1>7. CASE ServerDrops(c)
  BY <1>7, DropKnows
<1> QED BY <1>1, <1>2, <1>3, <1>4, <1>5, <1>6, <1>7 DEF ServerStep

-----------------------------------------------------------------------------
(* What a client does: nobody else's view changes, and no room's seats       *)

(* A page that asks to join a room is shown no news before the answer.       *)
LEMMA JoinPressedRuns ==
    ASSUME NEW v \in Views, v.asks = NoRequest, NEW q \in Requests, q.kind = "Join",
           NEW s \in Seq(Packets), None(s) \/ One(s, Stale), NEW w \in Views,
           Reaches([v EXCEPT !.asks = q], s, w)
    PROVE  /\ Reaches(v, s, v)
           /\ w = [v EXCEPT !.asks = q] \/ w = [v EXCEPT !.asks = Listing]
<1>1. PICK u \in Views : u = [v EXCEPT !.asks = q] /\ u.asks = q
  <2>1. PICK u : u = [v EXCEPT !.asks = q]
    OBVIOUS
  <2>2. u \in Views /\ u.asks = q
    BY <2>1, ViewFields
  <2> QED BY <2>1, <2>2
<1>2. Reaches(u, s, w)
  BY <1>1
<1>3. CASE s = <<>>
  <2>1. Reaches(v, s, v) /\ w = u
    BY <1>2, <1>3, ReachesNone
  <2> QED BY <1>1, <2>1
<1>4. CASE s # <<>>
  <2>1. PICK x \in Views : Reads(u, Head(s), x) /\ Reaches(x, Tail(s), w)
    BY <1>2, <1>4, ReachesHead
  <2>2. PICK p \in Packets : p = Head(s)
    BY <1>4
  <2>3. PICK t \in Seq(Packets) : t = Tail(s)
    <3>1. Tail(s) \in Seq(Packets)
      BY <1>4
    <3> QED BY <3>1
  <2>4. ~Notice(p)
    BY <1>1, <2>1, <2>2, NoticeRead, ListingAsks
  <2>5. AnswersTo(p, Stale) /\ None(t)
    BY <1>4, <2>2, <2>3, <2>4, StreamsRead
  <2>6. p.type \in {"ListResp", "QuitResp", "StartResp"}
    BY <2>5 DEF AnswersTo, Stale, Expected
  <2>7. ~Tells(u, p) /\ ~Tells(v, p)
    BY <2>4, <2>6 DEF Tells
  <2>8. x = u \/ x = [u EXCEPT !.asks = Listing]
    <3>1. NextAsk(u) = Listing
      BY <1>1 DEF NextAsk
    <3>2. x = u \/ x = [u EXCEPT !.asks = NextAsk(u)]
      BY <2>1, <2>2, <2>7, PlainRead
    <3> QED BY <3>1, <3>2
  <2>9. [u EXCEPT !.asks = Listing] = [v EXCEPT !.asks = Listing]
    BY <1>1 DEF Views
  <2>10. x.asks # NoRequest /\ x.asks.kind # "Start"
    <3>1. CASE x = u
      BY <1>1, <3>1, ListingAsks
    <3>2. CASE x = [u EXCEPT !.asks = Listing]
      <4>1. x.asks = Listing
        BY <3>2, ListingAsks, ViewFields
      <4> QED BY <4>1, ListingAsks
    <3> QED BY <2>8, <3>1, <3>2
  <2>11. t = <<>>
    <3>1. SUFFICES ASSUME t # <<>>  PROVE FALSE
      OBVIOUS
    <3>2. PICK y \in Views : Reads(x, Head(t), y)
      BY <2>1, <2>3, <3>1, ReachesHead
    <3>3. Head(t) \in Packets /\ Notice(Head(t))
      BY <2>5, <3>1, StreamsRead
    <3> QED BY <2>10, <3>2, <3>3, NoticeRead
  <2>12. w = x /\ Reaches(v, t, v)
    <3>1. Reaches(x, <<>>, w)
      BY <2>1, <2>3, <2>11
    <3> QED BY <2>11, <3>1, ReachesNone
  <2>13. Reads(v, p, v)
    BY <2>7 DEF Reads, SkipsOver
  <2>14. Reaches(v, s, v)
    BY <1>4, <2>2, <2>3, <2>12, <2>13, ReachesHead
  <2> QED BY <1>1, <2>8, <2>9, <2>12, <2>14
<1> QED BY <1>3, <1>4

(* What a client shows after a step has its type.                            *)
LEMMA ViewTypeNext ==
    ASSUME LobbyTypes', NEW c \in Clients
    PROVE  /\ View(c)' \in Views /\ Bound(c)' \in BOOLEAN
           /\ ui'[c] \in Pages /\ client'[c] \in ClientStates
<1>1. ui'[c] \in Pages /\ client'[c] \in ClientStates
  BY DEF LobbyTypes
<1>2. /\ ui'[c].waiting \in Requests \cup {NoRequest}
      /\ ui'[c].joined \in GameRoomIds \cup {NoRoom}
      /\ client'[c].room \in GameRoomIds \cup {NoRoom}
      /\ client'[c].members \in Seq(Users)
  BY <1>1 DEF Pages, ClientStates
<1>3. Listing \in Requests
  BY ListingAsks
<1>4. View(c)' \in Views
  BY <1>2, <1>3 DEF View, Views
<1> QED BY <1>1, <1>4 DEF Bound

(* Where c is and who is with it is what it was, and so are its requests to  *)
(* join and to quit.                                                         *)
LEMMA AskingEnds ==
    ASSUME UNCHANGED vars, loop' = loop, NEW c \in Clients, NEW x, EndOK(c, x),
           QuitSent(c)' = QuitSent(c),
           \A q \in ToSet(out'[c]) : q.kind = "Join" => q \in ToSet(out[c])
    PROVE  EndOK(c, x)'
<1>1. PICK g : g = RoomOf(c)
  OBVIOUS
<1>2. PICK m : m = activeGameRooms[g].members
  OBVIOUS
<1>3. PICK st : st = StateOf(c)
  OBVIOUS
<1>4. EndsAt(c, x, g, m, st)
  BY <1>1, <1>2, <1>3 DEF EndOK
<1>5. uid' = uid /\ currentGameRoomId' = currentGameRoomId /\ state' = state
      /\ activeGameRooms' = activeGameRooms
  BY DEF vars
<1>6. Agrees(c, x, g, m)' = Agrees(c, x, g, m)
  BY <1>5 DEF Agrees, UsersOf
<1>7. EndsAt(c, x, g, m, st)'
  BY <1>4, <1>6 DEF EndsAt
<1>8. RoomOf(c)' = g /\ StateOf(c)' = st
  BY <1>1, <1>3, <1>5 DEF RoomOf, StateOf, BeingDissolved
<1> QED BY <1>2, <1>5, <1>7, <1>8 DEF EndOK

(* A request is sent.                                                        *)
LEMMA SentOff ==
    ASSUME NEW c \in Clients, out[c] \in Seq(Requests), NEW q \in Requests,
           out'[c] = out[c] \o <<q>>
    PROVE  ToSet(out'[c]) = ToSet(out[c]) \cup {q}
<1>1. PICK o \in Seq(Requests) : o = out[c]
  OBVIOUS
<1>2. PICK n : n = o \o <<q>>
  OBVIOUS
<1>3. /\ DOMAIN o = 1..Len(o) /\ Len(o) \in Nat /\ DOMAIN n = 1..(Len(o) + 1)
      /\ \A i \in 1..Len(o) : n[i] = o[i]
      /\ n[Len(o) + 1] = q
  BY <1>2
<1>4. ToSet(n) = ToSet(o) \cup {q}
  <2>1. ToSet(n) \subseteq ToSet(o) \cup {q}
    <3>1. ASSUME NEW i \in 1..(Len(o) + 1)  PROVE n[i] \in ToSet(o) \cup {q}
      <4>1. CASE i \in 1..Len(o)
        BY <1>3, <4>1 DEF ToSet
      <4>2. CASE i = Len(o) + 1
        BY <1>3, <4>2
      <4> QED BY <1>3, <3>1, <4>1, <4>2
    <3> QED BY <1>3, <3>1 DEF ToSet
  <2>2. ToSet(o) \cup {q} \subseteq ToSet(n)
    <3>1. q \in ToSet(n)
      BY <1>3 DEF ToSet
    <3>2. ASSUME NEW i \in 1..Len(o)  PROVE o[i] \in ToSet(n)
      <4>1. i \in 1..(Len(o) + 1) /\ n[i] = o[i]
        BY <1>3
      <4> QED BY <1>3, <4>1 DEF ToSet
    <3> QED BY <1>3, <3>1, <3>2 DEF ToSet
  <2> QED BY <2>1, <2>2
<1> QED BY <1>1, <1>2, <1>4

(* Something else than a join or a quit.                                     *)
LEMMA PlainlyAsking ==
    ASSUME LobbyTypes, UNCHANGED vars, loop' = loop,
           NEW c \in Clients, NEW x, EndOK(c, x),
           \/ out'[c] = out[c]
           \/ \E q \in Requests : q.kind \notin {"Quit", "Join"} /\ out'[c] = out[c] \o <<q>>
    PROVE  EndOK(c, x)'
<1>1. out[c] \in Seq(Requests)
  BY DEF LobbyTypes
<1>2. PICK old : old = ToSet(out[c])
  OBVIOUS
<1>3. PICK new : new = ToSet(out'[c])
  OBVIOUS
<1>4. \/ new = old
      \/ \E q \in Requests : q.kind \notin {"Quit", "Join"} /\ new = old \cup {q}
  BY <1>1, <1>2, <1>3, SentOff
<1>5. QuitSent(c)' = QuitSent(c) /\ \A q \in new : q.kind = "Join" => q \in old
  BY <1>2, <1>3, <1>4 DEF QuitSent
<1> QED BY <1>2, <1>3, <1>5, AskingEnds

(* A step of c alone.                                                        *)
LEMMA ClientMoves ==
    ASSUME Parts, LobbyTypes, KnowInv, NEW c \in Clients, UNCHANGED vars, loop' = loop,
           \A d \in Clients \ {c} :
               /\ out'[d] = out[d] /\ inbox'[d] = inbox[d] /\ ui'[d] = ui[d]
               /\ client'[d] = client[d] /\ lost'[d] = lost[d],
           Knows(c)'
    PROVE  KnowInv'
<1>1. SeatsStay
  BY DEF SeatsStay, vars
<1> QED BY <1>1, SeatsStayKnown DEF KnowInv

(* c reads a packet, and may ask for the list then.                          *)
LEMMA ReaderKnows ==
    ASSUME LobbyTypes, LobbyTypes', NEW c \in Clients, Knows(c),
           UNCHANGED vars, loop' = loop,
           inbox[c] # <<>>, inbox'[c] = Tail(inbox[c]),
           \/ out'[c] = out[c]
           \/ \E q \in Requests : q.kind \notin {"Quit", "Join"} /\ out'[c] = out[c] \o <<q>>,
           Live(c)' => Live(c),
           Live(c)' /\ Shape(c) => Shape(c)' /\ Reads(View(c), Head(inbox[c]), View(c)')
    PROVE  Knows(c)'
<1>1. SUFFICES ASSUME Live(c)'
               PROVE  /\ Shape(c)'
                      /\ \A w \in Views : Reaches(View(c)', inbox'[c], w) => EndOK(c, w)'
  BY DEF Knows
<1>2. /\ Shape(c)
      /\ \A x \in Views : Reaches(View(c), inbox[c], x) => EndOK(c, x)
  BY <1>1 DEF Knows
<1>3. Shape(c)' /\ Reads(View(c), Head(inbox[c]), View(c)')
  BY <1>1, <1>2
<1>4. PICK v \in Views : v = View(c)
  BY ViewType
<1>5. PICK y \in Views : y = View(c)'
  BY ViewTypeNext
<1>6. PICK s \in Seq(Packets) : s = inbox[c] /\ s # <<>>
  BY ViewType
<1>7. ASSUME NEW w \in Views, Reaches(View(c)', inbox'[c], w)
      PROVE  EndOK(c, w)'
  <2>1. Reads(v, Head(s), y) /\ Reaches(y, Tail(s), w)
    BY <1>3, <1>4, <1>5, <1>6, <1>7
  <2>2. Reaches(v, s, w)
    BY <1>6, <2>1, ReachesHead
  <2>3. EndOK(c, w)
    BY <1>2, <1>4, <1>6, <2>2
  <2> QED BY <2>3, PlainlyAsking
<1> QED BY <1>3, <1>7

(* c shows what it did.                                                      *)
LEMMA SameViewKnows ==
    ASSUME LobbyTypes, NEW c \in Clients, Knows(c),
           UNCHANGED vars, loop' = loop,
           inbox'[c] = inbox[c], View(c)' = View(c),
           \/ out'[c] = out[c]
           \/ \E q \in Requests : q.kind \notin {"Quit", "Join"} /\ out'[c] = out[c] \o <<q>>,
           Live(c)' => Live(c), Live(c)' /\ Shape(c) => Shape(c)'
    PROVE  Knows(c)'
<1>1. SUFFICES ASSUME Live(c)'
               PROVE  /\ Shape(c)'
                      /\ \A w \in Views : Reaches(View(c)', inbox'[c], w) => EndOK(c, w)'
  BY DEF Knows
<1>2. /\ Shape(c)
      /\ \A x \in Views : Reaches(View(c), inbox[c], x) => EndOK(c, x)
  BY <1>1 DEF Knows
<1>3. ASSUME NEW w \in Views, Reaches(View(c)', inbox'[c], w)
      PROVE  EndOK(c, w)'
  <2>1. EndOK(c, w)
    BY <1>2, <1>3
  <2> QED BY <2>1, PlainlyAsking
<1> QED BY <1>1, <1>2, <1>3

-----------------------------------------------------------------------------
(* The client reads                                                          *)

(* A request that is sent while the session is open is the last before the   *)
(* server.                                                                   *)
LEMMA PostedIs ==
    ASSUME LobbyTypes, NEW c \in Clients, NEW rs \in Seq(Requests), Post(c, rs)
    PROVE  /\ \A d \in Clients \ {c} : out'[d] = out[d]
           /\ state[c] # "Closed" => out'[c] = out[c] \o rs
           /\ state[c] # "Closed" /\ rs = <<>> => out'[c] = out[c]
<1>1. out \in [Clients -> Seq(Requests)]
  BY DEF LobbyTypes
<1>2. out[c] \o <<>> = out[c]
  BY <1>1, ConcatEmptySeq
<1> QED BY <1>1, <1>2 DEF Post

(* A read takes the first packet of the stream of c, and no other.           *)
LEMMA ReadTakes ==
    ASSUME LobbyTypes, NEW c \in Clients, Read(c)
    PROVE  inbox'[c] = Tail(inbox[c]) /\ \A d \in Clients \ {c} : inbox'[d] = inbox[d]
  BY DEF Read, LobbyTypes

(* A packet that is dropped with nothing lost says nothing.                  *)
LEMMA DroppedIs ==
    ASSUME LobbyTypes, NEW c \in Clients, NEW p, Drops(c, p)
    PROVE  /\ \A d \in Clients \ {c} : lost'[d] = lost[d]
           /\ lost'[c] = 0 => lost[c] = 0 /\ ~Tells(View(c), p)
<1>1. lost \in [Clients -> Nat] /\ View(c).room = client[c].room
  BY DEF LobbyTypes, View
<1>2. News(c, p) <=> Tells(View(c), p)
  BY <1>1 DEF News, Tells, Notice
<1>3. lost'[c] = lost[c] + (IF News(c, p) THEN 1 ELSE 0)
  BY <1>1 DEF Drops
<1>4. lost'[c] = 0 => lost[c] = 0 /\ ~News(c, p)
  BY <1>1, <1>3
<1> QED BY <1>1, <1>2, <1>4 DEF Drops

(* A request has failed, or the list has come.                               *)
LEMMA EndedKnows ==
    ASSUME LobbyTypes, LobbyTypes', NEW c \in Clients, Knows(c),
           UNCHANGED vars, loop' = loop,
           ui[c].waiting # NoRequest, inbox[c] # <<>>, inbox'[c] = Tail(inbox[c]),
           AfterRequest(c, ui[c].waiting.kind \in {"Create", "Join"}), client' = client,
           lost'[c] = 0 => lost[c] = 0 /\ ~Tells(View(c), Head(inbox[c]))
    PROVE  Knows(c)'
<1>1. CASE state[c] = "Closed"
  BY <1>1, GoneKnows DEF vars
<1>2. CASE state[c] # "Closed"
  <2>1. PICK w \in Requests : w = ui[c].waiting /\ w # NoRequest
    BY ViewType
  <2>2. ui \in [Clients -> Pages] /\ ui[c] \in Pages
    BY DEF LobbyTypes
  <2>3. /\ ui'[c].page = ui[c].page /\ ui'[c].joined = ui[c].joined
        /\ ui'[c].waiting = IF w.kind \in {"Create", "Join"} THEN Listing ELSE NoRequest
    BY <2>1, <2>2 DEF AfterRequest, Pages, Listing
  <2>4. out'[c] = IF w.kind \in {"Create", "Join"} THEN out[c] \o <<Listing>> ELSE out[c]
    <3>1. <<Listing>> \in Seq(Requests) /\ <<>> \in Seq(Requests)
      BY ListingAsks
    <3>2. CASE w.kind \in {"Create", "Join"}
      <4>1. Post(c, <<Listing>>)
        BY <2>1, <3>2 DEF AfterRequest, Listing
      <4> QED BY <1>2, <3>1, <3>2, <4>1, PostedIs
    <3>3. CASE w.kind \notin {"Create", "Join"}
      <4>1. Post(c, <<>>)
        BY <2>1, <3>3 DEF AfterRequest
      <4> QED BY <1>2, <3>1, <3>3, <4>1, PostedIs
    <3> QED BY <3>2, <3>3
  <2>5. Bound(c)' = Bound(c)
    BY <2>3 DEF Bound
  <2>6. Live(c)' => Live(c) /\ ~Tells(View(c), Head(inbox[c]))
    BY <2>3 DEF Live, vars
  <2>7. PICK p \in Packets : p = Head(inbox[c])
    BY ViewType
  <2>8. ASSUME Shape(c), ~Tells(View(c), p)
        PROVE  Shape(c)' /\ Reads(View(c), p, View(c)')
    <3>1. ui[c].page = "lobby" /\ w.kind # "Quit" /\ ~client[c].started
      BY <2>1, <2>8 DEF Shape
    <3>2. PICK s \in Seq(Packets) : s = inbox[c] /\ s # <<>>
      BY ViewType
    <3>3. PICK bound \in BOOLEAN : bound = Bound(c)
      BY ViewType
    <3>4. Owes(w, bound, s, out[c]) /\ ~Notice(Head(s))
      BY <2>1, <2>7, <2>8, <3>2, <3>3 DEF Shape, Tells
    <3>5. CASE w.kind \in {"Create", "Join"}
      <4>1. Owes(Listing, bound, Tail(s), out[c] \o <<Listing>>)
        BY <2>1, <3>2, <3>4, <3>5, RelistOwed
      <4>2. ui'[c].waiting = Listing /\ out'[c] = out[c] \o <<Listing>>
        BY <2>3, <2>4, <3>5
      <4>3. Shape(c)'
        BY <2>3, <2>5, <3>1, <3>2, <3>3, <4>1, <4>2, ListingAsks DEF Shape
      <4>4. View(c)' = [View(c) EXCEPT !.asks = Listing]
        BY <2>3, <3>1, <4>2, ListingAsks DEF View
      <4>5. View(c).asks = w
        BY <2>1 DEF View
      <4> QED BY <2>1, <2>8, <3>5, <4>3, <4>4, <4>5 DEF Reads, SkipsOver, NextAsk
    <3>6. CASE w.kind \notin {"Create", "Join"}
      <4>1. w.kind \in {"List", "Start"}
        BY <2>1, <3>1, <3>6 DEF Requests, Kinds
      <4>2. Owes(NoRequest, bound, Tail(s), out[c])
        BY <2>1, <3>2, <3>4, <4>1, RestOwed
      <4>3. ui'[c].waiting = NoRequest /\ out'[c] = out[c]
        BY <2>3, <2>4, <3>6
      <4>4. Shape(c)'
        BY <2>3, <2>5, <3>1, <3>2, <3>3, <4>2, <4>3 DEF Shape
      <4>5. View(c)' = [View(c) EXCEPT !.asks = NoRequest]
        BY <2>3, <3>1, <4>3 DEF View
      <4>6. View(c).asks = w
        BY <2>1 DEF View
      <4> QED BY <2>1, <2>8, <3>6, <4>4, <4>5, <4>6 DEF Reads, SkipsOver, NextAsk
    <3> QED BY <3>5, <3>6
  <2>9. \/ out'[c] = out[c]
        \/ \E q \in Requests : q.kind \notin {"Quit", "Join"} /\ out'[c] = out[c] \o <<q>>
    BY <2>4, ListingAsks
  <2>10. Live(c)' => Live(c)
    BY <2>6
  <2>11. Live(c)' /\ Shape(c) => Shape(c)' /\ Reads(View(c), Head(inbox[c]), View(c)')
    BY <2>6, <2>7, <2>8
  <2> QED BY <2>9, <2>10, <2>11, ReaderKnows
<1> QED BY <1>1, <1>2

(* The room that is made or joined is shown; w is the answered request.      *)
LEMMA EnteredKnows ==
    ASSUME LobbyTypes, LobbyTypes', NEW c \in Clients, Knows(c),
           UNCHANGED vars, loop' = loop,
           inbox[c] # <<>>, inbox'[c] = Tail(inbox[c]), lost' = lost,
           NEW w \in Requests, w = ui[c].waiting, w # NoRequest,
           NEW p \in Packets, p = Head(inbox[c]), p.type = Expected(w.kind),
           NEW g, client' = [client EXCEPT ![c].room = g],
           NEW due, NEW host,
           \/ /\ w.kind = "Create" /\ p.room # NoRoom /\ g = p.room
              /\ ui' = [ui EXCEPT ![c].waiting = Listing, ![c].joined = g, ![c].host = host]
              /\ Post(c, <<Listing>>)
           \/ /\ w.kind = "Join" /\ p.ok /\ g = w.room
              /\ ui' = [ui EXCEPT ![c].waiting = NoRequest, ![c].due = due,
                                  ![c].joined = g, ![c].host = host]
              /\ out' = out
    PROVE  Knows(c)'
<1>1. CASE state[c] = "Closed"
  BY <1>1, GoneKnows DEF vars
<1>2. CASE state[c] # "Closed"
  <2>1. /\ ui \in [Clients -> Pages] /\ ui[c] \in Pages
        /\ client \in [Clients -> ClientStates] /\ client[c] \in ClientStates
    BY DEF LobbyTypes
  <2>2. /\ ui'[c].page = ui[c].page /\ ui'[c].joined = g
        /\ w.kind = "Create" => ui'[c].waiting = Listing
        /\ w.kind = "Join" => ui'[c].waiting = NoRequest
    BY <2>1 DEF Pages
  <2>3. /\ client'[c].room = g /\ client'[c].members = client[c].members
        /\ client'[c].started = client[c].started
    BY <2>1 DEF ClientStates
  <2>4. /\ w.kind = "Create" => out'[c] = out[c] \o <<Listing>>
        /\ w.kind = "Join" => out'[c] = out[c]
    <3>1. <<Listing>> \in Seq(Requests)
      BY ListingAsks
    <3> QED BY <1>2, <3>1, PostedIs
  <2>5. ASSUME Shape(c)
        PROVE  Shape(c)' /\ Reads(View(c), p, View(c)')
    <3>1. ui[c].page = "lobby" /\ ~client[c].started
      BY <2>5 DEF Shape
    <3>2. PICK s \in Seq(Packets) : s = inbox[c] /\ s # <<>>
      BY ViewType
    <3>3. PICK bound \in BOOLEAN : bound = Bound(c)
      BY ViewType
    <3>4. PICK after \in BOOLEAN : after = Bound(c)'
      BY ViewTypeNext
    <3>5. Owes(w, bound, s, out[c]) /\ Head(s) = p
      BY <2>5, <3>2, <3>3 DEF Shape
    <3>6. ~Notice(p)
      BY DEF Notice, Expected
    <3>7. View(c).asks = w
      BY DEF View
    <3>8. CASE w.kind = "Create"
      <4>1. Owes(Listing, after, Tail(s), out[c] \o <<Listing>>)
        BY <3>2, <3>5, <3>6, <3>8, RelistOwed
      <4>2. Shape(c)'
        BY <2>2, <2>3, <2>4, <3>1, <3>2, <3>4, <3>8, <4>1, ListingAsks DEF Shape
      <4>3. View(c)' = [View(c) EXCEPT !.room = g, !.joined = g, !.asks = Listing]
        <5>1. /\ View(c)'.room = g /\ View(c)'.joined = g /\ View(c)'.asks = Listing
              /\ View(c)'.members = View(c).members
          BY <2>2, <2>3, <3>1, <3>8, ListingAsks DEF View
        <5>2. PICK v \in Views : v = View(c)
          BY ViewType
        <5>3. PICK y \in Views : y = View(c)'
          BY ViewTypeNext
        <5>4. y = [v EXCEPT !.room = g, !.joined = g, !.asks = Listing]
          BY <5>1, <5>2, <5>3 DEF Views
        <5> QED BY <5>2, <5>3, <5>4
      <4>4. IsAnswered(View(c), p, View(c)')
        BY <3>7, <3>8, <4>3 DEF IsAnswered
      <4> QED BY <4>2, <4>4 DEF Reads
    <3>9. CASE w.kind = "Join"
      <4>1. Owes(NoRequest, after, Tail(s), out[c])
        BY <3>2, <3>5, <3>6, <3>9, RestOwed
      <4>2. Shape(c)'
        BY <2>2, <2>3, <2>4, <3>1, <3>2, <3>4, <3>9, <4>1 DEF Shape
      <4>3. View(c)' = [View(c) EXCEPT !.room = g, !.joined = g, !.asks = NoRequest]
        <5>1. /\ View(c)'.room = g /\ View(c)'.joined = g /\ View(c)'.asks = NoRequest
              /\ View(c)'.members = View(c).members
          BY <2>2, <2>3, <3>1, <3>9 DEF View
        <5>2. PICK v \in Views : v = View(c)
          BY ViewType
        <5>3. PICK y \in Views : y = View(c)'
          BY ViewTypeNext
        <5>4. y = [v EXCEPT !.room = g, !.joined = g, !.asks = NoRequest]
          BY <5>1, <5>2, <5>3 DEF Views
        <5> QED BY <5>2, <5>3, <5>4
      <4>4. IsAnswered(View(c), p, View(c)')
        BY <3>7, <3>9, <4>3 DEF IsAnswered
      <4> QED BY <4>2, <4>4 DEF Reads
    <3> QED BY <3>8, <3>9
  <2>6. Live(c)' => Live(c)
    BY <2>2 DEF Live, vars
  <2>7. \/ out'[c] = out[c]
        \/ \E q \in Requests : q.kind \notin {"Quit", "Join"} /\ out'[c] = out[c] \o <<q>>
    BY <2>4, ListingAsks
  <2>8. Live(c)' /\ Shape(c) => Shape(c)' /\ Reads(View(c), Head(inbox[c]), View(c)')
    BY <2>5
  <2> QED BY <2>6, <2>7, <2>8, ReaderKnows
<1> QED BY <1>1, <1>2

-----------------------------------------------------------------------------
(* A start is read by the lobby page, as an answer or by its update: the     *)
(* game's page is shown, and nothing is asked for.                           *)
LEMMA LaunchedKnows ==
    ASSUME LobbyTypes, LobbyTypes', NEW c \in Clients, Knows(c),
           UNCHANGED vars, loop' = loop,
           ui[c].page = "lobby", ui[c].waiting # NoRequest => ui[c].waiting.kind = "Start",
           inbox[c] # <<>>, inbox'[c] = Tail(inbox[c]), out' = out, Launches(c),
           lost'[c] = 0 => lost[c] = 0,
           NEW p \in Packets, p = Head(inbox[c]),
           Shape(c) => p.type = "StartResp" /\ p.ok
    PROVE  Knows(c)'
<1>1. CASE state[c] = "Closed"
  BY <1>1, GoneKnows DEF vars
<1>2. CASE state[c] # "Closed"
  <2>1. /\ ui \in [Clients -> Pages] /\ ui[c] \in Pages
        /\ client \in [Clients -> ClientStates] /\ client[c] \in ClientStates
    BY DEF LobbyTypes
  <2>2. ui'[c].page = "game" /\ ui'[c].waiting = NoRequest
    BY <2>1 DEF Launches, Pages
  <2>3. /\ client'[c].room = client[c].room /\ client'[c].members = client[c].members
        /\ client'[c].started = FALSE
    BY <2>1 DEF Launches, ClientStates
  <2>4. Live(c)' => Live(c)
    BY <1>2 DEF Live
  <2>5. ASSUME Shape(c)
        PROVE  Shape(c)' /\ Reads(View(c), p, View(c)')
    <3>1. PICK w \in Requests \cup {NoRequest} : w = ui[c].waiting
      BY ViewType
    <3>2. PICK s \in Seq(Packets) : s = inbox[c] /\ s # <<>>
      BY ViewType
    <3>3. PICK bound \in BOOLEAN : bound = Bound(c)
      BY ViewType
    <3>4. Notice(p) /\ p.type = "StartResp" /\ p.ok
      BY <2>5 DEF Notice
    <3>5. Owes(NoRequest, FALSE, Tail(s), out[c])
      <4>1. Owes(w, bound, s, out[c]) /\ Notice(Head(s))
        BY <2>5, <3>1, <3>2, <3>3, <3>4 DEF Shape
      <4> QED BY <3>1, <3>2, <4>1, LaunchOwed
    <3>6. Bound(c)' = FALSE
      BY <2>2 DEF Bound
    <3>7. Shape(c)'
      BY <2>2, <2>3, <3>2, <3>5, <3>6 DEF Shape
    <3>8. PICK v \in Views : v = View(c)
      BY ViewType
    <3>9. PICK y \in Views : y = View(c)'
      BY ViewTypeNext
    <3>10. y = Launched(v)
      <4>1. y.room = v.room /\ y.members = v.members /\ y.asks = Listing /\ y.joined = NoRoom
        BY <2>2, <2>3, <3>8, <3>9 DEF View
      <4> QED BY <4>1 DEF Launched, Views
    <3>11. v.asks = w
      BY <3>1, <3>8 DEF View
    <3>12. CASE w = NoRequest
      BY <3>4, <3>8, <3>9, <3>10, <3>11, <3>12, <3>7 DEF Reads, Shows, Shown
    <3>13. CASE w # NoRequest
      <4>1. p.type = Expected(w.kind) /\ w.kind = "Start"
        BY <3>1, <3>4, <3>13 DEF Expected
      <4> QED BY <3>4, <3>8, <3>9, <3>10, <3>11, <3>13, <3>7, <4>1 DEF Reads, IsAnswered
    <3> QED BY <3>12, <3>13
  <2>6. Live(c)' /\ Shape(c) => Shape(c)' /\ Reads(View(c), Head(inbox[c]), View(c)')
    BY <2>5
  <2> QED BY <2>4, <2>6, ReaderKnows
<1> QED BY <1>1, <1>2

(* The update of the lobby page takes a packet that starts no game.          *)
LEMMA PolledKnows ==
    ASSUME LobbyTypes, LobbyTypes', NEW c \in Clients, Knows(c),
           UNCHANGED vars, loop' = loop,
           ui[c].page = "lobby", ui[c].waiting = NoRequest,
           inbox[c] # <<>>, inbox'[c] = Tail(inbox[c]), out' = out,
           NEW p \in Packets, p = Head(inbox[c]),
           IF p.type \in {"JoinResp", "CreateResp"} THEN Drops(c, p) ELSE UNCHANGED lost,
           NEW now, now = Polled(c, p), ~now.started,
           client' = [client EXCEPT ![c] = now], ui' = [ui EXCEPT ![c].due = FALSE]
    PROVE  Knows(c)'
<1>1. /\ ui \in [Clients -> Pages] /\ ui[c] \in Pages
      /\ client \in [Clients -> ClientStates] /\ client[c] \in ClientStates
  BY DEF LobbyTypes
<1>2. ui'[c].page = "lobby" /\ ui'[c].waiting = NoRequest /\ ui'[c].joined = ui[c].joined
  BY <1>1 DEF Pages
<1>3. client'[c] = now
  BY <1>1
<1>4. /\ lost'[c] = 0 => lost[c] = 0
      /\ p.type \in {"JoinResp", "CreateResp"} /\ lost'[c] = 0 => ~Tells(View(c), p)
  BY DroppedIs
<1>5. Live(c)' => Live(c)
  BY <1>2, <1>4 DEF Live, vars
<1>6. ASSUME Live(c)', Shape(c)
      PROVE  Shape(c)' /\ Reads(View(c), p, View(c)')
  <2>1. PICK s \in Seq(Packets) : s = inbox[c] /\ s # <<>>
    BY ViewType
  <2>2. PICK bound \in BOOLEAN : bound = Bound(c)
    BY ViewType
  <2>3. Owes(NoRequest, bound, Tail(s), out[c])
    <3>1. Owes(NoRequest, bound, s, out[c])
      BY <1>6, <2>1, <2>2 DEF Shape
    <3> QED BY <2>1, <3>1, ReadOwed
  <2>4. Bound(c)' = bound
    BY <1>2, <2>2 DEF Bound
  <2>5. Shape(c)'
    BY <1>2, <1>3, <2>1, <2>3, <2>4 DEF Shape
  <2>6. PICK v \in Views : v = View(c)
    BY ViewType
  <2>7. PICK y \in Views : y = View(c)'
    BY ViewTypeNext
  <2>8. /\ v.asks = NoRequest /\ y.asks = NoRequest /\ y.joined = v.joined
        /\ y.room = now.room /\ y.members = now.members
        /\ v.room = client[c].room /\ v.members = client[c].members
    BY <1>2, <1>3, <2>6, <2>7 DEF View
  <2>9. CASE Notice(p)
    <3>1. p.type \in {"MemberList", "MemberJoin", "MemberQuit"}
      <4>1. SUFFICES ASSUME p.type = "StartResp", p.ok
                     PROVE  FALSE
        BY <2>9 DEF Notice
      <4> QED BY <1>1, <4>1 DEF Polled, ClientStates
    <3>2. y = Shown(v, p)
      <4>1. CASE p.type = "MemberList"
        <5>1. y.members = p.uids /\ y.room = v.room
          BY <1>1, <2>8, <4>1 DEF Polled, ClientStates
        <5> QED BY <2>8, <4>1, <5>1 DEF Shown, Views
      <4>2. CASE p.type = "MemberJoin"
        <5>1. y.members = Append(v.members, p.uid) /\ y.room = v.room
          BY <1>1, <2>8, <4>2 DEF Polled, ClientStates
        <5> QED BY <2>8, <4>2, <5>1 DEF Shown, Views
      <4>3. CASE p.type = "MemberQuit" /\ p.dissolved
        <5>1. y.members = <<>> /\ y.room = NoRoom
          BY <1>1, <2>8, <4>3 DEF Polled, ClientStates
        <5>2. y = [v EXCEPT !.members = <<>>, !.room = NoRoom]
          BY <2>8, <5>1 DEF Views
        <5>3. Shown(v, p) = [v EXCEPT !.members = <<>>, !.room = NoRoom]
          BY <4>3 DEF Shown
        <5> QED BY <5>2, <5>3
      <4>4. CASE p.type = "MemberQuit" /\ ~p.dissolved
        <5>1. y.members = RemoveFirst(v.members, p.uid) /\ y.room = v.room
          BY <1>1, <2>8, <4>4 DEF Polled, ClientStates
        <5> QED BY <2>8, <4>4, <5>1 DEF Shown, Views
      <4> QED BY <3>1, <4>1, <4>2, <4>3, <4>4
    <3> QED BY <2>5, <2>6, <2>7, <2>8, <2>9, <3>2 DEF Reads, Shows
  <2>10. CASE ~Notice(p)
    <3>1. ~Tells(View(c), p)
      BY <1>4, <1>6, <2>10 DEF Tells, Live
    <3>2. now = client[c]
      BY <2>10 DEF Polled, Notice
    <3>3. y = v
      BY <2>8, <3>2 DEF Views
    <3> QED BY <2>5, <2>6, <2>7, <3>1, <3>3 DEF Reads, SkipsOver
  <2> QED BY <2>9, <2>10
<1>7. Live(c)' /\ Shape(c) => Shape(c)' /\ Reads(View(c), Head(inbox[c]), View(c)')
  BY <1>6
<1> QED BY <1>5, <1>7, ReaderKnows

(* What the update of the lobby page does.                                   *)
LEMMA UpdateKnows ==
    ASSUME LobbyTypes, LobbyTypes', NEW c \in Clients, Knows(c), Update(c)
    PROVE  Knows(c)'
<1>1. /\ UNCHANGED vars /\ loop' = loop /\ out' = out /\ ui[c].page = "lobby"
      /\ ui[c].waiting = NoRequest
  BY DEF Update, serverVars
<1>2. ui \in [Clients -> Pages] /\ ui[c] \in Pages
  BY DEF LobbyTypes
<1>3. CASE inbox[c] = <<>>
  <2>1. inbox' = inbox /\ client' = client /\ lost' = lost /\ ui' = [ui EXCEPT ![c].due = FALSE]
    BY <1>3 DEF Update
  <2>2. /\ ui'[c].page = ui[c].page /\ ui'[c].waiting = ui[c].waiting
        /\ ui'[c].joined = ui[c].joined
    BY <1>2, <2>1 DEF Pages
  <2>3. View(c)' = View(c)
    BY <2>1, <2>2 DEF View
  <2>4. Live(c)' => Live(c)
    BY <1>1, <2>1, <2>2 DEF Live, vars
  <2>5. Shape(c)' = Shape(c)
    BY <1>1, <2>1, <2>2 DEF Shape, Bound
  <2> QED BY <1>1, <2>1, <2>3, <2>4, <2>5, SameViewKnows
<1>4. CASE inbox[c] # <<>>
  <2>1. PICK p \in Packets : p = Head(inbox[c])
    BY <1>4, ViewType
  <2>2. PICK now : now = Polled(c, p)
    OBVIOUS
  <2>3. /\ Read(c)
        /\ IF p.type \in {"JoinResp", "CreateResp"} THEN Drops(c, p) ELSE UNCHANGED lost
        /\ IF now.started THEN Launches(c)
           ELSE client' = [client EXCEPT ![c] = now] /\ ui' = [ui EXCEPT ![c].due = FALSE]
    BY <1>4, <2>1, <2>2, Zenon DEF Update
  <2>4. inbox'[c] = Tail(inbox[c])
    BY <2>3, ReadTakes
  <2>5. CASE now.started
    <3>1. Shape(c) => p.type = "StartResp" /\ p.ok
      <4>1. client[c] \in ClientStates
        BY DEF LobbyTypes
      <4> QED BY <2>2, <2>5, <4>1 DEF Polled, Shape, ClientStates
    <3>2. lost'[c] = 0 => lost[c] = 0
      BY <2>3, DroppedIs
    <3> QED BY <1>1, <1>4, <2>1, <2>3, <2>4, <2>5, <3>1, <3>2, LaunchedKnows
  <2>6. CASE ~now.started
    BY <1>1, <1>4, <2>1, <2>2, <2>3, <2>4, <2>6, PolledKnows
  <2> QED BY <2>5, <2>6
<1> QED BY <1>3, <1>4

(* The IO thread takes a packet and keeps none.                              *)
LEMMA IoReadKnows ==
    ASSUME LobbyTypes, LobbyTypes', NEW c \in Clients, Knows(c), IoReads(c)
    PROVE  Knows(c)'
<1>1. /\ UNCHANGED vars /\ loop' = loop /\ out' = out /\ ui' = ui
      /\ client' = client /\ inbox[c] # <<>>
  BY DEF IoReads, serverVars
<1>2. PICK p \in Packets : p = Head(inbox[c])
  BY <1>1, ViewType
<1>3. Read(c) /\ Drops(c, p)
  BY <1>2 DEF IoReads
<1>4. inbox'[c] = Tail(inbox[c])
  BY <1>3, ReadTakes
<1>5. lost'[c] = 0 => lost[c] = 0 /\ ~Tells(View(c), p)
  BY <1>3, DroppedIs
<1>6. View(c)' = View(c) /\ Bound(c)' = Bound(c)
  BY <1>1 DEF View, Bound
<1>7. Live(c)' => Live(c) /\ ~Tells(View(c), p)
  BY <1>1, <1>5 DEF Live, vars
<1>8. ASSUME Shape(c)  PROVE Shape(c)'
  <2>1. PICK s \in Seq(Packets) : s = inbox[c] /\ s # <<>>
    BY <1>1, ViewType
  <2>2. PICK bound \in BOOLEAN : bound = Bound(c)
    BY ViewType
  <2>3. PICK w \in Requests \cup {NoRequest} : w = ui[c].waiting
    BY ViewType
  <2>4. PICK o : o = out[c]
    OBVIOUS
  <2>5. Owes(w, bound, s, o)
    BY <1>8, <2>1, <2>2, <2>3, <2>4 DEF Shape
  <2>6. Owes(w, bound, Tail(s), o)
    BY <2>1, <2>5, ReadOwed
  <2> QED BY <1>1, <1>4, <1>6, <1>8, <2>1, <2>2, <2>3, <2>4, <2>6 DEF Shape
<1>9. Live(c)' /\ Shape(c) => Shape(c)' /\ Reads(View(c), Head(inbox[c]), View(c)')
  BY <1>2, <1>6, <1>7, <1>8 DEF Reads, SkipsOver
<1> QED BY <1>1, <1>4, <1>7, <1>9, ReaderKnows

-----------------------------------------------------------------------------
(* The answers to a request of the page.                                     *)
LEMMA AnsweredKnows ==
    ASSUME LobbyTypes, LobbyTypes', NEW c \in Clients, Knows(c),
           ui[c].page = "gone" => ui[c].waiting = NoRequest,
           \/ AnswerFails(c) \/ ListAnswered(c) \/ CreateAnswered(c)
           \/ JoinAnswered(c) \/ StartAnswered(c)
    PROVE  Knows(c)'
<1>1. CASE AnswerFails(c) /\ Ends(c)
  BY <1>1, GoneKnows DEF AnswerFails, Ends, serverVars, vars
<1>2. CASE AnswerFails(c) /\ ~Ends(c)
  <2>1. /\ UNCHANGED vars /\ loop' = loop /\ client' = client
        /\ ui[c].waiting # NoRequest /\ inbox[c] # <<>>
        /\ Read(c) /\ Drops(c, Head(inbox[c]))
        /\ AfterRequest(c, ui[c].waiting.kind \in {"Create", "Join"})
    BY <1>2 DEF AnswerFails, serverVars
  <2>2. inbox'[c] = Tail(inbox[c])
    BY <2>1, ReadTakes
  <2>3. lost'[c] = 0 => lost[c] = 0 /\ ~Tells(View(c), Head(inbox[c]))
    BY <2>1, DroppedIs
  <2> QED BY <2>1, <2>2, <2>3, EndedKnows
<1>3. ASSUME NEW k, Answers(c, k)
      PROVE  /\ UNCHANGED vars /\ loop' = loop /\ inbox[c] # <<>>
             /\ inbox'[c] = Tail(inbox[c])
             /\ lost' = lost
             /\ \E w \in Requests : w = ui[c].waiting /\ w # NoRequest /\ w.kind = k
             /\ \E p \in Packets : p = Head(inbox[c]) /\ p.type = Expected(k)
  <2>1. /\ UNCHANGED vars /\ loop' = loop /\ lost' = lost /\ Read(c)
        /\ inbox[c] # <<>>
        /\ ui[c].waiting # NoRequest /\ ui[c].waiting.kind = k
        /\ Head(inbox[c]).type = Expected(k)
    BY <1>3 DEF Answers, serverVars
  <2> QED BY <2>1, ReadTakes, ViewType
<1>4. CASE ListAnswered(c)
  <2>1. Answers(c, "List") /\ client' = client /\ AfterRequest(c, FALSE)
    BY <1>4 DEF ListAnswered
  <2>2. PICK w \in Requests : w = ui[c].waiting /\ w # NoRequest /\ w.kind = "List"
    BY <1>3, <2>1
  <2>3. PICK p \in Packets : p = Head(inbox[c]) /\ p.type = "ListResp"
    BY <1>3, <2>1 DEF Expected
  <2>4. ~Tells(View(c), p)
    BY <2>3 DEF Tells, Notice
  <2>5. /\ UNCHANGED vars /\ loop' = loop /\ inbox[c] # <<>>
        /\ inbox'[c] = Tail(inbox[c])
        /\ lost' = lost
    BY <1>3, <2>1
  <2>6. AfterRequest(c, ui[c].waiting.kind \in {"Create", "Join"})
    <3>1. (ui[c].waiting.kind \in {"Create", "Join"}) = FALSE
      BY <2>2
    <3> QED BY <2>1, <3>1
  <2> QED BY <2>1, <2>2, <2>3, <2>4, <2>5, <2>6, EndedKnows
<1>5. CASE CreateAnswered(c)
  <2>1. /\ Answers(c, "Create") /\ Head(inbox[c]).room # NoRoom
        /\ client' = [client EXCEPT ![c].room = Head(inbox[c]).room]
        /\ ui' = [ui EXCEPT ![c].waiting = Listing, ![c].joined = Head(inbox[c]).room,
                            ![c].host = TRUE]
        /\ Post(c, <<Listing>>)
    BY <1>5 DEF CreateAnswered, Listing
  <2>2. PICK w \in Requests : w = ui[c].waiting /\ w # NoRequest /\ w.kind = "Create"
    BY <1>3, <2>1
  <2>3. PICK p \in Packets : p = Head(inbox[c]) /\ p.type = Expected("Create")
    BY <1>3, <2>1
  <2>4. /\ UNCHANGED vars /\ loop' = loop /\ inbox[c] # <<>>
        /\ inbox'[c] = Tail(inbox[c])
        /\ lost' = lost
    BY <1>3, <2>1
  <2>5. PICK g : g = p.room
    OBVIOUS
  <2>6. /\ client' = [client EXCEPT ![c].room = g] /\ p.room # NoRoom
        /\ ui' = [ui EXCEPT ![c].waiting = Listing, ![c].joined = g, ![c].host = TRUE]
        /\ Post(c, <<Listing>>)
    BY <2>1, <2>3, <2>5
  <2> QED BY <2>2, <2>3, <2>4, <2>5, <2>6, EnteredKnows
<1>6. CASE JoinAnswered(c)
  <2>1. /\ Answers(c, "Join") /\ Head(inbox[c]).ok
        /\ client' = [client EXCEPT ![c].room = ui[c].waiting.room]
        /\ ui' = [ui EXCEPT ![c].waiting = NoRequest, ![c].due = TRUE,
                            ![c].joined = ui[c].waiting.room, ![c].host = FALSE]
        /\ out' = out
    BY <1>6 DEF JoinAnswered
  <2>2. PICK w \in Requests : w = ui[c].waiting /\ w # NoRequest /\ w.kind = "Join"
    BY <1>3, <2>1
  <2>3. PICK p \in Packets : p = Head(inbox[c]) /\ p.type = Expected("Join")
    BY <1>3, <2>1
  <2>4. /\ UNCHANGED vars /\ loop' = loop /\ inbox[c] # <<>>
        /\ inbox'[c] = Tail(inbox[c])
        /\ lost' = lost
    BY <1>3, <2>1
  <2>5. PICK g : g = w.room
    OBVIOUS
  <2>6. /\ client' = [client EXCEPT ![c].room = g] /\ p.ok /\ out' = out
        /\ ui' = [ui EXCEPT ![c].waiting = NoRequest, ![c].due = TRUE,
                            ![c].joined = g, ![c].host = FALSE]
    BY <2>1, <2>2, <2>3, <2>5
  <2> QED BY <2>2, <2>3, <2>4, <2>5, <2>6, EnteredKnows
<1>7. CASE StartAnswered(c)
  <2>1. Answers(c, "Start") /\ Head(inbox[c]).ok /\ Launches(c) /\ out' = out
    BY <1>7 DEF StartAnswered
  <2>2. /\ UNCHANGED vars /\ loop' = loop /\ inbox[c] # <<>>
        /\ inbox'[c] = Tail(inbox[c])
        /\ lost' = lost /\ ui[c].waiting # NoRequest /\ ui[c].waiting.kind = "Start"
    BY <1>3, <2>1
  <2>3. PICK p \in Packets : p = Head(inbox[c]) /\ p.type = "StartResp" /\ p.ok
    BY <1>3, <2>1 DEF Expected
  <2>4. CASE ui[c].page = "lobby"
    BY <2>1, <2>2, <2>3, <2>4, LaunchedKnows
  <2>5. CASE ui[c].page # "lobby"
    <3>1. ~Shape(c)
      BY <2>2, <2>5 DEF Shape
    <3>2. ~Live(c)
      BY <3>1 DEF Knows
    <3>3. ui[c].page # "gone"
      BY <2>2
    <3> QED BY <2>2, <3>2, <3>3, GoneKnows DEF Live, vars
  <2> QED BY <2>4, <2>5
<1> QED BY <1>1, <1>2, <1>4, <1>5, <1>6, <1>7

-----------------------------------------------------------------------------
(* The user presses a button                                                 *)

(* What an idle page shows still holds when it asks for something.           *)
LEMMA AskEnds ==
    ASSUME NEW c, NEW x, x.asks = NoRequest, EndOK(c, x),
           NEW w, w.room = x.room, w.members = x.members, w.joined = x.joined,
           \A q \in ToSet(out[c]) : q.kind # "Join"
    PROVE  EndOK(c, w) /\ ~QuitSent(c)
<1>1. PICK g : g = RoomOf(c)
  OBVIOUS
<1>2. PICK m : m = activeGameRooms[g].members
  OBVIOUS
<1>3. PICK st : st = StateOf(c)
  OBVIOUS
<1>4. EndsAt(c, x, g, m, st)
  BY <1>1, <1>2, <1>3 DEF EndOK
<1>5. ~QuitSent(c)
  BY <1>4 DEF EndsAt
<1>6. Agrees(c, w, g, m)
  BY <1>4, <1>5 DEF EndsAt, Agrees
<1>7. EndsAt(c, w, g, m, st)
  BY <1>4, <1>5, <1>6 DEF EndsAt
<1> QED BY <1>1, <1>2, <1>3, <1>5, <1>7 DEF EndOK

(* What holds when a button of the lobby page may be pressed.                *)
LEMMA IdleLobby ==
    ASSUME LobbyTypes, NEW c \in Clients, Idle(c, "lobby"), Live(c), Shape(c)
    PROVE  \E v \in Views, s \in Seq(Packets), o \in Seq(Requests), bound \in BOOLEAN :
             /\ v = View(c) /\ s = inbox[c] /\ o = out[c] /\ bound = Bound(c)
             /\ v.asks = NoRequest /\ v.joined = ui[c].joined
             /\ Owes(NoRequest, bound, s, o)
             /\ None(s) \/ One(s, Stale)
             /\ bound => None(s) /\ o = <<>>
             /\ \A q \in ToSet(o) : q.kind # "Join"
<1>1. PICK v \in Views : v = View(c)
  BY ViewType
<1>2. PICK s \in Seq(Packets) : s = inbox[c]
  BY ViewType
<1>3. PICK o \in Seq(Requests) : o = out[c]
  BY ViewType
<1>4. PICK bound \in BOOLEAN : bound = Bound(c)
  BY ViewType
<1>5. ui[c].page = "lobby" /\ ui[c].waiting = NoRequest
  BY DEF Idle
<1>6. v.asks = NoRequest /\ v.joined = ui[c].joined
  BY <1>1, <1>5 DEF View
<1>7. Owes(NoRequest, bound, s, o)
  BY <1>2, <1>3, <1>4, <1>5 DEF Shape
<1>8. /\ None(s) \/ One(s, Stale)
      /\ bound => None(s) /\ o = <<>>
      /\ \A q \in ToSet(o) : q.kind # "Join"
  BY <1>7, RequestsOwed
<1> QED BY <1>1, <1>2, <1>3, <1>4, <1>6, <1>7, <1>8

(* The page sends a request and waits for its answer.                        *)
LEMMA WaitForIs ==
    ASSUME LobbyTypes, NEW c \in Clients, NEW q \in Requests, WaitFor(c, q),
           Idle(c, "lobby")
    PROVE  /\ UNCHANGED vars /\ loop' = loop /\ inbox' = inbox
           /\ client' = client /\ lost' = lost
           /\ ui'[c].page = "lobby" /\ ui'[c].waiting = q /\ ui'[c].joined = ui[c].joined
           /\ out'[c] = out[c] \o <<q>>
           /\ \A d \in Clients \ {c} : out'[d] = out[d] /\ ui'[d] = ui[d]
<1>1. ui \in [Clients -> Pages] /\ ui[c] \in Pages /\ ui[c].page = "lobby" /\ state[c] # "Closed"
  BY DEF LobbyTypes, Idle
<1>2. ui' = [ui EXCEPT ![c].waiting = q] /\ Post(c, <<q>>)
  BY DEF WaitFor
<1>3. <<q>> \in Seq(Requests)
  OBVIOUS
<1>4. out'[c] = out[c] \o <<q>> /\ \A d \in Clients \ {c} : out'[d] = out[d]
  BY <1>1, <1>2, <1>3, PostedIs
<1>5. /\ ui'[c].page = "lobby" /\ ui'[c].waiting = q /\ ui'[c].joined = ui[c].joined
      /\ \A d \in Clients \ {c} : ui'[d] = ui[d]
  BY <1>1, <1>2 DEF Pages
<1> QED BY <1>4, <1>5 DEF WaitFor, serverVars

(* The page asks, and waits for the answer.                                  *)
LEMMA WaitingShape ==
    ASSUME LobbyTypes, NEW c \in Clients, Idle(c, "lobby"), Live(c), Shape(c),
           NEW q \in Requests, WaitFor(c, q), q.kind # "Quit",
           q.kind = "Start" => ui[c].joined # NoRoom
    PROVE  Shape(c)' /\ View(c)' = [View(c) EXCEPT !.asks = q]
<1>1. q # NoRequest
  BY ListingAsks
<1>2. PICK v \in Views, s \in Seq(Packets), o \in Seq(Requests), bound \in BOOLEAN :
             /\ v = View(c) /\ s = inbox[c] /\ o = out[c] /\ bound = Bound(c)
             /\ Owes(NoRequest, bound, s, o)
  BY IdleLobby
<1>3. /\ inbox' = inbox /\ client' = client
      /\ ui'[c].page = "lobby" /\ ui'[c].waiting = q /\ ui'[c].joined = ui[c].joined
      /\ out'[c] = out[c] \o <<q>>
  BY WaitForIs
<1>4. ui[c].page = "lobby" /\ ui[c].waiting = NoRequest
  BY DEF Idle
<1>5. Bound(c)' = bound /\ (q.kind = "Start" => bound)
  BY <1>2, <1>3, <1>4 DEF Bound
<1>6. Owes(q, bound, s, o \o <<q>>)
  BY <1>1, <1>2, <1>5, PressOwed
<1>7. Shape(c)'
  BY <1>2, <1>3, <1>5, <1>6 DEF Shape
<1>8. View(c)' = [View(c) EXCEPT !.asks = q]
  BY <1>1, <1>3, <1>4 DEF View
<1> QED BY <1>7, <1>8

(* The list is asked for, a room is made, or the game is started.            *)
LEMMA AskedKnows ==
    ASSUME LobbyTypes, NEW c \in Clients, Knows(c), Idle(c, "lobby"),
           NEW q \in Requests, WaitFor(c, q), q.kind \in {"List", "Create", "Start"},
           q.kind = "Start" => ui[c].joined # NoRoom
    PROVE  Knows(c)'
<1>1. /\ UNCHANGED vars /\ loop' = loop /\ inbox' = inbox /\ lost' = lost
      /\ out'[c] = out[c] \o <<q>>
  BY WaitForIs
<1>2. SUFFICES ASSUME Live(c)'
               PROVE  /\ Shape(c)'
                      /\ \A w \in Views : Reaches(View(c)', inbox'[c], w) => EndOK(c, w)'
  BY DEF Knows
<1>3. Live(c)
  BY <1>1, <1>2 DEF Live, Idle, vars
<1>4. Shape(c) /\ \A x \in Views : Reaches(View(c), inbox[c], x) => EndOK(c, x)
  BY <1>3 DEF Knows
<1>5. PICK v \in Views, s \in Seq(Packets), o \in Seq(Requests) :
             /\ v = View(c) /\ s = inbox[c] /\ o = out[c]
             /\ v.asks = NoRequest
             /\ None(s) \/ One(s, Stale)
             /\ \A r \in ToSet(o) : r.kind # "Join"
  BY <1>3, <1>4, IdleLobby
<1>6. Shape(c)' /\ View(c)' = [v EXCEPT !.asks = q]
  BY <1>3, <1>4, <1>5, WaitingShape
<1>7. ASSUME NEW w \in Views, Reaches([v EXCEPT !.asks = q], s, w)
      PROVE  EndOK(c, w)
  <2>1. CASE Reaches(v, s, w)
    BY <1>4, <1>5, <2>1
  <2>2. CASE Reaches(v, s, v) /\ (w = [v EXCEPT !.asks = q] \/ w = [v EXCEPT !.asks = Listing])
    <3>1. EndOK(c, v)
      BY <1>4, <1>5, <2>2
    <3>2. w.room = v.room /\ w.members = v.members /\ w.joined = v.joined
      BY <2>2 DEF Views
    <3> QED BY <1>5, <3>1, <3>2, AskEnds
  <2> QED BY <1>5, <1>7, <2>1, <2>2, PressedRuns
<1>8. ASSUME NEW w \in Views, Reaches(View(c)', inbox'[c], w)
      PROVE  EndOK(c, w)'
  <2>1. EndOK(c, w)
    BY <1>1, <1>5, <1>6, <1>7, <1>8
  <2> QED BY <1>1, <2>1, PlainlyAsking
<1> QED BY <1>6, <1>8

(* Only another room than the one that is shown can be asked for.            *)
LEMMA JoinPressedKnows ==
    ASSUME LobbyTypes, NEW c \in Clients, Knows(c), NEW g \in GameRoomIds, PressJoin(c, g)
    PROVE  Knows(c)'
<1>1. PICK q \in Requests : q = Ask("Join", g) /\ q.kind = "Join" /\ q.room = g
  <2>1. Ask("Join", g) \in Requests /\ Ask("Join", g).kind = "Join" /\ Ask("Join", g).room = g
    BY DEF Ask, Requests, Kinds
  <2> QED BY <2>1
<1>2. Idle(c, "lobby") /\ g # ui[c].joined /\ WaitFor(c, q)
  BY <1>1 DEF PressJoin
<1>3. /\ UNCHANGED vars /\ loop' = loop /\ inbox' = inbox /\ lost' = lost
      /\ out'[c] = out[c] \o <<q>>
  BY <1>2, WaitForIs
<1>4. SUFFICES ASSUME Live(c)'
               PROVE  /\ Shape(c)'
                      /\ \A w \in Views : Reaches(View(c)', inbox'[c], w) => EndOK(c, w)'
  BY DEF Knows
<1>5. Live(c)
  BY <1>2, <1>3, <1>4 DEF Live, Idle, vars
<1>6. Shape(c) /\ \A x \in Views : Reaches(View(c), inbox[c], x) => EndOK(c, x)
  BY <1>5 DEF Knows
<1>7. PICK v \in Views, s \in Seq(Packets), o \in Seq(Requests) :
             /\ v = View(c) /\ s = inbox[c] /\ o = out[c]
             /\ v.asks = NoRequest /\ v.joined = ui[c].joined
             /\ None(s) \/ One(s, Stale)
             /\ \A r \in ToSet(o) : r.kind # "Join"
  BY <1>2, <1>5, <1>6, IdleLobby
<1>8. Shape(c)' /\ View(c)' = [v EXCEPT !.asks = q]
  BY <1>1, <1>2, <1>5, <1>6, <1>7, WaitingShape
<1>9. ToSet(out'[c]) = ToSet(o) \cup {q}
  BY <1>3, <1>7, SentOff
<1>10. ASSUME NEW w \in Views, Reaches([v EXCEPT !.asks = q], s, w)
       PROVE  EndOK(c, w)'
  <2>1. Reaches(v, s, v) /\ (w = [v EXCEPT !.asks = q] \/ w = [v EXCEPT !.asks = Listing])
    BY <1>1, <1>7, <1>10, JoinPressedRuns
  <2>2. EndOK(c, v)
    BY <1>6, <1>7, <2>1
  <2>3. /\ w.room = v.room /\ w.members = v.members /\ w.joined = v.joined
        /\ w.asks = q \/ w.asks = Listing
    BY <2>1 DEF Views
  <2>4. EndOK(c, w) /\ ~QuitSent(c)
    BY <1>7, <2>2, <2>3, AskEnds
  <2>5. PICK h : h = RoomOf(c)
    OBVIOUS
  <2>6. PICK m : m = activeGameRooms[h].members
    OBVIOUS
  <2>7. PICK st : st = StateOf(c)
    OBVIOUS
  <2>8. EndsAt(c, w, h, m, st)
    BY <2>4, <2>5, <2>6, <2>7 DEF EndOK
  <2>9. /\ uid' = uid /\ RoomOf(c)' = h /\ StateOf(c)' = st
        /\ activeGameRooms'[h].members = m
    BY <1>3, <2>5, <2>6, <2>7 DEF vars, RoomOf, StateOf, BeingDissolved
  <2>10. ~QuitSent(c)'
    BY <1>1, <1>7, <1>9, <2>4 DEF QuitSent
  <2>11. Agrees(c, w, h, m)' = Agrees(c, w, h, m)
    BY <2>9 DEF Agrees, UsersOf
  <2>12. \A r \in ToSet(out'[c]) : r.kind = "Join" =>
             /\ r.room \notin {w.joined, NoRoom}
             /\ w.asks # NoRequest /\ w.asks.kind = "Join" => w.asks = r
    <3>1. g # NoRoom
      BY SessionServerAssumption
    <3>2. \A r \in ToSet(out'[c]) : r.kind = "Join" => r = q
      BY <1>7, <1>9
    <3>3. w.asks.kind = "Join" => w.asks = q
      BY <2>3, ListingAsks
    <3> QED BY <1>1, <1>2, <1>7, <2>3, <3>1, <3>2, <3>3
  <2>13. EndsAt(c, w, h, m, st)'
    BY <2>4, <2>8, <2>10, <2>11, <2>12 DEF EndsAt
  <2> QED BY <2>9, <2>13 DEF EndOK
<1>11. ASSUME NEW w \in Views, Reaches(View(c)', inbox'[c], w)
       PROVE  EndOK(c, w)'
  BY <1>3, <1>7, <1>8, <1>10, <1>11
<1> QED BY <1>8, <1>11

(* The lobby page is opened, and asks for the list.                          *)
LEMMA PlayPressedKnows ==
    ASSUME LobbyTypes, NEW c \in Clients, Knows(c), PressPlay(c)
    PROVE  Knows(c)'
<1>1. /\ ui \in [Clients -> Pages] /\ ui[c].page = "home" /\ ui[c].waiting = NoRequest
      /\ state[c] # "Closed"
  BY DEF LobbyTypes, PressPlay, Idle
<1>2. /\ UNCHANGED vars /\ loop' = loop /\ inbox' = inbox /\ client' = client
      /\ lost' = lost /\ Post(c, <<Listing>>)
  BY DEF PressPlay, serverVars, Listing
<1>3. ui'[c].page = "lobby" /\ ui'[c].waiting = Listing /\ ui'[c].joined = NoRoom
  BY <1>1 DEF PressPlay, Listing
<1>4. Listing \in Requests /\ Listing # NoRequest /\ Listing.kind = "List"
  BY ListingAsks
<1>5. out'[c] = out[c] \o <<Listing>>
  <2>1. <<Listing>> \in Seq(Requests)
    BY <1>4
  <2> QED BY <1>1, <1>2, <2>1, PostedIs
<1>6. View(c)' = View(c)
  BY <1>1, <1>2, <1>3, <1>4 DEF View
<1>7. Live(c)' => Live(c)
  BY <1>1, <1>2 DEF Live
<1>8. ASSUME Shape(c)  PROVE Shape(c)'
  <2>1. Bound(c) = FALSE /\ Bound(c)' = FALSE
    BY <1>1, <1>3 DEF Bound
  <2>2. PICK s : s = inbox[c]
    OBVIOUS
  <2>3. PICK o : o = out[c]
    OBVIOUS
  <2>4. Owes(NoRequest, FALSE, s, o)
    BY <1>1, <1>8, <2>1, <2>2, <2>3 DEF Shape
  <2>5. Owes(Listing, FALSE, s, o \o <<Listing>>)
    BY <1>4, <2>4, PressOwed
  <2> QED BY <1>2, <1>3, <1>4, <1>5, <1>8, <2>1, <2>2, <2>3, <2>5 DEF Shape
<1> QED BY <1>2, <1>4, <1>5, <1>6, <1>7, <1>8, SameViewKnows

(* The lobby page is left: with a room joined, a quit is sent and no room is *)
(* shown; the packets that are still to come will be read for the list.      *)
LEMMA BackPressedKnows ==
    ASSUME LobbyTypes, NEW c \in Clients, Knows(c), PressBack(c)
    PROVE  Knows(c)'
<1>1. /\ ui \in [Clients -> Pages] /\ ui[c] \in Pages
      /\ client \in [Clients -> ClientStates] /\ client[c] \in ClientStates
  BY DEF LobbyTypes
<1>2. /\ Idle(c, "lobby") /\ ui[c].page = "lobby" /\ ui[c].waiting = NoRequest
      /\ state[c] # "Closed" /\ UNCHANGED vars /\ loop' = loop
      /\ inbox' = inbox /\ lost' = lost
  BY DEF PressBack, Idle, serverVars
<1>3. ui'[c].page = "home" /\ ui'[c].joined = NoRoom /\ ui'[c].waiting = NoRequest
  BY <1>1, <1>2 DEF PressBack, Pages
<1>4. SUFFICES ASSUME Live(c)'
               PROVE  /\ Shape(c)'
                      /\ \A w \in Views : Reaches(View(c)', inbox'[c], w) => EndOK(c, w)'
  BY DEF Knows
<1>5. Live(c)
  BY <1>2, <1>4 DEF Live
<1>6. Shape(c) /\ \A x \in Views : Reaches(View(c), inbox[c], x) => EndOK(c, x)
  BY <1>5 DEF Knows
<1>7. PICK v \in Views, s \in Seq(Packets), o \in Seq(Requests), bound \in BOOLEAN :
             /\ v = View(c) /\ s = inbox[c] /\ o = out[c] /\ bound = Bound(c)
             /\ v.asks = NoRequest /\ v.joined = ui[c].joined
             /\ Owes(NoRequest, bound, s, o)
             /\ None(s) \/ One(s, Stale)
             /\ bound => None(s) /\ o = <<>>
             /\ \A r \in ToSet(o) : r.kind # "Join"
  BY <1>2, <1>5, <1>6, IdleLobby
<1>8. Bound(c)' = FALSE
  BY <1>3 DEF Bound
<1>9. Listing \in Requests /\ Listing.kind = "List" /\ Listing # NoRequest
  BY ListingAsks
<1>10. CASE ui[c].joined = NoRoom
  <2>1. client' = client /\ out' = out
    BY <1>10 DEF PressBack
  <2>2. bound = FALSE
    BY <1>7, <1>10 DEF Bound
  <2>3. Shape(c)'
    BY <1>2, <1>3, <1>6, <1>7, <1>8, <2>1, <2>2 DEF Shape
  <2>4. View(c)' = [v EXCEPT !.asks = Listing]
    BY <1>2, <1>3, <1>7, <1>10, <2>1 DEF View
  <2>5. ASSUME NEW w \in Views, Reaches([v EXCEPT !.asks = Listing], s, w)
        PROVE  EndOK(c, w)
    <3>1. CASE Reaches(v, s, w)
      BY <1>6, <1>7, <3>1
    <3>2. CASE Reaches(v, s, v) /\ w = [v EXCEPT !.asks = Listing]
      <4>1. EndOK(c, v)
        BY <1>6, <1>7, <3>2
      <4>2. w.room = v.room /\ w.members = v.members /\ w.joined = v.joined
        BY <3>2 DEF Views
      <4> QED BY <1>7, <4>1, <4>2, AskEnds
    <3> QED BY <1>7, <1>9, <2>5, <3>1, <3>2, PressedRuns
  <2>6. ASSUME NEW w \in Views, Reaches(View(c)', inbox'[c], w)
        PROVE  EndOK(c, w)'
    <3>1. EndOK(c, w)
      BY <1>2, <1>7, <2>4, <2>5, <2>6
    <3> QED BY <1>2, <2>1, <3>1, PlainlyAsking
  <2> QED BY <2>3, <2>6
<1>11. CASE ui[c].joined # NoRoom
  <2>1. PICK q \in Requests : q = Ask("Quit", NoRoom) /\ q.kind = "Quit"
    <3>1. Ask("Quit", NoRoom) \in Requests /\ Ask("Quit", NoRoom).kind = "Quit"
      BY DEF Ask, Requests, Kinds
    <3> QED BY <3>1
  <2>2. client' = [client EXCEPT ![c].room = NoRoom] /\ Post(c, <<q>>)
    BY <1>11, <2>1 DEF PressBack
  <2>3. /\ client'[c].room = NoRoom /\ client'[c].members = client[c].members
        /\ client'[c].started = client[c].started
    BY <1>1, <2>2 DEF ClientStates
  <2>4. bound /\ None(s) /\ o = <<>>
    BY <1>2, <1>7, <1>11 DEF Bound
  <2>5. out'[c] = <<q>>
    <3>1. <<q>> \in Seq(Requests) /\ <<>> \o <<q>> = <<q>>
      BY Joining
    <3> QED BY <1>2, <1>7, <2>2, <2>4, <3>1, PostedIs
  <2>6. Shape(c)'
    <3>1. Owes(NoRequest, FALSE, s, <<q>>)
      BY <2>1, <2>4 DEF Owes, Stale
    <3> QED BY <1>2, <1>3, <1>6, <1>7, <1>8, <2>3, <2>5, <3>1 DEF Shape
  <2>7. PICK y \in Views : /\ y = View(c)'
                           /\ y.room = NoRoom /\ y.asks = Listing /\ y.joined = NoRoom
    <3>1. /\ View(c)'.room = NoRoom /\ View(c)'.members = v.members
          /\ View(c)'.asks = Listing /\ View(c)'.joined = NoRoom
      BY <1>3, <1>7, <2>3 DEF View
    <3>2. PICK y : y = [room |-> NoRoom, members |-> v.members, asks |-> Listing,
                        joined |-> NoRoom]
      OBVIOUS
    <3>3. View(c)' = y
      BY <1>3, <1>7, <2>3, <3>2 DEF View
    <3>4. y \in Views
      BY <1>9, <3>2 DEF Views
    <3> QED BY <3>1, <3>3, <3>4
  <2>8. ASSUME NEW w \in Views, Reaches(View(c)', inbox'[c], w)
        PROVE  EndOK(c, w)'
    <3>1. w = y
      BY <1>2, <1>7, <2>4, <2>7, <2>8, ListingReadsNoNews
    <3>2. ToSet(out'[c]) = {q}
      BY <2>5, ShortStreams
    <3>3. QuitSent(c)'
      BY <2>1, <3>2 DEF QuitSent
    <3>4. PICK g : g = RoomOf(c)'
      OBVIOUS
    <3>5. PICK m : m = activeGameRooms'[g].members
      OBVIOUS
    <3>6. PICK st : st = StateOf(c)'
      OBVIOUS
    <3>7. EndsAt(c, w, g, m, st)'
      BY <1>9, <2>1, <2>7, <3>1, <3>2, <3>3 DEF EndsAt
    <3> QED BY <3>4, <3>5, <3>6, <3>7 DEF EndOK
  <2> QED BY <2>6, <2>8
<1> QED BY <1>10, <1>11

(* The game's page is left: nothing is sent, and nothing was read.           *)
LEMMA GameLeftKnows ==
    ASSUME LobbyTypes, NEW c \in Clients, Knows(c), PressBackFromGame(c)
    PROVE  Knows(c)'
<1>1. /\ ui \in [Clients -> Pages] /\ ui[c] \in Pages
      /\ ui[c].page = "game" /\ ui[c].waiting = NoRequest
  BY DEF LobbyTypes, PressBackFromGame, Idle
<1>2. /\ UNCHANGED vars /\ loop' = loop /\ inbox' = inbox /\ client' = client
      /\ lost' = lost /\ out' = out
      /\ ui' = [ui EXCEPT ![c].page = "home"]
  BY DEF PressBackFromGame, serverVars
<1>3. ui'[c].page = "home" /\ ui'[c].waiting = NoRequest
  BY <1>1, <1>2 DEF Pages
<1>4. View(c)' = View(c) /\ Bound(c)' = Bound(c)
  BY <1>1, <1>2, <1>3 DEF View, Bound
<1>5. Live(c)' => Live(c)
  BY <1>1, <1>2, <1>3 DEF Live, vars
<1>6. Shape(c)' = Shape(c)
  BY <1>1, <1>2, <1>3, <1>4 DEF Shape
<1> QED BY <1>2, <1>4, <1>5, <1>6, SameViewKnows

(* What a client does keeps it knowing.                                      *)
LEMMA OwnStepKnows ==
    ASSUME LobbyTypes, LobbyTypes', NEW c \in Clients, Knows(c),
           ui[c].page = "gone" => ui[c].waiting = NoRequest, ClientStep(c)
    PROVE  Knows(c)'
<1>1. CASE PressPlay(c)
  BY <1>1, PlayPressedKnows
<1>2. ASSUME NEW k \in {"List", "Create"}, Idle(c, "lobby"), WaitFor(c, Ask(k, NoRoom))
      PROVE  Knows(c)'
  <2>1. Ask(k, NoRoom) \in Requests /\ Ask(k, NoRoom).kind = k
    BY DEF Ask, Requests, Kinds
  <2> QED BY <1>2, <2>1, AskedKnows
<1>3. CASE PressRefresh(c)
  BY <1>2, <1>3 DEF PressRefresh
<1>4. CASE PressCreate(c)
  BY <1>2, <1>4 DEF PressCreate
<1>5. CASE \E g \in GameRoomIds : PressJoin(c, g)
  BY <1>5, JoinPressedKnows
<1>6. CASE PressStart(c)
  <2>1. ui[c].joined \in GameRoomIds \cup {NoRoom}
    BY DEF LobbyTypes, Pages
  <2>2. /\ Ask("Start", ui[c].joined) \in Requests
        /\ Ask("Start", ui[c].joined).kind = "Start"
    BY <2>1 DEF Ask, Requests, Kinds
  <2> QED BY <1>6, <2>2, AskedKnows DEF PressStart
<1>7. CASE PressBack(c)
  BY <1>7, BackPressedKnows
<1>8. CASE PressBackFromGame(c)
  BY <1>8, GameLeftKnows
<1>9. CASE Exit(c)
  <2>1. ui'[c].page = "gone"
    BY <1>9 DEF Exit, LobbyTypes
  <2> QED BY <2>1, GoneKnows
<1>10. CASE \/ AnswerFails(c) \/ ListAnswered(c) \/ CreateAnswered(c)
            \/ JoinAnswered(c) \/ StartAnswered(c)
  BY <1>10, AnsweredKnows
<1>11. CASE Update(c)
  BY <1>11, UpdateKnows
<1>12. CASE IoReads(c)
  BY <1>12, IoReadKnows
<1> QED BY <1>1, <1>3, <1>4, <1>5, <1>6, <1>7, <1>8, <1>9, <1>10, <1>11, <1>12 DEF ClientStep

(* What a client does touches nobody else.                                   *)
LEMMA OwnStepIsLocal ==
    ASSUME LobbyTypes, NEW c \in Clients, ClientStep(c), NEW d \in Clients, d # c
    PROVE  /\ out'[d] = out[d] /\ inbox'[d] = inbox[d] /\ ui'[d] = ui[d]
           /\ client'[d] = client[d] /\ lost'[d] = lost[d]
<1>1. /\ out \in [Clients -> Seq(Requests)] /\ inbox \in [Clients -> Seq(Packets)]
      /\ ui \in [Clients -> Pages] /\ client \in [Clients -> ClientStates]
      /\ lost \in [Clients -> Nat]
  BY DEF LobbyTypes
<1>3. \A rs : Post(c, rs) => out'[d] = out[d]
  BY <1>1 DEF Post
<1>4. Read(c) => inbox'[d] = inbox[d]
  BY <1>1 DEF Read
<1>5. \A p : Drops(c, p) => lost'[d] = lost[d]
  BY <1>1 DEF Drops
<1>6. Launches(c) => ui'[d] = ui[d] /\ client'[d] = client[d]
  BY <1>1 DEF Launches
<1>7. \A b : AfterRequest(c, b) => ui'[d] = ui[d] /\ out'[d] = out[d]
  BY <1>1, <1>3 DEF AfterRequest
<1>8. \A r : WaitFor(c, r) => /\ ui'[d] = ui[d] /\ out'[d] = out[d]
                              /\ inbox'[d] = inbox[d] /\ client'[d] = client[d]
                              /\ lost'[d] = lost[d]
  BY <1>1, <1>3 DEF WaitFor
<1>9. CASE PressPlay(c)
  BY <1>1, <1>3, <1>9 DEF PressPlay
<1>10. CASE \/ PressRefresh(c) \/ PressCreate(c) \/ PressStart(c)
            \/ \E g \in GameRoomIds : PressJoin(c, g)
  BY <1>8, <1>10 DEF PressRefresh, PressCreate, PressStart, PressJoin
<1>11. CASE PressBack(c)
  BY <1>1, <1>3, <1>11 DEF PressBack
<1>12. CASE PressBackFromGame(c)
  BY <1>1, <1>12 DEF PressBackFromGame
<1>13. CASE Exit(c)
  BY <1>1, <1>13 DEF Exit
<1>14. CASE AnswerFails(c)
  BY <1>4, <1>5, <1>7, <1>14 DEF AnswerFails
<1>15. CASE ListAnswered(c)
  BY <1>4, <1>7, <1>15 DEF ListAnswered, Answers
<1>16. CASE CreateAnswered(c)
  BY <1>1, <1>3, <1>4, <1>16 DEF CreateAnswered, Answers
<1>17. CASE JoinAnswered(c)
  BY <1>1, <1>4, <1>17 DEF JoinAnswered, Answers
<1>18. CASE StartAnswered(c)
  BY <1>1, <1>4, <1>6, <1>18 DEF StartAnswered, Answers
<1>19. CASE Update(c)
  <2>1. PICK now : now = Polled(c, Head(inbox[c]))
    OBVIOUS
  <2>2. CASE inbox[c] = <<>>
    BY <1>1, <1>19, <2>2 DEF Update
  <2>3. CASE inbox[c] # <<>>
    <3>1. /\ out' = out /\ Read(c)
          /\ Drops(c, Head(inbox[c])) \/ UNCHANGED lost
          /\ \/ Launches(c)
             \/ client' = [client EXCEPT ![c] = now] /\ ui' = [ui EXCEPT ![c].due = FALSE]
      BY <1>19, <2>1, <2>3, Zenon DEF Update
    <3> QED BY <1>1, <1>4, <1>5, <1>6, <3>1
  <2> QED BY <2>2, <2>3
<1>20. CASE IoReads(c)
  BY <1>4, <1>5, <1>20 DEF IoReads
<1> QED BY <1>9, <1>10, <1>11, <1>12, <1>13, <1>14, <1>15, <1>16, <1>17, <1>18, <1>19, <1>20
        DEF ClientStep

(* The steps of the clients keep what every client knows.                    *)
LEMMA ClientStepKnows ==
    ASSUME Parts, LobbyInv, LobbyInv', KnowInv, NEW c \in Clients, ClientStep(c)
    PROVE  KnowInv'
<1>1. LobbyTypes /\ LobbyTypes' /\ (ui[c].page = "gone" => ui[c].waiting = NoRequest)
  BY DEF LobbyInv, WaitInv
<1>2. UNCHANGED vars /\ loop' = loop
  BY ClientsLeaveTheServerAlone
<1>3. \A d \in Clients \ {c} :
          /\ out'[d] = out[d] /\ inbox'[d] = inbox[d] /\ ui'[d] = ui[d]
          /\ client'[d] = client[d] /\ lost'[d] = lost[d]
  BY <1>1, OwnStepIsLocal
<1>4. Knows(c)'
  BY <1>1, OwnStepKnows DEF KnowInv
<1> QED BY <1>1, <1>2, <1>3, <1>4, ClientMoves

(* So does every step of the lobby.                                          *)
LEMMA LobbyStepKeepsKnow ==
    ASSUME Parts, LobbyInv, LobbyInv', KnowInv, [LobbyNext]_allVars
    PROVE  KnowInv'
<1>1. ASSUME NEW c \in Clients, ServerStep(c)  PROVE KnowInv'
  BY <1>1, ServerStepKnows
<1>2. ASSUME NEW c \in Clients, ClientStep(c)  PROVE KnowInv'
  BY <1>2, ClientStepKnows
<1>3. ASSUME NEW t \in GameRoomIds,
             ThreadLoads(t) \/ GameReturns(t) \/ ThreadDestroysSdk(t) \/ ThreadEnds(t)
      PROVE  KnowInv'
  BY <1>3, GamesRunUnknown
<1>4. CASE UNCHANGED allVars
  <2>1. /\ UNCHANGED vars /\ loop' = loop /\ out' = out /\ inbox' = inbox
        /\ ui' = ui
        /\ client' = client /\ lost' = lost
    BY <1>4 DEF allVars, lobbyVars
  <2>2. SeatsStay
    BY <2>1 DEF SeatsStay, vars
  <2> QED BY <2>1, <2>2, SeatsStayKnown DEF LobbyInv, KnowInv
<1> QED BY <1>1, <1>2, <1>3, <1>4 DEF LobbyNext

(* It holds at the start: nobody is in a room, and nothing was sent.         *)
LEMMA ClientsStartKnowing ==
    ASSUME LobbyInit
    PROVE  KnowInv
<1>1. FirstIsHost /\ TheHostDissolves
  BY GameLobbyAssumption DEF LobbyInit, FirstIsHost, TheHostDissolves
<1>2. ASSUME NEW c \in Clients  PROVE Knows(c)
  <2>1. /\ out[c] = <<>> /\ inbox[c] = <<>>
        /\ ui[c].page = "home" /\ ui[c].waiting = NoRequest
        /\ client[c].room = NoRoom /\ client[c].members = <<>> /\ client[c].started = FALSE
        /\ currentGameRoomId[c] = NoRoom /\ state[c] = "SessionRoom" /\ loop = NoClient
    BY DEF LobbyInit
  <2>2. Shape(c)
    <3>1. Owes(NoRequest, Bound(c), <<>>, <<>>)
      BY SmallStreams DEF Owes
    <3> QED BY <2>1, <3>1 DEF Shape
  <2>3. View(c) \in Views
    <3>1. <<>> \in Seq(Users)
      OBVIOUS
    <3> QED BY <2>1, <3>1, ListingAsks DEF View, Views
  <2>4. EndOK(c, View(c))
    <3>1. PICK m : m = activeGameRooms[NoRoom].members
      OBVIOUS
    <3>2. ToSet(out[c]) = {}
      BY <2>1, ShortStreams
    <3>3. ~QuitSent(c)
      BY <3>2 DEF QuitSent
    <3>4. Agrees(c, View(c), NoRoom, m)
      BY <2>1 DEF Agrees, View
    <3>5. EndsAt(c, View(c), NoRoom, m, "SessionRoom")
      BY <3>2, <3>3, <3>4 DEF EndsAt
    <3> QED BY <2>1, <3>1, <3>5, EndsHere
  <2>5. \A v \in Views : Reaches(View(c), <<>>, v) => EndOK(c, v)
    BY <2>3, <2>4, ReachesNone
  <2> QED BY <2>1, <2>2, <2>5 DEF Knows
<1> QED BY <1>1, <1>2 DEF KnowInv

(* mainPage.c, client/gameRoom.c, server/gameRoom.c: whatever a client that  *)
(* has lost no news will read next, it ends up with the room and the members *)
(* the server has, or with no room while the server, having said so, waits   *)
(* for the game of its room (gameRoom.c:146-151); and at most one answer in  *)
(* its stream is not the one its page waits for.                             *)
THEOREM ClientsKnow == LobbySpec => []KnowInv
<1>1. LobbyInit => KnowInv
  BY ClientsStartKnowing
<1>2. IInv /\ LobbyInv /\ LobbyInv' /\ KnowInv /\ [LobbyNext]_allVars => KnowInv'
  BY IInvIsParts, LobbyStepKeepsKnow
<1>3. LobbySpec => []IInv
  BY LobbyInvariant, PTL
<1> QED BY <1>1, <1>2, <1>3, LobbyStreams, PTL DEF LobbySpec

(* client/gameRoom.c, server/gameRoom.c: with nothing under way, a client    *)
(* that has lost no news shows the room it is in and, as a guest, the        *)
(* members of it, for any number of clients, rooms and seats, however the    *)
(* packets overtake the requests; but no room as long as the dissolution of  *)
(* its room, of which it was told, waits for the game.                       *)
THEOREM ClientKnowsItsRoomCorrect == LobbySpec => []ClientKnowsItsRoom
<1>1. LobbyInv /\ KnowInv => ClientKnowsItsRoom
  <2> SUFFICES ASSUME LobbyInv, KnowInv, NEW c \in Clients, Settled(c), lost[c] = 0
               PROVE  /\ client[c].room = RoomOf(c)
                      /\ RoomOf(c) # NoRoom =>
                           LET m     == activeGameRooms[RoomOf(c)].members
                               seats == [i \in DOMAIN m |-> uid[m[i]]]
                           IN  m[1] # c =>
                                 /\ \A u \in Uids : Seats(client[c].members, u) = Seats(seats, u)
                                 /\ MaxMembers <= 3 => client[c].members = seats
    BY DEF ClientKnowsItsRoom
  <2>1. Live(c) /\ inbox[c] = <<>> /\ out[c] = <<>>
    BY DEF Settled, Live
  <2>2. View(c) \in Views /\ View(c).room = client[c].room /\ View(c).members = client[c].members
    BY ViewType DEF LobbyInv, View
  <2>3. EndOK(c, View(c))
    <3>1. Reaches(View(c), <<>>, View(c))
      BY <2>2, ReachesNone
    <3> QED BY <2>1, <2>2, <3>1 DEF KnowInv, Knows
  <2>4. ~QuitSent(c)
    BY <2>1, ShortStreams DEF QuitSent
  <2>5. PICK g : g = RoomOf(c)
    OBVIOUS
  <2>6. PICK m : m = activeGameRooms[g].members
    OBVIOUS
  <2>7. Agrees(c, View(c), g, m)
    BY <2>3, <2>4, <2>5, <2>6 DEF EndOK, EndsAt
  <2> QED BY <2>2, <2>5, <2>6, <2>7 DEF Agrees, UsersOf
<1> QED BY <1>1, ClientsKnow, LobbyStreams, PTL
=============================================================================
