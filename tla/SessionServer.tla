--------------------------- MODULE SessionServer ---------------------------
(***************************************************************************)
(* The control-channel server of PacPlay: the sessions of server.c, the    *)
(* login and two-factor handlers of auth.c, the chat rooms of room.c and   *)
(* the game rooms of gameRoom.c.                                           *)
(*                                                                         *)
(* One thread runs serverEventLoop, so a handler is one atomic step; what  *)
(* interleaves is the requests of the clients, in any order, the game      *)
(* threads that end on their own, a clean shutdown and a crash.  The two   *)
(* room databases outlive the process; everything else is memory.          *)
(*                                                                         *)
(* Requests that a handler refuses without changing state, and handlers    *)
(* that only read (lists, heartbeats), are stuttering steps.  Allocation   *)
(* and the DELETE statements of SQLite do not fail here; an INSERT may.    *)
(***************************************************************************)
EXTENDS Naturals, Sequences, SequencesExt

CONSTANTS
    Clients,        \* connection slots; a slot is reused after it is closed
    Uids,           \* registered users
    RoomIds,        \* chat room ids a client may ask for
    GameRoomIds,    \* ids the random generator may draw
    MaxMembers,     \* MAX_CLIENTS_PER_ROOM
    NoRoom,         \* the id 0: "not in any room"
    NoUid           \* the uid of a session that never logged in

ASSUME SessionServerAssumption ==
    /\ NoRoom \notin RoomIds \cup GameRoomIds
    /\ NoUid \notin Uids
    /\ MaxMembers \in Nat \ {0}

VARIABLES
    phase,              \* "running"; "stopping" (serverShutdown and the
                        \* disconnections of serverCleanup); "destroying"
                        \* (its downloadPoolDestroy); "stopped"
    state,              \* SessionState of each slot, "Closed" if unused
    uid,                \* currentUser.uid
    currentRoomId,
    currentGameRoomId,
    activeRooms,        \* roomId :> members array, for the rooms in memory
    activeGameRooms,    \* gameRoomId :> [hostUid, members, state, gameRunning]
    roomDB,             \* ids with a row in RoomDB
    gameRoomDB,         \* ids with a row in GameRoomDB
    totpDB              \* users with a TOTP secret in UserDB

sessionVars == <<state, uid, currentRoomId, currentGameRoomId>>
roomVars    == <<currentRoomId, activeRooms, roomDB>>
gameVars    == <<currentGameRoomId, activeGameRooms, gameRoomDB>>
vars == <<phase, state, uid, currentRoomId, currentGameRoomId, activeRooms,
          activeGameRooms, roomDB, gameRoomDB, totpDB>>

SessionStates ==
    {"Closed", "SessionKeyExchange", "SessionLogin", "SessionTOTPVerify",
     "SessionRoom", "SessionChat", "SessionGameRoomLobby",
     "SessionGameRoomPlay"}

MemberList   == Seq(Clients)
GameRoomType == [hostUid : Uids, members : MemberList,
                 state : {"GameRoomLobby", "GameRoomPlaying"},
                 gameRunning : BOOLEAN]

(* Type invariant: every variable has the shape of its C declaration.       *)
TypeOK ==
    /\ phase \in {"running", "stopping", "destroying", "stopped"}
    /\ state \in [Clients -> SessionStates]
    /\ uid \in [Clients -> Uids \cup {NoUid}]
    /\ currentRoomId \in [Clients -> RoomIds \cup {NoRoom}]
    /\ currentGameRoomId \in [Clients -> GameRoomIds \cup {NoRoom}]
    /\ DOMAIN activeRooms \subseteq RoomIds
    /\ activeRooms \in [DOMAIN activeRooms -> MemberList]
    /\ DOMAIN activeGameRooms \subseteq GameRoomIds
    /\ activeGameRooms \in [DOMAIN activeGameRooms -> GameRoomType]
    /\ roomDB \subseteq RoomIds
    /\ gameRoomDB \subseteq GameRoomIds
    /\ totpDB \subseteq Uids

Init ==
    /\ phase = "running"
    /\ state = [c \in Clients |-> "Closed"]
    /\ uid = [c \in Clients |-> NoUid]
    /\ currentRoomId = [c \in Clients |-> NoRoom]
    /\ currentGameRoomId = [c \in Clients |-> NoRoom]
    /\ activeRooms = <<>>
    /\ activeGameRooms = <<>>
    /\ roomDB = {}
    /\ gameRoomDB = {}
    /\ totpDB = {}

-----------------------------------------------------------------------------
(* The tables of active rooms.                                              *)
Put(f, k, v) == [x \in DOMAIN f \cup {k} |-> IF x = k THEN v ELSE f[x]]
Drop(f, k)   == Restrict(f, DOMAIN f \ {k})

(* Mutant of LeaveRoom: the last member leaves and the room stays.           *)
LeaveRoom_KeepsEmptyRoom(c) ==
    LET r == currentRoomId[c]
    IN  [rooms |-> IF r \in DOMAIN activeRooms
                   THEN [activeRooms EXCEPT ![r] = RemoveFirst(@, c)]
                   ELSE activeRooms,
         ids   |-> [currentRoomId EXCEPT ![c] = NoRoom],
         rows  |-> roomDB]

(* serverRemoveClientFromRoom: what the chat rooms become when c leaves.     *)
(* The loop that finds c in members and closes the gap with memmove is       *)
(* RemoveFirst.  The last member takes the room and its row along.           *)
LeaveRoom(c) ==
    LET r    == currentRoomId[c]
        left == RemoveFirst(activeRooms[r], c)
        ids  == [currentRoomId EXCEPT ![c] = NoRoom]
    IN  CASE r \notin DOMAIN activeRooms ->
               [rooms |-> activeRooms, ids |-> ids, rows |-> roomDB]
          [] r \in DOMAIN activeRooms /\ left # <<>> ->
               [rooms |-> [activeRooms EXCEPT ![r] = left],
                ids |-> ids, rows |-> roomDB]
          [] r \in DOMAIN activeRooms /\ left = <<>> ->
               [rooms |-> Drop(activeRooms, r), ids |-> ids,
                rows |-> roomDB \ {r}]

(* serverDissolveGameRoom: every member is put back into SessionRoom, the    *)
(* game is stopped, the row and the room disappear.                          *)
DissolveGameRoom(g) ==
    LET evicted == Range(activeGameRooms[g].members)
    IN  [rooms |-> Drop(activeGameRooms, g),
         ids   |-> [d \in Clients |-> IF d \in evicted THEN NoRoom
                                      ELSE currentGameRoomId[d]],
         state |-> [d \in Clients |-> IF d \in evicted THEN "SessionRoom"
                                      ELSE state[d]],
         rows  |-> gameRoomDB \ {g}]

(* Mutant of LeaveAsMember: the row is deleted with members still seated.    *)
LeaveAsMember_DeletesRow(c, g) ==
    LET left == RemoveFirst(activeGameRooms[g].members, c)
    IN  [rooms |-> IF left = <<>> THEN Drop(activeGameRooms, g)
                   ELSE [activeGameRooms EXCEPT ![g].members = left],
         ids   |-> [currentGameRoomId EXCEPT ![c] = NoRoom],
         state |-> [state EXCEPT ![c] = "SessionRoom"],
         rows  |-> gameRoomDB \ {g}]

(* serverRemoveClientFromGameRoom past the host test: c leaves alone.        *)
LeaveAsMember(c, g) ==
    LET left == RemoveFirst(activeGameRooms[g].members, c)
    IN  [rooms |-> IF left = <<>> THEN Drop(activeGameRooms, g)
                   ELSE [activeGameRooms EXCEPT ![g].members = left],
         ids   |-> [currentGameRoomId EXCEPT ![c] = NoRoom],
         state |-> [state EXCEPT ![c] = "SessionRoom"],
         rows  |-> IF left = <<>> THEN gameRoomDB \ {g} ELSE gameRoomDB]

(* Mutant of LeaveGameRoom: the host leaves like anybody else.               *)
LeaveGameRoom_NoHostTest(c) ==
    IF currentGameRoomId[c] \in DOMAIN activeGameRooms
    THEN LeaveAsMember(c, currentGameRoomId[c])
    ELSE [rooms |-> activeGameRooms, ids |-> currentGameRoomId,
          state |-> state, rows |-> gameRoomDB]

(* serverRemoveClientFromGameRoom.  The host is recognised by user, not by   *)
(* session: any session of the host's user dissolves the room.               *)
LeaveGameRoom(c) ==
    LET g == currentGameRoomId[c]
        forget == [rooms |-> activeGameRooms,
                   ids   |-> [currentGameRoomId EXCEPT ![c] = NoRoom],
                   state |-> [state EXCEPT ![c] = "SessionRoom"],
                   rows  |-> gameRoomDB]
    IN  CASE g = NoRoom ->
               [rooms |-> activeGameRooms, ids |-> currentGameRoomId,
                state |-> state, rows |-> gameRoomDB]
          [] g # NoRoom /\ g \notin DOMAIN activeGameRooms -> forget
          [] g \in DOMAIN activeGameRooms
             /\ activeGameRooms[g].hostUid = uid[c] -> DissolveGameRoom(g)
          [] g \in DOMAIN activeGameRooms
             /\ activeGameRooms[g].hostUid # uid[c] -> LeaveAsMember(c, g)

-----------------------------------------------------------------------------
(* processClient: which requests each state lets through.  Any other request *)
(* makes processClient fail, and the event loop disconnects the client.      *)
Dispatch ==
    [SessionKeyExchange   |-> {"MsgKeyExchangeReq"},
     SessionLogin         |-> {"MsgLoginReq", "MsgRegisterReq", "MsgLogout"},
     SessionTOTPVerify    |-> {"MsgTOTPVerifyResp", "MsgLogout"},
     SessionRoom          |-> {"MsgCreateRoom", "MsgJoinRoom", "MsgQuitRoom",
                               "MsgTOTPSetupReq", "MsgGameRoomCreate",
                               "MsgGameRoomJoin", "MsgLogout"},
     SessionChat          |-> {"MsgChat", "MsgTOTPSetupReq", "MsgLogout"},
     SessionGameRoomLobby |-> {"MsgGameRoomQuit", "MsgGameRoomStart",
                               "MsgGameRoomCreate", "MsgGameRoomJoin",
                               "MsgChat", "MsgLogout"},
     SessionGameRoomPlay  |-> {"MsgGameRoomQuit", "MsgChat", "MsgLogout"}]

Receives(c, msg) ==
    /\ phase = "running"
    /\ state[c] # "Closed"
    /\ msg \in Dispatch[state[c]]

Goto(c, st) == state' = [state EXCEPT ![c] = st]

(* acceptClient: a free slot becomes a session awaiting the key exchange.    *)
AcceptClient(c) ==
    /\ phase = "running"
    /\ state[c] = "Closed"
    /\ Goto(c, "SessionKeyExchange")
    /\ UNCHANGED <<phase, uid, roomVars, gameVars, totpDB>>

(* handleKeyExchange *)
KeyExchange(c) ==
    /\ Receives(c, "MsgKeyExchangeReq")
    /\ Goto(c, "SessionLogin")
    /\ UNCHANGED <<phase, uid, roomVars, gameVars, totpDB>>

(* serverHandleLogin with valid credentials of user u: straight to the lobby *)
(* or, if u has a stored secret, to the second factor.  Nothing asks whether *)
(* u is logged in on another session already.                                *)
Login(c, u) ==
    /\ Receives(c, "MsgLoginReq")
    /\ uid' = [uid EXCEPT ![c] = u]
    /\ Goto(c, IF u \in totpDB THEN "SessionTOTPVerify" ELSE "SessionRoom")
    /\ UNCHANGED <<phase, roomVars, gameVars, totpDB>>

(* serverHandleTOTPSetup: the secret is stored before the user proves to     *)
(* have it, and a session in a chat room keeps its membership.               *)
TOTPSetup(c) ==
    /\ Receives(c, "MsgTOTPSetupReq")
    /\ uid[c] \notin totpDB
    /\ totpDB' = totpDB \cup {uid[c]}
    /\ Goto(c, "SessionTOTPVerify")
    /\ UNCHANGED <<phase, uid, roomVars, gameVars>>

(* serverHandleTOTPVerify: a right code opens the lobby, a wrong one falls   *)
(* back to the login prompt of the same connection.                          *)
TOTPVerify(c, codeIsRight) ==
    /\ Receives(c, "MsgTOTPVerifyResp")
    /\ Goto(c, IF codeIsRight THEN "SessionRoom" ELSE "SessionLogin")
    /\ UNCHANGED <<phase, uid, roomVars, gameVars, totpDB>>

(* serverHandleRoomCreate: only a row; the creator does not enter the room.  *)
RoomCreate(c, r) ==
    /\ Receives(c, "MsgCreateRoom")
    /\ r \notin roomDB
    /\ roomDB' = roomDB \cup {r}
    /\ UNCHANGED <<phase, sessionVars, activeRooms, activeGameRooms,
                   gameRoomDB, totpDB>>

(* serverHandleRoomJoin: the room must have a row; the old room is left      *)
(* before the new one is looked up, and a full room leaves c in neither.     *)
RoomJoin(c, r) ==
    /\ Receives(c, "MsgJoinRoom")
    /\ r \in roomDB
    /\ LET l       == LeaveRoom(c)
           members == IF r \in DOMAIN l.rooms THEN l.rooms[r] ELSE <<>>
           full    == Len(members) >= MaxMembers
       IN  /\ activeRooms' = IF full THEN l.rooms
                             ELSE Put(l.rooms, r, Append(members, c))
           /\ currentRoomId' = IF full THEN l.ids
                               ELSE [l.ids EXCEPT ![c] = r]
           /\ state' = IF full THEN state
                       ELSE [state EXCEPT ![c] = "SessionChat"]
           /\ roomDB' = l.rows
    /\ UNCHANGED <<phase, uid, gameVars, totpDB>>

(* serverHandleRoomQuit *)
RoomQuit(c) ==
    /\ Receives(c, "MsgQuitRoom")
    /\ LET l == LeaveRoom(c)
       IN  /\ activeRooms' = l.rooms
           /\ currentRoomId' = l.ids
           /\ roomDB' = l.rows
    /\ Goto(c, "SessionRoom")
    /\ UNCHANGED <<phase, uid, gameVars, totpDB>>

(* Mutant of GameRoomCreate: the chat room is not left.                      *)
GameRoomCreate_KeepsChatRoom(c, g, created) ==
    /\ Receives(c, "MsgGameRoomCreate")
    /\ created
    /\ g \notin LeaveGameRoom(c).rows
    /\ activeGameRooms' =
         Put(LeaveGameRoom(c).rooms, g,
             [hostUid |-> uid[c], members |-> <<c>>,
              state |-> "GameRoomLobby", gameRunning |-> FALSE])
    /\ currentGameRoomId' = [LeaveGameRoom(c).ids EXCEPT ![c] = g]
    /\ state' = [LeaveGameRoom(c).state EXCEPT ![c] = "SessionGameRoomLobby"]
    /\ gameRoomDB' = LeaveGameRoom(c).rows \cup {g}
    /\ UNCHANGED <<phase, uid, roomVars, totpDB>>

(* serverHandleGameRoomCreate: c leaves whatever room it is in, then draws   *)
(* ids until one has no row (g); created is FALSE if all draws collide or    *)
(* the INSERT fails, and then c is in no room at all.                        *)
GameRoomCreate(c, g, created) ==
    /\ Receives(c, "MsgGameRoomCreate")
    /\ LET l == LeaveRoom(c)
           v == LeaveGameRoom(c)
           fresh == [hostUid |-> uid[c], members |-> <<>>,
                     state |-> "GameRoomLobby", gameRunning |-> FALSE]
           room  == IF g \in DOMAIN v.rooms THEN v.rooms[g] ELSE fresh
       IN  /\ created => g \notin v.rows
           /\ activeGameRooms' =
                IF created
                THEN Put(v.rooms, g, [room EXCEPT !.members = Append(@, c)])
                ELSE v.rooms
           /\ currentGameRoomId' = IF created THEN [v.ids EXCEPT ![c] = g]
                                   ELSE v.ids
           /\ state' = IF created
                       THEN [v.state EXCEPT ![c] = "SessionGameRoomLobby"]
                       ELSE v.state
           /\ gameRoomDB' = IF created THEN v.rows \cup {g} ELSE v.rows
           /\ activeRooms' = l.rooms
           /\ currentRoomId' = l.ids
           /\ roomDB' = l.rows
    /\ UNCHANGED <<phase, uid, totpDB>>

(* Mutant of Joinable: a game that was started can still be joined.          *)
Joinable_Playing(rooms, g) ==
    /\ g \in DOMAIN rooms
    /\ Len(rooms[g].members) < MaxMembers

(* The test that serverHandleGameRoomJoin makes before and again after c     *)
(* leaves its rooms: leaving may dissolve the very room it asked for.        *)
Joinable(rooms, g) ==
    /\ g \in DOMAIN rooms
    /\ Len(rooms[g].members) < MaxMembers
    /\ rooms[g].state = "GameRoomLobby"

(* Mutant of GameRoomJoin: the test before leaving is believed afterwards.   *)
GameRoomJoin_NoSecondTest(c, g) ==
    /\ Receives(c, "MsgGameRoomJoin")
    /\ Joinable(activeGameRooms, g)
    /\ LET l == LeaveRoom(c)
           v == LeaveGameRoom(c)
       IN  /\ activeGameRooms' = [v.rooms EXCEPT ![g].members = Append(@, c)]
           /\ currentGameRoomId' = [v.ids EXCEPT ![c] = g]
           /\ state' = [v.state EXCEPT ![c] = "SessionGameRoomLobby"]
           /\ gameRoomDB' = v.rows
           /\ activeRooms' = l.rooms
           /\ currentRoomId' = l.ids
           /\ roomDB' = l.rows
    /\ UNCHANGED <<phase, uid, totpDB>>

(* serverHandleGameRoomJoin *)
GameRoomJoin(c, g) ==
    /\ Receives(c, "MsgGameRoomJoin")
    /\ Joinable(activeGameRooms, g)
    /\ LET l  == LeaveRoom(c)
           v  == LeaveGameRoom(c)
           ok == Joinable(v.rooms, g)
       IN  /\ activeGameRooms' =
                IF ok THEN [v.rooms EXCEPT ![g].members = Append(@, c)]
                ELSE v.rooms
           /\ currentGameRoomId' = IF ok THEN [v.ids EXCEPT ![c] = g]
                                   ELSE v.ids
           /\ state' = IF ok
                       THEN [v.state EXCEPT ![c] = "SessionGameRoomLobby"]
                       ELSE v.state
           /\ gameRoomDB' = v.rows
           /\ activeRooms' = l.rooms
           /\ currentRoomId' = l.ids
           /\ roomDB' = l.rows
    /\ UNCHANGED <<phase, uid, totpDB>>

(* serverHandleGameRoomQuit *)
GameRoomQuit(c) ==
    /\ Receives(c, "MsgGameRoomQuit")
    /\ LET v == LeaveGameRoom(c)
       IN  /\ activeGameRooms' = v.rooms
           /\ currentGameRoomId' = v.ids
           /\ state' = v.state
           /\ gameRoomDB' = v.rows
    /\ UNCHANGED <<phase, uid, roomVars, totpDB>>

(* serverHandleGameRoomStart: the request names the room, which need not be  *)
(* the one c sits in; only the host's user may start it, and only once.      *)
GameRoomStart(c, g) ==
    /\ Receives(c, "MsgGameRoomStart")
    /\ g \in DOMAIN activeGameRooms
    /\ activeGameRooms[g].hostUid = uid[c]
    /\ activeGameRooms[g].state = "GameRoomLobby"
    /\ ~activeGameRooms[g].gameRunning
    /\ activeGameRooms' =
         [activeGameRooms EXCEPT ![g].state = "GameRoomPlaying",
                                 ![g].gameRunning = TRUE]
    /\ state' = [d \in Clients |->
                   IF d \in Range(activeGameRooms[g].members)
                   THEN "SessionGameRoomPlay" ELSE state[d]]
    /\ UNCHANGED <<phase, uid, currentGameRoomId, roomVars, gameRoomDB, totpDB>>

(* gameRoomThreadFunc ends: the library did not load or pacplayMain          *)
(* returned.  Nobody tells the room.                                         *)
GameThreadEnds(g) ==
    /\ g \in DOMAIN activeGameRooms
    /\ activeGameRooms[g].gameRunning
    /\ activeGameRooms' = [activeGameRooms EXCEPT ![g].gameRunning = FALSE]
    /\ UNCHANGED <<phase, sessionVars, activeRooms, roomDB, gameRoomDB, totpDB>>

-----------------------------------------------------------------------------
(* Mutant of ClientDisconnect: the chat room is not told.                    *)
ClientDisconnect_KeepsChatRoom(c) ==
    /\ state[c] # "Closed"
    /\ LET v == LeaveGameRoom(c)
       IN  /\ activeGameRooms' = v.rooms
           /\ currentGameRoomId' = v.ids
           /\ state' = [v.state EXCEPT ![c] = "Closed"]
           /\ gameRoomDB' = v.rows
    /\ currentRoomId' = [currentRoomId EXCEPT ![c] = NoRoom]
    /\ uid' = [uid EXCEPT ![c] = NoUid]
    /\ UNCHANGED <<phase, activeRooms, roomDB, totpDB>>

(* clientDisconnect: the session leaves its game room and its chat room, and *)
(* its slot is free again.                                                   *)
ClientDisconnect(c) ==
    /\ state[c] # "Closed"
    /\ LET l == LeaveRoom(c)
           v == LeaveGameRoom(c)
       IN  /\ activeGameRooms' = v.rooms
           /\ currentGameRoomId' = v.ids
           /\ state' = [v.state EXCEPT ![c] = "Closed"]
           /\ gameRoomDB' = v.rows
           /\ activeRooms' = l.rooms
           /\ currentRoomId' = l.ids
           /\ roomDB' = l.rows
    /\ uid' = [uid EXCEPT ![c] = NoUid]
    /\ UNCHANGED <<phase, totpDB>>

(* The peer closes or breaks the stream, logs out, sends a request its state *)
(* does not allow or one whose handler fails, or a reply cannot be sent.     *)
DropClient(c) ==
    /\ phase = "running"
    /\ ClientDisconnect(c)

(* serverShutdown clears running and waits for the event loop, then for the  *)
(* thread of every game that runs.  pacplayMain may not return, and then     *)
(* nothing below happens.                                                    *)
Shutdown ==
    /\ phase = "running"
    /\ phase' = "stopping"
    /\ UNCHANGED <<sessionVars, activeRooms, activeGameRooms, roomDB,
                   gameRoomDB, totpDB>>

GamesAreOver ==
    \A g \in DOMAIN activeGameRooms : ~activeGameRooms[g].gameRunning

(* serverCleanup disconnects the clients one after another.                  *)
CleanupClient(c) ==
    /\ phase = "stopping" /\ GamesAreOver
    /\ ClientDisconnect(c)

(* It frees what rooms are left and destroys the download pool.              *)
CleanupRooms ==
    /\ phase = "stopping" /\ GamesAreOver
    /\ \A c \in Clients : state[c] = "Closed"
    /\ phase' = "destroying"
    /\ UNCHANGED <<sessionVars, activeRooms, activeGameRooms, roomDB,
                   gameRoomDB, totpDB>>

(* The pool's threads were joined, if they ended (DownloadPool), and the     *)
(* databases are closed.                                                     *)
CleanupDone ==
    /\ phase = "destroying"
    /\ phase' = "stopped"
    /\ UNCHANGED <<sessionVars, activeRooms, activeGameRooms, roomDB,
                   gameRoomDB, totpDB>>

(* The process starts over, after a shutdown or after a crash at any moment, *)
(* one that hangs among them: only the databases survive.                    *)
Launch ==
    /\ phase' = "running"
    /\ state' = [c \in Clients |-> "Closed"]
    /\ uid' = [c \in Clients |-> NoUid]
    /\ currentRoomId' = [c \in Clients |-> NoRoom]
    /\ currentGameRoomId' = [c \in Clients |-> NoRoom]
    /\ activeRooms' = <<>>
    /\ activeGameRooms' = <<>>
    /\ UNCHANGED <<roomDB, gameRoomDB, totpDB>>

Request(c) ==
    \/ AcceptClient(c)
    \/ KeyExchange(c)
    \/ \E u \in Uids : Login(c, u)
    \/ TOTPSetup(c)
    \/ \E codeIsRight \in BOOLEAN : TOTPVerify(c, codeIsRight)
    \/ \E r \in RoomIds : RoomCreate(c, r) \/ RoomJoin(c, r)
    \/ RoomQuit(c)
    \/ \E g \in GameRoomIds, created \in BOOLEAN : GameRoomCreate(c, g, created)
    \/ \E g \in GameRoomIds : GameRoomJoin(c, g) \/ GameRoomStart(c, g)
    \/ GameRoomQuit(c)
    \/ DropClient(c)

Next ==
    \/ \E c \in Clients : Request(c) \/ CleanupClient(c)
    \/ \E g \in GameRoomIds : GameThreadEnds(g)
    \/ Shutdown
    \/ CleanupRooms
    \/ CleanupDone
    \/ Launch

Spec == Init /\ [][Next]_vars

(* The steps that the server takes on its own, which is the loop of          *)
(* serverCleanup, are taken once they are due.  Requests are up to the       *)
(* clients, a game may run forever, and so may the join of the pool.         *)
FairSpec ==
    /\ Spec
    /\ WF_vars(CleanupRooms)
    /\ \A c \in Clients : WF_vars(CleanupClient(c))
=============================================================================
