------------------------------ MODULE GameLobby ------------------------------
(***************************************************************************)
(* The game rooms end to end: the handlers of SessionServer, the packets   *)
(* they send, the lobby page of the client with its blocking requests      *)
(* (mainPage.c, client/gameRoom.c), the client's IO thread (connection.c)  *)
(* and the game thread of a room, step by step (gameRunner.c).             *)
(*                                                                         *)
(* A client has one stream.  A request takes the next packet of it for its *)
(* answer, whatever it is; the lobby page takes one packet each frame; and *)
(* once a game was launched a thread takes packets as well and keeps none  *)
(* but game data.  Rooms, game data and lists are for one game.            *)
(*                                                                         *)
(* A handler is one step, but for the join of a game thread: the members   *)
(* hear that their room is dissolved, and then the event loop is held up,  *)
(* for ever if the game does not return, between StopGame and the rest of  *)
(* the handler.  Nobody is in a chat room.  No game data is sent: the SDK  *)
(* object a client launches has no game attached to it.                    *)
(***************************************************************************)
EXTENDS SessionServer

CONSTANTS
    NoClient,       \* nobody holds up the event loop
    NoRequest,      \* the page is not waiting for an answer
    MaxLost,        \* bound: a user presses on until this much news was lost
    MaxStream       \* bound: nobody asks while a stream holds more packets,
                    \* or a stale list more members than a room has seats

Kinds    == {"List", "Create", "Join", "Quit", "Start"}
Requests == [kind : Kinds, room : GameRoomIds \cup {NoRoom}]
Ask(k, g) == [kind |-> k, room |-> g]

ASSUME GameLobbyAssumption ==
    /\ NoClient \notin Clients
    /\ NoRequest \notin Requests
    /\ MaxLost \in Nat \ {0}
    /\ MaxStream \in Nat

VARIABLES
    out,        \* requests sent and not read by the server yet
    inbox,      \* packets sent and not read by the client yet
    ui,         \* the page, the request it waits for, gameRoomJoinedId,
                \* gameRoomIsHost; due: a key was handled, the update is next
    client,     \* currentGameRoomId, roomMembers, gameStarted, and whether
                \* an IO thread runs
    lost,       \* history: how many packets with news each client dropped
    thread,     \* gameRoomThreadFunc of each room
    drawn,      \* the ids of all rooms so far: 32 random bits do not repeat
    loop        \* whose request or disconnection waits for a game thread

lobbyVars == <<out, inbox, ui, client, lost, thread, drawn, loop>>
serverVars == vars
allVars   == <<vars, lobbyVars>>

Status(t, ok)    == [type |-> t, ok |-> ok]
ListResp         == [type |-> "ListResp"]
CreateResp(g)    == [type |-> "CreateResp", room |-> g]
MembersAre(us)   == [type |-> "MemberList", uids |-> us]
Joined(u)        == [type |-> "MemberJoin", uid |-> u]
Quitted(u)       == [type |-> "MemberQuit", uid |-> u, dissolved |-> FALSE]
Dissolved        == [type |-> "MemberQuit", uid |-> NoUid, dissolved |-> TRUE]

(* gameRoomThreadFunc, by what it does next.  "none": not started, or past   *)
(* its last use of the room.                                                 *)
ThreadSteps == {"none", "loading", "playing", "destroying", "ending"}

LobbyInit ==
    /\ phase = "running"
    /\ state = [c \in Clients |-> "SessionRoom"]
    /\ uid \in [Clients -> Uids]
    /\ currentRoomId = [c \in Clients |-> NoRoom]
    /\ currentGameRoomId = [c \in Clients |-> NoRoom]
    /\ activeRooms = <<>>
    /\ activeGameRooms = <<>>
    /\ roomDB = {} /\ gameRoomDB = {} /\ totpDB = {}
    /\ out = [c \in Clients |-> <<>>]
    /\ inbox = [c \in Clients |-> <<>>]
    /\ ui = [c \in Clients |-> [page |-> "home", due |-> FALSE,
                                waiting |-> NoRequest, joined |-> NoRoom,
                                host |-> FALSE]]
    /\ client = [c \in Clients |-> [room |-> NoRoom, members |-> <<>>,
                                    started |-> FALSE, io |-> FALSE]]
    /\ lost = [c \in Clients |-> 0]
    /\ thread = [g \in GameRoomIds |-> "none"]
    /\ drawn = {}
    /\ loop = NoClient

-----------------------------------------------------------------------------
(* What the server sends.  news is a function from clients to the packets    *)
(* each of them gets; a client that is gone gets none.                       *)
Send(news) ==
    inbox' = [d \in Clients |-> IF ui[d].page = "gone" THEN <<>>
                                ELSE inbox[d] \o news[d]]

Silence == [d \in Clients |-> <<>>]
To(c, packets) == [Silence EXCEPT ![c] = packets]
Then(a, b) == [d \in Clients |-> a[d] \o b[d]]

(* broadcastToRoom: once for every seat that is not c's.                     *)
Broadcast(members, c, packet) ==
    [d \in Clients |-> [i \in 1..Cardinality({k \in DOMAIN members : members[k] = d /\ d # c})
                          |-> packet]]

(* serverRemoveClientFromGameRoom: what the others hear when c leaves.       *)
LeaveNews(c) ==
    LET g == currentGameRoomId[c]
    IN  CASE g \notin DOMAIN activeGameRooms -> Silence
          [] g \in DOMAIN activeGameRooms /\ activeGameRooms[g].hostUid = uid[c] ->
               Broadcast(activeGameRooms[g].members, c, Dissolved)
          [] g \in DOMAIN activeGameRooms /\ activeGameRooms[g].hostUid # uid[c] ->
               Broadcast(RemoveFirst(activeGameRooms[g].members, c), NoClient,
                         Quitted(uid[c]))

(* Leaving takes the room away, and its game has to be stopped for that.     *)
MustStopGame(c) ==
    LET g == currentGameRoomId[c]
    IN  /\ g \in DOMAIN activeGameRooms
        /\ activeGameRooms[g].gameRunning
        /\ g \notin DOMAIN LeaveGameRoom(c).rooms

Head1(c) == Head(out[c])

(* processClient: what a session of each state may ask for.  Anything else   *)
(* makes processClient fail.                                                 *)
Accepted(c) ==
    CASE state[c] = "SessionRoom"          -> TRUE
      [] state[c] = "SessionGameRoomLobby" -> TRUE
      [] state[c] = "SessionGameRoomPlay"  ->
           Head1(c).kind \in {"List", "Quit", "Start"}

(* The requests whose handler first makes c leave its room.                  *)
LeavesFirst(c) ==
    /\ state[c] \in {"SessionGameRoomLobby", "SessionGameRoomPlay"}
    /\ \/ Head1(c).kind \in {"Create", "Quit"}
       \/ Head1(c).kind = "Join" /\ Joinable(activeGameRooms, Head1(c).room)
       \/ ~Accepted(c)

(* serverDissolveGameRoom up to the pthread_join of gameRoomStopGame: the    *)
(* members hear of it, gameRunning is cleared and the event loop waits for   *)
(* the thread.  The sessions are in the room until it has ended.             *)
StopGame(c) ==
    /\ loop = NoClient
    /\ state[c] # "Closed"
    /\ MustStopGame(c)
    /\ \/ out[c] # <<>> /\ LeavesFirst(c)
       \/ out[c] = <<>> /\ ui[c].page = "gone"
    /\ loop' = c
    /\ activeGameRooms' =
         [activeGameRooms EXCEPT ![currentGameRoomId[c]].gameRunning = FALSE]
    /\ Send(LeaveNews(c))
    /\ UNCHANGED <<phase, sessionVars, activeRooms, roomDB, gameRoomDB, totpDB,
                   out, ui, client, lost, thread, drawn>>

(* What is left to be sent when the handler of c leaves the room of c: of a  *)
(* dissolution that waited for the game thread the others have heard.        *)
NewsOfLeaving(c) == IF loop = c THEN Silence ELSE LeaveNews(c)

(* The event loop handles what makes c leave its room: no game has to be     *)
(* stopped for it, or the game thread it waited for has been joined.         *)
MayLeave(c) ==
    \/ loop = NoClient /\ ~MustStopGame(c)
    \/ loop = c /\ thread[currentGameRoomId[c]] = "none"

Handled(c) ==
    /\ out' = [out EXCEPT ![c] = Tail(@)]
    /\ loop' = NoClient
    /\ UNCHANGED <<ui, client, lost>>

Takes(c, kind) ==
    /\ out[c] # <<>>
    /\ state[c] # "Closed"
    /\ Accepted(c)
    /\ Head1(c).kind = kind

(* serverHandleGameRoomList *)
ServeList(c) ==
    /\ Takes(c, "List")
    /\ loop = NoClient
    /\ Send(To(c, <<ListResp>>))
    /\ Handled(c)
    /\ UNCHANGED <<serverVars, thread, drawn>>

(* serverHandleGameRoomCreate: the creator gets an answer and no list.       *)
ServeCreate(c, g, created) ==
    /\ Takes(c, "Create")
    /\ MayLeave(c)
    /\ g \notin drawn
    /\ GameRoomCreate(c, g, created)
    /\ drawn' = IF created THEN drawn \cup {g} ELSE drawn
    /\ Send(Then(NewsOfLeaving(c),
                 To(c, <<CreateResp(IF created THEN g ELSE NoRoom)>>)))
    /\ Handled(c)
    /\ UNCHANGED thread

(* serverHandleGameRoomJoin past its tests: the answer, the list for c, the  *)
(* news for the others.                                                      *)
ServeJoin(c) ==
    LET g  == Head1(c).room
        at == activeGameRooms'[g].members
        ok == Joinable(LeaveGameRoom(c).rooms, g)
    IN  /\ Takes(c, "Join")
        /\ MayLeave(c)
        /\ GameRoomJoin(c, g)
        /\ Send(Then(NewsOfLeaving(c),
                     IF ~ok THEN To(c, <<Status("JoinResp", FALSE)>>)
                     ELSE Then(To(c, <<Status("JoinResp", TRUE),
                                       MembersAre([i \in DOMAIN at |-> uid[at[i]]])>>),
                               Broadcast(at, c, Joined(uid[c])))))
        /\ Handled(c)
        /\ UNCHANGED <<thread, drawn>>

RefuseJoin(c) ==
    /\ Takes(c, "Join")
    /\ loop = NoClient
    /\ ~Joinable(activeGameRooms, Head1(c).room)
    /\ Send(To(c, <<Status("JoinResp", FALSE)>>))
    /\ Handled(c)
    /\ UNCHANGED <<serverVars, thread, drawn>>

(* serverHandleGameRoomQuit, of a session that is in a game room.            *)
ServeQuit(c) ==
    /\ Takes(c, "Quit")
    /\ MayLeave(c)
    /\ GameRoomQuit(c)
    /\ Send(Then(NewsOfLeaving(c), To(c, <<Status("QuitResp", TRUE)>>)))
    /\ Handled(c)
    /\ UNCHANGED <<thread, drawn>>

(* In SessionRoom a quit is taken and not answered.                          *)
IgnoreQuit(c) ==
    /\ Takes(c, "Quit")
    /\ loop = NoClient
    /\ state[c] = "SessionRoom"
    /\ Send(Silence)
    /\ Handled(c)
    /\ UNCHANGED <<serverVars, thread, drawn>>

(* serverHandleGameRoomStart: every member hears of it, the host with them.  *)
ServeStart(c) ==
    LET g == Head1(c).room
    IN  /\ Takes(c, "Start")
        /\ loop = NoClient
        /\ GameRoomStart(c, g)
        /\ thread' = [thread EXCEPT ![g] = "loading"]
        /\ Send(Broadcast(activeGameRooms[g].members, NoClient,
                          Status("StartResp", TRUE)))
        /\ Handled(c)
        /\ UNCHANGED drawn

(* A start that is refused: not the host, already started, no such game, or  *)
(* a session that is in no lobby.                                            *)
RefuseStart(c) ==
    /\ Takes(c, "Start")
    /\ loop = NoClient
    /\ Send(To(c, <<Status("StartResp", FALSE)>>))
    /\ Handled(c)
    /\ UNCHANGED <<serverVars, thread, drawn>>

(* clientDisconnect, after a request the state does not accept or once the   *)
(* client has closed its end.                                                *)
ServerDrops(c) ==
    /\ MayLeave(c)
    /\ \/ out[c] # <<>> /\ state[c] # "Closed" /\ ~Accepted(c)
       \/ out[c] = <<>> /\ ui[c].page = "gone"
    /\ DropClient(c)
    /\ Send(NewsOfLeaving(c))
    /\ out' = [out EXCEPT ![c] = <<>>]
    /\ loop' = NoClient
    /\ UNCHANGED <<ui, client, lost, thread, drawn>>

-----------------------------------------------------------------------------
(* gameRoomThreadFunc: dlopen and dlsym; without them the game is over.      *)
ThreadLoads(g) ==
    /\ thread[g] = "loading"
    /\ \E loaded \in BOOLEAN :
         thread' = [thread EXCEPT ![g] = IF loaded THEN "playing" ELSE "destroying"]
    /\ UNCHANGED <<serverVars, out, inbox, ui, client, lost, drawn, loop>>

(* pacplayMain returns; the library is closed.                               *)
GameReturns(g) ==
    /\ thread[g] = "playing"
    /\ thread' = [thread EXCEPT ![g] = "destroying"]
    /\ UNCHANGED <<serverVars, out, inbox, ui, client, lost, drawn, loop>>

(* The room is told that its game is over.                                   *)
ClearRunning(g) ==
    activeGameRooms' = IF g \in DOMAIN activeGameRooms
                       THEN [activeGameRooms EXCEPT ![g].gameRunning = FALSE]
                       ELSE activeGameRooms

(* Mutant of ThreadDestroysSdk: gameRunning is cleared before the SDK object *)
(* of the room is destroyed.                                                 *)
ThreadDestroysSdk_ClearsRunning(g) ==
    /\ thread[g] = "destroying"
    /\ thread' = [thread EXCEPT ![g] = "ending"]
    /\ ClearRunning(g)
    /\ UNCHANGED <<phase, sessionVars, activeRooms, roomDB, gameRoomDB, totpDB,
                   out, inbox, ui, client, lost, drawn, loop>>

(* pacplay_srv_destroy(gr->sdk), gr->sdk = NULL.                             *)
ThreadDestroysSdk(g) ==
    /\ thread[g] = "destroying"
    /\ thread' = [thread EXCEPT ![g] = "ending"]
    /\ UNCHANGED <<serverVars, out, inbox, ui, client, lost, drawn, loop>>

(* gr->gameRunning = false, the last time the thread touches the room.       *)
ThreadEnds(g) ==
    /\ thread[g] = "ending"
    /\ thread' = [thread EXCEPT ![g] = "none"]
    /\ ClearRunning(g)
    /\ UNCHANGED <<phase, sessionVars, activeRooms, roomDB, gameRoomDB, totpDB,
                   out, inbox, ui, client, lost, drawn, loop>>

-----------------------------------------------------------------------------
(* The client.  The user presses a button while no request is waiting, and   *)
(* the update of the page follows every key.  Once the server has closed the *)
(* session every request fails, and the user is only left to exit.           *)
Idle(c, page) ==
    /\ ui[c].page = page
    /\ ui[c].waiting = NoRequest
    /\ ~ui[c].due
    /\ state[c] # "Closed"
    /\ lost[c] < MaxLost
    /\ \A d \in Clients : /\ Len(inbox[d]) <= MaxStream
                           /\ Len(client[d].members) <= MaxMembers

(* A session that has just been closed takes no more requests.               *)
Post(c, requests) ==
    out' = [out EXCEPT ![c] = IF state[c] = "Closed" THEN @ ELSE @ \o requests]

(* homeOperPlayOnClick: to the lobby page, which asks for the list at once.  *)
PressPlay(c) ==
    /\ Idle(c, "home")
    /\ ui' = [ui EXCEPT ![c] = [page |-> "lobby", due |-> FALSE,
                                waiting |-> Ask("List", NoRoom),
                                joined |-> NoRoom, host |-> FALSE]]
    /\ Post(c, <<Ask("List", NoRoom)>>)
    /\ UNCHANGED <<serverVars, inbox, client, lost, thread, drawn, loop>>

WaitFor(c, request) ==
    /\ ui' = [ui EXCEPT ![c].waiting = request]
    /\ Post(c, <<request>>)
    /\ UNCHANGED <<serverVars, inbox, client, lost, thread, drawn, loop>>

PressRefresh(c) ==
    /\ Idle(c, "lobby")
    /\ WaitFor(c, Ask("List", NoRoom))

PressCreate(c) ==
    /\ Idle(c, "lobby")
    /\ WaitFor(c, Ask("Create", NoRoom))

(* gameRoomLobbyJoinOnClick.  The list may be old: any room may be selected. *)
PressJoin(c, g) ==
    /\ Idle(c, "lobby")
    /\ g # ui[c].joined
    /\ WaitFor(c, Ask("Join", g))

PressStart(c) ==
    /\ Idle(c, "lobby")
    /\ ui[c].host
    /\ ui[c].joined # NoRoom
    /\ WaitFor(c, Ask("Start", ui[c].joined))

(* Mutant of PressBack: clientGameRoomQuit waits for the answer to its       *)
(* request, as every other request does.                                     *)
PressBack_WaitsForAnswer(c) ==
    /\ Idle(c, "lobby")
    /\ ui[c].joined # NoRoom
    /\ client' = [client EXCEPT ![c].room = NoRoom]
    /\ ui' = [ui EXCEPT ![c].waiting = Ask("Quit", NoRoom)]
    /\ Post(c, <<Ask("Quit", NoRoom)>>)
    /\ UNCHANGED <<serverVars, inbox, lost, thread, drawn, loop>>

(* gameRoomLobbyBackOnClick, with clientGameRoomQuit: a quit is sent, and    *)
(* its answer is left in the stream.                                         *)
PressBack(c) ==
    /\ Idle(c, "lobby")
    /\ ui' = [ui EXCEPT ![c].page = "home", ![c].joined = NoRoom,
                        ![c].host = FALSE]
    /\ IF ui[c].joined = NoRoom
       THEN UNCHANGED <<client, out>>
       ELSE /\ client' = [client EXCEPT ![c].room = NoRoom]
            /\ Post(c, <<Ask("Quit", NoRoom)>>)
    /\ UNCHANGED <<serverVars, inbox, lost, thread, drawn, loop>>

(* backBtnOnClick of the game page: the game's process is stopped, the room  *)
(* is not left and the IO thread stays.                                      *)
PressBackFromGame(c) ==
    /\ Idle(c, "game")
    /\ ui' = [ui EXCEPT ![c].page = "home"]
    /\ UNCHANGED <<serverVars, out, inbox, client, lost, thread, drawn, loop>>

(* The client exits: its end is closed.                                      *)
Exit(c) ==
    /\ ui[c].page # "gone"
    /\ ui[c].waiting = NoRequest
    /\ ui' = [ui EXCEPT ![c] = [page |-> "gone", due |-> FALSE,
                                waiting |-> NoRequest, joined |-> NoRoom,
                                host |-> FALSE]]
    /\ client' = [client EXCEPT ![c] = [room |-> NoRoom, members |-> <<>>,
                                        started |-> FALSE, io |-> FALSE]]
    /\ inbox' = [inbox EXCEPT ![c] = <<>>]
    /\ lost' = [lost EXCEPT ![c] = 0]
    /\ UNCHANGED <<serverVars, out, thread, drawn, loop>>

-----------------------------------------------------------------------------
(* A packet that says something about the room c is in.  A creation that is  *)
(* refused does: the old room was left for it.                               *)
News(c, p) ==
    \/ p.type \in {"MemberList", "MemberJoin", "MemberQuit"}
    \/ p.type \in {"JoinResp", "StartResp"} /\ p.ok
    \/ p.type = "CreateResp" /\ <<p.room, client[c].room>> # <<NoRoom, NoRoom>>

Drops(c, p) == lost' = [lost EXCEPT ![c] = @ + (IF News(c, p) THEN 1 ELSE 0)]

(* The client reads the next packet.  At the end of a closed stream a read   *)
(* fails; on an open one it waits.                                           *)
Ends(c) == inbox[c] = <<>> /\ state[c] = "Closed"
Read(c) == inbox' = [inbox EXCEPT ![c] = Tail(@)]

(* clientLaunch: the IO thread starts; the game's page is shown.             *)
Launches(c) ==
    /\ client' = [client EXCEPT ![c].io = TRUE, ![c].started = FALSE]
    /\ ui' = [ui EXCEPT ![c].page = "game", ![c].waiting = NoRequest,
                        ![c].due = FALSE]

(* A request failed: its page stays and lists the rooms again, but for the   *)
(* list itself and the start.                                                *)
AfterRequest(c, relist) ==
    /\ ui' = [ui EXCEPT ![c].waiting = IF relist THEN Ask("List", NoRoom)
                                       ELSE NoRequest,
                        ![c].due = ~relist]
    /\ Post(c, IF relist THEN <<Ask("List", NoRoom)>> ELSE <<>>)

(* clientGameRoomList, clientGameRoomCreate and clientRecvStatusResponse     *)
(* take one packet, and drop it if it is not the answer they expect.         *)
Expected(kind) ==
    [List |-> "ListResp", Create |-> "CreateResp", Join |-> "JoinResp",
     Quit |-> "QuitResp", Start |-> "StartResp"][kind]

AnswerFails(c) ==
    LET req == ui[c].waiting
    IN  /\ req # NoRequest
        /\ IF Ends(c) THEN UNCHANGED <<inbox, lost>>
           ELSE LET p == Head(inbox[c])
                IN  /\ inbox[c] # <<>>
                    /\ \/ p.type # Expected(req.kind)
                       \/ p.type \in {"JoinResp", "StartResp"} /\ ~p.ok
                       \/ p.type = "CreateResp" /\ p.room = NoRoom
                    /\ Read(c)
                    /\ Drops(c, p)
        /\ AfterRequest(c, req.kind \in {"Create", "Join"})
        /\ UNCHANGED <<serverVars, client, thread, drawn, loop>>

(* The answer the page waits for is the next packet.                         *)
Answers(c, kind) ==
    /\ ui[c].waiting # NoRequest
    /\ ui[c].waiting.kind = kind
    /\ inbox[c] # <<>>
    /\ Head(inbox[c]).type = Expected(kind)
    /\ Read(c)
    /\ UNCHANGED <<serverVars, lost, thread, drawn, loop>>

ListAnswered(c) ==
    /\ Answers(c, "List")
    /\ AfterRequest(c, FALSE)
    /\ UNCHANGED client

(* gameRoomLobbyCreateOnClick: the creator lists the rooms at once.          *)
CreateAnswered(c) ==
    /\ Answers(c, "Create")
    /\ Head(inbox[c]).room # NoRoom
    /\ client' = [client EXCEPT ![c].room = Head(inbox[c]).room]
    /\ ui' = [ui EXCEPT ![c].waiting = Ask("List", NoRoom),
                        ![c].joined = Head(inbox[c]).room, ![c].host = TRUE]
    /\ Post(c, <<Ask("List", NoRoom)>>)

JoinAnswered(c) ==
    /\ Answers(c, "Join")
    /\ Head(inbox[c]).ok
    /\ client' = [client EXCEPT ![c].room = ui[c].waiting.room]
    /\ ui' = [ui EXCEPT ![c].waiting = NoRequest, ![c].due = TRUE,
                        ![c].joined = ui[c].waiting.room, ![c].host = FALSE]
    /\ UNCHANGED out

StartAnswered(c) ==
    /\ Answers(c, "Start")
    /\ Head(inbox[c]).ok
    /\ Launches(c)
    /\ UNCHANGED out

(* Mutant of Polled: a dissolution empties the list and keeps the room.      *)
Polled_KeepsDissolvedRoom(c, p) ==
    CASE p.type = "MemberList" -> [client[c] EXCEPT !.members = p.uids]
      [] p.type = "MemberJoin" -> [client[c] EXCEPT !.members = Append(@, p.uid)]
      [] p.type = "MemberQuit" /\ p.dissolved -> [client[c] EXCEPT !.members = <<>>]
      [] p.type = "MemberQuit" /\ ~p.dissolved ->
           [client[c] EXCEPT !.members = RemoveFirst(@, p.uid)]
      [] p.type = "StartResp" /\ p.ok -> [client[c] EXCEPT !.started = TRUE]
      [] OTHER -> client[c]

(* clientPollNotifications: what a packet does to the client.  A dissolution *)
(* does not say which room it is about, and gameRoomJoinedId is not touched. *)
Polled(c, p) ==
    CASE p.type = "MemberList" -> [client[c] EXCEPT !.members = p.uids]
      [] p.type = "MemberJoin" -> [client[c] EXCEPT !.members = Append(@, p.uid)]
      [] p.type = "MemberQuit" /\ p.dissolved ->
           [client[c] EXCEPT !.members = <<>>, !.room = NoRoom]
      [] p.type = "MemberQuit" /\ ~p.dissolved ->
           [client[c] EXCEPT !.members = RemoveFirst(@, p.uid)]
      [] p.type = "StartResp" /\ p.ok -> [client[c] EXCEPT !.started = TRUE]
      [] OTHER -> client[c]

(* gameRoomLobbyGridUpdate, once per frame: one packet if there is one, and  *)
(* the game is launched if it says so.                                       *)
Update(c) ==
    /\ ui[c].page = "lobby"
    /\ ui[c].waiting = NoRequest
    /\ IF inbox[c] = <<>>
       THEN /\ ui[c].due
            /\ ui' = [ui EXCEPT ![c].due = FALSE]
            /\ UNCHANGED <<inbox, client, lost>>
       ELSE LET p   == Head(inbox[c])
                now == Polled(c, p)
            IN  /\ Read(c)
                /\ IF p.type \in {"JoinResp", "CreateResp"} THEN Drops(c, p)
                   ELSE UNCHANGED lost
                /\ IF now.started THEN Launches(c)
                   ELSE /\ client' = [client EXCEPT ![c] = now]
                        /\ ui' = [ui EXCEPT ![c].due = FALSE]
    /\ UNCHANGED <<serverVars, out, thread, drawn, loop>>

(* clientEventLoop of the IO thread: it takes a packet and keeps none.       *)
IoReads(c) ==
    /\ client[c].io
    /\ inbox[c] # <<>>
    /\ Read(c)
    /\ Drops(c, Head(inbox[c]))
    /\ UNCHANGED <<serverVars, out, ui, client, thread, drawn, loop>>

-----------------------------------------------------------------------------
ServerStep(c) ==
    \/ StopGame(c) \/ ServeList(c)
    \/ \E g \in GameRoomIds, created \in BOOLEAN : ServeCreate(c, g, created)
    \/ ServeJoin(c) \/ RefuseJoin(c) \/ ServeQuit(c) \/ IgnoreQuit(c)
    \/ ServeStart(c) \/ RefuseStart(c) \/ ServerDrops(c)

ClientStep(c) ==
    \/ PressPlay(c) \/ PressRefresh(c) \/ PressCreate(c)
    \/ \E g \in GameRoomIds : PressJoin(c, g)
    \/ PressStart(c) \/ PressBack(c) \/ PressBackFromGame(c) \/ Exit(c)
    \/ AnswerFails(c) \/ ListAnswered(c) \/ CreateAnswered(c)
    \/ JoinAnswered(c) \/ StartAnswered(c) \/ Update(c) \/ IoReads(c)

LobbyNext ==
    \/ \E c \in Clients : ServerStep(c) \/ ClientStep(c)
    \/ \E g \in GameRoomIds :
         ThreadLoads(g) \/ GameReturns(g) \/ ThreadDestroysSdk(g) \/ ThreadEnds(g)

LobbySpec == LobbyInit /\ [][LobbyNext]_allVars
=============================================================================
