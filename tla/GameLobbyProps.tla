--------------------------- MODULE GameLobbyProps ---------------------------
(* What GameLobby must satisfy.                                              *)
EXTENDS GameLobby

(* A page that waits for an answer is not waiting in vain: the answer is in  *)
(* the stream, or the request is still before the server, or the stream has  *)
(* ended.  Each request takes one packet and quits take none, although the   *)
(* server answers a quit only in some states (server.c:630, gameRoom.c:356), *)
(* so what goes wrong with an answer never blocks the client for good; until *)
(* a game was launched, whose IO thread takes answers as well.               *)
NobodyWaitsInVain ==
    \A c \in Clients :
        ui[c].waiting # NoRequest /\ ~client[c].io =>
            inbox[c] # <<>> \/ out[c] # <<>> \/ state[c] = "Closed"

(* Nothing is under way between c and the server.                            *)
Settled(c) ==
    /\ ui[c].page # "gone"
    /\ ui[c].waiting = NoRequest
    /\ inbox[c] = <<>>
    /\ out[c] = <<>>
    /\ state[c] # "Closed"

(* How often the user u sits in a list of members.                           *)
Seats(members, u) == Cardinality({i \in DOMAIN members : members[i] = u})

(* Another member of c's room has its dissolution under way: the event loop  *)
(* waits for the game thread, c was told and the server has c in the room    *)
(* (gameRoom.c:146-151).  That lasts as long as the game does.              *)
BeingDissolved(c) ==
    /\ loop \in Clients \ {c}
    /\ currentGameRoomId[c] # NoRoom
    /\ currentGameRoomId[loop] = currentGameRoomId[c]

(* The room c has been told of.                                              *)
RoomOf(c) == IF BeingDissolved(c) THEN NoRoom ELSE currentGameRoomId[c]

(* Once everything sent has arrived, client and server agree on the room the *)
(* client is in, and a guest shows the members the server has, a user on two *)
(* sessions twice: joins, quits, dissolutions and moves to another room may  *)
(* overtake the answers in any way, as long as no packet with news went to a *)
(* reader that drops it.  They disagree in one case: the clients of a room   *)
(* that is dissolved while its game runs show no room, and the server keeps  *)
(* them in it until the game has returned.  In a room of three seats the     *)
(* members are in the same order; in a larger one the client takes the first *)
(* of two seats of a user away when the second is left, which moves those in *)
(* between.                                                                  *)
ClientKnowsItsRoom ==
    \A c \in Clients :
        Settled(c) /\ lost[c] = 0 =>
            /\ client[c].room = RoomOf(c)
            /\ RoomOf(c) # NoRoom =>
                 LET m     == activeGameRooms[RoomOf(c)].members
                     seats == [i \in DOMAIN m |-> uid[m[i]]]
                 IN  m[1] # c =>
                       /\ \A u \in Uids : Seats(client[c].members, u) = Seats(seats, u)
                       /\ MaxMembers <= 3 => client[c].members = seats

-----------------------------------------------------------------------------
(* What makes NobodyWaitsInVain so.                                          *)
Users == Uids \cup {NoUid}

(* What the server sends of game rooms.                                      *)
Packets ==
    [type : {"ListResp"}]
        \cup [type : {"CreateResp"}, room : GameRoomIds \cup {NoRoom}]
        \cup [type : {"JoinResp", "QuitResp", "StartResp"}, ok : BOOLEAN]
        \cup [type : {"MemberList"}, uids : Seq(Users)]
        \cup [type : {"MemberJoin"}, uid : Users]
        \cup [type : {"MemberQuit"}, uid : Users, dissolved : BOOLEAN]

Pages ==
    [page : {"home", "lobby", "game", "gone"}, due : BOOLEAN,
     waiting : Requests \cup {NoRequest}, joined : GameRoomIds \cup {NoRoom}, host : BOOLEAN]
ClientStates ==
    [room : GameRoomIds \cup {NoRoom}, members : Seq(Users), started : BOOLEAN, io : BOOLEAN]

(* The types of the two streams and of what a client keeps.                  *)
LobbyTypes ==
    /\ out \in [Clients -> Seq(Requests)] /\ inbox \in [Clients -> Seq(Packets)]
    /\ ui \in [Clients -> Pages] /\ client \in [Clients -> ClientStates]
    /\ lost \in [Clients -> Nat] /\ drawn \subseteq GameRoomIds

(* The answer that ends the wait is there or will be made: only a quit may   *)
(* be taken without an answer.                                               *)
WaitInv ==
    \A c \in Clients :
        /\ ui[c].page = "gone" => ui[c].waiting = NoRequest
        /\ ui[c].waiting # NoRequest /\ ~client[c].io /\ state[c] # "Closed" =>
              inbox[c] # <<>> \/ \E i \in DOMAIN out[c] : out[c][i].kind # "Quit"

(* The room g is one that c made: c is in it as long as it is there.         *)
OwnRoom(c, g) ==
    /\ g \in drawn
    /\ g \in DOMAIN activeGameRooms =>
          currentGameRoomId[c] = g /\ activeGameRooms[g].hostUid = uid[c]

(* A client starts no game but in a room it made, so that it is one of those *)
(* who hear of the start.                                                    *)
HostInv ==
    /\ DOMAIN activeGameRooms \subseteq drawn
    /\ \A c \in Clients :
         /\ ui[c].host /\ ui[c].joined # NoRoom => OwnRoom(c, ui[c].joined)
         /\ \A p \in ToSet(inbox[c]) :
              p.type = "CreateResp" /\ p.room # NoRoom => OwnRoom(c, p.room)
         /\ \A q \in ToSet(out[c]) : q.kind = "Start" => OwnRoom(c, q.room)

LobbyInv == LobbyTypes /\ WaitInv /\ HostInv

-----------------------------------------------------------------------------
(* What makes ClientKnowsItsRoom so.                                         *)
(* The request the lobby page makes of its own accord.                       *)
Listing == Ask("List", NoRoom)

(* What c shows, and the request whose answer it reads next.  Off the lobby  *)
(* page no update reads packets, and the next request will be for the list.  *)
Views == [room : GameRoomIds \cup {NoRoom}, members : Seq(Users),
          asks : Requests \cup {NoRequest}, joined : GameRoomIds \cup {NoRoom}]
View(c) ==
    [room    |-> client[c].room,
     members |-> client[c].members,
     asks    |-> IF ui[c].waiting # NoRequest THEN ui[c].waiting
                 ELSE IF ui[c].page = "lobby" THEN NoRequest ELSE Listing,
     joined  |-> IF ui[c].page = "lobby" THEN ui[c].joined ELSE NoRoom]

(* The packets that answer no request; to a reader in the state v, a packet  *)
(* that says something (News).                                               *)
Notice(p) ==
    \/ p.type \in {"MemberList", "MemberJoin", "MemberQuit"}
    \/ p.type = "StartResp" /\ p.ok
Tells(v, p) ==
    \/ Notice(p)
    \/ p.type = "JoinResp" /\ p.ok
    \/ p.type = "CreateResp" /\ <<p.room, v.room>> # <<NoRoom, NoRoom>>

(* What v becomes when the update of the lobby page takes the notice p, as   *)
(* in Polled and Launches.                                                   *)
Launched(v) == [v EXCEPT !.asks = Listing, !.joined = NoRoom]
Shown(v, p) ==
    CASE p.type = "MemberList" -> [v EXCEPT !.members = p.uids]
      [] p.type = "MemberJoin" -> [v EXCEPT !.members = Append(@, p.uid)]
      [] p.type = "MemberQuit" /\ p.dissolved -> [v EXCEPT !.members = <<>>, !.room = NoRoom]
      [] p.type = "MemberQuit" /\ ~p.dissolved -> [v EXCEPT !.members = RemoveFirst(@, p.uid)]
      [] p.type = "StartResp" -> Launched(v)

(* What follows a failed request: the list is asked for again, or nothing.   *)
NextAsk(v) == IF v.asks.kind \in {"Create", "Join"} THEN Listing ELSE NoRequest

(* The ways to read p in the state v and lose no news: p says nothing, and   *)
(* ends a request or is taken by the update or the IO thread; the update     *)
(* shows it; it is the answer v asks for.                                    *)
SkipsOver(v, p, w) ==
    /\ ~Tells(v, p)
    /\ \/ w = v
       \/ v.asks # NoRequest /\ w = [v EXCEPT !.asks = NextAsk(v)]
Shows(v, p, w) ==
    /\ v.asks = NoRequest /\ Notice(p)
    /\ w = Shown(v, p)
IsAnswered(v, p, w) ==
    /\ v.asks # NoRequest
    /\ p.type = Expected(v.asks.kind)
    /\ \/ /\ v.asks.kind = "Create" /\ p.room # NoRoom
          /\ w = [v EXCEPT !.room = p.room, !.joined = p.room, !.asks = Listing]
       \/ /\ v.asks.kind = "Join" /\ p.ok
          /\ w = [v EXCEPT !.room = v.asks.room, !.joined = v.asks.room,
                           !.asks = NoRequest]
       \/ /\ v.asks.kind = "Start" /\ p.ok
          /\ w = Launched(v)
Reads(v, p, w) == SkipsOver(v, p, w) \/ Shows(v, p, w) \/ IsAnswered(v, p, w)

(* The packets of the stream s take v to w.                                  *)
Reaches(v, s, w) ==
    \E h \in [1..(Len(s) + 1) -> Views] :
        /\ h[1] = v /\ h[Len(s) + 1] = w
        /\ \A i \in 1..Len(s) : Reads(h[i], s[i], h[i + 1])

(* The users of the members m, and whether v shows c the room g with the     *)
(* members m, as the server has it.                                          *)
UsersOf(m) == [i \in DOMAIN m |-> uid[m[i]]]
Agrees(c, v, g, m) ==
    /\ v.room = g
    /\ g # NoRoom /\ m[1] # c =>
         /\ \A u \in Uids : Seats(v.members, u) = Seats(UsersOf(m), u)
         /\ MaxMembers <= 3 => v.members = UsersOf(m)

(* What a client shows that has read its whole stream, with its requests     *)
(* still before the server, where its session is in the state st: what the   *)
(* server has, unless it will leave its room; and a room it asked to join is *)
(* not the one it is in.                                                     *)
QuitSent(c) == \E q \in ToSet(out[c]) : q.kind = "Quit"
EndsAt(c, v, g, m, st) ==
    /\ IF QuitSent(c) THEN v.room = NoRoom /\ v.asks # NoRequest
       ELSE Agrees(c, v, g, m) /\ (st = "SessionGameRoomLobby" => v.joined = g)
    /\ \A q \in ToSet(out[c]) : q.kind = "Join" =>
         /\ q.room \notin {v.joined, NoRoom}
         /\ v.asks # NoRequest /\ v.asks.kind = "Join" => v.asks = q
StateOf(c) == IF BeingDissolved(c) THEN "SessionRoom" ELSE state[c]
EndOK(c, v) == EndsAt(c, v, RoomOf(c), activeGameRooms[RoomOf(c)].members, StateOf(c))

(* The answers in the stream s: none, one to a request of the kinds K, or    *)
(* one of K and then one of L.                                               *)
AnswersTo(p, K) == ~Notice(p) /\ \E k \in K : p.type = Expected(k)
None(s)   == \A i \in DOMAIN s : Notice(s[i])
One(s, K) == \E i \in DOMAIN s :
    /\ AnswersTo(s[i], K)
    /\ \A j \in DOMAIN s \ {i} : Notice(s[j])
Two(s, K, L) == \E i, j \in DOMAIN s :
    /\ i < j /\ AnswersTo(s[i], K) /\ AnswersTo(s[j], L)
    /\ \A n \in DOMAIN s \ {i, j} : Notice(s[n])

(* At most one request is before the server or has its answer in the stream  *)
(* s besides the one w that is waited for: a quit, or one whose wait another *)
(* answer has ended.  There is none on a lobby page that has joined a room.  *)
Stale     == {"List", "Quit", "Start"}
Before(w) == IF w.kind = "List" THEN Kinds ELSE Stale
Owes(w, bound, s, o) ==
    IF w = NoRequest
    THEN \/ None(s) /\ o = <<>>
         \/ ~bound /\ One(s, Stale) /\ o = <<>>
         \/ ~bound /\ None(s) /\ \E q \in Requests : q.kind \in Stale /\ o = <<q>>
    ELSE \/ None(s) /\ o = <<>>
         \/ One(s, {w.kind}) /\ o = <<>>
         \/ None(s) /\ o = <<w>>
         \/ /\ ~bound /\ w.kind # "Start"
            /\ \/ Two(s, Before(w), {w.kind}) /\ o = <<>>
               \/ One(s, Before(w)) /\ o = <<w>>
               \/ None(s) /\ \E q \in Requests : q.kind \in Before(w) /\ o = <<q, w>>

(* c shows the lobby page of a room it has joined.                           *)
Bound(c) == ui[c].page = "lobby" /\ ui[c].joined # NoRoom

(* What c waits for is owed to it, and little else.                          *)
Shape(c) ==
    /\ ~client[c].started
    /\ ui[c].waiting # NoRequest => ui[c].page = "lobby" /\ ui[c].waiting.kind # "Quit"
    /\ Owes(ui[c].waiting, Bound(c), inbox[c], out[c])

(* A client that is there and has lost no news.                              *)
Live(c) == lost[c] = 0 /\ ui[c].page # "gone" /\ state[c] # "Closed"

(* Each way to read its stream, that loses no news, ends as it should.       *)
Knows(c) ==
    Live(c) =>
        /\ Shape(c)
        /\ \A v \in Views : Reaches(View(c), inbox[c], v) => EndOK(c, v)

(* The first seat of a room is of the host's user, who dissolves it.         *)
FirstIsHost ==
    \A g \in DOMAIN activeGameRooms :
        activeGameRooms[g].hostUid = uid[activeGameRooms[g].members[1]]

(* Who holds up the event loop is of the host's user, and in the room.       *)
TheHostDissolves ==
    loop \in Clients =>
        /\ currentGameRoomId[loop] \in DOMAIN activeGameRooms
        /\ activeGameRooms[currentGameRoomId[loop]].hostUid = uid[loop]

(* Whatever the stream of a client leads to, it ends with what the server    *)
(* has, or has told of (Knows), as long as the client loses no news on the   *)
(* way: that is about every packet under way, and so it is kept by every     *)
(* step.                                                                     *)
KnowInv == FirstIsHost /\ TheHostDissolves /\ \A c \in Clients : Knows(c)

-----------------------------------------------------------------------------
(* The game thread never uses a room that was freed: either the room is      *)
(* still there, or the thread is past its last use of it.  The event loop    *)
(* joins the thread only if it still sees gameRunning, so the thread must    *)
(* not clear that flag before it is done (gameRunner.c:181).                 *)
NoUseOfFreedRoom ==
    \A g \in GameRoomIds :
        thread[g] # "none" => g \in DOMAIN activeGameRooms

(* What makes it so, and the proofs are about: while a game thread may still *)
(* use its room, the room says that its game is running, or the event loop   *)
(* has cleared the flag itself and waits for the thread.                     *)
ThreadInv ==
    /\ thread \in [GameRoomIds -> ThreadSteps]
    /\ loop \in Clients \cup {NoClient}
    /\ \A g \in GameRoomIds : thread[g] # "none" =>
         /\ g \in DOMAIN activeGameRooms
         /\ \/ activeGameRooms[g].gameRunning
            \/ loop \in Clients /\ currentGameRoomId[loop] = g
=============================================================================
