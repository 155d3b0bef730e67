---------------------------- MODULE RoomService ----------------------------
(***************************************************************************)
(* What the room side of the server promises its users, without arrays,    *)
(* ids inside sessions or databases: a client is in at most one place, a   *)
(* chat room or a game room; it changes place alone, except that a game    *)
(* room closes on everybody when a client of its host's user leaves; a     *)
(* game room fills up only before its game starts.  SessionServer is shown *)
(* to implement this.                                                      *)
(***************************************************************************)
EXTENDS Naturals, FiniteSets

CONSTANTS Clients, Uids, RoomIds, GameRoomIds, MaxMembers, Nowhere, NoUid

VARIABLES
    who,        \* the user of each client
    place,      \* where each client is
    host,       \* game room :> user, for the open game rooms
    playing     \* the open game rooms whose game was started

vars == <<who, place, host, playing>>

Chat(r) == <<"chat", r>>
Game(g) == <<"game", g>>
Places  == {Nowhere} \cup {Chat(r) : r \in RoomIds}
                     \cup {Game(g) : g \in GameRoomIds}

In(p) == {c \in Clients : place[c] = p}

Init ==
    /\ who = [c \in Clients |-> NoUid]
    /\ place = [c \in Clients |-> Nowhere]
    /\ host = <<>>
    /\ playing = {}

(* The game rooms that close when c leaves its place.                       *)
Closing(c) ==
    {g \in DOMAIN host : place[c] = Game(g) /\ host[g] = who[c]}

(* Where everybody is once c went to p.                                     *)
Moved(c, p) ==
    [d \in Clients |-> IF d = c THEN p
                       ELSE IF \E g \in Closing(c) : place[d] = Game(g)
                            THEN Nowhere ELSE place[d]]

Without(S) == [g \in DOMAIN host \ S |-> host[g]]

(* c leaves, or fails to enter another place after it left.                 *)
Leave(c) ==
    /\ place' = Moved(c, Nowhere)
    /\ host' = Without(Closing(c))
    /\ playing' = playing \ Closing(c)
    /\ who' \in {who, [who EXCEPT ![c] = NoUid]}

EnterChat(c, r) ==
    /\ Cardinality(In(Chat(r)) \ {c}) < MaxMembers
    /\ place' = Moved(c, Chat(r))
    /\ host' = Without(Closing(c))
    /\ playing' = playing \ Closing(c)
    /\ UNCHANGED who

OpenGame(c, g) ==
    /\ g \notin DOMAIN host \ Closing(c)
    /\ place' = Moved(c, Game(g))
    /\ host' = [h \in (DOMAIN host \ Closing(c)) \cup {g} |->
                  IF h = g THEN who[c] ELSE host[h]]
    /\ playing' = playing \ Closing(c)
    /\ UNCHANGED who

EnterGame(c, g) ==
    /\ g \in DOMAIN host \ Closing(c)
    /\ g \notin playing
    /\ Cardinality(In(Game(g)) \ {c}) < MaxMembers
    /\ place' = Moved(c, Game(g))
    /\ host' = Without(Closing(c))
    /\ playing' = playing \ Closing(c)
    /\ UNCHANGED who

(* Only a client of the host's user starts the game.                        *)
StartGame(c, g) ==
    /\ g \in DOMAIN host \ playing
    /\ host[g] = who[c]
    /\ playing' = playing \cup {g}
    /\ UNCHANGED <<who, place, host>>

(* A user may be changed only outside the game rooms.                       *)
ChangeUser(c, u) ==
    /\ \A g \in GameRoomIds : place[c] # Game(g)
    /\ who' = [who EXCEPT ![c] = u]
    /\ UNCHANGED <<place, host, playing>>

Reset ==
    /\ who' = [c \in Clients |-> NoUid]
    /\ place' = [c \in Clients |-> Nowhere]
    /\ host' = <<>>
    /\ playing' = {}

Next ==
    \/ \E c \in Clients :
         \/ Leave(c)
         \/ \E r \in RoomIds : EnterChat(c, r)
         \/ \E g \in GameRoomIds :
              OpenGame(c, g) \/ EnterGame(c, g) \/ StartGame(c, g)
         \/ \E u \in Uids : ChangeUser(c, u)
    \/ Reset

Spec == Init /\ [][Next]_vars
=============================================================================
