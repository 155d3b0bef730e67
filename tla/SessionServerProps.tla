------------------------- MODULE SessionServerProps -------------------------
(***************************************************************************)
(* The properties of SessionServer, and the refinement of RoomService.     *)
(***************************************************************************)
EXTENDS SessionServer

-----------------------------------------------------------------------------
(* Safety *)

(* server.c, room.c: the members array of an active chat room and the        *)
(* currentRoomId of the sessions always agree.  A member is a live session,  *)
(* sits in no other room and once in its array (or a broadcast would write   *)
(* to a freed session, or twice to one), and no room stays behind empty.     *)
ChatRoomsMatchSessions ==
    /\ \A c \in Clients, r \in RoomIds :
         currentRoomId[c] = r <=>
             r \in DOMAIN activeRooms /\ c \in Range(activeRooms[r])
    /\ \A r \in DOMAIN activeRooms :
         /\ IsInjective(activeRooms[r])
         /\ Len(activeRooms[r]) \in 1..MaxMembers
    /\ \A c \in Clients : state[c] = "Closed" => currentRoomId[c] = NoRoom

(* gameRoom.c: the same for the game rooms, whose phase is also that of each *)
(* of its members: nobody plays in a room that waits or waits in one that    *)
(* plays, and a session outside the game-room states is in no game room.     *)
GameRoomsMatchSessions ==
    /\ \A c \in Clients, g \in GameRoomIds :
         currentGameRoomId[c] = g <=>
             /\ g \in DOMAIN activeGameRooms
             /\ c \in Range(activeGameRooms[g].members)
    /\ \A g \in DOMAIN activeGameRooms :
         /\ IsInjective(activeGameRooms[g].members)
         /\ Len(activeGameRooms[g].members) \in 1..MaxMembers
         /\ \A c \in Range(activeGameRooms[g].members) :
              state[c] = IF activeGameRooms[g].state = "GameRoomPlaying"
                         THEN "SessionGameRoomPlay"
                         ELSE "SessionGameRoomLobby"
    /\ \A c \in Clients :
         state[c] \in {"SessionGameRoomLobby", "SessionGameRoomPlay"} <=>
             currentGameRoomId[c] # NoRoom

(* A session in a game room is in no chat room: its chat lines would go to   *)
(* people it no longer sees.                                                 *)
OnePlaceAtATime ==
    \A c \in Clients :
        currentGameRoomId[c] # NoRoom => currentRoomId[c] = NoRoom

(* gameRoom.c: a game room never outlives its host's user: somebody of that  *)
(* user is seated in every active game room, so it can always be started or  *)
(* dissolved.                                                                *)
HostSeated ==
    \A g \in DOMAIN activeGameRooms :
        \E c \in Range(activeGameRooms[g].members) :
            uid[c] = activeGameRooms[g].hostUid

(* Every active game room has its row, which is all that keeps the random    *)
(* generator from handing the same id out twice.                             *)
ActiveGameRoomsHaveRows == DOMAIN activeGameRooms \subseteq gameRoomDB

(* auth.c: past the login prompt a session has a user, so no room is ever    *)
(* hosted by, and no secret ever stored for, a user that does not exist.     *)
LoggedIn ==
    \A c \in Clients :
        state[c] \notin {"Closed", "SessionKeyExchange", "SessionLogin"} =>
            uid[c] \in Uids

RoomInv ==
    /\ ChatRoomsMatchSessions
    /\ GameRoomsMatchSessions
    /\ OnePlaceAtATime
    /\ HostSeated
    /\ ActiveGameRoomsHaveRows

(* What every step preserves, and the proofs are about.                      *)
IInv == TypeOK /\ LoggedIn /\ RoomInv

-----------------------------------------------------------------------------
(* Liveness *)

(* server.c:391, "rooms should be empty by now": a shutdown whose games have  *)
(* returned gets as far as the destruction of the download pool, and the     *)
(* loop that disconnects the clients one by one, in any order, has left no   *)
(* room of either kind, unless the process died and was launched again.      *)
(* Before that the shutdown may wait for a game for ever (server.c:286), and *)
(* after that for a thread of the pool (downloadPool.c:475).                 *)
ShutdownEmptiesRooms ==
    phase = "stopping" /\ GamesAreOver ~>
        \/ phase = "running"
        \/ /\ phase \in {"destroying", "stopped"}
           /\ activeRooms = <<>> /\ activeGameRooms = <<>>

-----------------------------------------------------------------------------
(* The refinement of RoomService: the place of a client is read off the      *)
(* members arrays, not off the ids in the sessions.                          *)
Nowhere == <<"nowhere", NoRoom>>

placeBar ==
    [c \in Clients |->
        IF \E r \in DOMAIN activeRooms : c \in Range(activeRooms[r])
        THEN <<"chat", CHOOSE r \in DOMAIN activeRooms :
                           c \in Range(activeRooms[r])>>
        ELSE IF \E g \in DOMAIN activeGameRooms :
                    c \in Range(activeGameRooms[g].members)
        THEN <<"game", CHOOSE g \in DOMAIN activeGameRooms :
                           c \in Range(activeGameRooms[g].members)>>
        ELSE Nowhere]

Service == INSTANCE RoomService WITH
    who     <- uid,
    place   <- placeBar,
    host    <- [g \in DOMAIN activeGameRooms |-> activeGameRooms[g].hostUid],
    playing <- {g \in DOMAIN activeGameRooms :
                  activeGameRooms[g].state = "GameRoomPlaying"}

(* The server implements the promise of RoomService: one place per client,   *)
(* rooms that close on everybody only with their host, no late entry into a  *)
(* started game, no room above its capacity.                                 *)
ImplementsRoomService == Service!Spec
=============================================================================
