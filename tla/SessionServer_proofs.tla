------------------------ MODULE SessionServer_proofs ------------------------
(***************************************************************************)
(* Proofs, for any number of connections, users, rooms and seats, of the   *)
(* type invariant and of the room invariants of SessionServerProps, and of *)
(* the refinement of RoomService.                                          *)
(***************************************************************************)
EXTENDS SessionServerProps, SequenceTheorems, FiniteSetTheorems, TLAPS

-----------------------------------------------------------------------------
(* Members arrays *)

(* room.c:91, gameRoom.c:103: the loop that removes c from a members array   *)
(* takes one slot away, the one of c, and nobody else's.                     *)
LEMMA RemoveFirstMember ==
    ASSUME NEW S, NEW ms \in Seq(S), IsInjective(ms), NEW c \in Range(ms)
    PROVE  /\ RemoveFirst(ms, c) \in Seq(S)
           /\ Len(RemoveFirst(ms, c)) = Len(ms) - 1
           /\ IsInjective(RemoveFirst(ms, c))
           /\ Range(RemoveFirst(ms, c)) = Range(ms) \ {c}
<1>1. PICK i \in 1..Len(ms) : ms[i] = c
  BY LenProperties DEF Range
<1>2. \A j \in 1..Len(ms) : ms[j] = c <=> j = i
  BY <1>1, LenProperties DEF IsInjective
<1>3. {j \in 1..Len(ms) : ms[j] = c} = {i}
  BY <1>2
<1>4. SelectInSeq(ms, LAMBDA v : v = c) = i
  <2>1. Min({i}) = i
    BY <1>1 DEF Min
  <2> QED
    BY <1>3, <2>1 DEF SelectInSeq
<1>5. RemoveFirst(ms, c) = SubSeq(ms, 1, i - 1) \o SubSeq(ms, i + 1, Len(ms))
  BY <1>1, <1>4 DEF RemoveFirst, RemoveAt
<1> DEFINE low  == SubSeq(ms, 1, i - 1)
           high == SubSeq(ms, i + 1, Len(ms))
<1>6. /\ low \in Seq(S) /\ Len(low) = i - 1
      /\ \A j \in 1..(i - 1) : low[j] = ms[j]
  BY <1>1
<1>7. /\ high \in Seq(S) /\ Len(high) = Len(ms) - i
      /\ \A j \in 1..(Len(ms) - i) : high[j] = ms[j + i]
  BY <1>1
<1> DEFINE rest == low \o high
<1>8. /\ rest \in Seq(S) /\ Len(rest) = Len(ms) - 1
      /\ \A j \in 1..(Len(ms) - 1) :
           rest[j] = IF j < i THEN ms[j] ELSE ms[j + 1]
  <2> HIDE DEF low, high
  <2>1. /\ rest \in Seq(S) /\ Len(rest) = Len(low) + Len(high)
        /\ \A j \in 1..(Len(low) + Len(high)) :
             rest[j] = IF j <= Len(low) THEN low[j] ELSE high[j - Len(low)]
    <3>1. low \in Seq(S) /\ high \in Seq(S)
      BY <1>6, <1>7
    <3> QED BY <3>1, ConcatProperties, Zenon
  <2>2. Len(rest) = Len(ms) - 1
    BY <1>1, <1>6, <1>7, <2>1
  <2>3. ASSUME NEW j \in 1..(Len(ms) - 1), j < i  PROVE rest[j] = ms[j]
    BY <1>1, <1>6, <2>1, <2>2, <2>3
  <2>4. ASSUME NEW j \in 1..(Len(ms) - 1), ~(j < i)
        PROVE  rest[j] = ms[j + 1]
    <3>1. /\ j - (i - 1) \in 1..(Len(ms) - i)
          /\ rest[j] = high[j - (i - 1)]
          /\ (j - (i - 1)) + i = j + 1
      BY <1>1, <1>6, <2>1, <2>2, <2>4
    <3> QED BY <1>7, <3>1
  <2> QED BY <2>1, <2>2, <2>3, <2>4
<1> HIDE DEF low, high, rest
<1>9. IsInjective(rest)
  <2>1. DOMAIN rest = 1..(Len(ms) - 1) /\ Len(ms) \in Nat
    BY <1>1, <1>8, LenProperties
  <2>2. \A j, k \in 1..Len(ms) : ms[j] = ms[k] => j = k
    BY <1>1 DEF IsInjective
  <2>3. ASSUME NEW j \in 1..(Len(ms) - 1), NEW k \in 1..(Len(ms) - 1),
               rest[j] = rest[k]
        PROVE  j = k
    <3> DEFINE before(n) == IF n < i THEN n ELSE n + 1
    <3>1. /\ before(j) \in 1..Len(ms) /\ before(k) \in 1..Len(ms)
          /\ rest[j] = ms[before(j)] /\ rest[k] = ms[before(k)]
      BY <1>8, <2>1
    <3>2. before(j) = before(k)
      BY <2>2, <2>3, <3>1
    <3> QED BY <2>1, <3>2
  <2> QED BY <2>1, <2>3 DEF IsInjective
<1>10. Range(rest) = Range(ms) \ {c}
  <2>1. Range(rest) \subseteq Range(ms) \ {c}
    BY <1>1, <1>2, <1>8, LenProperties DEF Range
  <2>2. ASSUME NEW d \in Range(ms) \ {c}  PROVE d \in Range(rest)
    <3>1. PICK k \in 1..Len(ms) : ms[k] = d
      BY LenProperties DEF Range
    <3>2. k # i
      BY <1>1, <3>1
    <3>3. PICK j \in 1..(Len(ms) - 1) : rest[j] = d
      <4>1. CASE k < i
        BY <1>1, <1>8, <3>1, <4>1
      <4>2. CASE k > i
        <5>1. k - 1 \in 1..(Len(ms) - 1) /\ rest[k - 1] = ms[k]
          BY <1>1, <1>8, <4>2
        <5> QED BY <5>1, <3>1
      <4> QED BY <3>2, <4>1, <4>2
    <3> QED BY <1>8, <3>3, LenProperties DEF Range
  <2> QED BY <2>1, <2>2
<1>11. RemoveFirst(ms, c) = rest
  BY <1>5 DEF rest, low, high
<1> QED BY <1>8, <1>9, <1>10, <1>11

(* room.c:155, gameRoom.c:266 and 308: a session that is not in a members    *)
(* array takes the next slot.                                                *)
LEMMA AppendMember ==
    ASSUME NEW S, NEW ms \in Seq(S), IsInjective(ms), NEW c \in S,
           c \notin Range(ms)
    PROVE  /\ Append(ms, c) \in Seq(S)
           /\ Len(Append(ms, c)) = Len(ms) + 1
           /\ IsInjective(Append(ms, c))
           /\ Range(Append(ms, c)) = Range(ms) \cup {c}
<1> DEFINE more == Append(ms, c)
<1>1. /\ more \in Seq(S) /\ Len(more) = Len(ms) + 1
      /\ \A i \in 1..Len(ms) : more[i] = ms[i]
      /\ more[Len(ms) + 1] = c
  BY AppendProperties
<1> HIDE DEF more
<1>2. Len(ms) \in Nat /\ DOMAIN ms = 1..Len(ms) /\ DOMAIN more = 1..(Len(ms) + 1)
  BY <1>1, LenProperties
<1>3. IsInjective(more)
  BY <1>1, <1>2 DEF IsInjective, Range
<1>4. Range(more) = Range(ms) \cup {c}
  <2>1. Range(more) \subseteq Range(ms) \cup {c}
    BY <1>1, <1>2 DEF Range
  <2>2. Range(ms) \subseteq Range(more)
    BY <1>1, <1>2 DEF Range
  <2>3. c \in Range(more)
    <3>1. Len(ms) + 1 \in DOMAIN more
      BY <1>2
    <3> QED BY <1>1, <3>1 DEF Range
  <2> QED BY <2>1, <2>2, <2>3
<1> QED BY <1>1, <1>3, <1>4 DEF more
-----------------------------------------------------------------------------
(* The parts of the invariant, of any tables rather than the current ones,   *)
(* so that they can be said of the tables in the middle of a handler.        *)

ChatOK(rooms, ids) ==
    /\ DOMAIN rooms \subseteq RoomIds
    /\ rooms \in [DOMAIN rooms -> MemberList]
    /\ ids \in [Clients -> RoomIds \cup {NoRoom}]
    /\ \A c \in Clients, r \in RoomIds :
         ids[c] = r <=> r \in DOMAIN rooms /\ c \in Range(rooms[r])
    /\ \A r \in DOMAIN rooms :
         IsInjective(rooms[r]) /\ Len(rooms[r]) \in 1..MaxMembers

InGameRoom == {"SessionGameRoomLobby", "SessionGameRoomPlay"}
LoggedOut  == {"Closed", "SessionKeyExchange", "SessionLogin"}

GameTypeOK(rooms, ids, st, users, rows) ==
    /\ DOMAIN rooms \subseteq GameRoomIds
    /\ rooms \in [DOMAIN rooms -> GameRoomType]
    /\ ids \in [Clients -> GameRoomIds \cup {NoRoom}]
    /\ st \in [Clients -> SessionStates]
    /\ users \in [Clients -> Uids \cup {NoUid}]
    /\ rows \subseteq GameRoomIds
    /\ \A c \in Clients : st[c] \notin LoggedOut => users[c] \in Uids

(* One game room g that is open.                                             *)
SeatsOK(gr, g, ids, st, users) ==
    /\ IsInjective(gr.members)
    /\ Len(gr.members) \in 1..MaxMembers
    /\ \A c \in Range(gr.members) :
         /\ ids[c] = g
         /\ st[c] = IF gr.state = "GameRoomPlaying"
                    THEN "SessionGameRoomPlay" ELSE "SessionGameRoomLobby"
    /\ \E c \in Range(gr.members) : users[c] = gr.hostUid

GameOK(rooms, ids, st, users, rows) ==
    /\ GameTypeOK(rooms, ids, st, users, rows)
    /\ \A c \in Clients : ids[c] # NoRoom =>
         ids[c] \in DOMAIN rooms /\ c \in Range(rooms[ids[c]].members)
    /\ \A c \in Clients : st[c] \in InGameRoom <=> ids[c] # NoRoom
    /\ \A g \in DOMAIN rooms : SeatsOK(rooms[g], g, ids, st, users)
    /\ DOMAIN rooms \subseteq rows

PlaceOK(ids, gids, st) ==
    \A c \in Clients :
        /\ gids[c] # NoRoom => ids[c] = NoRoom
        /\ st[c] = "Closed" => ids[c] = NoRoom

Parts ==
    /\ ChatOK(activeRooms, currentRoomId)
    /\ GameOK(activeGameRooms, currentGameRoomId, state, uid, gameRoomDB)
    /\ PlaceOK(currentRoomId, currentGameRoomId, state)
    /\ phase \in {"running", "stopping", "destroying", "stopped"}
    /\ roomDB \subseteq RoomIds
    /\ totpDB \subseteq Uids

(* A member of an array of sessions is a session.                            *)
LEMMA MembersAreClients ==
    ASSUME NEW ms \in MemberList
    PROVE  Range(ms) \subseteq Clients
BY RangeOfSeq DEF MemberList

(* The invariant of the runs, regrouped by the state it speaks about: the    *)
(* shape that the lemmas on leaving and entering rooms preserve.             *)
LEMMA IInvIsParts == IInv <=> Parts
<1> USE SessionServerAssumption
<1>1. ASSUME IInv PROVE Parts
  <2> USE <1>1 DEF IInv, TypeOK, LoggedIn, RoomInv
  <2>1. ChatOK(activeRooms, currentRoomId)
    BY DEF ChatOK, ChatRoomsMatchSessions
  <2>2. PlaceOK(currentRoomId, currentGameRoomId, state)
    BY DEF PlaceOK, ChatRoomsMatchSessions, OnePlaceAtATime
  <2>3. GameTypeOK(activeGameRooms, currentGameRoomId, state, uid, gameRoomDB)
    BY DEF GameTypeOK, LoggedOut
  <2>4. ASSUME NEW g \in DOMAIN activeGameRooms
        PROVE  SeatsOK(activeGameRooms[g], g, currentGameRoomId, state, uid)
    <3>1. Range(activeGameRooms[g].members) \subseteq Clients
      BY MembersAreClients DEF GameRoomType
    <3> QED BY <3>1 DEF SeatsOK, GameRoomsMatchSessions, HostSeated
  <2>5. GameOK(activeGameRooms, currentGameRoomId, state, uid, gameRoomDB)
    BY <2>3, <2>4 DEF GameOK, GameRoomsMatchSessions, InGameRoom,
                      ActiveGameRoomsHaveRows
  <2> QED BY <2>1, <2>2, <2>5 DEF Parts
<1>2. ASSUME Parts PROVE IInv
  <2> USE <1>2 DEF Parts
  <2>1. ChatRoomsMatchSessions /\ OnePlaceAtATime
    BY DEF ChatOK, PlaceOK, ChatRoomsMatchSessions, OnePlaceAtATime
  <2>2. TypeOK /\ LoggedIn
    BY DEF ChatOK, GameOK, GameTypeOK, LoggedOut, TypeOK, LoggedIn
  <2>3. GameRoomsMatchSessions
    <3>1. ASSUME NEW c \in Clients, NEW g \in GameRoomIds
          PROVE  currentGameRoomId[c] = g <=>
                   /\ g \in DOMAIN activeGameRooms
                   /\ c \in Range(activeGameRooms[g].members)
      BY DEF GameOK, SeatsOK
    <3> QED BY <3>1 DEF GameOK, SeatsOK, GameRoomsMatchSessions, InGameRoom
  <2>4. HostSeated /\ ActiveGameRoomsHaveRows
    BY DEF GameOK, SeatsOK, HostSeated, ActiveGameRoomsHaveRows
  <2> QED BY <2>1, <2>2, <2>3, <2>4 DEF IInv, RoomInv
<1> QED BY <1>1, <1>2

-----------------------------------------------------------------------------
(* Leaving a room *)

(* room.c:83, serverRemoveClientFromRoom keeps the chat rooms consistent,    *)
(* leaves c in none and everybody else where they were.                      *)
LEMMA LeaveRoomOK ==
    ASSUME ChatOK(activeRooms, currentRoomId), roomDB \subseteq RoomIds,
           NEW c \in Clients
    PROVE  /\ ChatOK(LeaveRoom(c).rooms, LeaveRoom(c).ids)
           /\ LeaveRoom(c).ids = [currentRoomId EXCEPT ![c] = NoRoom]
           /\ LeaveRoom(c).rows \subseteq RoomIds
<1> USE SessionServerAssumption DEF ChatOK
<1> DEFINE r    == currentRoomId[c]
           left == RemoveFirst(activeRooms[r], c)
           ids  == [currentRoomId EXCEPT ![c] = NoRoom]
<1>1. CASE r \notin DOMAIN activeRooms
  <2>1. LeaveRoom(c) = [rooms |-> activeRooms, ids |-> ids, rows |-> roomDB]
    BY <1>1 DEF LeaveRoom
  <2>2. r = NoRoom
    BY <1>1
  <2> QED BY <2>1, <2>2
<1>2. CASE r \in DOMAIN activeRooms
  <2>1. c \in Range(activeRooms[r]) /\ activeRooms[r] \in Seq(Clients)
    BY <1>2 DEF MemberList
  <2>2. /\ left \in Seq(Clients)
        /\ Len(left) = Len(activeRooms[r]) - 1
        /\ IsInjective(left)
        /\ Range(left) = Range(activeRooms[r]) \ {c}
    BY <1>2, <2>1, RemoveFirstMember
  <2> HIDE DEF left
  <2>3. CASE left # <<>>
    <3> DEFINE rooms == [activeRooms EXCEPT ![r] = left]
    <3>1. LeaveRoom(c) = [rooms |-> rooms, ids |-> ids, rows |-> roomDB]
      BY <1>2, <2>3 DEF LeaveRoom, left
    <3>2. Len(left) \in 1..MaxMembers
      BY <1>2, <2>1, <2>2, <2>3, EmptySeq, LenProperties
    <3>3. ChatOK(rooms, ids)
      BY <1>2, <2>2, <3>2 DEF MemberList
    <3> QED BY <3>1, <3>3
  <2>4. CASE left = <<>>
    <3> DEFINE rooms == Drop(activeRooms, r)
    <3>1. LeaveRoom(c) = [rooms |-> rooms, ids |-> ids, rows |-> roomDB \ {r}]
      BY <1>2, <2>4 DEF LeaveRoom, left
    <3>2. /\ DOMAIN rooms = DOMAIN activeRooms \ {r}
          /\ \A q \in DOMAIN rooms : rooms[q] = activeRooms[q]
          /\ rooms \in [DOMAIN rooms -> MemberList]
      BY DEF Drop, Restrict
    <3>3. Range(activeRooms[r]) = {c}
      BY <2>1, <2>2, <2>4 DEF Range
    <3> HIDE DEF rooms
    <3>4. ChatOK(rooms, ids)
      BY <1>2, <3>2, <3>3
    <3> QED BY <3>1, <3>4
  <2> QED BY <2>3, <2>4
<1> QED BY <1>1, <1>2

(* room.c:155: a session that is in no chat room sits down in room q.        *)
LEMMA EnterChatOK ==
    ASSUME NEW rooms, NEW ids, ChatOK(rooms, ids), NEW c \in Clients,
           ids[c] = NoRoom, NEW q \in RoomIds, NEW members,
           members = IF q \in DOMAIN rooms THEN rooms[q] ELSE <<>>,
           ~(Len(members) >= MaxMembers)
    PROVE  ChatOK(Put(rooms, q, Append(members, c)), [ids EXCEPT ![c] = q])
<1> USE SessionServerAssumption DEF ChatOK
<1>1. members \in Seq(Clients) /\ IsInjective(members) /\ c \notin Range(members)
  <2>1. CASE q \in DOMAIN rooms
    BY <2>1 DEF MemberList
  <2>2. CASE q \notin DOMAIN rooms
    BY <2>2 DEF IsInjective, Range
  <2> QED BY <2>1, <2>2
<1>a. /\ Append(members, c) \in Seq(Clients)
      /\ Len(Append(members, c)) = Len(members) + 1
      /\ IsInjective(Append(members, c))
      /\ Range(Append(members, c)) = Range(members) \cup {c}
  <2> HIDE DEF ChatOK
  <2>1. c \in Clients
    OBVIOUS
  <2> QED BY ONLY <1>1, <2>1, AppendMember
<1> DEFINE more == Append(members, c)
           after == Put(rooms, q, more)
           idsAfter == [ids EXCEPT ![c] = q]
<1>2. /\ more \in Seq(Clients)
      /\ Len(more) = Len(members) + 1
      /\ IsInjective(more)
      /\ Range(more) = Range(members) \cup {c}
  BY ONLY <1>a
<1>3. Len(more) \in 1..MaxMembers
  <2> HIDE DEF more, ChatOK
  <2>1. Len(members) \in Nat
    BY <1>1, LenProperties
  <2> QED BY <1>2, <2>1
<1> HIDE DEF more
<1>4. /\ DOMAIN after = DOMAIN rooms \cup {q}
      /\ after[q] = more
      /\ \A s \in DOMAIN rooms \ {q} : after[s] = rooms[s]
      /\ after \in [DOMAIN after -> MemberList]
  BY <1>2 DEF Put, MemberList
<1> HIDE DEF after
<1>5. ASSUME NEW d \in Clients, NEW s \in RoomIds
      PROVE  idsAfter[d] = s <=> s \in DOMAIN after /\ d \in Range(after[s])
  <2>1. CASE s = q
    <3>1. d \in Range(after[q]) <=> d = c \/ d \in Range(members)
      BY <1>2, <1>4
    <3>2. d \in Range(members) <=> ids[d] = q
      BY DEF Range
    <3> QED BY <1>4, <2>1, <3>1, <3>2
  <2>2. CASE s # q
    BY <1>4, <2>2
  <2> QED BY <2>1, <2>2
<1>6. ChatOK(after, idsAfter)
  <2>1. idsAfter \in [Clients -> RoomIds \cup {NoRoom}]
    OBVIOUS
  <2>2. ASSUME NEW s \in DOMAIN after
        PROVE  IsInjective(after[s]) /\ Len(after[s]) \in 1..MaxMembers
    BY <1>2, <1>3, <1>4
  <2>3. DOMAIN after \subseteq RoomIds /\ after \in [DOMAIN after -> MemberList]
    BY <1>4
  <2> HIDE DEF idsAfter
  <2> QED BY <1>5, <2>1, <2>2, <2>3
<1> QED BY <1>6, Zenon DEF after, more

CurrentGameOK ==
    GameOK(activeGameRooms, currentGameRoomId, state, uid, gameRoomDB)

(* gameRoom.c:134, serverDissolveGameRoom: everybody who sat in g is in the  *)
(* lobby, and nobody else notices.                                           *)
LEMMA DissolveOK ==
    ASSUME CurrentGameOK, NEW g \in DOMAIN activeGameRooms,
           NEW v, v = DissolveGameRoom(g)
    PROVE  /\ GameOK(v.rooms, v.ids, v.state, uid, v.rows)
           /\ \A d \in Clients :
                v.ids[d] = IF currentGameRoomId[d] = g THEN NoRoom
                           ELSE currentGameRoomId[d]
           /\ \A d \in Clients :
                v.state[d] = IF currentGameRoomId[d] = g THEN "SessionRoom"
                             ELSE state[d]
           /\ v.rows \subseteq gameRoomDB
<1> USE SessionServerAssumption DEF CurrentGameOK, GameOK
<1> DEFINE evicted == Range(activeGameRooms[g].members)
<1>1. \A d \in Clients : d \in evicted <=> currentGameRoomId[d] = g
  BY DEF GameTypeOK, SeatsOK
<1>2. /\ v.rooms = Drop(activeGameRooms, g)
      /\ v.ids = [d \in Clients |-> IF d \in evicted THEN NoRoom
                                    ELSE currentGameRoomId[d]]
      /\ v.state = [d \in Clients |-> IF d \in evicted THEN "SessionRoom"
                                      ELSE state[d]]
      /\ v.rows = gameRoomDB \ {g}
  BY DEF DissolveGameRoom
<1>3. /\ DOMAIN v.rooms = DOMAIN activeGameRooms \ {g}
      /\ \A h \in DOMAIN v.rooms : v.rooms[h] = activeGameRooms[h]
      /\ v.rooms \in [DOMAIN v.rooms -> GameRoomType]
  BY <1>2 DEF Drop, Restrict, GameTypeOK
<1> HIDE DEF evicted
<1>4. \A d \in Clients :
        /\ v.ids[d] = IF currentGameRoomId[d] = g THEN NoRoom
                      ELSE currentGameRoomId[d]
        /\ v.state[d] = IF currentGameRoomId[d] = g THEN "SessionRoom"
                        ELSE state[d]
  BY <1>1, <1>2
<1>5. GameTypeOK(v.rooms, v.ids, v.state, uid, v.rows)
  <2>1. /\ v.ids \in [Clients -> GameRoomIds \cup {NoRoom}]
        /\ v.state \in [Clients -> SessionStates]
    BY <1>2 DEF GameTypeOK, SessionStates
  <2>2. \A d \in Clients : v.state[d] \notin LoggedOut => uid[d] \in Uids
    BY <1>4 DEF GameTypeOK, LoggedOut, InGameRoom
  <2> QED BY <1>2, <1>3, <2>1, <2>2 DEF GameTypeOK
<1>6. ASSUME NEW h \in DOMAIN v.rooms
      PROVE  SeatsOK(v.rooms[h], h, v.ids, v.state, uid)
  <2>1. Range(activeGameRooms[h].members) \subseteq Clients
    BY <1>3, MembersAreClients DEF GameTypeOK, GameRoomType
  <2> QED BY <1>3, <1>4, <2>1 DEF SeatsOK
<1>7. \A d \in Clients : v.ids[d] # NoRoom =>
        v.ids[d] \in DOMAIN v.rooms /\ d \in Range(v.rooms[v.ids[d]].members)
  BY <1>3, <1>4
<1>8. \A d \in Clients : v.state[d] \in InGameRoom <=> v.ids[d] # NoRoom
  BY <1>4 DEF InGameRoom
<1>9. DOMAIN v.rooms \subseteq v.rows
  BY <1>2, <1>3
<1> QED BY <1>2, <1>4, <1>5, <1>6, <1>7, <1>8, <1>9

(* gameRoom.c:103: c, not of the host's user, leaves g.  The host stays, so  *)
(* the room is not empty and its row is kept.                                *)
LEMMA LeaveAsMemberOK ==
    ASSUME CurrentGameOK, NEW c \in Clients, NEW g \in DOMAIN activeGameRooms,
           currentGameRoomId[c] = g, activeGameRooms[g].hostUid # uid[c],
           NEW v, v = LeaveAsMember(c, g)
    PROVE  /\ GameOK(v.rooms, v.ids, v.state, uid, v.rows)
           /\ v.ids = [currentGameRoomId EXCEPT ![c] = NoRoom]
           /\ v.state = [state EXCEPT ![c] = "SessionRoom"]
           /\ v.rows = gameRoomDB
<1> USE SessionServerAssumption DEF CurrentGameOK, GameOK
<1> DEFINE room == activeGameRooms[g]
           left == RemoveFirst(room.members, c)
<1>1. /\ room \in GameRoomType
      /\ room.members \in Seq(Clients)
      /\ IsInjective(room.members)
      /\ c \in Range(room.members)
  BY DEF GameTypeOK, SeatsOK, GameRoomType, MemberList
<1>2. /\ left \in Seq(Clients)
      /\ Len(left) = Len(room.members) - 1
      /\ IsInjective(left)
      /\ Range(left) = Range(room.members) \ {c}
  <2> HIDE DEF CurrentGameOK, GameOK
  <2> QED BY <1>1, RemoveFirstMember
<1> HIDE DEF left
<1>3. PICK h \in Range(left) : uid[h] = room.hostUid
  BY <1>2 DEF SeatsOK
<1>4. left # <<>>
  BY <1>3 DEF Range
<1>5. /\ v.rooms = [activeGameRooms EXCEPT ![g].members = left]
      /\ v.ids = [currentGameRoomId EXCEPT ![c] = NoRoom]
      /\ v.state = [state EXCEPT ![c] = "SessionRoom"]
      /\ v.rows = gameRoomDB
  BY <1>4 DEF LeaveAsMember, left
<1>6. Len(left) \in 1..MaxMembers
  BY <1>1, <1>2, <1>4, EmptySeq, LenProperties DEF SeatsOK
<1>7. /\ DOMAIN v.rooms = DOMAIN activeGameRooms
      /\ \A k \in DOMAIN activeGameRooms \ {g} : v.rooms[k] = activeGameRooms[k]
      /\ v.rooms[g] = [room EXCEPT !.members = left]
      /\ v.rooms[g] \in GameRoomType
      /\ v.rooms[g].members = left
      /\ v.rooms[g].hostUid = room.hostUid
      /\ v.rooms[g].state = room.state
  BY <1>1, <1>2, <1>5 DEF GameRoomType, MemberList
<1> HIDE DEF room
<1>8. v.rooms \in [DOMAIN v.rooms -> GameRoomType]
  BY <1>5, <1>7 DEF GameTypeOK
<1>9. GameTypeOK(v.rooms, v.ids, v.state, uid, v.rows)
  <2>1. v.state \in [Clients -> SessionStates]
    BY <1>5 DEF GameTypeOK, SessionStates
  <2>2. \A d \in Clients : v.state[d] \notin LoggedOut => uid[d] \in Uids
    BY <1>5 DEF GameTypeOK, LoggedOut, InGameRoom
  <2> QED BY <1>5, <1>7, <1>8, <2>1, <2>2 DEF GameTypeOK
<1>10. \A d \in Clients :
         /\ v.ids[d] = IF d = c THEN NoRoom ELSE currentGameRoomId[d]
         /\ v.state[d] = IF d = c THEN "SessionRoom" ELSE state[d]
  BY <1>5 DEF GameTypeOK
<1>11. ASSUME NEW k \in DOMAIN v.rooms
       PROVE  SeatsOK(v.rooms[k], k, v.ids, v.state, uid)
  <2>1. Range(activeGameRooms[k].members) \subseteq Clients
    BY <1>7, MembersAreClients DEF GameTypeOK, GameRoomType
  <2>2. CASE k = g
    <3>1. /\ IsInjective(v.rooms[g].members)
          /\ Len(v.rooms[g].members) \in 1..MaxMembers
      BY <1>2, <1>6, <1>7
    <3>2. SeatsOK(room, g, currentGameRoomId, state, uid)
      BY DEF room
    <3>3. Range(left) \subseteq Clients \ {c}
      BY <1>2, <2>1, <2>2 DEF room
    <3>4. ASSUME NEW d \in Range(left)
          PROVE  /\ v.ids[d] = g
                 /\ v.state[d] = IF room.state = "GameRoomPlaying"
                                 THEN "SessionGameRoomPlay"
                                 ELSE "SessionGameRoomLobby"
      <4>1. d \in Range(room.members) /\ d # c /\ d \in Clients
        BY <1>2, <3>3
      <4>2. /\ currentGameRoomId[d] = g
            /\ state[d] = IF room.state = "GameRoomPlaying"
                          THEN "SessionGameRoomPlay" ELSE "SessionGameRoomLobby"
        BY <3>2, <4>1 DEF SeatsOK
      <4> QED BY <1>10, <4>1, <4>2
    <3>5. SeatsOK(v.rooms[g], g, v.ids, v.state, uid)
      BY <1>3, <1>7, <3>1, <3>4 DEF SeatsOK
    <3> QED BY <2>2, <3>5
  <2>3. CASE k # g
    BY <1>7, <1>10, <2>1, <2>3 DEF SeatsOK
  <2> QED BY <2>2, <2>3
<1>12. \A d \in Clients : v.ids[d] # NoRoom =>
         v.ids[d] \in DOMAIN v.rooms /\ d \in Range(v.rooms[v.ids[d]].members)
  <2>1. ASSUME NEW d \in Clients, v.ids[d] # NoRoom
        PROVE  /\ v.ids[d] \in DOMAIN v.rooms
               /\ d \in Range(v.rooms[v.ids[d]].members)
    <3>1. /\ d # c
          /\ v.ids[d] = currentGameRoomId[d]
          /\ currentGameRoomId[d] \in DOMAIN activeGameRooms
          /\ d \in Range(activeGameRooms[currentGameRoomId[d]].members)
      BY <1>10, <2>1
    <3>2. CASE currentGameRoomId[d] = g
      <4>1. d \in Range(room.members) \ {c}
        BY <3>1, <3>2 DEF room
      <4> QED BY <1>2, <1>7, <3>1, <3>2, <4>1
    <3>3. CASE currentGameRoomId[d] # g
      BY <1>7, <3>1, <3>3
    <3> QED BY <3>2, <3>3
  <2> QED BY <2>1
<1>13. \A d \in Clients : v.state[d] \in InGameRoom <=> v.ids[d] # NoRoom
  BY <1>10 DEF InGameRoom
<1> QED BY <1>5, <1>7, <1>9, <1>11, <1>12, <1>13

(* What a handler that starts by leaving the game room may rely on.          *)
LeftGameRoom(c, v) ==
    /\ GameOK(v.rooms, v.ids, v.state, uid, v.rows)
    /\ v.ids[c] = NoRoom
    /\ \A d \in Clients : v.ids[d] \in {currentGameRoomId[d], NoRoom}
    /\ \A d \in Clients :
         \/ v.state[d] = state[d]
         \/ state[d] \in InGameRoom /\ v.state[d] = "SessionRoom"
    /\ v.rows \subseteq gameRoomDB

(* gameRoom.c:86, serverRemoveClientFromGameRoom.                            *)
LEMMA LeaveGameRoomOK ==
    ASSUME CurrentGameOK, NEW c \in Clients
    PROVE  LeftGameRoom(c, LeaveGameRoom(c))
<1> DEFINE g == currentGameRoomId[c]
           v == LeaveGameRoom(c)
<1>1. g # NoRoom => g \in DOMAIN activeGameRooms /\ g \in GameRoomIds
  BY DEF CurrentGameOK, GameOK, GameTypeOK
<1>2. NoRoom \notin DOMAIN activeGameRooms
  BY SessionServerAssumption DEF CurrentGameOK, GameOK, GameTypeOK
<1>3. \A d \in Clients : state[d] \in InGameRoom <=> currentGameRoomId[d] # NoRoom
  BY DEF CurrentGameOK, GameOK
<1>4. CASE g = NoRoom
  <2>1. v = [rooms |-> activeGameRooms, ids |-> currentGameRoomId,
             state |-> state, rows |-> gameRoomDB]
    BY <1>2, <1>4 DEF LeaveGameRoom
  <2> QED BY <1>4, <2>1 DEF LeftGameRoom, CurrentGameOK
<1>5. CASE g # NoRoom /\ activeGameRooms[g].hostUid = uid[c]
  <2>1. v = DissolveGameRoom(g)
    BY <1>1, <1>5 DEF LeaveGameRoom
  <2> HIDE DEF v
  <2>2. /\ GameOK(v.rooms, v.ids, v.state, uid, v.rows)
        /\ \A d \in Clients :
             /\ v.ids[d] = IF currentGameRoomId[d] = g THEN NoRoom
                           ELSE currentGameRoomId[d]
             /\ v.state[d] = IF currentGameRoomId[d] = g THEN "SessionRoom"
                             ELSE state[d]
        /\ v.rows \subseteq gameRoomDB
    BY <1>1, <1>5, <2>1, DissolveOK
  <2>3. LeftGameRoom(c, v)
    BY <1>3, <1>5, <2>2 DEF LeftGameRoom
  <2> QED BY <2>3 DEF v
<1>6. CASE g # NoRoom /\ activeGameRooms[g].hostUid # uid[c]
  <2>1. v = LeaveAsMember(c, g)
    BY <1>1, <1>6 DEF LeaveGameRoom
  <2> HIDE DEF v
  <2>2. /\ GameOK(v.rooms, v.ids, v.state, uid, v.rows)
        /\ v.ids = [currentGameRoomId EXCEPT ![c] = NoRoom]
        /\ v.state = [state EXCEPT ![c] = "SessionRoom"]
        /\ v.rows = gameRoomDB
    BY <1>1, <1>6, <2>1, LeaveAsMemberOK
  <2>3. /\ currentGameRoomId \in [Clients -> GameRoomIds \cup {NoRoom}]
        /\ state \in [Clients -> SessionStates]
    BY DEF CurrentGameOK, GameOK, GameTypeOK
  <2>4. LeftGameRoom(c, v)
    BY <1>3, <1>6, <2>2, <2>3 DEF LeftGameRoom
  <2> QED BY <2>4 DEF v
<1> QED BY <1>4, <1>5, <1>6

-----------------------------------------------------------------------------
(* Entering a game room, and changing a session outside the game rooms       *)

(* server.c, auth.c: c is in no game room and gets the state s and the user  *)
(* u; no game room notices.                                                  *)
LEMMA SessionOK ==
    ASSUME NEW rooms, NEW ids, NEW st, NEW users, NEW rows,
           GameOK(rooms, ids, st, users, rows),
           NEW c \in Clients, ids[c] = NoRoom,
           NEW s \in SessionStates \ InGameRoom,
           NEW u \in Uids \cup {NoUid}, s \notin LoggedOut => u \in Uids
    PROVE  GameOK(rooms, ids, [st EXCEPT ![c] = s], [users EXCEPT ![c] = u], rows)
<1> DEFINE st2 == [st EXCEPT ![c] = s]
           us2 == [users EXCEPT ![c] = u]
<1>1. GameTypeOK(rooms, ids, st2, us2, rows)
  BY DEF GameOK, GameTypeOK
<1>2. \A d \in Clients : /\ st2[d] = IF d = c THEN s ELSE st[d]
                         /\ us2[d] = IF d = c THEN u ELSE users[d]
  BY DEF GameOK, GameTypeOK
<1> HIDE DEF st2, us2
<1>3. ASSUME NEW g \in DOMAIN rooms
      PROVE  SeatsOK(rooms[g], g, ids, st2, us2)
  <2>1. /\ SeatsOK(rooms[g], g, ids, st, users)
        /\ Range(rooms[g].members) \subseteq Clients
        /\ g # NoRoom
    BY MembersAreClients, SessionServerAssumption
       DEF GameOK, GameTypeOK, GameRoomType
  <2>2. c \notin Range(rooms[g].members)
    BY <2>1 DEF SeatsOK
  <2> QED BY <1>2, <2>1, <2>2 DEF SeatsOK
<1>4. \A d \in Clients : st2[d] \in InGameRoom <=> ids[d] # NoRoom
  BY <1>2 DEF GameOK
<1>5. GameOK(rooms, ids, st2, us2, rows)
  BY <1>1, <1>3, <1>4 DEF GameOK
<1> QED BY <1>5 DEF st2, us2

(* gameRoom.c:308: c sits down in the waiting room g.                        *)
LEMMA EnterGameOK ==
    ASSUME NEW rooms, NEW ids, NEW st, NEW users, NEW rows,
           GameOK(rooms, ids, st, users, rows),
           NEW c \in Clients, ids[c] = NoRoom, users[c] \in Uids,
           NEW g, Joinable(rooms, g)
    PROVE  GameOK([rooms EXCEPT ![g].members = Append(@, c)],
                  [ids EXCEPT ![c] = g],
                  [st EXCEPT ![c] = "SessionGameRoomLobby"], users, rows)
<1> DEFINE room  == rooms[g]
           more  == Append(room.members, c)
           after == [rooms EXCEPT ![g].members = more]
           ids2  == [ids EXCEPT ![c] = g]
           st2   == [st EXCEPT ![c] = "SessionGameRoomLobby"]
<1>1. /\ g \in DOMAIN rooms /\ g \in GameRoomIds /\ g # NoRoom
      /\ room \in GameRoomType /\ room.members \in Seq(Clients)
      /\ room.state = "GameRoomLobby"
      /\ Range(room.members) \subseteq Clients
      /\ SeatsOK(room, g, ids, st, users)
  BY SessionServerAssumption, MembersAreClients
     DEF Joinable, GameOK, GameTypeOK, GameRoomType, MemberList
<1>2. IsInjective(room.members) /\ c \notin Range(room.members)
  BY <1>1 DEF SeatsOK
<1>3. /\ more \in Seq(Clients)
      /\ Len(more) = Len(room.members) + 1
      /\ IsInjective(more)
      /\ Range(more) = Range(room.members) \cup {c}
  <2> DEFINE ms == room.members
  <2>1. ms \in Seq(Clients) /\ IsInjective(ms) /\ c \notin Range(ms)
    BY <1>1, <1>2
  <2> HIDE DEF ms
  <2>2. /\ Append(ms, c) \in Seq(Clients)
        /\ Len(Append(ms, c)) = Len(ms) + 1
        /\ IsInjective(Append(ms, c))
        /\ Range(Append(ms, c)) = Range(ms) \cup {c}
    BY <2>1, AppendMember
  <2> QED BY <2>2 DEF ms
<1>4. Len(more) \in 1..MaxMembers
  BY <1>1, <1>3, LenProperties, SessionServerAssumption DEF Joinable
<1> HIDE DEF more
<1>5. /\ DOMAIN after = DOMAIN rooms
      /\ \A k \in DOMAIN rooms \ {g} : after[k] = rooms[k]
      /\ after[g] \in GameRoomType
      /\ after[g].members = more
      /\ after[g].hostUid = room.hostUid
      /\ after[g].state = "GameRoomLobby"
  BY <1>1, <1>3 DEF GameRoomType, MemberList
<1>6. after \in [DOMAIN after -> GameRoomType]
  BY <1>5 DEF GameOK, GameTypeOK
<1>7. /\ ids2 \in [Clients -> GameRoomIds \cup {NoRoom}]
      /\ st2 \in [Clients -> SessionStates]
      /\ \A d \in Clients :
           /\ ids2[d] = IF d = c THEN g ELSE ids[d]
           /\ st2[d] = IF d = c THEN "SessionGameRoomLobby" ELSE st[d]
  BY <1>1 DEF GameOK, GameTypeOK, SessionStates
<1>8. GameTypeOK(after, ids2, st2, users, rows)
  BY <1>5, <1>6, <1>7 DEF GameOK, GameTypeOK
<1> HIDE DEF after, ids2, st2, room
<1>9. ASSUME NEW k \in DOMAIN after
      PROVE  SeatsOK(after[k], k, ids2, st2, users)
  <2>1. CASE k = g
    <3>1. \A d \in Range(more) : ids2[d] = g /\ st2[d] = "SessionGameRoomLobby"
      BY <1>1, <1>3, <1>7 DEF SeatsOK
    <3>2. \E d \in Range(more) : users[d] = room.hostUid
      BY <1>1, <1>3 DEF SeatsOK
    <3>3. SeatsOK(after[g], g, ids2, st2, users)
      BY <1>3, <1>4, <1>5, <3>1, <3>2 DEF SeatsOK
    <3> QED BY <2>1, <3>3
  <2>2. CASE k # g
    <3>1. /\ SeatsOK(rooms[k], k, ids, st, users)
          /\ Range(rooms[k].members) \subseteq Clients
          /\ k # NoRoom
          /\ after[k] = rooms[k]
      BY <1>5, <2>2, MembersAreClients, SessionServerAssumption
         DEF GameOK, GameTypeOK, GameRoomType
    <3>2. c \notin Range(rooms[k].members)
      BY <3>1 DEF SeatsOK
    <3> QED BY <1>7, <3>1, <3>2 DEF SeatsOK
  <2> QED BY <2>1, <2>2
<1>10. \A d \in Clients : st2[d] \in InGameRoom <=> ids2[d] # NoRoom
  BY <1>1, <1>7 DEF GameOK, InGameRoom
<1>11. ASSUME NEW d \in Clients, ids2[d] # NoRoom
       PROVE  ids2[d] \in DOMAIN after /\ d \in Range(after[ids2[d]].members)
  <2>1. CASE d = c
    BY <1>1, <1>3, <1>5, <1>7, <2>1
  <2>2. CASE d # c
    <3>1. /\ ids2[d] = ids[d] /\ ids[d] \in DOMAIN rooms
          /\ d \in Range(rooms[ids[d]].members)
      BY <1>7, <1>11, <2>2 DEF GameOK
    <3> QED BY <1>3, <1>5, <3>1 DEF room
  <2> QED BY <2>1, <2>2
<1>12. GameOK(after, ids2, st2, users, rows)
  BY <1>5, <1>8, <1>9, <1>10, <1>11 DEF GameOK
<1> QED BY <1>12 DEF after, ids2, st2, more, room

(* gameRoom.c:248: c opens the room g, whose id has no row, for itself.      *)
LEMMA OpenGameOK ==
    ASSUME NEW rooms, NEW ids, NEW st, NEW users, NEW rows,
           GameOK(rooms, ids, st, users, rows),
           NEW c \in Clients, ids[c] = NoRoom, users[c] \in Uids,
           NEW g \in GameRoomIds \ rows,
           NEW room \in GameRoomType, room.hostUid = users[c],
           room.members = <<c>>, room.state = "GameRoomLobby"
    PROVE  GameOK(Put(rooms, g, room), [ids EXCEPT ![c] = g],
                  [st EXCEPT ![c] = "SessionGameRoomLobby"], users, rows \cup {g})
<1> DEFINE after == Put(rooms, g, room)
           ids2  == [ids EXCEPT ![c] = g]
           st2   == [st EXCEPT ![c] = "SessionGameRoomLobby"]
<1>1. g # NoRoom /\ g \notin DOMAIN rooms
  BY SessionServerAssumption DEF GameOK
<1>2. /\ room \in GameRoomType
      /\ IsInjective(room.members)
      /\ Range(room.members) = {c}
      /\ Len(room.members) \in 1..MaxMembers
  BY SessionServerAssumption DEF GameRoomType, MemberList, IsInjective, Range
<1>3. /\ DOMAIN after = DOMAIN rooms \cup {g}
      /\ \A k \in DOMAIN rooms : after[k] = rooms[k]
      /\ after[g] = room
      /\ after \in [DOMAIN after -> GameRoomType]
  BY <1>1, <1>2 DEF Put, GameOK, GameTypeOK
<1>4. /\ ids2 \in [Clients -> GameRoomIds \cup {NoRoom}]
      /\ st2 \in [Clients -> SessionStates]
      /\ \A d \in Clients :
           /\ ids2[d] = IF d = c THEN g ELSE ids[d]
           /\ st2[d] = IF d = c THEN "SessionGameRoomLobby" ELSE st[d]
  BY DEF GameOK, GameTypeOK, SessionStates
<1> HIDE DEF after, ids2, st2
<1>5. GameTypeOK(after, ids2, st2, users, rows \cup {g})
  BY <1>3, <1>4 DEF GameOK, GameTypeOK
<1>6. ASSUME NEW k \in DOMAIN after
      PROVE  SeatsOK(after[k], k, ids2, st2, users)
  <2>1. CASE k = g
    <3>1. /\ room.hostUid = users[c] /\ room.state = "GameRoomLobby"
          /\ ids2[c] = g /\ st2[c] = "SessionGameRoomLobby"
      BY <1>4
    <3>2. SeatsOK(room, g, ids2, st2, users)
      BY <1>2, <3>1 DEF SeatsOK
    <3> QED BY <1>3, <2>1, <3>2
  <2>2. CASE k # g
    <3>1. /\ SeatsOK(rooms[k], k, ids, st, users)
          /\ Range(rooms[k].members) \subseteq Clients
          /\ k # NoRoom
          /\ after[k] = rooms[k]
      BY <1>3, <2>2, MembersAreClients, SessionServerAssumption
         DEF GameOK, GameTypeOK, GameRoomType
    <3>2. c \notin Range(rooms[k].members)
      BY <3>1 DEF SeatsOK
    <3> QED BY <1>4, <3>1, <3>2 DEF SeatsOK
  <2> QED BY <2>1, <2>2
<1>7. \A d \in Clients : st2[d] \in InGameRoom <=> ids2[d] # NoRoom
  BY <1>1, <1>4 DEF GameOK, InGameRoom
<1>8. \A d \in Clients : ids2[d] # NoRoom =>
        ids2[d] \in DOMAIN after /\ d \in Range(after[ids2[d]].members)
  BY <1>2, <1>3, <1>4 DEF GameOK
<1>9. GameOK(after, ids2, st2, users, rows \cup {g})
  BY <1>3, <1>5, <1>6, <1>7, <1>8 DEF GameOK
<1> QED BY <1>9 DEF after, ids2, st2

(* gameRoom.c:410: the host's user starts the game of g for all its members. *)
LEMMA StartGameOK ==
    ASSUME CurrentGameOK, NEW g \in DOMAIN activeGameRooms,
           NEW after, NEW st,
           after = [activeGameRooms EXCEPT ![g].state = "GameRoomPlaying",
                                           ![g].gameRunning = TRUE],
           st = [d \in Clients |-> IF d \in Range(activeGameRooms[g].members)
                                  THEN "SessionGameRoomPlay" ELSE state[d]]
    PROVE  GameOK(after, currentGameRoomId, st, uid, gameRoomDB)
<1> USE DEF CurrentGameOK, GameOK
<1> DEFINE room == activeGameRooms[g]
<1>1. /\ room \in GameRoomType /\ g # NoRoom
      /\ SeatsOK(room, g, currentGameRoomId, state, uid)
  BY SessionServerAssumption DEF GameTypeOK
<1>2. \A d \in Clients : d \in Range(room.members) <=> currentGameRoomId[d] = g
  BY <1>1 DEF SeatsOK
<1>3. /\ DOMAIN after = DOMAIN activeGameRooms
      /\ \A k \in DOMAIN activeGameRooms \ {g} : after[k] = activeGameRooms[k]
      /\ after[g] \in GameRoomType
      /\ after[g].members = room.members
      /\ after[g].hostUid = room.hostUid
      /\ after[g].state = "GameRoomPlaying"
  BY <1>1 DEF GameRoomType
<1>4. after \in [DOMAIN after -> GameRoomType]
  BY <1>3 DEF GameTypeOK
<1>5. /\ st \in [Clients -> SessionStates]
      /\ \A d \in Clients : st[d] = IF currentGameRoomId[d] = g
                                   THEN "SessionGameRoomPlay" ELSE state[d]
  BY <1>2 DEF GameTypeOK, SessionStates
<1>6. \A d \in Clients : st[d] \in InGameRoom <=> currentGameRoomId[d] # NoRoom
  BY <1>1, <1>5 DEF InGameRoom
<1>7. \A d \in Clients : st[d] \notin LoggedOut => uid[d] \in Uids
  BY <1>1, <1>5 DEF GameTypeOK, LoggedOut, InGameRoom
<1>8. ASSUME NEW k \in DOMAIN after
      PROVE  SeatsOK(after[k], k, currentGameRoomId, st, uid)
  <2>1. Range(activeGameRooms[k].members) \subseteq Clients
    BY <1>3, MembersAreClients DEF GameTypeOK, GameRoomType
  <2>2. CASE k = g
    BY <1>1, <1>3, <1>5, <2>1, <2>2 DEF SeatsOK
  <2>3. CASE k # g
    BY <1>3, <1>5, <2>1, <2>3 DEF SeatsOK
  <2> QED BY <2>2, <2>3
<1> HIDE DEF room
<1> QED BY <1>3, <1>4, <1>5, <1>6, <1>7, <1>8 DEF GameTypeOK, room

(* gameRunner.c:181: whether a game still runs concerns no session.          *)
LEMMA GameRunningOK ==
    ASSUME CurrentGameOK, NEW after, DOMAIN after = DOMAIN activeGameRooms,
           \A k \in DOMAIN activeGameRooms : \E b \in BOOLEAN :
               after[k] = [activeGameRooms[k] EXCEPT !.gameRunning = b],
           after \in [DOMAIN after -> GameRoomType]
    PROVE  GameOK(after, currentGameRoomId, state, uid, gameRoomDB)
<1> USE DEF CurrentGameOK, GameOK
<1>1. ASSUME NEW k \in DOMAIN after
      PROVE  /\ after[k].members = activeGameRooms[k].members
             /\ after[k].hostUid = activeGameRooms[k].hostUid
             /\ after[k].state = activeGameRooms[k].state
  BY DEF GameTypeOK, GameRoomType
<1>2. GameTypeOK(after, currentGameRoomId, state, uid, gameRoomDB)
  BY DEF GameTypeOK
<1>3. ASSUME NEW k \in DOMAIN after
      PROVE  SeatsOK(after[k], k, currentGameRoomId, state, uid)
  BY <1>1 DEF SeatsOK
<1> QED BY <1>1, <1>2, <1>3

-----------------------------------------------------------------------------
(* Every step preserves the invariant *)

(* server.c:168, serverLaunch: the server starts without sessions or rooms.  *)
LEMMA InitOK == Init => Parts
<1> SUFFICES ASSUME Init PROVE Parts
  OBVIOUS
<1> USE SessionServerAssumption DEF Init
<1>1. ChatOK(activeRooms, currentRoomId)
  BY DEF ChatOK
<1>2. GameOK(activeGameRooms, currentGameRoomId, state, uid, gameRoomDB)
  BY DEF GameOK, GameTypeOK, InGameRoom, LoggedOut, SessionStates
<1>3. PlaceOK(currentRoomId, currentGameRoomId, state)
  BY DEF PlaceOK
<1> QED BY <1>1, <1>2, <1>3 DEF Parts

(* A step of c that changes its session, outside the game rooms, and no room.*)
LEMMA SessionStepOK ==
    ASSUME Parts, NEW c \in Clients, currentGameRoomId[c] = NoRoom,
           NEW s \in SessionStates \ (InGameRoom \cup {"Closed"}),
           NEW u \in Uids \cup {NoUid}, s \notin LoggedOut => u \in Uids,
           state' = [state EXCEPT ![c] = s], uid' = [uid EXCEPT ![c] = u],
           totpDB' \subseteq Uids,
           UNCHANGED <<phase, roomVars, gameVars>>
    PROVE  Parts'
<1>1. GameOK(activeGameRooms, currentGameRoomId, state, uid, gameRoomDB)'
  BY SessionOK DEF Parts, gameVars
<1>2. PlaceOK(currentRoomId, currentGameRoomId, state)'
  BY DEF Parts, PlaceOK, gameVars, roomVars, GameOK, GameTypeOK
<1>3. ChatOK(activeRooms, currentRoomId)'
  BY DEF Parts, roomVars
<1> QED BY <1>1, <1>2, <1>3 DEF Parts, roomVars

(* Outside the states of a game room a session is in no game room.           *)
LEMMA OutsideGameRooms ==
    ASSUME Parts, NEW c \in Clients, state[c] \notin InGameRoom
    PROVE  currentGameRoomId[c] = NoRoom
BY DEF Parts, GameOK

(* processClient: the states in which a request reaches its handler.         *)
LEMMA ReceivedIn ==
    ASSUME Parts, NEW c \in Clients
    PROVE  /\ Receives(c, "MsgKeyExchangeReq") => state[c] = "SessionKeyExchange"
           /\ Receives(c, "MsgLoginReq") => state[c] = "SessionLogin"
           /\ Receives(c, "MsgTOTPVerifyResp") => state[c] = "SessionTOTPVerify"
           /\ Receives(c, "MsgTOTPSetupReq") =>
                state[c] \in {"SessionRoom", "SessionChat"}
           /\ \A m \in {"MsgCreateRoom", "MsgJoinRoom", "MsgQuitRoom"} :
                Receives(c, m) => state[c] = "SessionRoom"
           /\ \A m \in {"MsgGameRoomCreate", "MsgGameRoomJoin"} :
                Receives(c, m) => state[c] \in {"SessionRoom", "SessionGameRoomLobby"}
           /\ Receives(c, "MsgGameRoomQuit") => state[c] \in InGameRoom
           /\ Receives(c, "MsgGameRoomStart") => state[c] = "SessionGameRoomLobby"
<1>1. state[c] \in SessionStates
  BY DEF Parts, GameOK, GameTypeOK
<1>2. \A s \in SessionStates \ {"Closed"} :
        /\ "MsgKeyExchangeReq" \in Dispatch[s] => s = "SessionKeyExchange"
        /\ "MsgLoginReq" \in Dispatch[s] => s = "SessionLogin"
        /\ "MsgTOTPVerifyResp" \in Dispatch[s] => s = "SessionTOTPVerify"
        /\ "MsgTOTPSetupReq" \in Dispatch[s] =>
             s \in {"SessionRoom", "SessionChat"}
        /\ \A m \in {"MsgCreateRoom", "MsgJoinRoom", "MsgQuitRoom"} :
             m \in Dispatch[s] => s = "SessionRoom"
        /\ \A m \in {"MsgGameRoomCreate", "MsgGameRoomJoin"} :
             m \in Dispatch[s] => s \in {"SessionRoom", "SessionGameRoomLobby"}
        /\ "MsgGameRoomQuit" \in Dispatch[s] => s \in InGameRoom
        /\ "MsgGameRoomStart" \in Dispatch[s] => s = "SessionGameRoomLobby"
  BY DEF SessionStates, Dispatch, InGameRoom
<1> QED BY <1>1, <1>2 DEF Receives

(* server.c, auth.c: accepting, key exchange, login and second factor.       *)
LEMMA SessionActionsOK ==
    ASSUME Parts, NEW c \in Clients,
           \/ AcceptClient(c)
           \/ KeyExchange(c)
           \/ \E u \in Uids : Login(c, u)
           \/ TOTPSetup(c)
           \/ \E codeIsRight \in BOOLEAN : TOTPVerify(c, codeIsRight)
    PROVE  Parts'
<1> USE ReceivedIn DEF Goto
<1>0. /\ uid[c] \in Uids \cup {NoUid} /\ uid = [uid EXCEPT ![c] = uid[c]]
      /\ state[c] \notin LoggedOut => uid[c] \in Uids
      /\ totpDB \subseteq Uids
  BY DEF Parts, GameOK, GameTypeOK
<1>1. CASE AcceptClient(c)
  BY <1>0, <1>1, OutsideGameRooms, SessionStepOK
     DEF AcceptClient, InGameRoom, SessionStates, LoggedOut
<1>2. CASE KeyExchange(c)
  BY <1>0, <1>2, OutsideGameRooms, SessionStepOK
     DEF KeyExchange, InGameRoom, SessionStates, LoggedOut
<1>3. CASE \E u \in Uids : Login(c, u)
  <2> PICK u \in Uids : Login(c, u)
    BY <1>3
  <2>1. state[c] = "SessionLogin"
    BY DEF Login
  <2>2. currentGameRoomId[c] = NoRoom
    BY <2>1, OutsideGameRooms DEF InGameRoom
  <2> QED BY <1>0, <2>2, SessionStepOK
             DEF Login, InGameRoom, SessionStates, LoggedOut
<1>4. CASE TOTPSetup(c)
  <2>1. state[c] \notin InGameRoom \cup LoggedOut
    BY <1>4 DEF TOTPSetup, InGameRoom, LoggedOut
  <2>2. currentGameRoomId[c] = NoRoom /\ uid[c] \in Uids
    BY <1>0, <2>1, OutsideGameRooms
  <2>3. /\ state' = [state EXCEPT ![c] = "SessionTOTPVerify"]
        /\ totpDB' = totpDB \cup {uid[c]}
        /\ UNCHANGED <<phase, uid, roomVars, gameVars>>
    BY <1>4 DEF TOTPSetup
  <2>4. /\ uid' = [uid EXCEPT ![c] = uid[c]] /\ totpDB' \subseteq Uids
        /\ "SessionTOTPVerify" \in SessionStates \ (InGameRoom \cup {"Closed"})
    BY <1>0, <2>2, <2>3 DEF SessionStates, InGameRoom
  <2> QED BY <2>2, <2>3, <2>4, SessionStepOK
<1>5. CASE \E codeIsRight \in BOOLEAN : TOTPVerify(c, codeIsRight)
  <2> PICK codeIsRight \in BOOLEAN : TOTPVerify(c, codeIsRight)
    BY <1>5
  <2>1. state[c] = "SessionTOTPVerify" /\ uid[c] \in Uids
    BY <1>0 DEF TOTPVerify, LoggedOut
  <2>2. currentGameRoomId[c] = NoRoom
    BY <2>1, OutsideGameRooms DEF InGameRoom
  <2> QED BY <1>0, <2>1, <2>2, SessionStepOK
             DEF TOTPVerify, InGameRoom, SessionStates, LoggedOut
<1> QED BY <1>1, <1>2, <1>3, <1>4, <1>5

(* room.c: creating, joining and quitting a chat room.                       *)
LEMMA RoomActionsOK ==
    ASSUME Parts, NEW c \in Clients,
           \/ \E r \in RoomIds : RoomCreate(c, r) \/ RoomJoin(c, r)
           \/ RoomQuit(c)
    PROVE  Parts'
<1> DEFINE l == LeaveRoom(c)
<1>1. /\ ChatOK(l.rooms, l.ids)
      /\ l.ids = [currentRoomId EXCEPT ![c] = NoRoom]
      /\ l.rows \subseteq RoomIds
  BY LeaveRoomOK DEF Parts
<1>2. /\ uid[c] \in Uids \cup {NoUid} /\ uid = [uid EXCEPT ![c] = uid[c]]
      /\ state[c] \notin LoggedOut => uid[c] \in Uids
      /\ state = [state EXCEPT ![c] = state[c]]
      /\ currentRoomId \in [Clients -> RoomIds \cup {NoRoom}]
      /\ state \in [Clients -> SessionStates]
  BY DEF Parts, GameOK, GameTypeOK, ChatOK
<1> HIDE DEF l
<1>3. ASSUME NEW r \in RoomIds, RoomCreate(c, r)  PROVE Parts'
  BY <1>3 DEF RoomCreate, Parts, sessionVars
<1>4. ASSUME NEW r \in RoomIds, RoomJoin(c, r)  PROVE Parts'
  <2> DEFINE members == IF r \in DOMAIN l.rooms THEN l.rooms[r] ELSE <<>>
             full    == Len(members) >= MaxMembers
  <2>1. /\ activeRooms' = IF full THEN l.rooms
                          ELSE Put(l.rooms, r, Append(members, c))
        /\ currentRoomId' = IF full THEN l.ids ELSE [l.ids EXCEPT ![c] = r]
        /\ state' = IF full THEN state ELSE [state EXCEPT ![c] = "SessionChat"]
        /\ roomDB' = l.rows
        /\ UNCHANGED <<phase, uid, gameVars, totpDB>>
    BY <1>4, Zenon DEF RoomJoin, l
  <2>2. state[c] = "SessionRoom"
    BY <1>4, ReceivedIn DEF RoomJoin
  <2>3. currentGameRoomId[c] = NoRoom
    BY <2>2, OutsideGameRooms DEF InGameRoom
  <2>4. l.ids[c] = NoRoom
    BY <1>1, <1>2
  <2>5. ~full => ChatOK(Put(l.rooms, r, Append(members, c)),
                        [l.ids EXCEPT ![c] = r])
    BY <1>1, <2>4, EnterChatOK
  <2> HIDE DEF full, members
  <2>6. ChatOK(activeRooms, currentRoomId)'
    BY <1>1, <2>1, <2>5
  <2>7. \E s \in {"SessionRoom", "SessionChat"} : state' = [state EXCEPT ![c] = s]
    BY <1>2, <2>1, <2>2
  <2>8. GameOK(activeGameRooms, currentGameRoomId, state, uid, gameRoomDB)'
    <3> PICK s \in {"SessionRoom", "SessionChat"} : state' = [state EXCEPT ![c] = s]
      BY <2>7
    <3>1. /\ uid[c] \in Uids
          /\ s \in SessionStates \ InGameRoom
      BY <1>2, <2>2 DEF InGameRoom, LoggedOut, SessionStates
    <3>2. GameOK(activeGameRooms, currentGameRoomId, [state EXCEPT ![c] = s],
                 [uid EXCEPT ![c] = uid[c]], gameRoomDB)
      BY <2>3, <3>1, SessionOK DEF Parts
    <3> QED BY <1>2, <2>1, <3>2 DEF gameVars
  <2>9. PlaceOK(currentRoomId, currentGameRoomId, state)'
    BY <1>1, <1>2, <2>1, <2>2, <2>3, <2>7 DEF Parts, PlaceOK, gameVars
  <2> QED BY <1>1, <2>1, <2>6, <2>8, <2>9 DEF Parts
<1>5. CASE RoomQuit(c)
  <2>1. /\ activeRooms' = l.rooms
        /\ currentRoomId' = l.ids
        /\ roomDB' = l.rows
        /\ state' = [state EXCEPT ![c] = "SessionRoom"]
        /\ UNCHANGED <<phase, uid, gameVars, totpDB>>
    BY <1>5 DEF RoomQuit, Goto, l
  <2>2. state[c] = "SessionRoom"
    BY <1>5, ReceivedIn DEF RoomQuit
  <2>3. currentGameRoomId[c] = NoRoom
    BY <2>2, OutsideGameRooms DEF InGameRoom
  <2>4. GameOK(activeGameRooms, currentGameRoomId, state, uid, gameRoomDB)'
    BY <1>2, <2>1, <2>2, <2>3, SessionOK
       DEF Parts, gameVars, InGameRoom, LoggedOut, SessionStates
  <2>5. PlaceOK(currentRoomId, currentGameRoomId, state)'
    BY <1>1, <1>2, <2>1, <2>3 DEF Parts, PlaceOK, gameVars
  <2> QED BY <1>1, <2>1, <2>4, <2>5 DEF Parts
<1> QED BY <1>3, <1>4, <1>5

(* gameRoom.c: creating, joining and quitting a game room, each of which     *)
(* leaves the rooms c was in before.                                         *)
LEMMA GameRoomActionsOK ==
    ASSUME Parts, NEW c \in Clients,
           \/ \E g \in GameRoomIds, created \in BOOLEAN :
                GameRoomCreate(c, g, created)
           \/ \E g \in GameRoomIds : GameRoomJoin(c, g)
           \/ GameRoomQuit(c)
    PROVE  Parts'
<1> DEFINE l == LeaveRoom(c)
           v == LeaveGameRoom(c)
<1>1. /\ ChatOK(l.rooms, l.ids)
      /\ l.ids = [currentRoomId EXCEPT ![c] = NoRoom]
      /\ l.rows \subseteq RoomIds
  BY LeaveRoomOK DEF Parts
<1>2. LeftGameRoom(c, v)
  BY LeaveGameRoomOK DEF Parts, CurrentGameOK
<1>3. /\ state[c] \notin LoggedOut => uid[c] \in Uids
      /\ currentRoomId \in [Clients -> RoomIds \cup {NoRoom}]
  BY DEF Parts, GameOK, GameTypeOK, ChatOK
<1> HIDE DEF l, v
<1>4. /\ v.ids \in [Clients -> GameRoomIds \cup {NoRoom}]
      /\ v.state \in [Clients -> SessionStates]
      /\ v.ids[c] = NoRoom
      /\ GameOK(v.rooms, v.ids, v.state, uid, v.rows)
  BY <1>2 DEF LeftGameRoom, GameOK, GameTypeOK
<1>5. PlaceOK(l.ids, v.ids, v.state)
  BY <1>1, <1>2, <1>3 DEF Parts, PlaceOK, LeftGameRoom
<1>6. PlaceOK(currentRoomId, v.ids, v.state)
  BY <1>2 DEF Parts, PlaceOK, LeftGameRoom
<1>7. ASSUME NEW g PROVE
        PlaceOK(l.ids, [v.ids EXCEPT ![c] = g],
                [v.state EXCEPT ![c] = "SessionGameRoomLobby"])
  BY <1>1, <1>3, <1>4, <1>5 DEF PlaceOK
<1>8. ASSUME NEW g \in GameRoomIds, NEW created \in BOOLEAN,
             GameRoomCreate(c, g, created)
      PROVE  Parts'
  <2>1. state[c] \in {"SessionRoom", "SessionGameRoomLobby"}
    BY <1>8, ReceivedIn DEF GameRoomCreate
  <2>2. uid[c] \in Uids
    BY <1>3, <2>1 DEF LoggedOut
  <2> DEFINE fresh == [hostUid |-> uid[c], members |-> <<>>,
                       state |-> "GameRoomLobby", gameRunning |-> FALSE]
             room  == IF g \in DOMAIN v.rooms THEN v.rooms[g] ELSE fresh
             seated == [room EXCEPT !.members = Append(@, c)]
  <2>3. /\ created => g \notin v.rows
        /\ activeGameRooms' = IF created THEN Put(v.rooms, g, seated)
                              ELSE v.rooms
        /\ currentGameRoomId' = IF created THEN [v.ids EXCEPT ![c] = g]
                                ELSE v.ids
        /\ state' = IF created
                    THEN [v.state EXCEPT ![c] = "SessionGameRoomLobby"]
                    ELSE v.state
        /\ gameRoomDB' = IF created THEN v.rows \cup {g} ELSE v.rows
        /\ activeRooms' = l.rooms
        /\ currentRoomId' = l.ids
        /\ roomDB' = l.rows
        /\ UNCHANGED <<phase, uid, totpDB>>
    BY <1>8, Zenon DEF GameRoomCreate, l, v
  <2>4. created => /\ seated \in GameRoomType
                   /\ seated.hostUid = uid[c]
                   /\ seated.members = <<c>>
                   /\ seated.state = "GameRoomLobby"
    <3>1. created => room = fresh
      BY <1>4, <2>3 DEF GameOK
    <3> DEFINE first == [fresh EXCEPT !.members = Append(@, c)]
    <3>2. /\ first \in GameRoomType
          /\ first.hostUid = uid[c]
          /\ first.members = <<c>>
          /\ first.state = "GameRoomLobby"
      <4>1. /\ fresh \in GameRoomType /\ fresh.members = <<>>
            /\ fresh.hostUid = uid[c] /\ fresh.state = "GameRoomLobby"
        BY <2>2 DEF GameRoomType, MemberList
      <4> HIDE DEF fresh
      <4>2. Append(fresh.members, c) = <<c>> /\ <<c>> \in Seq(Clients)
        BY <4>1
      <4> QED BY <4>1, <4>2 DEF GameRoomType, MemberList
    <3> HIDE DEF fresh, room
    <3> QED BY <3>1, <3>2
  <2> HIDE DEF seated
  <2>5. GameOK(activeGameRooms, currentGameRoomId, state, uid, gameRoomDB)'
    <3>1. CASE created
      BY <1>4, <2>2, <2>3, <2>4, <3>1, OpenGameOK
    <3>2. CASE ~created
      BY <1>4, <2>3, <3>2
    <3> QED BY <3>1, <3>2
  <2>6. PlaceOK(currentRoomId, currentGameRoomId, state)'
    BY <1>5, <1>7, <2>3
  <2> QED BY <1>1, <2>3, <2>5, <2>6 DEF Parts
<1>9. ASSUME NEW g \in GameRoomIds, GameRoomJoin(c, g)  PROVE Parts'
  <2>1. state[c] \in {"SessionRoom", "SessionGameRoomLobby"}
    BY <1>9, ReceivedIn DEF GameRoomJoin
  <2>2. uid[c] \in Uids
    BY <1>3, <2>1 DEF LoggedOut
  <2> DEFINE ok == Joinable(v.rooms, g)
  <2>3. /\ activeGameRooms' =
             IF ok THEN [v.rooms EXCEPT ![g].members = Append(@, c)] ELSE v.rooms
        /\ currentGameRoomId' = IF ok THEN [v.ids EXCEPT ![c] = g] ELSE v.ids
        /\ state' = IF ok THEN [v.state EXCEPT ![c] = "SessionGameRoomLobby"]
                    ELSE v.state
        /\ gameRoomDB' = v.rows
        /\ activeRooms' = l.rooms
        /\ currentRoomId' = l.ids
        /\ roomDB' = l.rows
        /\ UNCHANGED <<phase, uid, totpDB>>
    BY <1>9, Zenon DEF GameRoomJoin, l, v
  <2>4. GameOK(activeGameRooms, currentGameRoomId, state, uid, gameRoomDB)'
    <3>1. CASE ok
      <4>1. GameOK([v.rooms EXCEPT ![g].members = Append(@, c)],
                   [v.ids EXCEPT ![c] = g],
                   [v.state EXCEPT ![c] = "SessionGameRoomLobby"], uid, v.rows)
        BY <1>4, <2>2, <3>1, EnterGameOK
      <4> QED BY <2>3, <3>1, <4>1
    <3>2. CASE ~ok
      BY <1>4, <2>3, <3>2
    <3> QED BY <3>1, <3>2
  <2>5. PlaceOK(currentRoomId, currentGameRoomId, state)'
    BY <1>5, <1>7, <2>3
  <2> QED BY <1>1, <2>3, <2>4, <2>5 DEF Parts
<1>10. CASE GameRoomQuit(c)
  BY <1>4, <1>6, <1>10 DEF GameRoomQuit, Parts, roomVars, v
<1> QED BY <1>8, <1>9, <1>10

(* gameRoom.c:363, gameRunner.c:181: a game starts and ends.                 *)
LEMMA GameOfRoomOK ==
    ASSUME Parts,
           \/ \E c \in Clients, g \in GameRoomIds : GameRoomStart(c, g)
           \/ \E g \in GameRoomIds : GameThreadEnds(g)
    PROVE  Parts'
<1> USE DEF sessionVars, roomVars
<1>0. CurrentGameOK /\ GameTypeOK(activeGameRooms, currentGameRoomId, state,
                                  uid, gameRoomDB)
  BY DEF Parts, CurrentGameOK, GameOK
<1>1. ASSUME NEW c \in Clients, NEW g \in GameRoomIds, GameRoomStart(c, g)
      PROVE  Parts'
  <2>1. GameOK(activeGameRooms, currentGameRoomId, state, uid, gameRoomDB)'
    BY <1>0, <1>1, StartGameOK DEF GameRoomStart
  <2>2. \A d \in Clients : state'[d] = "Closed" => state[d] = "Closed"
    BY <1>1 DEF GameRoomStart
  <2>3. PlaceOK(currentRoomId, currentGameRoomId, state)'
    BY <1>1, <2>2 DEF GameRoomStart, Parts, PlaceOK
  <2> QED BY <1>1, <2>1, <2>3 DEF GameRoomStart, Parts, ChatOK
<1>2. ASSUME NEW g \in GameRoomIds, GameThreadEnds(g)  PROVE Parts'
  <2>1. activeGameRooms' \in [DOMAIN activeGameRooms -> GameRoomType]
    <3>1. activeGameRooms' = [activeGameRooms EXCEPT ![g] =
                                [activeGameRooms[g] EXCEPT !.gameRunning = FALSE]]
      BY <1>2 DEF GameThreadEnds
    <3>2. g \in DOMAIN activeGameRooms /\ activeGameRooms[g] \in GameRoomType
      BY <1>0, <1>2 DEF GameThreadEnds, GameTypeOK
    <3>3. [activeGameRooms[g] EXCEPT !.gameRunning = FALSE] \in GameRoomType
      BY <3>2 DEF GameRoomType
    <3> QED BY <1>0, <3>1, <3>3 DEF GameTypeOK
  <2>2. \A k \in DOMAIN activeGameRooms : \E b \in BOOLEAN :
          activeGameRooms'[k] = [activeGameRooms[k] EXCEPT !.gameRunning = b]
    <3> TAKE k \in DOMAIN activeGameRooms
    <3>1. CASE k = g
      BY <1>2, <3>1 DEF GameThreadEnds
    <3>2. CASE k # g
      <4>1. activeGameRooms[k] =
              [activeGameRooms[k] EXCEPT !.gameRunning =
                 activeGameRooms[k].gameRunning]
        BY <1>0 DEF GameTypeOK, GameRoomType
      <4>2. activeGameRooms[k].gameRunning \in BOOLEAN
        BY <1>0 DEF GameTypeOK, GameRoomType
      <4> QED BY <1>2, <3>2, <4>1, <4>2 DEF GameThreadEnds
    <3> QED BY <3>1, <3>2
  <2>3. GameOK(activeGameRooms, currentGameRoomId, state, uid, gameRoomDB)'
    BY <1>0, <1>2, <2>1, <2>2, GameRunningOK DEF GameThreadEnds
  <2> QED BY <1>2, <2>3 DEF GameThreadEnds, Parts
<1> QED BY <1>1, <1>2

(* server.c:497, clientDisconnect.                                           *)
LEMMA DisconnectOK ==
    ASSUME Parts, NEW c \in Clients, ClientDisconnect(c)
    PROVE  Parts'
<1> DEFINE l == LeaveRoom(c)
           v == LeaveGameRoom(c)
<1>1. /\ ChatOK(l.rooms, l.ids)
      /\ l.ids = [currentRoomId EXCEPT ![c] = NoRoom]
      /\ l.rows \subseteq RoomIds
  BY LeaveRoomOK DEF Parts
<1>2. LeftGameRoom(c, v)
  BY LeaveGameRoomOK DEF Parts, CurrentGameOK
<1> HIDE DEF l, v
<1>3. /\ activeGameRooms' = v.rooms
      /\ currentGameRoomId' = v.ids
      /\ state' = [v.state EXCEPT ![c] = "Closed"]
      /\ gameRoomDB' = v.rows
      /\ activeRooms' = l.rooms
      /\ currentRoomId' = l.ids
      /\ roomDB' = l.rows
      /\ uid' = [uid EXCEPT ![c] = NoUid]
      /\ UNCHANGED <<phase, totpDB>>
  BY Zenon DEF ClientDisconnect, l, v
<1>4. GameOK(activeGameRooms, currentGameRoomId, state, uid, gameRoomDB)'
  <2>1. GameOK(v.rooms, v.ids, [v.state EXCEPT ![c] = "Closed"],
               [uid EXCEPT ![c] = NoUid], v.rows)
    BY <1>2, SessionOK DEF LeftGameRoom, InGameRoom, LoggedOut, SessionStates
  <2> QED BY <1>3, <2>1
<1>5. PlaceOK(currentRoomId, currentGameRoomId, state)'
  <2>1. /\ v.state \in [Clients -> SessionStates]
        /\ currentRoomId \in [Clients -> RoomIds \cup {NoRoom}]
    BY <1>2 DEF LeftGameRoom, GameOK, GameTypeOK, Parts, ChatOK
  <2> QED BY <1>1, <1>2, <1>3, <2>1 DEF LeftGameRoom, Parts, PlaceOK
<1> QED BY <1>1, <1>3, <1>4, <1>5 DEF Parts

(* server.c:126: a new process, with the databases of the old one.           *)
LEMMA LaunchOK ==
    ASSUME Parts, Launch
    PROVE  Parts'
<1> USE SessionServerAssumption DEF Launch, Parts
<1>1. ChatOK(activeRooms, currentRoomId)'
  BY DEF ChatOK
<1>2. GameOK(activeGameRooms, currentGameRoomId, state, uid, gameRoomDB)'
  BY DEF GameOK, GameTypeOK, InGameRoom, LoggedOut, SessionStates
<1>3. PlaceOK(currentRoomId, currentGameRoomId, state)'
  BY DEF PlaceOK
<1> QED BY <1>1, <1>2, <1>3

-----------------------------------------------------------------------------
(* Theorems *)

(* server.c, auth.c, room.c, gameRoom.c: no request, disconnection, end of a *)
(* game, shutdown or restart breaks the invariant.                           *)
THEOREM StepKeepsIInv == IInv /\ [Next]_vars => IInv'
<1> SUFFICES ASSUME Parts, [Next]_vars PROVE Parts'
  <2>1. IInv' <=> Parts'
    BY IInvIsParts, PTL
  <2> QED BY <2>1, IInvIsParts
<1>1. ASSUME NEW c \in Clients, Request(c)  PROVE Parts'
  <2>1. CASE DropClient(c)
    BY <2>1, DisconnectOK DEF DropClient
  <2>2. CASE \E g \in GameRoomIds : GameRoomStart(c, g)
    BY <2>2, GameOfRoomOK
  <2> QED BY <1>1, <2>1, <2>2, SessionActionsOK, RoomActionsOK,
             GameRoomActionsOK DEF Request
<1>2. ASSUME NEW c \in Clients, CleanupClient(c)  PROVE Parts'
  BY <1>2, DisconnectOK DEF CleanupClient
<1>3. ASSUME NEW g \in GameRoomIds, GameThreadEnds(g)  PROVE Parts'
  BY <1>3, GameOfRoomOK
<1>4. CASE Shutdown \/ CleanupRooms
  BY <1>4 DEF Shutdown, CleanupRooms, sessionVars, Parts
<1>5. CASE CleanupDone
  BY <1>5 DEF CleanupDone, sessionVars, Parts
<1>6. CASE Launch
  BY <1>6, LaunchOK
<1>7. CASE UNCHANGED vars
  BY <1>7 DEF vars, Parts
<1> QED BY <1>1, <1>2, <1>3, <1>4, <1>5, <1>6, <1>7 DEF Next

(* server.c: the invariant holds in every state of every run of the server.  *)
THEOREM InvariantIInv == Spec => []IInv
<1>1. Init => IInv
  BY InitOK, IInvIsParts
<1> QED BY <1>1, StepKeepsIInv, PTL DEF Spec

(* server.h: every variable keeps the shape of its C declaration, whatever   *)
(* the clients do.                                                           *)
THEOREM TypeCorrect == Spec => []TypeOK
<1>1. IInv => TypeOK
  BY DEF IInv
<1> QED BY <1>1, InvariantIInv, PTL

(* room.c: the members array of an active chat room and the currentRoomId of *)
(* the sessions always agree, for any number of clients and rooms.           *)
THEOREM ChatRoomsCorrect == Spec => []ChatRoomsMatchSessions
<1>1. IInv => ChatRoomsMatchSessions
  BY DEF IInv, RoomInv
<1> QED BY <1>1, InvariantIInv, PTL

(* gameRoom.c: the members of a game room, the ids in the sessions and the   *)
(* states of the sessions always agree.                                      *)
THEOREM GameRoomsCorrect == Spec => []GameRoomsMatchSessions
<1>1. IInv => GameRoomsMatchSessions
  BY DEF IInv, RoomInv
<1> QED BY <1>1, InvariantIInv, PTL

(* gameRoom.c, room.c: nobody in a game room is in a chat room.              *)
THEOREM PlaceCorrect == Spec => []OnePlaceAtATime
<1>1. IInv => OnePlaceAtATime
  BY DEF IInv, RoomInv
<1> QED BY <1>1, InvariantIInv, PTL

(* gameRoom.c:86: a game room closes with the last session of its host's     *)
(* user in it.                                                               *)
THEOREM HostCorrect == Spec => []HostSeated
<1>1. IInv => HostSeated
  BY DEF IInv, RoomInv
<1> QED BY <1>1, InvariantIInv, PTL

(* gameRoom.c:296: an active game room has its row, so that its id is not    *)
(* drawn for another room.                                                   *)
THEOREM RowsCorrect == Spec => []ActiveGameRoomsHaveRows
<1>1. IInv => ActiveGameRoomsHaveRows
  BY DEF IInv, RoomInv
<1> QED BY <1>1, InvariantIInv, PTL

(* auth.c: a session past the login prompt has a user.                       *)
THEOREM LoginCorrect == Spec => []LoggedIn
<1>1. IInv => LoggedIn
  BY DEF IInv
<1> QED BY <1>1, InvariantIInv, PTL
-----------------------------------------------------------------------------
(* The refinement of RoomService *)

(* The places as the ids in the sessions tell them.                          *)
PlaceOf(ids, gids) ==
    [c \in Clients |-> IF ids[c] # NoRoom THEN <<"chat", ids[c]>>
                       ELSE IF gids[c] # NoRoom THEN <<"game", gids[c]>>
                       ELSE Nowhere]

HostOf(rooms)    == [g \in DOMAIN rooms |-> rooms[g].hostUid]
PlayingOf(rooms) == {g \in DOMAIN rooms : rooms[g].state = "GameRoomPlaying"}

(* A members array has as many seats as members.                             *)
LEMMA MembersFit ==
    ASSUME NEW S, NEW ms \in Seq(S)
    PROVE  /\ Cardinality(Range(ms)) \in Nat
           /\ Cardinality(Range(ms)) <= Len(ms)
<1>1. Len(ms) \in Nat /\ DOMAIN ms = 1..Len(ms)
  BY LenProperties
<1>2. ms \in Surjection(1..Len(ms), Range(ms))
  BY <1>1 DEF Surjection, Range
<1>3. IsFiniteSet(1..Len(ms)) /\ Cardinality(1..Len(ms)) = Len(ms)
  <2>1. 1 \in Int /\ Len(ms) \in Int
    BY <1>1
  <2>2. /\ IsFiniteSet(1..Len(ms))
        /\ Cardinality(1..Len(ms)) =
             IF 1 > Len(ms) THEN 0 ELSE Len(ms) - 1 + 1
    BY <2>1, FS_Interval, Zenon
  <2> QED BY <1>1, <2>2
<1>4. /\ IsFiniteSet(Range(ms))
      /\ Cardinality(Range(ms)) <= Cardinality(1..Len(ms))
  BY <1>2, <1>3, FS_Surjection, Zenon
<1>5. Cardinality(Range(ms)) \in Nat
  BY <1>4, FS_CardinalityType, Zenon
<1> QED BY <1>3, <1>4, <1>5

(* room.c, gameRoom.c: the members arrays and the ids name the same places.  *)
LEMMA PlacesAreIds ==
    Parts => placeBar = PlaceOf(currentRoomId, currentGameRoomId)
<1> SUFFICES ASSUME Parts, NEW c \in Clients
             PROVE  placeBar[c] = PlaceOf(currentRoomId, currentGameRoomId)[c]
  BY DEF placeBar, PlaceOf
<1>1. \A r \in DOMAIN activeRooms :
        c \in Range(activeRooms[r]) <=> currentRoomId[c] = r
  BY DEF Parts, ChatOK
<1>2. currentRoomId[c] # NoRoom => currentRoomId[c] \in DOMAIN activeRooms
  BY DEF Parts, ChatOK
<1>3. \A g \in DOMAIN activeGameRooms :
        c \in Range(activeGameRooms[g].members) <=> currentGameRoomId[c] = g
  BY SessionServerAssumption DEF Parts, GameOK, GameTypeOK, SeatsOK
<1>4. currentGameRoomId[c] # NoRoom =>
        currentGameRoomId[c] \in DOMAIN activeGameRooms
  BY DEF Parts, GameOK
<1>5. NoRoom \notin DOMAIN activeRooms /\ NoRoom \notin DOMAIN activeGameRooms
  BY SessionServerAssumption DEF Parts, ChatOK, GameOK, GameTypeOK
<1>6. CASE currentRoomId[c] # NoRoom
  <2>1. (CHOOSE r \in DOMAIN activeRooms : c \in Range(activeRooms[r]))
          = currentRoomId[c]
    BY <1>1, <1>2, <1>6
  <2> QED BY <1>1, <1>2, <1>6, <2>1 DEF placeBar, PlaceOf
<1>7. CASE currentRoomId[c] = NoRoom /\ currentGameRoomId[c] # NoRoom
  <2>1. (CHOOSE g \in DOMAIN activeGameRooms :
           c \in Range(activeGameRooms[g].members)) = currentGameRoomId[c]
    BY <1>3, <1>4, <1>7
  <2> QED BY <1>1, <1>3, <1>4, <1>5, <1>7, <2>1 DEF placeBar, PlaceOf
<1>8. CASE currentRoomId[c] = NoRoom /\ currentGameRoomId[c] = NoRoom
  BY <1>1, <1>3, <1>5, <1>8 DEF placeBar, PlaceOf
<1> QED BY <1>6, <1>7, <1>8

(* The room of c closes with c: c is of its host's user.                     *)
Closes(c) == /\ currentGameRoomId[c] # NoRoom
             /\ activeGameRooms[currentGameRoomId[c]].hostUid = uid[c]

(* gameRoom.c:86: what leaving a game room does to the rooms and to others.  *)
LEMMA LeavingShape ==
    ASSUME Parts, NEW c \in Clients, NEW v, v = LeaveGameRoom(c)
    PROVE  LET g == currentGameRoomId[c]
           IN  /\ DOMAIN v.rooms =
                    DOMAIN activeGameRooms \ (IF Closes(c) THEN {g} ELSE {})
               /\ \A h \in DOMAIN v.rooms :
                    /\ v.rooms[h].hostUid = activeGameRooms[h].hostUid
                    /\ v.rooms[h].state = activeGameRooms[h].state
               /\ \A d \in Clients \ {c} :
                    v.ids[d] = IF Closes(c) /\ currentGameRoomId[d] = g
                               THEN NoRoom ELSE currentGameRoomId[d]
<1> DEFINE g == currentGameRoomId[c]
<1>1. /\ activeGameRooms \in [DOMAIN activeGameRooms -> GameRoomType]
      /\ g # NoRoom => g \in DOMAIN activeGameRooms
      /\ NoRoom \notin DOMAIN activeGameRooms
      /\ currentGameRoomId \in [Clients -> GameRoomIds \cup {NoRoom}]
  BY SessionServerAssumption DEF Parts, GameOK, GameTypeOK
<1>2. CASE g = NoRoom
  <2>1. v.rooms = activeGameRooms /\ v.ids = currentGameRoomId
    BY <1>1, <1>2 DEF LeaveGameRoom
  <2> QED BY <1>2, <2>1 DEF Closes
<1>3. CASE g # NoRoom /\ activeGameRooms[g].hostUid = uid[c]
  <2>1. v = DissolveGameRoom(g)
    BY <1>1, <1>3 DEF LeaveGameRoom
  <2>2. \A d \in Clients : v.ids[d] = IF currentGameRoomId[d] = g THEN NoRoom
                                      ELSE currentGameRoomId[d]
    BY <1>1, <1>3, <2>1, DissolveOK DEF Parts, CurrentGameOK
  <2>3. v.rooms = Drop(activeGameRooms, g)
    BY <2>1 DEF DissolveGameRoom
  <2>4. /\ DOMAIN v.rooms = DOMAIN activeGameRooms \ {g}
        /\ \A h \in DOMAIN v.rooms : v.rooms[h] = activeGameRooms[h]
    BY <2>3 DEF Drop, Restrict
  <2> QED BY <1>3, <2>2, <2>4 DEF Closes
<1>4. CASE g # NoRoom /\ activeGameRooms[g].hostUid # uid[c]
  <2> DEFINE left == RemoveFirst(activeGameRooms[g].members, c)
  <2>1. v = LeaveAsMember(c, g)
    BY <1>1, <1>4 DEF LeaveGameRoom
  <2>2. left # <<>>
    <3>1. /\ activeGameRooms[g].members \in Seq(Clients)
          /\ IsInjective(activeGameRooms[g].members)
          /\ c \in Range(activeGameRooms[g].members)
          /\ \E h \in Range(activeGameRooms[g].members) :
               uid[h] = activeGameRooms[g].hostUid
      BY <1>1, <1>4 DEF Parts, GameOK, SeatsOK, GameRoomType, MemberList
    <3>2. Range(left) = Range(activeGameRooms[g].members) \ {c}
      BY <3>1, RemoveFirstMember
    <3>3. PICK h \in Range(left) : uid[h] = activeGameRooms[g].hostUid
      BY <1>4, <3>1, <3>2
    <3> HIDE DEF left
    <3>4. Range(<<>>) = {}
      BY DEF Range
    <3> QED BY <3>3, <3>4
  <2>3. /\ v.rooms = [activeGameRooms EXCEPT ![g].members = left]
        /\ v.ids = [currentGameRoomId EXCEPT ![c] = NoRoom]
    BY <2>1, <2>2 DEF LeaveAsMember
  <2> HIDE DEF left
  <2>4. \A d \in Clients \ {c} : v.ids[d] = currentGameRoomId[d]
    BY <1>1, <2>3
  <2>5. /\ DOMAIN v.rooms = DOMAIN activeGameRooms
        /\ \A h \in DOMAIN v.rooms :
             /\ v.rooms[h].hostUid = activeGameRooms[h].hostUid
             /\ v.rooms[h].state = activeGameRooms[h].state
    BY <1>1, <2>3 DEF GameRoomType
  <2> QED BY <1>4, <2>4, <2>5 DEF Closes
<1> QED BY <1>2, <1>3, <1>4

(* The rooms that close with c, as the service knows them.                   *)
LEMMA ClosingIs ==
    ASSUME Parts, NEW c \in Clients
    PROVE  Service!Closing(c) = IF Closes(c) THEN {currentGameRoomId[c]} ELSE {}
<1>1. /\ placeBar[c] = PlaceOf(currentRoomId, currentGameRoomId)[c]
      /\ currentGameRoomId[c] # NoRoom =>
           /\ currentGameRoomId[c] \in DOMAIN activeGameRooms
           /\ currentRoomId[c] = NoRoom
      /\ NoRoom \notin DOMAIN activeGameRooms
  BY PlacesAreIds, SessionServerAssumption
     DEF Parts, GameOK, GameTypeOK, PlaceOK
<1>2. ASSUME NEW g \in DOMAIN activeGameRooms
      PROVE  placeBar[c] = <<"game", g>> <=> currentGameRoomId[c] = g
  BY <1>1 DEF PlaceOf, Nowhere
<1> QED BY <1>1, <1>2 DEF Service!Closing, Service!Game, Closes

(* Where everybody is after a handler that made c leave, by what it left of  *)
(* the ids.                                                                  *)
LEMMA LeavingMoves ==
    ASSUME Parts, NEW c \in Clients, NEW ids, NEW gids,
           \A d \in Clients \ {c} : ids[d] = currentRoomId[d],
           \A d \in Clients \ {c} : gids[d] = LeaveGameRoom(c).ids[d]
    PROVE  PlaceOf(ids, gids) = Service!Moved(c, PlaceOf(ids, gids)[c])
<1> DEFINE p == PlaceOf(ids, gids)[c]
<1>1. ASSUME NEW d \in Clients, d # c
      PROVE  PlaceOf(ids, gids)[d] = Service!Moved(c, p)[d]
  <2>1. /\ placeBar[d] = PlaceOf(currentRoomId, currentGameRoomId)[d]
        /\ currentGameRoomId[d] # NoRoom => currentRoomId[d] = NoRoom
    BY PlacesAreIds DEF Parts, PlaceOK
  <2>2. /\ ids[d] = currentRoomId[d]
        /\ gids[d] = IF Closes(c) /\ currentGameRoomId[d] = currentGameRoomId[c]
                     THEN NoRoom ELSE currentGameRoomId[d]
    BY <1>1, LeavingShape
  <2>3. Closes(c) => currentGameRoomId[c] # NoRoom
    BY DEF Closes
  <2>4. Service!Moved(c, p)[d] =
          IF Closes(c) /\ placeBar[d] = <<"game", currentGameRoomId[c]>>
          THEN Nowhere ELSE placeBar[d]
    BY <1>1, ClosingIs DEF Service!Moved, Service!Game
  <2> QED BY <2>1, <2>2, <2>3, <2>4 DEF PlaceOf, Nowhere
<1>2. Service!Moved(c, p)[c] = p
  BY DEF Service!Moved
<1> QED BY <1>1, <1>2 DEF PlaceOf, Service!Moved

(* The step of a handler that made c leave, by where c is after it.          *)
LEMMA LeavingServes ==
    ASSUME Parts, NEW c \in Clients, NEW v, v = LeaveGameRoom(c)
    PROVE  LET K == Service!Closing(c)
               hosts == HostOf(activeGameRooms)
           IN  /\ DOMAIN v.rooms = DOMAIN hosts \ K
               /\ HostOf(v.rooms) = [g \in DOMAIN hosts \ K |-> hosts[g]]
               /\ PlayingOf(v.rooms) = PlayingOf(activeGameRooms) \ K
<1> DEFINE K == Service!Closing(c)
<1>1. /\ DOMAIN v.rooms = DOMAIN activeGameRooms \ K
      /\ \A h \in DOMAIN v.rooms :
           /\ v.rooms[h].hostUid = activeGameRooms[h].hostUid
           /\ v.rooms[h].state = activeGameRooms[h].state
  BY LeavingShape, ClosingIs
<1> HIDE DEF K
<1>2. HostOf(v.rooms) = [g \in DOMAIN HostOf(activeGameRooms) \ K |->
                           HostOf(activeGameRooms)[g]]
  BY <1>1 DEF HostOf
<1>3. PlayingOf(v.rooms) = PlayingOf(activeGameRooms) \ K
  BY <1>1 DEF PlayingOf
<1>4. DOMAIN HostOf(activeGameRooms) = DOMAIN activeGameRooms
  BY DEF HostOf
<1> QED BY <1>1, <1>2, <1>3, <1>4 DEF K

(* The variables of the service.                                             *)
LEMMA ServiceVars ==
    /\ Service!vars = <<uid, placeBar, HostOf(activeGameRooms),
                        PlayingOf(activeGameRooms)>>
    /\ Parts' => placeBar' = PlaceOf(currentRoomId', currentGameRoomId')
<1>1. (Parts => placeBar = PlaceOf(currentRoomId, currentGameRoomId))'
  BY PlacesAreIds, PTL
<1>2. Service!vars = <<uid, placeBar, HostOf(activeGameRooms),
                       PlayingOf(activeGameRooms)>>
  BY DEF Service!vars, HostOf, PlayingOf
<1>3. PlaceOf(currentRoomId, currentGameRoomId)' =
        PlaceOf(currentRoomId', currentGameRoomId')
  BY DEF PlaceOf
<1> QED BY <1>1, <1>2, <1>3

(* Steps of which the service sees nothing.                                  *)
LEMMA UnseenStep ==
    ASSUME Parts, Parts', UNCHANGED <<uid, currentRoomId, currentGameRoomId>>,
           HostOf(activeGameRooms') = HostOf(activeGameRooms),
           PlayingOf(activeGameRooms') = PlayingOf(activeGameRooms)
    PROVE  UNCHANGED Service!vars
<1>1. placeBar' = placeBar
  BY ServiceVars, PlacesAreIds
<1>2. HostOf(activeGameRooms)' = HostOf(activeGameRooms)
      /\ PlayingOf(activeGameRooms)' = PlayingOf(activeGameRooms)
  BY DEF HostOf, PlayingOf
<1>3. Service!vars' = <<uid', placeBar', HostOf(activeGameRooms)',
                        PlayingOf(activeGameRooms)'>>
  BY DEF Service!vars, HostOf, PlayingOf
<1> QED BY <1>1, <1>2, <1>3, ServiceVars

(* c leaves, and enters nothing.                                             *)
LEMMA LeaveServes ==
    ASSUME Parts, Parts', NEW c \in Clients,
           \A d \in Clients \ {c} : currentRoomId'[d] = currentRoomId[d],
           \A d \in Clients \ {c} :
               currentGameRoomId'[d] = LeaveGameRoom(c).ids[d],
           currentRoomId'[c] = NoRoom, currentGameRoomId'[c] = NoRoom,
           activeGameRooms' = LeaveGameRoom(c).rooms,
           uid' \in {uid, [uid EXCEPT ![c] = NoUid]}
    PROVE  Service!Leave(c)
<1> DEFINE K == Service!Closing(c)
<1>1. placeBar' = Service!Moved(c, Nowhere)
  <2> DEFINE after == PlaceOf(currentRoomId', currentGameRoomId')
  <2>1. after = Service!Moved(c, after[c])
    BY LeavingMoves
  <2>2. after[c] = Nowhere
    BY DEF PlaceOf
  <2> QED BY <2>1, <2>2, ServiceVars
<1>2. /\ HostOf(activeGameRooms') =
           [g \in DOMAIN HostOf(activeGameRooms) \ K |->
              HostOf(activeGameRooms)[g]]
      /\ PlayingOf(activeGameRooms') = PlayingOf(activeGameRooms) \ K
  BY LeavingServes
<1> QED BY <1>1, <1>2 DEF Service!Leave, Service!Without, HostOf, PlayingOf

(* RoomService counts as FiniteSets does.                                    *)
LEMMA ServiceCounts ==
    ASSUME NEW S
    PROVE  Service!Cardinality(S) = Cardinality(S)
BY Zenon DEF Service!Cardinality, Cardinality

(* Who has the room r for its id.                                            *)
Seated(ids, r) == {d \in Clients : ids[d] = r}

(* room.c: a chat room that had a seat left when c left its old one.         *)
LEMMA ChatSeat ==
    ASSUME NEW rooms, NEW ids, ChatOK(rooms, ids), NEW r \in RoomIds,
           NEW ms, ms = IF r \in DOMAIN rooms THEN rooms[r] ELSE <<>>,
           ~(Len(ms) >= MaxMembers)
    PROVE  Cardinality(Seated(ids, r)) < MaxMembers
<1>1. ms \in Seq(Clients)
  BY DEF ChatOK, MemberList
<1>2. Seated(ids, r) = Range(ms)
  <2>1. CASE r \in DOMAIN rooms
    <3>1. Range(ms) \subseteq Clients
      BY <1>1, RangeOfSeq
    <3> QED BY <2>1, <3>1 DEF ChatOK, Seated
  <2>2. CASE r \notin DOMAIN rooms
    BY <2>2 DEF ChatOK, Range, Seated
  <2> QED BY <2>1, <2>2
<1>3. /\ Cardinality(Range(ms)) \in Nat /\ Len(ms) \in Nat
      /\ Cardinality(Range(ms)) <= Len(ms)
  BY <1>1, MembersFit, LenProperties
<1>4. Len(ms) < MaxMembers
  BY <1>1, <1>3, SessionServerAssumption
<1>5. Cardinality(Seated(ids, r)) = Cardinality(Range(ms))
  BY <1>2
<1> QED BY <1>3, <1>4, <1>5, SessionServerAssumption

(* gameRoom.c: the same for a game room.                                     *)
LEMMA GameSeat ==
    ASSUME NEW rooms, NEW ids, NEW st, NEW rows, GameOK(rooms, ids, st, uid, rows),
           NEW g \in GameRoomIds, Joinable(rooms, g)
    PROVE  Cardinality(Seated(ids, g)) < MaxMembers
<1> DEFINE ms == rooms[g].members
<1>1. g \in DOMAIN rooms /\ ms \in Seq(Clients)
  BY DEF Joinable, GameOK, GameTypeOK, GameRoomType, MemberList
<1>2. Seated(ids, g) = Range(ms)
  <2>1. Range(ms) \subseteq Clients
    BY <1>1, RangeOfSeq
  <2> QED BY <1>1, <2>1, SessionServerAssumption DEF GameOK, SeatsOK, Seated
<1>3. Len(ms) < MaxMembers
  BY DEF Joinable
<1> HIDE DEF ms
<1>4. /\ Cardinality(Range(ms)) \in Nat /\ Len(ms) \in Nat
      /\ Cardinality(Range(ms)) <= Len(ms)
  BY <1>1, MembersFit, LenProperties
<1> QED BY <1>2, <1>3, <1>4, SessionServerAssumption

(* server.c, auth.c: the requests of a session that is in no game room or    *)
(* changes no room.                                                          *)
LEMMA SessionActionsServe ==
    ASSUME Parts, Parts', NEW c \in Clients,
           \/ AcceptClient(c) \/ KeyExchange(c)
           \/ \E u \in Uids : Login(c, u)
           \/ TOTPSetup(c)
           \/ \E codeIsRight \in BOOLEAN : TOTPVerify(c, codeIsRight)
           \/ \E r \in RoomIds : RoomCreate(c, r)
    PROVE  [Service!Next]_(Service!vars)
<1>1. CASE \E u \in Uids : Login(c, u)
  <2>1. PICK u \in Uids : Login(c, u)
    BY <1>1
  <2>2. /\ uid' = [uid EXCEPT ![c] = u]
        /\ UNCHANGED <<currentRoomId, currentGameRoomId, activeGameRooms>>
    BY <2>1 DEF Login, roomVars, gameVars
  <2>3. currentGameRoomId[c] = NoRoom
    BY <2>1, ReceivedIn, OutsideGameRooms DEF Login, InGameRoom
  <2>4. \A g \in GameRoomIds : placeBar[c] # <<"game", g>>
    BY <2>3, PlacesAreIds DEF PlaceOf, Nowhere
  <2>5. /\ placeBar' = placeBar
        /\ HostOf(activeGameRooms)' = HostOf(activeGameRooms)
        /\ PlayingOf(activeGameRooms)' = PlayingOf(activeGameRooms)
    BY <2>2, PlacesAreIds, ServiceVars DEF HostOf, PlayingOf
  <2>6. Service!ChangeUser(c, u)
    BY <2>2, <2>4, <2>5 DEF Service!ChangeUser, Service!Game, HostOf, PlayingOf
  <2> QED BY <2>6 DEF Service!Next
<1>2. CASE ~\E u \in Uids : Login(c, u)
  <2>1. UNCHANGED <<uid, currentRoomId, currentGameRoomId, activeGameRooms>>
    BY <1>2 DEF AcceptClient, KeyExchange, TOTPSetup, TOTPVerify, RoomCreate,
                roomVars, gameVars, sessionVars
  <2> QED BY <2>1, UnseenStep
<1> QED BY <1>1, <1>2

(* room.c: joining and quitting a chat room.                                 *)
LEMMA RoomActionsServe ==
    ASSUME Parts, Parts', NEW c \in Clients,
           (\E r \in RoomIds : RoomJoin(c, r)) \/ RoomQuit(c)
    PROVE  Service!Next
<1> DEFINE l == LeaveRoom(c)
           v == LeaveGameRoom(c)
<1>1. /\ ChatOK(l.rooms, l.ids)
      /\ l.ids = [currentRoomId EXCEPT ![c] = NoRoom]
      /\ currentRoomId \in [Clients -> RoomIds \cup {NoRoom}]
  BY LeaveRoomOK DEF Parts, ChatOK
<1>2. /\ currentGameRoomId[c] = NoRoom
      /\ UNCHANGED <<uid, currentGameRoomId, activeGameRooms>>
  BY ReceivedIn, OutsideGameRooms DEF RoomJoin, RoomQuit, InGameRoom, gameVars
<1>3. /\ v.rooms = activeGameRooms /\ v.ids = currentGameRoomId
  BY <1>2, SessionServerAssumption DEF LeaveGameRoom, Parts, GameOK, GameTypeOK
<1> HIDE DEF l, v
<1>4. ASSUME currentRoomId' = l.ids  PROVE Service!Next
  <2>1. Service!Leave(c)
    BY <1>1, <1>2, <1>3, <1>4, LeaveServes DEF v
  <2> QED BY <2>1 DEF Service!Next
<1>5. ASSUME NEW r \in RoomIds, RoomJoin(c, r)  PROVE Service!Next
  <2> DEFINE ms   == IF r \in DOMAIN l.rooms THEN l.rooms[r] ELSE <<>>
             full == Len(ms) >= MaxMembers
  <2>1. currentRoomId' = IF full THEN l.ids ELSE [l.ids EXCEPT ![c] = r]
    BY <1>5, Zenon DEF RoomJoin, l
  <2>2. CASE ~full
    <3>1. Cardinality(Seated(l.ids, r)) < MaxMembers
      BY <1>1, <2>2, ChatSeat
    <3>2. /\ currentRoomId'[c] = r
          /\ \A d \in Clients \ {c} : currentRoomId'[d] = currentRoomId[d]
      BY <1>1, <2>1, <2>2
    <3>3. Service!In(Service!Chat(r)) \ {c} = Seated(l.ids, r)
      <4>1. r # NoRoom
        BY SessionServerAssumption
      <4> QED BY <1>1, <4>1, PlacesAreIds
              DEF Service!In, Service!Chat, PlaceOf, Nowhere, Seated
    <3>4. Cardinality(Service!In(Service!Chat(r)) \ {c}) < MaxMembers
      BY <3>1, <3>3
    <3> DEFINE after == PlaceOf(currentRoomId', currentGameRoomId')
    <3>5. after = Service!Moved(c, after[c])
      BY <1>2, <1>3, <3>2, LeavingMoves DEF v
    <3>6. after[c] = Service!Chat(r)
      BY <3>2, SessionServerAssumption DEF PlaceOf, Service!Chat
    <3>7. placeBar' = Service!Moved(c, Service!Chat(r))
      BY <3>5, <3>6, ServiceVars
    <3>8. /\ HostOf(activeGameRooms)' = Service!Without(Service!Closing(c))
          /\ PlayingOf(activeGameRooms)' =
               PlayingOf(activeGameRooms) \ Service!Closing(c)
      BY <1>2, <1>3, LeavingServes DEF v, HostOf, PlayingOf, Service!Without
    <3>9. Service!EnterChat(c, r)
      <4>1. uid' = uid
        BY <1>2
      <4>2. [g \in DOMAIN activeGameRooms |-> activeGameRooms[g].hostUid]'
              = Service!Without(Service!Closing(c))
        BY <3>8 DEF HostOf
      <4>3. {g \in DOMAIN activeGameRooms :
               activeGameRooms[g].state = "GameRoomPlaying"}'
              = {g \in DOMAIN activeGameRooms :
                   activeGameRooms[g].state = "GameRoomPlaying"}
                  \ Service!Closing(c)
        BY <3>8 DEF PlayingOf
      <4> QED BY <3>7, <3>4, ServiceCounts, <4>1, <4>2, <4>3 DEF Service!EnterChat
    <3> QED BY <3>9 DEF Service!Next
  <2> QED BY <1>4, <2>1, <2>2
<1> QED BY <1>4, <1>5, Zenon DEF RoomQuit, l

(* gameRoom.c: a handler that made c leave its rooms and seated it in the    *)
(* game room g.                                                              *)
LEMMA SeatingMoves ==
    ASSUME Parts, Parts', NEW c \in Clients, NEW g \in GameRoomIds,
           \A d \in Clients \ {c} : currentRoomId'[d] = currentRoomId[d],
           \A d \in Clients \ {c} :
               currentGameRoomId'[d] = LeaveGameRoom(c).ids[d],
           currentRoomId'[c] = NoRoom, currentGameRoomId'[c] = g
    PROVE  placeBar' = Service!Moved(c, Service!Game(g))
<1> DEFINE after == PlaceOf(currentRoomId', currentGameRoomId')
<1>1. after = Service!Moved(c, after[c])
  BY LeavingMoves
<1>2. after[c] = Service!Game(g)
  BY SessionServerAssumption DEF PlaceOf, Service!Game
<1> QED BY <1>1, <1>2, ServiceVars

(* gameRoom.c: creating, joining and quitting a game room.                   *)
LEMMA GameRoomActionsServe ==
    ASSUME Parts, Parts', NEW c \in Clients,
           \/ \E g \in GameRoomIds, created \in BOOLEAN :
                GameRoomCreate(c, g, created)
           \/ \E g \in GameRoomIds : GameRoomJoin(c, g)
           \/ GameRoomQuit(c)
    PROVE  Service!Next
<1> DEFINE l == LeaveRoom(c)
           v == LeaveGameRoom(c)
           K == Service!Closing(c)
<1>1. /\ l.ids = [currentRoomId EXCEPT ![c] = NoRoom]
      /\ currentRoomId \in [Clients -> RoomIds \cup {NoRoom}]
      /\ GameOK(v.rooms, v.ids, v.state, uid, v.rows)
      /\ v.ids \in [Clients -> GameRoomIds \cup {NoRoom}]
      /\ v.rooms \in [DOMAIN v.rooms -> GameRoomType]
      /\ DOMAIN v.rooms \subseteq v.rows
      /\ v.ids[c] = NoRoom
  BY LeaveRoomOK, LeaveGameRoomOK
     DEF Parts, CurrentGameOK, LeftGameRoom, GameOK, GameTypeOK, ChatOK
<1>2. /\ DOMAIN v.rooms = DOMAIN activeGameRooms \ K
      /\ HostOf(v.rooms) = [h \in DOMAIN activeGameRooms \ K |->
                               HostOf(activeGameRooms)[h]]
      /\ PlayingOf(v.rooms) = PlayingOf(activeGameRooms) \ K
  BY LeavingServes DEF HostOf
<1> HIDE DEF l, v, K
<1>3. ASSUME activeGameRooms' = v.rooms, currentGameRoomId' = v.ids,
             currentRoomId'[c] = NoRoom, uid' = uid,
             \A d \in Clients \ {c} : currentRoomId'[d] = currentRoomId[d]
      PROVE  Service!Next
  <2>1. Service!Leave(c)
    BY <1>1, <1>3, LeaveServes DEF v
  <2> QED BY <2>1 DEF Service!Next
<1>4. ASSUME NEW g \in GameRoomIds, GameRoomCreate(c, g, TRUE)
      PROVE  Service!Next
  <2> DEFINE fresh == [hostUid |-> uid[c], members |-> <<>>,
                       state |-> "GameRoomLobby", gameRunning |-> FALSE]
             room  == IF g \in DOMAIN v.rooms THEN v.rooms[g] ELSE fresh
             seated == [room EXCEPT !.members = Append(@, c)]
  <2>1. /\ g \notin v.rows
        /\ activeGameRooms' = Put(v.rooms, g, seated)
        /\ currentGameRoomId' = [v.ids EXCEPT ![c] = g]
        /\ currentRoomId' = l.ids
        /\ uid' = uid
    BY <1>4, Zenon DEF GameRoomCreate, l, v
  <2>2. seated.hostUid = uid[c] /\ seated.state = "GameRoomLobby"
    BY <1>1, <2>1
  <2> HIDE DEF seated
  <2>3. /\ HostOf(activeGameRooms)' =
             [h \in (DOMAIN activeGameRooms \ K) \cup {g} |->
                IF h = g THEN uid[c] ELSE HostOf(activeGameRooms)[h]]
        /\ PlayingOf(activeGameRooms)' = PlayingOf(activeGameRooms) \ K
    <3>1. HostOf(activeGameRooms') =
            [h \in DOMAIN v.rooms \cup {g} |->
               IF h = g THEN uid[c] ELSE HostOf(v.rooms)[h]]
      BY <2>1, <2>2 DEF HostOf, Put
    <3>2. PlayingOf(activeGameRooms') = PlayingOf(v.rooms)
      BY <1>1, <2>1, <2>2 DEF PlayingOf, Put
    <3> QED BY <1>2, <3>1, <3>2 DEF HostOf, PlayingOf
  <2>4. placeBar' = Service!Moved(c, Service!Game(g))
    <3>1. /\ currentRoomId'[c] = NoRoom /\ currentGameRoomId'[c] = g
          /\ \A d \in Clients \ {c} : currentRoomId'[d] = currentRoomId[d]
          /\ \A d \in Clients \ {c} : currentGameRoomId'[d] = v.ids[d]
      BY <1>1, <2>1
    <3> QED BY <3>1, SeatingMoves DEF v
  <2>5. g \notin DOMAIN activeGameRooms \ K
    BY <1>1, <1>2, <2>1
  <2>6. Service!OpenGame(c, g)
    BY <2>1, <2>3, <2>4, <2>5 DEF Service!OpenGame, HostOf, PlayingOf, K
  <2> QED BY <2>6 DEF Service!Next
<1>5. ASSUME NEW g \in GameRoomIds, GameRoomJoin(c, g), Joinable(v.rooms, g)
      PROVE  Service!Next
  <2>1. /\ activeGameRooms' = [v.rooms EXCEPT ![g].members = Append(@, c)]
        /\ currentGameRoomId' = [v.ids EXCEPT ![c] = g]
        /\ currentRoomId' = l.ids
        /\ uid' = uid
    BY <1>5, Zenon DEF GameRoomJoin, l, v
  <2>2. /\ HostOf(activeGameRooms') = HostOf(v.rooms)
        /\ PlayingOf(activeGameRooms') = PlayingOf(v.rooms)
    BY <1>1, <2>1 DEF HostOf, PlayingOf, GameRoomType
  <2>3. /\ HostOf(activeGameRooms)' = Service!Without(K)
        /\ PlayingOf(activeGameRooms)' = PlayingOf(activeGameRooms) \ K
    BY <1>2, <2>2 DEF HostOf, PlayingOf, Service!Without
  <2>4. placeBar' = Service!Moved(c, Service!Game(g))
    <3>1. /\ currentRoomId'[c] = NoRoom /\ currentGameRoomId'[c] = g
          /\ \A d \in Clients \ {c} : currentRoomId'[d] = currentRoomId[d]
          /\ \A d \in Clients \ {c} : currentGameRoomId'[d] = v.ids[d]
      BY <1>1, <2>1
    <3> QED BY <3>1, SeatingMoves DEF v
  <2>5. /\ g \in DOMAIN activeGameRooms \ K
        /\ g \notin PlayingOf(activeGameRooms)
    BY <1>2, <1>5 DEF Joinable, PlayingOf
  <2>6. Service!Cardinality(Service!In(Service!Game(g)) \ {c}) < MaxMembers
    <3>1. Cardinality(Seated(v.ids, g)) < MaxMembers
      BY <1>1, <1>5, GameSeat
    <3>2. Service!In(Service!Game(g)) \ {c} = Seated(v.ids, g)
      <4>1. ASSUME NEW d \in Clients, d # c
            PROVE  placeBar[d] = <<"game", g>> <=> v.ids[d] = g
        <5>1. /\ placeBar[d] = PlaceOf(currentRoomId, currentGameRoomId)[d]
              /\ currentGameRoomId[d] # NoRoom => currentRoomId[d] = NoRoom
          BY PlacesAreIds DEF Parts, PlaceOK
        <5>2. v.ids[d] = IF /\ Closes(c)
                            /\ currentGameRoomId[d] = currentGameRoomId[c]
                         THEN NoRoom ELSE currentGameRoomId[d]
          BY <4>1, LeavingShape DEF v
        <5>3. Closes(c) => g # currentGameRoomId[c]
          BY <2>5, ClosingIs DEF K
        <5> QED BY <5>1, <5>2, <5>3, SessionServerAssumption
                DEF PlaceOf, Nowhere
      <4> QED BY <1>1, <4>1, SessionServerAssumption
              DEF Service!In, Service!Game, Seated
    <3> QED BY <3>1, <3>2, ServiceCounts
  <2>7. Service!EnterGame(c, g)
    BY <2>1, <2>3, <2>4, <2>5, <2>6
       DEF Service!EnterGame, HostOf, PlayingOf, K
  <2> QED BY <2>7 DEF Service!Next
<1>6. ASSUME NEW g \in GameRoomIds, GameRoomCreate(c, g, FALSE)
      PROVE  Service!Next
  <2>1. /\ activeGameRooms' = v.rooms /\ currentGameRoomId' = v.ids
        /\ currentRoomId' = l.ids /\ uid' = uid
    BY <1>6, Zenon DEF GameRoomCreate, l, v
  <2> QED BY <1>1, <1>3, <2>1
<1>7. ASSUME NEW g \in GameRoomIds, GameRoomJoin(c, g), ~Joinable(v.rooms, g)
      PROVE  Service!Next
  <2>1. /\ activeGameRooms' = v.rooms /\ currentGameRoomId' = v.ids
        /\ currentRoomId' = l.ids /\ uid' = uid
    BY <1>7, Zenon DEF GameRoomJoin, l, v
  <2> QED BY <1>1, <1>3, <2>1
<1>8. CASE GameRoomQuit(c)
  <2>1. currentGameRoomId[c] # NoRoom
    BY <1>8, ReceivedIn DEF GameRoomQuit, Parts, GameOK, InGameRoom
  <2>2. currentRoomId'[c] = NoRoom /\ UNCHANGED <<currentRoomId, uid>>
    BY <1>8, <2>1 DEF GameRoomQuit, Parts, PlaceOK, roomVars
  <2> QED BY <1>3, <1>8, <2>2, Zenon DEF GameRoomQuit, v
<1> QED BY <1>4, <1>5, <1>6, <1>7, <1>8

(* gameRoom.c:363: a game is started.                                        *)
LEMMA StartServes ==
    ASSUME Parts, Parts', NEW c \in Clients, NEW g \in GameRoomIds,
           GameRoomStart(c, g)
    PROVE  Service!Next
<1>1. /\ activeGameRooms \in [DOMAIN activeGameRooms -> GameRoomType]
      /\ g \in DOMAIN activeGameRooms
      /\ activeGameRooms[g].hostUid = uid[c]
      /\ activeGameRooms[g].state = "GameRoomLobby"
      /\ activeGameRooms' =
           [activeGameRooms EXCEPT ![g].state = "GameRoomPlaying",
                                   ![g].gameRunning = TRUE]
      /\ UNCHANGED <<uid, currentRoomId, currentGameRoomId>>
  BY DEF GameRoomStart, Parts, GameOK, GameTypeOK, roomVars
<1>2. /\ HostOf(activeGameRooms)' = HostOf(activeGameRooms)
      /\ PlayingOf(activeGameRooms)' = PlayingOf(activeGameRooms) \cup {g}
  BY <1>1 DEF HostOf, PlayingOf, GameRoomType
<1>3. placeBar' = placeBar
  BY <1>1, PlacesAreIds, ServiceVars
<1>4. Service!StartGame(c, g)
  BY <1>1, <1>2, <1>3 DEF Service!StartGame, HostOf, PlayingOf
<1> QED BY <1>4 DEF Service!Next

(* server.c:497: a session ends.                                             *)
LEMMA DisconnectServes ==
    ASSUME Parts, Parts', NEW c \in Clients, ClientDisconnect(c)
    PROVE  Service!Next
<1> DEFINE l == LeaveRoom(c)
           v == LeaveGameRoom(c)
<1>1. /\ l.ids = [currentRoomId EXCEPT ![c] = NoRoom]
      /\ currentRoomId \in [Clients -> RoomIds \cup {NoRoom}]
      /\ v.ids[c] = NoRoom
  BY LeaveRoomOK, LeaveGameRoomOK
     DEF Parts, CurrentGameOK, LeftGameRoom, ChatOK
<1> HIDE DEF l, v
<1>2. /\ activeGameRooms' = v.rooms
      /\ currentGameRoomId' = v.ids
      /\ currentRoomId' = l.ids
      /\ uid' = [uid EXCEPT ![c] = NoUid]
  BY Zenon DEF ClientDisconnect, l, v
<1>3. Service!Leave(c)
  BY <1>1, <1>2, LeaveServes DEF v
<1> QED BY <1>3 DEF Service!Next

(* server.c:126: a new process knows nobody.                                 *)
LEMMA LaunchServes ==
    ASSUME Launch, Parts'
    PROVE  Service!Reset
<1>1. placeBar' = [c \in Clients |-> Nowhere]
  BY ServiceVars DEF Launch, PlaceOf
<1> QED BY <1>1 DEF Launch, Service!Reset

(* gameRunner.c:181: the service does not know whether a game                *)
(* that was started still runs.                                              *)
LEMMA GameStopsUnseen ==
    ASSUME Parts, Parts',
           \E g \in GameRoomIds : GameThreadEnds(g)
    PROVE  UNCHANGED Service!vars
<1>1. activeGameRooms \in [DOMAIN activeGameRooms -> GameRoomType]
  BY DEF Parts, GameOK, GameTypeOK
<1>2. /\ DOMAIN activeGameRooms' = DOMAIN activeGameRooms
      /\ \A g \in DOMAIN activeGameRooms :
           /\ activeGameRooms'[g].hostUid = activeGameRooms[g].hostUid
           /\ activeGameRooms'[g].state = activeGameRooms[g].state
      /\ UNCHANGED <<uid, currentRoomId, currentGameRoomId>>
  BY <1>1 DEF GameThreadEnds, GameRoomType, sessionVars
<1>3. /\ HostOf(activeGameRooms') = HostOf(activeGameRooms)
      /\ PlayingOf(activeGameRooms') = PlayingOf(activeGameRooms)
  BY <1>2 DEF HostOf, PlayingOf
<1> QED BY <1>2, <1>3, UnseenStep

(* server.c, room.c, gameRoom.c: the server is a RoomService: whatever the   *)
(* clients ask for, in whatever order, everybody is in one place at most, a  *)
(* game room closes on others only with its host, and no room takes more     *)
(* clients than it has seats.                                                *)
THEOREM ServerRefinesRoomService == Spec => ImplementsRoomService
<1>1. Init => Service!Init
  <2> SUFFICES ASSUME Init PROVE Service!Init
    OBVIOUS
  <2>1. placeBar = [c \in Clients |-> Nowhere]
    BY DEF Init, placeBar
  <2> QED BY <2>1 DEF Init, Service!Init
<1>2. ASSUME Parts, Parts', [Next]_vars
      PROVE  [Service!Next]_(Service!vars)
  <2>1. ASSUME NEW c \in Clients, Request(c)
        PROVE  [Service!Next]_(Service!vars)
    <3>1. CASE DropClient(c)
      BY <1>2, <3>1, DisconnectServes DEF DropClient
    <3>2. CASE \E g \in GameRoomIds : GameRoomStart(c, g)
      BY <1>2, <3>2, StartServes
    <3>3. CASE (\E r \in RoomIds : RoomJoin(c, r)) \/ RoomQuit(c)
      BY <1>2, <3>3, RoomActionsServe
    <3>4. CASE \/ \E g \in GameRoomIds, created \in BOOLEAN :
                    GameRoomCreate(c, g, created)
               \/ \E g \in GameRoomIds : GameRoomJoin(c, g)
               \/ GameRoomQuit(c)
      BY <1>2, <3>4, GameRoomActionsServe
    <3> QED BY <1>2, <2>1, <3>1, <3>2, <3>3, <3>4, SessionActionsServe
            DEF Request
  <2>2. ASSUME NEW c \in Clients, CleanupClient(c)  PROVE Service!Next
    BY <1>2, <2>2, DisconnectServes DEF CleanupClient
  <2>3. CASE \E g \in GameRoomIds : GameThreadEnds(g)
    BY <1>2, <2>3, GameStopsUnseen
  <2>4. CASE Shutdown \/ CleanupRooms \/ CleanupDone \/ UNCHANGED vars
    <3>1. UNCHANGED <<uid, currentRoomId, currentGameRoomId, activeGameRooms>>
      BY <2>4 DEF Shutdown, CleanupRooms, CleanupDone, vars, sessionVars
    <3> QED BY <1>2, <3>1, UnseenStep
  <2>5. CASE Launch
    BY <1>2, <2>5, LaunchServes DEF Service!Next
  <2> QED BY <1>2, <2>1, <2>2, <2>3, <2>4, <2>5 DEF Next
<1>3. IInv /\ IInv' /\ [Next]_vars => [Service!Next]_(Service!vars)
  <2>1. IInv' => Parts'
    BY IInvIsParts, PTL
  <2> QED BY <1>2, <2>1, IInvIsParts
<1> QED BY <1>1, <1>3, InvariantIInv, PTL
        DEF Spec, ImplementsRoomService, Service!Spec
=============================================================================
