---------------------------- MODULE ChatHistory ----------------------------
(***************************************************************************)
(* What is said in the chat rooms, and what becomes of it: chat.c stores a *)
(* line with the functions of chatDb.c and sends it to the others in the   *)
(* room; room.c and roomDb.c decide who they are.                          *)
(*                                                                         *)
(* One thread runs the handlers, and every SQL statement is a transaction  *)
(* of its own.  So the steps of serverHandleChatMessage are not disturbed  *)
(* by other clients, but the process may end between any two of them, and  *)
(* each of them may fail, which costs the client its connection.           *)
(*                                                                         *)
(* A line is known by its id, its sender and its time.  The time is the    *)
(* one that the client claims.                                             *)
(***************************************************************************)
EXTENDS Naturals, Sequences, FiniteSets, SequencesExt

CONSTANTS
    Clients,            \* sessions
    Users,
    UidOf,              \* the user of each session
    RoomIds,            \* the ids that clients ask for
    Times,              \* timestamps
    Buckets,            \* ROOM_STMT_BUCKETS
    MaxMembers,         \* MAX_CLIENTS_PER_ROOM
    MaxLines,           \* bound on the message ids
    QueryMaxResults,    \* QUERY_MAX_RESULTS
    NoTable, NoClient

ASSUME ChatHistoryAssumption ==
    /\ UidOf \in [Clients -> Users]
    /\ RoomIds \subseteq Nat \ {0}
    /\ Times \subseteq Nat
    /\ Buckets \in Nat \ {0}
    /\ MaxMembers \in Nat \ {0}
    /\ QueryMaxResults \in Nat
    /\ MaxLines \in Nat
    /\ NoClient \notin Clients

(* currentRoomId is 0 outside the chat rooms, and there is a table for it.   *)
Rooms == RoomIds \cup {0}
Line  == [id : Nat, from : Clients, time : Times]

ASSUME NoTableAssumption == NoTable \notin Seq(Line)

VARIABLES
    running,    \* the databases are open
    seq,        \* the last id of msg_sequence
    table,      \* the rows of room_<id>, by msgId
    created,    \* the names of the room tables, as sqlite_master lists them
    rows,       \* RoomDB
    cache,      \* the chains of the statement cache
    session,    \* SessionRoom, SessionChat, the states of a game room, or away
    room,       \* currentRoomId
    job,        \* where serverHandleChatMessage is
    heard,      \* history: the lines a session got since it joined its room
    missed,     \* history: those whose send to it failed since then
    joinedAt    \* history: the length of the room's table at that time

disk == <<seq, table, created>>
seats == <<session, room, rows, joinedAt>>
vars == <<running, seq, table, created, rows, cache, session, room, job, heard,
          missed, joinedAt>>

NoJob == [pc |-> "idle", from |-> NoClient, id |-> 0, time |-> 0]

TypeOK ==
    /\ running \in BOOLEAN
    /\ seq \in 0..MaxLines
    /\ table \in [Rooms -> Seq(Line) \cup {NoTable}]
    /\ created \in Seq(Rooms)
    /\ rows \subseteq RoomIds
    /\ cache \in [0..(Buckets - 1) -> Seq(Rooms)]
    /\ session \in [Clients -> {"away", "lobby", "chat", "game"}]
    /\ room \in [Clients -> Rooms]
    /\ job \in [pc : {"idle", "numbered", "ready", "stored"},
                from : Clients \cup {NoClient}, id : Nat, time : Times \cup {0}]
    /\ heard \in [Clients -> Seq(Line)]
    /\ missed \in [Clients -> SUBSET Line]
    /\ joinedAt \in [Clients -> Nat]
    /\ \A r \in Rooms :
         /\ table[r] # NoTable <=> r \in ToSet(created)
         /\ \A b \in 0..(Buckets - 1) :
              r \in ToSet(cache[b]) => b = r % Buckets /\ table[r] # NoTable
    /\ job.pc # "idle" => running /\ job.from \in Clients /\ session[job.from] # "away"

Init ==
    /\ running = FALSE
    /\ seq = 0
    /\ table = [r \in Rooms |-> NoTable]
    /\ created = <<>>
    /\ rows = {}
    /\ cache = [b \in 0..(Buckets - 1) |-> <<>>]
    /\ session = [c \in Clients |-> "away"]
    /\ room = [c \in Clients |-> 0]
    /\ job = NoJob
    /\ heard = [c \in Clients |-> <<>>]
    /\ missed = [c \in Clients |-> {}]
    /\ joinedAt = [c \in Clients |-> 0]

-----------------------------------------------------------------------------
(* The database is opened and closed *)

(* The schema is there already or is made now; the cache is empty.           *)
DbInit ==
    /\ ~running
    /\ running' = TRUE
    /\ UNCHANGED <<disk, seats, cache, job, heard, missed>>

(* roomCacheDestroy finalizes all the statements.                            *)
RoomCacheDestroy == cache' = [b \in 0..(Buckets - 1) |-> <<>>]

(* The server ends, in an orderly way or not.  The rows of the rooms stay.   *)
ServerStops ==
    /\ running
    /\ running' = FALSE
    /\ RoomCacheDestroy
    /\ session' = [c \in Clients |-> "away"]
    /\ room' = [c \in Clients |-> 0]
    /\ job' = NoJob
    /\ heard' = [c \in Clients |-> <<>>]
    /\ missed' = [c \in Clients |-> {}]
    /\ joinedAt' = [c \in Clients |-> 0]
    /\ UNCHANGED <<disk, rows>>

-----------------------------------------------------------------------------
(* Rooms: room.c and roomDb.c *)

Idle == running /\ job.pc = "idle"

Members(r) == {c \in Clients : room[c] = r}

RoomExists(r) == r \in rows

(* createRoom: the id is the key.                                            *)
CreateRoom(r) == r \notin rows /\ rows' = rows \cup {r}

(* deleteRoom: whether it succeeds is not asked.                             *)
DeleteRoom(r) == rows' \in {rows, rows \ {r}}

(* The last to leave closes the room.                                        *)
LeaveRows(c) ==
    IF room[c] # 0 /\ Members(room[c]) = {c} THEN DeleteRoom(room[c])
    ELSE UNCHANGED rows

(* c is in room r, from now on, or in none if r is 0.                        *)
Seat(c, r) ==
    /\ room' = [room EXCEPT ![c] = r]
    /\ heard' = [heard EXCEPT ![c] = <<>>]
    /\ missed' = [missed EXCEPT ![c] = {}]
    /\ joinedAt' = [joinedAt EXCEPT ![c] =
                      IF r = 0 \/ table[r] = NoTable THEN 0 ELSE Len(table[r])]

Connect(c) ==
    /\ Idle
    /\ session[c] = "away"
    /\ session' = [session EXCEPT ![c] = "lobby"]
    /\ UNCHANGED <<running, disk, rows, cache, room, job, heard, missed, joinedAt>>

RoomCreate(c, r) ==
    /\ Idle
    /\ session[c] = "lobby"
    /\ CreateRoom(r)
    /\ UNCHANGED <<running, disk, cache, session, room, job, heard, missed, joinedAt>>

(* The old room is left first, which may delete the row of r itself.  A room *)
(* that is full leaves c in the lobby.                                       *)
RoomJoin(c, r) ==
    /\ Idle
    /\ session[c] = "lobby"
    /\ RoomExists(r)
    /\ LeaveRows(c)
    /\ IF Cardinality(Members(r) \ {c}) < MaxMembers
       THEN /\ Seat(c, r)
            /\ session' = [session EXCEPT ![c] = "chat"]
       ELSE /\ Seat(c, 0)
            /\ UNCHANGED session
    /\ UNCHANGED <<running, disk, cache, job>>

RoomQuit(c) ==
    /\ Idle
    /\ session[c] = "lobby"
    /\ room[c] # 0
    /\ LeaveRows(c)
    /\ Seat(c, 0)
    /\ UNCHANGED <<running, disk, cache, session, job>>

(* A second factor that is set up in a chat room brings the session back to  *)
(* the lobby, still a member of the room.                                    *)
SecondFactor(c) ==
    /\ Idle
    /\ session[c] = "chat"
    /\ session' = [session EXCEPT ![c] = "lobby"]
    /\ UNCHANGED <<running, disk, rows, cache, room, job, heard, missed, joinedAt>>

(* A game room is entered: the chat room is left for it.                     *)
EnterGameRoom(c) ==
    /\ Idle
    /\ session[c] = "lobby"
    /\ LeaveRows(c)
    /\ Seat(c, 0)
    /\ session' = [session EXCEPT ![c] = "game"]
    /\ UNCHANGED <<running, disk, cache, job>>

LeaveGameRoom(c) ==
    /\ Idle
    /\ session[c] = "game"
    /\ session' = [session EXCEPT ![c] = "lobby"]
    /\ UNCHANGED <<running, disk, rows, cache, room, job, heard, missed, joinedAt>>

ClientDisconnect(c) ==
    /\ Idle
    /\ session[c] # "away"
    /\ LeaveRows(c)
    /\ Seat(c, 0)
    /\ session' = [session EXCEPT ![c] = "away"]
    /\ UNCHANGED <<running, disk, cache, job>>

-----------------------------------------------------------------------------
(* serverHandleChatMessage and storeChat *)

RoomTable(c) == table[room[c]]

(* Mutant: a room without lines is not used up by numbers it never got.      *)
GenerateMsgId_Reused ==
    /\ seq < MaxLines
    /\ seq' = IF \E r \in Rooms : table[r] = NoTable THEN 1 ELSE seq + 1

(* The sequence goes up, whatever becomes of the line.                       *)
GenerateMsgId == seq < MaxLines /\ seq' = seq + 1

ChatMessage(c, t) ==
    /\ Idle
    /\ session[c] \in {"chat", "game"}
    /\ GenerateMsgId
    /\ job' = [pc |-> "numbered", from |-> c, id |-> seq', time |-> t]
    /\ UNCHANGED <<running, table, created, seats, cache, heard, missed>>

RoomHashIndex(r) == r % Buckets

RoomCacheLookup(r) == r \in ToSet(cache[RoomHashIndex(r)])

CreateRoomTable(r) ==
    IF table[r] # NoTable THEN UNCHANGED <<table, created>>
    ELSE /\ table' = [table EXCEPT ![r] = <<>>]
         /\ created' = Append(created, r)

(* The new entry is the head of its chain.                                   *)
RoomCacheCreate(r) ==
    /\ CreateRoomTable(r)
    /\ cache' = [cache EXCEPT ![RoomHashIndex(r)] = <<r>> \o @]

GetOrCreateRoomStmts ==
    /\ job.pc = "numbered"
    /\ IF RoomCacheLookup(room[job.from]) THEN UNCHANGED <<table, created, cache>>
       ELSE RoomCacheCreate(room[job.from])
    /\ job' = [job EXCEPT !.pc = "ready"]
    /\ UNCHANGED <<running, seq, seats, heard, missed>>

NewLine == [id |-> job.id, from |-> job.from, time |-> job.time]

(* Mutant: the row of an older line is replaced when the ids run over.       *)
InsertLine_Replaces ==
    /\ job.pc = "ready"
    /\ table' = [table EXCEPT ![room[job.from]] =
                   IF Len(@) > 1 THEN Append(Tail(@), NewLine)
                   ELSE Append(@, NewLine)]
    /\ job' = [job EXCEPT !.pc = "stored"]
    /\ UNCHANGED <<running, seq, created, seats, cache, heard, missed>>

InsertLine ==
    /\ job.pc = "ready"
    /\ table' = [table EXCEPT ![room[job.from]] = Append(@, NewLine)]
    /\ job' = [job EXCEPT !.pc = "stored"]
    /\ UNCHANGED <<running, seq, created, seats, cache, heard, missed>>

(* One of the statements fails, the sequence first of all: the handler fails *)
(* and the client is disconnected.  A table may have been made by then.      *)
StoreChatFails ==
    /\ job.pc \in {"numbered", "ready"}
    /\ job' = NoJob
    /\ LeaveRows(job.from)
    /\ Seat(job.from, 0)
    /\ session' = [session EXCEPT ![job.from] = "away"]
    /\ IF job.pc = "numbered" THEN CreateRoomTable(room[job.from]) \/ UNCHANGED <<table, created>>
       ELSE UNCHANGED <<table, created>>
    /\ UNCHANGED <<running, seq, cache>>

(* A broadcast to the sessions `to`.  Whether a packet went out is not asked, *)
(* and it may not: no memory for the broadcast or one that is longer than a  *)
(* payload may be, and nobody gets it; a send that times out, and its member *)
(* misses the line and stays.                                                *)
Broadcast(to) ==
    \E got \in SUBSET to :
        /\ heard' = [c \in Clients |-> IF c \in got THEN Append(heard[c], NewLine)
                                       ELSE heard[c]]
        /\ missed' = [c \in Clients |-> IF c \in to \ got THEN missed[c] \cup {NewLine}
                                        ELSE missed[c]]

(* Mutant: every session with the same room id gets it, in no room as well.  *)
BroadcastToRoom_AlsoNoRoom ==
    /\ job.pc = "stored"
    /\ Broadcast(Members(room[job.from]) \ {job.from})
    /\ job' = NoJob
    /\ UNCHANGED <<running, disk, seats, cache>>

(* All the other members of the active room.  There is none with id 0.       *)
BroadcastToRoom ==
    /\ job.pc = "stored"
    /\ Broadcast(IF room[job.from] = 0 THEN {}
                 ELSE Members(room[job.from]) \ {job.from})
    /\ job' = NoJob
    /\ UNCHANGED <<running, disk, seats, cache>>

-----------------------------------------------------------------------------
(* The queries.  They change nothing but the cache.                          *)

Lines(r) == IF table[r] = NoTable THEN <<>> ELSE table[r]

Between(l, a, b) == l.time >= a /\ l.time <= b

QueryChatByMsgId(r, id) == {l \in ToSet(Lines(r)) : l.id = id}

(* Oldest first, the limit applies.                                          *)
UpTo(s, n) == SubSeq(s, 1, IF Len(s) < n THEN Len(s) ELSE n)

(* The user 0 stands for all of them.                                        *)
QueryChatByTimeRange(r, u, a, b) ==
    UpTo(SelectSeq(Lines(r), LAMBDA l : Between(l, a, b) /\ u \in {0, UidOf[l.from]}),
         QueryMaxResults)

CompareChatByMsgId(k, l) == k.id < l.id

(* Mutant: the limit is taken to be for each room and one less.              *)
CollectRoomResults_OneShort(found, r, u, a, b) ==
    UpTo(found \o SelectSeq(Lines(r), LAMBDA l : Between(l, a, b) /\ UidOf[l.from] = u),
         QueryMaxResults - 1)

CollectRoomResults(found, r, u, a, b) ==
    UpTo(found \o SelectSeq(Lines(r), LAMBDA l : Between(l, a, b) /\ UidOf[l.from] = u),
         QueryMaxResults)

(* Room by room in the order of sqlite_master, and sorted at the end.        *)
QueryChatByUserAllRooms(u, a, b) ==
    SortSeq(FoldLeft(LAMBDA found, r : CollectRoomResults(found, r, u, a, b),
                     <<>>, created),
            CompareChatByMsgId)

-----------------------------------------------------------------------------
Handlers(c) ==
    \/ Connect(c) \/ RoomQuit(c) \/ SecondFactor(c) \/ ClientDisconnect(c)
    \/ EnterGameRoom(c) \/ LeaveGameRoom(c)
    \/ \E r \in RoomIds : RoomCreate(c, r) \/ RoomJoin(c, r)
    \/ \E t \in Times : ChatMessage(c, t)

Next ==
    \/ DbInit \/ ServerStops
    \/ \E c \in Clients : Handlers(c)
    \/ GetOrCreateRoomStmts \/ InsertLine \/ StoreChatFails \/ BroadcastToRoom

Spec == Init /\ [][Next]_vars
=============================================================================
