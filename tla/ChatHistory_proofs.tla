------------------------- MODULE ChatHistory_proofs -------------------------
(***************************************************************************)
(* Proofs about ChatHistory, for any number of sessions, rooms and lines,  *)
(* and any number of failures and restarts: the numbers of the lines, what *)
(* the sessions heard of them, and that the tables are one ChatLog.        *)
(***************************************************************************)
EXTENDS ChatHistoryProps, TLAPS

(* Rooms are numbers, 0 among them, and have a chain of the cache each.      *)
LEMMA RoomNumbers ==
    /\ 0 \in Rooms /\ RoomIds \subseteq Rooms /\ Rooms \subseteq Nat
    /\ \A r \in Rooms : r % Buckets \in 0..(Buckets - 1)
    /\ NoTable \notin Seq(Line) /\ MaxLines \in Nat
<1>1. Rooms \subseteq Nat /\ Buckets \in Nat \ {0}
  BY ChatHistoryAssumption DEF Rooms
<1>2. \A r \in Rooms : r % Buckets \in 0..(Buckets - 1)
  BY <1>1
<1> QED BY <1>1, <1>2, ChatHistoryAssumption, NoTableAssumption DEF Rooms

(* The elements of a sequence, and of one that was made longer.              *)
LEMMA AppendAddsOne ==
    ASSUME NEW S, NEW s \in Seq(S), NEW e \in S
    PROVE  \A x : x \in ToSet(Append(s, e)) <=> x \in ToSet(s) \/ x = e
<1>1. /\ DOMAIN Append(s, e) = 1..(Len(s) + 1) /\ DOMAIN s = 1..Len(s) /\ Len(s) \in Nat
      /\ \A i \in 1..Len(s) : Append(s, e)[i] = s[i]
      /\ Append(s, e)[Len(s) + 1] = e
  OBVIOUS
<1>2. DOMAIN Append(s, e) = DOMAIN s \cup {Len(s) + 1}
  BY <1>1
<1> QED BY <1>1, <1>2, Zenon DEF ToSet

(* The elements of a sequence with a new head.                               *)
LEMMA NewHead ==
    ASSUME NEW S, NEW s \in Seq(S), NEW e \in S
    PROVE  \A x : x \in ToSet(<<e>> \o s) => x = e \/ x \in ToSet(s)
<1>1. ASSUME NEW i \in DOMAIN (<<e>> \o s)
      PROVE  (<<e>> \o s)[i] = e \/ \E j \in DOMAIN s : (<<e>> \o s)[i] = s[j]
  <2>1. Len(s) \in Nat /\ DOMAIN s = 1..Len(s) /\ i \in 1..(Len(s) + 1)
    OBVIOUS
  <2>2. CASE i = 1
    BY <2>2
  <2>3. CASE i # 1
    <3>1. i - 1 \in DOMAIN s /\ (<<e>> \o s)[i] = s[i - 1]
      BY <2>1, <2>3
    <3> QED BY <3>1
  <2> QED BY <2>2, <2>3
<1> QED BY <1>1, Zenon DEF ToSet

(* What is in a table is lines; a table that is not there has none.          *)
LEMMA LinesAreLines ==
    ASSUME TypeOK, NEW r \in Rooms
    PROVE  /\ Lines(r) \in Seq(Line)
           /\ \A i \in DOMAIN Lines(r) : Lines(r)[i] \in Line /\ Lines(r)[i].id \in Nat
<1>1. Lines(r) \in Seq(Line)
  <2>1. <<>> \in Seq(Line)
    OBVIOUS
  <2> QED BY <2>1 DEF Lines, TypeOK
<1>2. \A i \in DOMAIN Lines(r) : Lines(r)[i] \in Line
  BY <1>1
<1>3. \A l \in Line : l.id \in Nat
  BY DEF Line
<1> QED BY <1>1, <1>2, <1>3

(* chatDb.c: no table, and no line in hand.                                  *)
LEMMA InitOK == Init => IInv
<1> SUFFICES ASSUME Init PROVE IInv
  OBVIOUS
<1> USE DEF Init
<1>1. <<>> \in Seq(Rooms) /\ <<>> \in Seq(Line)
  OBVIOUS
<1>2. ToSet(<<>>) = {}
  BY DEF ToSet
<1>3. NoJob \in [pc : {"idle", "numbered", "ready", "stored"},
                 from : Clients \cup {NoClient}, id : Nat, time : Times \cup {0}]
  BY DEF NoJob
<1>4. TypeOK
  <2>1. \A r \in Rooms :
          /\ table[r] # NoTable <=> r \in ToSet(created)
          /\ \A b \in 0..(Buckets - 1) :
               r \in ToSet(cache[b]) => b = r % Buckets /\ table[r] # NoTable
    BY <1>2
  <2>2. job.pc = "idle"
    BY DEF NoJob
  <2>3. seq \in 0..MaxLines
    BY RoomNumbers
  <2>4. /\ table \in [Rooms -> Seq(Line) \cup {NoTable}] /\ created \in Seq(Rooms)
        /\ cache \in [0..(Buckets - 1) -> Seq(Rooms)]
    BY <1>1
  <2>5. /\ running \in BOOLEAN /\ rows \subseteq RoomIds
        /\ session \in [Clients -> {"away", "lobby", "chat", "game"}]
        /\ room \in [Clients -> Rooms] /\ heard \in [Clients -> Seq(Line)]
        /\ missed \in [Clients -> SUBSET Line] /\ joinedAt \in [Clients -> Nat]
    BY <1>1, RoomNumbers
  <2> QED BY <1>3, <2>1, <2>2, <2>3, <2>4, <2>5 DEF TypeOK
<1>5. \A r \in Rooms : Lines(r) = <<>>
  BY DEF Lines
<1>6. OrderInv /\ JobInv
  BY <1>5 DEF OrderInv, JobInv, NoJob
<1> QED BY <1>4, <1>6 DEF IInv

(* A step after which every table has the lines it had, and the numbers that *)
(* are given did not go back.                                                *)
LEMMA SameLines ==
    ASSUME OrderInv, TypeOK, \A r \in Rooms : Lines(r)' = Lines(r), seq' \in Nat, seq <= seq'
    PROVE  OrderInv'
<1>1. \A r \in Rooms : \A i \in DOMAIN Lines(r) : Lines(r)[i].id <= seq'
  <2>1. seq \in Nat
    BY RoomNumbers DEF TypeOK
  <2> QED BY <2>1, LinesAreLines DEF OrderInv
<1> QED BY <1>1 DEF OrderInv

(* room.c: what a session is given on its way in and out of a room.          *)
LEMMA SeatOK ==
    ASSUME TypeOK, NEW c \in Clients, NEW r \in Rooms, Seat(c, r)
    PROVE  /\ room' \in [Clients -> Rooms] /\ heard' \in [Clients -> Seq(Line)]
           /\ missed' \in [Clients -> SUBSET Line] /\ joinedAt' \in [Clients -> Nat]
<1>1. <<>> \in Seq(Line)
  OBVIOUS
<1>2. (IF r = 0 \/ table[r] = NoTable THEN 0 ELSE Len(table[r])) \in Nat
  BY DEF TypeOK
<1> QED BY <1>1, <1>2 DEF TypeOK, Seat

(* roomDb.c: the rows stay rows of rooms.                                    *)
LEMMA LeaveRowsOK ==
    ASSUME TypeOK, NEW c \in Clients, LeaveRows(c)
    PROVE  rows' \subseteq RoomIds
BY DEF TypeOK, LeaveRows, DeleteRoom

(* The types of what the rooms are.                                          *)
SeatsOK ==
    /\ rows \subseteq RoomIds
    /\ session \in [Clients -> {"away", "lobby", "chat", "game"}]
    /\ room \in [Clients -> Rooms] /\ heard \in [Clients -> Seq(Line)]
    /\ missed \in [Clients -> SUBSET Line] /\ joinedAt \in [Clients -> Nat]

(* room.c, auth.c, gameRoom.c: between two lines, sessions come and go.      *)
LEMMA RoomStepsOK ==
    ASSUME IInv, NEW c \in Clients,
           \/ Connect(c) \/ RoomQuit(c) \/ SecondFactor(c) \/ ClientDisconnect(c)
           \/ EnterGameRoom(c) \/ LeaveGameRoom(c)
           \/ \E r \in RoomIds : RoomCreate(c, r) \/ RoomJoin(c, r)
    PROVE  IInv'
<1> USE DEF IInv
<1>1. UNCHANGED <<running, seq, table, created, cache, job>> /\ job.pc = "idle"
  BY DEF Connect, RoomQuit, SecondFactor, ClientDisconnect, EnterGameRoom, LeaveGameRoom,
         RoomCreate, RoomJoin, Idle, disk
<1>2. SeatsOK'
  <2>1. CASE Connect(c) \/ SecondFactor(c) \/ LeaveGameRoom(c)
    BY <2>1 DEF Connect, SecondFactor, LeaveGameRoom, TypeOK, SeatsOK
  <2>2. CASE RoomQuit(c) \/ EnterGameRoom(c) \/ ClientDisconnect(c)
    <3>1. /\ LeaveRows(c) /\ Seat(c, 0)
          /\ session' \in [Clients -> {"away", "lobby", "chat", "game"}]
      BY <2>2 DEF RoomQuit, EnterGameRoom, ClientDisconnect, TypeOK
    <3> QED BY <3>1, LeaveRowsOK, SeatOK, RoomNumbers DEF SeatsOK
  <2>3. ASSUME NEW r \in RoomIds, RoomCreate(c, r)  PROVE SeatsOK'
    BY <2>3 DEF RoomCreate, CreateRoom, TypeOK, SeatsOK
  <2>4. ASSUME NEW r \in RoomIds, RoomJoin(c, r)  PROVE SeatsOK'
    <3>1. /\ LeaveRows(c) /\ (Seat(c, r) \/ Seat(c, 0))
          /\ session' \in [Clients -> {"away", "lobby", "chat", "game"}]
      BY <2>4 DEF RoomJoin, TypeOK
    <3>2. r \in Rooms
      BY RoomNumbers
    <3> QED BY <3>1, <3>2, LeaveRowsOK, SeatOK, RoomNumbers DEF SeatsOK
  <2> QED BY <2>1, <2>2, <2>3, <2>4
<1>3. TypeOK'
  BY <1>1, <1>2 DEF TypeOK, SeatsOK
<1>4. \A r \in Rooms : Lines(r)' = Lines(r)
  BY <1>1 DEF Lines
<1>5. seq' \in Nat /\ seq <= seq'
  BY <1>1, RoomNumbers DEF TypeOK
<1>6. OrderInv'
  BY <1>4, <1>5, SameLines
<1>7. JobInv'
  BY <1>1 DEF JobInv
<1> QED BY <1>3, <1>6, <1>7

(* The server starts and ends: the tables stay.                              *)
LEMMA StartAndStopOK ==
    ASSUME IInv, DbInit \/ ServerStops
    PROVE  IInv'
<1> USE DEF IInv
<1>1. /\ UNCHANGED <<seq, table, created, rows>> /\ running' \in BOOLEAN
  BY DEF DbInit, ServerStops, disk, seats
<1>2. SeatsOK'
  <2>1. <<>> \in Seq(Line)
    OBVIOUS
  <2>2. CASE DbInit
    BY <2>2 DEF DbInit, seats, TypeOK, SeatsOK
  <2>3. CASE ServerStops
    BY <2>1, <2>3, RoomNumbers DEF ServerStops, TypeOK, SeatsOK
  <2> QED BY <2>2, <2>3
<1>3. /\ cache' \in [0..(Buckets - 1) -> Seq(Rooms)]
      /\ cache' = cache \/ \A b \in 0..(Buckets - 1) : ToSet(cache'[b]) = {}
  <2>1. <<>> \in Seq(Rooms) /\ ToSet(<<>>) = {}
    BY DEF ToSet
  <2>2. CASE DbInit
    BY <2>2 DEF DbInit, TypeOK
  <2>3. CASE ServerStops
    <3>1. cache' = [b \in 0..(Buckets - 1) |-> <<>>]
      BY <2>3 DEF ServerStops, RoomCacheDestroy
    <3> QED BY <2>1, <3>1
  <2> QED BY <2>2, <2>3
<1>4. job' \in [pc : {"idle", "numbered", "ready", "stored"},
                from : Clients \cup {NoClient}, id : Nat, time : Times \cup {0}]
  BY DEF DbInit, ServerStops, NoJob, TypeOK
<1>5. job'.pc = "idle"
  BY DEF DbInit, ServerStops, NoJob, TypeOK
<1>6. TypeOK'
  <2>1. \A r \in Rooms :
          /\ table[r] # NoTable <=> r \in ToSet(created)
          /\ \A b \in 0..(Buckets - 1) :
               r \in ToSet(cache'[b]) => b = r % Buckets /\ table[r] # NoTable
    BY <1>3 DEF TypeOK
  <2> QED BY <1>1, <1>2, <1>3, <1>4, <1>5, <2>1 DEF TypeOK, SeatsOK
<1>7. \A r \in Rooms : Lines(r)' = Lines(r)
  BY <1>1 DEF Lines
<1>8. seq' \in Nat /\ seq <= seq'
  BY <1>1, RoomNumbers DEF TypeOK
<1>9. OrderInv'
  BY <1>7, <1>8, SameLines
<1>10. JobInv'
  BY <1>5 DEF JobInv
<1> QED BY <1>6, <1>9, <1>10

(* chatDb.c:330, generateMsgId: the new number is above all that were given. *)
LEMMA ChatMessageOK ==
    ASSUME IInv, NEW c \in Clients, NEW t \in Times, ChatMessage(c, t)
    PROVE  IInv'
<1> USE DEF IInv
<1>1. /\ UNCHANGED <<running, table, created, rows, cache, session, room, heard, missed, joinedAt>>
      /\ seq \in Nat /\ seq' = seq + 1 /\ seq' \in 0..MaxLines /\ running
      /\ session[c] # "away"
      /\ job' = [pc |-> "numbered", from |-> c, id |-> seq', time |-> t]
  BY RoomNumbers DEF ChatMessage, GenerateMsgId, Idle, seats, TypeOK
<1>2. TypeOK'
  <2>1. job' \in [pc : {"idle", "numbered", "ready", "stored"},
                  from : Clients \cup {NoClient}, id : Nat, time : Times \cup {0}]
    BY <1>1
  <2> QED BY <1>1, <2>1 DEF TypeOK
<1>3. \A r \in Rooms : Lines(r)' = Lines(r)
  BY <1>1 DEF Lines
<1>4. OrderInv'
  BY <1>1, <1>3, SameLines
<1>5. JobInv'
  <2>1. \A r \in Rooms : \A i \in DOMAIN Lines(r) : Lines(r)[i].id < seq'
    BY <1>1, LinesAreLines DEF OrderInv
  <2> QED BY <1>1, <1>3, <2>1 DEF JobInv
<1> QED BY <1>2, <1>4, <1>5

(* chatDb.c: a new table has no lines.                                       *)
LEMMA CreateRoomTableOK ==
    ASSUME TypeOK, NEW r \in Rooms, CreateRoomTable(r)
    PROVE  /\ table' \in [Rooms -> Seq(Line) \cup {NoTable}] /\ created' \in Seq(Rooms)
           /\ table'[r] # NoTable
           /\ \A q \in Rooms : Lines(q)' = Lines(q)
           /\ \A q \in Rooms : table[q] # NoTable => table'[q] # NoTable
           /\ \A q \in Rooms : table'[q] # NoTable <=> q \in ToSet(created')
<1>1. CASE table[r] # NoTable
  BY <1>1 DEF CreateRoomTable, TypeOK, Lines
<1>2. CASE table[r] = NoTable
  <2>1. <<>> \in Seq(Line) /\ NoTable # <<>>
    <3>1. <<>> \in Seq(Line)
      OBVIOUS
    <3> QED BY <3>1, RoomNumbers
  <2>2. /\ table' = [table EXCEPT ![r] = <<>>] /\ created' = Append(created, r)
        /\ created \in Seq(Rooms) /\ table \in [Rooms -> Seq(Line) \cup {NoTable}]
    BY <1>2 DEF CreateRoomTable, TypeOK
  <2>3. \A q \in Rooms : q \in ToSet(created') <=> q \in ToSet(created) \/ q = r
    BY <2>2, AppendAddsOne
  <2>4. /\ table' \in [Rooms -> Seq(Line) \cup {NoTable}] /\ table'[r] = <<>>
        /\ \A q \in Rooms : q # r => table'[q] = table[q]
    BY <2>1, <2>2
  <2>5. \A q \in Rooms : Lines(q)' = Lines(q)
    BY <1>2, <2>1, <2>4 DEF Lines
  <2>6. created' \in Seq(Rooms)
    BY <2>2
  <2>7. \A q \in Rooms : table'[q] # NoTable <=> q \in ToSet(created')
    BY <2>1, <2>3, <2>4 DEF TypeOK
  <2> QED BY <1>2, <2>1, <2>4, <2>5, <2>6, <2>7
<1> QED BY <1>1, <1>2

(* GetOrCreateRoomStmts: whichever way, the line has a table to go into.     *)
LEMMA GetOrCreateRoomStmtsOK ==
    ASSUME IInv, GetOrCreateRoomStmts
    PROVE  IInv'
<1> USE DEF IInv
<1> DEFINE r == room[job.from]
<1>1. /\ UNCHANGED <<running, seq, rows, session, room, heard, missed, joinedAt>>
      /\ job.pc = "numbered" /\ job' = [job EXCEPT !.pc = "ready"] /\ r \in Rooms
  BY DEF GetOrCreateRoomStmts, seats, TypeOK
<1>2. r % Buckets \in 0..(Buckets - 1)
  BY <1>1, RoomNumbers
<1>3. /\ table' \in [Rooms -> Seq(Line) \cup {NoTable}] /\ created' \in Seq(Rooms)
      /\ table'[r] # NoTable
      /\ \A q \in Rooms : Lines(q)' = Lines(q)
      /\ \A q \in Rooms : table[q] # NoTable => table'[q] # NoTable
      /\ \A q \in Rooms : table'[q] # NoTable <=> q \in ToSet(created')
  <2>1. CASE RoomCacheLookup(r)
    <3>1. table' = table /\ created' = created
      BY <2>1 DEF GetOrCreateRoomStmts
    <3>2. table[r] # NoTable
      BY <1>1, <1>2, <2>1 DEF RoomCacheLookup, RoomHashIndex, TypeOK
    <3> QED BY <3>1, <3>2 DEF TypeOK, Lines
  <2>2. CASE ~RoomCacheLookup(r)
    <3>1. CreateRoomTable(r)
      BY <2>2 DEF GetOrCreateRoomStmts, RoomCacheCreate
    <3> HIDE DEF r
    <3> QED BY <1>1, <3>1, CreateRoomTableOK
  <2> QED BY <2>1, <2>2
<1>4. /\ cache' \in [0..(Buckets - 1) -> Seq(Rooms)]
      /\ \A q \in Rooms : \A b \in 0..(Buckets - 1) :
            q \in ToSet(cache'[b]) => b = q % Buckets /\ table'[q] # NoTable
  <2>1. CASE RoomCacheLookup(r)
    <3>1. cache' = cache
      BY <2>1 DEF GetOrCreateRoomStmts
    <3> QED BY <1>3, <3>1 DEF TypeOK
  <2>2. CASE ~RoomCacheLookup(r)
    <3> DEFINE chain == cache[r % Buckets]
    <3>1. cache' = [cache EXCEPT ![r % Buckets] = <<r>> \o chain]
      BY <2>2 DEF GetOrCreateRoomStmts, RoomCacheCreate, RoomHashIndex
    <3>2. chain \in Seq(Rooms)
      BY <1>2 DEF TypeOK
    <3>3. <<r>> \o chain \in Seq(Rooms)
      BY <1>1, <3>2
    <3>4. \A q : q \in ToSet(<<r>> \o chain) => q = r \/ q \in ToSet(chain)
      <4> HIDE DEF r, chain
      <4> QED BY <1>1, <3>2, NewHead
    <3>5. /\ cache'[r % Buckets] = <<r>> \o chain
          /\ \A b \in 0..(Buckets - 1) : b # r % Buckets => cache'[b] = cache[b]
      BY <1>2, <3>1 DEF TypeOK
    <3>6. cache' \in [0..(Buckets - 1) -> Seq(Rooms)]
      BY <1>2, <3>1, <3>3 DEF TypeOK
    <3>7. ASSUME NEW q \in Rooms, NEW b \in 0..(Buckets - 1), q \in ToSet(cache'[b])
          PROVE  b = q % Buckets /\ table'[q] # NoTable
      <4>1. (b = r % Buckets /\ q = r) \/ q \in ToSet(cache[b])
        BY <3>4, <3>5, <3>7
      <4> HIDE DEF chain
      <4> QED BY <1>3, <4>1 DEF TypeOK
    <3> QED BY <3>6, <3>7
  <2> QED BY <2>1, <2>2
<1>5. /\ job'.pc = "ready" /\ job'.from = job.from /\ job'.id = job.id /\ job'.time = job.time
      /\ job' \in [pc : {"idle", "numbered", "ready", "stored"},
                   from : Clients \cup {NoClient}, id : Nat, time : Times \cup {0}]
  BY <1>1 DEF TypeOK
<1>6. TypeOK'
  BY <1>1, <1>3, <1>4, <1>5 DEF TypeOK
<1>7. OrderInv'
  <2>1. seq' \in Nat /\ seq <= seq'
    BY <1>1, RoomNumbers DEF TypeOK
  <2> QED BY <1>3, <2>1, SameLines
<1>8. JobInv'
  BY <1>1, <1>3, <1>5 DEF JobInv
<1> QED BY <1>6, <1>7, <1>8

(* InsertLine: the line goes behind all others of its room, with a number    *)
(* that is above those of all rooms.                                         *)
LEMMA InsertLineOK ==
    ASSUME IInv, InsertLine
    PROVE  IInv'
<1> USE DEF IInv
<1> DEFINE r == room[job.from]
           old == table[r]
           new == Append(old, NewLine)
<1>1. /\ UNCHANGED <<running, seq, created, rows, cache, session, room, heard, missed, joinedAt>>
      /\ job.pc = "ready" /\ job' = [job EXCEPT !.pc = "stored"] /\ r \in Rooms
      /\ table' = [table EXCEPT ![r] = new]
      /\ old # NoTable /\ old \in Seq(Line)
  BY DEF InsertLine, seats, TypeOK, JobInv
<1>2. NewLine \in Line /\ NewLine.id = job.id
  BY <1>1 DEF NewLine, Line, TypeOK, JobInv
<1>3. new \in Seq(Line) /\ new # NoTable
  <2>1. new \in Seq(Line)
    BY <1>1, <1>2
  <2> QED BY <2>1, RoomNumbers
<1>4. /\ table' \in [Rooms -> Seq(Line) \cup {NoTable}] /\ table'[r] = new
      /\ \A q \in Rooms : q # r => table'[q] = table[q]
  BY <1>1, <1>3 DEF TypeOK
<1>5. /\ DOMAIN new = 1..(Len(old) + 1) /\ DOMAIN old = 1..Len(old) /\ Len(old) \in Nat
      /\ \A i \in DOMAIN old : new[i] = old[i]
      /\ new[Len(old) + 1].id = job.id
  BY <1>1, <1>2
<1>6. /\ Lines(r) = old
      /\ \A q \in Rooms : Lines(q)' = IF q = r THEN new ELSE Lines(q)
  BY <1>1, <1>3, <1>4 DEF Lines
<1>7. /\ \A q \in Rooms : \A i \in DOMAIN Lines(q) : Lines(q)[i].id < job.id
      /\ job.id <= seq /\ job.id \in Nat /\ seq \in Nat
  BY <1>1, RoomNumbers DEF JobInv, TypeOK
<1>8. /\ job'.pc = "stored" /\ job'.from = job.from /\ job'.id = job.id /\ job'.time = job.time
      /\ job' \in [pc : {"idle", "numbered", "ready", "stored"},
                   from : Clients \cup {NoClient}, id : Nat, time : Times \cup {0}]
  BY <1>1 DEF TypeOK
<1>9. TypeOK'
  <2>1. \A q \in Rooms : table'[q] # NoTable <=> table[q] # NoTable
    BY <1>1, <1>3, <1>4
  <2> HIDE DEF r, new, old
  <2> QED BY <1>1, <1>4, <1>8, <2>1 DEF TypeOK
<1>10. OrderInv'
  <2> HIDE DEF r, new, old
  <2>1. \A i \in DOMAIN old : old[i].id < job.id /\ old[i].id \in Nat
    BY <1>1, <1>6, <1>7, LinesAreLines
  <2>2. \A i \in DOMAIN new : i \in DOMAIN old \/ i = Len(old) + 1
    BY <1>5
  <2>3. \A i, j \in DOMAIN new : i < j => new[i].id < new[j].id
    <3>1. \A i, j \in DOMAIN old : i < j => old[i].id < old[j].id
      BY <1>1, <1>6 DEF OrderInv
    <3>2. \A i, j \in DOMAIN new : i < j => i \in DOMAIN old
      BY <1>5
    <3>3. ASSUME NEW i \in DOMAIN new, NEW j \in DOMAIN new, i < j
          PROVE  new[i].id < new[j].id
      <4>1. CASE j \in DOMAIN old
        BY <1>5, <3>1, <3>2, <3>3, <4>1
      <4>2. CASE j = Len(old) + 1
        BY <1>5, <2>1, <3>2, <3>3, <4>2
      <4> QED BY <2>2, <4>1, <4>2
    <3> QED BY <3>3
  <2>4. \A i \in DOMAIN new : new[i].id <= seq
    BY <1>5, <1>7, <2>1, <2>2
  <2>5. \A q \in Rooms : q # r =>
          \A i \in DOMAIN new, j \in DOMAIN Lines(q) : new[i].id # Lines(q)[j].id
    <3>1. ASSUME NEW q \in Rooms, q # r, NEW i \in DOMAIN new, NEW j \in DOMAIN Lines(q)
          PROVE  new[i].id # Lines(q)[j].id
      <4>1. Lines(q)[j].id < job.id /\ Lines(q)[j].id \in Nat
        BY <1>7, LinesAreLines
      <4>2. CASE i \in DOMAIN old
        BY <1>1, <1>5, <1>6, <3>1, <4>2 DEF OrderInv
      <4>3. CASE i = Len(old) + 1
        BY <1>5, <1>7, <4>1, <4>3
      <4> QED BY <2>2, <4>2, <4>3
    <3> QED BY <3>1
  <2>6. \A q, p \in Rooms : q # p =>
          \A i \in DOMAIN Lines(q)', j \in DOMAIN Lines(p)' : Lines(q)'[i].id # Lines(p)'[j].id
    <3>1. ASSUME NEW q \in Rooms, NEW p \in Rooms, q # p
          PROVE  \A i \in DOMAIN Lines(q)', j \in DOMAIN Lines(p)' : Lines(q)'[i].id # Lines(p)'[j].id
      <4>1. CASE q = r
        BY <1>6, <2>5, <3>1, <4>1
      <4>2. CASE p = r
        BY <1>6, <2>5, <3>1, <4>2
      <4>3. CASE q # r /\ p # r
        BY <1>6, <3>1, <4>3 DEF OrderInv
      <4> QED BY <4>1, <4>2, <4>3
    <3> QED BY <3>1
  <2>7. \A q \in Rooms :
          /\ \A i, j \in DOMAIN Lines(q)' : i < j => Lines(q)'[i].id < Lines(q)'[j].id
          /\ \A i \in DOMAIN Lines(q)' : Lines(q)'[i].id <= seq
    <3>1. ASSUME NEW q \in Rooms
          PROVE  /\ \A i, j \in DOMAIN Lines(q)' : i < j => Lines(q)'[i].id < Lines(q)'[j].id
                 /\ \A i \in DOMAIN Lines(q)' : Lines(q)'[i].id <= seq
      <4>1. CASE q = r
        BY <1>6, <2>3, <2>4, <4>1
      <4>2. CASE q # r
        BY <1>6, <4>2 DEF OrderInv
      <4> QED BY <4>1, <4>2
    <3> QED BY <3>1
  <2> QED BY <1>1, <2>6, <2>7 DEF OrderInv
<1>11. JobInv'
  BY <1>1, <1>8 DEF JobInv
<1> QED BY <1>9, <1>10, <1>11

(* storeChat fails: the number is lost, and the sender is thrown out.        *)
LEMMA StoreChatFailsOK ==
    ASSUME IInv, StoreChatFails
    PROVE  IInv'
<1> USE DEF IInv
<1>1. /\ UNCHANGED <<running, seq, cache>> /\ job' = NoJob
      /\ job.from \in Clients /\ room[job.from] \in Rooms
      /\ LeaveRows(job.from) /\ Seat(job.from, 0)
      /\ session' = [session EXCEPT ![job.from] = "away"]
  BY DEF StoreChatFails, TypeOK
<1>2. SeatsOK'
  <2>1. session' \in [Clients -> {"away", "lobby", "chat", "game"}]
    BY <1>1 DEF TypeOK
  <2> QED BY <1>1, <2>1, LeaveRowsOK, SeatOK, RoomNumbers DEF SeatsOK
<1>3. /\ table' \in [Rooms -> Seq(Line) \cup {NoTable}] /\ created' \in Seq(Rooms)
      /\ \A q \in Rooms : Lines(q)' = Lines(q)
      /\ \A q \in Rooms : table[q] # NoTable => table'[q] # NoTable
      /\ \A q \in Rooms : table'[q] # NoTable <=> q \in ToSet(created')
  <2>1. CASE CreateRoomTable(room[job.from])
    BY <1>1, <2>1, CreateRoomTableOK
  <2>2. CASE UNCHANGED <<table, created>>
    BY <2>2 DEF TypeOK, Lines
  <2> QED BY <2>1, <2>2 DEF StoreChatFails
<1>4. /\ job'.pc = "idle"
      /\ job' \in [pc : {"idle", "numbered", "ready", "stored"},
                   from : Clients \cup {NoClient}, id : Nat, time : Times \cup {0}]
  BY <1>1 DEF NoJob
<1>5. TypeOK'
  BY <1>1, <1>2, <1>3, <1>4 DEF TypeOK, SeatsOK
<1>6. OrderInv'
  <2>1. seq' \in Nat /\ seq <= seq'
    BY <1>1, RoomNumbers DEF TypeOK
  <2> QED BY <1>3, <2>1, SameLines
<1>7. JobInv'
  BY <1>4 DEF JobInv
<1> QED BY <1>5, <1>6, <1>7

(* broadcastToRoom: each of the others in the room hears the line or misses  *)
(* it, and nobody else does either.                                          *)
LEMMA BroadcastIs ==
    ASSUME TypeOK, BroadcastToRoom, NewLine \in Line, NEW c \in Clients
    PROVE  /\ heard'[c] \in Seq(Line) /\ missed'[c] \subseteq Line
           /\ IF BeingSentTo(c) /\ room[c] # 0
              THEN \/ heard'[c] = Append(heard[c], NewLine) /\ missed'[c] = missed[c]
                   \/ heard'[c] = heard[c] /\ missed'[c] = missed[c] \cup {NewLine}
              ELSE heard'[c] = heard[c] /\ missed'[c] = missed[c]
<1> DEFINE to == IF room[job.from] = 0 THEN {} ELSE Members(room[job.from]) \ {job.from}
<1>1. Broadcast(to) /\ job.pc = "stored"
  BY DEF BroadcastToRoom
<1>2. c \in to <=> BeingSentTo(c) /\ room[c] # 0
  BY <1>1 DEF Members, BeingSentTo
<1> HIDE DEF to
<1>3. PICK got \in SUBSET to :
        /\ heard' = [d \in Clients |-> IF d \in got THEN Append(heard[d], NewLine) ELSE heard[d]]
        /\ missed' = [d \in Clients |-> IF d \in to \ got THEN missed[d] \cup {NewLine} ELSE missed[d]]
  BY <1>1 DEF Broadcast
<1>4. heard[c] \in Seq(Line) /\ missed[c] \subseteq Line
  BY DEF TypeOK
<1>5. Append(heard[c], NewLine) \in Seq(Line)
  BY <1>4
<1> QED BY <1>2, <1>3, <1>4, <1>5

(* The broadcast: the tables are not asked.                                  *)
LEMMA BroadcastToRoomOK ==
    ASSUME IInv, BroadcastToRoom
    PROVE  IInv'
<1> USE DEF IInv
<1>1. /\ UNCHANGED <<running, seq, table, created, rows, cache, session, room, joinedAt>>
      /\ job' = NoJob /\ job.pc = "stored"
  BY DEF BroadcastToRoom, disk, seats
<1>2. NewLine \in Line
  BY <1>1 DEF NewLine, Line, TypeOK, JobInv
<1>3. \A c \in Clients : heard'[c] \in Seq(Line) /\ missed'[c] \subseteq Line
  BY <1>2, BroadcastIs
<1>4. heard' \in [Clients -> Seq(Line)] /\ missed' \in [Clients -> SUBSET Line]
  <2>1. /\ heard' = [c \in Clients |-> heard'[c]]
        /\ missed' = [c \in Clients |-> missed'[c]]
    BY DEF BroadcastToRoom, Broadcast
  <2> HIDE DEF IInv
  <2>2. DOMAIN heard' = Clients /\ DOMAIN missed' = Clients
    BY <2>1
  <2> QED BY <1>3, <2>1, <2>2
<1>5. /\ job'.pc = "idle"
      /\ job' \in [pc : {"idle", "numbered", "ready", "stored"},
                   from : Clients \cup {NoClient}, id : Nat, time : Times \cup {0}]
  BY <1>1 DEF NoJob
<1>6. TypeOK'
  BY <1>1, <1>4, <1>5 DEF TypeOK
<1>7. OrderInv'
  <2>1. seq' \in Nat /\ seq <= seq' /\ \A r \in Rooms : Lines(r)' = Lines(r)
    BY <1>1, RoomNumbers DEF TypeOK, Lines
  <2> QED BY <2>1, SameLines
<1>8. JobInv'
  BY <1>5 DEF JobInv
<1> QED BY <1>6, <1>7, <1>8

(* A step in which nothing happens.                                          *)
LEMMA StutterOK ==
    ASSUME IInv, UNCHANGED vars
    PROVE  IInv'
<1>1. UNCHANGED <<running, seq, table, created, rows, cache, session, room, job, heard, missed, joinedAt>>
  BY DEF vars
<1>2. \A r \in Rooms : Lines(r)' = Lines(r)
  BY <1>1 DEF Lines
<1>3. TypeOK'
  BY <1>1 DEF IInv, TypeOK
<1>4. OrderInv' /\ JobInv'
  BY <1>1, <1>2 DEF IInv, OrderInv, JobInv
<1> QED BY <1>3, <1>4 DEF IInv

(* chat.c, chatDb.c, room.c: every step keeps the invariant.                 *)
THEOREM StepKeepsOrder ==
    ASSUME IInv, [Next]_vars
    PROVE  IInv'
<1>1. CASE DbInit \/ ServerStops
  BY <1>1, StartAndStopOK
<1>2. ASSUME NEW c \in Clients, Handlers(c)  PROVE IInv'
  <2>1. CASE \E t \in Times : ChatMessage(c, t)
    BY <2>1, ChatMessageOK
  <2>2. CASE ~\E t \in Times : ChatMessage(c, t)
    BY <1>2, <2>2, RoomStepsOK DEF Handlers
  <2> QED BY <2>1, <2>2
<1>3. CASE GetOrCreateRoomStmts
  BY <1>3, GetOrCreateRoomStmtsOK
<1>4. CASE InsertLine
  BY <1>4, InsertLineOK
<1>5. CASE StoreChatFails
  BY <1>5, StoreChatFailsOK
<1>6. CASE BroadcastToRoom
  BY <1>6, BroadcastToRoomOK
<1>7. CASE UNCHANGED vars
  BY <1>7, StutterOK
<1> QED BY <1>1, <1>2, <1>3, <1>4, <1>5, <1>6, <1>7 DEF Next

(* The rows of every room in order, as the query by number sees them.        *)
LEMMA OrderIsIdsInOrder ==
    ASSUME IInv
    PROVE  IdsInOrder
<1> USE DEF IInv
<1>1. ASSUME NEW r \in Rooms, NEW i \in 1..MaxLines, NEW j \in 1..MaxLines,
             i < j, j <= Len(Lines(r))
      PROVE  Lines(r)[i].id < Lines(r)[j].id
  <2>1. Lines(r) \in Seq(Line)
    BY LinesAreLines
  <2>2. DOMAIN Lines(r) = 1..Len(Lines(r)) /\ Len(Lines(r)) \in Nat
    BY <2>1
  <2>3. i \in DOMAIN Lines(r) /\ j \in DOMAIN Lines(r)
    BY <1>1, <2>2, RoomNumbers
  <2> QED BY <1>1, <2>3 DEF OrderInv
<1>2. ASSUME NEW r \in Rooms, NEW l \in ToSet(Lines(r))
      PROVE  /\ l.id <= seq
             /\ job.pc \in {"numbered", "ready"} => l.id < job.id
             /\ \A q \in Rooms \ {r} : QueryChatByMsgId(q, l.id) = {}
  <2>1. PICK i \in DOMAIN Lines(r) : l = Lines(r)[i]
    BY DEF ToSet
  <2>2. l.id <= seq /\ (job.pc \in {"numbered", "ready"} => l.id < job.id)
    BY <2>1 DEF OrderInv, JobInv
  <2>3. ASSUME NEW q \in Rooms \ {r}  PROVE QueryChatByMsgId(q, l.id) = {}
    <3>1. \A j \in DOMAIN Lines(q) : Lines(q)[j].id # l.id
      BY <2>1 DEF OrderInv
    <3> QED BY <3>1 DEF QueryChatByMsgId, ToSet
  <2> QED BY <2>2, <2>3
<1> QED BY <1>1, <1>2 DEF IdsInOrder

(* The inductive invariant of the history: its types, the order of the       *)
(* numbers, and what is known of the line in hand (serverHandleChatMessage). *)
THEOREM HistoryInvariant == Spec => []IInv
<1>1. IInv /\ [Next]_vars => IInv'
  BY StepKeepsOrder
<1> QED BY InitOK, <1>1, PTL DEF Spec

(* generateMsgId: numbers go up in every room, and none is given twice,      *)
(* through failures, restarts and rooms that are made again.                 *)
THEOREM IdsAreInOrder == Spec => []IdsInOrder
<1> QED BY HistoryInvariant, OrderIsIdsInOrder, PTL

-----------------------------------------------------------------------------
(* What is heard *)

(* chatDb.c: the insertion is the only statement that changes what a table   *)
(* says; a table that is made is empty.                                      *)
LEMMA OnlyInsertWrites ==
    ASSUME IInv, [Next]_vars, ~InsertLine
    PROVE  \A r \in Rooms : Lines(r)' = Lines(r)
<1>1. TypeOK
  BY DEF IInv
<1>2. CASE UNCHANGED table
  BY <1>2 DEF Lines
<1>3. CASE GetOrCreateRoomStmts \/ StoreChatFails
  <2>1. room[job.from] \in Rooms
    BY <1>1, <1>3 DEF GetOrCreateRoomStmts, StoreChatFails, TypeOK
  <2>2. CreateRoomTable(room[job.from]) \/ UNCHANGED table
    BY <1>3 DEF GetOrCreateRoomStmts, StoreChatFails, RoomCacheCreate
  <2> QED BY <1>1, <1>2, <2>1, <2>2, CreateRoomTableOK
<1>4. UNCHANGED table \/ GetOrCreateRoomStmts \/ StoreChatFails
  BY DEF Next, vars, Handlers, DbInit, ServerStops, Connect, RoomQuit, SecondFactor,
         ClientDisconnect, EnterGameRoom, LeaveGameRoom, RoomCreate, RoomJoin, ChatMessage,
         BroadcastToRoom, disk
<1> QED BY <1>2, <1>3, <1>4

(* InsertLine: one more line behind those of its room.                       *)
LEMMA InsertLineAdds ==
    ASSUME IInv, InsertLine
    PROVE  /\ room[job.from] \in Rooms /\ NewLine \in Line /\ NewLine.from = job.from
           /\ NewLine.id = job.id /\ NewLine.time = job.time
           /\ \A q \in Rooms : Lines(q)' = IF q = room[job.from]
                                           THEN Append(Lines(q), NewLine) ELSE Lines(q)
<1> DEFINE r == room[job.from]
           old == table[r]
<1> USE DEF IInv
<1>1. /\ job.pc = "ready" /\ r \in Rooms /\ old # NoTable /\ old \in Seq(Line)
      /\ table' = [table EXCEPT ![r] = Append(old, NewLine)]
  BY DEF InsertLine, seats, TypeOK, JobInv
<1>2. /\ NewLine \in Line /\ NewLine.from = job.from /\ NewLine.id = job.id
      /\ NewLine.time = job.time
  BY <1>1 DEF NewLine, Line, TypeOK, JobInv
<1>3. Append(old, NewLine) # NoTable
  <2>1. Append(old, NewLine) \in Seq(Line)
    BY <1>1, <1>2
  <2> QED BY <2>1, RoomNumbers
<1>4. /\ table'[r] = Append(old, NewLine)
      /\ \A q \in Rooms : q # r => table'[q] = table[q]
  BY <1>1 DEF TypeOK
<1>5. Lines(r) = old
  BY <1>1 DEF Lines
<1> HIDE DEF r, old
<1>6. \A q \in Rooms : Lines(q)' = IF q = r THEN Append(Lines(q), NewLine) ELSE Lines(q)
  BY <1>3, <1>4, <1>5 DEF Lines
<1> QED BY <1>1, <1>2, <1>6 DEF r

(* Who is in a room was there before, with what it heard, while nothing was  *)
(* being said, or joins it now, with nothing.                                *)
ComesOrStays(c) ==
    \/ /\ job.pc # "stored"
       /\ room'[c] = room[c] /\ heard'[c] = heard[c]
       /\ missed'[c] = missed[c] /\ joinedAt'[c] = joinedAt[c]
    \/ heard'[c] = <<>> /\ missed'[c] = {} /\ (room'[c] # 0 => joinedAt'[c] = Len(Lines(room'[c])))

(* A step that only comes and goes.                                          *)
LEMMA ComeAndGo ==
    ASSUME IInv, IInv', HeardInv, job'.pc # "stored",
           \A r \in Rooms : Lines(r)' = Lines(r),
           \A c \in Clients : ComesOrStays(c)
    PROVE  HeardInv'
<1>1. \A c \in Clients : Lines(room[c])' = Lines(room'[c]) /\ room'[c] \in Rooms
  BY DEF IInv, TypeOK, Lines
<1>2. ASSUME NEW c \in Clients
      PROVE  /\ \A i, j \in DOMAIN heard'[c] : i < j => heard'[c][i].id < heard'[c][j].id
             /\ ToSet(heard'[c]) \cap missed'[c] = {}
             /\ ToSet(heard'[c]) \cup missed'[c] = IF room'[c] = 0 THEN {} ELSE SaidByOthers(c)'
             /\ room'[c] # 0 => joinedAt'[c] <= Len(Lines(room'[c]))
  <2> DEFINE here == Lines(room'[c])
  <2>1. here \in Seq(Line) /\ Len(here) \in Nat
    BY <1>1, LinesAreLines DEF IInv
  <2>2. SaidByOthers(c)' = {here[i] : i \in {k \in (joinedAt'[c] + 1)..Len(here) : here[k].from # c}}
    BY <1>1 DEF SaidByOthers
  <2> HIDE DEF here
  <2>3. CASE /\ job.pc # "stored"
             /\ room'[c] = room[c] /\ heard'[c] = heard[c]
             /\ missed'[c] = missed[c] /\ joinedAt'[c] = joinedAt[c]
    <3>1. SaidByOthers(c)' = SaidByOthers(c)
      BY <2>2, <2>3 DEF SaidByOthers, here
    <3>2. ~BeingSentTo(c)
      BY <2>3 DEF BeingSentTo
    <3> QED BY <2>3, <3>1, <3>2 DEF HeardInv, HeardIsHistory
  <2>4. CASE heard'[c] = <<>> /\ missed'[c] = {} /\ (room'[c] # 0 => joinedAt'[c] = Len(here))
    <3>1. ToSet(heard'[c]) = {} /\ DOMAIN heard'[c] = {}
      BY <2>4 DEF ToSet
    <3>2. room'[c] # 0 => SaidByOthers(c)' = {} /\ joinedAt'[c] <= Len(here)
      BY <2>1, <2>2, <2>4
    <3> QED BY <2>4, <3>1, <3>2 DEF here
  <2> QED BY <2>3, <2>4 DEF here, ComesOrStays
<1>3. \A c \in Clients : ~BeingSentTo(c)'
  BY DEF BeingSentTo
<1> QED BY <1>1, <1>2, <1>3 DEF HeardInv, HeardIsHistory

(* room.c: what a session has in its new room.                               *)
LEMMA SeatStartsAnew ==
    ASSUME IInv, job.pc # "stored", NEW c \in Clients, NEW r \in Rooms, Seat(c, r)
    PROVE  \A d \in Clients : ComesOrStays(d)
<1>1. CASE r = 0
  BY <1>1 DEF Seat, IInv, TypeOK, ComesOrStays
<1>2. CASE r # 0
  <2>1. Len(Lines(r)) = IF r = 0 \/ table[r] = NoTable THEN 0 ELSE Len(table[r])
    BY <1>2 DEF Lines
  <2> QED BY <2>1 DEF Seat, IInv, TypeOK, ComesOrStays
<1> QED BY <1>1, <1>2

(* Every step but the insertion and the broadcast is of that kind.           *)
LEMMA OthersComeAndGo ==
    ASSUME IInv, Next, ~InsertLine, ~BroadcastToRoom
    PROVE  job'.pc # "stored" /\ \A d \in Clients : ComesOrStays(d)
<1> USE DEF IInv
<1>1. CASE DbInit
  <2>1. job.pc = "idle"
    BY <1>1 DEF DbInit, TypeOK
  <2> QED BY <1>1, <2>1 DEF DbInit, seats, ComesOrStays
<1>2. CASE ServerStops
  BY <1>2 DEF ServerStops, NoJob, ComesOrStays
<1>3. ASSUME NEW c \in Clients, Handlers(c)
      PROVE  job'.pc # "stored" /\ \A d \in Clients : ComesOrStays(d)
  <2>1. /\ job.pc = "idle" /\ (job' = job \/ job'.pc = "numbered")
        /\ UNCHANGED <<room, heard, missed, joinedAt>> \/ \E r \in Rooms : Seat(c, r)
    <3>1. CASE \E r \in RoomIds : RoomJoin(c, r)
      BY <3>1, RoomNumbers DEF RoomJoin, Idle
    <3>2. CASE RoomQuit(c) \/ EnterGameRoom(c) \/ ClientDisconnect(c)
      BY <3>2, RoomNumbers DEF RoomQuit, EnterGameRoom, ClientDisconnect, Idle
    <3>3. CASE Connect(c) \/ SecondFactor(c) \/ LeaveGameRoom(c)
      BY <3>3 DEF Connect, SecondFactor, LeaveGameRoom, Idle
    <3>4. CASE \E r \in RoomIds : RoomCreate(c, r)
      BY <3>4 DEF RoomCreate, Idle
    <3>5. CASE \E t \in Times : ChatMessage(c, t)
      <4>1. PICK t \in Times : ChatMessage(c, t)
        BY <3>5
      <4>2. job' = [pc |-> "numbered", from |-> c, id |-> seq', time |-> t]
        BY <4>1 DEF ChatMessage
      <4> QED BY <4>1, <4>2 DEF ChatMessage, Idle, seats
    <3> QED BY <1>3, <3>1, <3>2, <3>3, <3>4, <3>5 DEF Handlers
  <2>2. job'.pc # "stored"
    BY <2>1
  <2>3. CASE UNCHANGED <<room, heard, missed, joinedAt>>
    BY <2>1, <2>3 DEF ComesOrStays
  <2>4. CASE \E r \in Rooms : Seat(c, r)
    BY <2>1, <2>4, SeatStartsAnew
  <2> QED BY <2>1, <2>2, <2>3, <2>4
<1>4. CASE GetOrCreateRoomStmts
  BY <1>4 DEF GetOrCreateRoomStmts, seats, TypeOK, ComesOrStays
<1>5. CASE StoreChatFails
  <2>1. job.pc # "stored" /\ job.from \in Clients /\ Seat(job.from, 0) /\ job'.pc = "idle"
    BY <1>5 DEF StoreChatFails, NoJob, TypeOK
  <2> QED BY <2>1, RoomNumbers, SeatStartsAnew
<1> QED BY <1>1, <1>2, <1>3, <1>4, <1>5 DEF Next

(* InsertLine: the line that is in the table now is not heard yet.           *)
LEMMA InsertLineHeard ==
    ASSUME IInv, IInv', HeardInv, InsertLine
    PROVE  HeardInv'
<1> DEFINE r == room[job.from]
           here == Lines(r)
           line == NewLine
<1>1. /\ r \in Rooms /\ line \in Line /\ line.from = job.from /\ line.id = job.id
      /\ \A q \in Rooms : Lines(q)' = IF q = r THEN Append(Lines(q), line) ELSE Lines(q)
  BY InsertLineAdds
<1>2. /\ UNCHANGED <<room, heard, missed, joinedAt>> /\ job.pc = "ready" /\ job'.pc = "stored"
      /\ job'.from = job.from /\ NewLine' = line /\ job.from \in Clients
      /\ \A c \in Clients : room[c] \in Rooms
  BY DEF InsertLine, seats, NewLine, IInv, TypeOK
<1>3. here \in Seq(Line) /\ Len(here) \in Nat
  BY <1>1, LinesAreLines DEF IInv
<1>4. /\ Len(Append(here, line)) = Len(here) + 1
      /\ Append(here, line)[Len(here) + 1] = line
      /\ \A i \in 1..Len(here) : Append(here, line)[i] = here[i]
  BY <1>1, <1>3
<1>5. \A i \in 1..Len(here) : here[i] # line
  <2>1. \A i \in DOMAIN here : here[i].id < job.id /\ here[i].id \in Nat
    BY <1>1, <1>2, LinesAreLines DEF IInv, JobInv
  <2>2. DOMAIN here = 1..Len(here)
    BY <1>3
  <2> HIDE DEF r, here, line
  <2> QED BY <1>1, <2>1, <2>2
<1>6. /\ Lines(r)' = Append(here, line)
      /\ \A c \in Clients : Lines(room[c])' = IF room[c] = r THEN Append(here, line) ELSE Lines(room[c])
      /\ Lines(room[job.from])' = Append(here, line)
  BY <1>1, <1>2 DEF Lines
<1> HIDE DEF r, here, line
<1>7. ASSUME NEW c \in Clients
      PROVE  ToSet(heard[c]) \cup missed[c] = IF room[c] = 0 THEN {}
                               ELSE IF BeingSentTo(c)' THEN SaidByOthers(c)' \ {line}
                               ELSE SaidByOthers(c)'
  <2>1. CASE room[c] = 0
    BY <2>1 DEF HeardInv, HeardIsHistory
  <2>2. CASE room[c] # 0 /\ room[c] # r
    <3>1. SaidByOthers(c)' = SaidByOthers(c) /\ ~BeingSentTo(c)' /\ ~BeingSentTo(c)
      BY <1>2, <1>6, <2>2 DEF SaidByOthers, BeingSentTo, r
    <3> QED BY <2>2, <3>1 DEF HeardInv, HeardIsHistory
  <2>3. CASE room[c] # 0 /\ room[c] = r
    <3> DEFINE lo == joinedAt[c] + 1
    <3>1. ToSet(heard[c]) \cup missed[c] = {here[i] : i \in {k \in lo..Len(here) : here[k].from # c}}
      BY <1>2, <2>3 DEF HeardInv, HeardIsHistory, SaidByOthers, BeingSentTo, here
    <3>2. SaidByOthers(c)' = {Append(here, line)[i] : i \in
                                {k \in lo..(Len(here) + 1) : Append(here, line)[k].from # c}}
      <4>1. PICK new : new = Append(here, line)
        OBVIOUS
      <4>2. Lines(room[c])' = new /\ joinedAt' = joinedAt
        BY <1>2, <1>6, <2>3, <4>1
      <4>3. SaidByOthers(c)' = {new[i] : i \in {k \in lo..Len(new) : new[k].from # c}}
        BY <4>2, Zenon DEF SaidByOthers
      <4>4. Len(new) = Len(here) + 1
        BY <1>4, <4>1
      <4> QED BY <4>1, <4>3, <4>4, Zenon
    <3>3. lo \in Nat \ {0} /\ lo <= Len(here) + 1
      <4>1. Lines(room[c]) = here
        BY <2>3 DEF here
      <4>2. joinedAt[c] \in Nat /\ joinedAt[c] <= Len(here)
        BY <2>3, <4>1 DEF HeardInv, IInv, TypeOK
      <4> QED BY <1>3, <4>2
    <3>4. BeingSentTo(c)' <=> job.from # c
      BY <1>2, <2>3 DEF BeingSentTo, r
    <3> HIDE DEF lo
    <3>5. lo..(Len(here) + 1) = (lo..Len(here)) \cup {Len(here) + 1} /\ lo..Len(here) \subseteq 1..Len(here)
      <4>1. PICK n : n = Len(here)
        OBVIOUS
      <4>2. n \in Nat /\ lo \in Nat \ {0} /\ lo <= n + 1
        BY <1>3, <3>3, <4>1
      <4>3. lo..(n + 1) = (lo..n) \cup {n + 1} /\ lo..n \subseteq 1..n
        BY <4>2
      <4> QED BY <4>1, <4>3, Zenon
    <3>6. CASE job.from = c
      <4>1. {k \in lo..(Len(here) + 1) : Append(here, line)[k].from # c} = {k \in lo..Len(here) : here[k].from # c}
        BY <1>1, <1>4, <3>5, <3>6
      <4> QED BY <1>4, <2>3, <3>1, <3>2, <3>4, <3>5, <3>6, <4>1
    <3>7. CASE job.from # c
      <4>1. {k \in lo..(Len(here) + 1) : Append(here, line)[k].from # c}
              = {k \in lo..Len(here) : here[k].from # c} \cup {Len(here) + 1}
        BY <1>1, <1>4, <3>5, <3>7
      <4>2. SaidByOthers(c)' = ToSet(heard[c]) \cup missed[c] \cup {line}
        BY <1>4, <3>1, <3>2, <3>5, <4>1
      <4>3. line \notin ToSet(heard[c]) \cup missed[c]
        BY <1>5, <3>1, <3>5
      <4> QED BY <2>3, <3>4, <3>7, <4>2, <4>3
    <3> QED BY <3>6, <3>7
  <2> QED BY <2>1, <2>2, <2>3
<1>8. HeardIsHistory'
  BY <1>2, <1>7 DEF HeardInv, HeardIsHistory, line
<1>9. ASSUME NEW c \in Clients, room[c] # 0
      PROVE  /\ joinedAt[c] <= Len(Lines(room[c])')
             /\ room[c] = r => joinedAt[c] < Len(here) + 1
  <2>1. joinedAt[c] \in Nat /\ joinedAt[c] <= Len(Lines(room[c]))
    BY <1>9 DEF HeardInv, IInv, TypeOK
  <2>2. CASE room[c] = r
    <3>1. Lines(room[c]) = here
      BY <2>2 DEF here
    <3>2. Len(Lines(room[c])') = Len(here) + 1
      BY <1>4, <1>6, <2>2
    <3> QED BY <1>3, <2>1, <3>1, <3>2
  <2>3. CASE room[c] # r
    BY <1>6, <2>1, <2>3
  <2> QED BY <2>2, <2>3
<1>10. Len(here) + 1 > 0
  BY <1>3
<1> QED BY <1>2, <1>4, <1>6, <1>8, <1>9, <1>10 DEF HeardInv, r, line

(* A step that changes nothing that HeardInv speaks of.                      *)
LEMMA HeardStutter ==
    ASSUME HeardInv, UNCHANGED vars
    PROVE  HeardInv'
<1>1. UNCHANGED <<table, room, job, heard, missed, joinedAt>>
  BY DEF vars
<1>2. UNCHANGED <<NewLine>> /\ \A c \in Clients : UNCHANGED <<SaidByOthers(c), BeingSentTo(c), Lines(room[c])>>
  BY <1>1 DEF SaidByOthers, BeingSentTo, NewLine, Lines
<1>3. UNCHANGED Lines(room[job.from])
  BY <1>1 DEF Lines
<1>4. HeardIsHistory'
  BY <1>1, <1>2 DEF HeardInv, HeardIsHistory
<1> QED BY <1>1, <1>2, <1>3, <1>4 DEF HeardInv

(* broadcastToRoom: everybody in the room has heard the last line now.       *)
LEMMA BroadcastHeard ==
    ASSUME IInv, IInv', HeardInv, BroadcastToRoom
    PROVE  HeardInv'
<1> DEFINE r == room[job.from]
           here == Lines(r)
           line == NewLine
<1>1. /\ UNCHANGED <<table, room, joinedAt>> /\ job.pc = "stored" /\ job'.pc = "idle"
      /\ job.from \in Clients /\ r \in Rooms /\ line.from = job.from
  BY DEF BroadcastToRoom, disk, seats, NoJob, NewLine, IInv, TypeOK
<1>2. line \in Line
  BY <1>1 DEF NewLine, Line, IInv, TypeOK, JobInv
<1>3. here \in Seq(Line) /\ DOMAIN here = 1..Len(here) /\ Len(here) \in Nat
  BY <1>1, LinesAreLines DEF IInv
<1>4. Len(here) > 0 /\ here[Len(here)] = line
  BY <1>1 DEF HeardInv
<1>5. \A i, j \in DOMAIN here : i < j => here[i].id < here[j].id
  BY <1>1 DEF IInv, OrderInv
<1>6. \A c \in Clients : ~BeingSentTo(c)'
  BY <1>1 DEF BeingSentTo
<1>7. \A c \in Clients : SaidByOthers(c)' = SaidByOthers(c) /\ Lines(room[c])' = Lines(room[c])
  BY <1>1 DEF SaidByOthers, Lines
<1> HIDE DEF r, here, line
<1>8. ASSUME NEW c \in Clients
      PROVE  /\ \A i, j \in DOMAIN heard'[c] : i < j => heard'[c][i].id < heard'[c][j].id
             /\ ToSet(heard'[c]) \cap missed'[c] = {}
             /\ ToSet(heard'[c]) \cup missed'[c] = IF room[c] = 0 THEN {} ELSE SaidByOthers(c)
  <2>1. CASE ~(c # job.from /\ room[c] = r /\ room[c] # 0)
    <3>1. heard'[c] = heard[c] /\ missed'[c] = missed[c]
      BY <1>2, <2>1, BroadcastIs DEF BeingSentTo, IInv, r, line
    <3>2. room[c] # 0 => ~BeingSentTo(c)
      BY <2>1 DEF BeingSentTo, r
    <3> QED BY <3>1, <3>2 DEF HeardInv, HeardIsHistory
  <2>2. CASE c # job.from /\ room[c] = r /\ room[c] # 0
    <3> DEFINE old == heard[c]
               said == SaidByOthers(c)
    <3>1. /\ old \in Seq(Line)
          /\ \/ heard'[c] = Append(old, line) /\ missed'[c] = missed[c]
             \/ heard'[c] = old /\ missed'[c] = missed[c] \cup {line}
      BY <1>1, <1>2, <2>2, BroadcastIs DEF BeingSentTo, IInv, TypeOK, r, line
    <3>2. /\ ToSet(old) \cap missed[c] = {}
          /\ ToSet(old) \cup missed[c] = said \ {line}
          /\ \A i, j \in DOMAIN old : i < j => old[i].id < old[j].id
      BY <1>1, <2>2 DEF HeardInv, HeardIsHistory, BeingSentTo, r, line
    <3>3. joinedAt[c] \in Nat /\ joinedAt[c] < Len(here)
      BY <1>1, <2>2 DEF HeardInv, IInv, TypeOK, here, r
    <3>4. said = {here[i] : i \in {k \in (joinedAt[c] + 1)..Len(here) : here[k].from # c}}
      BY <2>2 DEF SaidByOthers, here
    <3> HIDE DEF old, said
    <3>5. line \in said
      <4>1. Len(here) \in (joinedAt[c] + 1)..Len(here)
        BY <1>3, <3>3
      <4> QED BY <1>1, <1>4, <2>2, <3>4, <4>1
    <3>6. ToSet(heard'[c]) \cap missed'[c] = {} /\ ToSet(heard'[c]) \cup missed'[c] = said
      <4>1. \A x : x \in ToSet(Append(old, line)) <=> x \in ToSet(old) \/ x = line
        BY <1>2, <3>1, AppendAddsOne
      <4>2. ToSet(Append(old, line)) = ToSet(old) \cup {line}
        BY <4>1
      <4> QED BY <3>1, <3>2, <3>5, <4>2
    <3>7. \A i \in DOMAIN old : old[i].id < line.id
      <4> SUFFICES ASSUME NEW i \in DOMAIN old PROVE old[i].id < line.id
        OBVIOUS
      <4>1. old[i] \in said \ {line}
        BY <3>2 DEF ToSet
      <4>2. PICK k \in (joinedAt[c] + 1)..Len(here) : old[i] = here[k]
        BY <3>4, <4>1
      <4>3. k # Len(here)
        BY <1>4, <4>1, <4>2
      <4>4. k \in DOMAIN here /\ Len(here) \in DOMAIN here /\ k < Len(here)
        <5>1. k \in 1..Len(here)
          BY <1>3, <3>3
        <5>2. Len(here) \in Nat /\ Len(here) > 0
          BY <1>3, <1>4
        <5>3. k < Len(here) /\ Len(here) \in 1..Len(here)
          BY <4>3, <5>1, <5>2
        <5> QED BY <1>3, <5>1, <5>3
      <4> QED BY <1>4, <1>5, <4>2, <4>4
    <3>8. /\ DOMAIN Append(old, line) = 1..(Len(old) + 1) /\ DOMAIN old = 1..Len(old)
          /\ Len(old) \in Nat /\ Append(old, line)[Len(old) + 1] = line
          /\ \A i \in DOMAIN old : Append(old, line)[i] = old[i]
      BY <1>2, <3>1
    <3>9. ASSUME NEW i \in DOMAIN Append(old, line), NEW j \in DOMAIN Append(old, line), i < j
          PROVE  Append(old, line)[i].id < Append(old, line)[j].id
      <4>1. i \in DOMAIN old /\ (j \in DOMAIN old \/ j = Len(old) + 1)
        BY <3>8, <3>9
      <4>2. CASE j \in DOMAIN old
        BY <3>2, <3>8, <3>9, <4>1, <4>2
      <4>3. CASE j = Len(old) + 1
        BY <3>7, <3>8, <4>1, <4>3
      <4> QED BY <4>1, <4>2, <4>3
    <3>10. \A i, j \in DOMAIN heard'[c] : i < j => heard'[c][i].id < heard'[c][j].id
      BY <3>1, <3>2, <3>9
    <3> QED BY <2>2, <3>6, <3>10 DEF said
  <2> QED BY <2>1, <2>2
<1>9. HeardIsHistory'
  BY <1>1, <1>6, <1>7, <1>8 DEF HeardIsHistory
<1> QED BY <1>1, <1>7, <1>9 DEF HeardInv

LEMMA HeardInit == Init => HeardInv
<1> SUFFICES ASSUME Init PROVE HeardInv
  OBVIOUS
<1>1. \A c \in Clients : heard[c] = <<>> /\ missed[c] = {} /\ room[c] = 0
  BY DEF Init
<1>2. job.pc = "idle"
  BY DEF Init, NoJob
<1>3. ToSet(<<>>) = {} /\ DOMAIN <<>> = {}
  BY DEF ToSet
<1> QED BY <1>1, <1>2, <1>3 DEF HeardInv, HeardIsHistory

(* The invariant of what is heard, on top of that of the history.            *)
THEOREM HeardInvariant == Spec => [](IInv /\ HeardInv)
<1>1. Init => IInv /\ HeardInv
  BY InitOK, HeardInit
<1>2. IInv /\ HeardInv /\ [Next]_vars => (IInv /\ HeardInv)'
  <2> SUFFICES ASSUME IInv, HeardInv, [Next]_vars PROVE IInv' /\ HeardInv'
    OBVIOUS
  <2>1. IInv'
    BY StepKeepsOrder
  <2>2. CASE UNCHANGED vars
    BY <2>1, <2>2, HeardStutter
  <2>3. CASE InsertLine
    BY <2>1, <2>3, InsertLineHeard
  <2>4. CASE BroadcastToRoom
    BY <2>1, <2>4, BroadcastHeard
  <2>5. CASE Next /\ ~InsertLine /\ ~BroadcastToRoom
    BY <2>1, <2>5, OthersComeAndGo, OnlyInsertWrites, ComeAndGo
  <2> QED BY <2>1, <2>2, <2>3, <2>4, <2>5
<1> QED BY <1>1, <1>2, PTL DEF Spec

(* broadcastToRoom: whoever is in a room has heard what the others said there *)
(* since it came, once each, in order, and nothing else, but for the lines    *)
(* whose send to it failed.                                                   *)
THEOREM WhatIsHeardIsHistory == Spec => []HeardIsHistory
<1>1. HeardInv => HeardIsHistory
  BY DEF HeardInv
<1> QED BY <1>1, HeardInvariant, PTL

-----------------------------------------------------------------------------
(* The history is a log *)

LEMMA SaidIs ==
    \A e : e \in Said <=> \E r \in Rooms : \E i \in DOMAIN Lines(r) : e = Entry(Lines(r)[i], r)
<1>1. \A e : e \in Said <=> \E r \in Rooms : \E l \in ToSet(Lines(r)) : e = Entry(l, r)
  BY DEF Said
<1>2. \A r \in Rooms : \A l : l \in ToSet(Lines(r)) <=> \E i \in DOMAIN Lines(r) : l = Lines(r)[i]
  BY DEF ToSet
<1>3. ASSUME NEW r \in Rooms, NEW e
      PROVE  (\E l \in ToSet(Lines(r)) : e = Entry(l, r)) <=> \E i \in DOMAIN Lines(r) : e = Entry(Lines(r)[i], r)
  <2>1. ASSUME NEW l \in ToSet(Lines(r)), e = Entry(l, r)
        PROVE  \E i \in DOMAIN Lines(r) : e = Entry(Lines(r)[i], r)
    BY <1>2, <2>1
  <2>2. ASSUME NEW i \in DOMAIN Lines(r), e = Entry(Lines(r)[i], r)
        PROVE  \E l \in ToSet(Lines(r)) : e = Entry(l, r)
    BY <1>2, <2>2
  <2> QED BY <2>1, <2>2
<1> QED BY <1>1, <1>3

LEMMA SaidStays ==
    ASSUME \A r \in Rooms : Lines(r)' = Lines(r)
    PROVE  Said' = Said
BY DEF Said, Entry

(* storeChat: one step of it adds the line to the log, and no other step of  *)
(* the server touches the log.                                               *)
LEMMA InsertLineSays ==
    ASSUME IInv, InsertLine
    PROVE  Log!Next
<1> DEFINE r == room[job.from]
           here == Lines(r)
           line == NewLine
           e == Entry(line, r)
<1>1. /\ r \in Rooms /\ line \in Line /\ line.from = job.from /\ line.id = job.id
      /\ line.time = job.time
      /\ \A q \in Rooms : Lines(q)' = IF q = r THEN Append(Lines(q), line) ELSE Lines(q)
  BY InsertLineAdds
<1>2. /\ job.id \in 1..MaxLines /\ job.from \in Clients /\ job.time \in Times
      /\ \A q \in Rooms : \A i \in DOMAIN Lines(q) : Lines(q)[i].id < job.id
  BY RoomNumbers DEF InsertLine, IInv, TypeOK, JobInv
<1>3. here \in Seq(Line)
  BY <1>1, LinesAreLines DEF IInv
<1> HIDE DEF r, line
<1>4. e \in Entries /\ e.id = job.id
  BY <1>1, <1>2 DEF Entries, Entry
<1>5. \A l \in Said : l.id < e.id
  BY <1>2, <1>4, SaidIs DEF Entry
<1>6. Said' = Said \cup {e}
  <2>1. Said' = UNION {{Entry(l, q) : l \in ToSet(Lines(q))'} : q \in Rooms}
    BY DEF Said, Entry
  <2>2. \A q \in Rooms : ToSet(Lines(q))' = IF q = r THEN ToSet(Lines(q)) \cup {line} ELSE ToSet(Lines(q))
    <3>1. \A x : x \in ToSet(Append(here, line)) <=> x \in ToSet(here) \/ x = line
      BY <1>1, <1>3, AppendAddsOne
    <3>2. ToSet(Append(here, line)) = ToSet(here) \cup {line}
      BY <3>1
    <3> QED BY <1>1, <3>2 DEF ToSet
  <2> QED BY <1>1, <2>1, <2>2 DEF Said
<1> QED BY <1>4, <1>5, <1>6 DEF Log!Next, Log!Say

THEOREM HistoryImplementsChatLog == Spec => ImplementsChatLog
<1>1. Init => Log!Init
  <2> SUFFICES ASSUME Init PROVE Said = {}
    BY DEF Log!Init
  <2>1. \A r \in Rooms : ToSet(Lines(r)) = {}
    BY DEF Init, Lines, ToSet
  <2> QED BY <2>1 DEF Said
<1>2. IInv /\ [Next]_vars => [Log!Next]_Said
  <2> SUFFICES ASSUME IInv, [Next]_vars PROVE [Log!Next]_Said
    OBVIOUS
  <2>1. CASE InsertLine
    BY <2>1, InsertLineSays
  <2>2. CASE ~InsertLine
    BY <2>2, OnlyInsertWrites, SaidStays
  <2> QED BY <2>1, <2>2
<1> QED BY <1>1, <1>2, HistoryInvariant, PTL DEF Spec, ImplementsChatLog, Log!Spec
=============================================================================
