-------------------------- MODULE ChatHistoryProps --------------------------
(***************************************************************************)
(* The properties of ChatHistory.                                          *)
(***************************************************************************)
EXTENDS ChatHistory

(* chatDb.c:330, generateMsgId: the rows of every table are in the order in  *)
(* which they were inserted, no id is given twice, in one room or in two,    *)
(* and none is ahead of the sequence: failures, rooms that are closed and    *)
(* opened again, and restarts leave gaps and nothing else.                   *)
IdsInOrder ==
    /\ \A r \in Rooms, i, j \in 1..MaxLines :
         i < j /\ j <= Len(Lines(r)) => Lines(r)[i].id < Lines(r)[j].id
    /\ \A r \in Rooms : \A l \in ToSet(Lines(r)) :
         /\ l.id <= seq
         /\ job.pc \in {"numbered", "ready"} => l.id < job.id
         /\ \A q \in Rooms \ {r} : QueryChatByMsgId(q, l.id) = {}

(* The same, for every row of a table, and what it rests on: the line in hand *)
(* has a number that no row has yet, and a table to go into.                 *)
OrderInv ==
    /\ \A r \in Rooms : \A i, j \in DOMAIN Lines(r) : i < j => Lines(r)[i].id < Lines(r)[j].id
    /\ \A r \in Rooms : \A i \in DOMAIN Lines(r) : Lines(r)[i].id <= seq
    /\ \A r, q \in Rooms : r # q =>
         \A i \in DOMAIN Lines(r), j \in DOMAIN Lines(q) : Lines(r)[i].id # Lines(q)[j].id

JobInv ==
    /\ job.pc # "idle" => job.time \in Times /\ job.id \in 1..seq
    /\ job.pc \in {"numbered", "ready"} =>
         \A r \in Rooms : \A i \in DOMAIN Lines(r) : Lines(r)[i].id < job.id
    /\ job.pc = "ready" => table[room[job.from]] # NoTable

IInv == TypeOK /\ OrderInv /\ JobInv

(* The lines that the others said in the room of c since c joined it.        *)
SaidByOthers(c) ==
    LET here == Lines(room[c])
    IN  {here[i] : i \in {k \in (joinedAt[c] + 1)..Len(here) : here[k].from # c}}

BeingSentTo(c) == job.pc = "stored" /\ job.from # c /\ room[job.from] = room[c]

(* chat.c:88: what a session has heard is what the table of its room says    *)
(* that the others said since it joined, in the order in which it was said,  *)
(* but for the lines whose send to it failed, unnoticed by the server: there *)
(* is no other gap, no repetition and no line of another room, a line it     *)
(* missed does not come later, and the line that is just being broadcast has *)
(* neither been heard nor missed.                                            *)
HeardIsHistory ==
    \A c \in Clients :
        /\ \A i, j \in DOMAIN heard[c] : i < j => heard[c][i].id < heard[c][j].id
        /\ ToSet(heard[c]) \cap missed[c] = {}
        /\ ToSet(heard[c]) \cup missed[c] =
             IF room[c] = 0 THEN {}
             ELSE IF BeingSentTo(c) THEN SaidByOthers(c) \ {NewLine}
             ELSE SaidByOthers(c)

(* What it rests on: nobody has joined ahead of the table, and a line that   *)
(* is being broadcast is the last of its table, for all who are there.       *)
HeardInv ==
    /\ HeardIsHistory
    /\ \A c \in Clients : room[c] # 0 => joinedAt[c] <= Len(Lines(room[c]))
    /\ job.pc = "stored" =>
         LET here == Lines(room[job.from])
         IN  /\ Len(here) > 0 /\ here[Len(here)] = NewLine
             /\ \A c \in Clients : room[c] = room[job.from] /\ room[c] # 0 =>
                  joinedAt[c] < Len(here)

(* database.h:415, queryChatByUserAllRooms: what a user said is found        *)
(* whole, in the order of the ids, in all rooms, also in those that are      *)
(* closed and under the id 0 of the game rooms, as long as it is not more    *)
(* than the limit; above it, as much as the limit allows.  The queries of    *)
(* one room agree with that.                                                 *)
UserHistoryComplete ==
    \A u \in Users, a, b \in Times \cup {0} :
        LET found == QueryChatByUserAllRooms(u, a, b)
            all   == UNION {{l \in ToSet(Lines(r)) :
                               UidOf[l.from] = u /\ Between(l, a, b)} : r \in Rooms}
        IN  /\ ToSet(found) \subseteq all
            /\ \A i, j \in DOMAIN found : i < j => found[i].id < found[j].id
            /\ Len(found) = IF Cardinality(all) < QueryMaxResults
                            THEN Cardinality(all) ELSE QueryMaxResults
            /\ Cardinality(all) <= QueryMaxResults =>
                 \A r \in Rooms :
                   ToSet(QueryChatByTimeRange(r, u, a, b)) = ToSet(found) \cap ToSet(Lines(r))

(* The lines of all rooms, each with its room.                               *)
Entries == [id : 1..MaxLines, from : Clients, time : Times, room : Rooms]
Entry(l, r) == [id |-> l.id, from |-> l.from, time |-> l.time, room |-> r]
Said == UNION {{Entry(l, r) : l \in ToSet(Lines(r))} : r \in Rooms}

Log == INSTANCE ChatLog WITH log <- Said

(* storeChat implements an append-only log over all rooms.                   *)
ImplementsChatLog == Log!Spec
=============================================================================
