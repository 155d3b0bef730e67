\* Liveness of the shutdown: no symmetry, so two connections.
CONSTANTS
    Clients     = {c1, c2}
    Uids        = {u1, u2}
    RoomIds     = {r1}
    GameRoomIds = {g1}
    MaxMembers  = 2
    NoRoom      = NoRoom
    NoUid       = NoUid
SPECIFICATION FairSpec
PROPERTY ShutdownEmptiesRooms
