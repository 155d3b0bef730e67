\* Two connections, of one user or of two; two rooms in all.  A user presses a
\* button only while no stream holds more than MaxStream packets, and until a
\* packet with news was dropped.
CONSTANTS
    Clients     = {c1, c2}
    Uids        = {u1, u2}
    RoomIds     = {}
    GameRoomIds = {g1, g2}
    MaxMembers  = 2
    MaxLost     = 1
    MaxStream   = 2
    NoRoom      = NoRoom
    NoUid       = NoUid
    NoClient    = NoClient
    NoRequest   = NoRequest
SPECIFICATION LobbySpec
SYMMETRY Symmetry
CHECK_DEADLOCK FALSE
INVARIANTS
    NobodyWaitsInVain
    ClientKnowsItsRoom
    NoUseOfFreedRoom
