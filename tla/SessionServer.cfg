\* Three connections of two users, two chat rooms, two game rooms of two seats.
\* The CHOOSE of placeBar has one candidate at most, so the refinement does not
\* break the symmetry.
CONSTANTS
    Clients     = {c1, c2, c3}
    Uids        = {u1, u2}
    RoomIds     = {r1, r2}
    GameRoomIds = {g1, g2}
    MaxMembers  = 2
    NoRoom      = NoRoom
    NoUid       = NoUid
SPECIFICATION Spec
SYMMETRY Symmetry
INVARIANTS
    ChatRoomsMatchSessions
    GameRoomsMatchSessions
    OnePlaceAtATime
    HostSeated
    ActiveGameRoomsHaveRows
PROPERTY ImplementsRoomService
