\* Three sessions, of which two fill a room; one room and the table of the
\* game rooms in one bucket.
CONSTANTS
    Clients = {c1, c2, c3}
    Users = {c1, c2, c3}
    UidOf <- MCUidOf
    RoomIds = {1}
    Times = {1}
    Buckets = 1
    MaxMembers = 2
    MaxLines = 3
    QueryMaxResults = 2
    NoTable = NoTable
    NoClient = NoClient
SYMMETRY Symmetry
SPECIFICATION Spec
CHECK_DEADLOCK FALSE
INVARIANTS
    IdsInOrder
    HeardIsHistory
    UserHistoryComplete
PROPERTY
    ImplementsChatLog
