\* Three tokens in two slots, three connections, two workers, a queue of one.
CONSTANTS
    Tokens           = {t1, t2, t3}
    Conns            = {c1, c2, c3}
    Workers          = {w1, w2}
    MaxPendingTokens = 2
    MaxQueuedTasks   = 1
    NoToken          = NoToken
    NoConn           = NoConn
SPECIFICATION Spec
SYMMETRY Symmetry
CHECK_DEADLOCK FALSE
INVARIANTS
    SocketsInOneHand
    TokenOpensOneTransfer
    DestroyedIsClosed
PROPERTY ImplementsDownloadService
