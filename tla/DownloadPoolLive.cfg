\* Liveness, without symmetry: two workers, a queue of one.
CONSTANTS
    Tokens           = {t1, t2}
    Conns            = {c1, c2}
    Workers          = {w1, w2}
    MaxPendingTokens = 1
    MaxQueuedTasks   = 1
    NoToken          = NoToken
    NoConn           = NoConn
SPECIFICATION FairSpec
CHECK_DEADLOCK FALSE
PROPERTY AcceptedIsClosed
