\* One machine, two users, one of them with a second factor.
CONSTANTS
    c1 = c1
    a = a
    b = b
    u1 = u1
    u2 = u2
    s1 = s1
    s2 = s2
    Clients = {c1}
    Names = {a, b}
    NoName = NoName
    Enrolled = {b}
    Uids = {u1, u2}
    Secrets = {s1, s2}
    MaxConns = 2
    MaxRunners = 1
SPECIFICATION Spec
SYMMETRY Symmetry
CHECK_DEADLOCK FALSE
INVARIANTS SecondFactorHolds HomeIsServed OneConnection OneAnswerEach
