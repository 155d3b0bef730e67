\* One writer beside the two threads of the log, three days, a crash or a close
\* and a second process.
CONSTANTS
    Writers        = {w1}
    NoLine         = NoLine
    NoFile         = NoFile
    Partial        = Partial
    Capacity       = 2
    TuiCapacity    = 1
    RetentionDays  = 1
    FailuresToWarn = 1
    MaxLines       = 2
    LastDay        = 3
    MaxStarts      = 2
SPECIFICATION Spec
CHECK_DEADLOCK FALSE
INVARIANT LinesInOrder
PROPERTIES WrittenStays CloseLosesNothing
