SPECIFICATION Spec
CONSTANTS
    NoMsg = NoMsg
    Msgs = {m1, m2, m3}
    Valid = {m1}
    Long = {}
    Waiting = {}
    Slots = {1, 2, 255}
    BatchSize = 2
    ListCap = 3
    Stuck = {}
    Restarts = FALSE
    Failing = FALSE
    Others = TRUE
    MaxTyped = 1
INVARIANT
    ReplyIntact

\* Once every message has arrived and been handled the program idles.
CHECK_DEADLOCK FALSE
