SPECIFICATION Spec
CONSTANTS
    NoMsg = NoMsg
    Msgs = {m1, m2, m3}
    Valid = {m1, m2}
    Long = {m2}
    Waiting = {m1}
    Slots = {1, 2, 3}
    BatchSize = 2
    ListCap = 2
    Stuck = {3}
    Restarts = TRUE
    Failing = TRUE
    Others = FALSE
    MaxTyped = 1
INVARIANTS
    NoLostWakeup
    NotifyHasTarget
PROPERTIES
    HandledOnce
    ImplementsService

\* Once every message has arrived and been handled the program idles.
CHECK_DEADLOCK FALSE
