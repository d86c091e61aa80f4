SPECIFICATION FairSpec
CONSTANTS
    NoMsg = NoMsg
    Msgs = {m1, m2, m3, m4}
    Valid = {m1, m2, m3}
    Long = {}
    Waiting = {}
    Slots = {0, 1, 2, 3}
    BatchSize = 3
    ListCap = 4
    Stuck = {1}
    Restarts = FALSE
    Failing = FALSE
    Others = TRUE
    MaxTyped = 1
INVARIANTS
    TypeOK
    BatchFresh
PROPERTY
    AllHandled

\* Once every message has arrived and been handled the program idles.
CHECK_DEADLOCK FALSE
