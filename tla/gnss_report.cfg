SPECIFICATION FairSpec
CONSTANTS
    Points = {100, 104, 108}
    Faulty = {"check", "poweron", "assist", "para", "action", "read", "restart"}
    MaxFaults = 3
    Refusing = TRUE
INVARIANTS
    TypeOK
    Heartbeat
    SessionClosed
    ServerAgrees
PROPERTY
    KeepsReporting
