SPECIFICATION FairSpec
CONSTANTS
    Points = {100}
    Faulty = {"init"}
    MaxFaults = 1
    Refusing = FALSE
PROPERTY
    KeepsReporting
