SPECIFICATION Spec
CONSTANTS
    NoTask = NoTask
    Lines <- MCLines
    Expect <- MCExpect
    Cap <- MCCap
    Reads <- MCReads
    Answers <- MCAnswers
    Tasks = {t1, t2}
    Commands = {"AT", "INFO", "ACTION"}
    InTime = TRUE
    Overruns = TRUE
    RxCap = 4
    MaxUrc = 1
    MaxLag = 1
SYMMETRY Symmetry
INVARIANTS
    TypeOK
    LockDiscipline
    OwnAnswer
    QuietHandover
PROPERTY
    ImplementsChannel
