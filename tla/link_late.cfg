SPECIFICATION FairSpec
CONSTANTS
    NoTask = NoTask
    Lines <- MCLines
    Expect <- MCExpect
    Cap <- MCCap
    Reads <- MCReads
    Answers <- MCAnswers
    Tasks = {t1, t2}
    Commands = {"AT", "LONG"}
    InTime = FALSE
    Overruns = TRUE
    RxCap = 3
    MaxUrc = 0
    MaxLag = 1
INVARIANTS
    ReadRoom
    AnswerOrder
PROPERTIES
    Resync
    NoTheft
    LockReleased
