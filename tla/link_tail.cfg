SPECIFICATION Spec
CONSTANTS
    NoTask = NoTask
    Lines <- MCLines
    Expect <- MCExpect
    Cap <- MCCap
    Reads <- MCReads
    Answers <- MCAnswers
    Tasks = {t1, t2}
    Commands = {"AT", "LONG"}
    InTime = TRUE
    Overruns = FALSE
    RxCap = 4
    MaxUrc = 0
    MaxLag = 1
INVARIANT
    OwnAnswer
