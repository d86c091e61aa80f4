SPECIFICATION Spec
CONSTANTS
    Chars = {"a", "A", "b", "c", "1", " "}
    Digits = {"1"}
    Blanks = {" "}
    Lower <- MCLower
    Password <- MCPassword
    Spelling <- MCSpelling
    BufSize = 4
    MaxLen = 3
    Uptimes = {0, 204}
    PinMv = {1800}
    Garbage = {0}
INVARIANT
    UptimeShown
