SPECIFICATION Spec
CONSTANTS
    Chars = {"a", "A", "b", "c", "1", "2", " "}
    Digits = {"1", "2"}
    Blanks = {" "}
    Lower <- MCLower
    Password <- MCPassword
    Spelling <- MCSpelling
    BufSize = 4
    MaxLen = 5
    Uptimes = {0, 100000}
    PinMv = {0, 1500, 1501, 1506, 1800, 2099, 2100, 2101}
    Garbage = {0, 3600, 2000000000}
INVARIANTS
    TypeOK
    RightCommand
    ReplyComplete
    BatteryShown
