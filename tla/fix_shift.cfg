SPECIFICATION Spec
CONSTANTS
    Missing = Missing
    Blank = Blank
    Answers <- MCAnswers
    Timeout = 3
    Longest = 2
INVARIANT
    FieldsInPlace
