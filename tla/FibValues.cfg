SPECIFICATION Spec
CONSTANTS
    Servers = {s1, s2}
    Keys <- AllTexts
    Numeric <- AllNumeric
    Value <- AllValue
    PgInt <- AllPgInt
    Absent = Absent
    Pending = Pending
    MaxPosts = 2
    MaxFaults = 0
SYMMETRY ServerSymmetry
INVARIANTS
    RightAnswers
    RowsMatchPosts
PROPERTIES
    RegressOnlyByRepost
    ImplementsService
CHECK_DEADLOCK FALSE
