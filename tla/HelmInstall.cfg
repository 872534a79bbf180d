SPECIFICATION Spec
CONSTANTS
    Releases = {v1, v2}
    NoSuch = NoSuch
    None = None
    Absent = Absent
    Broken = Broken
    MaxRuns = 3
    MaxFaults = 2
CHECK_DEADLOCK FALSE
SYMMETRY ReleaseSymmetry
INVARIANTS
    SuccessInstalls
    NoTempLeft
PROPERTIES
    UntouchedUnlessProved
