\* A file system that gives the number of a removed file out again.
SPECIFICATION Spec
CONSTANTS
    i1 = i1
    i2 = i2
    i3 = i3
    i4 = i4
    NoFile = NoFile
    Inodes <- ThreeInodes
    ReuseInodes = TRUE
    MaxLines = 3
    FileLimit = 3
    MaxBytes = 5
    MaxSessions = 1
INVARIANTS
    QuietReadIsExact
SYMMETRY ThreeSymmetry
