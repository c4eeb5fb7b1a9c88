\* Two sessions around up to three rotations, no number given out twice.
SPECIFICATION Spec
CONSTANTS
    i1 = i1
    i2 = i2
    i3 = i3
    i4 = i4
    NoFile = NoFile
    Inodes <- FourInodes
    ReuseInodes = FALSE
    MaxLines = 4
    FileLimit = 3
    MaxBytes = 5
    MaxSessions = 2
INVARIANTS
    QuietReadIsExact
    OwnLinesOnly
    LostMeansGone
SYMMETRY FourSymmetry
