\* One rotation between the two opens of a read, when the file of the boundary is the backup.
SPECIFICATION Spec
CONSTANTS
    i1 = i1
    i2 = i2
    i3 = i3
    i4 = i4
    NoFile = NoFile
    Inodes <- FourInodes
    ReuseInodes = FALSE
    MaxLines = 3
    FileLimit = 3
    MaxBytes = 5
    MaxSessions = 1
INVARIANTS
    ReadIsExact
SYMMETRY FourSymmetry
