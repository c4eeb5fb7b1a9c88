\* Every log of five lines about three messages, every window of three call records, every chunking of an output.
SPECIFICATION SpecReaders
CONSTANTS
    a = a
    b = b
    c = c
    q1 = q1
    q2 = q2
    NoMsg = NoMsg
    Messages <- ThreeMessages
    Qtag <- TagsOf
    Blank = {b}
    Addressed = {b}
    MaxLines = 5
    Strings <- FieldStrings
    MaxRecords = 3
    LogLimit = 3
    Marker <- ShortMarker
    Letters = {"r", "d"}
    MaxChunk = 4
    MaxBytes = 9
    MaxLegacy = 4
INVARIANTS
    EveryMessageOnce
    StructuredIsExact
    FieldsAreOwn
    WindowIsExact
    WholeFileIsHonest
    LogIsTail
    ReadyIsSeen
PROPERTIES
    StableObservations
CHECK_DEADLOCK FALSE
