\* A signal at any moment of a start, a stop and a configuration request; fairness of bounded waits.
SPECIFICATION FairServerSpec
CONSTANTS
    s1 = s1
    t1 = t1
    e1 = e1
    r1 = r1
    main = main
    Nobody = Nobody
    NoRadio = NoRadio
    NoInstance = NoInstance
    NoProfile = NoProfile
    Probes = {}
    Radios = {r1}
    Ifaces = {f1}
    Stubborn = {}
    PsMayFail = FALSE
    Starters <- OneStarter
    Stoppers <- MainAndStop
    Editors <- OneEditor
    Foreign <- ForeignQueue
    MaxCalls = 1
    MaxCrashes = 1
INVARIANTS
    ExitLeavesNoCell
    ExitCutsNoStart
PROPERTIES
    ShutdownEnds
    CallsReturn
CHECK_DEADLOCK FALSE
