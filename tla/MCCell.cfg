\* Start, crash, stop and start again, beside configuration changes and processes that run before the manager.
SPECIFICATION Spec
CONSTANTS
    s1 = s1
    t1 = t1
    e1 = e1
    r1 = r1
    r2 = r2
    Nobody = Nobody
    NoRadio = NoRadio
    NoInstance = NoInstance
    NoProfile = NoProfile
    Starters <- OneStarter
    Stoppers <- OneStopper
    Editors <- OneEditor
    Probes = {}
    Radios <- TwoRadios
    Ifaces = {f1}
    Foreign <- ForeignRadio
    Stubborn = {}
    PsMayFail = FALSE
    MaxCalls = 2
    MaxCrashes = 1
INVARIANTS
    FailedStartLeavesNothing
    RunningCellConfig
    RunningCellSession
    StartingSessionHasStarter
    OneOfEachName
    StopCompletes
    EndedSessionIsSilent
PROPERTIES
    RollbackSparesOthers
SYMMETRY RadioSymmetry
