\* Two status probes of a stopped cell.
SPECIFICATION StatusSpec
CONSTANTS
    s1 = s1
    t1 = t1
    e1 = e1
    q1 = q1
    q2 = q2
    Nobody = Nobody
    NoRadio = NoRadio
    NoInstance = NoInstance
    NoProfile = NoProfile
    Starters = {}
    Stoppers = {}
    Editors <- OneEditor
    Probes <- TwoProbes
    Radios = {r1}
    Ifaces = {f1}
    Foreign = {}
    Stubborn = {}
    PsMayFail = FALSE
    MaxCalls = 1
    MaxCrashes = 0
INVARIANTS
    CalmProbeIsHealthy
