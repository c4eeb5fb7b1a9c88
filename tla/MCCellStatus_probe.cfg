\* A status probe beside a start and a stop, while `ps' may fail and a transceiver may survive KILL.
SPECIFICATION StatusSpec
CONSTANTS
    s1 = s1
    t1 = t1
    e1 = e1
    q1 = q1
    q2 = q2
    Nobody = Nobody
    NoRadio = NoRadio
    NoInstance = NoInstance
    NoProfile = NoProfile
    Starters <- OneStarter
    Stoppers <- OneStopper
    Editors = {}
    Probes <- OneProbe
    Radios = {r1}
    Ifaces = {f1}
    Foreign = {}
    Stubborn = {"transceiver"}
    PsMayFail = TRUE
    MaxCalls = 1
    MaxCrashes = 0
PROPERTIES
    StoppedReportIsCurrent
