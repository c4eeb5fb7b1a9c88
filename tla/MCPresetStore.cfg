\* Operations on a store of at most two presets, across two crashes.
SPECIFICATION Spec
CONSTANTS
    a = a
    b = b
    c = c
    d = d
    x = x
    Ids <- ThreeIds
    Values <- TwoValues
    DefaultPresets <- TwoDefaults
    MaxPresets = 2
    MaxCrashes = 2
INVARIANTS
    AckedSurvives
    ServesWhatIsStored
    StoreReloads
PROPERTIES
    PoisonedKeepsFile
    ImplementsPresetMap
CHECK_DEADLOCK FALSE
