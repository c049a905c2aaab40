SPECIFICATION FairSpec
CONSTANTS
    Unset = Unset
    i1 = i1
    i2 = i2
    i3 = i3
    Instance = {i1, i2, i3}
    AutoMigrate = {i1, i2}
    Latest = 3
    KeysVersion = 2
    MaxStops = 2
INVARIANTS AppliedInOrder OneBootstrapKey ServingHasAKey
PROPERTIES BootsFinish
CHECK_DEADLOCK FALSE
