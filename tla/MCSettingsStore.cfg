SPECIFICATION FairSpec
CONSTANTS
    alice = alice
    bob = bob
    none = none
    theme = theme
    dark = dark
    light = light
    l1 = l1
    l2 = l2
    w1 = w1
    w2 = w2
    Null = Null
    NoUser = none
    User = {alice}
    Setting = {theme}
    Value = {dark, light}
    Default = light
    Policy = {dark}
    Listener = {l1, l2}
    Writer = {w1}
    Ticket = {1, 2}
    Identity = {1, 2}
    Polls = TRUE
    Wakes = FALSE
    Seeded = FALSE
    Lossy = TRUE
    Twice = FALSE
    MaxTicking = 2
INVARIANTS IInv SnapshotIsOfUser FlagsTellTheTruth IntervalsAreOwned
CHECK_DEADLOCK FALSE
PROPERTIES EventuallyTrue
