SPECIFICATION Spec
CONSTANTS
    None = None
    AnyEnv = AnyEnv
    Omitted = Omitted
    v1 = v1
    v2 = v2
    c1 = c1
    c2 = c2
    web = web
    e1 = e1
    e2 = e2
    user = user
    staff = staff
    Setting = {s1}
    Group = {g1}
    User = {u1}
    Env = {e1, e2}
    Platform = {web}
    Role = {user, staff}
    Config = {c1, c2}
    Value = {v1, v2}
    Accepts <- MCAccepts
    Rank = {1, 2}
    FirstRank <- MCFirstRank
    Priority = {1}
    NewSettings <- CrossingSettings
    NewGroups <- CrossingGroups
    Overrides <- CrossingOverrides
    Request = {p1, p2}
    Ops <- AllOps
    Patches <- CrossingPatches
SYMMETRY Symmetry
INVARIANTS DefaultValid StoredWithinScope NoOrphans
PROPERTIES ChangesAreAnnounced
