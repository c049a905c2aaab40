SPECIFICATION Spec
CONSTANTS
    None = None
    AnyEnv = AnyEnv
    Omitted = Omitted
    v1 = v1
    v2 = v2
    c1 = c1
    c2 = c2
    web = web
    e1 = e1
    e2 = e2
    user = user
    staff = staff
    Setting = {s1}
    Group = {g1, g2}
    User = {u1}
    Env = {e1, e2}
    Platform = {web}
    Role = {user}
    Config = {c1}
    Value = {v1, v2}
    Accepts <- MCAccepts
    Rank = {1}
    FirstRank <- MCFirstRank
    Priority = {1, 2}
    NewSettings <- LayerSettings
    NewGroups <- LayerGroups
    Overrides <- LayerOverrides
    Request = {p1}
    Ops <- LayerOps
    Patches = {}
INVARIANTS LayerOrder OverrideIsTheCause EditableMeansEffective LiftingRestoresChoice AdHocEqualsMembership
SYMMETRY ValueSymmetry
