SPECIFICATION Spec
CONSTANTS
    None = None
    AnyEnv = AnyEnv
    Omitted = Omitted
    v1 = v1
    v2 = v2
    c1 = c1
    c2 = c2
    web = web
    e1 = e1
    e2 = e2
    user = user
    staff = staff
    Setting = {s1}
    Group = {}
    User = {u1}
    Env = {e1}
    Platform = {web}
    Role = {user, staff}
    Config = {c1, c2}
    Value = {v1, v2}
    Accepts <- MCAccepts
    Rank = {1, 2, 3}
    FirstRank <- MCFirstRank
    Priority = {1}
    NewSettings <- CrossingSettings
    NewGroups = {}
    Overrides = {}
    Request = {p1}
    Ops <- RoleOps
    Patches = {}
PROPERTIES EveryChangeIsAnnounced
