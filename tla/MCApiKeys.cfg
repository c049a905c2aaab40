SPECIFICATION Spec
CONSTANTS
    None = None
    staff = staff
    admin = admin
    e1 = e1
    e2 = e2
    web = web
    k0 = k0
    k1 = k1
    k2 = k2
    Key = {k0, k1, k2}
    Bootstrap = k0
    Role = {staff, admin}
    Env = {e1, e2}
    Platform = {web}
    Rank = {1, 2, 3, 4}
    FirstRank <- MCFirstRank
    Bodies <- MCBodies
    Fallback = staff
    Request = {p1, p2}
SYMMETRY Symmetry
INVARIANTS FiltersOnlyNarrow NothingOutranksTheFirst KeyRolesExist IInv
PROPERTIES GrantsAreFixed
CHECK_DEADLOCK FALSE
