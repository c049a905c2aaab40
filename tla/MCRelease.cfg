SPECIFICATION ReleaseSpec
CONSTANTS
    None = None
    Old = Old
    core = core
    field = field
    form = form
    fc = fc
    ff = ff
    fo = fo
    query = query
    v1 = v1
    v2 = v2
    v3 = v3
    Item = {core, field, form}
    Tag = {query}
    Version = {v1, v2, v3}
    Compatible = {v1, v2}
    Lands <- MCLands
    Manifest <- MCManifest
    Imports <- MCImports
    MaxTurns <- MCTurns
INVARIANTS CheckMeansInstallable BumpsAlign
PROPERTIES BuildIsCurrent
CHECK_DEADLOCK FALSE
