SPECIFICATION FairDraftSpec
CONSTANTS
    limit = limit
    theme = theme
    low = low
    high = high
    broken = broken
    w1 = w1
    w2 = w2
    None = None
    Setting = {limit, theme}
    Row = {theme}
    Form = {limit, theme}
    Value = {low, high, broken}
    Valid = {low, high}
    Beneath = low
    Policy = {high}
    Writer = {w1, w2}
    MaxTurns = 5
INVARIANTS IInv QuietBoardIsTrue
PROPERTIES EditsOutliveFailures SavesEnd
CHECK_DEADLOCK FALSE
