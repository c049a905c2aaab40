SPECIFICATION FairSpec
CONSTANTS
    Env = {e1, e2}
    Query = {q1}
    Reader = {r1, r2}
    Writer = {w1, w2}
    TTL = 1
    IndexTTL = 2
    MaxVersion = 1
    Failures = TRUE
INVARIANTS IndexOutlivesEntries StaleEntryIsOwed QuietCacheIsFresh
PROPERTIES EventuallyFresh
