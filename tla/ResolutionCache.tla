--------------------------- MODULE ResolutionCache ---------------------------
(***************************************************************************)
(* The resolution cache of the server: internal/cache/cache.go, filled by  *)
(* handleResolveUser in internal/api/resolve.go and dropped by every       *)
(* handler that writes (Server.invalidate, Server.invalidateGroup).        *)
(*                                                                         *)
(* The database is reduced to one version number per environment: a        *)
(* committed write that can change what a resolution of that environment   *)
(* returns adds one.  A cached payload is the version its reader saw.      *)
(* Each request is a goroutine; a step is one call to PostgreSQL or Redis, *)
(* which are the points at which requests interleave.                      *)
(*                                                                         *)
(* Redis keeps time: an entry lives TTL ticks and the index of its         *)
(* environment IndexTTL ticks, renewed by every Put.                       *)
(***************************************************************************)
EXTENDS Naturals

CONSTANTS
    Env,            \* environments
    Query,          \* the rest of a cache key: platforms, user, rank, ad-hoc groups
    Reader,         \* concurrent resolve requests
    Writer,         \* concurrent writing requests
    TTL,            \* SETTINGS_CACHE_TTL in ticks
    IndexTTL,       \* max(10 * TTL, one hour) in ticks
    MaxVersion,     \* bound on the number of writes to one environment
    Failures        \* may a Redis or database call fail, or a process die?

ASSUME TTLAssumption ==
    TTL \in Nat \ {0} /\ IndexTTL \in Nat /\ TTL <= IndexTTL

ASSUME BoundAssumption == MaxVersion \in Nat /\ Failures \in BOOLEAN

ASSUME NonEmptyAssumption == Env # {} /\ Query # {}

VARIABLES
    db,         \* db[e]: the version of environment e's resolutions in PostgreSQL
    payload,    \* payload[k]: the version held under Redis key k
    life,       \* life[k]: ticks entry k has left; 0 when there is no entry
    index,      \* index[e]: the Redis set of keys tracked for e
    indexLife,  \* indexLife[e]: ticks that set has left; 0 when there is none
    rpc, rkey, rver,    \* a reader: its stage, its key, the version it read
    wpc,        \* a writer: its stage
    todo,       \* environments the writer has still to invalidate
    at,         \* the environment whose index it read last
    seen,       \* the members it read there and has still to unlink
    beyond      \* history: entries a race or a failure put beyond invalidation

dbVars     == <<db>>
redisVars  == <<payload, life, index, indexLife>>
readerVars == <<rpc, rkey, rver>>
writerVars == <<wpc, todo, at, seen>>
vars == <<db, payload, life, index, indexLife, rpc, rkey, rver,
          wpc, todo, at, seen, beyond>>

\* Every input that can change a resolution is in its key.
Key == [env : Env, query : Query]

Live == {k \in Key : life[k] > 0}
Stale(k) == payload[k] # db[k.env]

TypeOK ==
    /\ db \in [Env -> Nat]
    /\ payload \in [Key -> Nat]
    /\ life \in [Key -> 0..TTL]
    /\ index \in [Env -> SUBSET Key]
    /\ indexLife \in [Env -> 0..IndexTTL]
    /\ rpc \in [Reader -> {"idle", "query", "put"}]
    /\ rkey \in [Reader -> Key]
    /\ rver \in [Reader -> Nat]
    /\ wpc \in [Writer -> {"idle", "list", "smembers", "unlink", "unindex"}]
    /\ todo \in [Writer -> SUBSET Env]
    /\ at \in [Writer -> Env]
    /\ seen \in [Writer -> SUBSET Key]
    /\ beyond \in SUBSET Key

Init ==
    /\ db = [e \in Env |-> 0]
    /\ payload = [k \in Key |-> 0]
    /\ life = [k \in Key |-> 0]
    /\ index = [e \in Env |-> {}]
    /\ indexLife = [e \in Env |-> 0]
    /\ rpc = [r \in Reader |-> "idle"]
    /\ rkey = [r \in Reader |-> CHOOSE k \in Key : TRUE]
    /\ rver = [r \in Reader |-> 0]
    /\ wpc = [w \in Writer |-> "idle"]
    /\ todo = [w \in Writer |-> {}]
    /\ at = [w \in Writer |-> CHOOSE e \in Env : TRUE]
    /\ seen = [w \in Writer |-> {}]
    /\ beyond = {}

-----------------------------------------------------------------------------
(* Readers: handleResolveUser.  A hit returns the payload and changes      *)
(* nothing, so it is not an action.                                        *)

\* The handler asks Redis for k.  A Redis error counts as a miss.
GetMiss(r, k) ==
    /\ rpc[r] = "idle"
    /\ k \notin Live \/ Failures
    /\ rpc' = [rpc EXCEPT ![r] = "query"]
    /\ rkey' = [rkey EXCEPT ![r] = k]
    /\ UNCHANGED <<dbVars, redisVars, rver, writerVars, beyond>>

\* One SQL statement computes the whole answer from one snapshot.
ResolveForUser(r) ==
    /\ rpc[r] = "query"
    /\ rpc' = [rpc EXCEPT ![r] = "put"]
    /\ rver' = [rver EXCEPT ![r] = db[rkey[r].env]]
    /\ UNCHANGED <<dbVars, redisVars, rkey, writerVars, beyond>>

\* Mutant of Put: the two lifetimes are swapped.
PutSwapsLifetimes(r) ==
    LET k == rkey[r] IN
    /\ rpc[r] = "put"
    /\ rpc' = [rpc EXCEPT ![r] = "idle"]
    /\ payload' = [payload EXCEPT ![k] = rver[r]]
    /\ life' = [life EXCEPT ![k] = IndexTTL]
    /\ index' = [index EXCEPT ![k.env] = @ \union {k}]
    /\ indexLife' = [indexLife EXCEPT ![k.env] = TTL]
    /\ beyond' = IF rver[r] = db[k.env] THEN beyond \ {k} ELSE beyond \union {k}
    /\ UNCHANGED <<dbVars, rkey, rver, writerVars>>

\* MULTI / SET / SADD / EXPIRE / EXEC: one atomic step, or none at all.
Put(r) ==
    LET k == rkey[r] IN
    /\ rpc[r] = "put"
    /\ rpc' = [rpc EXCEPT ![r] = "idle"]
    /\ payload' = [payload EXCEPT ![k] = rver[r]]
    /\ life' = [life EXCEPT ![k] = TTL]
    /\ index' = [index EXCEPT ![k.env] = @ \union {k}]
    /\ indexLife' = [indexLife EXCEPT ![k.env] = IndexTTL]
    /\ beyond' = IF rver[r] = db[k.env] THEN beyond \ {k} ELSE beyond \union {k}
    /\ UNCHANGED <<dbVars, rkey, rver, writerVars>>

\* The query fails (the caller gets an error), Put fails (swallowed), or the
\* process dies: the request leaves nothing behind.
ReaderGivesUp(r) ==
    /\ Failures
    /\ rpc[r] # "idle"
    /\ rpc' = [rpc EXCEPT ![r] = "idle"]
    /\ UNCHANGED <<dbVars, redisVars, rkey, rver, writerVars, beyond>>

-----------------------------------------------------------------------------
(* Writers: every handler commits first and invalidates afterwards.        *)

\* Entries of environments E that nobody will drop any more because of a fault.
GivenUp(E) == {k \in Live : k.env \in E}

\* A write to the values or definitions of one environment, or to a group
\* restricted to it, is committed; Server.invalidate is called next.
WriteOne(w, e) ==
    /\ wpc[w] = "idle"
    /\ db[e] < MaxVersion
    /\ db' = [db EXCEPT ![e] = @ + 1]
    /\ wpc' = [wpc EXCEPT ![w] = "smembers"]
    /\ todo' = [todo EXCEPT ![w] = {e}]
    /\ UNCHANGED <<redisVars, readerVars, at, seen, beyond>>

\* Mutant of WriteAll: only one of the environments is invalidated.
WriteAllDropsOne(w) ==
    /\ wpc[w] = "idle"
    /\ \A e \in Env : db[e] < MaxVersion
    /\ db' = [e \in Env |-> db[e] + 1]
    /\ wpc' = [wpc EXCEPT ![w] = "list"]
    /\ todo' = [todo EXCEPT ![w] = {CHOOSE e \in Env : TRUE}]
    /\ UNCHANGED <<redisVars, readerVars, at, seen, beyond>>

\* A write to a group that spans every environment is committed.
WriteAll(w) ==
    /\ wpc[w] = "idle"
    /\ \A e \in Env : db[e] < MaxVersion
    /\ db' = [e \in Env |-> db[e] + 1]
    /\ wpc' = [wpc EXCEPT ![w] = "list"]
    /\ todo' = [todo EXCEPT ![w] = Env]
    /\ UNCHANGED <<redisVars, readerVars, at, seen, beyond>>

\* invalidateGroup lists the environments to invalidate them one by one.
ListEnvironments(w) ==
    /\ wpc[w] = "list"
    /\ wpc' = [wpc EXCEPT ![w] = "smembers"]
    /\ UNCHANGED <<dbVars, redisVars, readerVars, todo, at, seen, beyond>>

\* Mutant of NextStage: invalidateGroup returns after its first environment.
FirstStageOnly(w, e) == "idle"

\* The stage after environment e of writer w is dealt with.
NextStage(w, e) == IF todo[w] \ {e} = {} THEN "idle" ELSE "smembers"

\* SMEMBERS.  An empty index skips the first UNLINK, never the second.
ReadIndex(w, e) ==
    /\ wpc[w] = "smembers"
    /\ e \in todo[w]
    /\ wpc' = [wpc EXCEPT ![w] = IF index[e] = {} THEN "unindex" ELSE "unlink"]
    /\ at' = [at EXCEPT ![w] = e]
    /\ seen' = [seen EXCEPT ![w] = index[e]]
    /\ todo' = [todo EXCEPT ![w] = @ \ {e}]
    /\ UNCHANGED <<dbVars, redisVars, readerVars, beyond>>

\* UNLINK of the members read, whatever has been added to the index since.
UnlinkEntries(w) ==
    /\ wpc[w] = "unlink"
    /\ wpc' = [wpc EXCEPT ![w] = "unindex"]
    /\ life' = [k \in Key |-> IF k \in seen[w] THEN 0 ELSE life[k]]
    /\ payload' = [k \in Key |-> IF k \in seen[w] THEN 0 ELSE payload[k]]
    /\ beyond' = beyond \ seen[w]
    /\ seen' = [seen EXCEPT ![w] = {}]
    /\ UNCHANGED <<dbVars, index, indexLife, readerVars, todo, at>>

\* UNLINK of the index itself.  An entry put since SMEMBERS loses its track.
UnlinkIndex(w) ==
    /\ wpc[w] = "unindex"
    /\ wpc' = [wpc EXCEPT ![w] = NextStage(w, at[w])]
    /\ index' = [index EXCEPT ![at[w]] = {}]
    /\ indexLife' = [indexLife EXCEPT ![at[w]] = 0]
    /\ beyond' = beyond \union GivenUp({at[w]})
    /\ UNCHANGED <<dbVars, payload, life, readerVars, todo, at, seen>>

\* ListEnvironments fails: invalidateGroup logs a warning and returns.
ListFails(w) ==
    /\ Failures
    /\ wpc[w] = "list"
    /\ wpc' = [wpc EXCEPT ![w] = "idle"]
    /\ beyond' = beyond \union GivenUp(todo[w])
    /\ todo' = [todo EXCEPT ![w] = {}]
    /\ UNCHANGED <<dbVars, redisVars, readerVars, at, seen>>

\* SMEMBERS fails: this environment is left as it is.
ReadIndexFails(w, e) ==
    /\ Failures
    /\ wpc[w] = "smembers"
    /\ e \in todo[w]
    /\ wpc' = [wpc EXCEPT ![w] = NextStage(w, e)]
    /\ todo' = [todo EXCEPT ![w] = @ \ {e}]
    /\ beyond' = beyond \union GivenUp({e})
    /\ UNCHANGED <<dbVars, redisVars, readerVars, at, seen>>

\* The first UNLINK fails: the error is dropped and the index is unlinked next.
UnlinkEntriesFails(w) ==
    /\ Failures
    /\ wpc[w] = "unlink"
    /\ wpc' = [wpc EXCEPT ![w] = "unindex"]
    /\ beyond' = beyond \union (seen[w] \intersect Live)
    /\ seen' = [seen EXCEPT ![w] = {}]
    /\ UNCHANGED <<dbVars, redisVars, readerVars, todo, at>>

\* The second UNLINK fails: the index keeps names of entries that are gone.
UnlinkIndexFails(w) ==
    /\ Failures
    /\ wpc[w] = "unindex"
    /\ wpc' = [wpc EXCEPT ![w] = NextStage(w, at[w])]
    /\ UNCHANGED <<dbVars, redisVars, readerVars, todo, at, seen, beyond>>

\* The process dies between the commit and the end of the invalidation, or
\* the client hangs up: the request's context is the one Redis is called with.
WriterDies(w) ==
    /\ Failures
    /\ wpc[w] # "idle"
    /\ wpc' = [wpc EXCEPT ![w] = "idle"]
    /\ beyond' = beyond \union GivenUp(todo[w]) \union (seen[w] \intersect Live)
    /\ todo' = [todo EXCEPT ![w] = {}]
    /\ seen' = [seen EXCEPT ![w] = {}]
    /\ UNCHANGED <<dbVars, redisVars, readerVars, at>>

-----------------------------------------------------------------------------
\* Mutant of Tick: entries are set without a lifetime.
TickSparesEntries ==
    /\ \E e \in Env : indexLife[e] > 0
    /\ indexLife' = [e \in Env |-> IF indexLife[e] = 0 THEN 0 ELSE indexLife[e] - 1]
    /\ index' = [e \in Env |-> IF indexLife[e] <= 1 THEN {} ELSE index[e]]
    /\ UNCHANGED <<dbVars, payload, life, readerVars, writerVars, beyond>>

\* Redis' clock: one tick off every lifetime; what reaches 0 is gone.
Tick ==
    /\ Live # {} \/ \E e \in Env : indexLife[e] > 0
    /\ life' = [k \in Key |-> IF life[k] = 0 THEN 0 ELSE life[k] - 1]
    /\ payload' = [k \in Key |-> IF life[k] <= 1 THEN 0 ELSE payload[k]]
    /\ indexLife' = [e \in Env |-> IF indexLife[e] = 0 THEN 0 ELSE indexLife[e] - 1]
    /\ index' = [e \in Env |-> IF indexLife[e] <= 1 THEN {} ELSE index[e]]
    /\ beyond' = {k \in beyond : life[k] > 1}
    /\ UNCHANGED <<dbVars, readerVars, writerVars>>

ReaderStep(r) ==
    \/ \E k \in Key : GetMiss(r, k)
    \/ ResolveForUser(r)
    \/ Put(r)
    \/ ReaderGivesUp(r)

WriterStep(w) ==
    \/ \E e \in Env : WriteOne(w, e) \/ ReadIndex(w, e) \/ ReadIndexFails(w, e)
    \/ WriteAll(w)
    \/ ListEnvironments(w)
    \/ ListFails(w)
    \/ UnlinkEntries(w)
    \/ UnlinkEntriesFails(w)
    \/ UnlinkIndex(w)
    \/ UnlinkIndexFails(w)
    \/ WriterDies(w)

Next ==
    \/ \E r \in Reader : ReaderStep(r)
    \/ \E w \in Writer : WriterStep(w)
    \/ Tick

Spec == Init /\ [][Next]_vars

\* Requests that have started finish and Redis' clock advances; nothing makes
\* a client send a request.
FairSpec ==
    /\ Spec
    /\ \A r \in Reader : WF_vars(ResolveForUser(r) \/ Put(r))
    /\ \A w \in Writer :
         /\ WF_vars(ListEnvironments(w) \/ UnlinkEntries(w) \/ UnlinkIndex(w))
         /\ WF_vars(\E e \in Env : ReadIndex(w, e))
    /\ WF_vars(Tick)

-----------------------------------------------------------------------------
\* A writer has yet to drop entry k: its environment waits for SMEMBERS, or
\* k was among the members read and waits for UNLINK.
Owed(k) == \E w \in Writer : k.env \in todo[w] \/ k \in seen[w]

\* cache.go 110-111: the index outlives its entries, so that an invalidation
\* can still find them, whatever the clock and the order of Put and UNLINK;
\* the exceptions are the entries in beyond, which a race or a fault cut off.
IndexOutlivesEntries == \A k \in Live \ beyond : k \in index[k.env]

\* cache.go 28-29 and README 447: a cached resolution that a write has made
\* out of date is still going to be dropped by that write's request.  It can
\* only fail for an entry in beyond: put by a reader that had read before the
\* write, put while its index was being unlinked, or met by a failure.
StaleEntryIsOwed ==
    \A k \in Live \ beyond : Stale(k) => Owed(k)

\* An invalidation that has finished leaves nothing behind that it read: when
\* no writer is in flight, an entry is the database's answer or is excepted.
QuietCacheIsFresh ==
    (\A w \in Writer : wpc[w] = "idle") => \A k \in Live \ beyond : ~Stale(k)

\* What makes the two invariants above inductive: an index holds keys of its own
\* environment, lives at least as long as each of them, and a writer's
\* obligations match its stage.
IndexCoversEntries ==
    \A e \in Env : \A k \in index[e] : k.env = e /\ life[k] <= indexLife[e]

ObligationsMatchStage ==
    \A w \in Writer :
        /\ wpc[w] = "idle" => todo[w] = {}
        /\ wpc[w] # "unlink" => seen[w] = {}
        /\ wpc[w] \in {"unlink", "unindex"} => at[w] \notin todo[w]

IInv ==
    /\ TypeOK
    /\ IndexCoversEntries
    /\ ObligationsMatchStage
    /\ IndexOutlivesEntries
    /\ StaleEntryIsOwed

\* SETTINGS_CACHE_TTL (README 439), "how long a cached resolution is served":
\* once the writes are over, every stale entry goes, the excepted ones too.
EventuallyFresh == <>[](\A k \in Live : ~Stale(k))

=============================================================================
