---------------------------------- MODULE Boot ----------------------------------
(***************************************************************************)
(* Booting: serve in cmd/app-settings/main.go, Migrate in                  *)
(* internal/database/migrate.go and EnsureBootstrapKey in                  *)
(* internal/store/bootstrap.go.  Several instances boot against one        *)
(* database at once; each may fail or be killed between any two steps and  *)
(* be started again.                                                       *)
(***************************************************************************)
EXTENDS Naturals, FiniteSets

CONSTANTS
    Instance,
    AutoMigrate,    \* the instances configured to migrate at boot
    Latest,         \* the number of embedded migrations
    KeysVersion,    \* the migration that creates api_keys
    MaxStops,       \* bound: how often an instance stops in a behaviour
    Unset

ASSUME VersionAssumption == Latest \in Nat /\ KeysVersion \in 1..Latest
ASSUME BoundAssumption == MaxStops \in Nat
Token == Instance \X (0..MaxStops)
ASSUME InstanceAssumption == AutoMigrate \subseteq Instance /\ Unset \notin Instance \union Token

VARIABLES
    pc,         \* pc[i]: the step of serve that i runs next
    lock,       \* the instance holding the advisory lock, or Unset
    schema,     \* the version recorded in the version table
    applied,    \* applied[v]: how often migration v has been applied
    current,    \* current[i]: the version i's migrator has reached
    token,      \* token[i]: the token this boot has drawn, or Unset
    stored,     \* the bootstrap keys in api_keys, by their tokens
    printed,    \* the tokens that were printed
    stops       \* how often an instance has stopped

bootVars == <<pc, lock, schema, applied, current, token, stored, printed, stops>>
database == <<schema, applied, stored>>

\* A token is drawn at random in each boot: told apart by who drew it and when.
TokenOf(i) == <<i, stops>>

Step == {"down", "lock", "load", "migrate", "unlock", "count", "insert", "announce", "listen"}

BootTypeOK ==
    /\ pc \in [Instance -> Step]
    /\ lock \in Instance \union {Unset}
    /\ schema \in 0..Latest
    /\ applied \in [1..Latest -> Nat]
    /\ current \in [Instance -> 0..Latest]
    /\ token \in [Instance -> Token \union {Unset}]
    /\ stored \subseteq Token /\ printed \subseteq Token
    /\ stops \in 0..MaxStops

BootInit ==
    /\ pc = [i \in Instance |-> "down"]
    /\ lock = Unset
    /\ schema = 0
    /\ applied = [v \in 1..Latest |-> 0]
    /\ current = [i \in Instance |-> 0]
    /\ token = [i \in Instance |-> Unset]
    /\ stored = {}
    /\ printed = {}
    /\ stops = 0

-----------------------------------------------------------------------------
Goto(i, step) == pc' = [pc EXCEPT ![i] = step]

\* The process starts and connects.
Start(i) ==
    /\ pc[i] = "down"
    /\ Goto(i, IF i \in AutoMigrate THEN "lock" ELSE "count")
    /\ UNCHANGED <<lock, database, current, token, printed, stops>>

\* Mutant of TakeLock: nobody waits.
TakeLockAnyway(i) ==
    /\ pc[i] = "lock"
    /\ lock' = i
    /\ Goto(i, "load")
    /\ UNCHANGED <<database, current, token, printed, stops>>

\* pg_advisory_lock blocks while another session holds the lock.
TakeLock(i) ==
    /\ pc[i] = "lock"
    /\ lock = Unset
    /\ lock' = i
    /\ Goto(i, "load")
    /\ UNCHANGED <<database, current, token, printed, stops>>

\* tern reads the recorded version.
LoadMigrations(i) ==
    /\ pc[i] = "load"
    /\ current' = [current EXCEPT ![i] = schema]
    /\ Goto(i, IF schema = Latest THEN "unlock" ELSE "migrate")
    /\ UNCHANGED <<lock, database, token, printed, stops>>

\* One migration and its version, in one transaction.
ApplyMigration(i) ==
    LET v == current[i] + 1 IN
    /\ pc[i] = "migrate"
    /\ applied' = [applied EXCEPT ![v] = @ + 1]
    /\ schema' = v
    /\ current' = [current EXCEPT ![i] = v]
    /\ Goto(i, IF v = Latest THEN "unlock" ELSE "migrate")
    /\ UNCHANGED <<lock, token, stored, printed, stops>>

Unlock(i) ==
    /\ pc[i] = "unlock"
    /\ lock' = Unset
    /\ Goto(i, "count")
    /\ UNCHANGED <<database, current, token, printed, stops>>

\* Mutant of CountApiKeys: a missing table is taken for nothing to do.
CountToleratesNoTable(i) ==
    /\ pc[i] = "count"
    /\ Goto(i, IF schema >= KeysVersion /\ stored = {} THEN "insert" ELSE "listen")
    /\ UNCHANGED <<lock, database, current, token, printed, stops>>

\* EnsureBootstrapKey: only when api_keys is empty is a key minted.  Without the
\* table the count fails and the boot with it (Stop).
CountApiKeys(i) ==
    /\ pc[i] = "count"
    /\ schema >= KeysVersion
    /\ Goto(i, IF stored = {} THEN "insert" ELSE "listen")
    /\ UNCHANGED <<lock, database, current, token, printed, stops>>

\* Mutant of CreateBootstrapKey: no unique index.
CreateAnotherKey(i) ==
    /\ pc[i] = "insert"
    /\ stored' = stored \union {TokenOf(i)}
    /\ token' = [token EXCEPT ![i] = TokenOf(i)]
    /\ Goto(i, "announce")
    /\ UNCHANGED <<lock, schema, applied, current, printed, stops>>

\* The unique index on is_bootstrap lets one insert in; the others conflict and
\* boot on without a token.
CreateBootstrapKey(i) ==
    /\ pc[i] = "insert"
    /\ IF stored = {}
       THEN /\ stored' = stored \union {TokenOf(i)}
            /\ token' = [token EXCEPT ![i] = TokenOf(i)]
            /\ Goto(i, "announce")
       ELSE /\ UNCHANGED <<stored, token>>
            /\ Goto(i, "listen")
    /\ UNCHANGED <<lock, schema, applied, current, printed, stops>>

Announce(i) ==
    /\ pc[i] = "announce"
    /\ printed' = printed \union {token[i]}
    /\ token' = [token EXCEPT ![i] = Unset]
    /\ Goto(i, "listen")
    /\ UNCHANGED <<lock, database, current, stops>>

\* Mutant of Stop: the lock outlives its session.
StopKeepsLock(i) ==
    /\ pc[i] # "down"
    /\ stops < MaxStops
    /\ stops' = stops + 1
    /\ token' = [token EXCEPT ![i] = Unset]
    /\ Goto(i, "down")
    /\ UNCHANGED <<lock, database, current, printed>>

\* A step returns an error, the process is killed, or it shuts down.  Its
\* session ends, and with it the lock; committed work stays.
Stop(i) ==
    /\ pc[i] # "down"
    /\ stops < MaxStops
    /\ stops' = stops + 1
    /\ lock' = IF lock = i THEN Unset ELSE lock
    /\ token' = [token EXCEPT ![i] = Unset]
    /\ Goto(i, "down")
    /\ UNCHANGED <<database, current, printed>>

BootStep(i) ==
    \/ TakeLock(i) \/ LoadMigrations(i) \/ ApplyMigration(i) \/ Unlock(i)
    \/ CountApiKeys(i) \/ CreateBootstrapKey(i) \/ Announce(i)

BootNext == \E i \in Instance : Start(i) \/ BootStep(i) \/ Stop(i)

BootSpec == BootInit /\ [][BootNext]_bootVars

\* A process that was started runs on, the database answers, and a session
\* waiting for the lock gets it when it stays free.
FairSpec == BootSpec /\ \A i \in Instance : WF_bootVars(BootStep(i))

-----------------------------------------------------------------------------
\* migrate.go 23-25: instances booting at once, and boots that die half way,
\* never apply a migration twice or skip one.
AppliedInOrder ==
    \A v \in 1..Latest : applied[v] = IF v <= schema THEN 1 ELSE 0

\* Migration 006, README 363: at most one bootstrap key ever exists, and every
\* token an operator was shown is that key's.
OneBootstrapKey ==
    /\ \A s, t \in stored : s = t
    /\ printed \subseteq stored

\* bootstrap.go 15-19: an instance serves requests only on a schema that has
\* api_keys, and once the first key is stored (revoking it is ApiKeys' matter).
ServingHasAKey ==
    \A i \in Instance : pc[i] = "listen" => schema >= KeysVersion /\ stored # {}

\* main.go 70-115: a boot that does not fail ends in serving; nobody waits for
\* ever for a lock whose holder died.
BootsFinish ==
    \A i \in Instance : pc[i] # "down" /\ i \in AutoMigrate ~> pc[i] \in {"down", "listen"}

\* Who holds the lock, and how far its migrator is.
LockIsHeld ==
    /\ \A i \in Instance : pc[i] \in {"load", "migrate", "unlock"} <=> lock = i
    /\ \A i \in Instance : pc[i] = "migrate" => current[i] = schema /\ schema < Latest
    /\ \A i \in Instance : pc[i] = "unlock" => schema = Latest

\* An instance at the bootstrap key has its table; a token about to be printed
\* is stored.
KeyStepsAreReady ==
    \A i \in Instance :
        /\ pc[i] \in {"insert", "announce"} => schema >= KeysVersion
        /\ pc[i] = "announce" => token[i] \in stored

\* The inductive invariant the proofs use (DeploymentProofs).
BootIInv ==
    /\ BootTypeOK
    /\ LockIsHeld
    /\ AppliedInOrder
    /\ OneBootstrapKey
    /\ ServingHasAKey
    /\ KeyStepsAreReady
=============================================================================
