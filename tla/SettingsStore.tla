------------------------------ MODULE SettingsStore ------------------------------
(***************************************************************************)
(* The SDK's reactive store (app-settings-js/src/store.ts), its snapshots  *)
(* (snapshot.ts) and the server they are about.                            *)
(*                                                                         *)
(* JavaScript runs one callback at a time, so an action is the code between *)
(* two awaits.  A load is a request that the server reads at one moment    *)
(* and that ends at another; so is a write.  Only one load is meant to be  *)
(* in flight, but those a setUser or dispose superseded are still out and  *)
(* come back; `generation` tells them apart.                               *)
(*                                                                         *)
(* generation counts up in the code and is only ever compared for equality, *)
(* as object identities are: both are names taken from finite sets, free   *)
(* ones first, so that no counter bounds the length of a behaviour.        *)
(***************************************************************************)
EXTENDS Naturals

CONSTANTS
    User,           \* the users a store may be pointed at
    NoUser,         \* no user: the store resolves the server layer
    Setting,        \* the settings the key may see; a write to another one is refused at once
    Value,          \* values of a setting
    Default,        \* what a setting resolves to when nothing is stored
    Policy,         \* the values an operator's enforced override may take
    Listener,       \* subscribed callbacks
    Writer,         \* calls of set and clear that may be out at once (bound)
    Ticket,         \* names of generations (bound: loads that may be out at once)
    Identity,       \* identities of optimistic snapshots (bound, never reached)
    Null,           \* no snapshot, value, load or write
    Polls,          \* options.refreshIntervalMs > 0
    Wakes,          \* revalidateOnFocus or revalidateOnReconnect, in a browser
    Seeded,         \* options.initialData is given
    Lossy,          \* a failed write may have been, or may yet be, applied
    Twice,          \* a callback may be subscribed while it is subscribed already
    MaxTicking      \* bound on intervals running

Owner == User \union {NoUser}
Resolution == [Setting -> [value : Value, enforced : BOOLEAN]]

\* Only an optimistic snapshot is ever compared with another: those have an
\* identity, a snapshot from the server has none.
Snapshot == [id : Identity \union {Null}, user : Owner, shown : Resolution]
StateRecord == [status : {"idle", "loading", "ready", "error"},
                snapshot : Snapshot \union {Null}, failed : BOOLEAN, validating : BOOLEAN]
LoadRecord == [user : Owner, answer : Resolution \union {Null}]
WriteRecord == [user : User, name : Setting, value : Value \union {Null},
                stage : {"sent", "applied", "abandoned"},
                previous : Snapshot \union {Null}, optimistic : Snapshot \union {Null}]

ASSUME NullAssumption ==
    /\ Null \notin Value \union Owner \union Ticket \union Identity
    /\ Null \notin Resolution /\ Null \notin Snapshot
    /\ Null \notin LoadRecord /\ Null \notin WriteRecord
ASSUME ValueAssumption == Default \in Value /\ Policy \subseteq Value /\ NoUser \notin User
ASSUME OptionAssumption == {Polls, Wakes, Seeded, Lossy, Twice} \subseteq BOOLEAN /\ MaxTicking \in Nat

VARIABLES
    \* the server
    stored,         \* each user's personal value of each setting, or Null
    policy,         \* an enforced override of each setting, or Null
    \* the store
    userId, state, generation, inFlight, disposed, listeners,
    timers,         \* handle: `interval` is set; ticking: intervals running; awake: window listeners
    \* the requests that are out
    loads,          \* by ticket
    writes          \* by writer

server == <<stored, policy>>
room == <<listeners, timers>>
vars == <<stored, policy, userId, state, generation, inFlight, disposed,
          listeners, timers, loads, writes>>

-----------------------------------------------------------------------------
\* What the server resolves for one user: an enforced override outranks what
\* the user chose, which outranks the default.
Resolve(u) ==
    [s \in Setting |->
        IF u # NoUser /\ policy[s] # Null THEN [value |-> policy[s], enforced |-> TRUE]
        ELSE IF u # NoUser /\ stored[u][s] # Null THEN [value |-> stored[u][s], enforced |-> FALSE]
        ELSE [value |-> Default, enforced |-> FALSE]]

FromServer(u, answer) == [id |-> Null, user |-> u, shown |-> answer]

\* SettingsSnapshot.with: a new object, one value replaced, the override kept.
With(snapshot, id, name, value) ==
    [snapshot EXCEPT !.id = id, !.shown[name].value = value]

InUse ==
    {t \in Ticket : loads[t] # Null} \union {generation}
FreshTicket == CHOOSE t \in Ticket \ InUse : TRUE

IdsOf(snapshot) == IF snapshot = Null THEN {} ELSE {snapshot.id}
IdsInUse ==
    IdsOf(state.snapshot) \union
    UNION {IdsOf(writes[w].optimistic) \union IdsOf(writes[w].previous) :
              w \in {w \in Writer : writes[w] # Null}}
FreshId == CHOOSE i \in Identity \ IdsInUse : TRUE

Init ==
    /\ stored \in [User -> [Setting -> {Null, Default}]]
    /\ policy = [s \in Setting |-> Null]
    /\ userId \in Owner
    /\ state = [status     |-> IF Seeded THEN "ready" ELSE "idle",
                snapshot   |-> IF Seeded THEN FromServer(userId, Resolve(userId)) ELSE Null,
                failed     |-> FALSE,
                validating |-> FALSE]
    /\ generation \in Ticket
    /\ inFlight = Null
    /\ disposed = FALSE
    /\ listeners = {}
    /\ timers = [handle |-> FALSE, ticking |-> 0, awake |-> FALSE]
    /\ loads = [t \in Ticket |-> Null]
    /\ writes = [w \in Writer |-> Null]

\* load(), called with the state at s and the user at u: a caller joins the load
\* in flight; otherwise a new generation begins and its request goes out.
Load(s, u, flight) ==
    IF disposed \/ flight # Null
    THEN /\ state' = s
         /\ inFlight' = flight
         /\ UNCHANGED <<generation, loads>>
    ELSE /\ Ticket \ InUse # {}
         /\ state' = [s EXCEPT !.validating = TRUE,
                               !.status = IF s.snapshot # Null THEN @ ELSE "loading"]
         /\ generation' = FreshTicket
         /\ inFlight' = FreshTicket
         /\ loads' = [loads EXCEPT ![FreshTicket] = [user |-> u, answer |-> Null]]

Refresh ==
    /\ Load(state, userId, inFlight)
    /\ UNCHANGED <<server, userId, disposed, room, writes>>

\* onWake: an interval fires, the tab is focused, or the network is back.
Wake ==
    /\ timers.ticking > 0 \/ timers.awake
    /\ Load(state, userId, inFlight)
    /\ UNCHANGED <<server, userId, disposed, room, writes>>

-----------------------------------------------------------------------------
StartTimers ==
    timers' = [handle  |-> timers.handle \/ Polls,
               ticking |-> IF Polls THEN timers.ticking + 1 ELSE timers.ticking,
               awake   |-> timers.awake \/ Wakes]

\* clearInterval stops the interval whose handle was kept last.
StopTimers ==
    timers' = [handle  |-> FALSE,
               ticking |-> IF timers.handle THEN timers.ticking - 1 ELSE timers.ticking,
               awake   |-> FALSE]

\* The first subscriber starts the store.  The code tests the size of the set
\* after the add, so adding the only callback again passes for the first.
Subscribe(l) ==
    /\ l \notin listeners \/ Twice
    /\ timers.ticking < MaxTicking
    /\ listeners' = listeners \union {l}
    /\ IF listeners \subseteq {l} /\ ~disposed
       THEN /\ StartTimers
            /\ IF state.snapshot = Null
               THEN Load(state, userId, inFlight)
               ELSE UNCHANGED <<state, generation, inFlight, loads>>
       ELSE UNCHANGED <<timers, state, generation, inFlight, loads>>
    /\ UNCHANGED <<server, userId, disposed, writes>>

\* Mutant of Unsubscribe: the interval outlives the last subscriber.
UnsubscribeKeepsInterval(l) ==
    /\ l \in listeners
    /\ listeners' = listeners \ {l}
    /\ UNCHANGED <<server, userId, state, generation, inFlight, disposed, timers, loads, writes>>

\* The function subscribe returns; calling it again finds nothing to delete.
Unsubscribe(l) ==
    /\ l \in listeners
    /\ listeners' = listeners \ {l}
    /\ IF listeners = {l} THEN StopTimers ELSE UNCHANGED timers
    /\ UNCHANGED <<server, userId, state, generation, inFlight, disposed, loads, writes>>

\* Mutant of SetUser: the generation is left alone when a load is out.
SetUserJoins(u) ==
    /\ u # userId
    /\ userId' = u
    /\ Load([state EXCEPT !.status = "loading", !.snapshot = Null, !.failed = FALSE], u, inFlight)
    /\ UNCHANGED <<server, disposed, room, writes>>

\* setUser supersedes the load in flight and starts one for the new user.  On a
\* disposed store load() does nothing, and the state stays "loading".
SetUser(u) ==
    LET blank == [state EXCEPT !.status = "loading", !.snapshot = Null, !.failed = FALSE] IN
    /\ u # userId
    /\ userId' = u
    /\ IF disposed
       THEN /\ Ticket \ InUse # {}
            /\ generation' = FreshTicket
            /\ inFlight' = Null
            /\ state' = blank
            /\ UNCHANGED loads
       ELSE Load(blank, u, Null)
    /\ UNCHANGED <<server, disposed, room, writes>>

\* dispose leaves isValidating and the load in flight as they are: whatever
\* comes back is dropped.
Dispose ==
    /\ Ticket \ InUse # {}
    /\ disposed' = TRUE
    /\ generation' = FreshTicket
    /\ StopTimers
    /\ listeners' = {}
    /\ UNCHANGED <<server, userId, state, inFlight, loads, writes>>

-----------------------------------------------------------------------------
\* The server answers a resolution from what is stored at that moment.
ServerReads(t) ==
    /\ loads[t] # Null
    /\ loads[t].answer = Null
    /\ loads' = [loads EXCEPT ![t].answer = Resolve(loads[t].user)]
    /\ UNCHANGED <<server, userId, state, generation, inFlight, disposed, room, writes>>

\* The end of the load with ticket t; a superseded one changes nothing.
EndLoad(t, next) ==
    /\ loads' = [loads EXCEPT ![t] = Null]
    /\ inFlight' = IF t = generation THEN Null ELSE inFlight
    /\ state' = IF t = generation /\ ~disposed THEN next ELSE state
    /\ UNCHANGED <<server, userId, generation, disposed, room, writes>>

LoadSucceeds(t) ==
    /\ loads[t] # Null
    /\ loads[t].answer # Null
    /\ EndLoad(t, [status     |-> "ready",
                   snapshot   |-> FromServer(loads[t].user, loads[t].answer),
                   failed     |-> FALSE,
                   validating |-> FALSE])

\* Mutant of LoadFails: the spinner is not lowered.
LoadFailsSpinning(t) ==
    /\ loads[t] # Null
    /\ EndLoad(t, [state EXCEPT !.status = IF state.snapshot # Null THEN "ready" ELSE "error",
                                !.failed = TRUE])

\* Mutant of LoadFails: the finally block is missing, and the failed load stays
\* the one in flight.
LoadFailsForGood(t) ==
    /\ loads[t] # Null
    /\ loads' = [loads EXCEPT ![t] = Null]
    /\ state' = [state EXCEPT !.failed = TRUE, !.validating = FALSE]
    /\ UNCHANGED <<server, userId, generation, inFlight, disposed, room, writes>>

\* The last good snapshot is kept.
LoadFails(t) ==
    /\ loads[t] # Null
    /\ EndLoad(t, [state EXCEPT !.status = IF state.snapshot # Null THEN "ready" ELSE "error",
                                !.failed = TRUE,
                                !.validating = FALSE])

-----------------------------------------------------------------------------
\* writePersonal up to its await.  writeTarget wants a snapshot and a user.
\* Nothing is shown when the value is enforced or is being cleared.
BeginWrite(w, name, value) ==
    LET now == state.snapshot
        shows == value # Null /\ ~now.shown[name].enforced
        optimistic == With(now, FreshId, name, value) IN
    /\ writes[w] = Null
    /\ now # Null
    /\ userId # NoUser
    /\ Identity \ IdsInUse # {}
    /\ writes' = [writes EXCEPT ![w] =
            [user |-> userId, name |-> name, value |-> value, stage |-> "sent",
             previous   |-> IF shows THEN now ELSE Null,
             optimistic |-> IF shows THEN optimistic ELSE Null]]
    /\ state' = IF shows THEN [state EXCEPT !.snapshot = optimistic] ELSE state
    /\ UNCHANGED <<server, userId, generation, inFlight, disposed, room, loads>>

Apply(w) ==
    stored' = [stored EXCEPT ![writes[w].user][writes[w].name] = writes[w].value]

\* The request reaches the server; a lost answer makes the client send it again.
ServerWrites(w) ==
    /\ writes[w] # Null
    /\ writes[w].stage = "sent" \/ (Lossy /\ writes[w].stage = "applied")
    /\ Apply(w)
    /\ writes' = [writes EXCEPT ![w].stage = "applied"]
    /\ UNCHANGED <<policy, userId, state, generation, inFlight, disposed, room, loads>>

\* The write is answered and the store reloads: load() joins the load in flight.
WriteSucceeds(w) ==
    /\ writes[w] # Null
    /\ writes[w].stage = "applied"
    /\ writes' = [writes EXCEPT ![w] = Null]
    /\ Load(state, userId, inFlight)
    /\ UNCHANGED <<server, userId, disposed, room>>

\* Mutant of RolledBack: the rollback does not ask what is shown now.
RolledBackBlindly(w) ==
    IF writes[w].optimistic # Null THEN [state EXCEPT !.snapshot = writes[w].previous] ELSE state

\* The state after a failed write: what was shown before it is shown again,
\* unless something else has been shown since.
RolledBack(w) ==
    IF writes[w].optimistic # Null /\ state.snapshot = writes[w].optimistic
    THEN [state EXCEPT !.snapshot = writes[w].previous]
    ELSE state

\* A refusal, or no answer in time: then the request may have been applied
\* already, or be under way still.
WriteFails(w) ==
    /\ writes[w] # Null
    /\ writes[w].stage = "sent" \/ (Lossy /\ writes[w].stage = "applied")
    /\ \E left \in {Null} \union (IF Lossy THEN {[writes[w] EXCEPT !.stage = "abandoned"]} ELSE {}) :
          writes' = [writes EXCEPT ![w] = left]
    /\ state' = RolledBack(w)
    /\ UNCHANGED <<server, userId, generation, inFlight, disposed, room, loads>>

\* A request the client gave up on arrives, or never does.
LateWrite(w) ==
    /\ writes[w] # Null
    /\ writes[w].stage = "abandoned"
    /\ Apply(w) \/ UNCHANGED stored
    /\ writes' = [writes EXCEPT ![w] = Null]
    /\ UNCHANGED <<policy, userId, state, generation, inFlight, disposed, room, loads>>

\* An operator sets or lifts an enforced override.
PolicyChanges(s) ==
    /\ \E v \in Policy \union {Null} : policy' = [policy EXCEPT ![s] = v]
    /\ Policy # {}
    /\ UNCHANGED <<stored, userId, state, generation, inFlight, disposed, room, loads, writes>>

Next ==
    \/ Refresh \/ Wake \/ Dispose
    \/ \E l \in Listener : Subscribe(l) \/ Unsubscribe(l)
    \/ \E u \in Owner : SetUser(u)
    \/ \E t \in Ticket : ServerReads(t) \/ LoadSucceeds(t) \/ LoadFails(t)
    \/ \E w \in Writer, s \in Setting, v \in Value \union {Null} : BeginWrite(w, s, v)
    \/ \E w \in Writer : ServerWrites(w) \/ WriteSucceeds(w) \/ WriteFails(w) \/ LateWrite(w)
    \/ \E s \in Setting : PolicyChanges(s)

Spec == Init /\ [][Next]_vars

\* A running interval fires, and a load is neither left unread nor always failed.
FairSpec ==
    /\ Spec
    /\ WF_vars(Wake)
    /\ \A t \in Ticket : SF_vars(ServerReads(t)) /\ SF_vars(LoadSucceeds(t))

-----------------------------------------------------------------------------
TypeOK ==
    /\ stored \in [User -> [Setting -> Value \union {Null}]]
    /\ policy \in [Setting -> Policy \union {Null}]
    /\ userId \in Owner
    /\ state \in StateRecord
    /\ generation \in Ticket
    /\ inFlight \in Ticket \union {Null}
    /\ disposed \in BOOLEAN
    /\ listeners \subseteq Listener
    /\ timers \in [handle : BOOLEAN, ticking : Nat, awake : BOOLEAN]
    /\ loads \in [Ticket -> LoadRecord \union {Null}]
    /\ writes \in [Writer -> WriteRecord \union {Null}]

\* store.ts 145, 264-272: what is shown is always about the user the store points
\* at, whatever loads and writes of earlier users are still to come back.
SnapshotIsOfUser == state.snapshot # Null => state.snapshot.user = userId

\* store.ts 24-28, 34: the flags an interface reads agree with what is going on.
\* The spinner shows while the load in flight is out and answers for the user
\* pointed at, and at no other time; "ready" means there is something to show.
FlagsTellTheTruth ==
    /\ ~disposed =>
        /\ state.validating <=> inFlight # Null
        /\ inFlight # Null =>
            /\ inFlight = generation
            /\ loads[inFlight] # Null
            /\ loads[inFlight].user = userId
    /\ state.status = "ready" <=> state.snapshot # Null
    /\ state.status = "error" => state.failed

Subscribed == listeners # {} /\ ~disposed

\* store.ts 242 ("nothing polls an empty room"): an interval runs exactly while
\* somebody is subscribed, provided no callback is subscribed twice.
IntervalsAreOwned ==
    ~Twice => timers.ticking = IF Polls /\ Subscribed THEN 1 ELSE 0

\* What a failing write would restore is about the user of the write.
WritesKeepTheirUser ==
    \A w \in Writer : writes[w] # Null /\ writes[w].optimistic # Null =>
        /\ writes[w].previous # Null
        /\ writes[w].previous.user = writes[w].optimistic.user

\* A load of the current generation that is out is the one in flight.
CurrentLoadIsInFlight == ~disposed /\ loads[generation] # Null => inFlight = generation

\* The interval running is the one whose handle is kept.
HandleIsOfInterval ==
    /\ timers.handle => timers.ticking > 0
    /\ ~Twice => timers.handle = (Polls /\ Subscribed)

IInv ==
    /\ TypeOK
    /\ SnapshotIsOfUser
    /\ FlagsTellTheTruth
    /\ IntervalsAreOwned
    /\ WritesKeepTheirUser
    /\ CurrentLoadIsInFlight
    /\ HandleIsOfInterval

Truthful == state.snapshot # Null /\ state.snapshot.shown = Resolve(userId)
AtRest == inFlight = Null /\ \A w \in Writer : writes[w] = Null

\* store.ts 128-158, 242-249: once the server and the user stop changing things,
\* a subscribed store that polls comes to show what the server resolves, whatever
\* was dropped, joined or rolled back before.
EventuallyTrue ==
    /\ <>[][UNCHANGED <<stored, policy, userId, writes>>]_vars
    /\ <>[]Subscribed
    => <>[]Truthful

\* store.ts 81-82: a control "feels instant but never lies": when nothing is out
\* and the last load did not fail, what is shown is what the server resolves.
NeverLies == AtRest /\ ~state.failed /\ state.snapshot # Null => Truthful
=============================================================================
