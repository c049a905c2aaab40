--------------------------- MODULE SettingsStoreProofs ---------------------------
(***************************************************************************)
(* SettingsStore, for any users, settings, callbacks and requests out at   *)
(* once: what is shown is about the user pointed at, the flags agree with  *)
(* the load in flight, and an interval runs while somebody is subscribed.  *)
(* IInv adds whose snapshot a failing write would bring back.              *)
(***************************************************************************)
EXTENDS SettingsStore, TLAPS

LEMMA ResolveType ==
    ASSUME TypeOK, NEW u \in Owner
    PROVE  Resolve(u) \in Resolution
<1>1. ASSUME NEW s \in Setting
      PROVE  Resolve(u)[s] \in [value : Value, enforced : BOOLEAN]
  BY ValueAssumption DEF Resolve, TypeOK, Owner
<1> QED
  BY <1>1 DEF Resolve, Resolution

LEMMA FromServerType ==
    ASSUME NEW u \in Owner, NEW r \in Resolution
    PROVE  /\ FromServer(u, r) \in Snapshot
           /\ FromServer(u, r) # Null
           /\ FromServer(u, r).user = u
BY NullAssumption DEF FromServer, Snapshot

LEMMA WithType ==
    ASSUME NEW now \in Snapshot, NEW i \in Identity, NEW n \in Setting, NEW v \in Value
    PROVE  /\ With(now, i, n, v) \in Snapshot
           /\ With(now, i, n, v) # Null
           /\ With(now, i, n, v).user = now.user
<1>1. With(now, i, n, v) \in Snapshot
  BY DEF With, Snapshot, Resolution
<1>2. With(now, i, n, v).user = now.user
  BY DEF With, Snapshot
<1> QED
  BY <1>1, <1>2, NullAssumption

LEMMA FreshTicketType ==
    ASSUME Ticket \ InUse # {}
    PROVE  FreshTicket \in Ticket /\ FreshTicket # generation /\ loads[FreshTicket] = Null
<1>1. FreshTicket \in Ticket \ InUse
  BY DEF FreshTicket
<1> QED
  BY <1>1 DEF InUse

\* What the flags of a state and of a load in flight owe each other.
Fits(s) == (s.status = "ready" <=> s.snapshot # Null) /\ (s.status = "error" => s.failed)

\* load() keeps the flags true, whoever calls it: it joins the load in flight,
\* which is for the same user, or starts one.
LEMMA LoadKeepsFlags ==
    ASSUME TypeOK, FlagsTellTheTruth, CurrentLoadIsInFlight,
           NEW s \in StateRecord, NEW u \in Owner, NEW flight \in {inFlight, Null},
           Fits(s),
           flight # Null => u = userId,
           ~disposed /\ flight # Null => s.validating,
           s.snapshot # Null => s.snapshot.user = u,
           Load(s, u, flight), userId' = u, disposed' = disposed
    PROVE  /\ state' \in StateRecord
           /\ generation' \in Ticket
           /\ inFlight' \in Ticket \union {Null}
           /\ loads' \in [Ticket -> LoadRecord \union {Null}]
           /\ SnapshotIsOfUser'
           /\ FlagsTellTheTruth'
           /\ CurrentLoadIsInFlight'
<1>1. CASE disposed \/ flight # Null
  <2>1. state' = s /\ inFlight' = flight /\ generation' = generation /\ loads' = loads
    BY <1>1 DEF Load
  <2> QED
    BY <1>1, <2>1 DEF TypeOK, FlagsTellTheTruth, CurrentLoadIsInFlight, SnapshotIsOfUser, Fits
<1>2. CASE ~(disposed \/ flight # Null)
  <2> DEFINE t == FreshTicket
  <2>1. /\ Ticket \ InUse # {}
        /\ state' = [s EXCEPT !.validating = TRUE,
                              !.status = IF s.snapshot # Null THEN @ ELSE "loading"]
        /\ generation' = t
        /\ inFlight' = t
        /\ loads' = [loads EXCEPT ![t] = [user |-> u, answer |-> Null]]
    BY <1>2 DEF Load
  <2>2. t \in Ticket /\ t # Null
    BY <2>1, FreshTicketType, NullAssumption
  <2>3. [user |-> u, answer |-> Null] \in LoadRecord
    BY DEF LoadRecord
  <2>4. /\ loads' \in [Ticket -> LoadRecord \union {Null}]
        /\ loads'[t] # Null /\ loads'[t].user = u
    BY <2>1, <2>2, <2>3, NullAssumption DEF TypeOK
  <2>5. /\ state' \in StateRecord
        /\ state'.validating = TRUE
        /\ state'.snapshot = s.snapshot
        /\ state'.failed = s.failed
        /\ state'.status = IF s.snapshot # Null THEN s.status ELSE "loading"
    BY <2>1 DEF StateRecord
  <2>6. SnapshotIsOfUser'
    BY <2>5 DEF SnapshotIsOfUser
  <2>7. FlagsTellTheTruth'
    BY <2>1, <2>2, <2>4, <2>5 DEF FlagsTellTheTruth, Fits
  <2>8. CurrentLoadIsInFlight'
    BY <2>1 DEF CurrentLoadIsInFlight
  <2> HIDE DEF t
  <2> QED
    BY <2>1, <2>2, <2>4, <2>5, <2>6, <2>7, <2>8
<1> QED
  BY <1>1, <1>2

LEMMA InitIInv == Init => IInv
<1> SUFFICES ASSUME Init PROVE IInv
  OBVIOUS
<1>1. /\ stored \in [User -> [Setting -> Value \union {Null}]]
      /\ policy \in [Setting -> Policy \union {Null}]
      /\ userId \in Owner
  BY ValueAssumption DEF Init
<1>2. Resolve(userId) \in Resolution
  <2>1. ASSUME NEW s \in Setting
        PROVE  Resolve(userId)[s] \in [value : Value, enforced : BOOLEAN]
    BY <1>1, ValueAssumption DEF Resolve, Owner
  <2> QED
    BY <2>1 DEF Resolve, Resolution
<1>3. /\ FromServer(userId, Resolve(userId)) \in Snapshot
      /\ FromServer(userId, Resolve(userId)) # Null
      /\ FromServer(userId, Resolve(userId)).user = userId
  BY <1>1, <1>2, FromServerType
<1>4. state \in StateRecord
  BY <1>3 DEF Init, StateRecord
<1>5. TypeOK
  BY <1>1, <1>4 DEF Init, TypeOK
<1>6. SnapshotIsOfUser /\ FlagsTellTheTruth /\ CurrentLoadIsInFlight
  BY <1>3 DEF Init, SnapshotIsOfUser, FlagsTellTheTruth, CurrentLoadIsInFlight
<1>7. IntervalsAreOwned /\ HandleIsOfInterval /\ WritesKeepTheirUser
  BY DEF Init, IntervalsAreOwned, HandleIsOfInterval, WritesKeepTheirUser, Subscribed
<1> QED
  BY <1>5, <1>6, <1>7 DEF IInv

-----------------------------------------------------------------------------
\* What the store keeps of its callbacks and timers.
Timers == [handle : BOOLEAN, ticking : Nat, awake : BOOLEAN]
Room ==
    /\ listeners \subseteq Listener
    /\ timers \in Timers
    /\ IntervalsAreOwned
    /\ HandleIsOfInterval

LEMMA StartTimersType ==
    ASSUME timers \in Timers, StartTimers
    PROVE  /\ timers' \in Timers
           /\ timers'.handle = (timers.handle \/ Polls)
           /\ timers'.ticking = IF Polls THEN timers.ticking + 1 ELSE timers.ticking
BY OptionAssumption DEF Timers, StartTimers

LEMMA StopTimersType ==
    ASSUME timers \in Timers, timers.handle => timers.ticking > 0, StopTimers
    PROVE  /\ timers' \in Timers
           /\ timers'.handle = FALSE
           /\ timers'.ticking = IF timers.handle THEN timers.ticking - 1 ELSE timers.ticking
BY DEF Timers, StopTimers

LEMMA LastOneOut ==
    ASSUME timers \in Timers, timers.ticking \in Nat, IntervalsAreOwned, HandleIsOfInterval,
           Twice \in BOOLEAN, StopTimers, listeners' = {}
    PROVE  Room'
<1>1. timers.handle => timers.ticking > 0
  BY DEF HandleIsOfInterval
<1>2. ~Twice => timers.ticking = IF timers.handle THEN 1 ELSE 0
  BY DEF IntervalsAreOwned, HandleIsOfInterval
<1>3. /\ timers' \in Timers
      /\ timers'.handle = FALSE
      /\ timers'.ticking = IF timers.handle THEN timers.ticking - 1 ELSE timers.ticking
  BY <1>1, StopTimersType
<1>4. ~Twice => timers'.ticking = 0
  BY <1>2, <1>3
<1>5. ~Subscribed'
  BY DEF Subscribed
<1>6. IntervalsAreOwned' /\ HandleIsOfInterval'
  BY <1>3, <1>4, <1>5 DEF IntervalsAreOwned, HandleIsOfInterval
<1> QED
  BY <1>3, <1>6 DEF Room

LEMMA NextRoom == IInv /\ [Next]_vars => Room'
<1> SUFFICES ASSUME IInv, [Next]_vars PROVE Room'
  OBVIOUS
<1>0. /\ listeners \subseteq Listener
      /\ timers \in Timers /\ timers.ticking \in Nat /\ timers.handle \in BOOLEAN
      /\ disposed \in BOOLEAN
      /\ IntervalsAreOwned /\ HandleIsOfInterval
      /\ Polls \in BOOLEAN /\ Twice \in BOOLEAN
  BY OptionAssumption DEF IInv, TypeOK, Timers
<1>1. ASSUME NEW l \in Listener, Subscribe(l) PROVE Room'
  <2>1. CASE listeners \subseteq {l} /\ ~disposed
    <3>1. StartTimers
      BY <1>1, <2>1 DEF Subscribe
    <3>2. listeners' = {l} /\ listeners' \subseteq Listener /\ Subscribed'
      BY <1>1, <2>1 DEF Subscribe, Subscribed
    <3>3. ~Twice => timers.ticking = 0 /\ timers.handle = FALSE
      BY <1>0, <1>1, <2>1 DEF Subscribe, IntervalsAreOwned, HandleIsOfInterval, Subscribed
    <3>4. IntervalsAreOwned'
      BY <1>0, <3>1, <3>2, <3>3, StartTimersType DEF IntervalsAreOwned
    <3>5. HandleIsOfInterval'
      BY <1>0, <3>1, <3>2, <3>3, StartTimersType DEF HandleIsOfInterval
    <3> QED
      BY <1>0, <3>1, <3>2, <3>4, <3>5, StartTimersType DEF Room
  <2>2. CASE ~(listeners \subseteq {l} /\ ~disposed)
    BY <1>0, <1>1, <2>2 DEF Room, Subscribe, IntervalsAreOwned, HandleIsOfInterval, Subscribed
  <2> QED
    BY <2>1, <2>2
<1>2. ASSUME NEW l \in Listener, Unsubscribe(l) PROVE Room'
  <2>1. CASE listeners = {l}
    <3>1. StopTimers /\ listeners' = {}
      BY <1>2, <2>1 DEF Unsubscribe
    <3> QED
      BY <1>0, <3>1, LastOneOut
  <2>2. CASE listeners # {l}
    <3>1. /\ listeners' # {} /\ listeners # {} /\ listeners' \subseteq Listener
          /\ timers' = timers /\ disposed' = disposed
      BY <1>0, <1>2, <2>2 DEF Unsubscribe
    <3>2. Subscribed' = Subscribed
      BY <3>1 DEF Subscribed
    <3>3. IntervalsAreOwned' /\ HandleIsOfInterval'
      BY <1>0, <3>1, <3>2 DEF IntervalsAreOwned, HandleIsOfInterval
    <3> QED
      BY <1>0, <3>1, <3>3 DEF Room
  <2> QED
    BY <2>1, <2>2
<1>3. ASSUME Dispose PROVE Room'
  BY <1>0, <1>3, LastOneOut DEF Dispose
<1>4. CASE UNCHANGED <<listeners, timers, disposed>>
  BY <1>0, <1>4 DEF Room, IntervalsAreOwned, HandleIsOfInterval, Subscribed
<1> QED
  BY <1>1, <1>2, <1>3, <1>4
  DEF Next, vars, room, Refresh, Wake, SetUser, ServerReads, LoadSucceeds, LoadFails, EndLoad,
      BeginWrite, ServerWrites, WriteSucceeds, WriteFails, LateWrite, PolicyChanges

-----------------------------------------------------------------------------
\* What the store keeps of its state and its requests.
Core ==
    /\ stored \in [User -> [Setting -> Value \union {Null}]]
    /\ policy \in [Setting -> Policy \union {Null}]
    /\ userId \in Owner
    /\ state \in StateRecord
    /\ generation \in Ticket
    /\ inFlight \in Ticket \union {Null}
    /\ disposed \in BOOLEAN
    /\ loads \in [Ticket -> LoadRecord \union {Null}]
    /\ writes \in [Writer -> WriteRecord \union {Null}]
    /\ SnapshotIsOfUser
    /\ FlagsTellTheTruth
    /\ WritesKeepTheirUser
    /\ CurrentLoadIsInFlight

LEMMA CoreFits ==
    ASSUME IInv
    PROVE  /\ TypeOK /\ Core /\ Fits(state)
           /\ state.snapshot # Null => state.snapshot.user = userId
           /\ ~disposed /\ inFlight # Null => state.validating
BY DEF IInv, TypeOK, Core, Fits, CurrentLoadIsInFlight, SnapshotIsOfUser, FlagsTellTheTruth

\* A caller of load() that changes nothing else.
LEMMA LoadCore ==
    ASSUME IInv, Load(state, userId, inFlight), UNCHANGED <<server, userId, disposed>>,
           writes' \in [Writer -> WriteRecord \union {Null}], WritesKeepTheirUser'
    PROVE  Core'
<1>1. userId \in Owner /\ state \in StateRecord
  BY CoreFits DEF Core
<1>2. /\ state' \in StateRecord
      /\ generation' \in Ticket
      /\ inFlight' \in Ticket \union {Null}
      /\ loads' \in [Ticket -> LoadRecord \union {Null}]
      /\ SnapshotIsOfUser'
      /\ FlagsTellTheTruth'
      /\ CurrentLoadIsInFlight'
  BY <1>1, CoreFits, LoadKeepsFlags DEF IInv
<1> QED
  BY <1>2, CoreFits DEF Core, server

\* An action that leaves writes alone keeps what they would restore.
LEMMA SameWrites ==
    ASSUME IInv, writes' = writes
    PROVE  writes' \in [Writer -> WriteRecord \union {Null}] /\ WritesKeepTheirUser'
BY DEF IInv, TypeOK, WritesKeepTheirUser

\* A writer that ends leaves nothing to restore; one that changes its stage
\* keeps what it has.
LEMMA WriteMoves ==
    ASSUME IInv, NEW w \in Writer, writes[w] # Null,
           NEW left \in {Null} \union {[writes[w] EXCEPT !.stage = g] : g \in {"applied", "abandoned"}},
           writes' = [writes EXCEPT ![w] = left]
    PROVE  writes' \in [Writer -> WriteRecord \union {Null}] /\ WritesKeepTheirUser'
<1>1. writes[w] \in WriteRecord /\ writes \in [Writer -> WriteRecord \union {Null}]
  BY DEF IInv, TypeOK
<1>2. left # Null => /\ left \in WriteRecord
                     /\ left.previous = writes[w].previous
                     /\ left.optimistic = writes[w].optimistic
  BY <1>1 DEF WriteRecord
<1>3. writes' \in [Writer -> WriteRecord \union {Null}]
  BY <1>1, <1>2
<1>4. WritesKeepTheirUser'
  BY <1>1, <1>2 DEF IInv, WritesKeepTheirUser
<1> QED
  BY <1>3, <1>4

LEMMA NextCoreLoads ==
    ASSUME IInv,
           \/ Refresh \/ Wake \/ Dispose
           \/ \E l \in Listener : Subscribe(l) \/ Unsubscribe(l)
           \/ \E u \in Owner : SetUser(u)
    PROVE  Core'
<1>1. CASE Refresh \/ Wake
  BY <1>1, LoadCore, SameWrites DEF Refresh, Wake
<1>2. CASE Dispose
  <2>1. generation' \in Ticket
    BY <1>2, FreshTicketType DEF Dispose
  <2>2. /\ disposed' = TRUE
        /\ UNCHANGED <<stored, policy, userId, state, inFlight, loads, writes>>
    BY <1>2 DEF Dispose, server
  <2> QED
    BY <2>1, <2>2, CoreFits
    DEF Core, SnapshotIsOfUser, FlagsTellTheTruth, WritesKeepTheirUser, CurrentLoadIsInFlight
<1>3. ASSUME NEW l \in Listener, Subscribe(l) PROVE Core'
  <2>1. CASE Load(state, userId, inFlight)
    BY <1>3, <2>1, LoadCore, SameWrites DEF Subscribe
  <2>2. CASE UNCHANGED <<state, generation, inFlight, loads>>
    BY <1>3, <2>2, CoreFits
    DEF Subscribe, server, Core, SnapshotIsOfUser, FlagsTellTheTruth, WritesKeepTheirUser, CurrentLoadIsInFlight
  <2> QED
    BY <1>3, <2>1, <2>2 DEF Subscribe
<1>4. ASSUME NEW l \in Listener, Unsubscribe(l) PROVE Core'
  BY <1>4, CoreFits
  DEF Unsubscribe, server, Core, SnapshotIsOfUser, FlagsTellTheTruth, WritesKeepTheirUser, CurrentLoadIsInFlight
<1>5. ASSUME NEW u \in Owner, SetUser(u) PROVE Core'
  <2> DEFINE blank == [state EXCEPT !.status = "loading", !.snapshot = Null, !.failed = FALSE]
  <2>1. state \in StateRecord
    BY CoreFits DEF Core
  <2>2. /\ blank \in StateRecord /\ blank.status = "loading"
        /\ blank.snapshot = Null /\ blank.failed = FALSE
    BY <2>1 DEF StateRecord
  <2>3. Fits(blank) /\ (blank.snapshot # Null => blank.snapshot.user = u)
    BY <2>2 DEF Fits
  <2>4. userId' = u /\ UNCHANGED <<stored, policy, disposed, writes>>
    BY <1>5 DEF SetUser, server
  <2>5. CASE disposed
    <3>1. /\ generation' = FreshTicket /\ Ticket \ InUse # {}
          /\ inFlight' = Null /\ state' = blank /\ loads' = loads
      BY <1>5, <2>5 DEF SetUser
    <3>2. SnapshotIsOfUser' /\ FlagsTellTheTruth' /\ CurrentLoadIsInFlight'
      BY <2>2, <2>4, <2>5, <3>1 DEF SnapshotIsOfUser, FlagsTellTheTruth, CurrentLoadIsInFlight
    <3> HIDE DEF blank
    <3> QED
      BY <2>2, <2>4, <3>1, <3>2, FreshTicketType, SameWrites, CoreFits DEF Core
  <2>6. CASE ~disposed
    <3>1. Load(blank, u, Null)
      BY <1>5, <2>6 DEF SetUser
    <3> HIDE DEF blank
    <3>2. /\ state' \in StateRecord
          /\ generation' \in Ticket
          /\ inFlight' \in Ticket \union {Null}
          /\ loads' \in [Ticket -> LoadRecord \union {Null}]
          /\ SnapshotIsOfUser'
          /\ FlagsTellTheTruth'
          /\ CurrentLoadIsInFlight'
      BY <2>2, <2>3, <2>4, <3>1, CoreFits, LoadKeepsFlags DEF IInv
    <3> QED
      BY <2>4, <3>2, SameWrites, CoreFits DEF Core
  <2> QED
    BY <2>5, <2>6, CoreFits DEF Core
<1> QED
  BY <1>1, <1>2, <1>3, <1>4, <1>5

LEMMA EndLoadCore ==
    ASSUME IInv, NEW t \in Ticket, loads[t] # Null, NEW next \in StateRecord,
           Fits(next), next.validating = FALSE,
           next.snapshot # Null => t # generation \/ disposed \/ next.snapshot.user = userId,
           EndLoad(t, next)
    PROVE  Core'
<1>1. /\ loads' = [loads EXCEPT ![t] = Null]
      /\ inFlight' = IF t = generation THEN Null ELSE inFlight
      /\ state' = IF t = generation /\ ~disposed THEN next ELSE state
      /\ UNCHANGED <<stored, policy, userId, generation, disposed, writes>>
  BY DEF EndLoad, server
<1>2. loads' \in [Ticket -> LoadRecord \union {Null}]
  BY <1>1, CoreFits DEF Core
<1>3. SnapshotIsOfUser'
  BY <1>1, CoreFits DEF SnapshotIsOfUser
<1>4. FlagsTellTheTruth'
  BY <1>1, CoreFits DEF FlagsTellTheTruth, Fits, Core
<1>5. CurrentLoadIsInFlight'
  BY <1>1, CoreFits DEF CurrentLoadIsInFlight, Core
<1> QED
  BY <1>1, <1>2, <1>3, <1>4, <1>5, SameWrites, CoreFits DEF Core

\* Showing another snapshot of the same user changes no flag.
LEMMA OtherSnapshot ==
    ASSUME IInv, state.snapshot # Null,
           NEW other \in Snapshot, other # Null, other.user = userId,
           state' = [state EXCEPT !.snapshot = other],
           UNCHANGED <<userId, generation, inFlight, disposed, loads>>
    PROVE  /\ state' \in StateRecord
           /\ SnapshotIsOfUser'
           /\ FlagsTellTheTruth'
           /\ CurrentLoadIsInFlight'
<1>1. /\ state' \in StateRecord
      /\ state'.snapshot = other
      /\ state'.status = state.status
      /\ state'.failed = state.failed
      /\ state'.validating = state.validating
  BY CoreFits DEF Core, StateRecord
<1>2. SnapshotIsOfUser'
  BY <1>1 DEF SnapshotIsOfUser
<1>3. FlagsTellTheTruth'
  BY <1>1 DEF IInv, FlagsTellTheTruth
<1>4. CurrentLoadIsInFlight'
  BY DEF IInv, CurrentLoadIsInFlight
<1> QED
  BY <1>1, <1>2, <1>3, <1>4

LEMMA NextCoreAnswers ==
    ASSUME IInv, NEW t \in Ticket, ServerReads(t) \/ LoadSucceeds(t) \/ LoadFails(t)
    PROVE  Core'
<1>0. /\ state \in StateRecord
      /\ loads \in [Ticket -> LoadRecord \union {Null}]
  BY CoreFits DEF Core
<1>1. CASE ServerReads(t)
  <2>1. /\ loads[t] \in LoadRecord /\ loads[t].user \in Owner
        /\ loads' = [loads EXCEPT ![t].answer = Resolve(loads[t].user)]
        /\ UNCHANGED <<stored, policy, userId, state, generation, inFlight, disposed, writes>>
    BY <1>0, <1>1 DEF ServerReads, server, LoadRecord
  <2>2. Resolve(loads[t].user) \in Resolution
    BY <2>1, ResolveType, CoreFits
  <2>3. /\ [loads[t] EXCEPT !.answer = Resolve(loads[t].user)] \in LoadRecord
        /\ [loads[t] EXCEPT !.answer = Resolve(loads[t].user)].user = loads[t].user
        /\ [loads[t] EXCEPT !.answer = Resolve(loads[t].user)] # Null
    BY <2>1, <2>2, NullAssumption DEF LoadRecord
  <2>4. loads' = [loads EXCEPT ![t] = [loads[t] EXCEPT !.answer = Resolve(loads[t].user)]]
    BY <2>1
  <2>5. loads' \in [Ticket -> LoadRecord \union {Null}]
    BY <1>0, <2>3, <2>4
  <2>6. \A i \in Ticket : loads[i] # Null => loads'[i] # Null /\ loads'[i].user = loads[i].user
    BY <1>0, <2>3, <2>4
  <2>7. FlagsTellTheTruth'
    BY <2>1, <2>6, CoreFits DEF FlagsTellTheTruth, Core
  <2>8. CurrentLoadIsInFlight'
    BY <1>0, <1>1, <2>1, <2>4, CoreFits DEF CurrentLoadIsInFlight, Core, ServerReads
  <2> QED
    BY <2>1, <2>5, <2>7, <2>8, SameWrites, CoreFits DEF Core, SnapshotIsOfUser
<1>2. CASE LoadSucceeds(t)
  <2> DEFINE shown == FromServer(loads[t].user, loads[t].answer)
             next == [status |-> "ready", snapshot |-> shown, failed |-> FALSE, validating |-> FALSE]
  <2>1. /\ loads[t] # Null /\ EndLoad(t, next)
        /\ loads[t].user \in Owner /\ loads[t].answer \in Resolution
    BY <1>0, <1>2 DEF LoadSucceeds, LoadRecord
  <2>2. shown \in Snapshot /\ shown # Null /\ shown.user = loads[t].user
    BY <2>1, FromServerType
  <2> HIDE DEF shown
  <2>3. /\ next \in StateRecord /\ Fits(next) /\ next.validating = FALSE
        /\ next.snapshot = shown
    BY <2>2 DEF StateRecord, Fits
  <2>4. t = generation /\ ~disposed => loads[t].user = userId
    BY <2>1, CoreFits, NullAssumption DEF FlagsTellTheTruth, CurrentLoadIsInFlight, Core
  <2> QED
    BY <2>1, <2>2, <2>3, <2>4, EndLoadCore
<1>3. CASE LoadFails(t)
  <2> DEFINE next == [state EXCEPT !.status = IF state.snapshot # Null THEN "ready" ELSE "error",
                                   !.failed = TRUE, !.validating = FALSE]
  <2>1. loads[t] # Null /\ EndLoad(t, next)
    BY <1>3 DEF LoadFails
  <2>2. /\ next \in StateRecord /\ Fits(next) /\ next.validating = FALSE
        /\ next.snapshot = state.snapshot
    BY <1>0 DEF StateRecord, Fits
  <2> HIDE DEF next
  <2> QED
    BY <2>1, <2>2, CoreFits, EndLoadCore
<1> QED
  BY <1>1, <1>2, <1>3

LEMMA NextCoreWrites ==
    ASSUME IInv,
           \/ \E w \in Writer, s \in Setting, v \in Value \union {Null} : BeginWrite(w, s, v)
           \/ \E w \in Writer : ServerWrites(w) \/ WriteSucceeds(w) \/ WriteFails(w) \/ LateWrite(w)
           \/ \E s \in Setting : PolicyChanges(s)
    PROVE  Core'
<1>0. /\ TypeOK /\ state \in StateRecord
      /\ writes \in [Writer -> WriteRecord \union {Null}]
      /\ stored \in [User -> [Setting -> Value \union {Null}]]
  BY CoreFits DEF Core
<1>1. ASSUME NEW w \in Writer, NEW s \in Setting, NEW v \in Value \union {Null}, BeginWrite(w, s, v)
      PROVE  Core'
  <2> DEFINE now == state.snapshot
             shows == v # Null /\ ~now.shown[s].enforced
             optimistic == With(now, FreshId, s, v)
             write == [user |-> userId, name |-> s, value |-> v, stage |-> "sent",
                       previous   |-> IF shows THEN now ELSE Null,
                       optimistic |-> IF shows THEN optimistic ELSE Null]
  <2>1. /\ now \in Snapshot /\ now # Null /\ userId \in User /\ FreshId \in Identity
        /\ now.user = userId
    <3>1. now \in Snapshot /\ now # Null
      BY <1>0, <1>1 DEF BeginWrite, StateRecord
    <3>2. userId \in User
      BY <1>1, CoreFits DEF BeginWrite, Core, Owner
    <3>3. FreshId \in Identity \ IdsInUse
      BY <1>1 DEF BeginWrite, FreshId
    <3> QED
      BY <3>1, <3>2, <3>3, CoreFits
  <2>2. shows => optimistic \in Snapshot /\ optimistic # Null /\ optimistic.user = userId
    BY <2>1, WithType
  <2>3. /\ writes' = [writes EXCEPT ![w] = write]
        /\ state' = IF shows THEN [state EXCEPT !.snapshot = optimistic] ELSE state
        /\ UNCHANGED <<stored, policy, userId, generation, inFlight, disposed, loads>>
    BY <1>1 DEF BeginWrite, server
  <2> HIDE DEF optimistic, now, shows
  <2>4. write \in WriteRecord
    BY <2>1, <2>2 DEF WriteRecord
  <2>5. writes' \in [Writer -> WriteRecord \union {Null}]
    BY <1>0, <2>3, <2>4
  <2>6. WritesKeepTheirUser'
    <3>1. write.optimistic # Null => /\ write.previous # Null
                                     /\ write.previous.user = write.optimistic.user
      BY <2>1, <2>2
    <3> QED
      BY <1>0, <2>3, <3>1 DEF IInv, WritesKeepTheirUser
  <2>7. /\ state' \in StateRecord
        /\ SnapshotIsOfUser' /\ FlagsTellTheTruth' /\ CurrentLoadIsInFlight'
    <3>1. CASE shows
      BY <2>1, <2>2, <2>3, <3>1, OtherSnapshot DEF now
    <3>2. CASE ~shows
      BY <2>3, <3>2, CoreFits
      DEF Core, SnapshotIsOfUser, FlagsTellTheTruth, CurrentLoadIsInFlight
    <3> QED
      BY <3>1, <3>2
  <2> QED
    BY <2>3, <2>5, <2>6, <2>7, CoreFits DEF Core
<1>2. ASSUME NEW w \in Writer, writes[w] # Null, Apply(w)
      PROVE  stored' \in [User -> [Setting -> Value \union {Null}]]
  BY <1>0, <1>2 DEF Apply, WriteRecord
<1>3. ASSUME NEW w \in Writer, ServerWrites(w) PROVE Core'
  <2>1. /\ writes[w] # Null /\ Apply(w)
        /\ writes' = [writes EXCEPT ![w].stage = "applied"]
        /\ UNCHANGED <<policy, userId, state, generation, inFlight, disposed, loads>>
    BY <1>3 DEF ServerWrites
  <2>2. writes' = [writes EXCEPT ![w] = [writes[w] EXCEPT !.stage = "applied"]]
    BY <2>1
  <2>3. writes' \in [Writer -> WriteRecord \union {Null}] /\ WritesKeepTheirUser'
    BY <2>1, <2>2, WriteMoves
  <2> QED
    BY <1>2, <2>1, <2>3, CoreFits DEF Core, SnapshotIsOfUser, FlagsTellTheTruth, CurrentLoadIsInFlight
<1>4. ASSUME NEW w \in Writer, WriteSucceeds(w) PROVE Core'
  <2>1. writes' \in [Writer -> WriteRecord \union {Null}] /\ WritesKeepTheirUser'
    BY <1>4, WriteMoves DEF WriteSucceeds
  <2> QED
    BY <1>4, <2>1, LoadCore DEF WriteSucceeds
<1>5. ASSUME NEW w \in Writer, WriteFails(w) PROVE Core'
  <2>1. /\ writes[w] # Null
        /\ \E left \in {Null} \union {[writes[w] EXCEPT !.stage = "abandoned"]} :
              writes' = [writes EXCEPT ![w] = left]
        /\ state' = RolledBack(w)
        /\ UNCHANGED <<stored, policy, userId, generation, inFlight, disposed, loads>>
    BY <1>5 DEF WriteFails, server
  <2>2. writes' \in [Writer -> WriteRecord \union {Null}] /\ WritesKeepTheirUser'
    BY <2>1, WriteMoves
  <2>3. CASE state' = state
    BY <2>1, <2>2, <2>3, CoreFits DEF Core, SnapshotIsOfUser, FlagsTellTheTruth, CurrentLoadIsInFlight
  <2>4. CASE /\ writes[w].optimistic # Null /\ state.snapshot = writes[w].optimistic
             /\ state' = [state EXCEPT !.snapshot = writes[w].previous]
    <3>1. /\ writes[w].previous \in Snapshot /\ writes[w].previous # Null
          /\ writes[w].previous.user = userId
      <4>1. writes[w] \in WriteRecord
        BY <1>0, <2>1
      <4> QED
        BY <2>1, <2>4, <4>1, CoreFits DEF IInv, WritesKeepTheirUser, WriteRecord
    <3>2. /\ state' \in StateRecord
          /\ SnapshotIsOfUser' /\ FlagsTellTheTruth' /\ CurrentLoadIsInFlight'
      BY <2>1, <2>4, <3>1, OtherSnapshot
    <3> QED
      BY <2>1, <2>2, <3>2, CoreFits DEF Core
  <2> QED
    BY <2>1, <2>3, <2>4 DEF RolledBack
<1>6. ASSUME NEW w \in Writer, LateWrite(w) PROVE Core'
  <2>1. writes' \in [Writer -> WriteRecord \union {Null}] /\ WritesKeepTheirUser'
    BY <1>6, WriteMoves DEF LateWrite
  <2>2. stored' \in [User -> [Setting -> Value \union {Null}]]
    BY <1>0, <1>2, <1>6 DEF LateWrite
  <2> QED
    BY <1>6, <2>1, <2>2, CoreFits DEF LateWrite, Core, SnapshotIsOfUser, FlagsTellTheTruth, CurrentLoadIsInFlight
<1>7. ASSUME NEW s \in Setting, PolicyChanges(s) PROVE Core'
  BY <1>7, SameWrites, CoreFits DEF PolicyChanges, Core, SnapshotIsOfUser, FlagsTellTheTruth, CurrentLoadIsInFlight
<1> QED
  BY <1>1, <1>3, <1>4, <1>5, <1>6, <1>7

\* The inductive invariant holds in every reachable state.
THEOREM InductiveInvariant == Spec => []IInv
<1>1. IInv /\ [Next]_vars => IInv'
  <2> SUFFICES ASSUME IInv, [Next]_vars PROVE IInv'
    OBVIOUS
  <2>1. Room'
    BY NextRoom
  <2>2. CASE Next
    <3>1. Core'
      BY <2>2, NextCoreLoads, NextCoreAnswers, NextCoreWrites DEF Next
    <3> QED
      BY <2>1, <3>1 DEF IInv, TypeOK, Core, Room, Timers
  <2>3. CASE UNCHANGED vars
    <3>1. Core'
      BY <2>3, CoreFits DEF vars, Core, SnapshotIsOfUser, FlagsTellTheTruth, WritesKeepTheirUser, CurrentLoadIsInFlight
    <3> QED
      BY <2>1, <3>1 DEF IInv, TypeOK, Core, Room, Timers
  <2> QED
    BY <2>2, <2>3
<1> QED
  BY <1>1, InitIInv, PTL DEF Spec

\* store.ts 145, 264-272: the store never shows one user's settings while it is
\* pointed at another, whatever comes back late.
THEOREM ShownIsOfTheUser == Spec => []SnapshotIsOfUser
<1>1. IInv => SnapshotIsOfUser
  BY DEF IInv
<1> QED
  BY <1>1, InductiveInvariant, PTL

\* store.ts 24-34: the spinner, the status and the load in flight agree.
THEOREM FlagsAreRight == Spec => []FlagsTellTheTruth
<1>1. IInv => FlagsTellTheTruth
  BY DEF IInv
<1> QED
  BY <1>1, InductiveInvariant, PTL

\* store.ts 242: one interval runs while somebody is subscribed and none
\* otherwise, when no callback is subscribed twice.
THEOREM NothingPollsAnEmptyRoom == Spec => []IntervalsAreOwned
<1>1. IInv => IntervalsAreOwned
  BY DEF IInv
<1> QED
  BY <1>1, InductiveInvariant, PTL
=============================================================================
