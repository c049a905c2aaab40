------------------------ MODULE ResolutionCacheProofs ------------------------
(***************************************************************************)
(* For any number of environments, keys and requests, any lifetimes with   *)
(* TTL <= IndexTTL, and with or without failures: an entry that no race    *)
(* and no failure has touched is tracked by its index, and if a write has  *)
(* made it stale that write's request is still going to drop it.           *)
(***************************************************************************)
EXTENDS ResolutionCache, TLAPS

\* Init satisfies the inductive invariant: there are no entries and no writers.
LEMMA InitIInv == Init => IInv
<1> SUFFICES ASSUME Init PROVE IInv
  OBVIOUS
<1> USE DEF Init
<1>1. (CHOOSE k \in Key : TRUE) \in Key
  <2>1. PICK e \in Env, q \in Query : TRUE
    BY NonEmptyAssumption
  <2>2. [env |-> e, query |-> q] \in Key
    BY DEF Key
  <2> QED
    BY <2>2
<1>2. (CHOOSE e \in Env : TRUE) \in Env
  BY NonEmptyAssumption
<1>3. TypeOK
  <2>1. rkey \in [Reader -> Key]
    BY <1>1
  <2>2. at \in [Writer -> Env]
    BY <1>2
  <2>3. 0 \in 0..TTL /\ 0 \in 0..IndexTTL
    BY TTLAssumption
  <2> QED
    BY <2>1, <2>2, <2>3 DEF TypeOK
<1>4. IndexCoversEntries /\ ObligationsMatchStage
  BY DEF IndexCoversEntries, ObligationsMatchStage
<1>5. IndexOutlivesEntries /\ StaleEntryIsOwed
  BY DEF IndexOutlivesEntries, StaleEntryIsOwed, Live
<1> QED
  BY <1>3, <1>4, <1>5 DEF IInv

\* Every step preserves the types.
LEMMA NextTypeOK == TypeOK /\ [Next]_vars => TypeOK'
<1> SUFFICES ASSUME TypeOK, [Next]_vars PROVE TypeOK'
  OBVIOUS
<1> USE DEF TypeOK, dbVars, redisVars, readerVars, writerVars
<1>1. ASSUME NEW k \in Key PROVE k.env \in Env
  BY DEF Key
<1>2. TTL \in 0..TTL /\ IndexTTL \in 0..IndexTTL /\ 0 \in 0..TTL /\ 0 \in 0..IndexTTL
  BY TTLAssumption
<1>3. ASSUME NEW E PROVE GivenUp(E) \subseteq Key
  BY DEF GivenUp, Live
<1>4. ASSUME NEW r \in Reader, ReaderStep(r) PROVE TypeOK'
  <2>1. CASE \E k \in Key : GetMiss(r, k)
    BY <2>1 DEF GetMiss
  <2>2. CASE ResolveForUser(r)
    BY <2>2, <1>1 DEF ResolveForUser
  <2>3. CASE Put(r)
    BY <2>3, <1>1, <1>2 DEF Put
  <2>4. CASE ReaderGivesUp(r)
    BY <2>4 DEF ReaderGivesUp
  <2> QED
    BY <1>4, <2>1, <2>2, <2>3, <2>4 DEF ReaderStep
<1>5. ASSUME NEW w \in Writer, WriterStep(w) PROVE TypeOK'
  <2>1. CASE \E e \in Env : WriteOne(w, e)
    BY <2>1 DEF WriteOne
  <2>2. CASE \E e \in Env : ReadIndex(w, e)
    BY <2>2 DEF ReadIndex
  <2>3. CASE \E e \in Env : ReadIndexFails(w, e)
    BY <2>3, <1>3 DEF ReadIndexFails, NextStage
  <2>4. CASE WriteAll(w)
    BY <2>4 DEF WriteAll
  <2>5. CASE ListEnvironments(w)
    BY <2>5 DEF ListEnvironments
  <2>6. CASE ListFails(w)
    BY <2>6, <1>3 DEF ListFails
  <2>7. CASE UnlinkEntries(w)
    BY <2>7, <1>2 DEF UnlinkEntries
  <2>8. CASE UnlinkEntriesFails(w)
    BY <2>8 DEF UnlinkEntriesFails
  <2>9. CASE UnlinkIndex(w)
    BY <2>9, <1>2, <1>3 DEF UnlinkIndex, NextStage
  <2>10. CASE UnlinkIndexFails(w)
    BY <2>10 DEF UnlinkIndexFails, NextStage
  <2>11. CASE WriterDies(w)
    BY <2>11, <1>3 DEF WriterDies
  <2> QED
    BY <1>5, <2>1, <2>2, <2>3, <2>4, <2>5, <2>6, <2>7, <2>8, <2>9, <2>10, <2>11
       DEF WriterStep
<1>6. CASE Tick
  <2>1. \A t \in 0..TTL : (IF t = 0 THEN 0 ELSE t - 1) \in 0..TTL
    BY TTLAssumption
  <2>2. \A t \in 0..IndexTTL : (IF t = 0 THEN 0 ELSE t - 1) \in 0..IndexTTL
    BY TTLAssumption
  <2> QED
    BY <1>6, <2>1, <2>2 DEF Tick
<1>7. CASE UNCHANGED vars
  BY <1>7 DEF vars
<1> QED
  BY <1>4, <1>5, <1>6, <1>7 DEF Next

\* A writer's obligations keep matching its stage.
LEMMA NextObligations ==
  TypeOK /\ ObligationsMatchStage /\ [Next]_vars => ObligationsMatchStage'
<1> SUFFICES ASSUME TypeOK, ObligationsMatchStage, [Next]_vars
             PROVE  ObligationsMatchStage'
  OBVIOUS
<1> USE DEF TypeOK, ObligationsMatchStage, dbVars, redisVars, readerVars, writerVars
<1>1. ASSUME NEW r \in Reader, ReaderStep(r) PROVE UNCHANGED writerVars
  BY <1>1 DEF ReaderStep, GetMiss, ResolveForUser, Put, ReaderGivesUp
<1>2. ASSUME NEW w \in Writer, WriterStep(w) PROVE ObligationsMatchStage'
  <2>1. CASE \E e \in Env : WriteOne(w, e)
    BY <2>1 DEF WriteOne
  <2>2. CASE \E e \in Env : ReadIndex(w, e)
    BY <2>2 DEF ReadIndex
  <2>3. CASE \E e \in Env : ReadIndexFails(w, e)
    BY <2>3 DEF ReadIndexFails, NextStage
  <2>4. CASE WriteAll(w)
    BY <2>4 DEF WriteAll
  <2>5. CASE ListEnvironments(w)
    BY <2>5 DEF ListEnvironments
  <2>6. CASE ListFails(w)
    BY <2>6 DEF ListFails
  <2>7. CASE UnlinkEntries(w)
    BY <2>7 DEF UnlinkEntries
  <2>8. CASE UnlinkEntriesFails(w)
    BY <2>8 DEF UnlinkEntriesFails
  <2>9. CASE UnlinkIndex(w)
    BY <2>9 DEF UnlinkIndex, NextStage
  <2>10. CASE UnlinkIndexFails(w)
    BY <2>10 DEF UnlinkIndexFails, NextStage
  <2>11. CASE WriterDies(w)
    BY <2>11 DEF WriterDies
  <2> QED
    BY <1>2, <2>1, <2>2, <2>3, <2>4, <2>5, <2>6, <2>7, <2>8, <2>9, <2>10, <2>11
       DEF WriterStep
<1>3. CASE Tick
  BY <1>3 DEF Tick
<1>4. CASE UNCHANGED vars
  BY <1>4 DEF vars
<1> QED
  BY <1>1, <1>2, <1>3, <1>4 DEF Next

\* An index keeps covering the entries it tracks, whatever the clock does.
LEMMA NextIndexCovers ==
  TypeOK /\ IndexCoversEntries /\ [Next]_vars => IndexCoversEntries'
<1> SUFFICES ASSUME TypeOK, IndexCoversEntries, [Next]_vars,
                    NEW e \in Env, NEW k \in index'[e]
             PROVE  k.env = e /\ life'[k] <= indexLife'[e]
  BY DEF IndexCoversEntries
<1> USE DEF TypeOK, IndexCoversEntries, dbVars, redisVars, readerVars, writerVars
<1>0. /\ \A x \in Key : life[x] \in Nat /\ life[x] <= TTL
      /\ \A x \in Env : indexLife[x] \in Nat /\ indexLife[x] <= IndexTTL
      /\ TTL \in Nat /\ IndexTTL \in Nat /\ TTL <= IndexTTL
      /\ \A x \in Env : index[x] \subseteq Key
  BY TTLAssumption
<1>1. CASE UNCHANGED redisVars
  BY <1>1
<1>2. ASSUME NEW r \in Reader, Put(r)
      PROVE  k.env = e /\ life'[k] <= indexLife'[e]
  <2>1. rkey[r] \in Key /\ rkey[r].env \in Env
    BY DEF Key
  <2>2. CASE e = rkey[r].env
    <3>1. indexLife'[e] = IndexTTL /\ index'[e] = index[e] \union {rkey[r]}
      BY <1>2, <2>1, <2>2 DEF Put
    <3>2. life' = [life EXCEPT ![rkey[r]] = TTL]
      BY <1>2 DEF Put
    <3> QED
      BY <1>0, <2>1, <2>2, <3>1, <3>2
  <2>3. CASE e # rkey[r].env
    <3>1. indexLife'[e] = indexLife[e] /\ index'[e] = index[e]
      BY <1>2, <2>1, <2>3 DEF Put
    <3>2. k # rkey[r] /\ k \in Key
      BY <1>0, <2>3, <3>1
    <3> QED
      BY <1>2, <3>1, <3>2 DEF Put
  <2> QED
    BY <2>2, <2>3
<1>3. ASSUME NEW w \in Writer, UnlinkEntries(w)
      PROVE  k.env = e /\ life'[k] <= indexLife'[e]
  BY <1>0, <1>3 DEF UnlinkEntries
<1>4. ASSUME NEW w \in Writer, UnlinkIndex(w)
      PROVE  k.env = e /\ life'[k] <= indexLife'[e]
  BY <1>0, <1>4 DEF UnlinkIndex
<1>5. CASE Tick
  <2>1. indexLife[e] > 1 /\ k \in index[e]
    BY <1>0, <1>5 DEF Tick
  <2>2. life[k] <= indexLife[e] /\ k \in Key /\ k.env = e
    BY <1>0, <2>1
  <2>3. life'[k] = IF life[k] = 0 THEN 0 ELSE life[k] - 1
    BY <1>5, <2>2 DEF Tick
  <2>4. indexLife'[e] = indexLife[e] - 1
    BY <1>5, <2>1 DEF Tick
  <2> QED
    BY <1>0, <2>1, <2>2, <2>3, <2>4
<1>6. ASSUME NEW r \in Reader, ReaderStep(r), ~Put(r) PROVE UNCHANGED redisVars
  BY <1>6 DEF ReaderStep, GetMiss, ResolveForUser, ReaderGivesUp
<1>7. ASSUME NEW w \in Writer, WriterStep(w), ~UnlinkEntries(w), ~UnlinkIndex(w)
      PROVE  UNCHANGED redisVars
  BY <1>7 DEF WriterStep, WriteOne, WriteAll, ListEnvironments, ListFails, ReadIndex,
              ReadIndexFails, UnlinkEntriesFails, UnlinkIndexFails, WriterDies
<1>8. CASE UNCHANGED vars
  BY <1>1, <1>8 DEF vars
<1> QED
  BY <1>1, <1>2, <1>3, <1>4, <1>5, <1>6, <1>7, <1>8 DEF Next

\* No step takes an entry out of reach of its index without recording it.
LEMMA NextOutlives ==
  TypeOK /\ IndexCoversEntries /\ IndexOutlivesEntries /\ [Next]_vars
    => IndexOutlivesEntries'
<1> SUFFICES ASSUME TypeOK, IndexCoversEntries, IndexOutlivesEntries, [Next]_vars,
                    NEW k \in Key, life'[k] > 0, k \notin beyond'
             PROVE  k \in index'[k.env]
  BY DEF IndexOutlivesEntries, Live
<1> USE DEF TypeOK, dbVars, redisVars, readerVars, writerVars
<1>0. k.env \in Env /\ life[k] \in Nat /\ indexLife[k.env] \in Nat
  <2>1. k.env \in Env
    BY DEF Key
  <2> QED
    BY <2>1, TTLAssumption
<1>1. life[k] > 0 /\ k \notin beyond => k \in index[k.env]
  BY DEF IndexOutlivesEntries, Live
<1>2. CASE UNCHANGED redisVars /\ beyond \subseteq beyond'
  BY <1>1, <1>2
<1>3. ASSUME NEW r \in Reader, Put(r) PROVE k \in index'[k.env]
  BY <1>0, <1>1, <1>3 DEF Put
<1>4. ASSUME NEW w \in Writer, UnlinkEntries(w) PROVE k \in index'[k.env]
  BY <1>0, <1>1, <1>4 DEF UnlinkEntries
<1>5. ASSUME NEW w \in Writer, UnlinkIndex(w) PROVE k \in index'[k.env]
  BY <1>0, <1>1, <1>5 DEF UnlinkIndex, GivenUp, Live
<1>6. CASE Tick
  <2>1. life[k] > 1
    BY <1>0, <1>6 DEF Tick
  <2>2. k \notin beyond
    BY <1>6, <2>1 DEF Tick
  <2>3. k \in index[k.env]
    BY <1>0, <1>1, <2>1, <2>2
  <2>4. indexLife[k.env] > 1
    BY <1>0, <2>1, <2>3 DEF IndexCoversEntries
  <2> QED
    BY <1>0, <1>6, <2>3, <2>4 DEF Tick
<1>7. ASSUME NEW r \in Reader, ReaderStep(r), ~Put(r)
      PROVE  UNCHANGED redisVars /\ beyond \subseteq beyond'
  BY <1>7 DEF ReaderStep, GetMiss, ResolveForUser, ReaderGivesUp
<1>8. ASSUME NEW w \in Writer, WriterStep(w), ~UnlinkEntries(w), ~UnlinkIndex(w)
      PROVE  UNCHANGED redisVars /\ beyond \subseteq beyond'
  BY <1>8 DEF WriterStep, WriteOne, WriteAll, ListEnvironments, ListFails, ReadIndex,
              ReadIndexFails, UnlinkEntriesFails, UnlinkIndexFails, WriterDies
<1>9. CASE UNCHANGED vars
  BY <1>2, <1>9 DEF vars
<1> QED
  BY <1>2, <1>3, <1>4, <1>5, <1>6, <1>7, <1>8, <1>9 DEF Next

\* A step that makes an entry stale, or that ends an obligation to drop a stale
\* entry, leaves an obligation, removes the entry, or records it in beyond.
LEMMA NextOwed ==
  IInv /\ [Next]_vars => StaleEntryIsOwed'
<1> SUFFICES ASSUME IInv, [Next]_vars,
                    NEW k \in Key, life'[k] > 0, k \notin beyond',
                    payload'[k] # db'[k.env]
             PROVE  Owed(k)'
  BY DEF StaleEntryIsOwed, Live, Stale
<1> USE DEF TypeOK, dbVars, redisVars, readerVars, writerVars, Owed
<1>0. TypeOK /\ ObligationsMatchStage
  BY DEF IInv
<1>1. k.env \in Env /\ life[k] \in Nat
  <2>1. k.env \in Env
    BY DEF Key
  <2> QED
    BY <1>0, <2>1, TTLAssumption
<1>2. life[k] > 0 /\ k \notin beyond => k \in index[k.env]
  BY DEF IInv, IndexOutlivesEntries, Live
<1>3. life[k] > 0 /\ k \notin beyond /\ payload[k] # db[k.env] => Owed(k)
  BY DEF IInv, StaleEntryIsOwed, Live, Stale
\* A step that leaves the entry, the database and every obligation alone.
<1>4. CASE /\ life[k] > 0 /\ k \notin beyond /\ payload[k] = payload'[k]
           /\ UNCHANGED <<db, todo, seen>>
  BY <1>3, <1>4
<1>5. ASSUME NEW r \in Reader, ReaderStep(r) PROVE Owed(k)'
  <2>1. CASE ~Put(r)
    BY <1>4, <1>5, <2>1 DEF ReaderStep, GetMiss, ResolveForUser, ReaderGivesUp
  <2>2. CASE Put(r) /\ k # rkey[r]
    <3>1. life'[k] = life[k] /\ payload'[k] = payload[k] /\ k \notin beyond
      BY <1>0, <2>2 DEF Put
    <3>2. UNCHANGED <<db, todo, seen>>
      BY <2>2 DEF Put
    <3> QED
      BY <1>4, <3>1, <3>2
  <2>3. CASE Put(r) /\ k = rkey[r]
    <3>1. payload'[k] = rver[r] /\ db' = db
      BY <1>0, <2>3 DEF Put
    <3>2. rver[r] # db[k.env]
      BY <3>1
    <3> QED
      BY <2>3, <3>2 DEF Put
  <2> QED
    BY <2>1, <2>2, <2>3
<1>6. ASSUME NEW w \in Writer, WriterStep(w) PROVE Owed(k)'
  \* What the other writers owe is not touched.
  <2>1. \A v \in Writer \ {w} : todo'[v] = todo[v] /\ seen'[v] = seen[v]
    BY <1>0, <1>6 DEF WriterStep, WriteOne, ReadIndex, ReadIndexFails, WriteAll,
       ListEnvironments, ListFails, UnlinkEntries, UnlinkEntriesFails, UnlinkIndex,
       UnlinkIndexFails, WriterDies
  <2>2. CASE \E e \in Env : WriteOne(w, e)
    <3>1. PICK e \in Env : WriteOne(w, e)
      BY <2>2
    <3>2. todo[w] = {} /\ seen[w] = {} /\ todo'[w] = {e} /\ seen' = seen
      BY <1>0, <3>1 DEF WriteOne, ObligationsMatchStage
    <3>3. CASE k.env = e
      BY <3>2, <3>3
    <3>4. CASE k.env # e
      <4>1. db'[k.env] = db[k.env] /\ payload' = payload /\ life' = life /\ beyond' = beyond
        BY <1>0, <1>1, <3>1, <3>4 DEF WriteOne
      <4>2. PICK v \in Writer : k.env \in todo[v] \/ k \in seen[v]
        BY <1>3, <4>1
      <4> QED
        BY <2>1, <3>2, <4>2
    <3> QED
      BY <3>3, <3>4
  <2>3. CASE \E e \in Env : ReadIndex(w, e)
    <3>1. PICK e \in Env : ReadIndex(w, e)
      BY <2>3
    <3>2. /\ UNCHANGED <<db, payload, life, beyond>>
          /\ todo'[w] = todo[w] \ {e} /\ seen'[w] = index[e] /\ seen[w] = {}
      BY <1>0, <3>1 DEF ReadIndex, ObligationsMatchStage
    <3>3. PICK v \in Writer : k.env \in todo[v] \/ k \in seen[v]
      BY <1>3, <3>2
    <3>4. CASE v = w /\ k.env = e
      BY <1>2, <3>2, <3>4
    <3>5. CASE v # w \/ k.env # e
      BY <2>1, <3>2, <3>3, <3>5
    <3> QED
      BY <3>4, <3>5
  <2>4. CASE \E e \in Env : ReadIndexFails(w, e)
    <3>1. PICK e \in Env : ReadIndexFails(w, e)
      BY <2>4
    <3>2. /\ UNCHANGED <<db, payload, life>> /\ k \notin beyond /\ k.env # e
          /\ todo'[w] = todo[w] \ {e} /\ seen' = seen
      BY <1>0, <3>1 DEF ReadIndexFails, GivenUp, Live
    <3>3. PICK v \in Writer : k.env \in todo[v] \/ k \in seen[v]
      BY <1>3, <3>2
    <3> QED
      BY <2>1, <3>2, <3>3
  <2>5. CASE WriteAll(w)
    BY <1>0, <1>1, <2>5 DEF WriteAll
  <2>6. CASE ListEnvironments(w) \/ UnlinkIndexFails(w)
    BY <1>4, <2>6 DEF ListEnvironments, UnlinkIndexFails
  <2>7. CASE ListFails(w)
    <3>1. /\ UNCHANGED <<db, payload, life>> /\ k \notin beyond /\ k.env \notin todo[w]
          /\ seen' = seen
      BY <1>0, <2>7 DEF ListFails, GivenUp, Live
    <3>2. PICK v \in Writer : k.env \in todo[v] \/ k \in seen[v]
      BY <1>3, <3>1
    <3> QED
      BY <2>1, <3>1, <3>2
  <2>8. CASE UnlinkEntries(w)
    <3>1. k \notin seen[w] /\ life'[k] = life[k] /\ payload'[k] = payload[k]
      BY <1>0, <2>8 DEF UnlinkEntries
    <3>2. UNCHANGED <<db, todo>> /\ k \notin beyond
      BY <2>8, <3>1 DEF UnlinkEntries
    <3>3. PICK v \in Writer : k.env \in todo[v] \/ k \in seen[v]
      BY <1>3, <3>1, <3>2
    <3> QED
      BY <2>1, <3>1, <3>2, <3>3
  <2>9. CASE UnlinkEntriesFails(w)
    <3>1. /\ UNCHANGED <<db, payload, life, todo>> /\ k \notin beyond /\ k \notin seen[w]
      BY <2>9 DEF UnlinkEntriesFails, Live
    <3>2. PICK v \in Writer : k.env \in todo[v] \/ k \in seen[v]
      BY <1>3, <3>1
    <3> QED
      BY <2>1, <3>1, <3>2
  <2>10. CASE UnlinkIndex(w)
    BY <1>4, <2>10 DEF UnlinkIndex
  <2>11. CASE WriterDies(w)
    <3>1. /\ UNCHANGED <<db, payload, life>> /\ k \notin beyond
          /\ k \notin seen[w] /\ k.env \notin todo[w]
      BY <2>11 DEF WriterDies, GivenUp, Live
    <3>2. PICK v \in Writer : k.env \in todo[v] \/ k \in seen[v]
      BY <1>3, <3>1
    <3> QED
      BY <2>1, <3>1, <3>2
  <2> QED
    BY <1>6, <2>2, <2>3, <2>4, <2>5, <2>6, <2>7, <2>8, <2>9, <2>10, <2>11 DEF WriterStep
<1>7. CASE Tick
  <2>1. life[k] > 1 /\ payload'[k] = payload[k]
    BY <1>0, <1>1, <1>7 DEF Tick
  <2>2. k \notin beyond /\ UNCHANGED <<db, todo, seen>>
    BY <1>7, <2>1 DEF Tick
  <2> QED
    BY <1>1, <1>4, <2>1, <2>2
<1>8. CASE UNCHANGED vars
  BY <1>4, <1>8 DEF vars
<1> QED
  BY <1>5, <1>6, <1>7, <1>8 DEF Next

\* The inductive invariant holds in every reachable state.
THEOREM InductiveInvariant == Spec => []IInv
<1>1. IInv /\ [Next]_vars => IInv'
  BY NextTypeOK, NextObligations, NextIndexCovers, NextOutlives, NextOwed DEF IInv
<1> QED
  BY InitIInv, <1>1, PTL DEF Spec

\* Types: every stage, key and lifetime stays in its range; in particular no
\* entry lives longer than TTL.
THEOREM TypeCorrect == Spec => []TypeOK
<1>1. IInv => TypeOK
  BY DEF IInv
<1> QED
  BY InductiveInvariant, <1>1, PTL

\* The index outlives its entries (cache.go 110-111).
THEOREM IndexTracksEntries == Spec => []IndexOutlivesEntries
<1>1. IInv => IndexOutlivesEntries
  BY DEF IInv
<1> QED
  BY InductiveInvariant, <1>1, PTL

\* A stale entry is owed an invalidation (cache.go 28-29).
THEOREM StaleEntriesAreOwed == Spec => []StaleEntryIsOwed
<1>1. IInv => StaleEntryIsOwed
  BY DEF IInv
<1> QED
  BY InductiveInvariant, <1>1, PTL

\* When no write is in flight every entry invalidation could reach is fresh.
THEOREM QuietCache == Spec => []QuietCacheIsFresh
<1>1. IInv => QuietCacheIsFresh
  BY DEF IInv, QuietCacheIsFresh, StaleEntryIsOwed, ObligationsMatchStage, Owed
<1> QED
  BY InductiveInvariant, <1>1, PTL
=============================================================================
