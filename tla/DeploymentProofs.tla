---------------------------- MODULE DeploymentProofs ----------------------------
(***************************************************************************)
(* How a version gets out and how it starts: Release, with the registry's  *)
(* script, for any registry, sources and versions, and Boot, for any       *)
(* number of instances, migrations and stops.                              *)
(*                                                                         *)
(* RegistryIInv says how the worklist of closure, the problems found and   *)
(* the files written stand after each turn of their loops, SetSoFar which  *)
(* pins a set has moved.  BootIInv says who holds the migration lock.      *)
(***************************************************************************)
EXTENDS Release, Boot, FiniteSetTheorems, SequenceTheorems, TLAPS

\* Last: among finitely many positions one is behind the others.
LEMMA LastIsLast ==
    ASSUME NEW n \in Nat, NEW found \in SUBSET (1..n), found # {}
    PROVE  Last(found) \in found /\ \A j \in found : j <= Last(found)
<1> DEFINE From(i) == {j \in found : i <= j}
           F == {From(i) : i \in found}
<1>0. \A i \in found : i \in Nat
  OBVIOUS
<1>1. IsFiniteSet(found)
  <2>1. IsFiniteSet(1..n) /\ found \subseteq 1..n
    BY FS_Interval
  <2> QED
    BY <2>1, FS_Subset, Zenon
<1>2. F # {} /\ F \subseteq FiniteSubsetsOf(found)
  <2>1. \A T \in SUBSET found : IsFiniteSet(T)
    BY <1>1, FS_Subset
  <2> QED
    BY <2>1 DEF FiniteSubsetsOf
<1>3. IsWellFoundedOn(StrictSubsetOrdering(found), FiniteSubsetsOf(found))
  BY FS_StrictSubsetOrderingWellFounded
<1>4. PICK U \in F : \A W \in F : <<W, U>> \notin StrictSubsetOrdering(found)
  <2> HIDE DEF F
  <2> QED
    BY <1>2, <1>3, WFMin
<1>5. PICK i \in found : U = From(i)
  OBVIOUS
<1>6. ASSUME NEW j \in found, ~(j <= i) PROVE FALSE
  <2>1. From(j) \subseteq From(i) /\ i \in From(i) /\ i \notin From(j)
    <3>1. i \in Nat /\ j \in Nat
      BY <1>0
    <3>2. \A k \in found : j <= k => i <= k
      BY <1>0, <3>1, <1>6
    <3>3. i <= i
      BY <3>1
    <3> QED
      BY <3>2, <3>3, <1>6, Zenon
  <2>2. <<From(j), U>> \in StrictSubsetOrdering(found)
    BY <1>5, <2>1 DEF StrictSubsetOrdering
  <2> QED
    BY <1>4, <2>2
<1> QED
  BY <1>6 DEF Last

\* byName finds the last entry of a name.
LEMMA NameFound ==
    ASSUME RegistryTypeOK, NEW name \in Names
    PROVE  \E i \in DOMAIN manifest :
               /\ byName(name) = manifest[i] /\ manifest[i].name = name
               /\ \A j \in DOMAIN manifest : manifest[j].name = name => j <= i
<1> DEFINE found == {i \in DOMAIN manifest : manifest[i].name = name}
<1>1. DOMAIN manifest = 1..Len(manifest) /\ Len(manifest) \in Nat
  BY LenProperties DEF RegistryTypeOK
<1>2. found \in SUBSET (1..Len(manifest)) /\ found # {}
  BY <1>1 DEF Names
<1>3. Last(found) \in found /\ \A j \in found : j <= Last(found)
  BY <1>1, <1>2, LastIsLast
<1> QED
  BY <1>3 DEF byName

LEMMA EntryTypes ==
    ASSUME RegistryTypeOK
    PROVE  /\ DOMAIN manifest = 1..Len(manifest) /\ Len(manifest) \in Nat \ {0}
           /\ \A i \in DOMAIN manifest : manifest[i] \in Entry
           /\ \A e \in Entry : e.name \in Item /\ e.deps \subseteq Item /\ e.tags \subseteq Tag
           /\ \A e \in Entry : DOMAIN e.files \subseteq File /\ e.sdk \in Version \union {None}
           /\ Names \subseteq Item
           /\ \A k \in Names : byName(k) \in Entry /\ byName(k).name = k
<1>1. /\ DOMAIN manifest = 1..Len(manifest) /\ Len(manifest) \in Nat \ {0}
      /\ \A i \in DOMAIN manifest : manifest[i] \in Entry
  BY LenProperties, ElementOfSeq DEF RegistryTypeOK
<1>2. \A e \in Entry : e.name \in Item /\ e.deps \subseteq Item /\ e.tags \subseteq Tag
  BY DEF Entry
<1>3. \A e \in Entry : DOMAIN e.files \subseteq File /\ e.sdk \in Version \union {None}
  BY DEF Entry
<1>4. Names \subseteq Item
  BY <1>1, <1>2 DEF Names
<1>5. \A k \in Names : byName(k) \in Entry /\ byName(k).name = k
  BY <1>1, NameFound
<1> QED
  BY <1>1, <1>2, <1>3, <1>4, <1>5

\* owner finds an entry that ships the file.
LEMMA OwnerShips ==
    ASSUME RegistryTypeOK, NEW x \in Shipped
    PROVE  \E i \in DOMAIN manifest : owner(x) = manifest[i].name /\ x \in DOMAIN manifest[i].files
<1> DEFINE found == {i \in DOMAIN manifest : x \in DOMAIN manifest[i].files}
<1>1. found \in SUBSET (1..Len(manifest)) /\ found # {}
  BY EntryTypes DEF Shipped
<1>2. Last(found) \in found
  BY EntryTypes, <1>1, LastIsLast
<1> QED
  BY <1>2 DEF owner

\* What an item leads to is closed under dependencies, and the least such set.
LEMMA ReachedIsClosed ==
    ASSUME RegistryTypeOK, NEW i \in Item
    PROVE  /\ i \in Reached(i) /\ Reached(i) \subseteq Item
           /\ \A k \in Installs(i) : k \in Item /\ byName(k).deps \subseteq Reached(i)
           /\ \A S \in SUBSET Item : i \in S /\ Closed(S) => Reached(i) \subseteq S
<1>1. i \in Reached(i) /\ Reached(i) \subseteq Item
  BY DEF Reached
<1>2. \A S \in SUBSET Item : i \in S /\ Closed(S) => Reached(i) \subseteq S
  BY DEF Reached
<1>3. ASSUME NEW k \in Installs(i), NEW d \in byName(k).deps PROVE d \in Reached(i)
  <2>1. k \in Reached(i) /\ k \in Names /\ d \in Item
    BY EntryTypes DEF Installs
  <2>2. ASSUME NEW S \in SUBSET Item, i \in S, Closed(S) PROVE d \in S
    BY <1>2, <2>1, <2>2, <1>3 DEF Closed
  <2> QED
    BY <2>1, <2>2 DEF Reached
<1> QED
  BY <1>1, <1>2, <1>3 DEF Installs

LEMMA ReachedInReached ==
    ASSUME RegistryTypeOK, NEW i \in Item, NEW j \in Reached(i)
    PROVE  Reached(j) \subseteq Reached(i) /\ Installs(j) \subseteq Installs(i)
<1>1. j \in Item /\ Reached(i) \in SUBSET Item /\ Closed(Reached(i))
  BY ReachedIsClosed DEF Closed, Installs
<1> QED
  BY <1>1, ReachedIsClosed DEF Installs

-----------------------------------------------------------------------------
(* The worklist.                                                            *)

\* Taking the last of the worklist leaves the others.
LEMMA TakeLast ==
    ASSUME NEW S, NEW s \in Seq(S), s # <<>>
    PROVE  LET rest == SubSeq(s, 1, Len(s) - 1) IN
           /\ rest \in Seq(S) /\ s[Len(s)] \in S
           /\ {s[n] : n \in DOMAIN s} = {rest[n] : n \in DOMAIN rest} \union {s[Len(s)]}
<1> DEFINE rest == SubSeq(s, 1, Len(s) - 1)
<1>1. Len(s) \in Nat /\ Len(s) # 0 /\ DOMAIN s = 1..Len(s) /\ \A n \in 1..Len(s) : s[n] \in S
  BY LenProperties, ElementOfSeq, EmptySeq
<1>2. /\ rest \in Seq(S) /\ Len(rest) = Len(s) - 1
      /\ \A n \in 1..(Len(s) - 1) : rest[n] = s[n]
  <2>1. \A n \in 1..(Len(s) - 1) : s[n] \in S
    BY <1>1
  <2> QED
    BY <1>1, <2>1, SubSeqProperties
<1>3. DOMAIN rest = 1..(Len(s) - 1)
  BY <1>2, LenProperties
<1> HIDE DEF rest
<1>4. ASSUME NEW n \in 1..Len(s)
      PROVE  s[n] \in {rest[m] : m \in DOMAIN rest} \union {s[Len(s)]}
  <2>1. n = Len(s) \/ n \in 1..(Len(s) - 1)
    <3>1. \A len \in Nat : \A m \in 1..len : m = len \/ m \in 1..(len - 1)
      OBVIOUS
    <3> QED
      BY <1>1, <3>1
  <2> QED
    BY <1>2, <1>3, <2>1
<1>5. {s[n] : n \in DOMAIN s} = {rest[n] : n \in DOMAIN rest} \union {s[Len(s)]}
  <2>1. Len(s) \in DOMAIN s /\ \A n \in 1..(Len(s) - 1) : n \in DOMAIN s
    BY <1>1
  <2> QED
    BY <1>1, <1>2, <1>3, <1>4, <2>1
<1> QED
  BY <1>1, <1>2, <1>5 DEF rest

\* Pushing a finite set puts all of it behind the others.
LEMMA PushAll ==
    ASSUME NEW S, NEW s \in Seq(S), NEW T \in SUBSET S, IsFiniteSet(T), NEW t \in Orders(T)
    PROVE  /\ s \o t \in Seq(S)
           /\ {(s \o t)[n] : n \in DOMAIN (s \o t)} = {s[n] : n \in DOMAIN s} \union T
<1>1. Cardinality(T) \in Nat
  BY FS_CardinalityType
<1>2. t \in [1..Cardinality(T) -> T] /\ {t[n] : n \in DOMAIN t} = T
  BY DEF Orders
<1>3. t \in Seq(S) /\ Len(t) \in Nat /\ DOMAIN t = 1..Len(t)
  <2>1. t \in [1..Cardinality(T) -> S]
    BY <1>2
  <2>2. t \in Seq(S)
    BY <1>1, <2>1, SeqDef
  <2> QED
    BY <2>2, LenProperties
<1>4. DOMAIN s = 1..Len(s) /\ Len(s) \in Nat
  BY LenProperties
<1>5. /\ s \o t \in Seq(S) /\ Len(s \o t) = Len(s) + Len(t)
      /\ \A n \in 1..(Len(s) + Len(t)) :
             (s \o t)[n] = IF n <= Len(s) THEN s[n] ELSE t[n - Len(s)]
  BY <1>3, ConcatProperties
<1>6. DOMAIN (s \o t) = 1..(Len(s) + Len(t))
  BY <1>5, LenProperties
<1>7. \A n \in 1..Len(s) : n \in DOMAIN (s \o t) /\ (s \o t)[n] = s[n]
  BY <1>3, <1>4, <1>5, <1>6
<1>8. \A n \in 1..Len(t) : Len(s) + n \in DOMAIN (s \o t) /\ (s \o t)[Len(s) + n] = t[n]
  BY <1>3, <1>4, <1>5, <1>6
<1>9. ASSUME NEW n \in DOMAIN (s \o t)
      PROVE  \/ n \in 1..Len(s) /\ (s \o t)[n] = s[n]
             \/ n - Len(s) \in 1..Len(t) /\ (s \o t)[n] = t[n - Len(s)]
  BY <1>3, <1>4, <1>5, <1>6
<1>10. {(s \o t)[n] : n \in DOMAIN (s \o t)} = {s[n] : n \in DOMAIN s} \union {t[n] : n \in DOMAIN t}
  BY <1>3, <1>4, <1>7, <1>8, <1>9
<1> QED
  BY <1>2, <1>5, <1>10

\* A closure that has run out of work holds what the entry may rely on.
LEMMA ClosureIsDeclared ==
    ASSUME RegistryTypeOK, ClosureSoFar, phase = "closing", queue = <<>>
    PROVE  seen = Declared(manifest[at].name)
<1> DEFINE root == manifest[at].name
           S == seen \ Tag
<1>1. Waiting = {}
  BY DEF Waiting
<1>2. /\ at \in DOMAIN manifest /\ root \in Item
      /\ root \in seen /\ S \subseteq Reached(root)
      /\ \A x \in seen \intersect Tag : \E k \in Installs(root) : x \in byName(k).tags
      /\ \A k \in seen \intersect Names : byName(k).deps \subseteq seen /\ byName(k).tags \subseteq seen
  BY <1>1, EntryTypes DEF ClosureSoFar
<1>3. S \in SUBSET Item /\ root \in S /\ Closed(S)
  BY <1>2, EntryTypes, NamesAssumption DEF RegistryTypeOK, Closed
<1>4. Reached(root) = S
  BY <1>2, <1>3, ReachedIsClosed
<1>5. ASSUME NEW k \in Installs(root) PROVE byName(k).tags \subseteq seen
  BY <1>2, <1>4 DEF Installs
<1> QED
  BY <1>2, <1>4, <1>5 DEF Declared

\* A turn of the loop keeps what it has seen and what is left in step.
LEMMA PopKeepsClosure ==
    ASSUME RegistryTypeOK, ClosureSoFar, Pop
    PROVE  queue' \in Seq(Item) /\ seen' \subseteq Item \union Tag /\ ClosureSoFar'
<1> DEFINE root == manifest[at].name
           popped == queue[Len(queue)]
           rest == SubSeq(queue, 1, Len(queue) - 1)
           left == {rest[n] : n \in DOMAIN rest}
<1>1. /\ phase = "closing" /\ phase' = phase /\ at' = at /\ manifest' = manifest
      /\ queue \in Seq(Item) /\ queue # <<>>
  BY DEF Pop, inputs, RegistryTypeOK
<1>2. rest \in Seq(Item) /\ popped \in Item /\ Waiting = left \union {popped}
  BY <1>1, TakeLast DEF Waiting
<1>3. /\ at \in DOMAIN manifest /\ root \in Item
      /\ root \in seen \union Waiting
      /\ Waiting \union (seen \ Tag) \subseteq Reached(root)
      /\ \A x \in seen \intersect Tag : \E k \in Installs(root) : x \in byName(k).tags
      /\ \A k \in seen \intersect Names :
             byName(k).deps \subseteq seen \union Waiting /\ byName(k).tags \subseteq seen
  BY <1>1, EntryTypes DEF ClosureSoFar
<1>4. popped \in Reached(root) /\ popped \notin Tag
  BY <1>2, <1>3, NamesAssumption
<1>5. \A k : byName(k)' = byName(k) /\ Reached(k)' = Reached(k) /\ Installs(k)' = Installs(k)
  BY <1>1 DEF byName, Reached, Installs, Closed, Names
<1>6. Names' = Names
  BY <1>1 DEF Names
<1>7. CASE popped \in seen \/ popped \notin Names
  <2>1. queue' = rest /\ seen' = seen \union {popped}
    BY <1>7 DEF Pop
  <2>2. Waiting' = left
    BY <2>1 DEF Waiting
  <2>3. seen' \union Waiting' = seen \union Waiting
    BY <1>2, <2>1, <2>2
  <2>4. seen' \intersect Tag = seen \intersect Tag /\ seen' \intersect Names = seen \intersect Names
    BY <1>4, <1>7, <2>1
  <2> QED
    BY <1>1, <1>2, <1>3, <1>4, <1>5, <1>6, <2>1, <2>2, <2>3, <2>4 DEF ClosureSoFar, RegistryTypeOK
<1>8. CASE popped \notin seen /\ popped \in Names
  <2> DEFINE deps == byName(popped).deps
             tags == byName(popped).tags
  <2>1. deps \subseteq Item /\ tags \subseteq Tag /\ IsFiniteSet(deps)
    BY <1>8, EntryTypes, NamesAssumption, FS_Subset
  <2>2. /\ seen' = seen \union {popped} \union tags
        /\ \E pushed \in Orders(deps) : queue' = rest \o pushed
    BY <1>8 DEF Pop
  <2>3. queue' \in Seq(Item) /\ Waiting' = left \union deps
    <3>1. PICK pushed \in Orders(deps) : queue' = rest \o pushed
      BY <2>2
    <3> HIDE DEF rest, deps
    <3>2. /\ rest \o pushed \in Seq(Item)
          /\ {(rest \o pushed)[n] : n \in DOMAIN (rest \o pushed)} = left \union deps
      BY <1>2, <2>1, PushAll
    <3> QED
      BY <3>1, <3>2 DEF Waiting
  <2>4. popped \in Installs(root) /\ deps \subseteq Reached(root)
    BY <1>3, <1>4, <1>8, ReachedIsClosed DEF Installs
  <2>5. seen' \union Waiting' = seen \union Waiting \union tags \union deps
    BY <1>2, <2>2, <2>3
  <2>6. Waiting' \union (seen' \ Tag) \subseteq Reached(root)
    BY <1>2, <1>3, <1>4, <2>1, <2>2, <2>3, <2>4
  <2>7. \A x \in seen' \intersect Tag : \E k \in Installs(root) : x \in byName(k).tags
    BY <1>3, <1>4, <2>2, <2>4
  <2>8. ASSUME NEW k \in seen' \intersect Names
        PROVE  byName(k).deps \subseteq seen' \union Waiting' /\ byName(k).tags \subseteq seen'
    <3>1. k \notin Tag
      BY EntryTypes, NamesAssumption
    <3>2. k \in seen \/ k = popped
      BY <2>1, <2>2, <3>1
    <3> QED
      BY <1>3, <2>2, <2>5, <3>2
  <2>9. seen' \subseteq Item \union Tag
    BY <1>2, <2>1, <2>2 DEF RegistryTypeOK
  <2> HIDE DEF deps, tags
  <2>10. ClosureSoFar'
    BY <1>1, <1>3, <1>5, <1>6, <2>5, <2>6, <2>7, <2>8 DEF ClosureSoFar
  <2> QED
    BY <2>3, <2>9, <2>10
<1> QED
  BY <1>7, <1>8

-----------------------------------------------------------------------------
(* What the checks see of an entry: everything but its version.             *)

\* A step after which the manifest has the same items, their versions aside.
SameItems ==
    /\ DOMAIN manifest' = DOMAIN manifest
    /\ \A i \in DOMAIN manifest :
           /\ manifest'[i].name = manifest[i].name /\ manifest'[i].deps = manifest[i].deps
           /\ manifest'[i].tags = manifest[i].tags /\ manifest'[i].files = manifest[i].files

LEMMA SameClosures ==
    ASSUME RegistryTypeOK, SameItems
    PROVE  /\ Names' = Names
           /\ \A k \in Names : /\ byName(k)'.deps = byName(k).deps
                               /\ byName(k)'.tags = byName(k).tags
                               /\ byName(k)'.files = byName(k).files
           /\ \A k : Reached(k)' = Reached(k) /\ Installs(k)' = Installs(k)
                     /\ Declared(k)' = Declared(k)
           /\ Shipped' = Shipped /\ \A x \in Shipped : owner(x)' = owner(x)
<1>1. Names' = Names
  BY DEF SameItems, Names
<1>2. ASSUME NEW k \in Names
      PROVE  /\ byName(k)'.deps = byName(k).deps /\ byName(k)'.tags = byName(k).tags
             /\ byName(k)'.files = byName(k).files
  <2> DEFINE n == Last({i \in DOMAIN manifest : manifest[i].name = k})
  <2>1. {i \in DOMAIN manifest' : manifest'[i].name = k} = {i \in DOMAIN manifest : manifest[i].name = k}
    BY DEF SameItems
  <2>2. byName(k) = manifest[n] /\ byName(k)' = manifest'[n]
    BY <2>1 DEF byName
  <2>3. n \in DOMAIN manifest
    <3>1. {i \in DOMAIN manifest : manifest[i].name = k} \in SUBSET (1..Len(manifest))
      BY EntryTypes
    <3>2. {i \in DOMAIN manifest : manifest[i].name = k} # {}
      BY DEF Names
    <3>3. n \in {i \in DOMAIN manifest : manifest[i].name = k}
      BY <3>1, <3>2, EntryTypes, LastIsLast
    <3> QED
      BY <3>3
  <2> HIDE DEF n
  <2> QED
    BY <2>2, <2>3 DEF SameItems
<1>3. ASSUME NEW k PROVE Reached(k)' = Reached(k)
  <2>1. ASSUME NEW S PROVE Closed(S)' <=> Closed(S)
    BY <1>1, <1>2 DEF Closed
  <2> QED
    BY <2>1 DEF Reached
<1>4. ASSUME NEW k PROVE Installs(k)' = Installs(k) /\ Declared(k)' = Declared(k)
  <2>1. Installs(k)' = Installs(k) /\ Installs(k) \subseteq Names
    BY <1>1, <1>3 DEF Installs
  <2> QED
    BY <1>2, <1>3, <2>1 DEF Declared
<1>5. Shipped' = Shipped
  BY DEF SameItems, Shipped
<1>6. ASSUME NEW x \in Shipped PROVE owner(x)' = owner(x)
  <2> DEFINE found == {i \in DOMAIN manifest : x \in DOMAIN manifest[i].files}
  <2>1. {i \in DOMAIN manifest' : x \in DOMAIN manifest'[i].files} = found
    BY DEF SameItems
  <2>2. owner(x) = manifest[Last(found)].name /\ owner(x)' = manifest'[Last(found)].name
    BY <2>1 DEF owner
  <2>3. Last(found) \in DOMAIN manifest
    <3>1. found \in SUBSET (1..Len(manifest)) /\ found # {}
      BY EntryTypes DEF Shipped
    <3>2. Last(found) \in found
      BY <3>1, EntryTypes, LastIsLast
    <3> QED
      BY <3>2
  <2> HIDE DEF found
  <2> QED
    BY <2>2, <2>3 DEF SameItems
<1> QED
  BY <1>1, <1>2, <1>3, <1>4, <1>5, <1>6

LEMMA SameProblems ==
    ASSUME RegistryTypeOK, SameItems, imports' = imports
    PROVE  /\ AllWellFormed' <=> AllWellFormed
           /\ \A n \in 0..Len(manifest) : FoundUpTo(n)' <=> FoundUpTo(n)
<1>1. \A i \in DOMAIN manifest : WellFormed(manifest[i])' <=> WellFormed(manifest[i])
  BY SameClosures DEF SameItems, WellFormed, checkTargetMatchesImportPath
<1>2. AllWellFormed' <=> AllWellFormed
  BY <1>1 DEF AllWellFormed, SameItems
<1>3. ASSUME NEW i \in DOMAIN manifest
      PROVE  ImportsDeclared(manifest[i])' <=> ImportsDeclared(manifest[i])
  <2>1. manifest'[i].files = manifest[i].files /\ manifest'[i].name = manifest[i].name
    BY DEF SameItems
  <2>2. Declared(manifest[i].name)' = Declared(manifest[i].name)
    BY <2>1, SameClosures
  <2> QED
    BY <2>1, <2>2, SameClosures DEF ImportsDeclared
<1>4. ASSUME NEW n \in 0..Len(manifest) PROVE FoundUpTo(n)' <=> FoundUpTo(n)
  <2>1. \A i \in 1..n : i \in DOMAIN manifest
    BY EntryTypes
  <2> QED
    BY <1>2, <1>3, <2>1 DEF FoundUpTo
<1> QED
  BY <1>2, <1>4

-----------------------------------------------------------------------------
(* The registry's script.                                                   *)

LEMMA NextRegistryTypeOK ==
    ASSUME RegistryTypeOK, ClosureSoFar, Next
    PROVE  RegistryTypeOK'
<1>1. CASE checkItems
  <2>1. <<manifest[1].name>> \in Seq(Item) /\ {} \subseteq Item \union Tag
    BY EntryTypes
  <2> QED
    BY <1>1, <2>1 DEF checkItems, RegistryTypeOK, inputs, output
<1>2. CASE Pop
  BY <1>2, PopKeepsClosure DEF Pop, RegistryTypeOK, inputs, output
<1>3. CASE checkImports
  <2>1. CASE at < Len(manifest)
    <3>1. <<manifest[at + 1].name>> \in Seq(Item) /\ at + 1 \in Nat \ {0}
      BY <2>1, EntryTypes DEF RegistryTypeOK
    <3> QED
      BY <1>3, <2>1, <3>1 DEF checkImports, RegistryTypeOK, inputs, output
  <2>2. CASE ~(at < Len(manifest))
    BY <1>3, <2>2 DEF checkImports, RegistryTypeOK, inputs, output
  <2> QED
    BY <2>1, <2>2
<1>4. CASE Throw \/ Decide \/ WriteCatalog \/ Interrupted \/ Again
  BY <1>4 DEF Throw, Decide, WriteCatalog, Interrupted, Again, RegistryTypeOK, inputs, output
<1>5. CASE WriteItem
  <2>1. manifest[at] \in Entry /\ manifest[at].name \in Item
    BY <1>5, EntryTypes DEF WriteItem, RegistryTypeOK
  <2> QED
    BY <1>5, <2>1 DEF WriteItem, RegistryTypeOK, inputs
<1> QED
  BY <1>1, <1>2, <1>3, <1>4, <1>5 DEF Next

LEMMA NextClosureSoFar ==
    ASSUME RegistryTypeOK, ClosureSoFar, Next
    PROVE  ClosureSoFar'
<1>1. ASSUME NEW n \in DOMAIN manifest, manifest' = manifest, at' = n,
             queue' = <<manifest[n].name>>, seen' = {}
      PROVE  ClosureSoFar'
  <2>1. manifest'[n].name = manifest[n].name /\ manifest[n].name \in Item
    BY <1>1, EntryTypes
  <2>2. Waiting' = {manifest[n].name}
    BY <1>1 DEF Waiting
  <2>3. manifest[n].name \in Reached(manifest[n].name)'
    BY <2>1 DEF Reached
  <2> QED
    BY <1>1, <2>1, <2>2, <2>3 DEF ClosureSoFar
<1>2. CASE checkItems
  <2>1. 1 \in DOMAIN manifest
    BY EntryTypes
  <2> QED
    BY <1>1, <1>2, <2>1 DEF checkItems, inputs
<1>3. CASE Pop
  BY <1>3, PopKeepsClosure
<1>4. CASE checkImports
  <2>1. CASE at < Len(manifest)
    <3>1. at + 1 \in DOMAIN manifest
      BY <2>1, EntryTypes DEF RegistryTypeOK
    <3> QED
      BY <1>1, <1>4, <2>1, <3>1 DEF checkImports, inputs
  <2>2. CASE ~(at < Len(manifest))
    BY <1>4, <2>2 DEF checkImports, ClosureSoFar
  <2> QED
    BY <2>1, <2>2
<1>5. CASE Throw \/ Decide \/ WriteItem \/ WriteCatalog \/ Interrupted \/ Again
  BY <1>5 DEF Throw, Decide, WriteItem, WriteCatalog, Interrupted, Again, ClosureSoFar
<1> QED
  BY <1>2, <1>3, <1>4, <1>5 DEF Next

LEMMA NextProblemsSoFar ==
    ASSUME RegistryTypeOK, ClosureSoFar, ProblemsSoFar, Next
    PROVE  ProblemsSoFar'
<1>0. /\ manifest' = manifest /\ imports' = imports
      /\ AllWellFormed' <=> AllWellFormed
      /\ \A n \in 0..Len(manifest) : FoundUpTo(n)' <=> FoundUpTo(n)
      /\ Len(manifest) \in Nat \ {0} /\ DOMAIN manifest = 1..Len(manifest)
  <2>1. manifest' = manifest /\ imports' = imports
    BY DEF Next, checkItems, Pop, checkImports, Throw, Decide, WriteItem, WriteCatalog,
           Interrupted, Again, inputs
  <2> QED
    BY <2>1, SameProblems, EntryTypes DEF SameItems
<1>1. CASE checkItems
  <2>1. problems' <=> ~AllWellFormed
    BY <1>1 DEF checkItems, AllWellFormed
  <2>2. FoundUpTo(0) <=> ~AllWellFormed
    BY DEF FoundUpTo
  <2> QED
    BY <1>0, <1>1, <2>1, <2>2 DEF checkItems, ProblemsSoFar
<1>2. CASE Pop
  <2>1. phase = "closing" /\ phase' = phase /\ at' = at /\ problems' = problems
    BY <1>2 DEF Pop
  <2>2. at - 1 \in 0..Len(manifest)
    BY <1>0, <2>1 DEF ClosureSoFar
  <2> QED
    BY <1>0, <2>1, <2>2 DEF ProblemsSoFar
<1>3. CASE checkImports
  <2>1. /\ phase = "closing" /\ queue = <<>> /\ at \in 1..Len(manifest)
        /\ problems <=> FoundUpTo(at - 1)
    BY <1>0, <1>3 DEF checkImports, ClosureSoFar, ProblemsSoFar
  <2>2. seen = Declared(manifest[at].name)
    BY <2>1, ClosureIsDeclared
  <2>3. problems' <=> problems \/ ~ImportsDeclared(manifest[at])
    BY <1>3, <2>2 DEF checkImports, Covered, ImportsDeclared
  <2>4. FoundUpTo(at) <=> FoundUpTo(at - 1) \/ ~ImportsDeclared(manifest[at])
    <3>1. 1..at = 1..(at - 1) \union {at}
      BY <2>1
    <3> QED
      BY <3>1 DEF FoundUpTo
  <2>5. problems' <=> FoundUpTo(at)
    BY <2>1, <2>3, <2>4
  <2>6. CASE at < Len(manifest)
    <3>1. at' = at + 1 /\ phase' = "closing"
      BY <1>3, <2>1, <2>6 DEF checkImports
    <3>2. at' - 1 = at /\ at \in 0..Len(manifest)
      BY <1>0, <2>1, <3>1
    <3> QED
      BY <1>0, <2>5, <3>1, <3>2 DEF ProblemsSoFar
  <2>7. CASE ~(at < Len(manifest))
    <3>1. at = Len(manifest) /\ at \in 0..Len(manifest)
      <4>1. \A len \in Nat : \A n \in 1..len : ~(n < len) => n = len /\ n \in 0..len
        OBVIOUS
      <4> QED
        BY <1>0, <2>1, <2>7, <4>1
    <3>2. phase' = "checked"
      BY <1>3, <2>7 DEF checkImports
    <3> QED
      BY <1>0, <2>5, <3>1, <3>2 DEF ProblemsSoFar
  <2> QED
    BY <2>6, <2>7
<1>4. CASE Throw
  <2>1. phase = "closing" /\ ~Readable /\ at \in DOMAIN manifest /\ problems' = problems
        /\ phase' = "thrown"
    BY <1>4 DEF Throw, ClosureSoFar
  <2>2. ~AllWellFormed
    BY <2>1 DEF Readable, AllWellFormed, WellFormed
  <2>3. problems
    BY <2>1, <2>2 DEF ProblemsSoFar, FoundUpTo
  <2> QED
    BY <1>0, <2>1, <2>2, <2>3 DEF ProblemsSoFar
<1>5. CASE Decide \/ WriteItem \/ WriteCatalog \/ Interrupted \/ Again
  <2>1. /\ problems' = problems
        /\ phase' \in {"refused", "ok", "building", "done"} =>
               phase \in {"checked", "building", "refused", "ok", "done"}
        /\ phase' \in {"refused", "ok", "building", "done", "interrupted", "start"}
    BY <1>5 DEF Decide, WriteItem, WriteCatalog, Interrupted, Again, output
  <2>2. Len(manifest) \in 0..Len(manifest) /\ Len(manifest') = Len(manifest)
    BY <1>0
  <2> QED
    BY <1>0, <2>1, <2>2 DEF ProblemsSoFar
<1> QED
  BY <1>1, <1>2, <1>3, <1>4, <1>5 DEF Next

LEMMA NextHostedSoFar ==
    ASSUME RegistryTypeOK, HostedSoFar, Next
    PROVE  HostedSoFar'
<1>0. manifest' = manifest /\ Len(manifest) \in Nat \ {0} /\ DOMAIN manifest = 1..Len(manifest)
  <2>1. manifest' = manifest
    BY DEF Next, checkItems, Pop, checkImports, Throw, Decide, WriteItem, WriteCatalog,
           Interrupted, Again, inputs
  <2> QED
    BY <2>1, EntryTypes
<1>1. CASE Decide
  <2>1. at' = 1
    BY <1>1 DEF Decide
  <2> QED
    BY <1>0, <2>1 DEF HostedSoFar
<1>2. CASE WriteItem
  <2>1. /\ phase = "building" /\ at \in 1..Len(manifest) /\ at' = at + 1
        /\ hosted' = [hosted EXCEPT ![manifest[at].name] = manifest[at]]
        /\ hosted \in [Item -> Entry \union {None, Old}]
    BY <1>0, <1>2 DEF WriteItem, HostedSoFar, RegistryTypeOK
  <2>2. \A n \in 1..Len(manifest) : manifest[n].name \in Item
    BY <1>0, EntryTypes
  <2>3. at' \in 1..(Len(manifest') + 1)
    BY <1>0, <2>1
  <2>4. ASSUME NEW n \in 1..(at' - 1)
        PROVE  \/ hosted'[manifest[n].name] = manifest[n]
               \/ \E m \in (n + 1)..(at' - 1) : manifest[m].name = manifest[n].name
    <3>1. n \in 1..at /\ at \in 1..Len(manifest) /\ n \in 1..Len(manifest) /\ at' - 1 = at
      BY <2>1, <1>0
    <3>2. CASE n = at
      BY <2>1, <2>2, <3>1, <3>2
    <3>3. CASE n # at
      <4>1. n \in 1..(at - 1) /\ at \in (n + 1)..(at' - 1)
            /\ \A m \in (n + 1)..(at - 1) : m \in (n + 1)..(at' - 1)
        BY <3>1, <3>3
      <4>2. CASE manifest[n].name = manifest[at].name
        BY <4>1, <4>2
      <4>3. CASE manifest[n].name # manifest[at].name
        <5>1. hosted'[manifest[n].name] = hosted[manifest[n].name]
          BY <2>1, <2>2, <3>1, <4>3
        <5>2. \/ hosted[manifest[n].name] = manifest[n]
              \/ \E m \in (n + 1)..(at - 1) : manifest[m].name = manifest[n].name
          BY <2>1, <4>1 DEF HostedSoFar
        <5> QED
          BY <4>1, <5>1, <5>2
      <4> QED
        BY <4>2, <4>3
    <3> QED
      BY <3>2, <3>3
  <2> QED
    BY <1>0, <2>3, <2>4 DEF HostedSoFar
<1>3. CASE checkItems \/ Pop \/ checkImports \/ Throw \/ WriteCatalog \/ Interrupted \/ Again
  BY <1>3 DEF checkItems, Pop, checkImports, Throw, WriteCatalog, Interrupted, Again, HostedSoFar
<1> QED
  BY <1>1, <1>2, <1>3 DEF Next

\* What a finished build has hosted is what byName finds.
LEMMA BuiltIsCurrent ==
    ASSUME RegistryTypeOK, HostedSoFar, WriteCatalog
    PROVE  /\ \A i \in Names : hosted'[i] = byName(i)
           /\ catalog' = manifest
<1>1. /\ phase = "building" /\ at > Len(manifest) /\ hosted' = hosted /\ catalog' = manifest
  BY DEF WriteCatalog
<1>2. at - 1 = Len(manifest) /\ Len(manifest) \in Nat /\ DOMAIN manifest = 1..Len(manifest)
  BY <1>1, EntryTypes DEF HostedSoFar, RegistryTypeOK
<1>3. ASSUME NEW i \in Names PROVE hosted[i] = byName(i)
  <2>1. PICK n \in DOMAIN manifest :
            /\ byName(i) = manifest[n] /\ manifest[n].name = i
            /\ \A m \in DOMAIN manifest : manifest[m].name = i => m <= n
    BY NameFound
  <2>2. ~\E m \in (n + 1)..(at - 1) : manifest[m].name = manifest[n].name
    BY <1>2, <2>1
  <2> QED
    BY <1>1, <1>2, <2>1, <2>2 DEF HostedSoFar
<1> QED
  BY <1>1, <1>3

-----------------------------------------------------------------------------
(* What the checks of the script establish.                                 *)

\* Without two entries of one name, byName finds each; without two of one file,
\* owner finds the one that ships it.
LEMMA DistinctFound ==
    ASSUME RegistryTypeOK, Distinct
    PROVE  \A i \in DOMAIN manifest :
               /\ manifest[i].name \in Names /\ byName(manifest[i].name) = manifest[i]
               /\ \A x \in DOMAIN manifest[i].files : x \in Shipped /\ owner(x) = manifest[i].name
<1> SUFFICES ASSUME NEW i \in DOMAIN manifest
             PROVE  /\ manifest[i].name \in Names /\ byName(manifest[i].name) = manifest[i]
                    /\ \A x \in DOMAIN manifest[i].files : x \in Shipped /\ owner(x) = manifest[i].name
  OBVIOUS
<1>1. manifest[i].name \in Names
  BY DEF Names
<1>2. byName(manifest[i].name) = manifest[i]
  BY <1>1, NameFound DEF Distinct
<1>3. ASSUME NEW x \in DOMAIN manifest[i].files PROVE x \in Shipped /\ owner(x) = manifest[i].name
  <2>1. x \in Shipped
    BY <1>3 DEF Shipped
  <2>2. PICK j \in DOMAIN manifest : owner(x) = manifest[j].name /\ x \in DOMAIN manifest[j].files
    BY <2>1, OwnerShips
  <2>3. j = i
    BY <1>3, <2>2 DEF Distinct
  <2> QED
    BY <2>1, <2>2, <2>3
<1> QED
  BY <1>1, <1>2, <1>3

\* A file that an entry ships is installed in its place with the entry.
LEMMA ShippedInPlace ==
    ASSUME RegistryTypeOK, Distinct, AllWellFormed, NEW i,
           NEW n \in DOMAIN manifest, manifest[n].name \in Installs(i), NEW x \in DOMAIN manifest[n].files
    PROVE  x \in File /\ InPlace(x, i)
<1>1. \A k \in Installs(i) : \A y \in DOMAIN byName(k).files :
          y \in Shipped /\ byName(k).files[y] = Lands[y]
  <2> SUFFICES ASSUME NEW k \in Installs(i), NEW y \in DOMAIN byName(k).files
               PROVE  y \in Shipped /\ byName(k).files[y] = Lands[y]
    OBVIOUS
  <2>1. k \in Names
    BY DEF Installs
  <2>2. PICK m \in DOMAIN manifest : byName(k) = manifest[m]
    BY <2>1, NameFound
  <2>3. WellFormed(manifest[m])
    BY DEF AllWellFormed
  <2> QED
    BY <2>2, <2>3 DEF Shipped, WellFormed, checkTargetMatchesImportPath
<1>2. byName(manifest[n].name) = manifest[n]
  BY DistinctFound
<1>3. x \in Shipped /\ manifest[n].files[x] = Lands[x]
  BY <1>1, <1>2
<1>4. \A f, g \in Shipped : f # g => Lands[f] # Lands[g]
  BY DEF Distinct
<1>5. \A k \in Installs(i) : \A y \in DOMAIN byName(k).files : byName(k).files[y] = Lands[x] => y = x
  BY <1>1, <1>3, <1>4
<1>6. \E k \in Installs(i) : x \in DOMAIN byName(k).files /\ byName(k).files[x] = Lands[x]
  BY <1>2, <1>3
<1>7. x \in File
  BY EntryTypes
<1> QED
  BY <1>5, <1>6, <1>7 DEF InPlace

\* The script looks at the files of one entry against what that entry leads to;
\* an install compiles the files of all that it leads to.  They agree because
\* what a dependency leads to, its dependent leads to.
LEMMA DeclaredMeansCompiles ==
    ASSUME RegistryTypeOK, Distinct, AllWellFormed
    PROVE  (\A n \in DOMAIN manifest : ImportsDeclared(manifest[n]))
             <=> (\A n \in DOMAIN manifest : Compiles(manifest[n].name))
<1>1. ASSUME NEW n \in DOMAIN manifest, NEW f \in DOMAIN manifest[n].files, NEW x \in imports[f]
      PROVE  x \in File \union Tag
  <2>1. f \in DOMAIN imports
    BY <1>1 DEF AllWellFormed, WellFormed
  <2> QED
    BY <1>1, <2>1, RegistryAssumption DEF RegistryTypeOK
<1>2. ASSUME \A n \in DOMAIN manifest : ImportsDeclared(manifest[n]),
             NEW n \in DOMAIN manifest, NEW j \in Installs(manifest[n].name),
             NEW f \in DOMAIN byName(j).files, NEW x \in imports[f]
      PROVE  \/ \E k \in Installs(manifest[n].name) : x \in byName(k).tags
             \/ x \in File /\ InPlace(x, manifest[n].name)
  <2> DEFINE i == manifest[n].name
  <2>1. i \in Item /\ j \in Reached(i) /\ j \in Names /\ j \in Item
    BY <1>2, EntryTypes DEF Installs
  <2>2. PICK m \in DOMAIN manifest : byName(j) = manifest[m] /\ manifest[m].name = j
    BY <2>1, NameFound
  <2>3. Reached(j) \subseteq Item /\ Installs(j) \subseteq Installs(i)
    BY <2>1, ReachedIsClosed, ReachedInReached
  <2>4. x \in File \union Tag
    BY <1>1, <1>2, <2>2
  <2>5. x \in Declared(j) \/ (x \in Shipped /\ owner(x) \in Declared(j))
    BY <1>2, <2>2 DEF ImportsDeclared
  <2>6. CASE x \in Declared(j)
    <3>1. x \notin Reached(j)
      BY <2>3, <2>4, NamesAssumption
    <3>2. \E k \in Installs(j) : x \in byName(k).tags
      BY <2>6, <3>1 DEF Declared
    <3> QED
      BY <2>3, <3>2
  <2>7. CASE x \in Shipped /\ owner(x) \in Declared(j)
    <3>1. PICK l \in DOMAIN manifest : owner(x) = manifest[l].name /\ x \in DOMAIN manifest[l].files
      BY <2>7, OwnerShips
    <3>2. owner(x) \in Names /\ owner(x) \notin Tag
      BY <3>1, EntryTypes, NamesAssumption DEF Names
    <3>3. \A k \in Installs(j) : byName(k).tags \subseteq Tag
      BY EntryTypes DEF Installs
    <3>4. owner(x) \in Installs(i)
      BY <2>3, <2>7, <3>2, <3>3 DEF Declared, Installs
    <3> QED
      BY <3>1, <3>4, ShippedInPlace
  <2> QED
    BY <2>5, <2>6, <2>7
<1>3. ASSUME NEW n \in DOMAIN manifest, Compiles(manifest[n].name) PROVE ImportsDeclared(manifest[n])
  <2> DEFINE i == manifest[n].name
  <2>1. i \in Item /\ i \in Installs(i) /\ byName(i) = manifest[n]
    BY EntryTypes, DistinctFound, ReachedIsClosed DEF Installs
  <2>2. ASSUME NEW f \in DOMAIN manifest[n].files, NEW x \in imports[f]
        PROVE  x \in Declared(i) \/ (x \in Shipped /\ owner(x) \in Declared(i))
    <3>1. (\E k \in Installs(i) : x \in byName(k).tags) \/ (x \in File /\ InPlace(x, i))
      BY <1>3, <2>1, <2>2 DEF Compiles
    <3>2. CASE \E k \in Installs(i) : x \in byName(k).tags
      BY <3>2 DEF Declared
    <3>3. CASE InPlace(x, i)
      <4>1. PICK k \in Installs(i) : x \in DOMAIN byName(k).files
        BY <3>3 DEF InPlace
      <4>2. PICK m \in DOMAIN manifest : byName(k) = manifest[m] /\ manifest[m].name = k
        BY NameFound DEF Installs
      <4>3. x \in Shipped /\ owner(x) = k
        BY <4>1, <4>2, DistinctFound
      <4> QED
        BY <4>3 DEF Declared, Installs
    <3> QED
      BY <3>1, <3>2, <3>3
  <2> QED
    BY <2>2 DEF ImportsDeclared
<1>4. (\A n \in DOMAIN manifest : ImportsDeclared(manifest[n]))
        => (\A n \in DOMAIN manifest : Compiles(manifest[n].name))
  BY <1>2 DEF Compiles
<1> QED
  BY <1>3, <1>4

LEMMA CheckedAreInstallable == RegistryIInv => CheckMeansInstallable
<1> SUFFICES ASSUME RegistryIInv, Distinct,
                    phase \in {"refused", "thrown", "ok", "building", "done"}
             PROVE  problems <=> \/ ~AllWellFormed
                                 \/ \E i \in DOMAIN manifest : ~Compiles(manifest[i].name)
  BY DEF CheckMeansInstallable, AllWellFormed
<1>0. RegistryTypeOK /\ ProblemsSoFar
  BY DEF RegistryIInv
<1>1. CASE phase = "thrown"
  BY <1>0, <1>1 DEF ProblemsSoFar
<1>2. CASE phase # "thrown"
  <2>1. problems <=> ~AllWellFormed \/ \E i \in DOMAIN manifest : ~ImportsDeclared(manifest[i])
    BY <1>0, <1>2, EntryTypes DEF ProblemsSoFar, FoundUpTo
  <2> QED
    BY <1>0, <2>1, DeclaredMeansCompiles
<1> QED
  BY <1>1, <1>2

-----------------------------------------------------------------------------
(* Moving versions.                                                         *)

LEMMA FourPins ==
    /\ DOMAIN PINS = {1, 2, 3, 4} /\ Stamp = 5 /\ Rebuild = 6 /\ Idle = 0
    /\ PINS[1] = "SDK package" /\ PINS[2] = "registry package"
    /\ PINS[3] = "SDK range" /\ PINS[4] = "install ref"
    /\ Files = {"SDK package", "registry package", "install ref"}
<1>1. /\ DOMAIN PINS = {1, 2, 3, 4} /\ Len(PINS) = 4
      /\ PINS[1] = "SDK package" /\ PINS[2] = "registry package"
      /\ PINS[3] = "SDK range" /\ PINS[4] = "install ref"
  BY DEF PINS
<1>2. {PINS[i] : i \in {1, 2, 3, 4}} = {PINS[1], PINS[2], PINS[3], PINS[4]}
  OBVIOUS
<1>3. Files = {"SDK package", "registry package", "install ref"}
  BY <1>1, <1>2 DEF Files
<1>4. Stamp = 5 /\ Rebuild = 6
  <2>1. Stamp = 4 + 1 /\ Rebuild = 4 + 2
    BY <1>1 DEF Stamp, Rebuild
  <2> QED
    BY <2>1
<1> QED
  BY <1>1, <1>3, <1>4 DEF Idle

LEMMA JobNumbers ==
    /\ DOMAIN PINS = {1, 2, 3, 4} /\ Stamp = 5 /\ Rebuild = 6 /\ Idle = 0
    /\ \A n \in DOMAIN PINS : n \in 1..Stamp /\ n \in Nat
<1>1. \A n \in {1, 2, 3, 4} : n \in 1..5 /\ n \in Nat
  OBVIOUS
<1> QED
  BY <1>1, FourPins

\* A version changes nothing else of an entry.
LEMMA BumpedEntry ==
    ASSUME NEW e \in Entry, NEW v \in Version \union {None}
    PROVE  /\ Bumped(e, v) \in Entry
           /\ Bumped(e, v).name = e.name /\ Bumped(e, v).deps = e.deps
           /\ Bumped(e, v).tags = e.tags /\ Bumped(e, v).files = e.files
           /\ Bumped(e, v).sdk = IF e.sdk = None THEN None ELSE v
BY DEF Bumped, Entry

\* A pin that is written has the version, and the other pins keep theirs.
LEMMA WritesPin ==
    ASSUME RegistryTypeOK, ReleaseTypeOK,
           NEW i \in DOMAIN PINS, NEW v \in Version \union {None}, Write(PINS[i], v)
    PROVE  /\ SameItems /\ manifest' \in Seq(Entry) \ {<<>>} /\ Len(manifest') = Len(manifest)
           /\ pins' \in [Files -> Version \union {None}]
           /\ \A j \in DOMAIN PINS \ {i} : read(PINS[j])' = read(PINS[j])
           /\ v # None /\ read(PINS[i]) # {} => read(PINS[i])' = {v}
<1>1. CASE i = 3
  <2>1. manifest' = [n \in DOMAIN manifest |-> Bumped(manifest[n], v)] /\ pins' = pins
    BY <1>1, FourPins DEF Write
  <2>2. /\ DOMAIN manifest' = DOMAIN manifest
        /\ \A n \in DOMAIN manifest : manifest'[n] = Bumped(manifest[n], v) /\ manifest[n] \in Entry
    BY <2>1, EntryTypes
  <2>3. SameItems
    BY <2>2, BumpedEntry DEF SameItems
  <2>4. manifest' \in Seq(Entry) /\ Len(manifest') = Len(manifest)
    <3>1. manifest' \in [1..Len(manifest) -> Entry] /\ Len(manifest) \in Nat
      BY <2>1, <2>2, EntryTypes, BumpedEntry
    <3>2. manifest' \in Seq(Entry)
      BY <3>1, SeqDef
    <3> QED
      BY <3>1, <3>2, LenProperties
  <2>5. manifest' # <<>>
    BY <2>4, EntryTypes
  <2>6. \A j \in DOMAIN PINS \ {i} : read(PINS[j])' = read(PINS[j])
    BY <1>1, <2>1, FourPins DEF read
  <2>7. ASSUME v # None, read(PINS[i]) # {} PROVE read(PINS[i])' = {v}
    <3>1. PINS[i] = "SDK range"
      BY <1>1, FourPins
    <3>2. PICK n \in DOMAIN manifest : manifest[n].sdk # None
      BY <2>7, <3>1 DEF read
    <3>3. \A m \in DOMAIN manifest : manifest'[m].sdk = IF manifest[m].sdk = None THEN None ELSE v
      BY <2>2, BumpedEntry
    <3>4. read(PINS[i])' = {manifest'[m].sdk : m \in DOMAIN manifest'} \ {None}
      BY <3>1 DEF read
    <3> QED
      BY <2>2, <2>7, <3>2, <3>3, <3>4
  <2> QED
    BY <2>1, <2>3, <2>4, <2>5, <2>6, <2>7 DEF ReleaseTypeOK
<1>2. CASE i # 3
  <2>1. /\ PINS[i] \in Files /\ PINS[i] # "SDK range"
        /\ \A j \in DOMAIN PINS \ {i} : PINS[j] # PINS[i]
        /\ \A j \in DOMAIN PINS : PINS[j] = "SDK range" \/ PINS[j] \in Files
    BY <1>2, FourPins
  <2>2. manifest' = manifest /\ pins' = [pins EXCEPT ![PINS[i]] = v]
    BY <2>1 DEF Write
  <2>3. SameItems
    BY <2>2 DEF SameItems
  <2>4. \A j \in DOMAIN PINS \ {i} : read(PINS[j])' = read(PINS[j])
    BY <2>1, <2>2 DEF read, ReleaseTypeOK
  <2>5. v # None => read(PINS[i])' = {v}
    BY <2>1, <2>2 DEF read, ReleaseTypeOK
  <2> QED
    BY <2>1, <2>2, <2>3, <2>4, <2>5 DEF ReleaseTypeOK, RegistryTypeOK
<1> QED
  BY <1>1, <1>2

\* While no script runs, moving a version keeps what the last run found.
LEMMA WriteKeepsRegistry ==
    ASSUME RegistryIInv, ReleaseTypeOK, ~Running, ~Running',
           NEW i \in DOMAIN PINS, NEW v \in Version \union {None}, Write(PINS[i], v),
           UNCHANGED <<imports, phase, at, queue, seen, problems, output>>
    PROVE  RegistryIInv'
<1>0. RegistryTypeOK /\ ProblemsSoFar
  BY DEF RegistryIInv
<1>1. SameItems /\ manifest' \in Seq(Entry) \ {<<>>} /\ Len(manifest') = Len(manifest)
  BY <1>0, WritesPin
<1>2. RegistryTypeOK'
  BY <1>0, <1>1 DEF RegistryTypeOK, output
<1>3. phase' \notin {"closing", "building"}
  BY DEF Running
<1>4. ProblemsSoFar'
  <2>1. Len(manifest) \in 0..Len(manifest)
    BY <1>0, EntryTypes
  <2>2. AllWellFormed' <=> AllWellFormed
    BY <1>0, <1>1, SameProblems
  <2>3. FoundUpTo(Len(manifest))' <=> FoundUpTo(Len(manifest))
    BY <1>0, <1>1, <2>1, SameProblems
  <2> QED
    BY <1>0, <1>1, <1>3, <2>2, <2>3 DEF ProblemsSoFar
<1> QED
  BY <1>2, <1>3, <1>4 DEF RegistryIInv, ClosureSoFar, HostedSoFar

LEMMA ReleaseSteps ==
    ASSUME [ReleaseNext]_releaseVars
    PROVE  \/ RegistryStep \/ WritePin \/ stampChangelog \/ SetInterrupted
           \/ \E v \in Version : BeginSet(v)
           \/ \E i \in DOMAIN PINS, v \in Version \union {None} : HandEdit(PINS[i], v)
           \/ UNCHANGED releaseVars
BY DEF ReleaseNext

\* The registry's part of the invariant depends on the script's own variables.
LEMMA RegistryUntouched ==
    ASSUME RegistryIInv, UNCHANGED <<inputs, phase, at, queue, seen, problems, output>>
    PROVE  RegistryIInv'
<1>1. /\ manifest' = manifest /\ imports' = imports /\ phase' = phase /\ at' = at /\ queue' = queue
      /\ seen' = seen /\ problems' = problems /\ hosted' = hosted /\ catalog' = catalog
  BY DEF inputs, output
<1>2. RegistryTypeOK /\ ClosureSoFar /\ ProblemsSoFar /\ HostedSoFar
  BY DEF RegistryIInv
<1>3. RegistryTypeOK' /\ HostedSoFar'
  BY <1>1, <1>2 DEF RegistryTypeOK, HostedSoFar
<1>4. ClosureSoFar'
  <2>1. \A k : byName(k)' = byName(k) /\ Reached(k)' = Reached(k) /\ Installs(k)' = Installs(k)
    BY <1>1 DEF byName, Reached, Installs, Closed, Names
  <2>2. Names' = Names /\ Waiting' = Waiting
    BY <1>1 DEF Names, Waiting
  <2> QED
    BY <1>1, <1>2, <2>1, <2>2 DEF ClosureSoFar
<1>5. ProblemsSoFar'
  <2>1. SameItems
    BY <1>1 DEF SameItems
  <2>2. Len(manifest) \in 0..Len(manifest) /\ (phase = "closing" => at - 1 \in 0..Len(manifest))
    BY <1>2, EntryTypes DEF ClosureSoFar
  <2>3. AllWellFormed' <=> AllWellFormed
    BY <1>1, <1>2, <2>1, SameProblems
  <2>4. \A n \in 0..Len(manifest) : FoundUpTo(n)' <=> FoundUpTo(n)
    BY <1>1, <1>2, <2>1, SameProblems
  <2> QED
    BY <1>1, <1>2, <2>2, <2>3, <2>4 DEF ProblemsSoFar
<1> QED
  BY <1>3, <1>4, <1>5 DEF RegistryIInv

LEMMA InitReleaseIInv == ReleaseInit => ReleaseIInv
<1> SUFFICES ASSUME ReleaseInit PROVE ReleaseIInv
  OBVIOUS
<1>0. Init
  BY DEF ReleaseInit
<1>1. RegistryTypeOK
  <2>1. <<>> \in Seq(Item)
    BY EmptySeq
  <2>2. manifest \in Seq(Entry) \ {<<>>} /\ imports \in Imports
    BY <1>0, RegistryAssumption DEF Init
  <2>3. /\ hosted \in [Item -> Entry \union {None, Old}]
        /\ phase = "start" /\ at \in Nat \ {0} /\ queue = <<>> /\ seen = {} /\ problems = FALSE
    BY <1>0 DEF Init
  <2> QED
    BY <2>1, <2>2, <2>3 DEF RegistryTypeOK
<1>2. ClosureSoFar /\ ProblemsSoFar /\ HostedSoFar
  BY <1>0 DEF Init, ClosureSoFar, ProblemsSoFar, HostedSoFar
<1>3. PICK v : v \in read("SDK range") /\ pins = [f \in Files |-> v] /\ changelog = {v}
  BY DEF ReleaseInit
<1>4. v \in Version
  BY <1>1, <1>3, EntryTypes DEF read
<1>5. job = 0 /\ next = None /\ DOMAIN PINS = {1, 2, 3, 4} /\ Stamp = 5 /\ Rebuild = 6 /\ Idle = 0
  BY JobNumbers DEF ReleaseInit
<1>6. ReleaseTypeOK
  <2>1. pins \in [Files -> Version \union {None}] /\ changelog \subseteq Version
    BY <1>3, <1>4
  <2> QED
    BY <1>5, <2>1 DEF ReleaseTypeOK
<1>7. SetSoFar
  <2>1. \A i \in {1, 2, 3, 4} : ~(i < 0)
    OBVIOUS
  <2> QED
    BY <1>5, <2>1 DEF SetSoFar
<1> QED
  BY <1>1, <1>2, <1>6, <1>7 DEF ReleaseIInv, RegistryIInv

LEMMA NextRegistryIInv ==
    ASSUME ReleaseIInv, [ReleaseNext]_releaseVars
    PROVE  RegistryIInv'
<1>0. RegistryIInv /\ ReleaseTypeOK /\ SetSoFar
  BY DEF ReleaseIInv
<1>1. CASE RegistryStep
  BY <1>0, <1>1, NextRegistryTypeOK, NextClosureSoFar, NextProblemsSoFar, NextHostedSoFar
  DEF RegistryStep, RegistryIInv
<1>2. CASE WritePin
  <2>0. job \in DOMAIN PINS /\ next \in Version \union {None}
    BY <1>0, <1>2 DEF WritePin, ReleaseTypeOK
  <2>1. /\ ~Running /\ ~Running'
        /\ UNCHANGED <<imports, phase, at, queue, seen, problems, output>>
    BY <1>0, <1>2, JobNumbers DEF WritePin, SetSoFar, Running
  <2>2. ASSUME NEW n \in DOMAIN PINS, NEW v \in Version \union {None}, Write(PINS[n], v)
        PROVE  RegistryIInv'
    BY <1>0, <2>1, <2>2, WriteKeepsRegistry
  <2>3. CASE manifest' = manifest
    BY <1>0, <2>1, <2>3, RegistryUntouched DEF inputs
  <2> QED
    BY <1>2, <2>0, <2>2, <2>3 DEF WritePin
<1>3. ASSUME NEW i \in DOMAIN PINS, NEW v \in Version \union {None}, HandEdit(PINS[i], v)
      PROVE  RegistryIInv'
  <2>1. /\ ~Running /\ ~Running' /\ Write(PINS[i], v)
        /\ UNCHANGED <<imports, phase, at, queue, seen, problems, output>>
    BY <1>3 DEF HandEdit, AtRest, Running
  <2> QED
    BY <1>0, <2>1, WriteKeepsRegistry
<1>4. CASE stampChangelog
  <2>1. /\ manifest' = manifest /\ imports' = imports /\ at' = at /\ queue' = queue /\ seen' = seen
        /\ problems' = problems /\ hosted' = hosted /\ phase' = "start"
    BY <1>4 DEF stampChangelog, inputs, output
  <2>2. RegistryTypeOK'
    BY <1>0, <2>1 DEF RegistryIInv, RegistryTypeOK
  <2> QED
    BY <2>1, <2>2 DEF RegistryIInv, ClosureSoFar, ProblemsSoFar, HostedSoFar
<1>5. CASE SetInterrupted \/ (\E v \in Version : BeginSet(v)) \/ UNCHANGED releaseVars
  <2>1. UNCHANGED <<inputs, phase, at, queue, seen, problems, output>>
    BY <1>5 DEF SetInterrupted, BeginSet, releaseVars, vars
  <2> QED
    BY <1>0, <2>1, RegistryUntouched
<1> QED
  BY <1>1, <1>2, <1>3, <1>4, <1>5, ReleaseSteps

\* Each write of a set moves one pin and leaves those before it; a hand edit or an
\* interruption ends the set, and no script runs until the set has ended.
LEMMA NextSetSoFar ==
    ASSUME ReleaseIInv, [ReleaseNext]_releaseVars
    PROVE  ReleaseTypeOK' /\ SetSoFar'
<1>0. RegistryTypeOK /\ HostedSoFar /\ ReleaseTypeOK /\ SetSoFar /\ next \in Version \union {None}
  BY DEF ReleaseIInv, RegistryIInv, ReleaseTypeOK
<1>1. CASE RegistryStep
  <2>1. /\ pins' = pins /\ changelog' = changelog /\ job' = job /\ next' = next /\ Next
        /\ job \in {Idle, Rebuild}
    BY <1>1 DEF RegistryStep, tree
  <2>2. manifest' = manifest
    BY <2>1 DEF Next, checkItems, Pop, checkImports, Throw, Decide, WriteItem, WriteCatalog,
                Interrupted, Again, inputs
  <2>3. Names' = Names /\ \A k : byName(k)' = byName(k)
    BY <2>2 DEF Names, byName
  <2>4. \A pin : read(pin)' = read(pin)
    BY <2>1, <2>2 DEF read
  <2>5. phase' = "done" => WriteCatalog
    BY <2>1 DEF Next, checkItems, Pop, checkImports, Throw, Decide, WriteItem, Interrupted, Again
  <2>6. phase' = "done" => \A i \in Names : hosted'[i] = byName(i)
    BY <1>0, <2>5, BuiltIsCurrent
  <2>7. ReleaseTypeOK'
    BY <1>0, <2>1 DEF ReleaseTypeOK
  <2>8. job \notin 1..Stamp
    BY <2>1, JobNumbers
  <2> QED
    BY <1>0, <2>1, <2>3, <2>4, <2>6, <2>7, <2>8 DEF SetSoFar
<1>2. CASE WritePin
  <2>1. /\ job \in {1, 2, 3, 4} /\ phase' = phase /\ changelog' = changelog /\ next' = next
        /\ ~Running /\ next \in Compatible /\ next \in Version
        /\ \A i \in DOMAIN PINS : i < job => read(PINS[i]) = {next}
    BY <1>0, <1>2, JobNumbers, ReleaseAssumption DEF WritePin, SetSoFar
  <2>2. CASE job' = Idle /\ UNCHANGED <<manifest, pins>>
    <3>1. \A i \in DOMAIN PINS : ~(i < job')
      BY <2>2, JobNumbers
    <3> QED
      BY <1>0, <2>1, <2>2, <3>1, JobNumbers DEF ReleaseTypeOK, SetSoFar
  <2>3. ASSUME NEW n \in DOMAIN PINS, job = n, read(PINS[n]) # {}, job' = n + 1, Write(PINS[n], next)
        PROVE  ReleaseTypeOK' /\ SetSoFar'
    <3>1. next # None
      BY <2>1, RegistryAssumption
    <3>2. /\ pins' \in [Files -> Version \union {None}]
          /\ \A j \in DOMAIN PINS \ {n} : read(PINS[j])' = read(PINS[j])
          /\ read(PINS[n])' = {next}
      <4>1. ASSUME NEW v \in Version, v = next
            PROVE  /\ pins' \in [Files -> Version \union {None}]
                   /\ \A j \in DOMAIN PINS \ {n} : read(PINS[j])' = read(PINS[j])
                   /\ read(PINS[n])' = {v}
        BY <1>0, <2>3, <3>1, <4>1, WritesPin
      <4> QED
        BY <2>1, <4>1
    <3>3. job' \in {2, 3, 4, 5} /\ \A i \in DOMAIN PINS : i < job' => (i < job /\ i # n) \/ i = n
      BY <2>1, <2>3, JobNumbers
    <3>4. \A i \in DOMAIN PINS : i < job' => read(PINS[i])' = {next}
      BY <2>1, <3>2, <3>3
    <3>5. ~Running'
      BY <2>1 DEF Running
    <3> QED
      BY <1>0, <2>1, <3>2, <3>3, <3>4, <3>5, JobNumbers DEF ReleaseTypeOK, SetSoFar
  <2> QED
    BY <1>2, <2>2, <2>3 DEF WritePin
<1>3. ASSUME NEW i \in DOMAIN PINS, NEW v \in Version \union {None}, HandEdit(PINS[i], v)
      PROVE  ReleaseTypeOK' /\ SetSoFar'
  <2>1. pins' \in [Files -> Version \union {None}]
    BY <1>0, <1>3, WritesPin DEF HandEdit
  <2>2. job' = 0 /\ changelog' = changelog /\ next' = next
    BY <1>3, JobNumbers DEF HandEdit
  <2>3. \A j \in DOMAIN PINS : ~(j < job')
    BY <2>2, JobNumbers
  <2> QED
    BY <1>0, <2>1, <2>2, <2>3, JobNumbers DEF ReleaseTypeOK, SetSoFar
<1>4. CASE stampChangelog
  <2>1. /\ job = 5 /\ job' = 6 /\ phase' = "start" /\ pins' = pins /\ manifest' = manifest
        /\ next' = next /\ changelog' = changelog \union {next}
    BY <1>4, JobNumbers DEF stampChangelog, inputs
  <2>2. \A pin : read(pin)' = read(pin)
    BY <2>1 DEF read
  <2>3. next \in Compatible /\ next \in Version /\ \A i \in DOMAIN PINS : read(PINS[i]) = {next}
    BY <1>0, <2>1, JobNumbers, ReleaseAssumption DEF SetSoFar
  <2> QED
    BY <1>0, <2>1, <2>2, <2>3, JobNumbers DEF ReleaseTypeOK, SetSoFar
<1>5. CASE SetInterrupted
  <2>1. job' = 0 /\ pins' = pins /\ changelog' = changelog /\ next' = next
    BY <1>5, JobNumbers DEF SetInterrupted, tree
  <2>2. \A j \in DOMAIN PINS : ~(j < job')
    BY <2>1, JobNumbers
  <2> QED
    BY <1>0, <2>1, <2>2, JobNumbers DEF ReleaseTypeOK, SetSoFar
<1>6. ASSUME NEW v \in Version, BeginSet(v) PROVE ReleaseTypeOK' /\ SetSoFar'
  <2>1. /\ job' = 1 /\ next' = v /\ v \in Compatible /\ pins' = pins /\ changelog' = changelog
        /\ phase' = phase /\ ~Running
    BY <1>6 DEF BeginSet, AtRest, tree
  <2>2. \A j \in DOMAIN PINS : ~(j < job')
    BY <2>1, JobNumbers
  <2>3. ~Running'
    BY <2>1 DEF Running
  <2> QED
    BY <1>0, <2>1, <2>2, <2>3, JobNumbers DEF ReleaseTypeOK, SetSoFar
<1>7. CASE UNCHANGED releaseVars
  <2>1. /\ pins' = pins /\ changelog' = changelog /\ job' = job /\ next' = next
        /\ manifest' = manifest /\ phase' = phase /\ hosted' = hosted
    BY <1>7 DEF releaseVars, vars, inputs, output, tree
  <2>2. Names' = Names /\ (\A k : byName(k)' = byName(k)) /\ (\A pin : read(pin)' = read(pin))
    BY <2>1 DEF Names, byName, read
  <2> QED
    BY <1>0, <2>1, <2>2 DEF ReleaseTypeOK, SetSoFar, Running
<1> QED
  BY <1>1, <1>2, <1>3, <1>4, <1>5, <1>6, <1>7, ReleaseSteps

\* The inductive invariant holds in every reachable state of the two scripts.
THEOREM ReleaseInductiveInvariant == ReleaseSpec => []ReleaseIInv
<1>1. ReleaseIInv /\ [ReleaseNext]_releaseVars => ReleaseIInv'
  BY NextRegistryIInv, NextSetSoFar DEF ReleaseIInv
<1> QED
  BY <1>1, InitReleaseIInv, PTL DEF ReleaseSpec

\* build-registry.ts 11-15: whatever the manifest and the sources are, the checks
\* pass exactly the registries of which every item compiles where it is installed.
THEOREM CheckedItemsInstall == ReleaseSpec => []CheckMeansInstallable
<1>1. ReleaseIInv => CheckMeansInstallable
  BY CheckedAreInstallable DEF ReleaseIInv
<1> QED
  BY <1>1, ReleaseInductiveInvariant, PTL

\* version.ts 5-8, justfile 139-140: after a bump that ran to its end every pin,
\* the changelog and the hosted registry have the one version, whatever was
\* interrupted, failed or edited by hand before.
THEOREM BumpsEndAligned == ReleaseSpec => []BumpsAlign
<1>1. ASSUME ReleaseIInv, job = Rebuild, phase = "done"
      PROVE  check(next) /\ \A i \in Names : hosted[i].sdk \in {next, None}
  <2>1. RegistryTypeOK /\ SetSoFar
    BY <1>1 DEF ReleaseIInv, RegistryIInv
  <2>2. /\ next \in Compatible /\ next \in changelog
        /\ \A i \in DOMAIN PINS : read(PINS[i]) = {next}
        /\ \A i \in Names : hosted[i] = byName(i)
    BY <1>1, <2>1, JobNumbers DEF SetSoFar
  <2>3. {manifest[n].sdk : n \in DOMAIN manifest} \ {None} = {next}
    BY <2>2, FourPins DEF read
  <2>4. \A n \in DOMAIN manifest : manifest[n].sdk \in {next, None}
    BY <2>3
  <2>5. \A i \in Names : \E n \in DOMAIN manifest : byName(i) = manifest[n]
    BY <2>1, NameFound
  <2> QED
    BY <2>2, <2>4, <2>5 DEF check
<1>2. ReleaseIInv => BumpsAlign
  BY <1>1 DEF BumpsAlign
<1> QED
  BY <1>2, ReleaseInductiveInvariant, PTL

\* build-registry.ts 280-325: a build that ends has hosted what the manifest says
\* of each item, whatever interrupted builds left behind.
THEOREM BuildsAreCurrent == ReleaseSpec => BuildIsCurrent
<1> DEFINE Current == phase # "done" /\ phase' = "done" =>
                          /\ \A i \in Names : hosted'[i] = byName(i)
                          /\ catalog' = manifest
<1>1. ASSUME ReleaseIInv, [ReleaseNext]_releaseVars PROVE [Current]_vars
  <2>0. RegistryTypeOK /\ HostedSoFar
    BY <1>1 DEF ReleaseIInv, RegistryIInv
  <2>1. CASE RegistryStep
    <3>1. phase # "done" /\ phase' = "done" => WriteCatalog
      BY <2>1 DEF RegistryStep, Next, checkItems, Pop, checkImports, Throw, Decide, WriteItem,
                  Interrupted, Again
    <3> QED
      BY <2>0, <3>1, BuiltIsCurrent
  <2>2. phase' # phase => RegistryStep \/ phase' = "start"
    BY <1>1, ReleaseSteps DEF WritePin, stampChangelog, SetInterrupted, BeginSet, HandEdit,
                              releaseVars, vars
  <2> QED
    BY <2>1, <2>2
<1> QED
  BY <1>1, ReleaseInductiveInvariant, PTL DEF ReleaseSpec, BuildIsCurrent

-----------------------------------------------------------------------------
(* Boot: migrations are applied once each and in order, one bootstrap key   *)
(* exists, and nobody serves without one.                                   *)

LEMMA InitBootIInv == BootInit => BootIInv
<1>1. Unset \notin Instance
  BY InstanceAssumption
<1> QED
  BY <1>1, VersionAssumption, BoundAssumption
  DEF BootInit, BootIInv, BootTypeOK, LockIsHeld, AppliedInOrder, OneBootstrapKey, ServingHasAKey,
      KeyStepsAreReady, Step

LEMMA TokensAreTokens ==
    ASSUME stops \in 0..MaxStops, NEW i \in Instance
    PROVE  TokenOf(i) \in Token
BY BoundAssumption DEF TokenOf, Token

\* A step is one of the nine of one instance.
LEMMA BootSteps ==
    ASSUME [BootNext]_bootVars
    PROVE  \/ UNCHANGED bootVars
           \/ \E i \in Instance :
                \/ Start(i) \/ TakeLock(i) \/ LoadMigrations(i) \/ ApplyMigration(i)
                \/ Unlock(i) \/ CountApiKeys(i) \/ CreateBootstrapKey(i) \/ Announce(i)
                \/ Stop(i)
BY DEF BootNext, BootStep

LEMMA NextBootTypeOK == BootIInv /\ [BootNext]_bootVars => BootTypeOK'
<1> SUFFICES ASSUME BootIInv, [BootNext]_bootVars PROVE BootTypeOK'
  OBVIOUS
<1>0. BootTypeOK
  BY DEF BootIInv
<1>1. ASSUME NEW i \in Instance, Start(i) \/ TakeLock(i) \/ LoadMigrations(i) \/ Unlock(i)
      PROVE  BootTypeOK'
  BY <1>0, <1>1 DEF BootTypeOK, Step, Goto, database, Start, TakeLock, LoadMigrations, Unlock
<1>2. ASSUME NEW i \in Instance, ApplyMigration(i) PROVE BootTypeOK'
  BY <1>0, <1>2, VersionAssumption
  DEF BootIInv, LockIsHeld, BootTypeOK, Step, Goto, database, ApplyMigration
<1>3. ASSUME NEW i \in Instance, CountApiKeys(i) \/ CreateBootstrapKey(i) PROVE BootTypeOK'
  BY <1>0, <1>3, TokensAreTokens
  DEF BootTypeOK, Step, Goto, database, CountApiKeys, CreateBootstrapKey
<1>4. ASSUME NEW i \in Instance, Announce(i) PROVE BootTypeOK'
  <2>1. token[i] \in Token
    BY <1>0, <1>4 DEF BootIInv, KeyStepsAreReady, BootTypeOK, Announce
  <2> QED
    BY <1>0, <1>4, <2>1 DEF BootTypeOK, Step, Goto, database, Announce
<1>5. ASSUME NEW i \in Instance, Stop(i) PROVE BootTypeOK'
  BY <1>0, <1>5, BoundAssumption DEF BootTypeOK, Step, Goto, database, Stop
<1>6. CASE UNCHANGED bootVars
  BY <1>0, <1>6 DEF BootTypeOK, bootVars
<1> QED
  BY <1>1, <1>2, <1>3, <1>4, <1>5, <1>6, BootSteps

\* Only the holder of the lock is between TakeLock and Unlock, so only its
\* migrator can move the version it has read.
LEMMA NextLockIsHeld == BootIInv /\ [BootNext]_bootVars => LockIsHeld'
<1> SUFFICES ASSUME BootIInv, [BootNext]_bootVars PROVE LockIsHeld'
  OBVIOUS
<1>0. BootTypeOK /\ LockIsHeld /\ Unset \notin Instance
  BY InstanceAssumption DEF BootIInv
<1>1. ASSUME NEW i \in Instance, Start(i) \/ TakeLock(i) \/ Unlock(i) \/ Stop(i)
      PROVE  LockIsHeld'
  BY <1>0, <1>1 DEF BootTypeOK, LockIsHeld, Goto, database, Start, TakeLock, Unlock, Stop
<1>2. ASSUME NEW i \in Instance, LoadMigrations(i) PROVE LockIsHeld'
  <2>1. schema = Latest \/ schema < Latest
    BY <1>0, VersionAssumption DEF BootTypeOK
  <2> QED
    BY <1>0, <1>2, <2>1 DEF BootTypeOK, LockIsHeld, Goto, database, LoadMigrations
<1>3. ASSUME NEW i \in Instance, ApplyMigration(i) PROVE LockIsHeld'
  <2>1. /\ lock = i /\ current[i] = schema
        /\ schema + 1 = Latest \/ schema + 1 < Latest
    BY <1>0, <1>3, VersionAssumption DEF BootTypeOK, LockIsHeld, ApplyMigration
  <2> QED
    BY <1>0, <1>3, <2>1, VersionAssumption DEF BootTypeOK, LockIsHeld, Goto, ApplyMigration
<1>4. ASSUME NEW i \in Instance, CountApiKeys(i) \/ CreateBootstrapKey(i) \/ Announce(i)
      PROVE  LockIsHeld'
  BY <1>0, <1>4 DEF BootTypeOK, LockIsHeld, Goto, database, CountApiKeys, CreateBootstrapKey, Announce
<1>5. CASE UNCHANGED bootVars
  BY <1>0, <1>5 DEF LockIsHeld, bootVars
<1> QED
  BY <1>1, <1>2, <1>3, <1>4, <1>5, BootSteps

\* The holder's migrator applies the first migration that is not recorded.
LEMMA NextAppliedInOrder == BootIInv /\ [BootNext]_bootVars => AppliedInOrder'
<1> SUFFICES ASSUME BootIInv, [BootNext]_bootVars PROVE AppliedInOrder'
  OBVIOUS
<1>0. BootTypeOK /\ LockIsHeld /\ AppliedInOrder
  BY DEF BootIInv
<1>1. ASSUME NEW i \in Instance, ApplyMigration(i) PROVE AppliedInOrder'
  <2>1. current[i] = schema /\ schema \in 0..Latest /\ schema < Latest
    BY <1>0, <1>1 DEF BootTypeOK, LockIsHeld, ApplyMigration
  <2> QED
    BY <1>0, <1>1, <2>1, VersionAssumption DEF BootTypeOK, AppliedInOrder, ApplyMigration
<1>2. CASE UNCHANGED <<applied, schema>>
  BY <1>0, <1>2 DEF AppliedInOrder
<1> QED
  BY <1>1, <1>2, BootSteps
  DEF bootVars, database, Start, TakeLock, LoadMigrations, Unlock, CountApiKeys,
      CreateBootstrapKey, Announce, Stop

\* A key is only inserted into an empty table, by an instance that has seen the
\* table, and no step removes a key or lowers the version.
LEMMA NextKeys ==
    BootIInv /\ [BootNext]_bootVars => OneBootstrapKey' /\ ServingHasAKey' /\ KeyStepsAreReady'
<1> SUFFICES ASSUME BootIInv, [BootNext]_bootVars
             PROVE  OneBootstrapKey' /\ ServingHasAKey' /\ KeyStepsAreReady'
  OBVIOUS
<1> DEFINE Keys == OneBootstrapKey /\ ServingHasAKey /\ KeyStepsAreReady
<1>0. BootTypeOK /\ LockIsHeld /\ Keys
  BY DEF BootIInv
<1>1. ASSUME NEW i \in Instance, Start(i) \/ TakeLock(i) \/ LoadMigrations(i) \/ Unlock(i) \/ Stop(i)
      PROVE  Keys'
  BY <1>0, <1>1
  DEF BootTypeOK, Step, OneBootstrapKey, ServingHasAKey, KeyStepsAreReady, Goto, database,
      Start, TakeLock, LoadMigrations, Unlock, Stop
<1>2. ASSUME NEW i \in Instance, ApplyMigration(i) PROVE Keys'
  BY <1>0, <1>2, VersionAssumption
  DEF BootTypeOK, LockIsHeld, OneBootstrapKey, ServingHasAKey, KeyStepsAreReady, Goto, ApplyMigration
<1>3. ASSUME NEW i \in Instance, CountApiKeys(i) PROVE Keys'
  BY <1>0, <1>3
  DEF BootTypeOK, OneBootstrapKey, ServingHasAKey, KeyStepsAreReady, Goto, database, CountApiKeys
<1>4. ASSUME NEW i \in Instance, CreateBootstrapKey(i) PROVE Keys'
  <2>1. CASE stored = {}
    BY <1>0, <1>4, <2>1
    DEF BootTypeOK, OneBootstrapKey, ServingHasAKey, KeyStepsAreReady, Goto, CreateBootstrapKey
  <2>2. CASE stored # {}
    BY <1>0, <1>4, <2>2
    DEF BootTypeOK, OneBootstrapKey, ServingHasAKey, KeyStepsAreReady, Goto, CreateBootstrapKey
  <2> QED
    BY <2>1, <2>2
<1>5. ASSUME NEW i \in Instance, Announce(i) PROVE Keys'
  BY <1>0, <1>5
  DEF BootTypeOK, OneBootstrapKey, ServingHasAKey, KeyStepsAreReady, Goto, database, Announce
<1>6. CASE UNCHANGED bootVars
  BY <1>0, <1>6 DEF OneBootstrapKey, ServingHasAKey, KeyStepsAreReady, bootVars
<1> QED
  BY <1>1, <1>2, <1>3, <1>4, <1>5, <1>6, BootSteps

\* The inductive invariant holds in every reachable state.
THEOREM BootInductiveInvariant == BootSpec => []BootIInv
<1>1. BootIInv /\ [BootNext]_bootVars => BootIInv'
  BY NextBootTypeOK, NextLockIsHeld, NextAppliedInOrder, NextKeys DEF BootIInv
<1> QED
  BY <1>1, InitBootIInv, PTL DEF BootSpec

\* migrate.go 23-25: whatever instances boot or die together, each migration up
\* to the recorded version has been applied exactly once and none beyond it.
THEOREM MigrationsApplyOnce == BootSpec => []AppliedInOrder
<1>1. BootIInv => AppliedInOrder
  BY DEF BootIInv
<1> QED
  BY <1>1, BootInductiveInvariant, PTL

\* Migration 006 36-38: instances racing through the first boot mint one key,
\* and no token of a key that does not exist is ever printed.
THEOREM OneKeyIsMinted == BootSpec => []OneBootstrapKey
<1>1. BootIInv => OneBootstrapKey
  BY DEF BootIInv
<1> QED
  BY <1>1, BootInductiveInvariant, PTL

\* bootstrap.go 15-19: an instance that serves has a schema with api_keys and a
\* key in it.
THEOREM ServersHaveAKey == BootSpec => []ServingHasAKey
<1>1. BootIInv => ServingHasAKey
  BY DEF BootIInv
<1> QED
  BY <1>1, BootInductiveInvariant, PTL
=============================================================================
