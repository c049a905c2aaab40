----------------------------- MODULE ApiKeysProofs -----------------------------
(***************************************************************************)
(* For any keys, roles, environments and requests: along every chain of    *)
(* keys minting keys the fences only narrow, and no rank ever exceeds the  *)
(* highest of the first boot, whatever identities requests still carry.    *)
(***************************************************************************)
EXTENDS ApiKeys, TLAPS

LEMMA RanksAreNumbers ==
    \A r \in Role : FirstRank[r] \in Nat
<1>1. Rank \subseteq Nat /\ FirstRank \in [Role -> Rank \union {0}]
  BY RankAssumption
<1>2. \A r \in Role : FirstRank[r] \in Rank \union {0}
  BY <1>1
<1>3. 0 \in Nat
  OBVIOUS
<1> QED
  BY <1>1, <1>2, <1>3

\* A narrowed filter lets through nothing its creator's does not.
LEMMA NarrowFilterNarrows ==
    ASSUME NEW all, NEW asked \in SUBSET all, NEW creator \in SUBSET all,
           Narrowable(asked, creator)
    PROVE  /\ NarrowFilter(asked, creator) \in SUBSET all
           /\ Reach(NarrowFilter(asked, creator), all) \subseteq Reach(creator, all)
BY DEF Narrowable, NarrowFilter, Reach

\* What a request holds, by what it is doing.
LEMMA PendingShapes ==
    ASSUME NEW r \in Pending
    PROVE  /\ r.at # "idle" => r.id \in Identity
           /\ r.at \in Minting => r.new \in KeyRow
BY DEF Pending, Idle, Minting

\* A row only gains marks: it stays a row, and keeps its grants.
LEMMA MarkedRows ==
    ASSUME NEW row \in KeyRow
    PROVE  /\ Revoked(row) \in KeyRow /\ Expired(row) \in KeyRow
           /\ Revoked(row).revoked /\ Revoked(row).expired = row.expired
           /\ Expired(row).expired /\ Expired(row).revoked = row.revoked
           /\ Revoked(row).scopes = row.scopes /\ Expired(row).scopes = row.scopes
           /\ Revoked(row).envs = row.envs /\ Expired(row).envs = row.envs
           /\ Revoked(row).platforms = row.platforms /\ Expired(row).platforms = row.platforms
           /\ Revoked(row).role = row.role /\ Expired(row).role = row.role
           /\ Revoked(row).by = row.by /\ Expired(row).by = row.by
BY DEF KeyRow, Revoked, Expired

\* A key that is minted stays minted, and what it was granted stays what it is.
KeyKept(k) ==
    /\ keys'[k] # None
    /\ keys'[k].scopes = keys[k].scopes
    /\ keys'[k].envs = keys[k].envs
    /\ keys'[k].platforms = keys[k].platforms
    /\ keys'[k].role = keys[k].role
    /\ keys'[k].by = keys[k].by
    /\ keys[k].revoked => keys'[k].revoked
    /\ keys[k].expired => keys'[k].expired

LEMMA KeysKept ==
    ASSUME TypeOK, [Next]_vars, NEW k \in Minted PROVE KeyKept(k)
<1> USE DEF KeyKept, Minted, TypeOK
<1>0. k \in Key /\ keys[k] \in KeyRow
  OBVIOUS
<1>1. ASSUME keys' = keys PROVE KeyKept(k)
  BY <1>1
<1>2. ASSUME NEW p \in Request, NEW n \in Key, CreateApiKey(p, n) PROVE KeyKept(k)
  BY <1>2 DEF CreateApiKey
<1>3. ASSUME NEW row, row \in {Revoked(keys[k]), Expired(keys[k])}, NEW n \in Key,
             n = k => keys' = [keys EXCEPT ![n] = row],
             n # k => keys'[k] = keys[k]
      PROVE  KeyKept(k)
  BY <1>0, <1>3, MarkedRows, KeyAssumption
<1>4. ASSUME NEW p \in Request, NEW n \in Key, RevokeKey(p, n) PROVE KeyKept(k)
  BY <1>3, <1>4 DEF RevokeKey
<1>5. ASSUME NEW n \in Key, Expire(n) PROVE KeyKept(k)
  BY <1>3, <1>5 DEF Expire
<1> QED
  BY <1>1, <1>2, <1>4, <1>5
     DEF Next, vars, Authenticate, BeginCreateKey, CheckRoleCeiling, UpsertRole, DeleteRole, Ends

\* Types are preserved.
LEMMA NextTypeOK == TypeOK /\ IdentitiesAreCopies /\ KeyRolesExist /\ [Next]_vars => TypeOK'
<1> SUFFICES ASSUME TypeOK, IdentitiesAreCopies, KeyRolesExist, [Next]_vars PROVE TypeOK'
  OBVIOUS
<1>0. Idle \in Pending /\ \A p \in Request : req[p] \in Pending
  BY DEF Pending, TypeOK
<1>1. ASSUME NEW p \in Request, NEW k \in Key, Authenticate(p, k) PROVE TypeOK'
  <2>1. keys[k] \in KeyRow /\ rank[keys[k].role] # 0
    BY <1>1 DEF Authenticate, Usable, TypeOK, KeyRolesExist, Minted
  <2>2. rank[keys[k].role] \in Rank
    BY <2>1 DEF TypeOK, KeyRow
  <2>3. [key |-> k, scopes |-> keys[k].scopes, envs |-> keys[k].envs,
         platforms |-> keys[k].platforms, ceiling |-> rank[keys[k].role]] \in Identity
    BY <2>1, <2>2 DEF Identity, KeyRow
  <2>4. [at |-> "handler",
         id |-> [key |-> k, scopes |-> keys[k].scopes, envs |-> keys[k].envs,
                 platforms |-> keys[k].platforms, ceiling |-> rank[keys[k].role]]] \in Pending
    BY <2>3 DEF Pending
  <2> QED
    BY <1>1, <2>4 DEF Authenticate, TypeOK
<1>2. ASSUME NEW p \in Request, NEW body \in Bodies, BeginCreateKey(p, body) PROVE TypeOK'
  <2> DEFINE id == req[p].id
  <2>1. id \in Identity
    BY <1>0, <1>2, PendingShapes DEF BeginCreateKey, Allowed
  <2>2. body \in Body
    BY BodiesAssumption
  <2>3. PICK role \in Role : req' = [req EXCEPT ![p] =
             [at |-> "checkRole", id |-> id,
              new |-> [scopes |-> body.scopes, envs |-> NarrowFilter(body.envs, id.envs),
                       platforms |-> NarrowFilter(body.platforms, id.platforms),
                       role |-> role, by |-> id.key, expires |-> body.expires,
                       expired |-> FALSE, revoked |-> FALSE]]]
    BY <1>2 DEF BeginCreateKey
  <2>4. /\ NarrowFilter(body.envs, id.envs) \in SUBSET Env
        /\ NarrowFilter(body.platforms, id.platforms) \in SUBSET Platform
    BY <2>1, <2>2 DEF NarrowFilter, Identity, Body
  <2>5. [scopes |-> body.scopes, envs |-> NarrowFilter(body.envs, id.envs),
         platforms |-> NarrowFilter(body.platforms, id.platforms),
         role |-> role, by |-> id.key, expires |-> body.expires,
         expired |-> FALSE, revoked |-> FALSE] \in KeyRow
    BY <2>1, <2>2, <2>4 DEF KeyRow, Identity, Body
  <2>6. req'[p] \in Pending /\ req' \in [Request -> Pending]
    BY <2>1, <2>3, <2>5, <1>0 DEF Pending, Minting, TypeOK
  <2> QED
    BY <1>2, <2>6 DEF BeginCreateKey, TypeOK
<1>3. ASSUME NEW p \in Request, CheckRoleCeiling(p) PROVE TypeOK'
  <2>1. req[p].id \in Identity /\ req[p].new \in KeyRow
    BY <1>0, <1>3, PendingShapes DEF CheckRoleCeiling, Minting
  <2>2. [at |-> "insert", id |-> req[p].id, new |-> req[p].new] \in Pending
    BY <2>1 DEF Pending, Minting
  <2> QED
    BY <1>3, <2>2 DEF CheckRoleCeiling, TypeOK
<1>4. ASSUME NEW p \in Request, NEW k \in Key, CreateApiKey(p, k) PROVE TypeOK'
  <2>1. req[p].new \in KeyRow
    BY <1>0, <1>4, PendingShapes DEF CreateApiKey, Minting
  <2> QED
    BY <1>0, <1>4, <2>1 DEF CreateApiKey, TypeOK
<1>5. ASSUME NEW p \in Request, NEW k \in Key, RevokeKey(p, k) PROVE TypeOK'
  <2>1. Revoked(keys[k]) \in KeyRow
    BY <1>5, MarkedRows DEF RevokeKey, TypeOK
  <2> QED
    BY <1>0, <1>5, <2>1 DEF RevokeKey, TypeOK
<1>6. ASSUME NEW p \in Request, NEW r \in Role, NEW n \in Rank, UpsertRole(p, r, n) PROVE TypeOK'
  BY <1>0, <1>6 DEF UpsertRole, TypeOK
<1>7. ASSUME NEW p \in Request, NEW r \in Role, DeleteRole(p, r) PROVE TypeOK'
  BY <1>0, <1>7 DEF DeleteRole, TypeOK
<1>8. ASSUME NEW p \in Request, Ends(p) PROVE TypeOK'
  BY <1>0, <1>8 DEF Ends, TypeOK
<1>9. ASSUME NEW k \in Key, Expire(k) PROVE TypeOK'
  <2>1. Expired(keys[k]) \in KeyRow
    BY <1>9, MarkedRows DEF Expire, TypeOK
  <2> QED
    BY <1>9, <2>1 DEF Expire, TypeOK
<1>10. CASE UNCHANGED vars
  BY <1>10 DEF vars, TypeOK
<1> QED
  BY <1>1, <1>2, <1>3, <1>4, <1>5, <1>6, <1>7, <1>8, <1>9, <1>10 DEF Next

\* Identities stay copies: a key's fences never change, and only authentication
\* and the first step of minting give a request something new to carry.
LEMMA NextIdentities ==
    TypeOK /\ IdentitiesAreCopies /\ NothingOutranksTheFirst /\ [Next]_vars
        => IdentitiesAreCopies'
<1> SUFFICES ASSUME TypeOK, IdentitiesAreCopies, NothingOutranksTheFirst, [Next]_vars,
                    NEW q \in Request, req'[q].at # "idle"
             PROVE  LET id == req'[q].id IN
                    /\ id.key \in Minted'
                    /\ id.envs = keys'[id.key].envs /\ id.platforms = keys'[id.key].platforms
                    /\ \E r \in Role : id.ceiling <= FirstRank[r]
                    /\ req'[q].at \in Minting =>
                          req'[q].new.by = id.key /\ Within(req'[q].new, keys'[id.key])
  BY DEF IdentitiesAreCopies
<1> DEFINE Copied(r) == /\ r.id.key \in Minted
                        /\ r.id.envs = keys[r.id.key].envs
                        /\ r.id.platforms = keys[r.id.key].platforms
                        /\ \E x \in Role : r.id.ceiling <= FirstRank[x]
                        /\ r.at \in Minting =>
                              r.new.by = r.id.key /\ Within(r.new, keys[r.id.key])
<1>0. ASSUME NEW k \in Minted
      PROVE  k \in Minted' /\ keys'[k].envs = keys[k].envs /\ keys'[k].platforms = keys[k].platforms
  BY <1>0, KeysKept DEF KeyKept, Minted
<1>1. ASSUME Copied(req'[q])
      PROVE  LET id == req'[q].id IN
                    /\ id.key \in Minted'
                    /\ id.envs = keys'[id.key].envs /\ id.platforms = keys'[id.key].platforms
                    /\ \E r \in Role : id.ceiling <= FirstRank[r]
                    /\ req'[q].at \in Minting =>
                          req'[q].new.by = id.key /\ Within(req'[q].new, keys'[id.key])
  BY <1>0, <1>1 DEF Within
<1>2. req[q].at # "idle" => Copied(req[q])
  BY DEF IdentitiesAreCopies
<1>3. ASSUME req'[q] = req[q] PROVE Copied(req'[q])
  BY <1>2, <1>3
<1>4. ASSUME NEW p \in Request, NEW k \in Key, Authenticate(p, k) PROVE Copied(req'[q])
  <2>1. CASE p = q
    <3>1. k \in Minted /\ keys[k] \in KeyRow
      BY <1>4 DEF Authenticate, Usable, Minted, TypeOK
    <3>2. \E x \in Role : rank[keys[k].role] <= FirstRank[x]
      BY <3>1 DEF NothingOutranksTheFirst, KeyRow
    <3>3. req'[q] = [at |-> "handler",
          id |-> [key |-> k, scopes |-> keys[k].scopes, envs |-> keys[k].envs,
                  platforms |-> keys[k].platforms, ceiling |-> rank[keys[k].role]]]
      BY <1>4, <2>1 DEF Authenticate, TypeOK
    <3> QED
      BY <3>1, <3>2, <3>3 DEF Minting
  <2>2. CASE p # q
    BY <1>3, <1>4, <2>2 DEF Authenticate, TypeOK
  <2> QED
    BY <2>1, <2>2
<1>5. ASSUME NEW p \in Request, NEW body \in Bodies, BeginCreateKey(p, body)
      PROVE  Copied(req'[q])
  <2>1. CASE p = q
    <3> DEFINE id == req[q].id
    <3>1. req[q].at = "handler" /\ req[q] \in Pending
      BY <1>5, <2>1 DEF BeginCreateKey, Allowed, TypeOK
    <3>2. id \in Identity /\ body \in Body
      BY <3>1, PendingShapes, BodiesAssumption
    <3>3. PICK role \in Role : req'[q] =
             [at |-> "checkRole", id |-> id,
              new |-> [scopes |-> body.scopes, envs |-> NarrowFilter(body.envs, id.envs),
                       platforms |-> NarrowFilter(body.platforms, id.platforms),
                       role |-> role, by |-> id.key, expires |-> body.expires,
                       expired |-> FALSE, revoked |-> FALSE]]
      BY <1>5, <2>1 DEF BeginCreateKey, TypeOK
    <3>4. /\ Reach(NarrowFilter(body.envs, id.envs), Env) \subseteq Reach(id.envs, Env)
          /\ Reach(NarrowFilter(body.platforms, id.platforms), Platform)
                \subseteq Reach(id.platforms, Platform)
      BY <1>5, <2>1, <3>2, NarrowFilterNarrows DEF BeginCreateKey, Identity, Body
    <3>5. Copied(req[q])
      BY <1>2, <3>1
    <3>6. /\ req'[q].id = id /\ req'[q].new.by = id.key
          /\ req'[q].new.envs = NarrowFilter(body.envs, id.envs)
          /\ req'[q].new.platforms = NarrowFilter(body.platforms, id.platforms)
      BY <3>3
    <3>7. Within(req'[q].new, keys[id.key])
      BY <3>4, <3>5, <3>6 DEF Within
    <3> QED
      BY <3>5, <3>6, <3>7
  <2>2. CASE p # q
    BY <1>3, <1>5, <2>2 DEF BeginCreateKey, TypeOK
  <2> QED
    BY <2>1, <2>2
<1>6. ASSUME NEW p \in Request, CheckRoleCeiling(p) PROVE Copied(req'[q])
  <2>1. CASE p = q
    <3>1. req[q].at = "checkRole" /\ Copied(req[q])
      BY <1>2, <1>6, <2>1 DEF CheckRoleCeiling
    <3>2. req'[q] = [at |-> "insert", id |-> req[q].id, new |-> req[q].new]
      BY <1>6, <2>1 DEF CheckRoleCeiling, TypeOK
    <3> QED
      BY <3>1, <3>2 DEF Minting
  <2>2. CASE p # q
    BY <1>3, <1>6, <2>2 DEF CheckRoleCeiling, TypeOK
  <2> QED
    BY <2>1, <2>2
<1>7. ASSUME NEW p \in Request, req' = [req EXCEPT ![p] = Idle] PROVE Copied(req'[q])
  BY <1>3, <1>7 DEF TypeOK, Idle
<1>8. ASSUME req' = req PROVE Copied(req'[q])
  BY <1>3, <1>8
<1> QED
  BY <1>1, <1>4, <1>5, <1>6, <1>7, <1>8
     DEF Next, vars, CreateApiKey, RevokeKey, UpsertRole, DeleteRole, Ends, Expire

\* The row CreateApiKey inserts was narrowed to its creator's fences, which have
\* not changed since.
LEMMA NextFilters ==
    TypeOK /\ IdentitiesAreCopies /\ FiltersOnlyNarrow /\ [Next]_vars => FiltersOnlyNarrow'
<1> SUFFICES ASSUME TypeOK, IdentitiesAreCopies, FiltersOnlyNarrow, [Next]_vars,
                    NEW k \in Minted'
             PROVE  keys'[k].by \in Minted' /\ Within(keys'[k], keys'[keys'[k].by])
  BY DEF FiltersOnlyNarrow
<1>1. CASE k \in Minted
  <2>1. keys[k].by \in Minted /\ Within(keys[k], keys[keys[k].by])
    BY <1>1 DEF FiltersOnlyNarrow
  <2>2. KeyKept(k) /\ KeyKept(keys[k].by)
    BY <1>1, <2>1, KeysKept
  <2> QED
    BY <2>1, <2>2 DEF KeyKept, Within, Minted
<1>2. CASE k \notin Minted
  <2>1. PICK p \in Request, n \in Key : CreateApiKey(p, n)
    BY <1>2 DEF Next, vars, Minted, Authenticate, BeginCreateKey, CheckRoleCeiling, UpsertRole,
         DeleteRole, Ends, RevokeKey, Expire, TypeOK
  <2>2. n = k
    BY <1>2, <2>1 DEF CreateApiKey, Minted, TypeOK
  <2>3. keys'[k] = req[p].new
    BY <2>1, <2>2 DEF CreateApiKey, TypeOK
  <2>4. /\ req[p].id.key \in Minted /\ req[p].new.by = req[p].id.key
        /\ Within(req[p].new, keys[req[p].id.key])
    BY <2>1 DEF CreateApiKey, IdentitiesAreCopies, Minting
  <2>5. KeyKept(req[p].id.key)
    BY <2>4, KeysKept
  <2> QED
    BY <2>3, <2>4, <2>5 DEF KeyKept, Within, Minted
<1> QED
  BY <1>1, <1>2

\* A rank is only ever set below the ceiling of an identity, which was some
\* role's rank when it authenticated.
LEMMA NextRanks ==
    TypeOK /\ IdentitiesAreCopies /\ NothingOutranksTheFirst /\ [Next]_vars
        => NothingOutranksTheFirst'
<1> SUFFICES ASSUME TypeOK, IdentitiesAreCopies, NothingOutranksTheFirst, [Next]_vars
             PROVE  NothingOutranksTheFirst'
  OBVIOUS
<1>1. ASSUME rank' = rank PROVE NothingOutranksTheFirst'
  BY <1>1 DEF NothingOutranksTheFirst
<1>2. ASSUME NEW p \in Request, NEW r \in Role, NEW n \in Rank, UpsertRole(p, r, n)
      PROVE  NothingOutranksTheFirst'
  <2>1. req[p] \in Pending /\ req[p].at = "handler"
    BY <1>2 DEF UpsertRole, Allowed, TypeOK
  <2>2. req[p].id.ceiling \in Rank
    BY <2>1, PendingShapes DEF Identity
  <2>3. PICK q \in Role : req[p].id.ceiling <= FirstRank[q]
    BY <2>1 DEF IdentitiesAreCopies
  <2>4. n <= FirstRank[q]
    <3>1. Rank \subseteq Nat
      BY RankAssumption
    <3>2. n \in Nat /\ req[p].id.ceiling \in Nat /\ FirstRank[q] \in Nat
      BY <2>2, <3>1, RanksAreNumbers
    <3>3. n <= req[p].id.ceiling
      BY <1>2 DEF UpsertRole
    <3> QED
      BY <2>3, <3>2, <3>3
  <2>5. rank' = [rank EXCEPT ![r] = n]
    BY <1>2 DEF UpsertRole
  <2> QED
    BY <2>4, <2>5 DEF NothingOutranksTheFirst, TypeOK
<1>3. ASSUME NEW p \in Request, NEW r \in Role, DeleteRole(p, r)
      PROVE  NothingOutranksTheFirst'
  <2>1. 0 <= FirstRank[r]
    BY RanksAreNumbers
  <2>2. rank' = [rank EXCEPT ![r] = 0]
    BY <1>3 DEF DeleteRole
  <2> QED
    BY <2>1, <2>2 DEF NothingOutranksTheFirst, TypeOK
<1> QED
  BY <1>1, <1>2, <1>3
     DEF Next, vars, Authenticate, BeginCreateKey, CheckRoleCeiling, CreateApiKey, RevokeKey,
         Ends, Expire

\* The foreign key holds both ways: a row is inserted under a role that exists,
\* and a role that caps a row stays.
LEMMA NextKeyRoles ==
    TypeOK /\ KeyRolesExist /\ [Next]_vars => KeyRolesExist'
<1> SUFFICES ASSUME TypeOK, KeyRolesExist, [Next]_vars, NEW k \in Minted'
             PROVE  rank'[keys'[k].role] # 0
  BY DEF KeyRolesExist
<1>1. CASE k \in Minted
  <2>1. keys'[k].role = keys[k].role /\ keys[k].role \in Role /\ rank[keys[k].role] # 0
    BY <1>1, KeysKept DEF KeyKept, KeyRolesExist, Minted, TypeOK, KeyRow
  <2>2. ASSUME NEW p \in Request, NEW r \in Role, NEW n \in Rank, UpsertRole(p, r, n)
        PROVE  rank'[keys[k].role] # 0
    BY <2>1, <2>2, RankAssumption DEF UpsertRole, TypeOK
  <2>3. ASSUME NEW p \in Request, NEW r \in Role, DeleteRole(p, r)
        PROVE  rank'[keys[k].role] # 0
    BY <1>1, <2>1, <2>3 DEF DeleteRole, TypeOK, Minted
  <2> QED
    BY <2>1, <2>2, <2>3 DEF Next, vars, Authenticate, BeginCreateKey, CheckRoleCeiling,
       CreateApiKey, RevokeKey, Ends, Expire
<1>2. CASE k \notin Minted
  <2>1. PICK p \in Request, n \in Key : CreateApiKey(p, n)
    BY <1>2 DEF Next, vars, Minted, Authenticate, BeginCreateKey, CheckRoleCeiling, UpsertRole,
         DeleteRole, Ends, RevokeKey, Expire, TypeOK
  <2>2. n = k
    BY <1>2, <2>1 DEF CreateApiKey, Minted, TypeOK
  <2> QED
    BY <2>1, <2>2 DEF CreateApiKey, TypeOK
<1> QED
  BY <1>1, <1>2

LEMMA InitIInv == Init => IInv
<1> SUFFICES ASSUME Init PROVE IInv
  OBVIOUS
<1> USE DEF Init
<1>1. PICK r \in Role :
        /\ Highest(rank, r)
        /\ keys = [k \in Key |-> IF k = Bootstrap THEN BootstrapRow(r) ELSE None]
  OBVIOUS
<1>2. /\ BootstrapRow(r) \in KeyRow /\ BootstrapRow(r).envs = {} /\ BootstrapRow(r).role = r
      /\ BootstrapRow(r).platforms = {} /\ BootstrapRow(r).by = Bootstrap
  BY KeyAssumption DEF KeyRow, BootstrapScopes, Scope, BootstrapRow
<1>3. keys[Bootstrap] = BootstrapRow(r) /\ Minted = {Bootstrap}
  BY <1>1, <1>2, KeyAssumption DEF Minted
<1>4. TypeOK
  <2>1. Idle \in Pending
    BY DEF Pending
  <2> QED
    BY <1>1, <1>2, <2>1, RankAssumption DEF TypeOK
<1>5. IdentitiesAreCopies
  BY DEF IdentitiesAreCopies, Idle
<1>6. FiltersOnlyNarrow
  BY <1>2, <1>3 DEF FiltersOnlyNarrow, Within
<1>7. NothingOutranksTheFirst
  <2>1. \A q \in Role : rank[q] \in Nat /\ rank[q] = FirstRank[q]
    BY RanksAreNumbers
  <2> QED
    BY <2>1 DEF NothingOutranksTheFirst
<1>8. KeyRolesExist
  BY <1>1, <1>2, <1>3 DEF KeyRolesExist, Highest
<1> QED
  BY <1>4, <1>5, <1>6, <1>7, <1>8 DEF IInv

\* The inductive invariant holds in every reachable state.
THEOREM InductiveInvariant == Spec => []IInv
<1>1. IInv /\ [Next]_vars => IInv'
  BY NextTypeOK, NextIdentities, NextFilters, NextRanks, NextKeyRoles DEF IInv
<1> QED
  BY InitIInv, <1>1, PTL DEF Spec

\* README 356-357: along every chain of keys minting keys, environments and
\* platforms only narrow.
THEOREM ReachNeverWidens == Spec => []FiltersOnlyNarrow
<1>1. IInv => FiltersOnlyNarrow
  BY DEF IInv
<1> QED
  BY <1>1, InductiveInvariant, PTL

\* taxonomy.go 40: no key, however stale what it authenticated with, raises a
\* rank above the highest there was at first boot.
THEOREM RanksStayBelowTheFirst == Spec => []NothingOutranksTheFirst
<1>1. IInv => NothingOutranksTheFirst
  BY DEF IInv
<1> QED
  BY <1>1, InductiveInvariant, PTL

\* Migration 006: the role that caps a key exists as long as the key.
THEOREM KeysAlwaysHaveARank == Spec => []KeyRolesExist
<1>1. IInv => KeyRolesExist
  BY DEF IInv
<1> QED
  BY <1>1, InductiveInvariant, PTL

\* README 354, api_keys.sql 32-33: revocation is permanent, rows survive and
\* grants never change.
THEOREM GrantsNeverChange == Spec => GrantsAreFixed
<1>1. IInv /\ [Next]_vars =>
        [\A k \in Minted :
            /\ keys'[k] # None
            /\ keys[k].revoked => keys'[k].revoked
            /\ keys[k].expired => keys'[k].expired
            /\ \A f \in {"scopes", "envs", "platforms", "role", "by"} :
                  keys'[k][f] = keys[k][f]]_vars
  <2> SUFFICES ASSUME IInv, [Next]_vars, NEW k \in Minted
               PROVE  /\ keys'[k] # None
                      /\ keys[k].revoked => keys'[k].revoked
                      /\ keys[k].expired => keys'[k].expired
                      /\ \A f \in {"scopes", "envs", "platforms", "role", "by"} :
                            keys'[k][f] = keys[k][f]
    OBVIOUS
  <2>1. KeyKept(k)
    BY KeysKept DEF IInv
  <2> QED
    BY <2>1 DEF KeyKept
<1> QED
  BY <1>1, InductiveInvariant, PTL DEF Spec, GrantsAreFixed
=============================================================================
