-------------------------------- MODULE ApiKeys --------------------------------
(***************************************************************************)
(* API keys and the roles that cap them: internal/api/auth.go, keys.go,    *)
(* the roles of taxonomy.go, and tables api_keys and roles.                *)
(*                                                                         *)
(* A request authenticates once.  From then on it carries the identity it  *)
(* read (the key's row joined with its role's rank) while keys are revoked *)
(* or expire and roles are re-ranked or deleted by others.  Minting a key  *)
(* takes up to three more statements: pick the default role, read the      *)
(* granted role's rank, insert the row.                                    *)
(***************************************************************************)
EXTENDS Naturals, FiniteSets

CONSTANTS
    Key,            \* row ids; an id is never used twice
    Bootstrap,      \* the key minted at first boot (see Boot)
    Role, Env, Platform,
    Rank,           \* the ranks roles are given
    FirstRank,      \* FirstRank[r]: the rank of r at first boot; 0 for no such role
    Bodies,         \* the bodies of POST /keys
    Fallback,       \* the role called "user"
    Request,        \* requests in flight
    None            \* no row; a role left out of a body

\* The scopes that guard the operations modelled here.
Scope == {"keys:write", "taxonomy:write"}
BootstrapScopes == {"keys:write"}

\* An environment or platform filter; the empty one filters nothing.
Reach(filter, all) == IF filter = {} THEN all ELSE filter

KeyRow == [scopes : SUBSET Scope, envs : SUBSET Env, platforms : SUBSET Platform,
           role : Role, by : Key, expires : BOOLEAN, expired : BOOLEAN, revoked : BOOLEAN]
Body == [scopes : SUBSET Scope, envs : SUBSET Env, platforms : SUBSET Platform,
         role : Role \union {None}, expires : BOOLEAN]

\* ListRoles orders by rank: its last row, its first row.
Highest(rank, r) == rank[r] # 0 /\ \A q \in Role : rank[q] <= rank[r]
Lowest(rank, r) == rank[r] # 0 /\ \A q \in Role : rank[q] # 0 => rank[r] <= rank[q]

ASSUME RankAssumption ==
    /\ Rank \subseteq Nat \ {0}
    /\ FirstRank \in [Role -> Rank \union {0}]
    /\ \A r, q \in Role : FirstRank[r] = FirstRank[q] /\ FirstRank[r] # 0 => r = q
    /\ \E r \in Role : Highest(FirstRank, r)
ASSUME KeyAssumption ==
    Bootstrap \in Key /\ None \notin KeyRow /\ None \notin Role /\ Fallback \in Role
ASSUME BodiesAssumption == Bodies \subseteq Body

VARIABLES
    rank,       \* rank[r]: the role's rank; 0 when there is no such role
    keys,       \* keys[k]: the row, or None
    req         \* req[p]: the request p is serving

vars == <<rank, keys, req>>

Idle == [at |-> "idle"]

\* What authenticate attaches to a request.
Identity == [key : Key, scopes : SUBSET Scope, envs : SUBSET Env,
             platforms : SUBSET Platform, ceiling : Rank]

\* "handler": authenticated.  "checkRole", "insert": minting the key new.
Minting == {"checkRole", "insert"}
Pending ==
    {Idle}
    \union [at : {"handler"}, id : Identity]
    \union [at : Minting, id : Identity, new : KeyRow]

TypeOK ==
    /\ rank \in [Role -> Rank \union {0}]
    /\ keys \in [Key -> KeyRow \union {None}]
    /\ req \in [Request -> Pending]

\* What EnsureBootstrapKey stored, capped by the highest role.
BootstrapRow(r) ==
    [scopes |-> BootstrapScopes, envs |-> {}, platforms |-> {}, role |-> r, by |-> Bootstrap,
     expires |-> FALSE, expired |-> FALSE, revoked |-> FALSE]

Init ==
    /\ rank = FirstRank
    /\ \E r \in Role :
        /\ Highest(rank, r)
        /\ keys = [k \in Key |-> IF k = Bootstrap THEN BootstrapRow(r) ELSE None]
    /\ req = [p \in Request |-> Idle]

-----------------------------------------------------------------------------
Usable(k) == keys[k] # None /\ ~keys[k].revoked /\ ~keys[k].expired

\* GetApiKeyForAuth: the row and its role's rank, read together.
Authenticate(p, k) ==
    /\ req[p] = Idle
    /\ Usable(k)
    /\ req' = [req EXCEPT ![p] =
         [at |-> "handler",
          id |-> [key |-> k, scopes |-> keys[k].scopes, envs |-> keys[k].envs,
                  platforms |-> keys[k].platforms, ceiling |-> rank[keys[k].role]]]]
    /\ UNCHANGED <<rank, keys>>

\* requireScope, on a request that has authenticated.
Allowed(p, scope) == req[p].at = "handler" /\ scope \in req[p].id.scopes

\* Mutants of narrowFilter: nothing is refused; a body that asks for nothing gets
\* an empty filter.
NothingRefused(asked, creator) == TRUE
AskedFilter(asked, creator) == asked

\* narrowFilter: what an unrestricted creator asks for is granted; a fenced one
\* grants part of its fence, and all of it to a body that asks for nothing.
Narrowable(asked, creator) == creator = {} \/ asked \subseteq creator
NarrowFilter(asked, creator) == IF asked = {} THEN creator ELSE asked

\* handleCreateKey up to its first look at the granted role; a body that names
\* no role asks for the lowest one there is now, or for "user" when that read fails.
BeginCreateKey(p, body) ==
    LET id == req[p].id IN
    /\ Allowed(p, "keys:write")
    /\ body.scopes # {}
    /\ Narrowable(body.envs, id.envs)
    /\ Narrowable(body.platforms, id.platforms)
    /\ \E role \in Role :
        /\ IF body.role = None THEN Lowest(rank, role) \/ role = Fallback ELSE role = body.role
        /\ req' = [req EXCEPT ![p] =
             [at |-> "checkRole", id |-> id,
              new |-> [scopes |-> body.scopes, envs |-> NarrowFilter(body.envs, id.envs),
                       platforms |-> NarrowFilter(body.platforms, id.platforms),
                       role |-> role, by |-> id.key, expires |-> body.expires,
                       expired |-> FALSE, revoked |-> FALSE]]]
    /\ UNCHANGED <<rank, keys>>

\* GetRole: the role must exist and not outrank the identity.
CheckRoleCeiling(p) ==
    LET r == req[p] IN
    /\ r.at = "checkRole"
    /\ rank[r.new.role] # 0
    /\ rank[r.new.role] <= r.id.ceiling
    /\ req' = [req EXCEPT ![p] = [at |-> "insert", id |-> r.id, new |-> r.new]]
    /\ UNCHANGED <<rank, keys>>

\* The insert; the foreign key wants the role to be there still.
CreateApiKey(p, k) ==
    LET r == req[p] IN
    /\ r.at = "insert"
    /\ keys[k] = None
    /\ rank[r.new.role] # 0
    /\ keys' = [keys EXCEPT ![k] = r.new]
    /\ req' = [req EXCEPT ![p] = Idle]
    /\ UNCHANGED rank

Revoked(row) ==
    [scopes |-> row.scopes, envs |-> row.envs, platforms |-> row.platforms, role |-> row.role,
     by |-> row.by, expires |-> row.expires, expired |-> row.expired, revoked |-> TRUE]

\* Mutant of RevokeKey: the row goes.
RevokeDeletesRow(p, k) ==
    /\ Allowed(p, "keys:write")
    /\ k # req[p].id.key
    /\ keys[k] # None /\ ~keys[k].revoked
    /\ keys' = [keys EXCEPT ![k] = None]
    /\ req' = [req EXCEPT ![p] = Idle]
    /\ UNCHANGED rank

\* handleRevokeKey: one statement after authentication, on any other key.
RevokeKey(p, k) ==
    /\ Allowed(p, "keys:write")
    /\ k # req[p].id.key
    /\ keys[k] # None /\ ~keys[k].revoked
    /\ keys' = [keys EXCEPT ![k] = Revoked(@)]
    /\ req' = [req EXCEPT ![p] = Idle]
    /\ UNCHANGED rank

\* Mutant of UpsertRole: the ceiling is not looked at.
UpsertRoleUncapped(p, r, n) ==
    /\ Allowed(p, "taxonomy:write")
    /\ \A q \in Role \ {r} : rank[q] # n
    /\ rank' = [rank EXCEPT ![r] = n]
    /\ req' = [req EXCEPT ![p] = Idle]
    /\ UNCHANGED keys

\* handleUpsertRole: no role is given a rank above the identity's, nor a rank
\* another role has.
UpsertRole(p, r, n) ==
    /\ Allowed(p, "taxonomy:write")
    /\ n <= req[p].id.ceiling
    /\ \A q \in Role \ {r} : rank[q] # n
    /\ rank' = [rank EXCEPT ![r] = n]
    /\ req' = [req EXCEPT ![p] = Idle]
    /\ UNCHANGED keys

\* Mutant of DeleteRole: revoked keys do not hold on to their role.
DeleteRoleOfRevoked(p, r) ==
    /\ Allowed(p, "taxonomy:write")
    /\ rank[r] # 0
    /\ \A k \in Key : keys[k] # None /\ ~keys[k].revoked => keys[k].role # r
    /\ rank' = [rank EXCEPT ![r] = 0]
    /\ req' = [req EXCEPT ![p] = Idle]
    /\ UNCHANGED keys

\* handleDeleteRole: refused while a key, revoked or not, is capped by the role.
DeleteRole(p, r) ==
    /\ Allowed(p, "taxonomy:write")
    /\ rank[r] # 0
    /\ \A k \in Key : keys[k] # None => keys[k].role # r
    /\ rank' = [rank EXCEPT ![r] = 0]
    /\ req' = [req EXCEPT ![p] = Idle]
    /\ UNCHANGED keys

\* The request ends without a write: it only reads, it is refused, a statement
\* fails or the client hangs up.
Ends(p) ==
    /\ req[p] # Idle
    /\ req' = [req EXCEPT ![p] = Idle]
    /\ UNCHANGED <<rank, keys>>

Expired(row) ==
    [scopes |-> row.scopes, envs |-> row.envs, platforms |-> row.platforms, role |-> row.role,
     by |-> row.by, expires |-> row.expires, expired |-> TRUE, revoked |-> row.revoked]

\* expires_at goes by.
Expire(k) ==
    /\ keys[k] # None /\ keys[k].expires /\ ~keys[k].expired
    /\ keys' = [keys EXCEPT ![k] = Expired(@)]
    /\ UNCHANGED <<rank, req>>

Next ==
    \/ \E p \in Request :
        \/ \E k \in Key : Authenticate(p, k)
        \/ \E body \in Bodies : BeginCreateKey(p, body)
        \/ CheckRoleCeiling(p)
        \/ \E k \in Key : CreateApiKey(p, k)
        \/ \E k \in Key : RevokeKey(p, k)
        \/ \E r \in Role, n \in Rank : UpsertRole(p, r, n)
        \/ \E r \in Role : DeleteRole(p, r)
        \/ Ends(p)
    \/ \E k \in Key : Expire(k)

Spec == Init /\ [][Next]_vars

-----------------------------------------------------------------------------
Minted == {k \in Key : keys[k] # None}

Within(a, b) ==
    /\ Reach(a.envs, Env) \subseteq Reach(b.envs, Env)
    /\ Reach(a.platforms, Platform) \subseteq Reach(b.platforms, Platform)

\* README 356-357: no key reaches an environment or platform its creator does
\* not, and so on up to the bootstrap key; also while it is being minted.
FiltersOnlyNarrow ==
    \A k \in Minted : keys[k].by \in Minted /\ Within(keys[k], keys[keys[k].by])

\* taxonomy.go 40: keys cannot raise a rank above the highest there was at first
\* boot, however old the identity they act with.
NothingOutranksTheFirst ==
    \A r \in Role : \E q \in Role : rank[r] <= FirstRank[q]

\* Migration 006: the role that caps a key exists as long as the key, so a key
\* can always be authenticated against a rank.
KeyRolesExist == \A k \in Minted : rank[keys[k].role] # 0

\* api_keys.sql 32-33, README 354: revocation is permanent, rows stay for the
\* audit, and what a key was granted never changes.
GrantsAreFixed ==
    [][\A k \in Minted :
        /\ keys'[k] # None
        /\ keys[k].revoked => keys'[k].revoked
        /\ keys[k].expired => keys'[k].expired
        /\ \A f \in {"scopes", "envs", "platforms", "role", "by"} :
              keys'[k][f] = keys[k][f]]_vars

\* What a request carries agrees with the rows: fences are copies of the
\* key's, and a row about to be inserted is already narrowed.
IdentitiesAreCopies ==
    \A p \in Request : req[p].at # "idle" =>
        LET id == req[p].id IN
        /\ id.key \in Minted
        /\ id.envs = keys[id.key].envs /\ id.platforms = keys[id.key].platforms
        /\ \E q \in Role : id.ceiling <= FirstRank[q]
        /\ req[p].at \in Minting =>
              req[p].new.by = id.key /\ Within(req[p].new, keys[id.key])

\* The inductive invariant the proofs use (ApiKeysProofs).
IInv ==
    /\ TypeOK
    /\ IdentitiesAreCopies
    /\ FiltersOnlyNarrow
    /\ NothingOutranksTheFirst
    /\ KeyRolesExist
=============================================================================
