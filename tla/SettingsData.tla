----------------------------- MODULE SettingsData -----------------------------
(***************************************************************************)
(* The settings, their values in three layers, groups and roles: the       *)
(* PostgreSQL tables of migrations 002 to 005 and the handlers of          *)
(* internal/api/settings.go, values.go, groups.go and taxonomy.go.         *)
(*                                                                         *)
(* A handler is a goroutine that runs one SQL statement at a time outside  *)
(* of any transaction: it loads the row named in the path, decides, writes *)
(* and then invalidates the cache.  Requests interleave between those      *)
(* statements.  A request holds what it loaded (the row may have changed   *)
(* since), and what it still has to invalidate.                            *)
(*                                                                         *)
(* Callers hold an unfenced key of the highest rank: fences and rank       *)
(* ceilings only refuse requests.                                          *)
(***************************************************************************)
EXTENDS Naturals, FiniteSets, Resolution

CONSTANTS
    Setting, Group,     \* row ids; an id is never used twice
    User, Env, Platform, Role,
    Config,             \* type_config values
    Value,              \* JSON values in canonical form
    Accepts,            \* Accepts[c]: the values that validate under config c
    Rank,               \* the ranks roles are given
    FirstRank,          \* FirstRank[r]: the rank of r at the start; 0 for no such role
    Priority,           \* the priorities groups are given
    Omitted,            \* a field that a PATCH body leaves out
    NewSettings,        \* the bodies of POST /settings that clients send
    Patches,            \* the bodies of PATCH /settings/:id
    NewGroups,          \* the bodies of POST /groups
    Overrides,          \* the bodies of PUT .../intermediate/:group_id
    Request,            \* requests in flight
    Ops                 \* the operations clients use in this instance

Scope == {"SERVER", "INTERMEDIATE", "PERSONAL"}
SettingRow == [scope : Scope, env : Env, platform : Platform, role : Role,
               config : Config, default : Value \union {None}]
GroupRow == [env : Env \union {AnyEnv}, priority : Priority, created : Nat]
Override == [value : Value, visible : BOOLEAN, enforced : BOOLEAN]
OverrideBlock == [group : Group, enforced : BOOLEAN, visible : BOOLEAN,
                  replaced : Value \union {None}]

\* valuetype.Validate, and the default's check in normaliseDefinition.
Valid(config, v) == v \in Accepts[config]
ValidDefault(config, v) == v = None \/ Valid(config, v)

ASSUME AcceptsAssumption == Accepts \in [Config -> SUBSET Value]
ASSUME NoneAssumption ==
    /\ None \notin SettingRow \union GroupRow \union Override \union Value
    /\ None \notin Group \union OverrideBlock
    /\ AnyEnv \notin Env
\* No JSON value is the only one.
ASSUME ValueAssumption == \A v \in Value : \E w \in Value : w # v
ASSUME NewSettingsAssumption == NewSettings \subseteq SettingRow
ASSUME PatchesAssumption ==
    /\ Omitted \notin Config \union Value \union Role \union {None}
    /\ Patches \subseteq [config : Config \union {Omitted}, role : Role \union {Omitted},
                          default : Value \union {None, Omitted}]
ASSUME NewGroupsAssumption ==
    NewGroups \subseteq [env : Env \union {AnyEnv}, priority : Priority]
ASSUME OverridesAssumption == Overrides \subseteq Override
ASSUME RankAssumption ==
    /\ Rank \subseteq Nat \ {0} /\ Priority \subseteq Nat
    /\ FirstRank \in [Role -> Rank \union {0}]
    /\ \A r, q \in Role : FirstRank[r] = FirstRank[q] /\ FirstRank[r] # 0 => r = q

VARIABLES
    settings,   \* settings[s]: the row, or None
    rank,       \* rank[r]: the role's rank; 0 when there is no such role
    groups,     \* groups[g]: the row, or None
    members,    \* group_members
    server, personal, overrides,    \* the three value tables
    born,       \* ids already given to a row
    req         \* req[p]: the request p is serving

tables == <<settings, rank, groups, members, server, personal, overrides>>
values == <<server, personal, overrides>>
vars == <<settings, rank, groups, members, server, personal, overrides, born, req>>

Defined == {s \in Setting : settings[s] # None}

\* What a request can be doing.  s, g, u, e: the setting, group and user it
\* names and the environment it loaded; v: what it will write.
Idle == [at |-> "idle"]
Field == {"config", "default", "role"}
Columns == [config : Config, default : Value \union {None}, role : Role]
Pending ==
    {Idle}
    \union [at : {"invalidate"}, owes : SUBSET Env]
    \union [at : {"putServer"}, s : Setting, e : Env, v : Value]
    \union [at : {"deleteServer"}, s : Setting, e : Env]
    \union [at : {"putPersonal"}, s : Setting, e : Env, u : User, v : Value]
    \union [at : {"deletePersonal"}, s : Setting, e : Env, u : User]
    \union [at : {"putIntermediate"}, s : Setting, e : Env, g : Group, v : Override]
    \union [at : {"deleteIntermediate"}, s : Setting, e : Env, g : Group]
    \union [at : {"updateSetting"}, s : Setting, e : Env, v : Columns,
            named : SUBSET Field]
    \union [at : {"countValues"}, s : Setting, e : Env]
    \union [at : {"deleteSetting"}, s : Setting, e : Env, confirmed : BOOLEAN]
    \union [at : {"updateGroup"}, g : Group, e : Env \union {AnyEnv}, v : Priority]
    \union [at : {"deleteGroup"}, g : Group, e : Env \union {AnyEnv}]
    \union [at : {"addMembers", "removeMembers"}, g : Group,
            e : Env \union {AnyEnv}, users : SUBSET User]

TypeOK ==
    /\ settings \in [Setting -> SettingRow \union {None}]
    /\ rank \in [Role -> Rank \union {0}]
    /\ groups \in [Group -> GroupRow \union {None}]
    /\ members \subseteq Group \X User
    /\ server \in [Setting -> Value \union {None}]
    /\ personal \in [User -> [Setting -> Value \union {None}]]
    /\ overrides \in [Group -> [Setting -> Override \union {None}]]
    /\ born \subseteq Setting \union Group /\ IsFiniteSet(born)
    /\ req \in [Request -> Pending]
Init ==
    /\ settings = [s \in Setting |-> None]
    /\ rank = FirstRank
    /\ groups = [g \in Group |-> None]
    /\ members = {}
    /\ server = [s \in Setting |-> None]
    /\ personal = [u \in User |-> [s \in Setting |-> None]]
    /\ overrides = [g \in Group |-> [s \in Setting |-> None]]
    /\ born = {}
    /\ req = [p \in Request |-> Idle]

-----------------------------------------------------------------------------
\* A handler that has loaded its row goes on to its next statement.
Begin(p, r) ==
    /\ req[p] = Idle
    /\ r.at \in Ops
    /\ req' = [req EXCEPT ![p] = r]
    /\ UNCHANGED <<tables, born>>

\* The write is committed; the cache of these environments is dropped next.
Wrote(p, E) == req' = [req EXCEPT ![p] = [at |-> "invalidate", owes |-> E]]

\* The environments a group change could affect (invalidateGroup).
Affected(e) == IF e = AnyEnv THEN Env ELSE {e}

\* The statement fails: the row is gone, a constraint or a trigger refuses it,
\* the connection is lost or the client has hung up.  Nothing was written.
StoreFails(p) ==
    /\ req[p].at \notin {"idle", "invalidate"}
    /\ req' = [req EXCEPT ![p] = Idle]
    /\ UNCHANGED <<tables, born>>

\* Server.invalidate, after which the response is sent (see ResolutionCache).
Invalidate(p) ==
    /\ req[p].at = "invalidate"
    /\ req' = [req EXCEPT ![p] = Idle]
    /\ UNCHANGED <<tables, born>>

-----------------------------------------------------------------------------
(* Definitions: settings.go.                                               *)

\* handleCreateSetting: a new row, its default checked against its rules.
CreateSetting(p, s, row) ==
    /\ "createSetting" \in Ops
    /\ req[p] = Idle
    /\ s \notin born
    /\ ValidDefault(row.config, row.default)
    /\ rank[row.role] # 0
    /\ settings' = [settings EXCEPT ![s] = row]
    /\ born' = born \union {s}
    /\ Wrote(p, {row.env})
    /\ UNCHANGED <<rank, groups, members, values>>

\* handleUpdateSetting up to its UPDATE: the fields the body names replace
\* those of the row it loaded, and the pair of rules and default is checked.
MergePatch(row, patch) ==
    [config  |-> IF patch.config = Omitted THEN row.config ELSE patch.config,
     default |-> IF patch.default = Omitted THEN row.default ELSE patch.default,
     role    |-> IF patch.role = Omitted THEN row.role ELSE patch.role]

BeginUpdateSetting(p, s, patch) ==
    /\ settings[s] # None
    /\ LET merged == MergePatch(settings[s], patch) IN
        /\ ValidDefault(merged.config, merged.default)
        /\ Begin(p, [at |-> "updateSetting", s |-> s, e |-> settings[s].env, v |-> merged,
                     named |-> {f \in Field : patch[f] # Omitted}])

\* The UPDATE writes every column it may write, named by the body or not.
Updated(row, columns) ==
    [scope |-> row.scope, env |-> row.env, platform |-> row.platform, role |-> columns.role,
     config |-> columns.config, default |-> columns.default]

\* Mutant of UpdateSetting: only the named columns are written.
UpdateNamedColumns(p) ==
    LET r == req[p] IN
    /\ r.at = "updateSetting"
    /\ settings[r.s] # None
    /\ rank[r.v.role] # 0
    /\ LET now == [f \in Field |-> IF f \in r.named THEN r.v[f] ELSE settings[r.s][f]]
       IN settings' = [settings EXCEPT ![r.s] = Updated(@, now)]
    /\ Wrote(p, {r.e})
    /\ UNCHANGED <<rank, groups, members, values, born>>

UpdateSetting(p) ==
    LET r == req[p] IN
    /\ r.at = "updateSetting"
    /\ settings[r.s] # None
    /\ rank[r.v.role] # 0
    /\ settings' = [settings EXCEPT ![r.s] = Updated(@, r.v)]
    /\ Wrote(p, {r.e})
    /\ UNCHANGED <<rank, groups, members, values, born>>

\* handleDeleteSetting: unless confirmed by ?cascade=true, count first.
BeginDeleteSetting(p, s, confirmed) ==
    /\ settings[s] # None
    /\ Begin(p, IF confirmed
                THEN [at |-> "deleteSetting", s |-> s, e |-> settings[s].env,
                      confirmed |-> TRUE]
                ELSE [at |-> "countValues", s |-> s, e |-> settings[s].env])

HasValues(s) ==
    \/ server[s] # None
    \/ \E u \in User : personal[u][s] # None
    \/ \E g \in Group : overrides[g][s] # None

\* CountSettingValues: values found refuse the delete.
CountValues(p) ==
    LET r == req[p] IN
    /\ r.at = "countValues"
    /\ req' = [req EXCEPT ![p] =
                 IF HasValues(r.s) THEN Idle
                 ELSE [at |-> "deleteSetting", s |-> r.s, e |-> r.e, confirmed |-> FALSE]]
    /\ UNCHANGED <<tables, born>>

\* The DELETE and its cascade.  Deleting a row that is gone is not an error.
DeleteSetting(p) ==
    LET r == req[p] IN
    /\ r.at = "deleteSetting"
    /\ settings' = [settings EXCEPT ![r.s] = None]
    /\ server' = [server EXCEPT ![r.s] = None]
    /\ personal' = [u \in User |-> [personal[u] EXCEPT ![r.s] = None]]
    /\ overrides' = [g \in Group |-> [overrides[g] EXCEPT ![r.s] = None]]
    /\ Wrote(p, {r.e})
    /\ UNCHANGED <<rank, groups, members, born>>

-----------------------------------------------------------------------------
(* Values: values.go.                                                      *)

\* scopeAllowsLayer, and the trigger assert_layer_allowed of migration 005.
ScopeAllowsLayer(scope, layer) ==
    CASE layer = "server"       -> TRUE
      [] layer = "intermediate" -> scope \in {"INTERMEDIATE", "PERSONAL"}
      [] layer = "personal"     -> scope = "PERSONAL"

\* valueWriteContext: the setting is loaded, its scope must permit the layer
\* and the value must validate under the rules that were loaded.
ValueWriteContext(p, s, layer, v, r) ==
    /\ settings[s] # None
    /\ ScopeAllowsLayer(settings[s].scope, layer)
    /\ Valid(settings[s].config, v)
    /\ Begin(p, r)

BeginPutServer(p, s, v) ==
    ValueWriteContext(p, s, "server", v,
        [at |-> "putServer", s |-> s, e |-> settings[s].env, v |-> v])

BeginPutPersonal(p, s, u, v) ==
    ValueWriteContext(p, s, "personal", v,
        [at |-> "putPersonal", s |-> s, e |-> settings[s].env, u |-> u, v |-> v])

BeginPutIntermediate(p, s, g, o) ==
    ValueWriteContext(p, s, "intermediate", o.value,
        [at |-> "putIntermediate", s |-> s, e |-> settings[s].env, g |-> g, v |-> o])

\* Mutants of the triggers: no foreign key; environments not compared.
LayerAllowedUnlessGone(s, layer) ==
    settings[s] = None \/ ScopeAllowsLayer(settings[s].scope, layer)

AnyGroupMatches(g, s) == groups[g] # None

\* BEFORE INSERT OR UPDATE triggers and the foreign key to settings.
AssertLayerAllowed(s, layer) ==
    settings[s] # None /\ ScopeAllowsLayer(settings[s].scope, layer)

AssertGroupEnvironmentMatches(g, s) ==
    groups[g] # None /\ groups[g].env \in {AnyEnv, settings[s].env}

PutServer(p) ==
    LET r == req[p] IN
    /\ r.at = "putServer"
    /\ AssertLayerAllowed(r.s, "server")
    /\ server' = [server EXCEPT ![r.s] = r.v]
    /\ Wrote(p, {r.e})
    /\ UNCHANGED <<settings, rank, groups, members, personal, overrides, born>>

PutPersonal(p) ==
    LET r == req[p] IN
    /\ r.at = "putPersonal"
    /\ AssertLayerAllowed(r.s, "personal")
    /\ personal' = [personal EXCEPT ![r.u][r.s] = r.v]
    /\ Wrote(p, {r.e})
    /\ UNCHANGED <<settings, rank, groups, members, server, overrides, born>>

PutIntermediate(p) ==
    LET r == req[p] IN
    /\ r.at = "putIntermediate"
    /\ AssertLayerAllowed(r.s, "intermediate")
    /\ AssertGroupEnvironmentMatches(r.g, r.s)
    /\ overrides' = [overrides EXCEPT ![r.g][r.s] = r.v]
    /\ Wrote(p, {r.e})
    /\ UNCHANGED <<settings, rank, groups, members, server, personal, born>>

\* Deletes load the setting only; removing no row is a 404 and no invalidation.
BeginDeleteServer(p, s) ==
    /\ settings[s] # None
    /\ Begin(p, [at |-> "deleteServer", s |-> s, e |-> settings[s].env])

BeginDeletePersonal(p, s, u) ==
    /\ settings[s] # None
    /\ Begin(p, [at |-> "deletePersonal", s |-> s, e |-> settings[s].env, u |-> u])

BeginDeleteIntermediate(p, s, g) ==
    /\ settings[s] # None
    /\ Begin(p, [at |-> "deleteIntermediate", s |-> s, e |-> settings[s].env, g |-> g])

DeleteServer(p) ==
    LET r == req[p] IN
    /\ r.at = "deleteServer"
    /\ server[r.s] # None
    /\ server' = [server EXCEPT ![r.s] = None]
    /\ Wrote(p, {r.e})
    /\ UNCHANGED <<settings, rank, groups, members, personal, overrides, born>>

DeletePersonal(p) ==
    LET r == req[p] IN
    /\ r.at = "deletePersonal"
    /\ personal[r.u][r.s] # None
    /\ personal' = [personal EXCEPT ![r.u][r.s] = None]
    /\ Wrote(p, {r.e})
    /\ UNCHANGED <<settings, rank, groups, members, server, overrides, born>>

DeleteIntermediate(p) ==
    LET r == req[p] IN
    /\ r.at = "deleteIntermediate"
    /\ overrides[r.g][r.s] # None
    /\ overrides' = [overrides EXCEPT ![r.g][r.s] = None]
    /\ Wrote(p, {r.e})
    /\ UNCHANGED <<settings, rank, groups, members, server, personal, born>>

-----------------------------------------------------------------------------
(* Groups: groups.go.                                                      *)

\* handleCreateGroup: the group and its first members in one transaction.
CreateGroup(p, g, row, users) ==
    /\ "createGroup" \in Ops
    /\ req[p] = Idle
    /\ g \notin born
    /\ groups' = [groups EXCEPT ![g] =
                    [env |-> row.env, priority |-> row.priority,
                     created |-> Cardinality(born \intersect Group)]]
    /\ members' = members \union ({g} \X users)
    /\ born' = born \union {g}
    /\ Wrote(p, Affected(row.env))
    /\ UNCHANGED <<settings, rank, values>>

\* groupForRequest loads the row; the operation follows.
BeginUpdateGroup(p, g, priority) ==
    /\ groups[g] # None
    /\ Begin(p, [at |-> "updateGroup", g |-> g, e |-> groups[g].env, v |-> priority])

BeginDeleteGroup(p, g) ==
    /\ groups[g] # None
    /\ Begin(p, [at |-> "deleteGroup", g |-> g, e |-> groups[g].env])

MembershipRequest(p, g, op, users) ==
    /\ groups[g] # None
    /\ users # {}
    /\ Begin(p, [at |-> op, g |-> g, e |-> groups[g].env, users |-> users])

UpdateGroup(p) ==
    LET r == req[p] IN
    /\ r.at = "updateGroup"
    /\ groups[r.g] # None
    /\ groups' = [groups EXCEPT ![r.g] =
                    [env |-> @.env, priority |-> r.v, created |-> @.created]]
    /\ Wrote(p, Affected(r.e))
    /\ UNCHANGED <<settings, rank, members, values, born>>

\* The DELETE cascades to members and overrides; none to delete is no error.
DeleteGroup(p) ==
    LET r == req[p] IN
    /\ r.at = "deleteGroup"
    /\ groups' = [groups EXCEPT ![r.g] = None]
    /\ members' = {m \in members : m[1] # r.g}
    /\ overrides' = [overrides EXCEPT ![r.g] = [s \in Setting |-> None]]
    /\ Wrote(p, Affected(r.e))
    /\ UNCHANGED <<settings, rank, server, personal, born>>

\* Mutant of AddGroupMembers: the handler forgets to invalidate.
AddMembersSilently(p) ==
    LET r == req[p] IN
    /\ r.at = "addMembers"
    /\ groups[r.g] # None
    /\ members' = members \union ({r.g} \X r.users)
    /\ req' = [req EXCEPT ![p] = Idle]
    /\ UNCHANGED <<settings, rank, groups, values, born>>

AddGroupMembers(p) ==
    LET r == req[p] IN
    /\ r.at = "addMembers"
    /\ groups[r.g] # None
    /\ members' = members \union ({r.g} \X r.users)
    /\ Wrote(p, Affected(r.e))
    /\ UNCHANGED <<settings, rank, groups, values, born>>

RemoveGroupMembers(p) ==
    LET r == req[p] IN
    /\ r.at = "removeMembers"
    /\ members' = members \ ({r.g} \X r.users)
    /\ Wrote(p, Affected(r.e))
    /\ UNCHANGED <<settings, rank, groups, values, born>>

-----------------------------------------------------------------------------
(* Roles: taxonomy.go.  One statement each, and no invalidation.           *)

UpsertRole(r, n) ==
    /\ "upsertRole" \in Ops
    /\ \A q \in Role \ {r} : rank[q] # n
    /\ rank' = [rank EXCEPT ![r] = n]
    /\ UNCHANGED <<settings, groups, members, values, born, req>>

\* The foreign key refuses to remove a role a setting is declared for.
DeleteRole(r) ==
    /\ "deleteRole" \in Ops
    /\ rank[r] # 0
    /\ r \notin {settings[s].role : s \in Defined}
    /\ rank' = [rank EXCEPT ![r] = 0]
    /\ UNCHANGED <<settings, groups, members, values, born, req>>

-----------------------------------------------------------------------------
Definitions(p) ==
    \/ \E s \in Setting :
        \/ \E row \in NewSettings : CreateSetting(p, s, row)
        \/ \E patch \in Patches : BeginUpdateSetting(p, s, patch)
        \/ \E confirmed \in BOOLEAN : BeginDeleteSetting(p, s, confirmed)
    \/ UpdateSetting(p)
    \/ CountValues(p)
    \/ DeleteSetting(p)

ValueWrites(p) ==
    \/ \E s \in Setting :
        \/ \E v \in Value : BeginPutServer(p, s, v)
        \/ \E u \in User, v \in Value : BeginPutPersonal(p, s, u, v)
        \/ \E g \in Group, o \in Overrides : BeginPutIntermediate(p, s, g, o)
        \/ BeginDeleteServer(p, s)
        \/ \E u \in User : BeginDeletePersonal(p, s, u)
        \/ \E g \in Group : BeginDeleteIntermediate(p, s, g)
    \/ PutServer(p)
    \/ PutPersonal(p)
    \/ PutIntermediate(p)
    \/ DeleteServer(p)
    \/ DeletePersonal(p)
    \/ DeleteIntermediate(p)

GroupWrites(p) ==
    \/ \E g \in Group :
        \/ \E row \in NewGroups, users \in SUBSET User : CreateGroup(p, g, row, users)
        \/ \E n \in Priority : BeginUpdateGroup(p, g, n)
        \/ BeginDeleteGroup(p, g)
        \/ \E op \in {"addMembers", "removeMembers"}, users \in SUBSET User :
                MembershipRequest(p, g, op, users)
    \/ UpdateGroup(p)
    \/ DeleteGroup(p)
    \/ AddGroupMembers(p)
    \/ RemoveGroupMembers(p)

RoleWrites ==
    \E r \in Role : DeleteRole(r) \/ \E n \in Rank : UpsertRole(r, n)

Next ==
    \/ \E p \in Request :
        \/ Definitions(p)
        \/ ValueWrites(p)
        \/ GroupWrites(p)
        \/ StoreFails(p)
        \/ Invalidate(p)
    \/ RoleWrites

Spec == Init /\ [][Next]_vars

-----------------------------------------------------------------------------
(* What the stored rows promise.                                           *)

\* settings.go 120-121: a definition is never stored in a state where its own
\* default is invalid, whatever updates of rules and default cross each other.
DefaultValid ==
    \A s \in Defined : ValidDefault(settings[s].config, settings[s].default)

\* migration 003: the scope is the highest layer allowed to hold a value, and
\* 005: a group restricted to one environment only overrides settings in it.
\* Whatever requests were in flight when the rows were written.
StoredWithinScope ==
    \A s \in Defined :
        /\ \A u \in User : personal[u][s] # None => settings[s].scope = "PERSONAL"
        /\ \A g \in Group : overrides[g][s] # None =>
              /\ settings[s].scope # "SERVER"
              /\ groups[g].env \in {AnyEnv, settings[s].env}

\* Cascades and foreign keys: no value, override, membership or role reference
\* outlives the row it belongs to, even when the writer had loaded that row
\* before it was deleted.
NoOrphans ==
    /\ \A s \in Setting \ Defined : ~HasValues(s)
    /\ \A s \in Defined : rank[settings[s].role] # 0
    /\ \A g \in Group : groups[g] = None =>
          (\A s \in Setting : overrides[g][s] = None) /\ (\A u \in User : <<g, u>> \notin members)

\* What makes the three inductive: a request about to write its columns wrote
\* down a pair that validates, and rows only take ids that were never used.
PendingUpdatesValid ==
    \A p \in Request : req[p].at = "updateSetting" =>
        ValidDefault(req[p].v.config, req[p].v.default)
RowsAreBorn ==
    /\ Defined \subseteq born
    /\ \A g \in Group : groups[g] # None => g \in born


\* What makes resolutions well defined and their changes announced: no two
\* groups were created at the same time, and the environment a request loaded is
\* still that of the row it names.
CreatedApart ==
    \A g \in Group : groups[g] # None =>
        /\ groups[g].created < Cardinality(born \intersect Group)
        /\ \A h \in Group \ {g} : groups[h] # None => groups[h].created # groups[g].created
OnSetting == {"putServer", "deleteServer", "putPersonal", "deletePersonal", "putIntermediate",
              "deleteIntermediate", "updateSetting", "countValues", "deleteSetting"}
OnGroup == {"updateGroup", "deleteGroup", "addMembers", "removeMembers"}
LoadedEnvironments ==
    \A p \in Request :
        /\ req[p].at \in OnSetting =>
             /\ req[p].s \in born
             /\ settings[req[p].s] # None => settings[req[p].s].env = req[p].e
        /\ req[p].at \in OnGroup =>
             /\ req[p].g \in born
             /\ groups[req[p].g] # None => groups[req[p].g].env = req[p].e

\* The inductive invariant the proofs use (SettingsDataProofs).
IInv ==
    /\ TypeOK
    /\ PendingUpdatesValid
    /\ RowsAreBorn
    /\ CreatedApart
    /\ LoadedEnvironments
    /\ DefaultValid
    /\ StoredWithinScope
    /\ NoOrphans

-----------------------------------------------------------------------------
(* What resolutions promise, in every state the handlers can produce.      *)

DB == [settings |-> settings, rank |-> rank, groups |-> groups, members |-> members,
       server |-> server, personal |-> personal, overrides |-> overrides]

Question == [user : User, maxRank : Rank, adHoc : SUBSET Group]
Answer(d, q, e) == ResolveForUser(d, q.user, e, {}, q.maxRank, q.adHoc)

\* The override that should win among G in one direction: the highest
\* priority, then the oldest group (README, "Groups").
BestOverride(s, G, enforced) ==
    LET C == {g \in G : overrides[g][s] # None /\ overrides[g][s].enforced = enforced}
        top == {g \in C : \A h \in C : groups[g].priority >= groups[h].priority}
        oldest == {g \in top : \A h \in top : groups[g].created <= groups[h].created}
    IN {overrides[g][s].value : g \in oldest}

\* README "Resolution": default < server < advisory < personal < enforced; the
\* value is that of the highest layer that has one.
LayerOrder ==
    \A e \in Env, q \in Question : \A s \in DOMAIN Answer(DB, q, e) :
        LET G == MemberGroups(DB, q.user, e, q.adHoc)
            layers == <<{settings[s].default} \ {None}, {server[s]} \ {None},
                        BestOverride(s, G, FALSE), {personal[q.user][s]} \ {None},
                        BestOverride(s, G, TRUE)>>
            given == {i \in 1..5 : layers[i] # {}}
        IN IF given = {} THEN Answer(DB, q, e)[s].value = None
           ELSE \E i \in given : /\ \A j \in given : j <= i
                                 /\ layers[i] = {Answer(DB, q, e)[s].value}

\* resolve.go 46-65: the override block names the override that shaped the
\* value, and only then; an advisory one only when the user chose nothing; a
\* replaced value only under an enforced one.
OverrideIsTheCause ==
    \A e \in Env, q \in Question : \A s \in DOMAIN Answer(DB, q, e) :
        LET a == Answer(DB, q, e)[s] IN
        /\ a.override # None <=> a.source = "INTERMEDIATE"
        /\ a.override # None =>
             LET o == overrides[a.override.group][s] IN
             /\ a.value = o.value /\ a.override.enforced = o.enforced
             /\ a.override.visible = o.visible
             /\ ~o.enforced => personal[q.user][s] = None
             /\ a.override.replaced # None => o.enforced

\* resolve.go 62-65: the replaced value is what the user would get back if the
\* enforced overrides were lifted.
Lifted == [g \in Group |-> [s \in Setting |->
    IF overrides[g][s] # None /\ overrides[g][s].enforced THEN None ELSE overrides[g][s]]]
LiftingRestoresChoice ==
    \A e \in Env, q \in Question : \A s \in DOMAIN Answer(DB, q, e) :
        LET a == Answer(DB, q, e)[s]
            after == Answer([DB EXCEPT !.overrides = Lifted], q, e)[s]
        IN a.override # None /\ a.override.enforced =>
            /\ after.source = "PERSONAL" <=> a.override.replaced # None
            /\ a.override.replaced # None => after.value = a.override.replaced

\* SettingsSnapshot.editable (snapshot.ts), given one resolved setting.
EditableByScope(s, a) == settings[s].scope = "PERSONAL"
Editable(s, a) ==
    /\ settings[s].scope = "PERSONAL"
    /\ ~(a.override # None /\ a.override.enforced)

\* snapshot.ts 153-163: the settings the SDK says a user may change are those
\* of which whatever the user would choose becomes the effective value.
EditableMeansEffective ==
    \A e \in Env, q \in Question : \A s \in DOMAIN Answer(DB, q, e) :
        Editable(s, Answer(DB, q, e)[s]) <=>
            /\ settings[s].scope = "PERSONAL"
            /\ \A v \in Value :
                   Answer([DB EXCEPT !.personal[q.user][s] = v], q, e)[s].value = v

\* README "Groups": naming a group on the request applies it exactly as
\* membership would, priorities and ties included.
AdHocEqualsMembership ==
    \A e \in Env, q \in Question :
        Answer(DB, q, e) =
            Answer([DB EXCEPT !.members = @ \union (q.adHoc \X {q.user})],
                   [user |-> q.user, maxRank |-> q.maxRank, adHoc |-> {}], e)

\* cache.go 28-29, README 447: a step that changes what some resolution of an
\* environment returns leaves its request about to invalidate that environment.
\* Role changes are left out here.
Announced(e) == \E p \in Request : req[p].at = "invalidate" /\ e \in req[p].owes
AnswersOf(e) == [q \in Question |-> Answer(DB, q, e)]
ChangesAreAnnounced ==
    [][\A e \in Env : AnswersOf(e)' # AnswersOf(e) /\ rank' = rank => Announced(e)']_vars

-----------------------------------------------------------------------------
(* What the documents say and crossing requests break.                     *)

\* README 447 as it stands: a role change changes resolutions too.
EveryChangeIsAnnounced ==
    [][\A e \in Env : AnswersOf(e)' # AnswersOf(e) => Announced(e)']_vars
=============================================================================
