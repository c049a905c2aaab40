-------------------------- MODULE SettingsDataProofs --------------------------
(***************************************************************************)
(* For any settings, groups, users, roles, rules and requests, however     *)
(* the statements of the requests interleave: a stored default validates,  *)
(* values stay in the layers their scope permits, nothing outlives the row *)
(* it belongs to, resolutions apply the layers in the documented order and *)
(* name the override that shaped the value, and whatever changes a         *)
(* resolution goes on to invalidate its environment.                       *)
(***************************************************************************)
EXTENDS SettingsData, FiniteSetTheorems, TLAPS

\* The steps that write a table; the others only move their request on.
WriteBy(p) ==
    \/ \E s \in Setting, row \in NewSettings : CreateSetting(p, s, row)
    \/ UpdateSetting(p)
    \/ DeleteSetting(p)
    \/ PutServer(p)
    \/ PutPersonal(p)
    \/ PutIntermediate(p)
    \/ DeleteServer(p)
    \/ DeletePersonal(p)
    \/ DeleteIntermediate(p)
    \/ \E g \in Group, row \in NewGroups, users \in SUBSET User :
            CreateGroup(p, g, row, users)
    \/ UpdateGroup(p)
    \/ DeleteGroup(p)
    \/ AddGroupMembers(p)
    \/ RemoveGroupMembers(p)

Quiet == UNCHANGED <<tables, born>>

LEMMA StepKinds ==
    ASSUME [Next]_vars
    PROVE  Quiet \/ RoleWrites \/ \E p \in Request : WriteBy(p)
<1>1. CASE UNCHANGED vars
  BY <1>1 DEF vars, Quiet, tables
<1>2. ASSUME NEW p \in Request, Definitions(p)
      PROVE  Quiet \/ WriteBy(p)
  BY <1>2 DEF Definitions, WriteBy, Quiet, BeginUpdateSetting, BeginDeleteSetting,
       CountValues, Begin
<1>3. ASSUME NEW p \in Request, ValueWrites(p)
      PROVE  Quiet \/ WriteBy(p)
  BY <1>3 DEF ValueWrites, WriteBy, Quiet, BeginPutServer, BeginPutPersonal,
       BeginPutIntermediate, BeginDeleteServer, BeginDeletePersonal,
       BeginDeleteIntermediate, ValueWriteContext, Begin
<1>4. ASSUME NEW p \in Request, GroupWrites(p)
      PROVE  Quiet \/ WriteBy(p)
  BY <1>4 DEF GroupWrites, WriteBy, Quiet, BeginUpdateGroup, BeginDeleteGroup,
       MembershipRequest, Begin
<1>5. ASSUME NEW p \in Request, StoreFails(p) \/ Invalidate(p)
      PROVE  Quiet
  BY <1>5 DEF StoreFails, Invalidate, Quiet
<1> QED
  BY <1>1, <1>2, <1>3, <1>4, <1>5 DEF Next

\* What a request holds, by the statement it is about to run.
LEMMA PendingShapes ==
    ASSUME NEW r \in Pending
    PROVE  /\ r.at = "putServer" => r.s \in Setting /\ r.e \in Env /\ r.v \in Value
           /\ r.at = "putPersonal" =>
                r.s \in Setting /\ r.e \in Env /\ r.u \in User /\ r.v \in Value
           /\ r.at = "putIntermediate" =>
                r.s \in Setting /\ r.e \in Env /\ r.g \in Group /\ r.v \in Override
           /\ r.at = "deleteServer" => r.s \in Setting /\ r.e \in Env
           /\ r.at = "deletePersonal" => r.s \in Setting /\ r.e \in Env /\ r.u \in User
           /\ r.at = "deleteIntermediate" => r.s \in Setting /\ r.e \in Env /\ r.g \in Group
           /\ r.at = "updateSetting" => r.s \in Setting /\ r.e \in Env /\ r.v \in Columns
           /\ r.at = "countValues" => r.s \in Setting /\ r.e \in Env
           /\ r.at = "deleteSetting" => r.s \in Setting /\ r.e \in Env
           /\ r.at = "updateGroup" =>
                r.g \in Group /\ r.e \in Env \union {AnyEnv} /\ r.v \in Priority
           /\ r.at = "deleteGroup" => r.g \in Group /\ r.e \in Env \union {AnyEnv}
           /\ r.at \in {"addMembers", "removeMembers"} =>
                r.g \in Group /\ r.e \in Env \union {AnyEnv} /\ r.users \in SUBSET User
BY DEF Pending, Idle

-----------------------------------------------------------------------------
(* Types.                                                                  *)

LEMMA WroteType ==
    ASSUME TypeOK, NEW p \in Request, NEW E \in SUBSET Env, Wrote(p, E)
    PROVE  req' \in [Request -> Pending]
<1>1. [at |-> "invalidate", owes |-> E] \in Pending
  BY DEF Pending
<1> QED
  BY <1>1 DEF TypeOK, Wrote

LEMMA BeginType ==
    ASSUME TypeOK, NEW p \in Request, NEW r \in Pending, Begin(p, r)
    PROVE  TypeOK'
BY DEF TypeOK, Begin, tables

LEMMA AffectedType == ASSUME NEW e \in Env \union {AnyEnv} PROVE Affected(e) \in SUBSET Env
BY DEF Affected

\* A row or override is told apart from None, so a loaded row has its columns.
LEMMA LoadedRows ==
    ASSUME TypeOK
    PROVE  /\ \A s \in Setting : settings[s] # None => settings[s] \in SettingRow
           /\ \A g \in Group : groups[g] # None =>
                groups[g] \in GroupRow /\ groups[g].env \in Env \union {AnyEnv}
BY DEF TypeOK, GroupRow

LEMMA DefinitionsType == 
    ASSUME TypeOK, NEW p \in Request, Definitions(p) PROVE TypeOK'
<1>1. ASSUME NEW s \in Setting, NEW row \in NewSettings, CreateSetting(p, s, row)
      PROVE  TypeOK'
  <2>1. row \in SettingRow /\ row.env \in Env
    BY NewSettingsAssumption DEF SettingRow
  <2>2. req' \in [Request -> Pending]
    BY <1>1, <2>1, WroteType DEF CreateSetting
  <2>3. IsFiniteSet(born')
    BY <1>1, FS_AddElement DEF CreateSetting, TypeOK
  <2> QED
    BY <1>1, <2>1, <2>2, <2>3 DEF CreateSetting, TypeOK, values
<1>2. ASSUME NEW s \in Setting, NEW patch \in Patches, BeginUpdateSetting(p, s, patch)
      PROVE  TypeOK'
  <2> DEFINE merged == MergePatch(settings[s], patch)
             r == [at |-> "updateSetting", s |-> s, e |-> settings[s].env, v |-> merged,
                   named |-> {f \in Field : patch[f] # Omitted}]
  <2>1. settings[s] \in SettingRow
    BY <1>2, LoadedRows DEF BeginUpdateSetting
  <2>2. patch \in [config : Config \union {Omitted}, role : Role \union {Omitted},
                   default : Value \union {None, Omitted}]
    BY PatchesAssumption
  <2>3. merged \in Columns
    BY <2>1, <2>2 DEF MergePatch, Columns, SettingRow
  <2>4. r \in Pending
    BY <2>1, <2>3 DEF Pending, SettingRow
  <2>5. Begin(p, r)
    BY <1>2 DEF BeginUpdateSetting
  <2> QED
    BY <2>4, <2>5, BeginType
<1>3. ASSUME NEW s \in Setting, NEW confirmed \in BOOLEAN, BeginDeleteSetting(p, s, confirmed)
      PROVE  TypeOK'
  <2>1. settings[s] \in SettingRow
    BY <1>3, LoadedRows DEF BeginDeleteSetting
  <2>2. /\ [at |-> "deleteSetting", s |-> s, e |-> settings[s].env, confirmed |-> TRUE] \in Pending
        /\ [at |-> "countValues", s |-> s, e |-> settings[s].env] \in Pending
    BY <2>1 DEF Pending, SettingRow
  <2> QED
    BY <1>3, <2>2, BeginType DEF BeginDeleteSetting
<1>4. ASSUME UpdateSetting(p) PROVE TypeOK'
  <2> DEFINE r == req[p]
  <2>1. r \in Pending /\ r.at = "updateSetting"
    BY <1>4 DEF UpdateSetting, TypeOK
  <2>2. r.s \in Setting /\ r.e \in Env /\ r.v \in Columns
    BY <2>1, PendingShapes
  <2>3. settings[r.s] \in SettingRow
    BY <1>4, <2>2, LoadedRows DEF UpdateSetting
  <2>4. Updated(settings[r.s], r.v) \in SettingRow
    BY <2>2, <2>3 DEF SettingRow, Columns, Updated
  <2>5. settings' \in [Setting -> SettingRow \union {None}]
    BY <1>4, <2>2, <2>4 DEF UpdateSetting, TypeOK
  <2>6. req' \in [Request -> Pending]
    BY <1>4, <2>2, WroteType DEF UpdateSetting
  <2> QED
    BY <1>4, <2>5, <2>6 DEF UpdateSetting, TypeOK, values
<1>5. ASSUME CountValues(p) PROVE TypeOK'
  <2> DEFINE r == req[p]
  <2>1. r \in Pending /\ r.at = "countValues"
    BY <1>5 DEF CountValues, TypeOK
  <2>2. r.s \in Setting /\ r.e \in Env
    BY <2>1, PendingShapes
  <2>3. [at |-> "deleteSetting", s |-> r.s, e |-> r.e, confirmed |-> FALSE] \in Pending
    BY <2>2 DEF Pending
  <2>4. Idle \in Pending
    BY DEF Pending
  <2> QED
    BY <1>5, <2>3, <2>4 DEF CountValues, TypeOK, tables
<1>6. ASSUME DeleteSetting(p) PROVE TypeOK'
  <2> DEFINE r == req[p]
  <2>1. r \in Pending /\ r.at = "deleteSetting"
    BY <1>6 DEF DeleteSetting, TypeOK
  <2>2. r.s \in Setting /\ r.e \in Env
    BY <2>1, PendingShapes
  <2>3. req' \in [Request -> Pending]
    BY <1>6, <2>2, WroteType DEF DeleteSetting
  <2>4. /\ settings' \in [Setting -> SettingRow \union {None}]
        /\ server' \in [Setting -> Value \union {None}]
        /\ personal' \in [User -> [Setting -> Value \union {None}]]
        /\ overrides' \in [Group -> [Setting -> Override \union {None}]]
    BY <1>6, <2>2 DEF DeleteSetting, TypeOK
  <2> QED
    BY <1>6, <2>3, <2>4 DEF DeleteSetting, TypeOK
<1> QED
  BY <1>1, <1>2, <1>3, <1>4, <1>5, <1>6 DEF Definitions

LEMMA ValueWritesType ==
    ASSUME TypeOK, NEW p \in Request, ValueWrites(p) PROVE TypeOK'
<1> DEFINE r == req[p]
<1>0. r \in Pending
  BY DEF TypeOK
<1>1. ASSUME NEW s \in Setting, settings[s] # None PROVE settings[s].env \in Env
  BY <1>1, LoadedRows DEF SettingRow
<1>2. ASSUME NEW s \in Setting, NEW v \in Value, BeginPutServer(p, s, v) PROVE TypeOK'
  <2>1. [at |-> "putServer", s |-> s, e |-> settings[s].env, v |-> v] \in Pending
    BY <1>1, <1>2 DEF BeginPutServer, ValueWriteContext, Pending
  <2> QED
    BY <1>2, <2>1, BeginType DEF BeginPutServer, ValueWriteContext
<1>3. ASSUME NEW s \in Setting, NEW u \in User, NEW v \in Value, BeginPutPersonal(p, s, u, v)
      PROVE  TypeOK'
  <2>1. [at |-> "putPersonal", s |-> s, e |-> settings[s].env, u |-> u, v |-> v] \in Pending
    BY <1>1, <1>3 DEF BeginPutPersonal, ValueWriteContext, Pending
  <2> QED
    BY <1>3, <2>1, BeginType DEF BeginPutPersonal, ValueWriteContext
<1>4. ASSUME NEW s \in Setting, NEW g \in Group, NEW o \in Overrides,
             BeginPutIntermediate(p, s, g, o)
      PROVE  TypeOK'
  <2>1. [at |-> "putIntermediate", s |-> s, e |-> settings[s].env, g |-> g, v |-> o] \in Pending
    BY <1>1, <1>4, OverridesAssumption DEF BeginPutIntermediate, ValueWriteContext, Pending
  <2> QED
    BY <1>4, <2>1, BeginType DEF BeginPutIntermediate, ValueWriteContext
<1>5. ASSUME NEW s \in Setting, BeginDeleteServer(p, s) PROVE TypeOK'
  <2>1. [at |-> "deleteServer", s |-> s, e |-> settings[s].env] \in Pending
    BY <1>1, <1>5 DEF BeginDeleteServer, Pending
  <2> QED
    BY <1>5, <2>1, BeginType DEF BeginDeleteServer
<1>6. ASSUME NEW s \in Setting, NEW u \in User, BeginDeletePersonal(p, s, u) PROVE TypeOK'
  <2>1. [at |-> "deletePersonal", s |-> s, e |-> settings[s].env, u |-> u] \in Pending
    BY <1>1, <1>6 DEF BeginDeletePersonal, Pending
  <2> QED
    BY <1>6, <2>1, BeginType DEF BeginDeletePersonal
<1>7. ASSUME NEW s \in Setting, NEW g \in Group, BeginDeleteIntermediate(p, s, g) PROVE TypeOK'
  <2>1. [at |-> "deleteIntermediate", s |-> s, e |-> settings[s].env, g |-> g] \in Pending
    BY <1>1, <1>7 DEF BeginDeleteIntermediate, Pending
  <2> QED
    BY <1>7, <2>1, BeginType DEF BeginDeleteIntermediate
<1>8. CASE PutServer(p)
  <2>1. r.s \in Setting /\ r.e \in Env /\ r.v \in Value
    BY <1>0, <1>8, PendingShapes DEF PutServer
  <2>2. req' \in [Request -> Pending]
    BY <1>8, <2>1, WroteType DEF PutServer
  <2> QED
    BY <1>8, <2>1, <2>2 DEF PutServer, TypeOK
<1>9. CASE PutPersonal(p)
  <2>1. r.s \in Setting /\ r.e \in Env /\ r.u \in User /\ r.v \in Value
    BY <1>0, <1>9, PendingShapes DEF PutPersonal
  <2>2. req' \in [Request -> Pending]
    BY <1>9, <2>1, WroteType DEF PutPersonal
  <2> QED
    BY <1>9, <2>1, <2>2 DEF PutPersonal, TypeOK
<1>10. CASE PutIntermediate(p)
  <2>1. r.s \in Setting /\ r.e \in Env /\ r.g \in Group /\ r.v \in Override
    BY <1>0, <1>10, PendingShapes DEF PutIntermediate
  <2>2. req' \in [Request -> Pending]
    BY <1>10, <2>1, WroteType DEF PutIntermediate
  <2> QED
    BY <1>10, <2>1, <2>2 DEF PutIntermediate, TypeOK
<1>11. CASE DeleteServer(p)
  <2>1. r.s \in Setting /\ r.e \in Env
    BY <1>0, <1>11, PendingShapes DEF DeleteServer
  <2>2. req' \in [Request -> Pending]
    BY <1>11, <2>1, WroteType DEF DeleteServer
  <2> QED
    BY <1>11, <2>1, <2>2 DEF DeleteServer, TypeOK
<1>12. CASE DeletePersonal(p)
  <2>1. r.s \in Setting /\ r.e \in Env /\ r.u \in User
    BY <1>0, <1>12, PendingShapes DEF DeletePersonal
  <2>2. req' \in [Request -> Pending]
    BY <1>12, <2>1, WroteType DEF DeletePersonal
  <2> QED
    BY <1>12, <2>1, <2>2 DEF DeletePersonal, TypeOK
<1>13. CASE DeleteIntermediate(p)
  <2>1. r.s \in Setting /\ r.e \in Env /\ r.g \in Group
    BY <1>0, <1>13, PendingShapes DEF DeleteIntermediate
  <2>2. req' \in [Request -> Pending]
    BY <1>13, <2>1, WroteType DEF DeleteIntermediate
  <2> QED
    BY <1>13, <2>1, <2>2 DEF DeleteIntermediate, TypeOK
<1> QED
  BY <1>2, <1>3, <1>4, <1>5, <1>6, <1>7, <1>8, <1>9, <1>10, <1>11, <1>12, <1>13
     DEF ValueWrites

LEMMA GroupWritesType ==
    ASSUME TypeOK, NEW p \in Request, GroupWrites(p) PROVE TypeOK'
<1> DEFINE r == req[p]
<1>0. r \in Pending
  BY DEF TypeOK
<1>1. ASSUME NEW g \in Group, NEW row \in NewGroups, NEW users \in SUBSET User,
             CreateGroup(p, g, row, users)
      PROVE  TypeOK'
  <2>1. row.env \in Env \union {AnyEnv} /\ row.priority \in Priority
    BY NewGroupsAssumption
  <2>2. Cardinality(born \intersect Group) \in Nat
    BY FS_Intersection, FS_CardinalityType DEF TypeOK
  <2>3. [env |-> row.env, priority |-> row.priority,
         created |-> Cardinality(born \intersect Group)] \in GroupRow
    BY <2>1, <2>2 DEF GroupRow
  <2>4. req' \in [Request -> Pending]
    BY <1>1, <2>1, AffectedType, WroteType DEF CreateGroup
  <2>5. IsFiniteSet(born')
    BY <1>1, FS_AddElement DEF CreateGroup, TypeOK
  <2> QED
    BY <1>1, <2>3, <2>4, <2>5 DEF CreateGroup, TypeOK, values
<1>2. ASSUME NEW g \in Group, NEW n \in Priority, BeginUpdateGroup(p, g, n) PROVE TypeOK'
  <2>1. [at |-> "updateGroup", g |-> g, e |-> groups[g].env, v |-> n] \in Pending
    BY <1>2, LoadedRows DEF BeginUpdateGroup, Pending
  <2> QED
    BY <1>2, <2>1, BeginType DEF BeginUpdateGroup
<1>3. ASSUME NEW g \in Group, BeginDeleteGroup(p, g) PROVE TypeOK'
  <2>1. [at |-> "deleteGroup", g |-> g, e |-> groups[g].env] \in Pending
    BY <1>3, LoadedRows DEF BeginDeleteGroup, Pending
  <2> QED
    BY <1>3, <2>1, BeginType DEF BeginDeleteGroup
<1>4. ASSUME NEW g \in Group, NEW op \in {"addMembers", "removeMembers"},
             NEW users \in SUBSET User, MembershipRequest(p, g, op, users)
      PROVE  TypeOK'
  <2>1. [at |-> op, g |-> g, e |-> groups[g].env, users |-> users] \in Pending
    BY <1>4, LoadedRows DEF MembershipRequest, Pending
  <2> QED
    BY <1>4, <2>1, BeginType DEF MembershipRequest
<1>5. CASE UpdateGroup(p)
  <2>1. r.g \in Group /\ r.e \in Env \union {AnyEnv} /\ r.v \in Priority
    BY <1>0, <1>5, PendingShapes DEF UpdateGroup
  <2>2. groups[r.g] \in GroupRow
    BY <1>5, <2>1, LoadedRows DEF UpdateGroup
  <2>3. [env |-> groups[r.g].env, priority |-> r.v, created |-> groups[r.g].created] \in GroupRow
    BY <2>1, <2>2 DEF GroupRow
  <2>4. req' \in [Request -> Pending]
    BY <1>5, <2>1, AffectedType, WroteType DEF UpdateGroup
  <2> QED
    BY <1>5, <2>1, <2>3, <2>4 DEF UpdateGroup, TypeOK, values
<1>6. CASE DeleteGroup(p)
  <2>1. r.g \in Group /\ r.e \in Env \union {AnyEnv}
    BY <1>0, <1>6, PendingShapes DEF DeleteGroup
  <2>2. req' \in [Request -> Pending]
    BY <1>6, <2>1, AffectedType, WroteType DEF DeleteGroup
  <2> QED
    BY <1>6, <2>1, <2>2 DEF DeleteGroup, TypeOK
<1>7. CASE AddGroupMembers(p)
  <2>1. r.g \in Group /\ r.e \in Env \union {AnyEnv} /\ r.users \in SUBSET User
    BY <1>0, <1>7, PendingShapes DEF AddGroupMembers
  <2>2. req' \in [Request -> Pending]
    BY <1>7, <2>1, AffectedType, WroteType DEF AddGroupMembers
  <2> QED
    BY <1>7, <2>1, <2>2 DEF AddGroupMembers, TypeOK, values
<1>8. CASE RemoveGroupMembers(p)
  <2>1. r.g \in Group /\ r.e \in Env \union {AnyEnv} /\ r.users \in SUBSET User
    BY <1>0, <1>8, PendingShapes DEF RemoveGroupMembers
  <2>2. req' \in [Request -> Pending]
    BY <1>8, <2>1, AffectedType, WroteType DEF RemoveGroupMembers
  <2> QED
    BY <1>8, <2>1, <2>2 DEF RemoveGroupMembers, TypeOK, values
<1> QED
  BY <1>1, <1>2, <1>3, <1>4, <1>5, <1>6, <1>7, <1>8 DEF GroupWrites

LEMMA NextTypeOK == TypeOK /\ [Next]_vars => TypeOK'
<1> SUFFICES ASSUME TypeOK, [Next]_vars PROVE TypeOK'
  OBVIOUS
<1>1. ASSUME NEW p \in Request, StoreFails(p) \/ Invalidate(p) PROVE TypeOK'
  <2>1. Idle \in Pending
    BY DEF Pending
  <2> QED
    BY <1>1, <2>1 DEF StoreFails, Invalidate, TypeOK, tables
<1>2. CASE RoleWrites
  <2>1. ASSUME NEW r \in Role, NEW n \in Rank, UpsertRole(r, n) PROVE TypeOK'
    BY <2>1 DEF UpsertRole, TypeOK, values
  <2>2. ASSUME NEW r \in Role, DeleteRole(r) PROVE TypeOK'
    BY <2>2 DEF DeleteRole, TypeOK, values
  <2> QED
    BY <1>2, <2>1, <2>2 DEF RoleWrites
<1>3. CASE UNCHANGED vars
  BY <1>3 DEF TypeOK, vars
<1> QED
  BY <1>1, <1>2, <1>3, DefinitionsType, ValueWritesType, GroupWritesType DEF Next

-----------------------------------------------------------------------------
(* What requests hold, and the ids in use.                                 *)

\* A request about to run its UPDATE holds a pair that validates: it merged the
\* body with one row and checked the result, and nobody else writes its state.
LEMMA NextPendingUpdates ==
    TypeOK /\ PendingUpdatesValid /\ [Next]_vars => PendingUpdatesValid'
<1> SUFFICES ASSUME TypeOK, PendingUpdatesValid, [Next]_vars,
                    NEW q \in Request, req'[q].at = "updateSetting"
             PROVE  ValidDefault(req'[q].v.config, req'[q].v.default)
  BY DEF PendingUpdatesValid
<1> USE DEF TypeOK
<1>1. ASSUME req'[q] = req[q] PROVE ValidDefault(req'[q].v.config, req'[q].v.default)
  BY <1>1 DEF PendingUpdatesValid
<1>2. ASSUME NEW p \in Request, NEW r, Begin(p, r), r.at # "updateSetting"
      PROVE  req'[q] = req[q]
  BY <1>2 DEF Begin
<1>3. ASSUME NEW p \in Request, NEW E, Wrote(p, E) PROVE req'[q] = req[q]
  BY <1>3 DEF Wrote
<1>4. ASSUME NEW p \in Request, Definitions(p)
      PROVE  ValidDefault(req'[q].v.config, req'[q].v.default)
  <2>1. ASSUME NEW s \in Setting, NEW patch \in Patches, BeginUpdateSetting(p, s, patch)
        PROVE  ValidDefault(req'[q].v.config, req'[q].v.default)
    BY <2>1, <1>1 DEF BeginUpdateSetting, Begin
  <2>2. ASSUME NEW s \in Setting, NEW confirmed \in BOOLEAN,
               BeginDeleteSetting(p, s, confirmed)
        PROVE  req'[q] = req[q]
    BY <2>2 DEF BeginDeleteSetting, Begin
  <2>3. ASSUME CountValues(p) PROVE req'[q] = req[q]
    BY <2>3 DEF CountValues, Idle
  <2> QED
    BY <1>4, <1>1, <1>3, <2>1, <2>2, <2>3
       DEF Definitions, CreateSetting, UpdateSetting, DeleteSetting
<1>5. ASSUME NEW p \in Request, ValueWrites(p) PROVE req'[q] = req[q]
  <2>1. ASSUME PutServer(p) \/ PutPersonal(p) \/ PutIntermediate(p) \/ DeleteServer(p)
               \/ DeletePersonal(p) \/ DeleteIntermediate(p)
        PROVE  req'[q] = req[q]
    BY <2>1, <1>3 DEF PutServer, PutPersonal, PutIntermediate, DeleteServer,
         DeletePersonal, DeleteIntermediate
  <2>2. ASSUME NEW s \in Setting, NEW v \in Value, BeginPutServer(p, s, v)
        PROVE  req'[q] = req[q]
    BY <2>2, <1>2 DEF BeginPutServer, ValueWriteContext
  <2>3. ASSUME NEW s \in Setting, NEW u \in User, NEW v \in Value,
               BeginPutPersonal(p, s, u, v)
        PROVE  req'[q] = req[q]
    BY <2>3, <1>2 DEF BeginPutPersonal, ValueWriteContext
  <2>4. ASSUME NEW s \in Setting, NEW g \in Group, NEW o \in Overrides,
               BeginPutIntermediate(p, s, g, o)
        PROVE  req'[q] = req[q]
    BY <2>4, <1>2 DEF BeginPutIntermediate, ValueWriteContext
  <2>5. ASSUME NEW s \in Setting, BeginDeleteServer(p, s) PROVE req'[q] = req[q]
    BY <2>5, <1>2 DEF BeginDeleteServer
  <2>6. ASSUME NEW s \in Setting, NEW u \in User, BeginDeletePersonal(p, s, u)
        PROVE  req'[q] = req[q]
    BY <2>6, <1>2 DEF BeginDeletePersonal
  <2>7. ASSUME NEW s \in Setting, NEW g \in Group, BeginDeleteIntermediate(p, s, g)
        PROVE  req'[q] = req[q]
    BY <2>7, <1>2 DEF BeginDeleteIntermediate
  <2> QED
    BY <1>5, <2>1, <2>2, <2>3, <2>4, <2>5, <2>6, <2>7 DEF ValueWrites
<1>6. ASSUME NEW p \in Request, GroupWrites(p) PROVE req'[q] = req[q]
  <2>1. ASSUME NEW g \in Group, NEW row \in NewGroups, NEW users \in SUBSET User,
               CreateGroup(p, g, row, users)
        PROVE  req'[q] = req[q]
    BY <2>1, <1>3 DEF CreateGroup
  <2>2. ASSUME NEW g \in Group, NEW n \in Priority, BeginUpdateGroup(p, g, n)
        PROVE  req'[q] = req[q]
    BY <2>2, <1>2 DEF BeginUpdateGroup
  <2>3. ASSUME NEW g \in Group, BeginDeleteGroup(p, g) PROVE req'[q] = req[q]
    BY <2>3, <1>2 DEF BeginDeleteGroup
  <2>4. ASSUME NEW g \in Group, NEW op \in {"addMembers", "removeMembers"},
               NEW users \in SUBSET User, MembershipRequest(p, g, op, users)
        PROVE  req'[q] = req[q]
    BY <2>4, <1>2 DEF MembershipRequest
  <2>5. ASSUME UpdateGroup(p) \/ DeleteGroup(p) \/ AddGroupMembers(p) \/ RemoveGroupMembers(p)
        PROVE  req'[q] = req[q]
    BY <2>5, <1>3 DEF UpdateGroup, DeleteGroup, AddGroupMembers, RemoveGroupMembers
  <2> QED
    BY <1>6, <2>1, <2>2, <2>3, <2>4, <2>5 DEF GroupWrites
<1>7. ASSUME NEW p \in Request, StoreFails(p) \/ Invalidate(p) PROVE req'[q] = req[q]
  BY <1>7 DEF StoreFails, Invalidate, Idle
<1>8. CASE RoleWrites \/ UNCHANGED vars
  BY <1>8, <1>1 DEF RoleWrites, UpsertRole, DeleteRole, vars
<1> QED
  BY <1>1, <1>4, <1>5, <1>6, <1>7, <1>8 DEF Next

\* A row only appears under an id that has just been given out.
LEMMA NextRowsAreBorn ==
    TypeOK /\ RowsAreBorn /\ [Next]_vars => RowsAreBorn'
<1> SUFFICES ASSUME TypeOK, RowsAreBorn, [Next]_vars PROVE RowsAreBorn'
  OBVIOUS
<1> USE DEF TypeOK, RowsAreBorn, Defined
<1>1. CASE Quiet
  BY <1>1 DEF Quiet, tables
<1>2. CASE RoleWrites
  BY <1>2 DEF RoleWrites, UpsertRole, DeleteRole
<1>3. ASSUME NEW p \in Request, WriteBy(p) PROVE RowsAreBorn'
  <2>1. ASSUME NEW s \in Setting, NEW row \in NewSettings, CreateSetting(p, s, row)
        PROVE  RowsAreBorn'
    BY <2>1 DEF CreateSetting
  <2>2. CASE UpdateSetting(p)
    BY <2>2 DEF UpdateSetting
  <2>3. CASE DeleteSetting(p)
    BY <2>3 DEF DeleteSetting
  <2>4. ASSUME NEW g \in Group, NEW row \in NewGroups, NEW users \in SUBSET User,
               CreateGroup(p, g, row, users)
        PROVE  RowsAreBorn'
    BY <2>4 DEF CreateGroup
  <2>5. CASE UpdateGroup(p)
    BY <2>5 DEF UpdateGroup
  <2>6. CASE DeleteGroup(p)
    BY <2>6 DEF DeleteGroup
  <2>7. ASSUME settings' = settings, groups' = groups, born' = born PROVE RowsAreBorn'
    BY <2>7
  <2> QED
    BY <1>3, <2>1, <2>2, <2>3, <2>4, <2>5, <2>6, <2>7 DEF WriteBy, PutServer, PutPersonal,
       PutIntermediate, DeleteServer, DeletePersonal, DeleteIntermediate,
       AddGroupMembers, RemoveGroupMembers
<1> QED
  BY <1>1, <1>2, <1>3, StepKinds

-----------------------------------------------------------------------------
(* What the rows promise.                                                  *)

\* Only CreateSetting and UpdateSetting write a default or its rules, both at
\* once and as a pair that was checked.
LEMMA NextDefaultValid ==
    TypeOK /\ PendingUpdatesValid /\ DefaultValid /\ [Next]_vars => DefaultValid'
<1> SUFFICES ASSUME TypeOK, PendingUpdatesValid, DefaultValid, [Next]_vars
             PROVE  DefaultValid'
  OBVIOUS
<1> USE DEF DefaultValid, Defined
<1>1. ASSUME settings' = settings PROVE DefaultValid'
  BY <1>1 DEF ValidDefault, Valid
<1>2. ASSUME NEW p \in Request, WriteBy(p) PROVE DefaultValid'
  <2>1. ASSUME NEW s \in Setting, NEW row \in NewSettings, CreateSetting(p, s, row)
        PROVE  DefaultValid'
    BY <2>1 DEF CreateSetting, TypeOK
  <2>2. CASE UpdateSetting(p)
    <3> DEFINE r == req[p]
    <3>1. r \in Pending /\ r.s \in Setting
      BY <2>2, PendingShapes DEF UpdateSetting, TypeOK
    <3>2. /\ Updated(settings[r.s], r.v).config = r.v.config
          /\ Updated(settings[r.s], r.v).default = r.v.default
      BY DEF Updated
    <3>3. ValidDefault(r.v.config, r.v.default)
      BY <2>2 DEF UpdateSetting, PendingUpdatesValid
    <3>4. settings' = [settings EXCEPT ![r.s] = Updated(settings[r.s], r.v)]
      BY <2>2 DEF UpdateSetting
    <3> QED
      BY <3>1, <3>2, <3>3, <3>4 DEF TypeOK
  <2>3. CASE DeleteSetting(p)
    BY <2>3 DEF DeleteSetting, TypeOK
  <2> QED
    BY <1>1, <1>2, <2>1, <2>2, <2>3 DEF WriteBy, PutServer, PutPersonal, PutIntermediate,
       DeleteServer, DeletePersonal, DeleteIntermediate, CreateGroup, UpdateGroup,
       DeleteGroup, AddGroupMembers, RemoveGroupMembers
<1> QED
  BY <1>1, <1>2, StepKinds
     DEF Quiet, tables, RoleWrites, UpsertRole, DeleteRole

\* The triggers look at the rows as they are when the value is written; a
\* definition never changes scope or environment, nor a group its environment.
LEMMA NextStoredWithinScope ==
    TypeOK /\ RowsAreBorn /\ NoOrphans /\ StoredWithinScope /\ [Next]_vars => StoredWithinScope'
<1> SUFFICES ASSUME TypeOK, RowsAreBorn, NoOrphans, StoredWithinScope, [Next]_vars
             PROVE  StoredWithinScope'
  OBVIOUS
<1> USE DEF StoredWithinScope, Defined
<1>1. CASE Quiet
  BY <1>1 DEF Quiet, tables
<1>2. CASE RoleWrites
  BY <1>2 DEF RoleWrites, UpsertRole, DeleteRole, values
<1>3. ASSUME NEW p \in Request, WriteBy(p) PROVE StoredWithinScope'
  <2> DEFINE r == req[p]
  <2>0. r \in Pending
    BY DEF TypeOK
  <2>1. ASSUME NEW s \in Setting, NEW row \in NewSettings, CreateSetting(p, s, row)
        PROVE  StoredWithinScope'
    BY <2>1 DEF CreateSetting, TypeOK, RowsAreBorn, NoOrphans, HasValues, values
  <2>2. CASE UpdateSetting(p)
    <3>1. r.s \in Setting
      BY <2>0, <2>2, PendingShapes DEF UpdateSetting
    <3>2. /\ Updated(settings[r.s], r.v).scope = settings[r.s].scope
          /\ Updated(settings[r.s], r.v).env = settings[r.s].env
      BY DEF Updated
    <3>3. settings' = [settings EXCEPT ![r.s] = Updated(settings[r.s], r.v)]
      BY <2>2 DEF UpdateSetting
    <3>4. settings[r.s] # None
      BY <2>2 DEF UpdateSetting
    <3> QED
      BY <2>2, <3>1, <3>2, <3>3, <3>4 DEF UpdateSetting, TypeOK, values
  <2>3. CASE DeleteSetting(p)
    <3>1. r.s \in Setting
      BY <2>0, <2>3, PendingShapes DEF DeleteSetting
    <3> QED
      BY <2>3, <3>1 DEF DeleteSetting, TypeOK
  <2>4. CASE PutServer(p)
    BY <2>4 DEF PutServer, TypeOK
  <2>5. CASE PutPersonal(p)
    <3>1. r.s \in Setting /\ r.u \in User
      BY <2>0, <2>5, PendingShapes DEF PutPersonal
    <3> QED
      BY <2>5, <3>1 DEF PutPersonal, TypeOK, AssertLayerAllowed, ScopeAllowsLayer
  <2>6. CASE PutIntermediate(p)
    <3>1. r.s \in Setting /\ r.g \in Group
      BY <2>0, <2>6, PendingShapes DEF PutIntermediate
    <3>2. settings[r.s].scope # "SERVER" /\ groups[r.g].env \in {AnyEnv, settings[r.s].env}
      BY <2>6 DEF PutIntermediate, AssertLayerAllowed, AssertGroupEnvironmentMatches,
         ScopeAllowsLayer
    <3> QED
      BY <2>6, <3>1, <3>2 DEF PutIntermediate, TypeOK
  <2>7. CASE DeleteServer(p)
    BY <2>7 DEF DeleteServer, TypeOK
  <2>8. CASE DeletePersonal(p)
    <3>1. r.s \in Setting /\ r.u \in User
      BY <2>0, <2>8, PendingShapes DEF DeletePersonal
    <3> QED
      BY <2>8, <3>1 DEF DeletePersonal, TypeOK
  <2>9. CASE DeleteIntermediate(p)
    <3>1. r.s \in Setting /\ r.g \in Group
      BY <2>0, <2>9, PendingShapes DEF DeleteIntermediate
    <3> QED
      BY <2>9, <3>1 DEF DeleteIntermediate, TypeOK
  <2>10. ASSUME NEW g \in Group, NEW row \in NewGroups, NEW users \in SUBSET User,
                CreateGroup(p, g, row, users)
         PROVE  StoredWithinScope'
    <3>1. groups[g] = None
      BY <2>10 DEF CreateGroup, RowsAreBorn
    <3>2. \A s \in Setting : overrides[g][s] = None
      BY <3>1 DEF NoOrphans
    <3> QED
      BY <2>10, <3>2 DEF CreateGroup, TypeOK, values
  <2>11. CASE UpdateGroup(p)
    <3>1. r.g \in Group
      BY <2>0, <2>11, PendingShapes DEF UpdateGroup
    <3>2. \A g \in Group : groups'[g].env = groups[g].env
      BY <2>11, <3>1 DEF UpdateGroup, TypeOK
    <3> QED
      BY <2>11, <3>2 DEF UpdateGroup, TypeOK, values
  <2>12. CASE DeleteGroup(p)
    <3>1. r.g \in Group
      BY <2>0, <2>12, PendingShapes DEF DeleteGroup
    <3> QED
      BY <2>12, <3>1 DEF DeleteGroup, TypeOK
  <2>13. CASE AddGroupMembers(p) \/ RemoveGroupMembers(p)
    BY <2>13 DEF AddGroupMembers, RemoveGroupMembers, values
  <2> QED
    BY <1>3, <2>1, <2>2, <2>3, <2>4, <2>5, <2>6, <2>7, <2>8, <2>9, <2>10, <2>11, <2>12,
       <2>13 DEF WriteBy
<1> QED
  BY <1>1, <1>2, <1>3, StepKinds

\* Foreign keys refuse what would refer to a missing row, and cascades remove
\* what refers to a row that goes; rows only come back under ids that were
\* never used, so nothing is waiting for them.
LEMMA NextNoOrphans ==
    TypeOK /\ RowsAreBorn /\ NoOrphans /\ [Next]_vars => NoOrphans'
<1> SUFFICES ASSUME TypeOK, RowsAreBorn, NoOrphans, [Next]_vars PROVE NoOrphans'
  OBVIOUS
<1> USE DEF NoOrphans, HasValues, Defined
<1>1. CASE Quiet
  BY <1>1 DEF Quiet, tables
<1>2. CASE RoleWrites
  <2>1. ASSUME NEW r \in Role, NEW n \in Rank, UpsertRole(r, n) PROVE NoOrphans'
    <3>1. n # 0
      BY RankAssumption
    <3> QED
      BY <2>1, <3>1 DEF UpsertRole, TypeOK, values
  <2>2. ASSUME NEW r \in Role, DeleteRole(r) PROVE NoOrphans'
    BY <2>2 DEF DeleteRole, TypeOK, values
  <2> QED
    BY <1>2, <2>1, <2>2 DEF RoleWrites
<1>3. ASSUME NEW p \in Request, WriteBy(p) PROVE NoOrphans'
  <2> DEFINE r == req[p]
  <2>0. r \in Pending
    BY DEF TypeOK
  <2>1. ASSUME NEW s \in Setting, NEW row \in NewSettings, CreateSetting(p, s, row)
        PROVE  NoOrphans'
    <3>1. row # None
      BY NewSettingsAssumption, NoneAssumption
    <3> QED
      BY <2>1, <3>1 DEF CreateSetting, TypeOK, values
  <2>2. CASE UpdateSetting(p)
    <3>1. r.s \in Setting /\ r.v \in Columns
      BY <2>0, <2>2, PendingShapes DEF UpdateSetting
    <3>2. settings[r.s] \in SettingRow
      BY <2>2, <3>1, LoadedRows DEF UpdateSetting
    <3>3. Updated(settings[r.s], r.v) \in SettingRow
      BY <3>1, <3>2 DEF SettingRow, Columns, Updated
    <3>4. Updated(settings[r.s], r.v) # None
      BY <3>3, NoneAssumption
    <3>5. Updated(settings[r.s], r.v).role = r.v.role /\ rank[r.v.role] # 0
      BY <2>2 DEF Updated, UpdateSetting
    <3>6. settings' = [settings EXCEPT ![r.s] = Updated(settings[r.s], r.v)]
      BY <2>2 DEF UpdateSetting
    <3>7. settings[r.s] # None
      BY <2>2 DEF UpdateSetting
    <3> QED
      BY <2>2, <3>1, <3>4, <3>5, <3>6, <3>7 DEF UpdateSetting, TypeOK, values
  <2>3. CASE DeleteSetting(p)
    <3>1. r.s \in Setting
      BY <2>0, <2>3, PendingShapes DEF DeleteSetting
    <3> QED
      BY <2>3, <3>1 DEF DeleteSetting, TypeOK
  <2>4. CASE PutServer(p)
    <3>1. r.s \in Setting /\ settings[r.s] # None
      BY <2>0, <2>4, PendingShapes DEF PutServer, AssertLayerAllowed
    <3> QED
      BY <2>4, <3>1 DEF PutServer, TypeOK
  <2>5. CASE PutPersonal(p)
    <3>1. r.s \in Setting /\ r.u \in User /\ settings[r.s] # None
      BY <2>0, <2>5, PendingShapes DEF PutPersonal, AssertLayerAllowed
    <3> QED
      BY <2>5, <3>1 DEF PutPersonal, TypeOK
  <2>6. CASE PutIntermediate(p)
    <3>1. r.s \in Setting /\ r.g \in Group /\ settings[r.s] # None /\ groups[r.g] # None
      BY <2>0, <2>6, PendingShapes DEF PutIntermediate, AssertLayerAllowed,
         AssertGroupEnvironmentMatches
    <3> QED
      BY <2>6, <3>1 DEF PutIntermediate, TypeOK
  <2>7. CASE DeleteServer(p)
    <3>1. r.s \in Setting
      BY <2>0, <2>7, PendingShapes DEF DeleteServer
    <3> QED
      BY <2>7, <3>1 DEF DeleteServer, TypeOK
  <2>8. CASE DeletePersonal(p)
    <3>1. r.s \in Setting /\ r.u \in User
      BY <2>0, <2>8, PendingShapes DEF DeletePersonal
    <3> QED
      BY <2>8, <3>1 DEF DeletePersonal, TypeOK
  <2>9. CASE DeleteIntermediate(p)
    <3>1. r.s \in Setting /\ r.g \in Group
      BY <2>0, <2>9, PendingShapes DEF DeleteIntermediate
    <3> QED
      BY <2>9, <3>1 DEF DeleteIntermediate, TypeOK
  <2>10. ASSUME NEW g \in Group, NEW row \in NewGroups, NEW users \in SUBSET User,
                CreateGroup(p, g, row, users)
         PROVE  NoOrphans'
    <3> DEFINE new == [env |-> row.env, priority |-> row.priority,
                       created |-> Cardinality(born \intersect Group)]
    <3>1. new \in GroupRow
      <4>1. Cardinality(born \intersect Group) \in Nat
        BY FS_Intersection, FS_CardinalityType DEF TypeOK
      <4> QED
        BY <4>1, NewGroupsAssumption DEF GroupRow
    <3>2. new # None
      BY <3>1, NoneAssumption
    <3>3. groups' = [groups EXCEPT ![g] = new]
      BY <2>10 DEF CreateGroup
    <3> HIDE DEF new
    <3>4. groups'[g] # None /\ \A h \in Group \ {g} : groups'[h] = groups[h]
      BY <3>2, <3>3 DEF TypeOK
    <3>5. /\ settings' = settings /\ rank' = rank /\ server' = server
          /\ personal' = personal /\ overrides' = overrides
          /\ members' = members \union ({g} \X users)
      BY <2>10 DEF CreateGroup, values
    <3> QED
      BY <3>4, <3>5
  <2>11. CASE UpdateGroup(p)
    <3> DEFINE new == [env |-> groups[r.g].env, priority |-> r.v,
                       created |-> groups[r.g].created]
    <3>1. r.g \in Group /\ groups[r.g] # None /\ r.v \in Priority
      BY <2>0, <2>11, PendingShapes DEF UpdateGroup
    <3>2. groups[r.g] \in GroupRow
      BY <3>1, LoadedRows
    <3>3. new \in GroupRow
      BY <3>1, <3>2 DEF GroupRow
    <3>4. new # None
      BY <3>3, NoneAssumption
    <3>5. groups' = [groups EXCEPT ![r.g] = new]
      BY <2>11 DEF UpdateGroup
    <3> HIDE DEF new
    <3>6. \A g \in Group : groups'[g] = None => groups[g] = None
      BY <3>1, <3>4, <3>5 DEF TypeOK
    <3> QED
      BY <2>11, <3>6 DEF UpdateGroup, values
  <2>12. CASE DeleteGroup(p)
    <3>1. r.g \in Group
      BY <2>0, <2>12, PendingShapes DEF DeleteGroup
    <3>2. \A u \in User : <<r.g, u>> \notin members'
      BY <2>12 DEF DeleteGroup
    <3>3. \A g \in Group \ {r.g} : groups'[g] = groups[g] /\ overrides'[g] = overrides[g]
      BY <2>12, <3>1 DEF DeleteGroup, TypeOK
    <3>4. members' \subseteq members
      BY <2>12 DEF DeleteGroup
    <3>5. \A s \in Setting : overrides'[r.g][s] = None
      BY <2>12, <3>1 DEF DeleteGroup, TypeOK
    <3> QED
      BY <2>12, <3>1, <3>2, <3>3, <3>4, <3>5 DEF DeleteGroup
  <2>13. CASE AddGroupMembers(p)
    <3>1. r.g \in Group /\ groups[r.g] # None
      BY <2>0, <2>13, PendingShapes DEF AddGroupMembers
    <3> QED
      BY <2>13, <3>1 DEF AddGroupMembers, values
  <2>14. CASE RemoveGroupMembers(p)
    BY <2>14 DEF RemoveGroupMembers, values
  <2> QED
    BY <1>3, <2>1, <2>2, <2>3, <2>4, <2>5, <2>6, <2>7, <2>8, <2>9, <2>10, <2>11, <2>12,
       <2>13, <2>14 DEF WriteBy
<1> QED
  BY <1>1, <1>2, <1>3, StepKinds

-----------------------------------------------------------------------------
(* What makes resolutions well defined, and their changes announced.         *)

\* A row that exists after a step under an id that was in use existed before it,
\* in the same environment; a group also keeps the time it was created.
LEMMA RowsKeepEnvironments ==
    ASSUME TypeOK, [Next]_vars
    PROVE  /\ born \subseteq born'
           /\ \A s \in Setting : s \in born /\ settings'[s] # None =>
                settings[s] # None /\ settings'[s].env = settings[s].env
           /\ \A g \in Group : g \in born /\ groups'[g] # None =>
                /\ groups[g] # None /\ groups'[g].env = groups[g].env
                /\ groups'[g].created = groups[g].created
<1> DEFINE Kept == /\ born \subseteq born'
                   /\ \A s \in Setting : s \in born /\ settings'[s] # None =>
                        settings[s] # None /\ settings'[s].env = settings[s].env
                   /\ \A g \in Group : g \in born /\ groups'[g] # None =>
                        /\ groups[g] # None /\ groups'[g].env = groups[g].env
                        /\ groups'[g].created = groups[g].created
<1>1. ASSUME settings' = settings, groups' = groups, born' = born PROVE Kept
  BY <1>1
<1>2. CASE Quiet \/ RoleWrites
  BY <1>1, <1>2 DEF Quiet, tables, RoleWrites, UpsertRole, DeleteRole
<1>3. ASSUME NEW p \in Request, WriteBy(p) PROVE Kept
  <2>0. req[p] \in Pending
    BY DEF TypeOK
  <2>1. ASSUME NEW s \in Setting, NEW row \in NewSettings, CreateSetting(p, s, row) PROVE Kept
    BY <2>1 DEF CreateSetting, TypeOK
  <2>2. CASE UpdateSetting(p)
    <3>1. req[p].s \in Setting
      BY <2>0, <2>2, PendingShapes DEF UpdateSetting
    <3>2. settings' = [settings EXCEPT ![req[p].s] = Updated(settings[req[p].s], req[p].v)]
      BY <2>2 DEF UpdateSetting
    <3>3. Updated(settings[req[p].s], req[p].v).env = settings[req[p].s].env
      BY DEF Updated
    <3>4. groups' = groups /\ born' = born /\ settings[req[p].s] # None
      BY <2>2 DEF UpdateSetting
    <3> QED
      BY <3>1, <3>2, <3>3, <3>4 DEF TypeOK
  <2>3. CASE DeleteSetting(p)
    BY <2>3 DEF DeleteSetting, TypeOK
  <2>4. ASSUME NEW g \in Group, NEW row \in NewGroups, NEW users \in SUBSET User,
               CreateGroup(p, g, row, users)
        PROVE  Kept
    BY <2>4 DEF CreateGroup, TypeOK
  <2>5. CASE UpdateGroup(p)
    <3>1. req[p].g \in Group
      BY <2>0, <2>5, PendingShapes DEF UpdateGroup
    <3>2. /\ settings' = settings /\ born' = born
          /\ groups' = [groups EXCEPT ![req[p].g] =
                [env |-> groups[req[p].g].env, priority |-> req[p].v,
                 created |-> groups[req[p].g].created]]
          /\ groups[req[p].g] # None
      BY <2>5 DEF UpdateGroup
    <3> QED
      BY <3>1, <3>2 DEF TypeOK
  <2>6. CASE DeleteGroup(p)
    BY <2>6 DEF DeleteGroup, TypeOK
  <2> QED
    BY <1>1, <1>3, <2>1, <2>2, <2>3, <2>4, <2>5, <2>6 DEF WriteBy, PutServer, PutPersonal,
       PutIntermediate, DeleteServer, DeletePersonal, DeleteIntermediate,
       AddGroupMembers, RemoveGroupMembers
<1> QED
  BY <1>2, <1>3, StepKinds

\* A new group is younger than all there are; the others keep their age.
LEMMA NextCreatedApart ==
    TypeOK /\ RowsAreBorn /\ CreatedApart /\ [Next]_vars => CreatedApart'
<1> SUFFICES ASSUME TypeOK, RowsAreBorn, CreatedApart, [Next]_vars PROVE CreatedApart'
  OBVIOUS
<1> DEFINE Count == Cardinality(born \intersect Group)
<1>1. TypeOK' /\ born \subseteq born'
  BY NextTypeOK, RowsKeepEnvironments
<1>2. Count \in Nat /\ Count' \in Nat /\ Count <= Count'
  <2>1. IsFiniteSet(born \intersect Group) /\ IsFiniteSet(born' \intersect Group)
    BY <1>1, FS_Intersection DEF TypeOK
  <2>2. born \intersect Group \in SUBSET (born' \intersect Group)
    BY <1>1
  <2> HIDE DEF Count
  <2>3. /\ Cardinality(born \intersect Group) \in Nat /\ Cardinality(born' \intersect Group) \in Nat
        /\ Cardinality(born \intersect Group) <= Cardinality(born' \intersect Group)
    BY <2>1, <2>2, FS_Subset, FS_CardinalityType
  <2> QED
    BY <2>3 DEF Count
<1>3. ASSUME NEW g \in Group \intersect born, groups'[g] # None
      PROVE  /\ groups[g] # None /\ groups'[g].created = groups[g].created
             /\ groups[g].created \in Nat /\ groups[g].created < Count
  BY <1>3, RowsKeepEnvironments, LoadedRows DEF CreatedApart, GroupRow
<1> HIDE DEF Count
<1>4. CASE \A g \in Group : groups'[g] # None => g \in born
  <2>1. ASSUME NEW g \in Group, groups'[g] # None PROVE groups'[g].created < Count'
    BY <1>2, <1>3, <1>4, <2>1
  <2>2. ASSUME NEW g \in Group, NEW h \in Group \ {g}, groups'[g] # None, groups'[h] # None
        PROVE  groups'[h].created # groups'[g].created
    BY <1>3, <1>4, <2>2 DEF CreatedApart
  <2> QED
    BY <2>1, <2>2 DEF CreatedApart, Count
<1>5. ASSUME NEW p \in Request, NEW f \in Group, NEW row \in NewGroups,
             NEW users \in SUBSET User, CreateGroup(p, f, row, users)
      PROVE  CreatedApart'
  <2>1. f \notin born /\ born' = born \union {f}
    BY <1>5 DEF CreateGroup
  <2>2. Count' = Count + 1
    <3>1. born' \intersect Group = (born \intersect Group) \union {f}
      BY <2>1
    <3>2. IsFiniteSet(born \intersect Group)
      BY FS_Intersection DEF TypeOK
    <3>3. Cardinality((born \intersect Group) \union {f}) = Cardinality(born \intersect Group) + 1
      BY <2>1, <3>2, FS_AddElement
    <3> QED
      BY <3>1, <3>3 DEF Count
  <2>3. groups'[f].created = Count /\ \A g \in Group \ {f} : groups'[g] = groups[g]
    BY <1>5 DEF CreateGroup, TypeOK, Count
  <2>4. \A g \in Group \ {f} : groups'[g] # None => g \in born
    BY <2>3 DEF RowsAreBorn
  <2>5. ASSUME NEW g \in Group, groups'[g] # None PROVE groups'[g].created < Count'
    BY <1>2, <1>3, <2>2, <2>3, <2>4, <2>5
  <2>6. ASSUME NEW g \in Group, NEW h \in Group \ {g}, groups'[g] # None, groups'[h] # None
        PROVE  groups'[h].created # groups'[g].created
    <3>1. CASE g # f /\ h # f
      BY <1>3, <2>4, <2>6, <3>1 DEF CreatedApart
    <3>2. CASE g = f
      BY <1>2, <1>3, <2>3, <2>4, <2>6, <3>2
    <3>3. CASE h = f
      BY <1>2, <1>3, <2>3, <2>4, <2>6, <3>3
    <3> QED
      BY <3>1, <3>2, <3>3
  <2> QED
    BY <2>5, <2>6 DEF CreatedApart, Count
<1>6. ASSUME ~ \E p \in Request, g \in Group, row \in NewGroups, users \in SUBSET User :
                  CreateGroup(p, g, row, users)
      PROVE  \A g \in Group : groups'[g] # None => g \in born
  <2>1. CASE Quiet \/ RoleWrites
    BY <2>1 DEF Quiet, tables, RoleWrites, UpsertRole, DeleteRole, RowsAreBorn
  <2>2. ASSUME NEW p \in Request, WriteBy(p)
        PROVE  \A g \in Group : groups'[g] # None => g \in born
    <3>1. CASE UpdateGroup(p)
      BY <3>1 DEF UpdateGroup, TypeOK, RowsAreBorn
    <3>2. CASE DeleteGroup(p)
      BY <3>2 DEF DeleteGroup, TypeOK, RowsAreBorn
    <3>3. CASE groups' = groups
      BY <3>3 DEF RowsAreBorn
    <3> QED
      BY <1>6, <2>2, <3>1, <3>2, <3>3 DEF WriteBy, CreateSetting, UpdateSetting, DeleteSetting,
         PutServer, PutPersonal, PutIntermediate, DeleteServer, DeletePersonal,
         DeleteIntermediate, AddGroupMembers, RemoveGroupMembers
  <2> QED
    BY <2>1, <2>2, StepKinds
<1> QED
  BY <1>4, <1>5, <1>6

\* The row a request names is one that was given out, in the environment the
\* request loaded with it.
LoadedBy(r) ==
    /\ r.at \in OnSetting =>
         r.s \in born /\ (settings[r.s] # None => settings[r.s].env = r.e)
    /\ r.at \in OnGroup =>
         r.g \in born /\ (groups[r.g] # None => groups[r.g].env = r.e)

\* A request that starts names a row that is there.
LEMMA BeginLoads ==
    ASSUME TypeOK, RowsAreBorn, NEW p \in Request, NEW r, Begin(p, r),
           \/ /\ r.at \in OnSetting /\ r.s \in Setting
              /\ settings[r.s] # None /\ r.e = settings[r.s].env
           \/ /\ r.at \in OnGroup /\ r.g \in Group
              /\ groups[r.g] # None /\ r.e = groups[r.g].env
    PROVE  Quiet /\ LoadedBy(r) /\ req' = [req EXCEPT ![p] = r]
BY DEF Begin, Quiet, LoadedBy, RowsAreBorn, Defined, OnSetting, OnGroup

\* What a step puts into a request: what was there, no statement on a row, or a
\* statement on a row as it is now.
LEMMA RequestsLoad ==
    ASSUME TypeOK, RowsAreBorn, LoadedEnvironments, [Next]_vars, NEW q \in Request
    PROVE  \/ req'[q] = req[q]
           \/ req'[q].at \in {"idle", "invalidate"}
           \/ Quiet /\ LoadedBy(req'[q])
<1> DEFINE Good == \/ req'[q] = req[q]
                   \/ req'[q].at \in {"idle", "invalidate"}
                   \/ Quiet /\ LoadedBy(req'[q])
<1>1. ASSUME NEW p \in Request, NEW E, Wrote(p, E) PROVE Good
  <2>1. req' = [req EXCEPT ![p] = [at |-> "invalidate", owes |-> E]]
    BY <1>1 DEF Wrote
  <2>2. req'[q] = IF q = p THEN [at |-> "invalidate", owes |-> E] ELSE req[q]
    BY <2>1 DEF TypeOK
  <2> QED
    BY <2>2
<1>2. ASSUME NEW p \in Request, NEW r, Quiet /\ LoadedBy(r) /\ req' = [req EXCEPT ![p] = r]
      PROVE  Good
  BY <1>2 DEF TypeOK
<1>3. ASSUME NEW p \in Request, req' = [req EXCEPT ![p] = Idle] PROVE Good
  BY <1>3 DEF TypeOK, Idle
<1> HIDE DEF Good
<1>4. ASSUME NEW p \in Request, Definitions(p) PROVE Good
  <2>1. ASSUME NEW s \in Setting, NEW patch \in Patches, BeginUpdateSetting(p, s, patch)
        PROVE  Good
    <3> DEFINE r == [at |-> "updateSetting", s |-> s, e |-> settings[s].env,
                     v |-> MergePatch(settings[s], patch),
                     named |-> {f \in Field : patch[f] # Omitted}]
    <3>1. Begin(p, r) /\ settings[s] # None
      BY <2>1 DEF BeginUpdateSetting
    <3>2. r.at \in OnSetting /\ r.s = s /\ r.e = settings[s].env
      BY DEF OnSetting
    <3> HIDE DEF r
    <3> QED
      BY <1>2, <3>1, <3>2, BeginLoads
  <2>2. ASSUME NEW s \in Setting, NEW confirmed \in BOOLEAN, BeginDeleteSetting(p, s, confirmed)
        PROVE  Good
    <3> DEFINE r == IF confirmed
                    THEN [at |-> "deleteSetting", s |-> s, e |-> settings[s].env,
                          confirmed |-> TRUE]
                    ELSE [at |-> "countValues", s |-> s, e |-> settings[s].env]
    <3>1. Begin(p, r) /\ settings[s] # None
      BY <2>2 DEF BeginDeleteSetting
    <3>2. r.at \in OnSetting /\ r.s = s /\ r.e = settings[s].env
      BY DEF OnSetting
    <3> HIDE DEF r
    <3> QED
      BY <1>2, <3>1, <3>2, BeginLoads
  <2>3. CASE CountValues(p)
    <3> DEFINE r == [at |-> "deleteSetting", s |-> req[p].s, e |-> req[p].e, confirmed |-> FALSE]
    <3>1. Quiet /\ (req' = [req EXCEPT ![p] = Idle] \/ req' = [req EXCEPT ![p] = r])
      BY <2>3 DEF CountValues, Quiet
    <3>2. LoadedBy(req[p]) /\ req[p].at = "countValues"
      BY <2>3 DEF CountValues, LoadedEnvironments, LoadedBy
    <3>3. LoadedBy(r)
      BY <3>2 DEF LoadedBy, OnSetting, OnGroup
    <3> QED
      BY <1>2, <1>3, <3>1, <3>3
  <2> QED
    BY <1>1, <1>4, <2>1, <2>2, <2>3 DEF Definitions, CreateSetting, UpdateSetting, DeleteSetting
<1>5. ASSUME NEW p \in Request, ValueWrites(p) PROVE Good
  <2>1. ASSUME NEW s \in Setting, NEW r, Begin(p, r), settings[s] # None,
               r.at \in OnSetting /\ r.s = s /\ r.e = settings[s].env
        PROVE  Good
    BY <1>2, <2>1, BeginLoads
  <2>2. ASSUME NEW s \in Setting, NEW v \in Value, BeginPutServer(p, s, v) PROVE Good
    BY <2>1, <2>2 DEF BeginPutServer, ValueWriteContext, OnSetting
  <2>3. ASSUME NEW s \in Setting, NEW u \in User, NEW v \in Value, BeginPutPersonal(p, s, u, v)
        PROVE  Good
    BY <2>1, <2>3 DEF BeginPutPersonal, ValueWriteContext, OnSetting
  <2>4. ASSUME NEW s \in Setting, NEW g \in Group, NEW o \in Overrides,
               BeginPutIntermediate(p, s, g, o)
        PROVE  Good
    BY <2>1, <2>4 DEF BeginPutIntermediate, ValueWriteContext, OnSetting
  <2>5. ASSUME NEW s \in Setting, BeginDeleteServer(p, s) PROVE Good
    BY <2>1, <2>5 DEF BeginDeleteServer, OnSetting
  <2>6. ASSUME NEW s \in Setting, NEW u \in User, BeginDeletePersonal(p, s, u) PROVE Good
    BY <2>1, <2>6 DEF BeginDeletePersonal, OnSetting
  <2>7. ASSUME NEW s \in Setting, NEW g \in Group, BeginDeleteIntermediate(p, s, g) PROVE Good
    BY <2>1, <2>7 DEF BeginDeleteIntermediate, OnSetting
  <2> QED
    BY <1>1, <1>5, <2>2, <2>3, <2>4, <2>5, <2>6, <2>7 DEF ValueWrites, PutServer, PutPersonal,
       PutIntermediate, DeleteServer, DeletePersonal, DeleteIntermediate
<1>6. ASSUME NEW p \in Request, GroupWrites(p) PROVE Good
  <2>1. ASSUME NEW g \in Group, NEW r, Begin(p, r), groups[g] # None,
               r.at \in OnGroup /\ r.g = g /\ r.e = groups[g].env
        PROVE  Good
    BY <1>2, <2>1, BeginLoads
  <2>2. ASSUME NEW g \in Group, NEW n \in Priority, BeginUpdateGroup(p, g, n) PROVE Good
    BY <2>1, <2>2 DEF BeginUpdateGroup, OnGroup
  <2>3. ASSUME NEW g \in Group, BeginDeleteGroup(p, g) PROVE Good
    BY <2>1, <2>3 DEF BeginDeleteGroup, OnGroup
  <2>4. ASSUME NEW g \in Group, NEW op \in {"addMembers", "removeMembers"},
               NEW users \in SUBSET User, MembershipRequest(p, g, op, users)
        PROVE  Good
    BY <2>1, <2>4 DEF MembershipRequest, OnGroup
  <2> QED
    BY <1>1, <1>6, <2>2, <2>3, <2>4 DEF GroupWrites, CreateGroup, UpdateGroup, DeleteGroup,
       AddGroupMembers, RemoveGroupMembers
<1>7. ASSUME NEW p \in Request, StoreFails(p) \/ Invalidate(p) PROVE Good
  BY <1>3, <1>7 DEF StoreFails, Invalidate
<1>8. CASE RoleWrites \/ UNCHANGED vars
  BY <1>8 DEF RoleWrites, UpsertRole, DeleteRole, vars, Good
<1> QED
  BY <1>4, <1>5, <1>6, <1>7, <1>8 DEF Next, Good

\* An environment, once loaded, stays that of the row: rows keep theirs, and no
\* id is given out twice.
LEMMA NextLoadedEnvironments ==
    TypeOK /\ RowsAreBorn /\ LoadedEnvironments /\ [Next]_vars => LoadedEnvironments'
<1> SUFFICES ASSUME TypeOK, RowsAreBorn, LoadedEnvironments, [Next]_vars, NEW q \in Request
             PROVE  LoadedBy(req[q])'
  BY DEF LoadedEnvironments, LoadedBy
<1>1. req[q] \in Pending /\ LoadedBy(req[q])
  BY DEF TypeOK, LoadedEnvironments, LoadedBy
<1>2. CASE req'[q] = req[q]
  <2>1. /\ req[q].at \in OnSetting => req[q].s \in Setting
        /\ req[q].at \in OnGroup => req[q].g \in Group
    BY <1>1, PendingShapes DEF OnSetting, OnGroup
  <2> QED
    BY <1>1, <1>2, <2>1, RowsKeepEnvironments DEF LoadedBy
<1>3. CASE req'[q].at \in {"idle", "invalidate"}
  BY <1>3 DEF LoadedBy, OnSetting, OnGroup
<1>4. CASE Quiet /\ LoadedBy(req'[q])
  BY <1>4 DEF LoadedBy, Quiet, tables
<1> QED
  BY <1>2, <1>3, <1>4, RequestsLoad

-----------------------------------------------------------------------------
LEMMA InitIInv == Init => IInv
<1> SUFFICES ASSUME Init PROVE IInv
  OBVIOUS
<1> USE DEF Init
<1>1. TypeOK
  <2>1. Idle \in Pending
    BY DEF Pending
  <2>2. rank \in [Role -> Rank \union {0}]
    BY RankAssumption
  <2>3. IsFiniteSet(born)
    BY FS_EmptySet
  <2> QED
    BY <2>1, <2>2, <2>3 DEF TypeOK
<1>2. PendingUpdatesValid /\ RowsAreBorn
  BY DEF PendingUpdatesValid, RowsAreBorn, Defined, Idle
<1>4. CreatedApart /\ LoadedEnvironments
  BY DEF CreatedApart, LoadedEnvironments, Idle, OnSetting, OnGroup
<1>3. DefaultValid /\ StoredWithinScope /\ NoOrphans
  BY DEF DefaultValid, StoredWithinScope, NoOrphans, Defined, HasValues
<1> QED
  BY <1>1, <1>2, <1>3, <1>4 DEF IInv

\* The inductive invariant holds in every reachable state.
THEOREM InductiveInvariant == Spec => []IInv
<1>1. IInv /\ [Next]_vars => IInv'
  BY NextTypeOK, NextPendingUpdates, NextRowsAreBorn, NextCreatedApart,
     NextLoadedEnvironments, NextDefaultValid,
     NextStoredWithinScope, NextNoOrphans DEF IInv
<1> QED
  BY InitIInv, <1>1, PTL DEF Spec

\* Tables and requests always hold well-formed rows (settings, values, groups).
THEOREM TypeCorrect == Spec => []TypeOK
<1>1. IInv => TypeOK
  BY DEF IInv
<1> QED
  BY <1>1, InductiveInvariant, PTL

\* settings.go 120-121: whatever updates cross, a stored default validates under
\* the rules stored with it.
THEOREM DefaultsStayValid == Spec => []DefaultValid
<1>1. IInv => DefaultValid
  BY DEF IInv
<1> QED
  BY <1>1, InductiveInvariant, PTL

\* Migrations 003 and 005: no value is ever stored above the layer its setting's
\* scope permits, and no override of a group in another environment.
THEOREM ValuesStayWithinScope == Spec => []StoredWithinScope
<1>1. IInv => StoredWithinScope
  BY DEF IInv
<1> QED
  BY <1>1, InductiveInvariant, PTL

\* Migrations 003 to 005: a request that loaded a setting or a group before it
\* was deleted leaves nothing behind that refers to it.
THEOREM NothingIsOrphaned == Spec => []NoOrphans
<1>1. IInv => NoOrphans
  BY DEF IInv
<1> QED
  BY <1>1, InductiveInvariant, PTL

-----------------------------------------------------------------------------
(* What resolutions promise.                                               *)

\* README "Groups": a group named on the request applies exactly as membership
\* would.  The filter on groups is the only place either is looked at, and what
\* it keeps is all that the rest of the statement sees.
LEMMA AdHocIsMembership == AdHocEqualsMembership
<1> SUFFICES ASSUME NEW e \in Env, NEW q \in Question
             PROVE  Answer(DB, q, e) =
                      Answer([DB EXCEPT !.members = @ \union (q.adHoc \X {q.user})],
                             [user |-> q.user, maxRank |-> q.maxRank, adHoc |-> {}], e)
  BY DEF AdHocEqualsMembership
<1> DEFINE d == DB
           j == [DB EXCEPT !.members = @ \union (q.adHoc \X {q.user})]
<1>1. /\ j.settings = d.settings /\ j.rank = d.rank /\ j.groups = d.groups
      /\ j.server = d.server /\ j.personal = d.personal /\ j.overrides = d.overrides
      /\ j.members = d.members \union (q.adHoc \X {q.user})
  BY DEF DB
<1> HIDE DEF d, j
<1>2. MemberGroups(d, q.user, e, q.adHoc) = MemberGroups(j, q.user, e, {})
  BY <1>1 DEF MemberGroups
<1>3. Visible(d, e, {}, q.maxRank) = Visible(j, e, {}, q.maxRank)
  BY <1>1 DEF Visible
<1>4. ASSUME NEW s, NEW G PROVE ResolveOne(d, q.user, s, G) = ResolveOne(j, q.user, s, G)
  BY <1>1 DEF ResolveOne, OverrideValue, EffectiveOverride
<1>5. ResolveForUser(d, q.user, e, {}, q.maxRank, q.adHoc) =
        ResolveForUser(j, q.user, e, {}, q.maxRank, {})
  BY <1>2, <1>3, <1>4 DEF ResolveForUser
<1> QED
  BY <1>5 DEF Answer, d, j

\* The same for every reachable state.
THEOREM AdHocGroupsAreMembership == Spec => []AdHocEqualsMembership
<1>1. AdHocEqualsMembership
  BY AdHocIsMembership
<1> QED
  BY <1>1, PTL

\* Without its enforced overrides a setting has no enforced winner.
LEMMA LiftedHasNoEnforcement ==
    ASSUME NEW s \in Setting, NEW G \in SUBSET Group
    PROVE  Winner(groups, Lifted, s, G, TRUE) = None
<1>1. \A g \in G : ~(Lifted[g][s] # None /\ Lifted[g][s].enforced = TRUE)
  BY DEF Lifted
<1> QED
  BY <1>1 DEF Winner

\* resolve.go 62-65: `replaced` is what the user gets back when every enforced
\* override is lifted, and it is absent exactly when they had chosen nothing.
LEMMA LiftingRestores == TypeOK => LiftingRestoresChoice
<1> DEFINE d == DB
           l == [DB EXCEPT !.overrides = Lifted]
<1> SUFFICES ASSUME TypeOK, NEW e \in Env, NEW q \in Question,
                    NEW s \in DOMAIN Answer(d, q, e),
                    Answer(d, q, e)[s].override # None,
                    Answer(d, q, e)[s].override.enforced
             PROVE  /\ Answer(l, q, e)[s].source = "PERSONAL"
                         <=> Answer(d, q, e)[s].override.replaced # None
                    /\ Answer(d, q, e)[s].override.replaced # None =>
                         Answer(l, q, e)[s].value = Answer(d, q, e)[s].override.replaced
  BY DEF LiftingRestoresChoice
<1> DEFINE G == MemberGroups(d, q.user, e, q.adHoc)
           own == d.personal[q.user][s]
<1>1. /\ l.settings = d.settings /\ l.rank = d.rank /\ l.groups = d.groups
      /\ l.server = d.server /\ l.personal = d.personal /\ l.members = d.members
      /\ l.overrides = Lifted /\ d.groups = groups /\ d.settings = settings
      /\ d.members = members
  BY DEF DB
<1> HIDE DEF d, l
<1>2. MemberGroups(l, q.user, e, q.adHoc) = G
  BY <1>1 DEF MemberGroups
<1>3. Visible(l, e, {}, q.maxRank) = Visible(d, e, {}, q.maxRank)
  BY <1>1 DEF Visible
<1>4. s \in Visible(d, e, {}, q.maxRank)
  BY DEF Answer, ResolveForUser
<1>5. /\ Answer(d, q, e)[s] = ResolveOne(d, q.user, s, G)
      /\ Answer(l, q, e)[s] = ResolveOne(l, q.user, s, G)
  BY <1>2, <1>3, <1>4 DEF Answer, ResolveForUser
<1>6. s \in Setting /\ G \in SUBSET Group
  BY <1>1, <1>4 DEF Visible, MemberGroups, TypeOK
<1> HIDE DEF G
<1>7. Answer(d, q, e)[s].override.replaced = own
  <2> DEFINE by == Winner(d.groups, d.overrides, s, G, TRUE)
             advised == Winner(d.groups, d.overrides, s, G, FALSE)
  <2>1. Answer(d, q, e)[s].override = EffectiveOverride(d, s, by, advised, own)
    BY <1>5 DEF ResolveOne
  <2> DEFINE o == Answer(d, q, e)[s].override
  <2>2. o # None /\ o.enforced
    OBVIOUS
  <2> HIDE DEF by, advised, own, o
  <2>3. CASE by # None
    BY <2>1, <2>3 DEF EffectiveOverride, o
  <2>4. CASE by = None
    <3>1. o \in {None, [group |-> advised, enforced |-> FALSE,
                        visible |-> d.overrides[advised][s].visible, replaced |-> None]}
      BY <2>1, <2>4 DEF EffectiveOverride, o
    <3>2. ~o.enforced
      BY <2>2, <3>1
    <3> QED
      BY <2>2, <3>2
  <2> QED
    BY <2>3, <2>4
<1>8. /\ Answer(l, q, e)[s].source = "PERSONAL" <=> own # None
      /\ own # None => Answer(l, q, e)[s].value = own
  <2>1. Winner(l.groups, l.overrides, s, G, TRUE) = None
    BY <1>1, <1>6, LiftedHasNoEnforcement
  <2>2. l.personal[q.user][s] = own
    BY <1>1
  <2> HIDE DEF own
  <2>3. OverrideValue(l, Winner(l.groups, l.overrides, s, G, TRUE), s) = None
    BY <2>1 DEF OverrideValue
  <2>4. Answer(l, q, e)[s].source = "PERSONAL" <=> own # None
    BY <1>5, <2>2, <2>3 DEF ResolveOne
  <2>5. own # None => Answer(l, q, e)[s].value = own
    BY <1>5, <2>2, <2>3 DEF ResolveOne, Coalesce
  <2> QED
    BY <2>4, <2>5
<1> HIDE DEF own
<1> QED
  BY <1>7, <1>8

\* The same for every reachable state.
THEOREM LiftingRestoresTheChoice == Spec => []LiftingRestoresChoice
BY LiftingRestores, TypeCorrect, PTL

-----------------------------------------------------------------------------
(* The winner of a direction, and the answer it gives.                       *)

\* Finitely many groups of different ages have a first among them: the sets of
\* groups that outrank one are well founded, and a least one is empty.
LEMMA RankedFirst ==
    ASSUME NEW gr, NEW C, IsFiniteSet(C), C # {},
           \A g \in C : gr[g].priority \in Nat /\ gr[g].created \in Nat,
           \A g, h \in C : g # h => gr[g].created # gr[h].created
    PROVE  \E g \in C : \A h \in C \ {g} : Outranks(gr, g, h)
<1> DEFINE Up(g) == {h \in C : Outranks(gr, h, g)}
           F == {Up(g) : g \in C}
<1>1. \A g, h \in C : g = h \/ Outranks(gr, g, h) \/ Outranks(gr, h, g)
  BY DEF Outranks
<1>2. \A f, g, h \in C : Outranks(gr, f, g) /\ Outranks(gr, g, h) => Outranks(gr, f, h)
  BY DEF Outranks
<1>3. \A g \in C : ~Outranks(gr, g, g)
  BY DEF Outranks
<1>4. F # {} /\ F \subseteq FiniteSubsetsOf(C)
  <2>1. \A T \in SUBSET C : IsFiniteSet(T)
    BY FS_Subset
  <2> QED
    BY <2>1 DEF FiniteSubsetsOf
<1>5. IsWellFoundedOn(StrictSubsetOrdering(C), FiniteSubsetsOf(C))
  BY FS_StrictSubsetOrderingWellFounded
<1>6. PICK U \in F : \A W \in F : <<W, U>> \notin StrictSubsetOrdering(C)
  <2> HIDE DEF F
  <2> QED
    BY <1>4, <1>5, WFMin
<1>7. PICK g \in C : U = Up(g)
  OBVIOUS
<1>8. ASSUME NEW h \in C \ {g}, ~Outranks(gr, g, h) PROVE FALSE
  <2>1. Outranks(gr, h, g)
    BY <1>1, <1>8
  <2>2. Up(h) \subseteq Up(g) /\ h \in Up(g) /\ h \notin Up(h)
    BY <1>2, <1>3, <2>1
  <2>3. <<Up(h), U>> \in StrictSubsetOrdering(C)
    BY <1>7, <2>2 DEF StrictSubsetOrdering
  <2> QED
    BY <1>6, <2>3
<1> QED
  BY <1>8

\* So the groups a resolution chooses from have one that ranks before the others.
LEMMA RanksTell ==
    ASSUME TypeOK, RowsAreBorn, CreatedApart, NEW C \in SUBSET {g \in Group : groups[g] # None},
           C # {}
    PROVE  \E g \in C : \A h \in C \ {g} : Outranks(groups, g, h) /\ ~Outranks(groups, h, g)
<1>1. IsFiniteSet(C)
  BY FS_Subset DEF TypeOK, RowsAreBorn
<1>2. \A g \in C : groups[g].priority \in Nat /\ groups[g].created \in Nat
  BY LoadedRows, RankAssumption DEF GroupRow
<1>3. \A g, h \in C : g # h => groups[g].created # groups[h].created
  BY DEF CreatedApart
<1>4. PICK g \in C : \A h \in C \ {g} : Outranks(groups, g, h)
  BY <1>1, <1>2, <1>3, RankedFirst
<1>5. \A h \in C \ {g} : ~Outranks(groups, h, g)
  BY <1>2, <1>4 DEF Outranks
<1> QED
  BY <1>4, <1>5

\* The overrides of a setting that reach a user through G, in one direction.
Candidates(s, G, enforced) ==
    {g \in G : overrides[g][s] # None /\ overrides[g][s].enforced = enforced}

\* CHOOSE in Winner finds that one.
LEMMA WinnerRanksFirst ==
    ASSUME TypeOK, RowsAreBorn, CreatedApart, NEW s \in Setting,
           NEW G \in SUBSET {g \in Group : groups[g] # None}, NEW enforced \in BOOLEAN
    PROVE  LET C == Candidates(s, G, enforced)
               w == Winner(groups, overrides, s, G, enforced)
           IN /\ C = {} => w = None
              /\ C # {} => /\ w \in C
                           /\ \A h \in C \ {w} :
                                 Outranks(groups, w, h) /\ ~Outranks(groups, h, w)
<1> DEFINE C == Candidates(s, G, enforced)
<1>1. Winner(groups, overrides, s, G, enforced) =
        IF C = {} THEN None
        ELSE CHOOSE g \in C : \A h \in C \ {g} : Outranks(groups, g, h)
  BY DEF Winner, Candidates
<1>2. C \in SUBSET {g \in Group : groups[g] # None}
  BY DEF Candidates
<1> HIDE DEF C
<1>3. CASE C # {}
  <2>1. PICK g \in C : \A h \in C \ {g} : Outranks(groups, g, h) /\ ~Outranks(groups, h, g)
    BY <1>2, <1>3, RanksTell
  <2>2. \A f \in C : (\A h \in C \ {f} : Outranks(groups, f, h)) => f = g
    BY <2>1
  <2>3. (CHOOSE f \in C : \A h \in C \ {f} : Outranks(groups, f, h)) = g
    BY <2>1, <2>2
  <2> QED
    BY <1>1, <1>3, <2>1, <2>3 DEF C
<1> QED
  BY <1>1, <1>3 DEF C

\* The override README "Groups" describes is the one ORDER BY picks.
LEMMA BestIsWinner ==
    ASSUME TypeOK, RowsAreBorn, CreatedApart, NEW s \in Setting,
           NEW G \in SUBSET {g \in Group : groups[g] # None}, NEW enforced \in BOOLEAN
    PROVE  LET w == Winner(groups, overrides, s, G, enforced)
           IN BestOverride(s, G, enforced) = IF w = None THEN {} ELSE {overrides[w][s].value}
<1> DEFINE C == Candidates(s, G, enforced)
           w == Winner(groups, overrides, s, G, enforced)
           top == {g \in C : \A h \in C : groups[g].priority >= groups[h].priority}
           oldest == {g \in top : \A h \in top : groups[g].created <= groups[h].created}
<1>1. BestOverride(s, G, enforced) = {overrides[g][s].value : g \in oldest}
  BY DEF BestOverride, Candidates
<1>2. /\ C = {} => w = None
      /\ C # {} => w \in C /\ \A h \in C \ {w} : Outranks(groups, w, h) /\ ~Outranks(groups, h, w)
  BY WinnerRanksFirst
<1>3. \A g \in C : groups[g].priority \in Nat /\ groups[g].created \in Nat /\ g # None
  <2>1. \A g \in C : g \in Group /\ groups[g] # None
    BY DEF Candidates
  <2> HIDE DEF C
  <2>2. \A g \in C : groups[g] \in GroupRow /\ g # None
    BY <2>1, LoadedRows, NoneAssumption
  <2> QED
    BY <2>2, RankAssumption DEF GroupRow
<1> HIDE DEF C, w
<1>4. CASE C # {}
  <2>1. w \in top
    BY <1>2, <1>3, <1>4 DEF Outranks
  <2>2. \A h \in top : groups[w].priority = groups[h].priority
    BY <1>3, <2>1
  <2>3. w \in oldest
    BY <1>2, <1>3, <1>4, <2>1, <2>2 DEF Outranks
  <2>4. \A g \in oldest : g = w
    BY <1>2, <1>3, <1>4, <2>1, <2>2 DEF Outranks
  <2>5. oldest = {w}
    BY <2>3, <2>4
  <2>6. w # None
    BY <1>2, <1>3, <1>4
  <2> HIDE DEF oldest
  <2>7. BestOverride(s, G, enforced) = {overrides[w][s].value}
    BY <1>1, <2>5
  <2> QED
    BY <2>6, <2>7 DEF w
<1>5. CASE C = {}
  BY <1>1, <1>2, <1>5 DEF w
<1> QED
  BY <1>4, <1>5

\* The groups that reach the user of a question, the one of them that wins in
\* one direction, and the value it gives.
Reaching(q, e) == MemberGroups(DB, q.user, e, q.adHoc)
WinnerOf(q, e, s, enforced) == Winner(groups, overrides, s, Reaching(q, e), enforced)
GivenBy(q, e, s, enforced) ==
    IF WinnerOf(q, e, s, enforced) = None THEN None
    ELSE overrides[WinnerOf(q, e, s, enforced)][s].value

ValueOf(q, e, s) ==
    Coalesce(GivenBy(q, e, s, TRUE), Coalesce(personal[q.user][s],
        Coalesce(GivenBy(q, e, s, FALSE), Coalesce(server[s], settings[s].default))))
SourceOf(q, e, s) ==
    IF GivenBy(q, e, s, TRUE) # None THEN "INTERMEDIATE"
    ELSE IF personal[q.user][s] # None THEN "PERSONAL"
    ELSE IF GivenBy(q, e, s, FALSE) # None THEN "INTERMEDIATE"
    ELSE IF server[s] # None THEN "SERVER"
    ELSE IF settings[s].default # None THEN "DEFAULT"
    ELSE "UNSET"
OverrideOf(q, e, s) ==
    EffectiveOverride(DB, s, WinnerOf(q, e, s, TRUE), WinnerOf(q, e, s, FALSE), personal[q.user][s])

\* One answered row: a defined setting, groups that exist, and ResolveOne.
LEMMA AnswerRow ==
    ASSUME TypeOK, NEW e \in Env, NEW q \in Question, NEW s \in DOMAIN Answer(DB, q, e)
    PROVE  /\ s \in Setting /\ settings[s] \in SettingRow /\ q.user \in User
           /\ Reaching(q, e) \in SUBSET {g \in Group : groups[g] # None}
           /\ Answer(DB, q, e)[s] = ResolveOne(DB, q.user, s, Reaching(q, e))
<1> DEFINE d == DB
           G == MemberGroups(d, q.user, e, q.adHoc)
<1>1. d.settings = settings /\ d.groups = groups
  BY DEF DB
<1> HIDE DEF d
<1>2. s \in Visible(d, e, {}, q.maxRank)
  BY DEF Answer, ResolveForUser, d
<1>3. s \in Setting /\ settings[s] # None
  BY <1>1, <1>2 DEF Visible, TypeOK
<1>4. settings[s] \in SettingRow
  BY <1>3, LoadedRows
<1>5. G \in SUBSET {g \in Group : groups[g] # None}
  BY <1>1 DEF MemberGroups, TypeOK
<1>6. Answer(d, q, e)[s] = ResolveOne(d, q.user, s, G)
  BY <1>2 DEF Answer, ResolveForUser
<1> QED
  BY <1>3, <1>4, <1>5, <1>6 DEF d, Reaching, Question

\* The value of a row, the layer it came from, and the override it names.
LEMMA AnswerColumns ==
    ASSUME TypeOK, NEW e \in Env, NEW q \in Question, NEW s \in DOMAIN Answer(DB, q, e)
    PROVE  /\ Answer(DB, q, e)[s].value = ValueOf(q, e, s)
           /\ Answer(DB, q, e)[s].source = SourceOf(q, e, s)
           /\ Answer(DB, q, e)[s].override = OverrideOf(q, e, s)
<1> DEFINE d == DB
           G == Reaching(q, e)
           a == ResolveOne(d, q.user, s, G)
           by == Winner(d.groups, d.overrides, s, G, TRUE)
           advised == Winner(d.groups, d.overrides, s, G, FALSE)
           enforced == OverrideValue(d, by, s)
           advisory == OverrideValue(d, advised, s)
           own == d.personal[q.user][s]
<1>0. Answer(d, q, e)[s] = a
  BY AnswerRow
<1>1. /\ d.settings = settings /\ d.groups = groups /\ d.server = server
      /\ d.personal = personal /\ d.overrides = overrides
  BY DEF DB
<1> HIDE DEF d
<1>2. /\ a.value = Coalesce(enforced, Coalesce(own, Coalesce(advisory,
                      Coalesce(d.server[s], d.settings[s].default))))
      /\ a.source = IF enforced # None THEN "INTERMEDIATE"
                    ELSE IF own # None THEN "PERSONAL"
                    ELSE IF advisory # None THEN "INTERMEDIATE"
                    ELSE IF d.server[s] # None THEN "SERVER"
                    ELSE IF d.settings[s].default # None THEN "DEFAULT"
                    ELSE "UNSET"
      /\ a.override = EffectiveOverride(d, s, by, advised, own)
  BY DEF ResolveOne
<1>3. /\ by = WinnerOf(q, e, s, TRUE) /\ advised = WinnerOf(q, e, s, FALSE)
      /\ enforced = GivenBy(q, e, s, TRUE) /\ advisory = GivenBy(q, e, s, FALSE)
      /\ own = personal[q.user][s]
  BY <1>1 DEF OverrideValue, WinnerOf, GivenBy
<1> HIDE DEF a, by, advised, enforced, advisory, own
<1> QED
  BY <1>0, <1>1, <1>2, <1>3 DEF d, ValueOf, SourceOf, OverrideOf

\* A winner is a group that overrides the setting in that direction.
LEMMA WinnersOverride ==
    ASSUME TypeOK, RowsAreBorn, CreatedApart, NEW e \in Env, NEW q \in Question,
           NEW s \in DOMAIN Answer(DB, q, e), NEW enforced \in BOOLEAN,
           WinnerOf(q, e, s, enforced) # None
    PROVE  /\ WinnerOf(q, e, s, enforced) \in Group
           /\ overrides[WinnerOf(q, e, s, enforced)][s] \in Override
           /\ overrides[WinnerOf(q, e, s, enforced)][s].enforced = enforced
<1> DEFINE G == Reaching(q, e)
           w == WinnerOf(q, e, s, enforced)
<1>1. s \in Setting /\ G \in SUBSET {g \in Group : groups[g] # None}
  BY AnswerRow
<1>2. w = Winner(groups, overrides, s, G, enforced)
  BY DEF WinnerOf
<1> HIDE DEF G, w
<1>3. w \in Candidates(s, G, enforced)
  BY <1>1, <1>2, WinnerRanksFirst DEF w
<1>4. w \in Group /\ overrides[w][s] # None /\ overrides[w][s].enforced = enforced
  BY <1>1, <1>3 DEF Candidates
<1>5. overrides[w][s] \in Override
  BY <1>1, <1>4 DEF TypeOK
<1> QED
  BY <1>4, <1>5 DEF w

\* What a direction gives is the best override there is in it, if any.
LEMMA BestIsGiven ==
    ASSUME TypeOK, RowsAreBorn, CreatedApart, NEW e \in Env, NEW q \in Question,
           NEW s \in DOMAIN Answer(DB, q, e), NEW enforced \in BOOLEAN
    PROVE  /\ GivenBy(q, e, s, enforced) = None <=> WinnerOf(q, e, s, enforced) = None
           /\ GivenBy(q, e, s, enforced) \in Value \union {None}
           /\ BestOverride(s, Reaching(q, e), enforced) = {GivenBy(q, e, s, enforced)} \ {None}
<1> DEFINE G == Reaching(q, e)
           w == WinnerOf(q, e, s, enforced)
<1>1. s \in Setting /\ G \in SUBSET {g \in Group : groups[g] # None}
  BY AnswerRow
<1>2. w = Winner(groups, overrides, s, G, enforced)
  BY DEF WinnerOf
<1>3. w # None => overrides[w][s] \in Override
  BY WinnersOverride
<1> HIDE DEF G, w
<1>4. w # None => overrides[w][s].value \in Value /\ overrides[w][s].value # None
  BY <1>3, NoneAssumption DEF Override
<1>5. BestOverride(s, G, enforced) = IF w = None THEN {} ELSE {overrides[w][s].value}
  BY <1>1, <1>2, BestIsWinner
<1>6. GivenBy(q, e, s, enforced) = IF w = None THEN None ELSE overrides[w][s].value
  BY DEF GivenBy, w
<1> QED
  BY <1>4, <1>5, <1>6 DEF w, G

\* README "Resolution": the value is that of the highest layer that has one.
LEMMA LayersResolveInOrder == TypeOK /\ RowsAreBorn /\ CreatedApart => LayerOrder
<1> SUFFICES ASSUME TypeOK, RowsAreBorn, CreatedApart, NEW e \in Env, NEW q \in Question,
                    NEW s \in DOMAIN Answer(DB, q, e)
             PROVE  LET G == MemberGroups(DB, q.user, e, q.adHoc)
                        layers == <<{settings[s].default} \ {None}, {server[s]} \ {None},
                                    BestOverride(s, G, FALSE), {personal[q.user][s]} \ {None},
                                    BestOverride(s, G, TRUE)>>
                        given == {i \in 1..5 : layers[i] # {}}
                    IN IF given = {} THEN Answer(DB, q, e)[s].value = None
                       ELSE \E i \in given : /\ \A j \in given : j <= i
                                             /\ layers[i] = {Answer(DB, q, e)[s].value}
  BY DEF LayerOrder
<1>1. Answer(DB, q, e)[s].value =
        Coalesce(GivenBy(q, e, s, TRUE), Coalesce(personal[q.user][s],
            Coalesce(GivenBy(q, e, s, FALSE), Coalesce(server[s], settings[s].default))))
  BY AnswerColumns DEF ValueOf
<1>2. /\ BestOverride(s, Reaching(q, e), TRUE) = {GivenBy(q, e, s, TRUE)} \ {None}
      /\ BestOverride(s, Reaching(q, e), FALSE) = {GivenBy(q, e, s, FALSE)} \ {None}
  BY BestIsGiven
<1> DEFINE value == Answer(DB, q, e)[s].value
           default == settings[s].default
           srv == server[s]
           advisory == GivenBy(q, e, s, FALSE)
           own == personal[q.user][s]
           enforced == GivenBy(q, e, s, TRUE)
           G == MemberGroups(DB, q.user, e, q.adHoc)
           layers == <<{default} \ {None}, {srv} \ {None}, BestOverride(s, G, FALSE),
                       {own} \ {None}, BestOverride(s, G, TRUE)>>
           given == {i \in 1..5 : layers[i] # {}}
<1>3. layers = <<{default} \ {None}, {srv} \ {None}, {advisory} \ {None},
                 {own} \ {None}, {enforced} \ {None}>>
  BY <1>2 DEF Reaching
<1> HIDE DEF value, layers, enforced, advisory, own, default, srv, G
<1>4. /\ 1 \in given <=> default # None
      /\ 2 \in given <=> srv # None
      /\ 3 \in given <=> advisory # None
      /\ 4 \in given <=> own # None
      /\ 5 \in given <=> enforced # None
      /\ given \subseteq {1, 2, 3, 4, 5}
  BY <1>3
<1> HIDE DEF given
<1>5. IF given = {} THEN value = None
      ELSE \E i \in given : (\A j \in given : j <= i) /\ layers[i] = {value}
  <2>0. value = IF enforced # None THEN enforced ELSE IF own # None THEN own
                ELSE IF advisory # None THEN advisory ELSE IF srv # None THEN srv ELSE default
    BY <1>1 DEF Coalesce, value, enforced, own, advisory, srv, default
  <2>1. CASE enforced # None
    BY <1>3, <1>4, <2>0, <2>1
  <2>2. CASE enforced = None /\ own # None
    BY <1>3, <1>4, <2>0, <2>2
  <2>3. CASE enforced = None /\ own = None /\ advisory # None
    BY <1>3, <1>4, <2>0, <2>3
  <2>4. CASE enforced = None /\ own = None /\ advisory = None
    BY <1>3, <1>4, <2>0, <2>4
  <2> QED
    BY <2>1, <2>2, <2>3, <2>4
<1> QED
  BY <1>5 DEF value, layers, own, given, G, default, srv

\* The same for every reachable state.
THEOREM LayersApplyInOrder == Spec => []LayerOrder
<1>1. IInv => LayerOrder
  BY LayersResolveInOrder DEF IInv
<1> QED
  BY <1>1, InductiveInvariant, PTL

\* The override a row names is an enforced one exactly when there is one.
LEMMA NamedOverride ==
    ASSUME TypeOK, RowsAreBorn, CreatedApart, NEW e \in Env, NEW q \in Question,
           NEW s \in DOMAIN Answer(DB, q, e)
    PROVE  LET by == WinnerOf(q, e, s, TRUE)
               advised == WinnerOf(q, e, s, FALSE)
               own == personal[q.user][s]
               o == Answer(DB, q, e)[s].override
           IN /\ by # None =>
                   /\ o # None /\ o.group = by /\ o.enforced = TRUE /\ o.replaced = own
                   /\ o.visible = overrides[by][s].visible
              /\ by = None /\ advised # None /\ own = None =>
                   /\ o # None /\ o.group = advised /\ o.enforced = FALSE /\ o.replaced = None
                   /\ o.visible = overrides[advised][s].visible
              /\ by = None /\ (advised = None \/ own # None) => o = None
<1> DEFINE by == WinnerOf(q, e, s, TRUE)
           advised == WinnerOf(q, e, s, FALSE)
           own == personal[q.user][s]
           o == Answer(DB, q, e)[s].override
           rowBy == [group |-> by, enforced |-> TRUE,
                     visible |-> overrides[by][s].visible, replaced |-> own]
           rowAdvised == [group |-> advised, enforced |-> FALSE,
                          visible |-> overrides[advised][s].visible, replaced |-> None]
<1>1. o = IF by # None THEN rowBy
          ELSE IF advised # None /\ own = None THEN rowAdvised ELSE None
  <2>1. o = OverrideOf(q, e, s)
    BY AnswerColumns
  <2>2. DB.overrides = overrides
    BY DEF DB
  <2> HIDE DEF o
  <2> QED
    BY <2>1, <2>2 DEF OverrideOf, EffectiveOverride
<1>2. /\ by # None => by \in Group /\ overrides[by][s] \in Override
      /\ advised # None => advised \in Group /\ overrides[advised][s] \in Override
  BY WinnersOverride
<1>3. own \in Value \union {None}
  BY AnswerRow DEF TypeOK
<1> HIDE DEF by, advised, own, o
<1>4. by # None => rowBy # None
  <2>1. by # None => overrides[by][s].visible \in BOOLEAN
    BY <1>2 DEF Override
  <2>2. by # None => rowBy \in OverrideBlock
    BY <1>2, <1>3, <2>1 DEF OverrideBlock
  <2> HIDE DEF rowBy
  <2> QED
    BY <2>2, NoneAssumption
<1>5. advised # None => rowAdvised # None
  <2>1. advised # None => overrides[advised][s].visible \in BOOLEAN
    BY <1>2 DEF Override
  <2>2. advised # None => rowAdvised \in OverrideBlock
    BY <1>2, <2>1 DEF OverrideBlock
  <2> HIDE DEF rowAdvised
  <2> QED
    BY <2>2, NoneAssumption
<1>6. CASE by # None
  <2>1. o = rowBy /\ o # None
    BY <1>1, <1>4, <1>6
  <2>2. /\ o.group = by /\ o.enforced = TRUE /\ o.replaced = own
        /\ o.visible = overrides[by][s].visible
    BY <2>1
  <2> HIDE DEF rowBy, rowAdvised
  <2> QED
    BY <1>6, <2>1, <2>2 DEF by, own, o
<1>7. CASE by = None /\ advised # None /\ own = None
  <2>1. o = rowAdvised /\ o # None
    BY <1>1, <1>5, <1>7
  <2>2. /\ o.group = advised /\ o.enforced = FALSE /\ o.replaced = None
        /\ o.visible = overrides[advised][s].visible
    BY <2>1
  <2> HIDE DEF rowBy, rowAdvised
  <2> QED
    BY <1>7, <2>1, <2>2 DEF by, advised, own, o
<1>8. CASE by = None /\ (advised = None \/ own # None)
  BY <1>1, <1>8 DEF by, advised, own, o
<1> QED
  BY <1>6, <1>7, <1>8

\* resolve.go 46-65: an override is named exactly when it shaped the value, and
\* the one named is the one that did.
LEMMA CausesAreNamed == TypeOK /\ RowsAreBorn /\ CreatedApart => OverrideIsTheCause
<1> SUFFICES ASSUME TypeOK, RowsAreBorn, CreatedApart, NEW e \in Env, NEW q \in Question,
                    NEW s \in DOMAIN Answer(DB, q, e)
             PROVE  LET a == Answer(DB, q, e)[s] IN
                    /\ a.override # None <=> a.source = "INTERMEDIATE"
                    /\ a.override # None =>
                         LET o == overrides[a.override.group][s] IN
                         /\ a.value = o.value /\ a.override.enforced = o.enforced
                         /\ a.override.visible = o.visible
                         /\ ~o.enforced => personal[q.user][s] = None
                         /\ a.override.replaced # None => o.enforced
  BY DEF OverrideIsTheCause
<1> DEFINE a == Answer(DB, q, e)[s]
           by == WinnerOf(q, e, s, TRUE)
           advised == WinnerOf(q, e, s, FALSE)
           own == personal[q.user][s]
           enforced == GivenBy(q, e, s, TRUE)
           advisory == GivenBy(q, e, s, FALSE)
<1>1. /\ a.value = ValueOf(q, e, s) /\ a.source = SourceOf(q, e, s)
  BY AnswerColumns
<1>2. /\ enforced = None <=> by = None
      /\ advisory = None <=> advised = None
  BY BestIsGiven
<1>3. /\ by # None => enforced = overrides[by][s].value /\ overrides[by][s].enforced = TRUE
      /\ advised # None =>
           advisory = overrides[advised][s].value /\ overrides[advised][s].enforced = FALSE
  BY WinnersOverride DEF GivenBy
<1>4. LET o == a.override
      IN /\ by # None =>
              /\ o # None /\ o.group = by /\ o.enforced = TRUE /\ o.replaced = own
              /\ o.visible = overrides[by][s].visible
         /\ by = None /\ advised # None /\ own = None =>
              /\ o # None /\ o.group = advised /\ o.enforced = FALSE /\ o.replaced = None
              /\ o.visible = overrides[advised][s].visible
         /\ by = None /\ (advised = None \/ own # None) => o = None
  BY NamedOverride
<1>5. a.source = "INTERMEDIATE" <=> enforced # None \/ (own = None /\ advisory # None)
  <2> HIDE DEF a
  <2> QED
    BY <1>1 DEF SourceOf
<1>6. /\ enforced # None => a.value = enforced
      /\ enforced = None /\ own = None /\ advisory # None => a.value = advisory
  <2> HIDE DEF a
  <2> QED
    BY <1>1 DEF ValueOf, Coalesce
<1> HIDE DEF a, by, advised, own, enforced, advisory
<1>7. CASE by # None
  BY <1>2, <1>3, <1>4, <1>5, <1>6, <1>7 DEF a, own
<1>8. CASE by = None /\ advised # None /\ own = None
  BY <1>2, <1>3, <1>4, <1>5, <1>6, <1>8 DEF a, own
<1>9. CASE by = None /\ (advised = None \/ own # None)
  BY <1>2, <1>4, <1>5, <1>9 DEF a
<1> QED
  BY <1>7, <1>8, <1>9

\* What the user would get back after choosing v.
LEMMA ChoosingOne ==
    ASSUME TypeOK, RowsAreBorn, CreatedApart, NEW e \in Env, NEW q \in Question,
           NEW s \in DOMAIN Answer(DB, q, e), NEW v \in Value
    PROVE  Answer([DB EXCEPT !.personal[q.user][s] = v], q, e)[s].value =
             IF GivenBy(q, e, s, TRUE) = None THEN v ELSE GivenBy(q, e, s, TRUE)
<1> DEFINE d == DB
           c == [DB EXCEPT !.personal[q.user][s] = v]
           G == Reaching(q, e)
<1>1. /\ c.settings = d.settings /\ c.rank = d.rank /\ c.groups = groups
      /\ c.members = d.members /\ c.server = d.server /\ c.overrides = overrides
      /\ c.personal[q.user][s] = v /\ d.groups = groups
  <2>1. q.user \in User /\ s \in Setting
    BY AnswerRow
  <2> QED
    BY <2>1 DEF DB, TypeOK
<1>2. s \in Visible(d, e, {}, q.maxRank)
  BY DEF Answer, ResolveForUser
<1> HIDE DEF d, c
<1>3. MemberGroups(c, q.user, e, q.adHoc) = G /\ s \in Visible(c, e, {}, q.maxRank)
  BY <1>1, <1>2 DEF MemberGroups, Visible, Reaching, d
<1>4. Answer(c, q, e)[s] = ResolveOne(c, q.user, s, G)
  BY <1>3 DEF Answer, ResolveForUser
<1> DEFINE enforced == OverrideValue(c, Winner(c.groups, c.overrides, s, G, TRUE), s)
           advisory == OverrideValue(c, Winner(c.groups, c.overrides, s, G, FALSE), s)
<1>5. Answer(c, q, e)[s].value =
        Coalesce(enforced, Coalesce(v, Coalesce(advisory, Coalesce(c.server[s], c.settings[s].default))))
  BY <1>1, <1>4 DEF ResolveOne
<1>6. enforced = GivenBy(q, e, s, TRUE)
  BY <1>1 DEF OverrideValue, WinnerOf, GivenBy
<1> HIDE DEF enforced, advisory
<1> QED
  BY <1>5, <1>6, NoneAssumption DEF Coalesce, c

\* snapshot.ts 153-163: a choice comes through, whatever it is, exactly when no
\* enforced override stands in its way.
LEMMA EditableSettingsTakeEffect ==
    TypeOK /\ RowsAreBorn /\ CreatedApart => EditableMeansEffective
<1> SUFFICES ASSUME TypeOK, RowsAreBorn, CreatedApart, NEW e \in Env, NEW q \in Question,
                    NEW s \in DOMAIN Answer(DB, q, e)
             PROVE  Editable(s, Answer(DB, q, e)[s]) <=>
                      /\ settings[s].scope = "PERSONAL"
                      /\ \A v \in Value :
                           Answer([DB EXCEPT !.personal[q.user][s] = v], q, e)[s].value = v
  BY DEF EditableMeansEffective
<1> DEFINE by == WinnerOf(q, e, s, TRUE)
           enforced == GivenBy(q, e, s, TRUE)
           o == Answer(DB, q, e)[s].override
           Chosen(v) == Answer([DB EXCEPT !.personal[q.user][s] = v], q, e)[s].value
<1>1. (o # None /\ o.enforced) <=> by # None
  BY NamedOverride
<1>2. (enforced = None <=> by = None) /\ enforced \in Value \union {None}
  BY BestIsGiven
<1>3. \A v \in Value : Chosen(v) = IF enforced = None THEN v ELSE enforced
  BY ChoosingOne
<1> HIDE DEF by, enforced, o, Chosen
<1>4. (\A v \in Value : Chosen(v) = v) <=> enforced = None
  <2>1. ASSUME enforced # None PROVE \E v \in Value : Chosen(v) # v
    BY <1>2, <1>3, <2>1, ValueAssumption
  <2> QED
    BY <1>3, <2>1
<1> QED
  BY <1>1, <1>2, <1>4 DEF Editable, o, Chosen

\* resolve.go 46-65, in every reachable state.
THEOREM OverridesAreCauses == Spec => []OverrideIsTheCause
<1>1. IInv => OverrideIsTheCause
  BY CausesAreNamed DEF IInv
<1> QED
  BY <1>1, InductiveInvariant, PTL

\* snapshot.ts 153-163, in every reachable state.
THEOREM EditableTakesEffect == Spec => []EditableMeansEffective
<1>1. IInv => EditableMeansEffective
  BY EditableSettingsTakeEffect DEF IInv
<1> QED
  BY <1>1, InductiveInvariant, PTL

-----------------------------------------------------------------------------
(* What a change of answers leaves behind.                                   *)

\* A setting of environment e; a group that applies in it.
InEnv(row, e) == row # None /\ row.env = e
Applies(row, e) == row # None /\ row.env \in {AnyEnv, e}

\* The step leaves alone what a resolution of e reads: the settings of e, their
\* values, and the groups that apply there.
SameIn(e) ==
    /\ \A s \in Setting : InEnv(settings[s], e) \/ InEnv(settings'[s], e) =>
        /\ settings'[s] = settings[s] /\ server'[s] = server[s]
        /\ \A u \in User : personal'[u][s] = personal[u][s]
        /\ \A g \in Group : Applies(groups[g], e) => overrides'[g][s] = overrides[g][s]
    /\ \A g \in Group : Applies(groups[g], e) \/ Applies(groups'[g], e) =>
        /\ groups'[g] = groups[g]
        /\ \A u \in User : <<g, u>> \in members' <=> <<g, u>> \in members

\* Winner reads the rows of G, and their overrides of s, only.
LEMMA WinnerReads ==
    ASSUME NEW gr, NEW grn, NEW ov, NEW ovn, NEW s, NEW G, NEW enforced,
           \A g \in G : grn[g] = gr[g] /\ ovn[g][s] = ov[g][s]
    PROVE  Winner(grn, ovn, s, G, enforced) = Winner(gr, ov, s, G, enforced)
<1> DEFINE C == {g \in G : ov[g][s] # None /\ ov[g][s].enforced = enforced}
           Cn == {g \in G : ovn[g][s] # None /\ ovn[g][s].enforced = enforced}
           First(g) == \A h \in C \ {g} : Outranks(gr, g, h)
           Firstn(g) == \A h \in Cn \ {g} : Outranks(grn, g, h)
<1>1. Cn = C
  OBVIOUS
<1>2. \A g \in C : First(g) <=> Firstn(g)
  BY <1>1 DEF Outranks
<1>3. (CHOOSE g \in C : First(g)) = (CHOOSE g \in Cn : Firstn(g))
  <2> HIDE DEF First, Firstn, C, Cn
  <2> QED
    BY <1>1, <1>2
<1>4. /\ Winner(gr, ov, s, G, enforced) = IF C = {} THEN None ELSE CHOOSE g \in C : First(g)
      /\ Winner(grn, ovn, s, G, enforced) =
            IF Cn = {} THEN None ELSE CHOOSE g \in Cn : Firstn(g)
  BY DEF Winner
<1> DEFINE w == CHOOSE g \in C : First(g)
           wn == CHOOSE g \in Cn : Firstn(g)
<1>5. /\ Winner(gr, ov, s, G, enforced) = IF C = {} THEN None ELSE w
      /\ Winner(grn, ovn, s, G, enforced) = IF Cn = {} THEN None ELSE wn
      /\ w = wn
  BY <1>3, <1>4
<1> HIDE DEF C, Cn, w, wn
<1> QED
  BY <1>1, <1>5

\* Winner gives a group it was asked about, or none.
LEMMA WinnerIsAsked ==
    ASSUME TypeOK, RowsAreBorn, CreatedApart, NEW s \in Setting, NEW enforced \in BOOLEAN,
           NEW G \in SUBSET {g \in Group : groups[g] # None}
    PROVE  Winner(groups, overrides, s, G, enforced) \in G \union {None}
<1> DEFINE C == Candidates(s, G, enforced)
           w == Winner(groups, overrides, s, G, enforced)
<1>1. C \subseteq G
  BY DEF Candidates
<1>2. (C = {} => w = None) /\ (C # {} => w \in C)
  BY WinnerRanksFirst
<1> HIDE DEF C, w
<1> QED
  BY <1>1, <1>2 DEF w

\* So a resolution of e does not change.
LEMMA SameAnswers ==
    ASSUME TypeOK, TypeOK', RowsAreBorn, CreatedApart, rank' = rank, NEW e \in Env, SameIn(e),
           NEW q \in Question
    PROVE  Answer(DB, q, e)' = Answer(DB, q, e)
<1> DEFINE d == DB
           n == DB'
           G == MemberGroups(d, q.user, e, q.adHoc)
           V == Visible(d, e, {}, q.maxRank)
<1>1. /\ d.settings = settings /\ d.groups = groups /\ d.server = server /\ d.rank = rank
      /\ d.personal = personal /\ d.overrides = overrides /\ d.members = members
      /\ n.settings = settings' /\ n.groups = groups' /\ n.server = server' /\ n.rank = rank'
      /\ n.personal = personal' /\ n.overrides = overrides' /\ n.members = members'
  BY DEF DB
<1>2. Answer(DB, q, e)' = Answer(n, q, e)
  BY DEF Answer, ResolveForUser
<1> HIDE DEF d, n
<1>3. q.user \in User
  BY DEF Question
<1>4. /\ DOMAIN settings = Setting /\ DOMAIN settings' = Setting
      /\ DOMAIN groups = Group /\ DOMAIN groups' = Group
  BY DEF TypeOK
<1>5. MemberGroups(n, q.user, e, q.adHoc) = G
  BY <1>1, <1>3, <1>4 DEF MemberGroups, SameIn, Applies
<1>6. Visible(n, e, {}, q.maxRank) = V
  BY <1>1, <1>4 DEF Visible, SameIn, InEnv
<1>7. ASSUME NEW s \in V PROVE ResolveOne(n, q.user, s, G) = ResolveOne(d, q.user, s, G)
  <2>1. s \in Setting /\ InEnv(settings[s], e)
    BY <1>1, <1>4 DEF Visible, InEnv
  <2>2. /\ settings'[s] = settings[s] /\ server'[s] = server[s]
        /\ personal'[q.user][s] = personal[q.user][s]
    BY <1>3, <2>1 DEF SameIn
  <2>3. \A g \in G : g \in Group /\ groups[g] # None /\ Applies(groups[g], e)
    BY <1>1, <1>4 DEF MemberGroups, Applies
  <2>4. \A g \in G : groups'[g] = groups[g] /\ overrides'[g][s] = overrides[g][s]
    BY <2>1, <2>3 DEF SameIn
  <2> HIDE DEF G, V
  <2>5. \A enforced \in BOOLEAN :
            Winner(groups', overrides', s, G, enforced) = Winner(groups, overrides, s, G, enforced)
    BY <2>4, WinnerReads
  <2>6. \A enforced \in BOOLEAN : Winner(groups, overrides, s, G, enforced) \in G \union {None}
    BY <2>1, <2>3, WinnerIsAsked
  <2> DEFINE by == Winner(groups, overrides, s, G, TRUE)
             advised == Winner(groups, overrides, s, G, FALSE)
  <2>7. by \in G \union {None} /\ advised \in G \union {None}
    BY <2>6
  <2>8. /\ Winner(n.groups, n.overrides, s, G, TRUE) = by
        /\ Winner(n.groups, n.overrides, s, G, FALSE) = advised
        /\ Winner(d.groups, d.overrides, s, G, TRUE) = by
        /\ Winner(d.groups, d.overrides, s, G, FALSE) = advised
    BY <1>1, <2>5
  <2> HIDE DEF by, advised
  <2>9. /\ OverrideValue(n, by, s) = OverrideValue(d, by, s)
        /\ OverrideValue(n, advised, s) = OverrideValue(d, advised, s)
    BY <1>1, <2>4, <2>7 DEF OverrideValue
  <2> DEFINE own == d.personal[q.user][s]
  <2>10. n.personal[q.user][s] = own /\ n.server[s] = d.server[s] /\ n.settings[s] = d.settings[s]
    BY <1>1, <2>2
  <2> HIDE DEF own
  <2>11. EffectiveOverride(n, s, by, advised, own) = EffectiveOverride(d, s, by, advised, own)
    BY <1>1, <2>4, <2>7 DEF EffectiveOverride
  <2> QED
    BY <2>8, <2>9, <2>10, <2>11 DEF ResolveOne, own
<1> HIDE DEF G, V
<1>8. Answer(n, q, e) = [s \in V |-> ResolveOne(n, q.user, s, G)]
  BY <1>5, <1>6 DEF Answer, ResolveForUser
<1>9. Answer(d, q, e) = [s \in V |-> ResolveOne(d, q.user, s, G)]
  BY DEF Answer, ResolveForUser, G, V
<1>10. Answer(n, q, e) = Answer(d, q, e)
  BY <1>7, <1>8, <1>9
<1> QED
  BY <1>2, <1>10 DEF d

\* A step on one setting that is not of e, before or after.
LEMMA SettingElsewhere ==
    ASSUME NEW e, NEW s \in Setting, ~InEnv(settings[s], e), ~InEnv(settings'[s], e),
           groups' = groups, members' = members,
           \A t \in Setting \ {s} :
               /\ settings'[t] = settings[t] /\ server'[t] = server[t]
               /\ \A u \in User : personal'[u][t] = personal[u][t]
               /\ \A g \in Group : overrides'[g][t] = overrides[g][t]
    PROVE  SameIn(e)
BY DEF SameIn

\* A step on one group that does not apply in e, before or after.
LEMMA GroupElsewhere ==
    ASSUME NEW e, NEW f \in Group, ~Applies(groups[f], e), ~Applies(groups'[f], e),
           settings' = settings, server' = server, personal' = personal,
           \A g \in Group \ {f} :
               /\ groups'[g] = groups[g] /\ overrides'[g] = overrides[g]
               /\ \A u \in User : <<g, u>> \in members' <=> <<g, u>> \in members
    PROVE  SameIn(e)
BY DEF SameIn

\* A request about to write to a row that is still there only owes the
\* environments that can see that row.
LEMMA WriterKnows ==
    ASSUME TypeOK, LoadedEnvironments, NEW p \in Request, NEW e \in Env
    PROVE  /\ req[p].at \in OnSetting /\ e # req[p].e => ~InEnv(settings[req[p].s], e)
           /\ req[p].at \in OnGroup /\ e \notin Affected(req[p].e) =>
                ~Applies(groups[req[p].g], e)
<1>1. ASSUME req[p].at \in OnGroup, e \notin Affected(req[p].e)
      PROVE  ~Applies(groups[req[p].g], e)
  <2>1. req[p].e \notin {AnyEnv, e}
    BY <1>1 DEF Affected
  <2>2. groups[req[p].g] # None => groups[req[p].g].env = req[p].e
    BY <1>1 DEF LoadedEnvironments
  <2> QED
    BY <2>1, <2>2 DEF Applies
<1> QED
  BY <1>1 DEF LoadedEnvironments, InEnv

\* A write either leaves an environment alone or is about to invalidate it.
LEMMA WritesAnnounce ==
    ASSUME TypeOK, RowsAreBorn, LoadedEnvironments, NEW p \in Request, WriteBy(p), NEW e \in Env
    PROVE  SameIn(e) \/ Announced(e)'
<1> DEFINE r == req[p]
<1>0. r \in Pending
  BY DEF TypeOK
<1>1. ASSUME NEW E, Wrote(p, E), e \in E PROVE Announced(e)'
  <2>1. req'[p] = [at |-> "invalidate", owes |-> E]
    BY <1>1 DEF Wrote, TypeOK
  <2> QED
    BY <1>1, <2>1 DEF Announced
<1> SUFFICES ASSUME ~Announced(e)' PROVE SameIn(e)
  OBVIOUS
<1>2. ASSUME NEW s \in Setting, NEW row \in NewSettings, CreateSetting(p, s, row)
      PROVE  SameIn(e)
  <2>1. e # row.env
    BY <1>1, <1>2 DEF CreateSetting
  <2>2. settings[s] = None
    BY <1>2 DEF CreateSetting, RowsAreBorn, Defined
  <2>3. /\ settings'[s] = row /\ \A t \in Setting \ {s} : settings'[t] = settings[t]
        /\ groups' = groups /\ members' = members /\ values' = values
    BY <1>2 DEF CreateSetting, TypeOK
  <2>4. ~InEnv(settings[s], e) /\ ~InEnv(settings'[s], e)
    BY <2>1, <2>2, <2>3 DEF InEnv
  <2> QED
    BY <2>3, <2>4, SettingElsewhere DEF values
<1>3. ASSUME r.at \in OnSetting, r.s \in Setting, Wrote(p, {r.e}),
             groups' = groups, members' = members,
             \/ settings' = settings
             \/ settings'[r.s] = None
             \/ settings'[r.s] # None /\ settings'[r.s].env = settings[r.s].env
                    /\ settings[r.s] # None,
             \A t \in Setting \ {r.s} :
               /\ settings'[t] = settings[t] /\ server'[t] = server[t]
               /\ \A u \in User : personal'[u][t] = personal[u][t]
               /\ \A g \in Group : overrides'[g][t] = overrides[g][t]
      PROVE  SameIn(e)
  <2>1. ~InEnv(settings[r.s], e)
    BY <1>1, <1>3, WriterKnows
  <2>2. ~InEnv(settings'[r.s], e)
    BY <1>3, <2>1 DEF InEnv
  <2> QED
    BY <1>3, <2>1, <2>2, SettingElsewhere
<1>4. CASE UpdateSetting(p)
  <2>1. r.s \in Setting /\ r.at \in OnSetting /\ settings[r.s] # None
    BY <1>0, <1>4, PendingShapes DEF UpdateSetting, OnSetting
  <2>2. settings' = [settings EXCEPT ![r.s] = Updated(settings[r.s], r.v)]
    BY <1>4 DEF UpdateSetting
  <2>3. Updated(settings[r.s], r.v).env = settings[r.s].env
    BY DEF Updated
  <2>4. /\ settings'[r.s].env = settings[r.s].env
        /\ \A t \in Setting \ {r.s} : settings'[t] = settings[t]
    BY <2>1, <2>2, <2>3 DEF TypeOK
  <2>5. Wrote(p, {r.e}) /\ groups' = groups /\ members' = members /\ values' = values
    BY <1>4 DEF UpdateSetting
  <2> QED
    BY <1>3, <2>1, <2>4, <2>5 DEF values
<1>5. CASE DeleteSetting(p)
  <2>1. r.s \in Setting /\ r.at \in OnSetting
    BY <1>0, <1>5, PendingShapes DEF DeleteSetting, OnSetting
  <2>2. /\ settings'[r.s] = None
        /\ \A t \in Setting \ {r.s} :
               /\ settings'[t] = settings[t] /\ server'[t] = server[t]
               /\ \A u \in User : personal'[u][t] = personal[u][t]
               /\ \A g \in Group : overrides'[g][t] = overrides[g][t]
    BY <1>5, <2>1 DEF DeleteSetting, TypeOK
  <2>3. Wrote(p, {r.e}) /\ groups' = groups /\ members' = members
    BY <1>5 DEF DeleteSetting
  <2> QED
    BY <1>3, <2>1, <2>2, <2>3
<1>6. CASE PutServer(p) \/ DeleteServer(p)
  <2>1. r.s \in Setting /\ r.at \in OnSetting
    BY <1>0, <1>6, PendingShapes DEF PutServer, DeleteServer, OnSetting
  <2>2. /\ Wrote(p, {r.e}) /\ groups' = groups /\ members' = members /\ settings' = settings
        /\ personal' = personal /\ overrides' = overrides
        /\ \A t \in Setting \ {r.s} : server'[t] = server[t]
    BY <1>6 DEF PutServer, DeleteServer, TypeOK
  <2> QED
    BY <1>3, <2>1, <2>2
<1>7. CASE PutPersonal(p) \/ DeletePersonal(p)
  <2>1. r.s \in Setting /\ r.u \in User /\ r.at \in OnSetting
    BY <1>0, <1>7, PendingShapes DEF PutPersonal, DeletePersonal, OnSetting
  <2>2. /\ Wrote(p, {r.e}) /\ groups' = groups /\ members' = members /\ settings' = settings
        /\ server' = server /\ overrides' = overrides
    BY <1>7 DEF PutPersonal, DeletePersonal
  <2>3. \A t \in Setting \ {r.s}, u \in User : personal'[u][t] = personal[u][t]
    BY <1>7, <2>1 DEF PutPersonal, DeletePersonal, TypeOK
  <2> QED
    BY <1>3, <2>1, <2>2, <2>3
<1>8. CASE PutIntermediate(p) \/ DeleteIntermediate(p)
  <2>1. r.s \in Setting /\ r.g \in Group /\ r.at \in OnSetting
    BY <1>0, <1>8, PendingShapes DEF PutIntermediate, DeleteIntermediate, OnSetting
  <2>2. /\ Wrote(p, {r.e}) /\ groups' = groups /\ members' = members /\ settings' = settings
        /\ server' = server /\ personal' = personal
    BY <1>8 DEF PutIntermediate, DeleteIntermediate
  <2>3. \A t \in Setting \ {r.s}, g \in Group : overrides'[g][t] = overrides[g][t]
    BY <1>8, <2>1 DEF PutIntermediate, DeleteIntermediate, TypeOK
  <2> QED
    BY <1>3, <2>1, <2>2, <2>3
<1>9. ASSUME NEW f \in Group, NEW row \in NewGroups, NEW users \in SUBSET User,
             CreateGroup(p, f, row, users)
      PROVE  SameIn(e)
  <2>1. e \notin Affected(row.env)
    BY <1>1, <1>9 DEF CreateGroup
  <2>2. groups[f] = None
    BY <1>9 DEF CreateGroup, RowsAreBorn
  <2>3. /\ groups'[f].env = row.env /\ \A g \in Group \ {f} : groups'[g] = groups[g]
        /\ settings' = settings /\ values' = values /\ members' = members \union ({f} \X users)
    BY <1>9 DEF CreateGroup, TypeOK
  <2>4. ~Applies(groups[f], e) /\ ~Applies(groups'[f], e)
    BY <2>1, <2>2, <2>3 DEF Applies, Affected
  <2> QED
    BY <2>3, <2>4, GroupElsewhere DEF values
<1>10. ASSUME r.at \in OnGroup, r.g \in Group, Wrote(p, Affected(r.e)),
              settings' = settings, server' = server, personal' = personal,
              \/ groups' = groups
              \/ groups'[r.g] = None
              \/ groups'[r.g].env = groups[r.g].env /\ groups[r.g] # None,
              \A g \in Group \ {r.g} :
                  /\ groups'[g] = groups[g] /\ overrides'[g] = overrides[g]
                  /\ \A u \in User : <<g, u>> \in members' <=> <<g, u>> \in members
       PROVE  SameIn(e)
  <2>1. ~Applies(groups[r.g], e)
    BY <1>1, <1>10, WriterKnows
  <2>2. ~Applies(groups'[r.g], e)
    BY <1>10, <2>1 DEF Applies
  <2> QED
    BY <1>10, <2>1, <2>2, GroupElsewhere
<1>11. CASE UpdateGroup(p)
  <2>1. r.g \in Group /\ r.at \in OnGroup /\ groups[r.g] # None
    BY <1>0, <1>11, PendingShapes DEF UpdateGroup, OnGroup
  <2>2. /\ groups'[r.g].env = groups[r.g].env
        /\ \A g \in Group \ {r.g} : groups'[g] = groups[g]
    BY <1>11, <2>1 DEF UpdateGroup, TypeOK
  <2>3. /\ Wrote(p, Affected(r.e)) /\ settings' = settings /\ members' = members
        /\ values' = values
    BY <1>11 DEF UpdateGroup
  <2> QED
    BY <1>10, <2>1, <2>2, <2>3 DEF values
<1>12. CASE DeleteGroup(p)
  <2>1. r.g \in Group /\ r.at \in OnGroup
    BY <1>0, <1>12, PendingShapes DEF DeleteGroup, OnGroup
  <2>2. /\ groups'[r.g] = None
        /\ \A g \in Group \ {r.g} : groups'[g] = groups[g] /\ overrides'[g] = overrides[g]
    BY <1>12, <2>1 DEF DeleteGroup, TypeOK
  <2>3. \A g \in Group \ {r.g}, u \in User : <<g, u>> \in members' <=> <<g, u>> \in members
    BY <1>12 DEF DeleteGroup
  <2>4. /\ Wrote(p, Affected(r.e)) /\ settings' = settings /\ server' = server
        /\ personal' = personal
    BY <1>12 DEF DeleteGroup
  <2> QED
    BY <1>10, <2>1, <2>2, <2>3, <2>4
<1>13. CASE AddGroupMembers(p) \/ RemoveGroupMembers(p)
  <2>1. r.g \in Group /\ r.at \in OnGroup
    BY <1>0, <1>13, PendingShapes DEF AddGroupMembers, RemoveGroupMembers, OnGroup
  <2>2. \A g \in Group \ {r.g}, u \in User : <<g, u>> \in members' <=> <<g, u>> \in members
    BY <1>13 DEF AddGroupMembers, RemoveGroupMembers
  <2>3. /\ Wrote(p, Affected(r.e)) /\ settings' = settings /\ groups' = groups
        /\ values' = values
    BY <1>13 DEF AddGroupMembers, RemoveGroupMembers
  <2> QED
    BY <1>10, <2>1, <2>2, <2>3 DEF values
<1> QED
  BY <1>2, <1>4, <1>5, <1>6, <1>7, <1>8, <1>9, <1>11, <1>12, <1>13 DEF WriteBy

\* So answers only change under an announcement, role changes aside.
LEMMA ChangeIsAnnounced ==
    ASSUME TypeOK, RowsAreBorn, CreatedApart, LoadedEnvironments, [Next]_vars,
           NEW e \in Env, AnswersOf(e)' # AnswersOf(e), rank' = rank
    PROVE  Announced(e)'
<1>1. TypeOK'
  BY NextTypeOK
<1>2. SameIn(e) => AnswersOf(e)' = AnswersOf(e)
  <2>1. ASSUME SameIn(e), NEW q \in Question PROVE Answer(DB, q, e)' = Answer(DB, q, e)
    BY <1>1, <2>1, SameAnswers
  <2> QED
    BY <2>1 DEF AnswersOf
<1>3. CASE Quiet \/ RoleWrites
  <2>1. SameIn(e)
    BY <1>3 DEF SameIn, Quiet, tables, RoleWrites, UpsertRole, DeleteRole, values
  <2> QED
    BY <1>2, <2>1
<1>4. ASSUME NEW p \in Request, WriteBy(p) PROVE Announced(e)'
  BY <1>2, <1>4, WritesAnnounce
<1> QED
  BY <1>3, <1>4, StepKinds

\* cache.go 28-29, README 447: no write changes what some resolution returns
\* without its request going on to invalidate that environment, even when the
\* setting or group it loaded was changed or deleted since.
THEOREM EveryWriteIsAnnounced == Spec => ChangesAreAnnounced
<1>1. IInv /\ [Next]_vars =>
        [\A e \in Env : AnswersOf(e)' # AnswersOf(e) /\ rank' = rank => Announced(e)']_vars
  BY ChangeIsAnnounced DEF IInv
<1> QED
  BY <1>1, InductiveInvariant, PTL DEF Spec, ChangesAreAnnounced
=============================================================================
