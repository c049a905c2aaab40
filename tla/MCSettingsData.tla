--------------------------- MODULE MCSettingsData ---------------------------
(* SettingsData on small instances, see the MCSettingsData_*.cfg.          *)
EXTENDS SettingsData, TLC

CONSTANTS v1, v2, c1, c2, web, e1, e2, user, staff

\* c1 accepts both values, c2 only the first: rules may be tightened.
MCAccepts == [c \in Config |-> IF c = c1 THEN {v1, v2} ELSE {v1}]
MCFirstRank == [r \in Role |-> IF r = user THEN 1 ELSE IF r = staff THEN 2 ELSE 0]

AllOps == {"createSetting", "updateSetting", "countValues", "deleteSetting",
           "putServer", "putPersonal", "putIntermediate", "deleteServer",
           "deletePersonal", "deleteIntermediate", "createGroup", "updateGroup",
           "deleteGroup", "addMembers", "removeMembers", "upsertRole", "deleteRole"}

Definition(scope, role, default) ==
    [scope |-> scope, env |-> e1, platform |-> web, role |-> role,
     config |-> c1, default |-> default]

Change(f, x) == [[g \in {"config", "default", "role"} |-> Omitted] EXCEPT ![f] = x]

\* Two crossing requests on one setting, one group and their values: rules
\* tightened while a default or a value is stored, a group or a role deleted while
\* it is used, a group of another environment.
CrossingSettings == {Definition("PERSONAL", user, v2), Definition("INTERMEDIATE", staff, None)}
CrossingPatches == {Change("config", c2), Change("default", v2)}
CrossingGroups == {[env |-> AnyEnv, priority |-> 1], [env |-> e2, priority |-> 1]}
CrossingOverrides == {[value |-> v1, visible |-> TRUE, enforced |-> TRUE]}

\* One request, roles that can be re-ranked.
RoleOps == {"createSetting", "deleteSetting", "upsertRole", "deleteRole"}

\* Resolution: two groups with every override, one request at a time.
LayerOps == {"createSetting", "putServer", "putPersonal", "putIntermediate",
             "deleteServer", "deletePersonal", "deleteIntermediate", "createGroup"}
LayerSettings == {Definition("PERSONAL", user, d) : d \in {None, v1, v2}}
LayerGroups == {[env |-> e1, priority |-> 1], [env |-> AnyEnv, priority |-> 2]}
LayerOverrides == {[value |-> v, visible |-> enforced, enforced |-> enforced] :
                        v \in Value, enforced \in BOOLEAN}

Symmetry == Permutations(Request)
ValueSymmetry == Permutations(Value)
=============================================================================
