-------------------------------- MODULE SdkClient --------------------------------
(***************************************************************************)
(* The calls of AppSettingsClient (app-settings-js/src/client.ts), one row *)
(* each: the method it is sent with, which decides whether it is repeated, *)
(* what it does on the server, which decides whether it may be, and what   *)
(* the client refuses to send it without.  Paths, queries and bodies are   *)
(* left out.  Adding members to a group that has them changes nothing, so  *)
(* addMembers is a change although it is sent as a POST.                   *)
(***************************************************************************)

LOCAL Row(name, method, effect, needs) ==
    [name |-> name, method |-> method, effect |-> effect, needs |-> needs]

LOCAL Get(name) == Row(name, "GET", "read", "nothing")
LOCAL Upsert(name) == Row(name, "PUT", "replace", "nothing")
LOCAL SetValue(name) == Row(name, "PUT", "replace", "value")
LOCAL Delete(name) == Row(name, "DELETE", "remove", "nothing")

\* Both want an environment, from the call or from the client.
ResolveCalls ==
    {Row("resolveUser", "GET", "read", "environment"), Row("resolveServer", "GET", "read", "environment")}

IdentityCalls == {Get("whoami"), Get("health"), Get("ready")}

SettingCalls ==
    {Get("settings.list"), Get("settings.get"),
     Row("settings.create", "POST", "create", "environment"),
     Row("settings.update", "PATCH", "change", "nothing"),
     Delete("settings.delete")}

ServerValueCalls ==
    {Get("values.server.get"), SetValue("values.server.set"), Delete("values.server.clear")}

PersonalValueCalls ==
    {Get("values.personal.get"), SetValue("values.personal.set"), Delete("values.personal.clear")}

GroupValueCalls ==
    {Get("values.group.get"), SetValue("values.group.set"), Delete("values.group.clear")}

GroupCalls ==
    {Get("groups.list"), Get("groups.get"), Get("groups.members"),
     Row("groups.create", "POST", "create", "nothing"),
     Row("groups.update", "PATCH", "change", "nothing"),
     Row("groups.addMembers", "POST", "change", "nothing"),
     Row("groups.removeMembers", "DELETE", "change", "nothing"),
     Delete("groups.delete")}

TaxonomyCalls ==
    {Get("taxonomy.roles"), Get("taxonomy.platforms"), Get("taxonomy.environments"),
     Upsert("taxonomy.upsertRole"), Upsert("taxonomy.upsertPlatform"), Upsert("taxonomy.upsertEnvironment"),
     Delete("taxonomy.deleteRole"), Delete("taxonomy.deletePlatform"), Delete("taxonomy.deleteEnvironment")}

\* The name of a key is not unique: a key that was minted is always another one.
KeyCalls ==
    {Get("keys.list"), Row("keys.create", "POST", "create", "nothing"), Delete("keys.revoke")}

Calls ==
    ResolveCalls \union IdentityCalls \union SettingCalls \union ServerValueCalls
    \union PersonalValueCalls \union GroupValueCalls \union GroupCalls
    \union TaxonomyCalls \union KeyCalls
=============================================================================
