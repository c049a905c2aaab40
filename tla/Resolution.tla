------------------------------ MODULE Resolution ------------------------------
(***************************************************************************)
(* How stored layers become effective settings: the statement              *)
(* ResolveForUser (queries/resolve.sql), ResolveServer, and the last step  *)
(* taken in Go (internal/resolve/resolve.go).  One SQL statement sees one  *)
(* snapshot, here the record d of tables:                                  *)
(*   d.settings[s]     the definition of s, or None                        *)
(*   d.rank[r]         the rank of role r                                  *)
(*   d.groups[g]       the group row, or None                              *)
(*   d.members         pairs <<g, u>>                                      *)
(*   d.server[s], d.personal[u][s], d.overrides[g][s]   layers, or None    *)
(***************************************************************************)
EXTENDS Naturals

CONSTANTS
    None,       \* SQL NULL: no row, or no value
    AnyEnv      \* the environment of a group that spans all of them

\* The inputs of a resolution: the user, the filters and the ad-hoc groups.
\* An empty set of platforms does not filter.
Visible(d, env, platforms, maxRank) ==
    {s \in DOMAIN d.settings :
        /\ d.settings[s] # None
        /\ d.settings[s].env = env
        /\ platforms = {} \/ d.settings[s].platform \in platforms
        /\ d.rank[d.settings[s].role] <= maxRank}

\* Mutant of MemberGroups: a named group must be restricted to the environment.
MemberGroupsNamedHere(d, u, env, adHoc) ==
    {g \in DOMAIN d.groups :
        /\ d.groups[g] # None
        /\ \/ d.groups[g].env \in {AnyEnv, env} /\ <<g, u>> \in d.members
           \/ d.groups[g].env = env /\ g \in adHoc}

\* Groups the user belongs to, plus those named by the caller, that apply here.
MemberGroups(d, u, env, adHoc) ==
    {g \in DOMAIN d.groups :
        /\ d.groups[g] # None
        /\ d.groups[g].env \in {AnyEnv, env}
        /\ <<g, u>> \in d.members \/ g \in adHoc}

\* Mutant of Outranks: the tie goes to the younger group.
OutranksByYouth(groups, g, h) ==
    \/ groups[g].priority > groups[h].priority
    \/ /\ groups[g].priority = groups[h].priority
       /\ groups[g].created > groups[h].created

\* ORDER BY priority DESC, created_at: the order DISTINCT ON picks from.
Outranks(groups, g, h) ==
    \/ groups[g].priority > groups[h].priority
    \/ /\ groups[g].priority = groups[h].priority
       /\ groups[g].created < groups[h].created

\* The group whose override of s wins in one direction, or None.
Winner(groups, overrides, s, G, enforced) ==
    LET C == {g \in G : /\ overrides[g][s] # None
                        /\ overrides[g][s].enforced = enforced}
    IN IF C = {} THEN None
       ELSE CHOOSE g \in C : \A h \in C \ {g} : Outranks(groups, g, h)

Coalesce(a, b) == IF a # None THEN a ELSE b

OverrideValue(d, g, s) == IF g = None THEN None ELSE d.overrides[g][s].value

\* Mutants of EffectiveOverride: an advisory override is reported although the
\* user chose; the replaced choice is not reported.
OverrideIgnoresChoice(d, s, enforcedBy, advisedBy, own) ==
    IF enforcedBy # None
    THEN [group |-> enforcedBy, enforced |-> TRUE,
          visible |-> d.overrides[enforcedBy][s].visible, replaced |-> own]
    ELSE IF advisedBy # None
    THEN [group |-> advisedBy, enforced |-> FALSE,
          visible |-> d.overrides[advisedBy][s].visible, replaced |-> None]
    ELSE None

OverrideForgetsChoice(d, s, enforcedBy, advisedBy, own) ==
    IF enforcedBy # None
    THEN [group |-> enforcedBy, enforced |-> TRUE,
          visible |-> d.overrides[enforcedBy][s].visible, replaced |-> None]
    ELSE IF advisedBy # None /\ own = None
    THEN [group |-> advisedBy, enforced |-> FALSE,
          visible |-> d.overrides[advisedBy][s].visible, replaced |-> None]
    ELSE None

\* The overrides block of the response: which candidate shaped the value.  An
\* advisory override only applies when the user chose nothing.
EffectiveOverride(d, s, enforcedBy, advisedBy, own) ==
    IF enforcedBy # None
    THEN [group |-> enforcedBy, enforced |-> TRUE,
          visible |-> d.overrides[enforcedBy][s].visible, replaced |-> own]
    ELSE IF advisedBy # None /\ own = None
    THEN [group |-> advisedBy, enforced |-> FALSE,
          visible |-> d.overrides[advisedBy][s].visible, replaced |-> None]
    ELSE None

\* One row of ResolveForUser: the value, the layer it came from, the override.
ResolveOne(d, u, s, G) ==
    LET enforcedBy == Winner(d.groups, d.overrides, s, G, TRUE)
        advisedBy  == Winner(d.groups, d.overrides, s, G, FALSE)
        enforced == OverrideValue(d, enforcedBy, s)
        advisory == OverrideValue(d, advisedBy, s)
        own      == d.personal[u][s]
    IN [value |-> Coalesce(enforced, Coalesce(own, Coalesce(advisory,
                    Coalesce(d.server[s], d.settings[s].default)))),
        source |-> IF enforced # None THEN "INTERMEDIATE"
                   ELSE IF own # None THEN "PERSONAL"
                   ELSE IF advisory # None THEN "INTERMEDIATE"
                   ELSE IF d.server[s] # None THEN "SERVER"
                   ELSE IF d.settings[s].default # None THEN "DEFAULT"
                   ELSE "UNSET",
        override |-> EffectiveOverride(d, s, enforcedBy, advisedBy, own)]

ResolveForUser(d, u, env, platforms, maxRank, adHoc) ==
    [s \in Visible(d, env, platforms, maxRank) |->
        ResolveOne(d, u, s, MemberGroups(d, u, env, adHoc))]

\* The server's own settings: no user and no groups.
ResolveServer(d, env, platforms, maxRank) ==
    [s \in {t \in Visible(d, env, platforms, maxRank) : d.settings[t].scope = "SERVER"} |->
        [value  |-> Coalesce(d.server[s], d.settings[s].default),
         source |-> IF d.server[s] # None THEN "SERVER"
                    ELSE IF d.settings[s].default # None THEN "DEFAULT" ELSE "UNSET"]]
=============================================================================
