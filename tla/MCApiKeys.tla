------------------------------- MODULE MCApiKeys -------------------------------
(* ApiKeys with a fenced administrator, a fenced minter and plain keys.    *)
EXTENDS ApiKeys, TLC

CONSTANTS staff, admin, e1, e2, web, k0, k1, k2

MCFirstRank == [r \in Role |-> IF r = staff THEN 2 ELSE IF r = admin THEN 3 ELSE 0]

Asks(scopes, envs, role) ==
    [scopes |-> scopes, envs |-> envs, platforms |-> {}, role |-> role, expires |-> FALSE]
MCBodies == {Asks(Scope, {e1}, staff),
             Asks({"keys:write"}, {}, None),
             Asks({"keys:write"}, {e1, e2}, admin),
             [Asks({"taxonomy:write"}, {e2}, admin) EXCEPT !.expires = TRUE,
                                                           !.platforms = {web}]}

Symmetry == Permutations({k1, k2}) \union Permutations(Request)
=============================================================================
