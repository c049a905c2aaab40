------------------------------- MODULE RemoteCall -------------------------------
(***************************************************************************)
(* What a caller of the SDK may conclude from how a call ended, whatever   *)
(* the network did (the promise behind http.ts 116-118 and the error codes *)
(* of errors.ts): a call ends once; one that is done has taken effect; one *)
(* that was refused has not and never will; any other ending leaves it     *)
(* open, and a late effect may still follow.  An effect that adds something *)
(* happens at most once; the others may be repeated.                       *)
(***************************************************************************)
EXTENDS Naturals

VARIABLES
    kind,           \* "read", "add" (once) or "put" (safe to repeat)
    outcome,        \* "pending", then "done", "refused" or "unknown"
    effects         \* how often the server has carried the call out

vars == <<kind, outcome, effects>>

Init ==
    /\ kind \in {"read", "add", "put"}
    /\ outcome = "pending"
    /\ effects = 0

TakeEffect ==
    /\ kind # "read"
    /\ outcome # "refused"
    /\ kind = "add" => effects = 0
    /\ effects' = effects + 1
    /\ UNCHANGED <<kind, outcome>>

End(how) ==
    /\ outcome = "pending"
    /\ how = "done" => kind = "read" \/ effects > 0
    /\ how = "refused" => effects = 0
    /\ outcome' = how
    /\ UNCHANGED <<kind, effects>>

Next == TakeEffect \/ \E how \in {"done", "refused", "unknown"} : End(how)

Spec == Init /\ [][Next]_vars
=============================================================================
