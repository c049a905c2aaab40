----------------------------- MODULE SettingsQuery -----------------------------
(***************************************************************************)
(* One resolution in the React Query cache of a settings page, and the     *)
(* rows that write single settings through it (hooks use-settings.ts and   *)
(* use-setting.ts over transport.ts).                                      *)
(*                                                                         *)
(* The page is one JavaScript thread: an action is the code between two    *)
(* awaits.  A fetch is asked, read by the server and delivered; a write is *)
(* sent, taken or refused by the server, and answered.  Between any two of *)
(* these the user, another client and the browser may act.                 *)
(*                                                                         *)
(* React Query itself is external and modelled from how the hooks use it:  *)
(* one fetch per query at a time; cancelQueries drops the fetch and keeps  *)
(* the data; invalidateQueries drops it and asks again; setQueryData       *)
(* counts as a success; a fetch that fails keeps the data.                 *)
(***************************************************************************)
EXTENDS Naturals, FiniteSets

CONSTANTS
    Setting,        \* the settings of the resolution
    Row,            \* the settings that have a row of their own, written on change
    Value,          \* what a control can produce
    Valid,          \* the values the setting's own rules accept
    Beneath,        \* what a setting falls back to when the layer's value is cleared
    Policy,         \* the values an operator's enforced override may take
    Writer,         \* writes of rows that may be out at once (bound)
    None,           \* no value, resolution or write; a write of None clears
    MaxTurns        \* bound on what the user, the browser and other clients do

ASSUME QueryAssumption ==
    /\ Setting # {} /\ Row \subseteq Setting
    /\ Valid \subseteq Value /\ Beneath \in Valid /\ Policy \subseteq Valid
    /\ None \notin Value
    /\ MaxTurns \in Nat

Shown == [value : Value, enforced : BOOLEAN]
Resolution == [Setting -> Shown]
NoResolution == [s \in {} |-> None]
FetchRecord == [phase : {"idle", "asked"}, missed : {FALSE}, answer : {NoResolution}]
               \union [phase : {"read"}, missed : BOOLEAN, answer : Resolution]
WriteRecord == [phase : {"idle"}]
               \union [phase : {"sent", "taken", "refused"}, name : Row,
                       value : Valid \union {None}, previous : Resolution]

VARIABLES
    stored,         \* the server: the value of the layer the page writes
    policy,         \* the server: an enforced override, or None
    data,           \* the query's data, NoResolution before the first
    failed,         \* the query's last fetch ended in an error
    fetch,          \* the fetch in flight
    write,          \* the mutations of the rows
    rejected,       \* rows whose last offered value local validation rejected
    behind,         \* auxiliary: another client changed the server after the data was read
    turns           \* bound: what MaxTurns counts

serverVars == <<stored, policy>>
queryVars == <<data, failed, fetch>>
vars == <<stored, policy, data, failed, fetch, write, rejected, behind, turns>>

Idle == [phase |-> "idle", missed |-> FALSE, answer |-> NoResolution]
Asked == [Idle EXCEPT !.phase = "asked"]

\* What the server resolves: an enforced override holds the value in place.
Resolve ==
    [s \in Setting |-> IF policy[s] # None THEN [value |-> policy[s], enforced |-> TRUE]
                       ELSE [value |-> stored[s], enforced |-> FALSE]]

Loaded == data # NoResolution

Init ==
    /\ stored \in [Setting -> {Beneath}]
    /\ policy = [s \in Setting |-> None]
    /\ data = NoResolution
    /\ failed = FALSE
    /\ fetch = Asked
    /\ write = [w \in Writer |-> [phase |-> "idle"]]
    /\ rejected = {}
    /\ behind = FALSE
    /\ turns = 0

Turn == turns < MaxTurns /\ turns' = turns + 1

-----------------------------------------------------------------------------
\* A window focus, a mount or a reconnect: asks unless a fetch is in flight.
Refetch ==
    /\ Turn
    /\ fetch.phase = "idle"
    /\ fetch' = Asked
    /\ UNCHANGED <<serverVars, data, failed, write, rejected, behind>>

\* refresh and the hooks' onSettled: whatever is in flight is dropped and asked
\* again, except the first load, which is joined.
Invalidated == IF Loaded THEN Asked ELSE fetch

Refresh ==
    /\ Turn
    /\ fetch' = IF fetch.phase = "idle" THEN Asked ELSE Invalidated
    /\ UNCHANGED <<serverVars, data, failed, write, rejected, behind>>

ServerReads ==
    /\ fetch.phase = "asked"
    /\ fetch' = [phase |-> "read", missed |-> FALSE, answer |-> Resolve]
    /\ UNCHANGED <<serverVars, data, failed, write, rejected, behind, turns>>

FetchSucceeds ==
    /\ fetch.phase = "read"
    /\ data' = fetch.answer
    /\ behind' = fetch.missed
    /\ failed' = FALSE
    /\ fetch' = Idle
    /\ UNCHANGED <<serverVars, write, rejected, turns>>

\* The fetch and its retries failed: the data of the last one is kept.
FetchFails ==
    /\ Turn
    /\ fetch.phase # "idle"
    /\ failed' = TRUE
    /\ fetch' = Idle
    /\ UNCHANGED <<serverVars, data, write, rejected, behind>>

\* Another client stores a value, or an operator enforces one or lifts it.
OutsideChange ==
    /\ Turn
    /\ \/ \E s \in Setting, v \in Valid :
             stored' = [stored EXCEPT ![s] = v] /\ UNCHANGED policy
       \/ \E s \in Setting, p \in Policy \union {None} :
             policy' = [policy EXCEPT ![s] = p] /\ UNCHANGED stored
    /\ serverVars' # serverVars
    /\ behind' = TRUE
    /\ fetch' = IF fetch.phase = "read" THEN [fetch EXCEPT !.missed = TRUE] ELSE fetch
    /\ UNCHANGED <<data, failed, write, rejected>>

-----------------------------------------------------------------------------
\* The row is bound to a setting of the resolution and is not held by an override.
CanWrite(s) == Loaded /\ s \in Row /\ ~data[s].enforced

\* set() of a value the rules reject: the row says so and nothing is written.
Reject(s) ==
    /\ Turn
    /\ CanWrite(s)
    /\ Value \ Valid # {}
    /\ rejected' = rejected \union {s}
    /\ UNCHANGED <<serverVars, queryVars, write, behind>>

\* set() or clear(): the fetch in flight is cancelled, the resolution is kept
\* for a rollback and the new value is shown before the request goes out.  A
\* cleared value is not predicted.
BeginWrite(w, s, v) ==
    /\ Turn
    /\ write[w].phase = "idle"
    /\ CanWrite(s)
    /\ v \in Valid \union {None}
    /\ rejected' = rejected \ {s}
    /\ fetch' = Idle
    /\ write' = [write EXCEPT ![w] = [phase |-> "sent", name |-> s, value |-> v, previous |-> data]]
    /\ IF v = None THEN UNCHANGED <<data, failed>>
       ELSE data' = [data EXCEPT ![s].value = v] /\ failed' = FALSE
    /\ UNCHANGED <<serverVars, behind>>

\* The request reaches the server, which stores the value or clears it, or
\* refuses the write: a scope, a definition deleted or changed meanwhile.
ServerTakes(w) ==
    /\ write[w].phase = "sent"
    /\ stored' = [stored EXCEPT ![write[w].name] = IF write[w].value = None THEN Beneath
                                                   ELSE write[w].value]
    /\ write' = [write EXCEPT ![w].phase = "taken"]
    /\ UNCHANGED <<policy, queryVars, rejected, behind, turns>>

ServerRefuses(w) ==
    /\ Turn
    /\ write[w].phase = "sent"
    /\ write' = [write EXCEPT ![w].phase = "refused"]
    /\ UNCHANGED <<serverVars, queryVars, rejected, behind>>

WriteSucceeds(w) ==
    /\ write[w].phase = "taken"
    /\ write' = [write EXCEPT ![w] = [phase |-> "idle"]]
    /\ fetch' = Invalidated
    /\ UNCHANGED <<serverVars, data, failed, rejected, behind, turns>>

\* Mutant of WriteFails: onError restores, but the refetch is left to the next focus.
WriteFailsUnsettled(w) ==
    /\ \/ write[w].phase = "refused" /\ UNCHANGED turns
       \/ write[w].phase = "taken" /\ Turn
    /\ data' = write[w].previous
    /\ failed' = FALSE
    /\ fetch' = fetch
    /\ write' = [write EXCEPT ![w] = [phase |-> "idle"]]
    /\ UNCHANGED <<serverVars, rejected, behind>>

\* The write was refused, or it was taken and its answer was lost: onError puts
\* back the resolution of when it began, onSettled asks for a new one.
WriteFails(w) ==
    /\ \/ write[w].phase = "refused" /\ UNCHANGED turns
       \/ write[w].phase = "taken" /\ Turn
    /\ data' = write[w].previous
    /\ failed' = FALSE
    /\ fetch' = Invalidated
    /\ write' = [write EXCEPT ![w] = [phase |-> "idle"]]
    /\ UNCHANGED <<serverVars, rejected, behind>>

RowStep ==
    \/ \E s \in Row : Reject(s)
    \/ \E w \in Writer, s \in Row, v \in Valid \union {None} : BeginWrite(w, s, v)
    \/ \E w \in Writer : ServerTakes(w) \/ ServerRefuses(w) \/ WriteSucceeds(w) \/ WriteFails(w)

QueryStep == Refetch \/ Refresh \/ ServerReads \/ FetchSucceeds \/ FetchFails \/ OutsideChange

Next == QueryStep \/ RowStep

Spec == Init /\ [][Next]_vars
=============================================================================
