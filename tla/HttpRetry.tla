-------------------------------- MODULE HttpRetry --------------------------------
(***************************************************************************)
(* One call through the SDK's transport (app-settings-js/src/http.ts):     *)
(* request(), its attempts, its timeout and its backoff, against a server  *)
(* and a network that may lose a request, or its answer, at any moment, and *)
(* may deliver a request after the client has given up on it.              *)
(*                                                                         *)
(* Headers, bodies and delays are left out; of a response this keeps what  *)
(* decides the control flow: it is good ("ok"), it fails in a way worth    *)
(* trying again ("failed": 429, 5xx or the code unavailable), or it refuses *)
(* ("refused": any other status).                                          *)
(***************************************************************************)
EXTENDS Naturals

CONSTANTS
    Operation,      \* the calls of the client: [name, method, effect, needs]
    Retries,        \* config.retries
    CanTimeout,     \* timeoutMs > 0, and signals can be combined when the caller has one
    HasSignal,      \* the caller passed a signal
    None

Method == {"GET", "POST", "PUT", "PATCH", "DELETE"}
Effect == {"read", "create", "replace", "change", "remove"}
Need == {"nothing", "environment", "value"}

\* http.ts 116-117: POST is the one method whose repetition would add something.
ASSUME OperationAssumption ==
    /\ Operation \subseteq [name : STRING, method : Method, effect : Effect, needs : Need]
    /\ \A o \in Operation : o.effect = "create" => o.method = "POST"
ASSUME RetryAssumption == Retries \in Nat /\ {CanTimeout, HasSignal} \subseteq BOOLEAN

Answer == {"ok", "failed", "refused"}
Result == Answer \union {"preflight", "undecodable", "network_error", "timeout", "aborted"}

ASSUME NoneAssumption == None \notin Result

VARIABLES
    op,             \* the call
    pc,             \* "call", "fetching", "reading", "backoff" or "done"
    attempt,        \* the loop's counter
    answer,         \* the server's answer to this attempt, or None
    aborted,        \* whether the caller's signal has fired, and how
    result,         \* how the call ended, or None
    \* the server and the network
    present,        \* what the call is about exists
    applied,        \* how often the call was carried out
    strays          \* requests the client has given up on that may still arrive

server == <<present, applied>>
vars == <<op, pc, attempt, answer, aborted, result, present, applied, strays>>

\* Mutant of Attempts: POST is tried again like the others.
AttemptsOfAll == Retries + 1

Attempts == IF op.method = "POST" THEN 1 ELSE Retries + 1
LastAttempt == attempt = Attempts - 1

Init ==
    /\ op \in Operation
    /\ pc = "call"
    /\ attempt = 0
    /\ answer = None
    /\ aborted = "no"
    /\ result = None
    /\ present \in BOOLEAN
    /\ applied = 0
    /\ strays = 0

End(how) == pc' = "done" /\ result' = how

-----------------------------------------------------------------------------
(* The server. *)

\* It can do what is asked of it: nothing is created twice, and only what is
\* there is read, changed or removed.
Possible ==
    CASE op.effect = "create" -> ~present
      [] op.effect = "replace" -> TRUE
      [] OTHER -> present

CarryOut ==
    /\ Possible
    /\ present' = (op.effect # "remove")
    /\ applied' = IF op.effect = "read" THEN applied ELSE applied + 1

\* A request that arrives is carried out, or refused for one of many reasons;
\* the server, or something in front of it, may fail before or after.
Serve(says) ==
    \/ says \in {"ok", "failed"} /\ CarryOut
    \/ says \in {"refused", "failed"} /\ UNCHANGED server

ServerAnswers ==
    /\ pc = "fetching"
    /\ answer = None
    /\ \E says \in Answer : Serve(says) /\ answer' = says
    /\ UNCHANGED <<op, pc, attempt, aborted, result, strays>>

\* A request given up on arrives, and its answer goes nowhere; or it is lost.
StrayArrives ==
    /\ strays > 0
    /\ strays' = strays - 1
    /\ \E says \in Answer : Serve(says)
    /\ UNCHANGED <<op, pc, attempt, answer, aborted, result>>

\* Another client makes or removes what this call is about.
OtherClient ==
    /\ present' = ~present
    /\ UNCHANGED <<op, pc, attempt, answer, aborted, result, applied, strays>>

-----------------------------------------------------------------------------
(* The client. *)

\* Its method throws before any request when it lacks an environment or a value.
Preflight ==
    /\ pc = "call"
    /\ op.needs # "nothing"
    /\ End("preflight")
    /\ UNCHANGED <<op, attempt, answer, aborted, server, strays>>

Call ==
    /\ pc = "call"
    /\ pc' = "fetching"
    /\ UNCHANGED <<op, attempt, answer, aborted, result, server, strays>>

\* The client stops waiting for this attempt.  If nothing has answered it yet,
\* the request may be under way.
GiveUp ==
    /\ pc = "fetching"
    /\ strays' \in IF answer = None THEN {strays, strays + 1} ELSE {strays}

\* fetch rejects: on to the next attempt, and past the last one the error is thrown.
Rejects ==
    IF LastAttempt THEN End("network_error") ELSE pc' = "backoff" /\ UNCHANGED result

NetworkFails ==
    /\ GiveUp
    /\ Rejects
    /\ UNCHANGED <<op, attempt, answer, aborted, server>>

\* A timeout is thrown at once.
TimesOut ==
    /\ CanTimeout
    /\ GiveUp
    /\ End("timeout")
    /\ UNCHANGED <<op, attempt, answer, aborted, server>>

\* The caller aborts: fetch, or the delay between attempts, rejects.  A fetch rejects
\* with the signal's reason, and fromThrown knows an abort by the reason's name: any
\* other reason passes for a failure of the network.  While a body is read nothing
\* listens but the body (Read).
Abort ==
    /\ HasSignal /\ aborted = "no"
    /\ aborted' \in {"abort", "reason"}
    /\ \/ GiveUp /\ IF aborted' = "abort" THEN End("aborted") ELSE Rejects
       \/ pc = "backoff" /\ End("aborted") /\ UNCHANGED strays
       \/ pc = "reading" /\ UNCHANGED <<pc, result, strays>>
    /\ UNCHANGED <<op, attempt, answer, server>>

\* fetch resolves with the answer's status.
Respond ==
    /\ pc = "fetching"
    /\ answer # None
    /\ pc' = "reading"
    /\ UNCHANGED <<op, attempt, answer, aborted, result, server, strays>>

\* The body is read.  A good answer with a body that breaks off or is not JSON
\* is an error and is not tried again; that of a failure is read for its message
\* only.
Read ==
    /\ pc = "reading"
    /\ \/ answer = "ok" /\ (End("ok") \/ End("undecodable"))
       \/ answer = "refused" /\ End("refused")
       \/ answer = "failed" /\ LastAttempt /\ End("failed")
       \/ answer = "failed" /\ ~LastAttempt /\ pc' = "backoff" /\ UNCHANGED result
    /\ UNCHANGED <<op, attempt, answer, aborted, server, strays>>

\* Mutant of Resume: the attempt is not counted.
ResumeUncounted ==
    /\ pc = "backoff"
    /\ answer' = None
    /\ \/ aborted = "no" /\ pc' = "fetching" /\ UNCHANGED result
       \/ aborted = "abort" /\ End("aborted")
       \/ aborted = "reason" /\ (IF LastAttempt THEN End("network_error") ELSE UNCHANGED <<pc, result>>)
    /\ UNCHANGED <<op, attempt, aborted, server, strays>>

\* The delay is over.  If the signal fired before the delay began, the delay did
\* not hear it, and the next fetch rejects without sending anything.
Resume ==
    /\ pc = "backoff"
    /\ UNCHANGED <<op, aborted, server, strays>>
    /\ attempt' = attempt + 1
    /\ answer' = None
    /\ \/ aborted = "no" /\ pc' = "fetching" /\ UNCHANGED result
       \/ aborted = "abort" /\ End("aborted")
       \/ aborted = "reason" /\ (IF LastAttempt' THEN End("network_error") ELSE UNCHANGED <<pc, result>>)

Next ==
    \/ Preflight \/ Call \/ NetworkFails \/ TimesOut \/ Abort \/ Respond \/ Read \/ Resume
    \/ ServerAnswers \/ StrayArrives \/ OtherClient

Spec == Init /\ [][Next]_vars

\* The client's own steps: timers fire, and the timeout covers the body too.
FairSpec == Spec /\ WF_vars(Preflight \/ Call) /\ WF_vars(TimesOut) /\ WF_vars(Read) /\ WF_vars(Resume)

-----------------------------------------------------------------------------
\* How the call ended, as RemoteCall tells it.  A refusal can be believed when no
\* earlier attempt was made: a later one may speak of what an earlier one did.
Outcome ==
    CASE result = None -> "pending"
      [] result = "ok" -> "done"
      [] result = "preflight" \/ (result = "refused" /\ attempt = 0) -> "refused"
      [] OTHER -> "unknown"

Kind ==
    CASE op.effect = "read" -> "read"
      [] op.effect = "create" -> "add"
      [] OTHER -> "put"

Promise == INSTANCE RemoteCall WITH kind <- Kind, outcome <- Outcome, effects <- applied

\* http.ts 116-118, errors.ts: a call keeps the promise of RemoteCall.
CallImplements == Promise!Spec

\* http.ts 120-149: a call with a timeout ends, whatever the server and the
\* network do.
CallEnds == CanTimeout => <>(pc = "done")

TypeOK ==
    /\ op \in Operation
    /\ pc \in {"call", "fetching", "reading", "backoff", "done"}
    /\ attempt \in 0..Attempts - 1
    /\ answer \in Answer \union {None}
    /\ aborted \in {"no", "abort", "reason"}
    /\ result \in Result \union {None}
    /\ present \in BOOLEAN
    /\ applied \in Nat
    /\ strays \in Nat

\* Requests that are out, unanswered, or were carried out are never more than
\* were sent.
Sent == IF pc = "call" \/ result = "preflight" THEN 0 ELSE attempt + 1
Open == IF pc = "fetching" /\ answer = None THEN 1 ELSE 0
EffectsAreSent == applied + strays + Open <= Sent

\* An answer to the only request there has been speaks the truth about it.
FirstAnswerIsTrue ==
    answer = "refused" /\ attempt = 0 => applied = 0 /\ strays = 0

AnswerIsTrue ==
    /\ answer = "ok" => op.effect = "read" \/ applied > 0
    /\ answer # None => pc \in {"fetching", "reading", "backoff", "done"}
    /\ pc = "reading" => answer # None

ResultIsFinal ==
    /\ result # None <=> pc = "done"
    /\ result = "ok" => answer = "ok"
    /\ result = "refused" => answer = "refused"
    /\ result = "preflight" => attempt = 0 /\ applied = 0 /\ strays = 0
    /\ pc = "call" => attempt = 0
    /\ pc = "backoff" => attempt < Attempts - 1
    /\ op.effect = "read" => applied = 0

IInv ==
    /\ TypeOK
    /\ EffectsAreSent
    /\ FirstAnswerIsTrue
    /\ AnswerIsTrue
    /\ ResultIsFinal
=============================================================================
