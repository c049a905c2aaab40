----------------------------- MODULE HttpRetryProofs -----------------------------
(***************************************************************************)
(* HttpRetry keeps the promise of RemoteCall for every set of calls that   *)
(* only creates by POST, any number of retries, and whatever is lost or    *)
(* delivered late.  IInv counts: no more effects, late requests and open   *)
(* requests than were sent, so the first refusal can be believed.          *)
(***************************************************************************)
EXTENDS HttpRetry, TLAPS

LEMMA OpType ==
    ASSUME op \in Operation
    PROVE  /\ op.effect \in Effect
           /\ op.effect = "create" => op.method = "POST"
BY OperationAssumption

LEMMA AttemptsType == Attempts \in Nat /\ Attempts >= 1
BY RetryAssumption DEF Attempts

LEMMA InitIInv == Init => IInv
<1> SUFFICES ASSUME Init PROVE IInv
  OBVIOUS
<1>1. TypeOK
  <2>1. 0 \in 0..Attempts - 1
    BY AttemptsType
  <2> QED
    BY <2>1 DEF Init, TypeOK
<1>2. EffectsAreSent
  <2>1. applied = 0 /\ strays = 0 /\ Open = 0 /\ Sent = 0
    BY DEF Init, Sent, Open
  <2> QED
    BY <2>1 DEF EffectsAreSent
<1>3. FirstAnswerIsTrue /\ AnswerIsTrue /\ ResultIsFinal
  BY NoneAssumption
  DEF Result, Answer, Init, FirstAnswerIsTrue, AnswerIsTrue, ResultIsFinal
<1> QED
  BY <1>1, <1>2, <1>3 DEF IInv

\* What the server does to the count of effects.
LEMMA ServeEffects ==
    ASSUME TypeOK, NEW says \in Answer, Serve(says), op' = op
    PROVE  /\ present' \in BOOLEAN
           /\ applied' \in {applied, applied + 1}
           /\ op.effect = "read" => applied' = applied
           /\ says = "refused" => applied' = applied
           /\ says = "ok" => op.effect = "read" \/ applied' = applied + 1
BY DEF Answer, TypeOK, Serve, CarryOut, server

LEMMA GiveUpStrays ==
    ASSUME TypeOK, GiveUp
    PROVE  /\ pc = "fetching"
           /\ strays' \in Nat
           /\ strays' <= strays + Open
           /\ answer # None => strays' = strays
BY DEF TypeOK, GiveUp, Open

Rest == EffectsAreSent /\ FirstAnswerIsTrue /\ AnswerIsTrue /\ ResultIsFinal

LEMMA NextIInv == IInv /\ [Next]_vars => IInv'
<1> SUFFICES ASSUME IInv, [Next]_vars PROVE IInv'
  OBVIOUS
<1>0. /\ TypeOK /\ Rest
      /\ Attempts \in Nat /\ Attempts >= 1 /\ Attempts' = Attempts
      /\ op \in Operation /\ attempt \in Nat /\ applied \in Nat /\ strays \in Nat
      /\ op' = op
  <2>1. op' = op
    BY DEF Next, vars, Preflight, Call, NetworkFails, TimesOut, Abort, Respond, Read, Resume,
           ServerAnswers, StrayArrives, OtherClient
  <2> QED
    BY <2>1, AttemptsType DEF IInv, Rest, TypeOK, Attempts
<1>1. CASE Preflight
  <2>1. /\ pc = "call" /\ pc' = "done" /\ result' = "preflight"
        /\ UNCHANGED <<op, attempt, answer, aborted, present, applied, strays>>
    BY <1>1 DEF Preflight, End, server
  <2>2. applied = 0 /\ strays = 0 /\ attempt = 0
    <3>1. Sent = 0 /\ Open = 0
      BY <2>1 DEF Sent, Open
    <3> QED
      BY <1>0, <2>1, <3>1 DEF Rest, EffectsAreSent, ResultIsFinal
  <2>3. Sent' = 0 /\ Open' = 0
    BY <2>1 DEF Sent, Open
  <2>4. TypeOK' /\ EffectsAreSent'
    BY <1>0, <2>1, <2>2, <2>3 DEF TypeOK, EffectsAreSent, Result
  <2> QED
    BY <1>0, <2>1, <2>2, <2>4, NoneAssumption
    DEF Result, Answer, IInv, Rest, FirstAnswerIsTrue, AnswerIsTrue, ResultIsFinal
<1>11. CASE Call
  BY <1>0, <1>11, NoneAssumption
  DEF Call, End, server, Result, Answer, IInv, Rest, TypeOK, EffectsAreSent, Sent, Open,
      FirstAnswerIsTrue, AnswerIsTrue, ResultIsFinal
<1>2. CASE NetworkFails
  BY <1>0, <1>2, GiveUpStrays, NoneAssumption
  DEF NetworkFails, Rejects, LastAttempt, End, server, Result, Answer, IInv, Rest, TypeOK, EffectsAreSent, Sent, Open,
      FirstAnswerIsTrue, AnswerIsTrue, ResultIsFinal
<1>3. CASE TimesOut
  BY <1>0, <1>3, GiveUpStrays, NoneAssumption
  DEF TimesOut, End, server, Result, Answer, IInv, Rest, TypeOK, EffectsAreSent, Sent, Open,
      FirstAnswerIsTrue, AnswerIsTrue, ResultIsFinal
<1>4. CASE Abort
  <2>1. CASE GiveUp /\ (End("aborted") \/ Rejects)
    BY <1>0, <1>4, <2>1, GiveUpStrays, NoneAssumption
    DEF Abort, Rejects, LastAttempt, End, server, Result, Answer, IInv, Rest, TypeOK, EffectsAreSent, Sent, Open,
        FirstAnswerIsTrue, AnswerIsTrue, ResultIsFinal
  <2>2. CASE \/ pc = "backoff" /\ End("aborted") /\ UNCHANGED strays
             \/ pc = "reading" /\ UNCHANGED <<pc, result, strays>>
    BY <1>0, <1>4, <2>2, NoneAssumption
    DEF Abort, End, server, Result, Answer, IInv, Rest, TypeOK, EffectsAreSent, Sent, Open,
        FirstAnswerIsTrue, AnswerIsTrue, ResultIsFinal
  <2> QED
    BY <1>4, <2>1, <2>2 DEF Abort
<1>5. CASE Respond \/ Read
  BY <1>0, <1>5, NoneAssumption
  DEF Respond, Read, LastAttempt, End, server, Result, Answer, IInv, Rest, TypeOK, EffectsAreSent, Sent, Open,
      FirstAnswerIsTrue, AnswerIsTrue, ResultIsFinal
<1>6. CASE Resume
  BY <1>0, <1>6, NoneAssumption
  DEF Resume, LastAttempt, End, server, Result, Answer, IInv, Rest, TypeOK, EffectsAreSent, Sent, Open,
      FirstAnswerIsTrue, AnswerIsTrue, ResultIsFinal
<1>7. CASE ServerAnswers
  <2>1. PICK says \in Answer : Serve(says) /\ answer' = says
    BY <1>7 DEF ServerAnswers
  <2>2. UNCHANGED <<op, pc, attempt, aborted, result, strays>> /\ pc = "fetching" /\ answer = None
    BY <1>7 DEF ServerAnswers
  <2> QED
    BY <1>0, <2>1, <2>2, ServeEffects, NoneAssumption
    DEF Result, Answer, IInv, Rest, TypeOK, EffectsAreSent, Sent, Open, FirstAnswerIsTrue, AnswerIsTrue, ResultIsFinal
<1>8. CASE StrayArrives
  <2>1. PICK says \in Answer : Serve(says)
    BY <1>8 DEF StrayArrives
  <2>2. /\ UNCHANGED <<op, pc, attempt, answer, aborted, result>>
        /\ strays > 0 /\ strays' = strays - 1
    BY <1>8 DEF StrayArrives
  <2> QED
    BY <1>0, <2>1, <2>2, ServeEffects
    DEF Result, Answer, IInv, Rest, TypeOK, EffectsAreSent, Sent, Open, FirstAnswerIsTrue, AnswerIsTrue, ResultIsFinal
<1>9. CASE OtherClient
  BY <1>0, <1>9
  DEF OtherClient, IInv, Rest, TypeOK, EffectsAreSent, Sent, Open,
      FirstAnswerIsTrue, AnswerIsTrue, ResultIsFinal
<1>10. CASE UNCHANGED vars
  BY <1>0, <1>10
  DEF vars, IInv, Rest, TypeOK, EffectsAreSent, Sent, Open,
      FirstAnswerIsTrue, AnswerIsTrue, ResultIsFinal
<1> QED
  BY <1>1, <1>11, <1>2, <1>3, <1>4, <1>5, <1>6, <1>7, <1>8, <1>9, <1>10 DEF Next

\* The inductive invariant holds in every reachable state.
THEOREM InductiveInvariant == Spec => []IInv
BY InitIInv, NextIInv, PTL DEF Spec

-----------------------------------------------------------------------------
LEMMA KindType ==
    ASSUME TypeOK
    PROVE  /\ Kind \in {"read", "add", "put"}
           /\ Kind = "read" <=> op.effect = "read"
           /\ Kind = "add" <=> op.effect = "create"
BY DEF Kind

\* An effect is one the promise allows: the call is not refused, and nothing is
\* added twice.
LEMMA EffectAllowed ==
    ASSUME IInv, Open = 1 \/ strays > 0, op.effect # "read"
    PROVE  /\ Outcome # "refused"
           /\ Kind = "add" => applied = 0
<1>0. /\ TypeOK /\ EffectsAreSent /\ FirstAnswerIsTrue /\ ResultIsFinal
      /\ applied \in Nat /\ strays \in Nat /\ attempt \in Nat
  BY AttemptsType DEF IInv, TypeOK
<1>1. Outcome # "refused"
  BY <1>0, NoneAssumption DEF Open, Outcome, ResultIsFinal, FirstAnswerIsTrue, Result, Answer
<1>2. Kind = "add" => applied = 0
  <2> SUFFICES ASSUME Kind = "add" PROVE applied = 0
    OBVIOUS
  <2>1. op.method = "POST"
    BY <1>0, KindType, OpType DEF TypeOK
  <2>2. attempt = 0
    BY <1>0, <2>1 DEF TypeOK, Attempts
  <2>3. Sent <= 1
    BY <2>2 DEF Sent
  <2>4. Open \in {0, 1} /\ Sent \in {0, 1}
    BY <2>2 DEF Open, Sent
  <2> QED
    BY <1>0, <2>3, <2>4 DEF EffectsAreSent
<1> QED
  BY <1>1, <1>2

\* One arrival of a request is one effect of the promise, or nothing.
LEMMA ServeImplements ==
    ASSUME IInv, Open = 1 \/ strays > 0, NEW says \in Answer, Serve(says),
           UNCHANGED <<op, result, attempt>>
    PROVE  Promise!TakeEffect \/ UNCHANGED <<Kind, Outcome, applied>>
<1>1. Kind' = Kind /\ Outcome' = Outcome
  BY DEF Kind, Outcome
<1>2. CASE applied' = applied
  BY <1>1, <1>2
<1>3. CASE applied' # applied
  <2>1. applied' = applied + 1 /\ op.effect # "read"
    BY <1>3, ServeEffects DEF IInv
  <2> QED
    BY <1>1, <2>1, EffectAllowed, KindType DEF Promise!TakeEffect, IInv
<1> QED
  BY <1>2, <1>3

\* However the client stops, the promise lets the call end that way.
LEMMA EndImplements ==
    ASSUME IInv, IInv', NEW how \in Result, pc # "done", End(how),
           UNCHANGED <<op, attempt, applied>>
           \/ (how \in {"aborted", "network_error"} /\ UNCHANGED <<op, applied>>)
    PROVE  \E o \in {"done", "refused", "unknown"} : Promise!End(o)
<1>1. Kind' = Kind /\ applied' = applied /\ result = None /\ result' = how
  BY DEF Kind, End, IInv, ResultIsFinal
<1>2. Outcome = "pending"
  BY <1>1, NoneAssumption DEF Outcome, Result, Answer
<1>3. Outcome' \in {"done", "refused", "unknown"}
  BY <1>1, NoneAssumption DEF Outcome
<1>4. Outcome' = "done" => Kind = "read" \/ applied > 0
  BY <1>1, NoneAssumption, KindType
  DEF Outcome, IInv, ResultIsFinal, AnswerIsTrue, Result, Answer
<1>5. Outcome' = "refused" => applied = 0
  BY <1>1, NoneAssumption DEF Outcome, IInv, ResultIsFinal, FirstAnswerIsTrue, Result, Answer
<1> QED
  BY <1>1, <1>2, <1>3, <1>4, <1>5 DEF Promise!End

LEMMA StepImplements ==
    ASSUME IInv, IInv', [Next]_vars
    PROVE  [Promise!Next]_<<Kind, Outcome, applied>>
<1> DEFINE Same == UNCHANGED <<Kind, Outcome, applied>>
<1>1. ASSUME NEW how \in Result, pc # "done", End(how),
             UNCHANGED <<op, attempt, applied>>
             \/ (how \in {"aborted", "network_error"} /\ UNCHANGED <<op, applied>>)
      PROVE  Promise!Next
  BY <1>1, EndImplements DEF Promise!Next
<1>2. ASSUME UNCHANGED <<op, result, applied>>, result = None
      PROVE  Same
  BY <1>2 DEF Kind, Outcome
<1>3. result = None <=> pc # "done"
  BY DEF IInv, ResultIsFinal
<1>4. CASE Preflight
  BY <1>1, <1>4 DEF Preflight, server, Result
<1>5. CASE Call \/ Respond
  BY <1>2, <1>3, <1>5 DEF Call, Respond, server
<1>6. CASE NetworkFails
  BY <1>1, <1>2, <1>3, <1>6 DEF NetworkFails, Rejects, GiveUp, server, Result
<1>7. CASE TimesOut
  BY <1>1, <1>7 DEF TimesOut, GiveUp, server, Result
<1>8. CASE Abort
  BY <1>1, <1>2, <1>3, <1>8 DEF Abort, Rejects, GiveUp, server, Result
<1>9. CASE Read
  BY <1>1, <1>2, <1>3, <1>9 DEF Read, server, Result, Answer
<1>10. CASE Resume
  BY <1>1, <1>2, <1>3, <1>10 DEF Resume, server, Result
<1>11. CASE ServerAnswers
  <2>1. Open = 1
    BY <1>11 DEF ServerAnswers, Open
  <2> QED
    BY <1>11, <2>1, ServeImplements DEF ServerAnswers, Promise!Next
<1>12. CASE StrayArrives
  BY <1>12, ServeImplements DEF StrayArrives, Promise!Next
<1>13. CASE OtherClient \/ UNCHANGED vars
  BY <1>13 DEF OtherClient, vars, Kind, Outcome
<1> QED
  BY <1>4, <1>5, <1>6, <1>7, <1>8, <1>9, <1>10, <1>11, <1>12, <1>13 DEF Next

\* http.ts 116-118, errors.ts: for every client table that creates only by POST,
\* every call ends at most one way; one that is done took effect, one refused at
\* its first attempt never does, and nothing is created twice.
THEOREM CallsKeepTheirPromise == Spec => CallImplements
<1>1. Init => Promise!Init
  <2> SUFFICES ASSUME Init PROVE Promise!Init
    OBVIOUS
  <2>1. TypeOK
    BY InitIInv DEF IInv
  <2> QED
    BY <2>1, KindType, NoneAssumption DEF Init, Promise!Init, Outcome, Result, Answer
<1>2. IInv /\ IInv' /\ [Next]_vars => [Promise!Next]_(Promise!vars)
  BY StepImplements DEF Promise!vars
<1> QED
  BY <1>1, <1>2, InductiveInvariant, PTL DEF Spec, CallImplements, Promise!Spec
=============================================================================
