--------------------------- MODULE SettingsDraftProofs ---------------------------
(***************************************************************************)
(* SettingsDraft, for any settings, rows, forms and writes out at once:    *)
(* the page agrees with the server whenever it is quiet, an edit the rules *)
(* reject stays flagged, and an edit survives every save that did not      *)
(* write it.                                                               *)
(***************************************************************************)
EXTENDS SettingsDraft, TLAPS

LEMMA ResolveType ==
    ASSUME TypeOK
    PROVE  Resolve \in Resolution
<1>1. ASSUME NEW s \in Setting
      PROVE  Resolve[s] \in Shown
  BY QueryAssumption DEF Resolve, TypeOK, Shown
<1> QED
  BY <1>1 DEF Resolve, Resolution

LEMMA ResolutionIsLoaded ==
    ASSUME NEW r \in Resolution
    PROVE  r # NoResolution
<1>1. DOMAIN r = Setting
  BY DEF Resolution
<1>2. DOMAIN NoResolution = {}
  BY DEF NoResolution
<1> QED
  BY <1>1, <1>2, QueryAssumption

LEMMA FetchTypes ==
    /\ Idle \in FetchRecord /\ Idle.phase = "idle"
    /\ Asked \in FetchRecord /\ Asked.phase = "asked"
    /\ \A r \in Resolution, m \in BOOLEAN :
           [phase |-> "read", missed |-> m, answer |-> r] \in FetchRecord
    /\ \A f \in FetchRecord :
           /\ f.phase \in {"idle", "asked", "read"}
           /\ f.phase = "read" => f.answer \in Resolution /\ f.missed \in BOOLEAN
BY DEF FetchRecord, Idle, Asked

LEMMA InvalidatedType ==
    ASSUME TypeOK
    PROVE  /\ Invalidated \in FetchRecord
           /\ Loaded => Invalidated = Asked
BY FetchTypes DEF TypeOK, Invalidated

LEMMA WriteTypes ==
    /\ [phase |-> "idle"] \in WriteRecord
    /\ \A p \in Writing, n \in Row, v \in Valid \union {None}, r \in Resolution :
           [phase |-> p, name |-> n, value |-> v, previous |-> r] \in WriteRecord
    /\ \A x \in WriteRecord : x.phase # "idle" =>
           /\ x.phase \in Writing /\ x.name \in Row /\ x.value \in Valid \union {None}
           /\ x.previous \in Resolution
           /\ \A p \in Writing : [x EXCEPT !.phase = p] \in WriteRecord
BY DEF WriteRecord, Writing

LEMMA SaveTypes ==
    /\ [phase |-> "idle"] \in SaveRecord /\ [phase |-> "settling"] \in SaveRecord
    /\ \A p \in Writing, n \in Form, e \in Edits, w \in SUBSET Form, f \in SUBSET Form :
           [phase |-> p, name |-> n, edits |-> e, written |-> w, failed |-> f] \in SaveRecord
    /\ \A x \in SaveRecord : x.phase \in Writing =>
           /\ x.name \in Form /\ x.edits \in Edits
           /\ x.written \in SUBSET Form /\ x.failed \in SUBSET Form
           /\ x = [phase |-> x.phase, name |-> x.name, edits |-> x.edits,
                   written |-> x.written, failed |-> x.failed]
    /\ \A x \in SaveRecord : x.phase \in Writing \union {"idle", "settling"}
BY DEF SaveRecord, Writing

LEMMA EditsType ==
    ASSUME NEW e \in Edits
    PROVE  /\ DOMAIN e \subseteq Form
           /\ \A s \in DOMAIN e : e[s] \in Valid
BY DEF Edits

-----------------------------------------------------------------------------
\* What the steps of the query and the rows keep: everything but the save and
\* the draft, which SaveIsSound ties to them only through the fetch and the data.
Board ==
    /\ stored \in [Setting -> Valid] /\ policy \in [Setting -> Policy \union {None}]
    /\ data \in Resolution \union {NoResolution} /\ failed \in BOOLEAN
    /\ fetch \in FetchRecord
    /\ write \in [Writer -> WriteRecord]
    /\ rejected \subseteq Row /\ behind \in BOOLEAN /\ turns \in 0..MaxTurns

Truth ==
    /\ QuietBoardIsTrue
    /\ \A w \in Writer : write[w].phase # "idle" => Loaded
    /\ Quiet /\ fetch.phase = "read" /\ ~fetch.missed => fetch.answer = Resolve

LEMMA TurnType ==
    ASSUME turns \in 0..MaxTurns, Turn
    PROVE  turns' \in 0..MaxTurns
BY QueryAssumption DEF Turn

\* A step that ends no save: Quiet depends on the writes of the rows alone.
LEMMA QueryKeepsTruth ==
    ASSUME IInv, QueryStep, save'.phase \in Writing <=> save.phase \in Writing
    PROVE  Board' /\ Truth' /\ (Loaded => Loaded')
<1> USE FetchTypes, ResolutionIsLoaded, QueryAssumption
<1>1. ASSUME UNCHANGED write
      PROVE  Quiet' <=> Quiet
  BY <1>1 DEF Quiet
<1>2. ASSUME UNCHANGED serverVars
      PROVE  Resolve' = Resolve
  BY <1>2 DEF Resolve, serverVars
<1>3. CASE Refetch
  BY <1>1, <1>2, <1>3, TurnType
     DEF Refetch, IInv, TypeOK, Board, Truth, QuietBoardIsTrue, SaveIsSound, Loaded, serverVars
<1>4. CASE Refresh
  BY <1>1, <1>2, <1>4, TurnType, InvalidatedType
     DEF Refresh, IInv, TypeOK, Board, Truth, QuietBoardIsTrue, SaveIsSound, Loaded, serverVars, Invalidated
<1>5. CASE ServerReads
  BY <1>1, <1>2, <1>5, ResolveType
     DEF ServerReads, IInv, TypeOK, Board, Truth, QuietBoardIsTrue, SaveIsSound, Loaded, serverVars
<1>6. CASE FetchSucceeds
  BY <1>1, <1>2, <1>6
     DEF FetchSucceeds, IInv, TypeOK, Board, Truth, QuietBoardIsTrue, SaveIsSound, Loaded, serverVars
<1>7. CASE FetchFails
  BY <1>1, <1>2, <1>7, TurnType
     DEF FetchFails, IInv, TypeOK, Board, Truth, QuietBoardIsTrue, SaveIsSound, Loaded, serverVars
<1>8. CASE OutsideChange
  <2>1. fetch' \in FetchRecord /\ (fetch'.phase = "read" => fetch'.missed)
    <3>1. CASE fetch.phase = "read"
      <4>1. fetch' = [fetch EXCEPT !.missed = TRUE]
        BY <1>8, <3>1 DEF OutsideChange
      <4> QED
        BY <3>1, <4>1 DEF IInv, TypeOK, FetchRecord
    <3>2. CASE fetch.phase # "read"
      BY <1>8, <3>2 DEF OutsideChange, IInv, TypeOK
    <3> QED
      BY <3>1, <3>2
  <2>2. stored' \in [Setting -> Valid] /\ policy' \in [Setting -> Policy \union {None}]
    BY <1>8 DEF OutsideChange, IInv, TypeOK
  <2> QED
    BY <1>1, <1>8, <2>1, <2>2, TurnType
       DEF OutsideChange, IInv, TypeOK, Board, Truth, QuietBoardIsTrue, SaveIsSound, Loaded
<1> QED
  BY <1>3, <1>4, <1>5, <1>6, <1>7, <1>8 DEF QueryStep

\* The same of a row's step.  A write that is out keeps the board from being
\* quiet, and the one that ends asks for a new fetch.
LEMMA RowKeepsTruth ==
    ASSUME IInv, RowStep, save'.phase \in Writing <=> save.phase \in Writing
    PROVE  Board' /\ Truth' /\ (Loaded => Loaded')
<1> USE FetchTypes, ResolutionIsLoaded, QueryAssumption
<1>1. CASE \E s \in Row : Reject(s)
  <2>1. PICK s \in Row : Reject(s)
    BY <1>1
  <2> QED
    BY <2>1, TurnType
       DEF Reject, CanWrite, IInv, TypeOK, Board, Truth, Quiet, QuietBoardIsTrue, SaveIsSound, Loaded, Resolve,
           serverVars, queryVars
<1>2. CASE \E w \in Writer, s \in Row, v \in Valid \union {None} : BeginWrite(w, s, v)
  <2>1. PICK w \in Writer, s \in Row, v \in Valid \union {None} : BeginWrite(w, s, v)
    BY <1>2
  <2>2. data \in Resolution
    BY <2>1 DEF BeginWrite, CanWrite, Loaded, IInv, TypeOK
  <2>3. write' = [write EXCEPT ![w] = [phase |-> "sent", name |-> s, value |-> v, previous |-> data]]
    BY <2>1 DEF BeginWrite, CanWrite
  <2>4. write' \in [Writer -> WriteRecord] /\ write'[w].phase = "sent"
    BY <2>2, <2>3, WriteTypes DEF IInv, TypeOK, Writing
  <2>5. data' \in Resolution
    <3>1. CASE v = None
      BY <2>1, <2>2, <3>1 DEF BeginWrite, CanWrite
    <3>2. CASE v # None
      <4>1. data' = [data EXCEPT ![s].value = v]
        BY <2>1, <3>2 DEF BeginWrite, CanWrite
      <4> QED
        BY <2>2, <3>2, <4>1 DEF Resolution, Shown
    <3> QED
      BY <3>1, <3>2
  <2>6. ~Quiet'
    BY <2>4 DEF Quiet
  <2>7. fetch' = Idle /\ failed' \in BOOLEAN /\ rejected' \subseteq Row /\ turns' \in 0..MaxTurns
    BY <2>1, TurnType DEF BeginWrite, CanWrite, IInv, TypeOK
  <2>8. UNCHANGED <<stored, policy, behind>>
    BY <2>1 DEF BeginWrite, CanWrite, serverVars
  <2> QED
    BY <2>4, <2>5, <2>6, <2>7, <2>8
       DEF IInv, TypeOK, Board, Truth, QuietBoardIsTrue, Loaded
<1>3. ASSUME NEW w \in Writer, ServerTakes(w) \/ ServerRefuses(w)
      PROVE  Board' /\ Truth' /\ (Loaded => Loaded')
  <2> DEFINE p == IF ServerTakes(w) THEN "taken" ELSE "refused"
  <2>1. write[w].phase = "sent" /\ write[w] \in WriteRecord
    BY <1>3 DEF ServerTakes, ServerRefuses, IInv, TypeOK
  <2>2. write' = [write EXCEPT ![w].phase = p] /\ p \in {"taken", "refused"}
    BY <1>3 DEF ServerTakes, ServerRefuses
  <2>3. write' \in [Writer -> WriteRecord] /\ write'[w].phase = p
    <3>1. [write[w] EXCEPT !.phase = p] \in WriteRecord
      BY <2>1, <2>2, WriteTypes DEF Writing
    <3>2. [write[w] EXCEPT !.phase = p].phase = p
      BY <2>1 DEF WriteRecord, Writing
    <3> QED
      BY <2>2, <3>1, <3>2 DEF IInv, TypeOK
  <2>4. stored' \in [Setting -> Valid]
    <3>1. write[w].value \in Valid \union {None} /\ write[w].name \in Setting
      BY <2>1, WriteTypes
    <3> QED
      BY <1>3, <3>1 DEF ServerTakes, ServerRefuses, IInv, TypeOK, serverVars
  <2>5. turns' \in 0..MaxTurns
    BY <1>3, TurnType DEF ServerTakes, ServerRefuses, IInv, TypeOK
  <2>6. UNCHANGED <<policy, queryVars, rejected, behind>>
    BY <1>3 DEF ServerTakes, ServerRefuses, serverVars
  <2>7. Loaded
    BY <2>1 DEF IInv, SaveIsSound
  <2>8. ~Quiet'
    BY <2>2, <2>3 DEF Quiet
  <2> QED
    BY <2>3, <2>4, <2>5, <2>6, <2>7, <2>8
       DEF IInv, TypeOK, Board, Truth, QuietBoardIsTrue, Loaded, queryVars
<1>4. ASSUME NEW w \in Writer, WriteSucceeds(w) \/ WriteFails(w)
      PROVE  Board' /\ Truth' /\ (Loaded => Loaded')
  <2>1. write[w].phase # "idle" /\ write[w] \in WriteRecord
    BY <1>4 DEF WriteSucceeds, WriteFails, IInv, TypeOK
  <2>2. Loaded /\ data \in Resolution
    BY <2>1 DEF IInv, SaveIsSound, TypeOK, Loaded
  <2>3. fetch' = Asked
    BY <1>4, <2>2, InvalidatedType DEF WriteSucceeds, WriteFails, IInv
  <2>4. data' \in Resolution /\ failed' \in BOOLEAN
    <3>1. CASE WriteSucceeds(w)
      BY <2>2, <3>1 DEF WriteSucceeds, IInv, TypeOK
    <3>2. CASE WriteFails(w)
      <4>1. write[w].previous \in Resolution
        BY <2>1, WriteTypes
      <4> QED
        BY <3>2, <4>1 DEF WriteFails
    <3> QED
      BY <1>4, <3>1, <3>2
  <2>5. write' \in [Writer -> WriteRecord]
    BY <1>4, WriteTypes DEF WriteSucceeds, WriteFails, IInv, TypeOK
  <2>6. turns' \in 0..MaxTurns /\ UNCHANGED <<stored, policy, rejected, behind>>
    BY <1>4, TurnType DEF WriteSucceeds, WriteFails, IInv, TypeOK, serverVars
  <2> QED
    BY <2>3, <2>4, <2>5, <2>6
       DEF IInv, TypeOK, Board, Truth, QuietBoardIsTrue, Loaded
<1> QED
  BY <1>1, <1>2, <1>3, <1>4 DEF RowStep

-----------------------------------------------------------------------------
\* Put together with what does not change, that is the invariant for a step of
\* the page, which ends the save waiting for the fetch it ends.
LEMMA PageKeepsIInv ==
    ASSUME IInv, PageStep
    PROVE  IInv'
<1>1. CASE FetchGoesOn /\ UNCHANGED draftVars
  <2>1. Board' /\ Truth' /\ (Loaded => Loaded')
    BY <1>1, QueryKeepsTruth, RowKeepsTruth DEF FetchGoesOn, QueryStep, RowStep, draftVars
  <2>2. save.phase = "settling" => fetch'.phase # "idle"
    <3>1. save.phase = "settling" => fetch.phase # "idle"
      BY DEF IInv, SaveIsSound
    <3>2. CASE Refetch
      BY <3>2, FetchTypes DEF Refetch
    <3>3. CASE ServerReads
      BY <3>3 DEF ServerReads
    <3>4. CASE OutsideChange
      <4>1. fetch'.phase = fetch.phase
        BY <3>4 DEF OutsideChange, IInv, TypeOK, FetchRecord
      <4> QED
        BY <3>1, <4>1
    <3>5. CASE \E s \in Row : Reject(s)
      BY <3>1, <3>5 DEF Reject, CanWrite, queryVars
    <3>6. CASE \E w \in Writer : ServerTakes(w) \/ ServerRefuses(w)
      BY <3>1, <3>6 DEF ServerTakes, ServerRefuses, queryVars
    <3> QED
      BY <1>1, <3>2, <3>3, <3>4, <3>5, <3>6 DEF FetchGoesOn
  <2> QED
    BY <1>1, <2>1, <2>2
       DEF IInv, TypeOK, Board, Truth, BadEditsAreFlagged, SaveIsSound, Saving, draftVars
<1>2. CASE FetchEnds /\ save' = (IF save.phase = "settling" THEN [phase |-> "idle"] ELSE save)
           /\ UNCHANGED <<draft, problems, lastResult>>
  <2>1. save'.phase \in Writing <=> save.phase \in Writing
    BY <1>2 DEF Writing
  <2>2. Board' /\ Truth' /\ (Loaded => Loaded')
    BY <1>2, <2>1, QueryKeepsTruth, RowKeepsTruth DEF FetchEnds, QueryStep, RowStep
  <2>3. save' \in SaveRecord /\ save'.phase # "settling"
    BY <1>2, SaveTypes DEF IInv, TypeOK
  <2>4. save'.phase # "idle" => save' = save
    BY <1>2
  <2> QED
    BY <1>2, <2>2, <2>3, <2>4
       DEF IInv, TypeOK, Board, Truth, BadEditsAreFlagged, SaveIsSound, Saving, Writing
<1> QED
  BY <1>1, <1>2 DEF PageStep

\* What the user does to the draft touches neither the query nor the rows.
LEMMA UserKeepsIInv ==
    ASSUME IInv, UserStep
    PROVE  IInv'
<1> USE QueryAssumption, FormAssumption
<1>1. UNCHANGED <<stored, policy, data, failed, fetch, write, rejected, behind>> /\ turns' \in 0..MaxTurns
  BY TurnType DEF UserStep, SetValue, CanEdit, RevertOne, RevertAll, RevertEnabled, SaveBlocked, BeginSave, SaveEnabled, RevertEnabled, serverVars, queryVars,
                  IInv, TypeOK
<1>2. Resolve' = Resolve /\ Loaded' = Loaded
  BY <1>1 DEF Resolve, Loaded
<1>3. CASE UNCHANGED save
  <2>1. /\ draft' \in [Form -> Value \union {None}] /\ problems' \subseteq Form
        /\ lastResult' \in [written : SUBSET Form, failed : SUBSET Form]
        /\ BadEditsAreFlagged'
    <3>1. CASE \E s \in Form, v \in Value : SetValue(s, v)
      BY <3>1 DEF SetValue, CanEdit, IInv, TypeOK, BadEditsAreFlagged
    <3>2. CASE \E s \in Form : RevertOne(s)
      BY <3>2 DEF RevertOne, IInv, TypeOK, BadEditsAreFlagged
    <3>3. CASE RevertAll
      BY <3>3 DEF RevertAll, RevertEnabled, IInv, TypeOK, BadEditsAreFlagged
    <3>4. CASE SaveBlocked
      BY <3>4 DEF SaveBlocked, IInv, TypeOK, BadEditsAreFlagged
    <3>5. CASE BeginSave
      BY <1>3, <3>5 DEF BeginSave, SaveEnabled, RevertEnabled, Saving
    <3> QED
      BY <3>1, <3>2, <3>3, <3>4, <3>5 DEF UserStep
  <2>2. QuietBoardIsTrue' /\ SaveIsSound'
    BY <1>1, <1>2, <1>3 DEF IInv, QuietBoardIsTrue, SaveIsSound, Quiet, Saving
  <2> QED
    BY <1>1, <1>3, <2>1, <2>2 DEF IInv, TypeOK
<1>4. CASE BeginSave
  <2>1. PICK s \in Dirty :
           save' = [phase |-> "sent", name |-> s, edits |-> [n \in Dirty |-> draft[n]],
                    written |-> {}, failed |-> {}]
    BY <1>4 DEF BeginSave, SaveEnabled, RevertEnabled
  <2>2. Dirty \subseteq Form /\ [n \in Dirty |-> draft[n]] \in Edits
    <3>1. ASSUME NEW n \in Dirty
          PROVE  draft[n] \in Valid
      BY <1>4, <3>1 DEF BeginSave, SaveEnabled, RevertEnabled, Dirty, IInv, TypeOK, BadEditsAreFlagged
    <3>2. [n \in Dirty |-> draft[n]] \in [Dirty -> Valid]
      BY <3>1
    <3> QED
      BY <3>2 DEF Dirty, Edits
  <2>3. save' \in SaveRecord /\ save'.phase = "sent"
    BY <2>1, <2>2, SaveTypes DEF Writing
  <2>4. Loaded /\ UNCHANGED <<draft, problems, lastResult>>
    BY <1>4 DEF BeginSave, SaveEnabled, RevertEnabled, FormShown
  <2>5. SaveIsSound'
    <3>1. /\ save'.name = s /\ DOMAIN save'.edits = Dirty
          /\ save'.written = {} /\ save'.failed = {}
      BY <2>1
    <3>2. ~Quiet'
      BY <2>3 DEF Quiet, Writing
    <3> QED
      BY <1>1, <1>2, <2>1, <2>3, <2>4, <3>1, <3>2 DEF IInv, SaveIsSound
  <2>6. QuietBoardIsTrue'
    BY <2>3 DEF QuietBoardIsTrue, Quiet, Writing
  <2> QED
    BY <1>1, <2>3, <2>4, <2>5, <2>6 DEF IInv, TypeOK, BadEditsAreFlagged
<1> QED
  BY <1>3, <1>4 DEF UserStep, SetValue, CanEdit, RevertOne, RevertAll, RevertEnabled, SaveBlocked

-----------------------------------------------------------------------------
\* The steps of a save under way: the rows and the data stay, and a save that
\* ends asks for a new fetch.
LEMMA ServerKeepsIInv ==
    ASSUME IInv, ServerTakesEdit \/ ServerRefusesEdit
    PROVE  IInv'
<1> DEFINE p == IF ServerTakesEdit THEN "taken" ELSE "refused"
<1>1. /\ save.phase = "sent" /\ save' = [save EXCEPT !.phase = p] /\ p \in {"taken", "refused"}
      /\ UNCHANGED <<policy, data, failed, fetch, write, rejected, behind, draft, problems, lastResult>>
  BY DEF ServerTakesEdit, ServerRefusesEdit, serverVars, queryVars
<1>2. save \in SaveRecord /\ save.phase \in Writing
  BY <1>1 DEF IInv, TypeOK, Writing
<1>3. save' = [phase |-> p, name |-> save.name, edits |-> save.edits,
               written |-> save.written, failed |-> save.failed]
  BY <1>1, <1>2, SaveTypes
<1> HIDE DEF p
<1>4. save' \in SaveRecord
  <2>1. p \in Writing
    BY <1>1 DEF Writing
  <2>2. /\ save.name \in Form /\ save.edits \in Edits
        /\ save.written \in SUBSET Form /\ save.failed \in SUBSET Form
    BY <1>2, SaveTypes
  <2> QED
    BY <1>3, <2>1, <2>2, SaveTypes
<1>5. stored' \in [Setting -> Valid]
  <2>1. save.edits[save.name] \in Valid
    BY <1>2, SaveTypes, EditsType DEF IInv, SaveIsSound
  <2> QED
    BY <2>1 DEF ServerTakesEdit, ServerRefusesEdit, serverVars, IInv, TypeOK
<1>6. turns' \in 0..MaxTurns
  BY TurnType DEF ServerTakesEdit, ServerRefusesEdit, IInv, TypeOK
<1>7. ~Quiet'
  BY <1>1, <1>3 DEF Quiet, Writing
<1>8. QuietBoardIsTrue' /\ SaveIsSound'
  BY <1>1, <1>2, <1>3, <1>7 DEF IInv, QuietBoardIsTrue, SaveIsSound, Saving, Loaded, Writing
<1> QED
  BY <1>1, <1>4, <1>5, <1>6, <1>8 DEF IInv, TypeOK, BadEditsAreFlagged

LEMMA AnswerKeepsIInv ==
    ASSUME IInv, EditWritten \/ EditFailed
    PROVE  IInv'
<1> DEFINE written == IF EditWritten THEN save.written \union {save.name} ELSE save.written
           failures == IF EditWritten THEN save.failed ELSE save.failed \union {save.name}
           left == DOMAIN save.edits \ (written \union failures)
<1>1. /\ Proceed(written, failures)
      /\ save.phase \in {"taken", "refused"}
      /\ UNCHANGED <<stored, policy, data, failed, write, rejected, behind, problems>>
  BY DEF EditWritten, EditFailed, serverVars
<1>2. turns' \in 0..MaxTurns
  BY TurnType DEF EditWritten, EditFailed, IInv, TypeOK
<1>3. save \in SaveRecord /\ save.phase \in Writing /\ Loaded
  BY <1>1 DEF IInv, TypeOK, Writing, SaveIsSound, Saving
<1>4. /\ written \subseteq Form /\ failures \subseteq Form
      /\ written \intersect failures = {} /\ written \union failures \subseteq DOMAIN save.edits
      /\ DOMAIN save.edits \subseteq Form
  BY <1>3, SaveTypes, EditsType DEF IInv, SaveIsSound
<1>5. Resolve' = Resolve /\ Loaded' = Loaded
  BY <1>1 DEF Resolve, Loaded
<1> HIDE DEF written, failures
<1>6. CASE left # {}
  <2>1. /\ UNCHANGED <<fetch, draft, lastResult>>
        /\ \E s \in left : save' = [save EXCEPT !.phase = "sent", !.name = s,
                                                !.written = written, !.failed = failures]
    BY <1>1, <1>6 DEF Proceed
  <2>2. PICK s \in left : save' = [save EXCEPT !.phase = "sent", !.name = s,
                                               !.written = written, !.failed = failures]
    BY <2>1
  <2>3. save' = [phase |-> "sent", name |-> s, edits |-> save.edits,
                 written |-> written, failed |-> failures]
    <3>1. save = [phase |-> save.phase, name |-> save.name, edits |-> save.edits,
                  written |-> save.written, failed |-> save.failed]
      BY <1>3, SaveTypes
    <3> QED
      BY <2>2, <3>1
  <2>4. save' \in SaveRecord /\ save'.phase = "sent"
    BY <1>3, <1>4, <2>3, SaveTypes DEF Writing
  <2>5. ~Quiet'
    BY <2>4 DEF Quiet, Writing
  <2>6. QuietBoardIsTrue' /\ SaveIsSound'
    BY <1>1, <1>3, <1>4, <1>5, <2>1, <2>3, <2>5 DEF IInv, QuietBoardIsTrue, SaveIsSound
  <2> QED
    BY <1>1, <1>2, <2>1, <2>4, <2>6 DEF IInv, TypeOK, BadEditsAreFlagged
<1>7. CASE left = {}
  <2>1. /\ save' = [phase |-> "settling"]
        /\ lastResult' = [written |-> written, failed |-> failures]
        /\ draft' = [s \in Form |-> IF s \in written THEN None ELSE draft[s]]
        /\ fetch' = Invalidated
    BY <1>1, <1>7 DEF Proceed
  <2>2. fetch' = Asked /\ fetch' \in FetchRecord /\ fetch'.phase = "asked"
    BY <1>3, <2>1, InvalidatedType, FetchTypes DEF IInv
  <2>3. save' \in SaveRecord /\ save'.phase = "settling"
    BY <2>1, SaveTypes
  <2>4. draft' \in [Form -> Value \union {None}] /\ BadEditsAreFlagged'
    BY <1>1, <2>1, QueryAssumption DEF IInv, TypeOK, BadEditsAreFlagged
  <2>5. lastResult' \in [written : SUBSET Form, failed : SUBSET Form]
    BY <1>4, <2>1
  <2>6. QuietBoardIsTrue' /\ SaveIsSound'
    BY <1>1, <1>3, <1>5, <2>2, <2>3 DEF IInv, QuietBoardIsTrue, SaveIsSound, Writing
  <2> QED
    BY <1>1, <1>2, <2>2, <2>3, <2>4, <2>5, <2>6 DEF IInv, TypeOK
<1> QED
  BY <1>6, <1>7

-----------------------------------------------------------------------------
LEMMA InitIInv == DraftInit => IInv
<1> SUFFICES ASSUME DraftInit PROVE IInv
  OBVIOUS
<1>1. TypeOK
  <2>1. /\ stored \in [Setting -> Valid] /\ policy \in [Setting -> Policy \union {None}]
        /\ data \in Resolution \union {NoResolution} /\ failed \in BOOLEAN
        /\ rejected \subseteq Row /\ behind \in BOOLEAN /\ turns \in 0..MaxTurns
    <3>1. \A s \in Setting : stored[s] \in Valid
      BY QueryAssumption DEF DraftInit, Init
    <3>2. stored \in [Setting -> Valid]
      BY <3>1 DEF DraftInit, Init
    <3>3. policy \in [Setting -> Policy \union {None}]
      BY DEF DraftInit, Init
    <3>4. /\ data \in Resolution \union {NoResolution} /\ failed \in BOOLEAN
          /\ rejected \subseteq Row /\ behind \in BOOLEAN
      BY DEF DraftInit, Init
    <3>5. turns \in 0..MaxTurns
      BY QueryAssumption DEF DraftInit, Init
    <3> QED
      BY <3>2, <3>3, <3>4, <3>5
  <2>2. fetch \in FetchRecord /\ write \in [Writer -> WriteRecord]
    BY FetchTypes, WriteTypes DEF DraftInit, Init
  <2>3. /\ draft \in [Form -> Value \union {None}] /\ problems \subseteq Form
        /\ save \in SaveRecord /\ lastResult \in [written : SUBSET Form, failed : SUBSET Form]
    BY SaveTypes DEF DraftInit
  <2> QED
    BY <2>1, <2>2, <2>3 DEF TypeOK
<1>2. ~Loaded /\ ~Saving /\ fetch.phase = "asked"
  BY FetchTypes DEF DraftInit, Init, Loaded, Saving
<1>3. \A w \in Writer : write[w].phase = "idle"
  BY DEF DraftInit, Init
<1>4. BadEditsAreFlagged
  BY QueryAssumption DEF DraftInit, BadEditsAreFlagged
<1> QED
  BY <1>1, <1>2, <1>3, <1>4 DEF IInv, QuietBoardIsTrue, SaveIsSound, Saving, Writing

\* Every step of the page, of a save and of the user keeps the board's
\* invariant, for any number of settings, rows and writes.
THEOREM InductiveInvariant == DraftSpec => []IInv
<1>1. IInv /\ [DraftNext]_allVars => IInv'
  <2> SUFFICES ASSUME IInv, [DraftNext]_allVars PROVE IInv'
    OBVIOUS
  <2>1. CASE UNCHANGED allVars
    BY <2>1 DEF allVars, vars, draftVars, IInv, TypeOK, QuietBoardIsTrue, BadEditsAreFlagged, SaveIsSound,
                Quiet, Loaded, Saving, Resolve
  <2> QED
    BY <2>1, PageKeepsIInv, UserKeepsIInv, ServerKeepsIInv, AnswerKeepsIInv DEF DraftNext, SaveStep
<1> QED
  BY <1>1, InitIInv, PTL DEF DraftSpec

\* use-setting.ts 125-153, use-settings-draft.ts 224: every write, landed or
\* not, is followed by a fetch that read the server after it.
THEOREM QuietBoardAgrees == DraftSpec => []QuietBoardIsTrue
<1>1. IInv => QuietBoardIsTrue
  BY DEF IInv
<1> QED
  BY <1>1, InductiveInvariant, PTL

\* use-settings-draft.ts 143-159, 227: what the rules reject is flagged in the
\* draft, so that Save is blocked.
THEOREM BadEditsStayFlagged == DraftSpec => []BadEditsAreFlagged
<1>1. IInv => BadEditsAreFlagged
  BY DEF IInv
<1> QED
  BY <1>1, InductiveInvariant, PTL

\* use-settings-draft.ts 213-222: an edit survives every save that did not
\* write it, and a save accounts for each name it carried.
THEOREM EditsSurvive == DraftSpec => EditsOutliveFailures
<1> DEFINE Kept == /\ \A s \in Form :
                          draft[s] # None /\ draft'[s] = None =>
                              \/ RevertAll \/ RevertOne(s)
                              \/ s \in DOMAIN save.edits /\ s \in lastResult'.written
                   /\ save.phase \in Writing /\ save'.phase \notin Writing =>
                          /\ lastResult'.written \union lastResult'.failed = DOMAIN save.edits
                          /\ lastResult'.written \intersect lastResult'.failed = {}
                          /\ save.name \in lastResult'.written => save.phase = "taken"
<1>1. ASSUME IInv, DraftNext
      PROVE  Kept
  <2>1. CASE PageStep
    BY <2>1 DEF PageStep, draftVars, Writing
  <2>2. CASE ServerTakesEdit \/ ServerRefusesEdit
    <3>1. UNCHANGED draft /\ save'.phase \in Writing
      <4>1. save \in SaveRecord /\ save.phase \in Writing
        BY <1>1, <2>2 DEF ServerTakesEdit, ServerRefusesEdit, IInv, TypeOK, Writing
      <4> QED
        BY <2>2, <4>1, SaveTypes DEF ServerTakesEdit, ServerRefusesEdit, Writing
    <3> QED
      BY <3>1
  <2>3. CASE EditWritten \/ EditFailed
    <3> DEFINE written == IF EditWritten THEN save.written \union {save.name} ELSE save.written
               failures == IF EditWritten THEN save.failed ELSE save.failed \union {save.name}
    <3>1. Proceed(written, failures) /\ save.phase \in Writing
      BY <2>3 DEF EditWritten, EditFailed, Writing
    <3>2. /\ save.name \in DOMAIN save.edits \ (save.written \union save.failed)
          /\ save.written \intersect save.failed = {}
          /\ save.written \union save.failed \subseteq DOMAIN save.edits
      BY <1>1, <3>1 DEF IInv, SaveIsSound
    <3>3. /\ written \intersect failures = {} /\ written \union failures \subseteq DOMAIN save.edits
          /\ save.name \in written => save.phase = "taken"
      BY <2>3, <3>2 DEF EditWritten
    <3>4. save \in SaveRecord
      BY <1>1 DEF IInv, TypeOK
    <3> HIDE DEF written, failures
    <3>5. CASE DOMAIN save.edits \ (written \union failures) # {}
      <4>1. UNCHANGED draft
        BY <3>1, <3>5 DEF Proceed
      <4>2. save'.phase = "sent"
        <5>1. PICK s \in DOMAIN save.edits : save' = [save EXCEPT !.phase = "sent", !.name = s,
                                                       !.written = written, !.failed = failures]
          BY <3>1, <3>5 DEF Proceed
        <5> QED
          BY <3>1, <3>4, <5>1, SaveTypes
      <4> QED
        BY <4>1, <4>2 DEF Writing
    <3>6. CASE DOMAIN save.edits \ (written \union failures) = {}
      <4>1. /\ lastResult' = [written |-> written, failed |-> failures]
            /\ draft' = [s \in Form |-> IF s \in written THEN None ELSE draft[s]]
        BY <3>1, <3>6 DEF Proceed
      <4>2. ASSUME NEW s \in Form, draft[s] # None, draft'[s] = None
            PROVE  s \in written
        BY <4>1, <4>2
      <4>3. lastResult'.written = written /\ lastResult'.failed = failures
        BY <4>1
      <4> QED
        BY <3>3, <3>6, <4>2, <4>3
    <3> QED
      BY <3>5, <3>6
  <2>4. CASE UserStep
    <3>1. save.phase \in Writing => save' = save
      BY <2>4 DEF UserStep, SetValue, CanEdit, RevertOne, RevertAll, RevertEnabled, SaveBlocked, BeginSave, SaveEnabled, RevertEnabled, Saving, Writing
    <3>2. ASSUME NEW s \in Form, draft[s] # None, draft'[s] = None
          PROVE  RevertAll \/ RevertOne(s)
      <4>1. ~(SaveBlocked \/ BeginSave)
        BY <3>2 DEF SaveBlocked, BeginSave, SaveEnabled, RevertEnabled
      <4>2. ASSUME NEW t \in Form, NEW v \in Value
            PROVE  ~SetValue(t, v)
        BY <1>1, <3>2, QueryAssumption DEF SetValue, CanEdit, IInv, TypeOK
      <4>3. ASSUME NEW t \in Form, RevertOne(t)
            PROVE  t = s
        BY <1>1, <3>2, <4>3 DEF RevertOne, IInv, TypeOK
      <4> QED
        BY <2>4, <4>1, <4>2, <4>3 DEF UserStep
    <3> QED
      BY <3>1, <3>2
  <2> QED
    BY <1>1, <2>1, <2>2, <2>3, <2>4 DEF DraftNext, SaveStep
<1>2. IInv /\ [DraftNext]_allVars => [Kept]_allVars
  BY <1>1
<1> QED
  BY <1>2, InductiveInvariant, PTL DEF DraftSpec, EditsOutliveFailures
=============================================================================
