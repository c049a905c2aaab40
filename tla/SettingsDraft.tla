----------------------------- MODULE SettingsDraft -----------------------------
(***************************************************************************)
(* A form over the resolution of SettingsQuery: edits are held in a draft, *)
(* validated as they are made and written one after the other by Save      *)
(* (hooks use-settings-draft.ts, ui settings-form.tsx).  The rows of       *)
(* SettingsQuery and other clients go on writing at the same time.         *)
(*                                                                         *)
(* A save works on the edits and the dirty names of the render in which    *)
(* Save was pressed, while the fields stay editable.  It is over when the  *)
(* refetch it asked for has ended: delivered, failed, cancelled by a row's *)
(* write or replaced by another one.                                       *)
(***************************************************************************)
EXTENDS SettingsQuery

CONSTANT Form       \* the settings on the form

ASSUME FormAssumption == Form \subseteq Setting

Edits == UNION {[names -> Valid] : names \in SUBSET Form}
Writing == {"sent", "taken", "refused"}
SaveRecord == [phase : {"idle", "settling"}]
              \union [phase : Writing, name : Form, edits : Edits,
                      written : SUBSET Form, failed : SUBSET Form]

VARIABLES
    draft,          \* the local edits, None where there is none
    problems,       \* the settings whose edit local validation rejects
    save,           \* the mutation: the request that is out and the result so far
    lastResult      \* what the last save wrote and failed to write

draftVars == <<draft, problems, save, lastResult>>
allVars == <<vars, draftVars>>

DraftInit ==
    /\ Init
    /\ draft = [s \in Form |-> None]
    /\ problems = {}
    /\ save = [phase |-> "idle"]
    /\ lastResult = [written |-> {}, failed |-> {}]

\* The form is rendered when there is a resolution and no error.
FormShown == Loaded /\ ~failed
Dirty == {s \in Form : draft[s] \notin {None, data[s].value}}
Saving == save.phase # "idle"

\* What the form and its footer leave enabled.
CanEdit(s) == FormShown /\ ~data[s].enforced
RevertEnabled == Dirty # {} /\ ~Saving
SaveEnabled == RevertEnabled /\ problems = {}

-----------------------------------------------------------------------------
\* Mutant of SetValue: a new edit replaces the problems of the others.
SetValueAlone(s, v) ==
    /\ Turn
    /\ CanEdit(s)
    /\ draft' = [draft EXCEPT ![s] = v]
    /\ problems' = IF v \in Valid THEN {} ELSE {s}
    /\ UNCHANGED <<serverVars, queryVars, write, rejected, behind, save, lastResult>>

SetValue(s, v) ==
    /\ Turn
    /\ CanEdit(s)
    /\ draft' = [draft EXCEPT ![s] = v]
    /\ problems' = IF v \in Valid THEN problems \ {s} ELSE problems \union {s}
    /\ UNCHANGED <<serverVars, queryVars, write, rejected, behind, save, lastResult>>

\* revert(name), at any time.
RevertOne(s) ==
    /\ Turn
    /\ FormShown
    /\ draft' = [draft EXCEPT ![s] = None]
    /\ problems' = problems \ {s}
    /\ UNCHANGED <<serverVars, queryVars, write, rejected, behind, save, lastResult>>

\* The Revert button.
RevertAll ==
    /\ Turn
    /\ FormShown /\ RevertEnabled
    /\ draft' = [s \in Form |-> None]
    /\ problems' = {}
    /\ UNCHANGED <<serverVars, queryVars, write, rejected, behind, save, lastResult>>

\* save() of a form of one's own while there are problems: all of them failed.
SaveBlocked ==
    /\ Turn
    /\ FormShown /\ problems # {} /\ ~Saving
    /\ lastResult' = [written |-> {}, failed |-> problems]
    /\ UNCHANGED <<serverVars, queryVars, write, rejected, behind, draft, problems, save>>

\* The Save button: the first of the dirty names goes out.
BeginSave ==
    /\ Turn
    /\ FormShown /\ SaveEnabled
    /\ \E s \in Dirty :
           save' = [phase |-> "sent", name |-> s, edits |-> [n \in Dirty |-> draft[n]],
                    written |-> {}, failed |-> {}]
    /\ UNCHANGED <<serverVars, queryVars, write, rejected, behind, draft, problems, lastResult>>

ServerTakesEdit ==
    /\ save.phase = "sent"
    /\ stored' = [stored EXCEPT ![save.name] = save.edits[save.name]]
    /\ save' = [save EXCEPT !.phase = "taken"]
    /\ UNCHANGED <<policy, queryVars, write, rejected, behind, turns, draft, problems, lastResult>>

ServerRefusesEdit ==
    /\ Turn
    /\ save.phase = "sent"
    /\ save' = [save EXCEPT !.phase = "refused"]
    /\ UNCHANGED <<serverVars, queryVars, write, rejected, behind, draft, problems, lastResult>>

\* Mutant of Proceed: onSuccess empties the whole draft.
ProceedForgetful(written, failures) ==
    LET left == DOMAIN save.edits \ (written \union failures) IN
    IF left # {}
    THEN /\ \E s \in left :
                save' = [save EXCEPT !.phase = "sent", !.name = s,
                                     !.written = written, !.failed = failures]
         /\ UNCHANGED <<fetch, draft, lastResult>>
    ELSE /\ save' = [phase |-> "settling"]
         /\ lastResult' = [written |-> written, failed |-> failures]
         /\ draft' = [s \in Form |-> None]
         /\ fetch' = Invalidated

\* One answer has been counted in: the next name goes out, or the save is over.
\* Then the edits that were written leave the draft and a refetch is asked for.
Proceed(written, failures) ==
    LET left == DOMAIN save.edits \ (written \union failures) IN
    IF left # {}
    THEN /\ \E s \in left :
                save' = [save EXCEPT !.phase = "sent", !.name = s,
                                     !.written = written, !.failed = failures]
         /\ UNCHANGED <<fetch, draft, lastResult>>
    ELSE /\ save' = [phase |-> "settling"]
         /\ lastResult' = [written |-> written, failed |-> failures]
         /\ draft' = [s \in Form |-> IF s \in written THEN None ELSE draft[s]]
         /\ fetch' = Invalidated

EditWritten ==
    /\ save.phase = "taken"
    /\ Proceed(save.written \union {save.name}, save.failed)
    /\ UNCHANGED <<serverVars, data, failed, write, rejected, behind, turns, problems>>

\* Refused, or taken and the answer lost.
EditFailed ==
    /\ \/ save.phase = "refused" /\ UNCHANGED turns
       \/ save.phase = "taken" /\ Turn
    /\ Proceed(save.written, save.failed \union {save.name})
    /\ UNCHANGED <<serverVars, data, failed, write, rejected, behind, problems>>

\* A step of the rows or the query that ends the fetch in flight ends the save
\* that was waiting for it.
FetchEnds ==
    \/ FetchSucceeds \/ FetchFails \/ Refresh
    \/ \E w \in Writer : WriteSucceeds(w) \/ WriteFails(w)
    \/ \E w \in Writer, s \in Row, v \in Valid \union {None} : BeginWrite(w, s, v)

FetchGoesOn ==
    \/ Refetch \/ ServerReads \/ OutsideChange
    \/ \E s \in Row : Reject(s)
    \/ \E w \in Writer : ServerTakes(w) \/ ServerRefuses(w)

\* Mutant of PageStep: a save whose refetch is cancelled or replaced goes on waiting for it.
PageStepUnreleased ==
    \/ /\ FetchEnds
       /\ save' = IF save.phase = "settling" /\ (FetchSucceeds \/ FetchFails)
                  THEN [phase |-> "idle"] ELSE save
       /\ UNCHANGED <<draft, problems, lastResult>>
    \/ FetchGoesOn /\ UNCHANGED draftVars

PageStep ==
    \/ /\ FetchEnds
       /\ save' = IF save.phase = "settling" THEN [phase |-> "idle"] ELSE save
       /\ UNCHANGED <<draft, problems, lastResult>>
    \/ FetchGoesOn /\ UNCHANGED draftVars

SaveStep == ServerTakesEdit \/ ServerRefusesEdit \/ EditWritten \/ EditFailed

UserStep ==
    \/ \E s \in Form, v \in Value : SetValue(s, v)
    \/ \E s \in Form : RevertOne(s)
    \/ RevertAll \/ SaveBlocked \/ BeginSave

DraftNext == PageStep \/ SaveStep \/ UserStep

DraftSpec == DraftInit /\ [][DraftNext]_allVars

\* A request of a fetch or of a save is answered in the end, if only by its timeout.
FetchAnswers ==
    \/ ServerReads /\ UNCHANGED draftVars
    \/ FetchSucceeds /\ PageStep
SaveAnswers == ServerTakesEdit \/ EditWritten \/ EditFailed

FairDraftSpec == DraftSpec /\ WF_allVars(FetchAnswers) /\ WF_allVars(SaveAnswers)

-----------------------------------------------------------------------------
Quiet == /\ \A w \in Writer : write[w].phase = "idle"
         /\ save.phase \notin Writing

TypeOK ==
    /\ stored \in [Setting -> Valid] /\ policy \in [Setting -> Policy \union {None}]
    /\ data \in Resolution \union {NoResolution} /\ failed \in BOOLEAN
    /\ fetch \in FetchRecord
    /\ write \in [Writer -> WriteRecord]
    /\ rejected \subseteq Row /\ behind \in BOOLEAN /\ turns \in 0..MaxTurns
    /\ draft \in [Form -> Value \union {None}] /\ problems \subseteq Form
    /\ save \in SaveRecord
    /\ lastResult \in [written : SUBSET Form, failed : SUBSET Form]

\* Whatever crossed, once no write is out the page shows what the server holds,
\* as soon as the last fetch succeeded, unless another client wrote since.
QuietBoardIsTrue ==
    Quiet /\ Loaded /\ fetch.phase = "idle" /\ ~failed /\ ~behind => data = Resolve

\* An edit the rules reject is flagged as long as it is in the draft, and no
\* save ever carries one, although edits go on while a save is under way.
BadEditsAreFlagged ==
    \A s \in Form : draft[s] \in Value \ Valid => s \in problems

\* A save under way, and each write of a row, began from a loaded resolution; a
\* save counts a name once; and what a fetch brings back when nothing else is
\* going on is still what the server holds.
SaveIsSound ==
    /\ Saving => Loaded
    /\ save.phase = "settling" => fetch.phase # "idle"
    /\ save.phase \in Writing =>
           /\ save.name \in DOMAIN save.edits \ (save.written \union save.failed)
           /\ save.written \intersect save.failed = {}
           /\ save.written \union save.failed \subseteq DOMAIN save.edits
    /\ \A w \in Writer : write[w].phase # "idle" => Loaded
    /\ Quiet /\ fetch.phase = "read" /\ ~fetch.missed => fetch.answer = Resolve

IInv == TypeOK /\ QuietBoardIsTrue /\ BadEditsAreFlagged /\ SaveIsSound

\* An edit leaves the draft because the user reverts it, or because a save that
\* carried it got the server's word that it was written; and a save that ends
\* has put every name it carried in one of its two lists, whatever the user
\* edited meanwhile (README: "keeps the edits that failed").
EditsOutliveFailures ==
    [][/\ \A s \in Form :
              draft[s] # None /\ draft'[s] = None =>
                  \/ RevertAll \/ RevertOne(s)
                  \/ s \in DOMAIN save.edits /\ s \in lastResult'.written
       /\ save.phase \in Writing /\ save'.phase \notin Writing =>
              /\ lastResult'.written \union lastResult'.failed = DOMAIN save.edits
              /\ lastResult'.written \intersect lastResult'.failed = {}
              /\ save.name \in lastResult'.written => save.phase = "taken"]_allVars

\* A save ends: its buttons are released even when the refetch it waits for is
\* cancelled or replaced by a row's write.
SavesEnd == Saving ~> ~Saving
=============================================================================
