------------------------------ MODULE SettingText ------------------------------
(***************************************************************************)
(* A text-shaped input of one setting (hooks use-setting-text.ts and the   *)
(* number, text, date-time and JSON inputs): the text is held locally and  *)
(* handed over on blur, or on every change in a form.                      *)
(*                                                                         *)
(* The committed value comes from outside: from the row's resolution,      *)
(* where what is handed over is validated, shown at once and may be rolled *)
(* back; or from the form's draft, which takes whatever it is handed and   *)
(* flags what the rules reject.  Either may change at any time, by a       *)
(* refetch, another control, a rollback or a revert.                       *)
(***************************************************************************)
EXTENDS ValueRules

CONSTANTS
    Setting,        \* the settings an input may be for
    ValueOf,        \* the values each is offered, some of which its rules reject
    TextOf          \* what may be typed into each one's input

\* A value the input can spell and read back, and a text that was spelled so or
\* may be typed: String and Number, and JSON.stringify and JSON.parse, agree on what
\* either writes.
Spells(s, v) ==
    /\ s.type = "NUMBER" /\ v.t = "number" =>
           v.text # <<>> /\ v.text \in DOMAIN NumberOf /\ NumberOf[v.text] = v
    /\ s.type = "DATETIME" /\ isInstant(v) => v.at \in Int
    /\ s.type = "JSON" /\ v.t # "null" =>
           v.text # <<>> /\ v.text \in DOMAIN JsonOf /\ JsonOf[v.text] = v
Legible(s, t) ==
    /\ s.type = "NUMBER" => t = <<>> \/ t \in DOMAIN NumberOf
    /\ s.type = "DATETIME" /\ t # <<>> /\ t[1] = "reading" => t[2] \in Int
    /\ s.type = "JSON" => t = <<>> \/ t \in DOMAIN JsonOf

ASSUME TextAssumption ==
    \A s \in Setting :
        /\ \A v \in ValueOf[s] : \A w \in {v} \union Validate(s, v) : Spells(s, w)
        /\ \A t \in TextOf[s] : Legible(s, t)
        /\ s.type = "NUMBER" =>
               /\ s.min # None => Spells(s, Number(s.min))
               /\ Spells(s, Number(0))
        /\ s.type = "NUMBER" => \A t \in DOMAIN NumberOf :
               NumberOf[t] # None => NumberOf[t].t = "number" /\ Spells(s, NumberOf[t])
        /\ s.type = "JSON" => \A t \in DOMAIN JsonOf :
               JsonOf[t] # None => Spells(s, JsonOf[t])

\* What ValidateConfig makes of a SELECT (config.go 96-140): its options pass its own
\* rules and are kept as stored, no two of them the same.  And what a spelling decides:
\* values of one type that are spelled alike are the same value, and so are equal numbers.
ScalarTypes == {"BOOLEAN", "NUMBER", "STRING", "DATETIME"}
Scalars(s) == Options(s) \union UNION {Chosen(s, v) : v \in ValueOf[s]}
ASSUME RulesAssumption ==
    \A s \in Setting :
        /\ s.type \in ScalarTypes \union {"SELECT", "JSON"} /\ s.multiple \in BOOLEAN
        /\ \A c \in Scalars(s) :
               /\ c.t = "number" => c.whole \in BOOLEAN /\ c.plain \in BOOLEAN /\ (c.plain => c.whole)
               /\ c.t = "string" => \A n \in c.num : n.t = "number"
        /\ s.type = "SELECT" =>
               /\ s.of \in ScalarTypes
               /\ s.options \in Seq(Options(s))
               /\ \A o \in Options(s) : o \in validateScalar(s.of, s, o)
               /\ \A i, j \in DOMAIN s.options :
                      i # j => ~valuesEqual(s.of, s.options[i], s.options[j])
               /\ \A v \in ValueOf[s] : v.t = "array" => v.items \in Seq(Elements(v.items))
               /\ \A a, b \in Scalars(s) : a.t = b.t /\ a.t \in {"boolean", "number", "string"} =>
                      /\ a.text = b.text => a = b
                      /\ a.t = "number" /\ a.n = b.n => a.text = b.text

VARIABLES
    setting,        \* what the input is for
    commitOn,       \* "blur" in a row, "change" in a form
    value,          \* the committed value
    text, problem,  \* the local text, and whether it could not be read
    editing,        \* the input has the focus
    rejected,       \* the row or the form says that the rules reject what it was handed
    handed,         \* what the step handed over, or None
    own,            \* auxiliary: the text is the user's, not the committed value's
    moved,          \* auxiliary: the committed value's text changed under the focus
    cleared         \* auxiliary: the text is a null, which a form shows as the server's value

vars == <<setting, commitOn, value, text, problem, editing, rejected, handed, own, moved, cleared>>

Format(v) == FormatInput(setting, v)
Parse(t) == ParseInput(setting, t)

\* What the outside may come to show: what another control hands over, what the server
\* has stored, or nothing, which a form replaces by the type's empty value.
Committed(s, on) ==
    {v \in ValueOf[s] : validateValue(s, v)}
    \union (UNION {Validate(s, v) : v \in ValueOf[s]})
    \union {IF on = "change" THEN controlValue(s, Null) ELSE Null}

Init ==
    /\ setting \in Setting
    /\ commitOn \in {"blur", "change"}
    /\ value \in Committed(setting, commitOn)
    /\ text = Format(value)
    /\ problem = FALSE
    /\ editing = FALSE
    /\ rejected = FALSE
    /\ handed = None
    /\ own = FALSE
    /\ moved = FALSE
    /\ cleared = FALSE

\* Mutant of Follow: the text follows only what the input itself handed over.
FollowHanded(t, p, mine) ==
    IF Format(value') # Format(value) /\ ~editing' /\ handed' # None
    THEN /\ text' = Format(value') /\ problem' = FALSE
         /\ own' = FALSE /\ moved' = FALSE /\ cleared' = FALSE
    ELSE /\ text' = t /\ problem' = p /\ own' = mine
         /\ moved' = (moved \/ (Format(value') # Format(value) /\ handed' = None))
         /\ cleared' = IF handed' = None THEN cleared
                       ELSE commitOn = "change" /\ handed'.t = "null"

\* The effect on [formatted], with the text as the event left it: an input that
\* has no focus follows the committed value when its rendering changes.
Follow(t, p, mine) ==
    IF Format(value') # Format(value) /\ ~editing'
    THEN /\ text' = Format(value') /\ problem' = FALSE
         /\ own' = FALSE /\ moved' = FALSE /\ cleared' = FALSE
    ELSE /\ text' = t /\ problem' = p /\ own' = mine
         /\ moved' = (moved \/ (Format(value') # Format(value) /\ handed' = None))
         /\ cleared' = IF handed' = None THEN cleared
                       ELSE commitOn = "change" /\ handed'.t = "null"

\* onValueChange: useSetting's set, or the draft's setValue.  A draft of null is
\* shown as the server's value, which may have changed under the draft.
onValueChange(v) ==
    /\ handed' = v
    /\ rejected' = ~validateValue(setting, v)
    /\ value' \in IF commitOn = "change" /\ v.t = "null" THEN Committed(setting, commitOn)
                  ELSE IF commitOn = "change" \/ validateValue(setting, v) THEN {v} ELSE {value}

\* Mutant of commitText: the values are compared, not what they render as.
commitTextOfValue(t) ==
    LET parsed == Parse(t) IN
    IF parsed # None /\ parsed # value
    THEN onValueChange(parsed)
    ELSE handed' = None /\ UNCHANGED <<rejected, value>>

\* commitText: what cannot be read is a problem, what renders as the committed
\* value is not handed over.
commitText(t) ==
    LET parsed == Parse(t) IN
    IF parsed # None /\ Format(parsed) # Format(value)
    THEN onValueChange(parsed)
    ELSE handed' = None /\ UNCHANGED <<rejected, value>>

onFocus ==
    /\ ~editing /\ setting.type \in TextTypes
    /\ editing' = TRUE
    /\ handed' = None
    /\ UNCHANGED <<setting, commitOn, value, text, problem, rejected, own, moved, cleared>>

onChange(t) ==
    /\ editing
    /\ IF commitOn = "change" THEN commitText(t)
       ELSE handed' = None /\ UNCHANGED <<rejected, value>>
    /\ UNCHANGED editing
    /\ Follow(t, IF commitOn = "change" THEN Parse(t) = None ELSE problem, TRUE)
    /\ UNCHANGED <<setting, commitOn>>

\* Clicking away, or Enter.
onBlur ==
    /\ editing
    /\ editing' = FALSE
    /\ commitText(text)
    /\ Follow(text, Parse(text) = None, own)
    /\ UNCHANGED <<setting, commitOn>>

\* Escape, and revert().
revert ==
    /\ editing
    /\ text' = Format(value)
    /\ problem' = FALSE
    /\ own' = FALSE
    /\ moved' = FALSE
    /\ cleared' = FALSE
    /\ handed' = None
    /\ UNCHANGED <<setting, commitOn, value, editing, rejected>>

\* A switch is flipped, an option picked, ticked or unticked.
Choose(v) ==
    /\ onValueChange(v)
    /\ Follow(text, problem, own)
    /\ UNCHANGED <<setting, commitOn, editing>>

\* The committed value changes from outside.  The flag of a form goes with a
\* reverted edit; a row's stays until the next value is offered.
ValueMoves(v) ==
    /\ v # value
    /\ value' = v
    /\ handed' = None
    /\ UNCHANGED <<setting, commitOn, editing>>
    /\ rejected' \in IF commitOn = "change" THEN {rejected, FALSE} ELSE {rejected}
    /\ Follow(text, problem, own)

Next ==
    \/ onFocus \/ onBlur \/ revert
    \/ \E t \in TextOf[setting] : onChange(t)
    \/ \E v \in Choices(setting, value) : Choose(v)
    \/ \E v \in Committed(setting, commitOn) : ValueMoves(v)

Spec == Init /\ [][Next]_vars

-----------------------------------------------------------------------------
\* An input nobody is typing in shows the committed value, or something that
\* reads as it, or says that the text cannot be read or was rejected.  The JSON
\* that was emptied in a form is the exception (use-settings-draft.ts 262).
BlurredFieldIsHonest ==
    ~editing /\ setting.type \in TextTypes =>
                \/ problem \/ rejected \/ cleared \/ text = Format(value)
                \/ Parse(text) # None /\ Format(Parse(text)) = Format(value)

\* Tabbing through an input hands nothing over, in whatever zone and spelling
\* the value is rendered, unless the value moved under the focus.
UntouchedFieldWritesNothing ==
    [][onBlur /\ handed' # None => own \/ moved]_vars

\* The rules checked before a write are the server's but for the known differences
\* (values.ts 151); what passes both is stored as something that renders the same, so the
\* refetch after a write moves no text; and every choice of a multiple SELECT's checkboxes
\* is one the server stores as it is.
RulesAgree ==
    /\ \A v \in ValueOf[setting] :
           /\ validateValue(setting, v) # (Validate(setting, v) # {}) => KnownDifference(setting, v)
           /\ validateValue(setting, v) => \A w \in Validate(setting, v) : Format(w) = Format(v)
    /\ isMultiSelect(setting) =>
           \A v \in ValueOf[setting], o \in Options(setting), checked \in BOOLEAN :
               LET w == onCheckedChange(setting, v, o, checked) IN Validate(setting, w) = {w}
=============================================================================
