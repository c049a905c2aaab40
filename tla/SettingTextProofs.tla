--------------------------- MODULE SettingTextProofs ---------------------------
(***************************************************************************)
(* What holds of a text input for any settings, values, texts and zone:    *)
(* what is rendered reads back, blurred inputs are honest, tabbing through *)
(* an input writes nothing, and the rules an input checks are the server's *)
(* but for the known differences.  And of a list, for any resolution and   *)
(* options: it shows the settings it is asked for, where it is asked.      *)
(***************************************************************************)
EXTENDS SettingList, FiniteSetTheorems, SequenceTheorems, TLAPS

-----------------------------------------------------------------------------
(* The zone. *)

LEMMA ZoneTyped == /\ Change \in Int /\ Before \in Int /\ After \in Int
                   /\ Change % 60 = 0 /\ Before % 60 = 0 /\ After % 60 = 0
BY ZoneAssumption

\* datetime.ts 77-102: the two corrections are enough.  A reading that some clock
\* of the zone shows is turned into an instant at which it shows that reading.
THEOREM ReadingsReadBack ==
    ASSUME NEW reading \in Int, ~Skipped(reading)
    PROVE  /\ localToInstant(reading) \in Int
           /\ zoneParts(localToInstant(reading)) = reading
BY ZoneTyped, SMT DEF Skipped, localToInstant, zoneParts, zoneOffset

\* A full minute that a clock shows, it shows at a full minute's instant: what a
\* datetime-local input renders is never skipped.
LEMMA RenderedIsShown ==
    ASSUME NEW instant \in Int
    PROVE  /\ toDateTimeLocal(instant) \in Int
           /\ toDateTimeLocal(instant) % 60 = 0
           /\ ~Skipped(toDateTimeLocal(instant))
<1>1. PICK c \in Int, b \in Int, a \in Int : Change = 60 * c /\ Before = 60 * b /\ After = 60 * a
  <2>1. /\ Change = 60 * (Change \div 60)
        /\ Before = 60 * (Before \div 60)
        /\ After = 60 * (After \div 60)
        /\ {Change \div 60, Before \div 60, After \div 60} \subseteq Int
    BY ZoneTyped, SMT
  <2>. QED  BY <2>1
<1>2. PICK m \in Int, x \in 0..59 : instant = 60 * m + x
  <2>1. /\ instant = 60 * (instant \div 60) + (instant % 60)
        /\ instant \div 60 \in Int /\ instant % 60 \in 0..59
    BY SMT
  <2>. QED  BY <2>1
<1>3. instant < Change <=> m < c
  BY <1>1, <1>2, SMT
<1>4. CASE m < c
  <2>1. zoneParts(instant) = 60 * (m - b) + x
    BY <1>1, <1>2, <1>3, <1>4, SMT DEF zoneParts, zoneOffset
  <2>2. toDateTimeLocal(instant) = 60 * (m - b)
    BY <2>1, SMT DEF toDateTimeLocal
  <2>. QED  BY <1>1, <1>4, <2>2, SMT DEF Skipped
<1>5. CASE ~(m < c)
  <2>1. zoneParts(instant) = 60 * (m - a) + x
    BY <1>1, <1>2, <1>3, <1>5, SMT DEF zoneParts, zoneOffset
  <2>2. toDateTimeLocal(instant) = 60 * (m - a)
    BY <2>1, SMT DEF toDateTimeLocal
  <2>. QED  BY <1>1, <1>5, <2>2, SMT DEF Skipped
<1>. QED  BY <1>4, <1>5

\* setting-datetime-input.tsx 35-83: an instant rendered, read and rendered again
\* is rendered the same, whatever its zone does.
LEMMA InstantsReadBack ==
    ASSUME NEW instant \in Int
    PROVE  /\ localToInstant(toDateTimeLocal(instant)) \in Int
           /\ toDateTimeLocal(localToInstant(toDateTimeLocal(instant))) = toDateTimeLocal(instant)
<1>. DEFINE shown == toDateTimeLocal(instant)
<1>1. shown \in Int /\ shown % 60 = 0 /\ ~Skipped(shown)
  BY RenderedIsShown
<1>. HIDE DEF shown
<1>2. localToInstant(shown) \in Int /\ zoneParts(localToInstant(shown)) = shown
  BY <1>1, ReadingsReadBack
<1>3. toDateTimeLocal(localToInstant(shown)) = shown
  BY <1>1, <1>2, SMT DEF toDateTimeLocal
<1>. QED  BY <1>2, <1>3 DEF shown

-----------------------------------------------------------------------------
(* Texts and values. *)

\* Each control's rendering and reading is short: the provers see through them.
USE DEF FormatNumber, ParseNumber, FormatText, ParseText,
        FormatDateTime, ParseDateTime, FormatJson, ParseJson

LEMMA NoText == <<>> = <<>> /\ \A x, y : <<x, y>> # <<>>
OBVIOUS

\* What is rendered of a value the input can spell is a text it can read.
LEMMA RenderedIsLegible ==
    ASSUME NEW s \in Setting, NEW v, Spells(s, v)
    PROVE  Legible(s, FormatInput(s, v))
<1>1. CASE s.type = "NUMBER"
  BY <1>1 DEF Spells, Legible, FormatInput
<1>2. CASE s.type = "DATETIME"
  <2>1. CASE isInstant(v)
    <3>1. FormatInput(s, v) = <<"reading", toDateTimeLocal(v.at)>>
      BY <1>2, <2>1 DEF FormatInput
    <3>2. toDateTimeLocal(v.at) \in Int
      BY <1>2, <2>1, RenderedIsShown DEF Spells
    <3>. QED  BY <1>2, <3>1, <3>2 DEF Legible
  <2>2. CASE ~isInstant(v)
    BY <1>2, <2>2 DEF Legible, FormatInput
  <2>. QED  BY <2>1, <2>2
<1>3. CASE s.type = "JSON"
  BY <1>3 DEF Spells, Legible, FormatInput
<1>4. CASE s.type \notin {"NUMBER", "DATETIME", "JSON"}
  BY <1>4 DEF Legible
<1>. QED  BY <1>1, <1>2, <1>3, <1>4

\* What is read of a legible text is a value the input can spell.
LEMMA ReadIsSpelled ==
    ASSUME NEW s \in Setting, NEW t, Legible(s, t), ParseInput(s, t) # None
    PROVE  Spells(s, ParseInput(s, t))
<1>1. CASE s.type = "NUMBER"
  <2>1. t \in DOMAIN NumberOf /\ ParseInput(s, t) = NumberOf[t]
    BY <1>1 DEF Legible, ParseInput
  <2>. QED  BY <1>1, <2>1, TextAssumption
<1>2. CASE s.type = "DATETIME"
  <2>1. CASE t = <<>>
    BY <1>2, <2>1 DEF Spells, ParseInput, Text, isInstant
  <2>2. CASE t # <<>>
    <3>1. t[1] = "reading" /\ t[2] \in Int
      BY <1>2, <2>2 DEF Legible, ParseInput
    <3>2. ParseInput(s, t) = toInstant(localToInstant(t[2]))
      BY <1>2, <2>2, <3>1 DEF ParseInput
    <3>3. localToInstant(t[2]) \in Int
      BY <3>1, ZoneTyped DEF localToInstant, zoneOffset
    <3>4. ParseInput(s, t).at \in Int
      BY <3>2, <3>3 DEF toInstant, Instant, Text
    <3>. QED  BY <1>2, <3>4 DEF Spells
  <2>. QED  BY <2>1, <2>2
<1>3. CASE s.type = "JSON"
  <2>1. CASE t = <<>>
    BY <1>3, <2>1 DEF Spells, ParseInput, Null
  <2>2. CASE t # <<>>
    <3>1. t \in DOMAIN JsonOf /\ ParseInput(s, t) = JsonOf[t]
      BY <1>3, <2>2 DEF Legible, ParseInput
    <3>. QED  BY <1>3, <3>1, TextAssumption
  <2>. QED  BY <2>1, <2>2
<1>4. CASE s.type \notin {"NUMBER", "DATETIME", "JSON"}
  BY <1>4 DEF Spells
<1>. QED  BY <1>1, <1>2, <1>3, <1>4

\* use-setting-text.ts 78-90: in each of the text inputs, what is rendered of a value
\* reads as something that is rendered the same, or is not read at all.  That a number
\* and JSON read back is Spells; of texts and of date-times it is shown.
THEOREM RenderingReadsBack ==
    ASSUME NEW s \in Setting, NEW v, Spells(s, v),
           ParseInput(s, FormatInput(s, v)) # None
    PROVE  FormatInput(s, ParseInput(s, FormatInput(s, v))) = FormatInput(s, v)
<1>. DEFINE t == FormatInput(s, v)
<1>1. CASE s.type = "NUMBER"
  <2>1. v.t = "number"
    BY <1>1 DEF FormatInput, ParseInput
  <2>2. t = v.text /\ ParseInput(s, t) = v
    BY <1>1, <2>1 DEF Spells, FormatInput, ParseInput
  <2>. QED  BY <2>2
<1>2. CASE s.type = "STRING"
  <2>1. ParseInput(s, t) = Text(t)
    BY <1>2 DEF ParseInput
  <2>2. Text(t).t = "string" /\ Text(t).text = t
    BY DEF Text
  <2>. QED  BY <1>2, <2>1, <2>2 DEF FormatInput
<1>3. CASE s.type = "DATETIME"
  <2>1. CASE isInstant(v)
    <3>1. t = <<"reading", toDateTimeLocal(v.at)>> /\ v.at \in Int
      BY <1>3, <2>1 DEF FormatInput, Spells
    <3>2. ParseInput(s, t) = toInstant(localToInstant(toDateTimeLocal(v.at)))
      BY <1>3, <3>1 DEF ParseInput
    <3>3. /\ isInstant(ParseInput(s, t))
          /\ ParseInput(s, t).at = localToInstant(toDateTimeLocal(v.at))
      BY <3>2 DEF toInstant, Instant, Text, isInstant
    <3>. QED  BY <1>3, <3>1, <3>3, InstantsReadBack DEF FormatInput
  <2>2. CASE ~isInstant(v)
    <3>1. t = <<>> /\ ParseInput(s, t) = Text(<<>>)
      BY <1>3, <2>2 DEF FormatInput, ParseInput
    <3>2. ~isInstant(Text(<<>>))
      BY DEF Text, isInstant
    <3>. QED  BY <1>3, <3>1, <3>2 DEF FormatInput
  <2>. QED  BY <2>1, <2>2
<1>4. CASE s.type = "JSON"
  <2>1. CASE v.t = "null"
    BY <1>4, <2>1 DEF FormatInput, ParseInput, Null
  <2>2. CASE v.t # "null"
    <3>1. t = v.text /\ ParseInput(s, t) = v
      BY <1>4, <2>2 DEF Spells, FormatInput, ParseInput
    <3>. QED  BY <3>1
  <2>. QED  BY <2>1, <2>2
<1>5. CASE s.type \notin {"NUMBER", "STRING", "DATETIME", "JSON"}
  BY <1>5 DEF ParseInput
<1>. QED  BY <1>1, <1>2, <1>3, <1>4, <1>5

-----------------------------------------------------------------------------
(* The input. *)

\* The text and the value are the input's own, and text that is nobody's is the
\* committed value's.
UntouchedTextIsTheValue ==
    /\ setting \in Setting
    /\ Spells(setting, value)
    /\ Legible(setting, text)
    /\ own \/ moved \/ text = Format(value)

\* BlurredFieldIsHonest, where only a row keeps a refused text apart from its value.
HonestUnlessRefused ==
    /\ commitOn \in {"blur", "change"}
    /\ ~editing /\ setting.type \in TextTypes =>
           \/ problem
           \/ rejected /\ commitOn = "blur"
           \/ cleared
           \/ text = Format(value)
           \/ Parse(text) # None /\ Format(Parse(text)) = Format(value)

LEMMA CommittedIsSpelled ==
    ASSUME NEW s \in Setting, NEW on, NEW v \in Committed(s, on)
    PROVE  Spells(s, v)
<1>1. CASE v \in ValueOf[s] \/ \E u \in ValueOf[s] : v \in Validate(s, u)
  <2>1. PICK u \in ValueOf[s] : v \in {u} \union Validate(s, u)
    BY <1>1
  <2>. QED  BY <2>1, TextAssumption
<1>2. CASE v = Null
  BY <1>2 DEF Spells, Null, isInstant
<1>3. CASE v = controlValue(s, Null) /\ v # Null
  <2>1. Null.t = "null"
    BY DEF Null
  <2>2. v = emptyValue(s)
    BY <1>3, <2>1 DEF controlValue
  <2>3. CASE s.type = "NUMBER"
    BY <2>2, <2>3, TextAssumption DEF emptyValue
  <2>4. CASE s.type \in {"STRING", "DATETIME"}
    <3>1. v = Text(<<>>)
      BY <2>2, <2>4 DEF emptyValue
    <3>. QED  BY <2>4, <3>1 DEF Spells, isInstant, Text
  <2>5. CASE s.type = "JSON"
    BY <1>3, <2>2, <2>5 DEF emptyValue
  <2>6. CASE s.type \notin {"NUMBER", "STRING", "DATETIME", "JSON"}
    BY <2>6 DEF Spells
  <2>. QED  BY <2>3, <2>4, <2>5, <2>6
<1>4. v \in ValueOf[s] \/ (\E u \in ValueOf[s] : v \in Validate(s, u))
         \/ v = Null \/ v = controlValue(s, Null)
  BY DEF Committed
<1>. QED  BY <1>1, <1>2, <1>3, <1>4

\* What onValueChange leaves is the old value, the one it was given, or, when a
\* form is given null, what the server holds.
Held(v) ==
    \/ value' = v
    \/ value' = value /\ rejected' = TRUE /\ commitOn # "change"
    \/ value' \in Committed(setting, commitOn) /\ commitOn = "change" /\ v.t = "null"

LEMMA HandOver ==
    ASSUME NEW v, onValueChange(v)
    PROVE  handed' = v /\ Held(v)
<1>1. CASE commitOn = "change" /\ v.t = "null"
  BY <1>1 DEF onValueChange, Held
<1>2. CASE ~(commitOn = "change" /\ v.t = "null")
  BY <1>2 DEF onValueChange, Held
<1>. QED  BY <1>1, <1>2

\* What commitText leaves.
LEMMA CommitText ==
    ASSUME NEW t, commitText(t)
    PROVE  \/ handed' = None /\ value' = value /\ rejected' = rejected
              /\ (Parse(t) # None => Format(Parse(t)) = Format(value))
           \/ /\ handed' = Parse(t) /\ Parse(t) # None
              /\ Format(Parse(t)) # Format(value)
              /\ Held(Parse(t))
<1>1. CASE Parse(t) # None /\ Format(Parse(t)) # Format(value)
  BY <1>1, HandOver DEF commitText
<1>2. CASE ~(Parse(t) # None /\ Format(Parse(t)) # Format(value))
  BY <1>2 DEF commitText
<1>. QED  BY <1>1, <1>2

\* A value that is held can be spelled.
LEMMA HeldIsSpelled ==
    ASSUME setting \in Setting, Spells(setting, value),
           NEW v, Spells(setting, v), Held(v)
    PROVE  Spells(setting, value')
BY CommittedIsSpelled DEF Held

\* What is chosen from a switch or a select has no text.
LEMMA ChoicesHaveNoText ==
    ASSUME NEW s, NEW v \in Choices(s, value)
    PROVE  s.type \notin TextTypes
<1>1. CASE s.type \in TextTypes
  BY <1>1 DEF Choices, isMultiSelect, TextTypes
<1>. QED  BY <1>1

\* What the effect leaves, whichever event it follows.
LEMMA FollowText ==
    ASSUME NEW t, NEW p, NEW mine, Follow(t, p, mine)
    PROVE  \/ text' = Format(value') /\ problem' = FALSE
           \/ /\ Format(value') = Format(value) \/ editing'
              /\ text' = t /\ problem' = p /\ own' = mine
              /\ moved' = (moved \/ (Format(value') # Format(value) /\ handed' = None))
              /\ cleared' = IF handed' = None THEN cleared
                            ELSE commitOn = "change" /\ handed'.t = "null"
BY DEF Follow

LEMMA UntouchedInit == Init => UntouchedTextIsTheValue
<1>. SUFFICES ASSUME Init PROVE UntouchedTextIsTheValue
  OBVIOUS
<1>1. setting \in Setting /\ value \in Committed(setting, commitOn) /\ text = Format(value)
  BY DEF Init
<1>2. Spells(setting, value)
  BY <1>1, CommittedIsSpelled
<1>. QED  BY <1>1, <1>2, RenderedIsLegible DEF UntouchedTextIsTheValue, Format

LEMMA UntouchedNext == UntouchedTextIsTheValue /\ [Next]_vars => UntouchedTextIsTheValue'
<1>. SUFFICES ASSUME UntouchedTextIsTheValue, [Next]_vars PROVE UntouchedTextIsTheValue'
  OBVIOUS
<1>. USE DEF UntouchedTextIsTheValue
<1>1. CASE onFocus
  BY <1>1 DEF onFocus, Format
<1>2. CASE onBlur
  <2>1. setting' = setting /\ editing' = FALSE
    BY <1>2 DEF onBlur
  <2>2. Spells(setting, value')
    <3>1. value' = value \/ (Parse(text) # None /\ Held(Parse(text)))
      BY <1>2, CommitText DEF onBlur
    <3>. QED  BY <3>1, ReadIsSpelled, HeldIsSpelled DEF Parse
  <2>3. \/ text' = Format(value')
        \/ /\ Format(value') = Format(value)
           /\ text' = text /\ own' = own
           /\ moved' = (moved \/ (Format(value') # Format(value) /\ handed' = None))
    BY <1>2, <2>1, FollowText DEF onBlur
  <2>4. Legible(setting, text')
    BY <2>2, <2>3, RenderedIsLegible DEF Format
  <2>5. own' \/ moved' \/ text' = Format(value')
    BY <2>3
  <2>. QED  BY <2>1, <2>2, <2>4, <2>5 DEF Format
<1>3. CASE revert
  <2>1. setting' = setting /\ value' = value /\ text' = Format(value)
    BY <1>3 DEF revert
  <2>. QED  BY <2>1, RenderedIsLegible DEF Format
<1>4. ASSUME NEW t \in TextOf[setting], onChange(t)
      PROVE  UntouchedTextIsTheValue'
  <2>1. setting' = setting /\ editing' = editing /\ editing
    BY <1>4 DEF onChange
  <2>2. value' = value \/ (Parse(t) # None /\ Held(Parse(t)))
    BY <1>4, CommitText DEF onChange
  <2>3. Legible(setting, t)
    BY TextAssumption
  <2>4. Spells(setting, value')
    BY <2>2, <2>3, ReadIsSpelled, HeldIsSpelled DEF Parse
  <2>5. text' = t /\ own' = TRUE
    <3>1. Follow(t, IF commitOn = "change" THEN Parse(t) = None ELSE problem, TRUE)
      BY <1>4 DEF onChange
    <3>. QED  BY <2>1, <3>1 DEF Follow
  <2>. QED  BY <2>1, <2>3, <2>4, <2>5
<1>5. ASSUME NEW v \in Committed(setting, commitOn), ValueMoves(v)
      PROVE  UntouchedTextIsTheValue'
  <2>1. setting' = setting /\ value' = v /\ handed' = None
    BY <1>5 DEF ValueMoves
  <2>2. Spells(setting, value')
    BY <2>1, CommittedIsSpelled
  <2>3. \/ text' = Format(value')
        \/ /\ text' = text /\ own' = own
           /\ moved' = (moved \/ (Format(value') # Format(value) /\ handed' = None))
    BY <1>5, FollowText DEF ValueMoves
  <2>4. Legible(setting, text')
    BY <2>2, <2>3, RenderedIsLegible DEF Format
  <2>5. own' \/ moved' \/ text' = Format(value')
    BY <2>1, <2>3
  <2>. QED  BY <2>1, <2>2, <2>4, <2>5 DEF Format
<1>6. ASSUME NEW v \in Choices(setting, value), Choose(v)
      PROVE  UntouchedTextIsTheValue'
  <2>1. setting' = setting /\ setting.type \notin TextTypes
    BY <1>6, ChoicesHaveNoText DEF Choose
  <2>2. \A x : Format(x) = <<>> /\ Spells(setting, x)
    BY <2>1 DEF Format, FormatInput, Spells, TextTypes
  <2>3. text' = text /\ own' = own /\ (moved => moved')
    BY <1>6, <2>1, <2>2 DEF Choose, Follow, Format
  <2>. QED  BY <2>1, <2>2, <2>3 DEF Format
<1>7. CASE UNCHANGED vars
  BY <1>7 DEF vars, Format
<1>. QED  BY <1>1, <1>2, <1>3, <1>4, <1>5, <1>6, <1>7 DEF Next

\* use-setting-text.ts 78-90, 106-109: leaving an input nobody typed in hands
\* nothing over, for any values, spellings and zone.
THEOREM TabbingThroughIsHarmless == Spec => UntouchedFieldWritesNothing
<1>1. UntouchedTextIsTheValue /\ [Next]_vars => [onBlur /\ handed' # None => own \/ moved]_vars
  <2>. SUFFICES ASSUME UntouchedTextIsTheValue, onBlur, handed' # None, ~own, ~moved
                PROVE  FALSE
    OBVIOUS
  <2>1. text = Format(value) /\ setting \in Setting /\ Spells(setting, value)
    BY DEF UntouchedTextIsTheValue
  <2>2. Parse(text) # None /\ Format(Parse(text)) # Format(value)
    BY CommitText DEF onBlur
  <2>. QED  BY <2>1, <2>2, RenderingReadsBack DEF Parse, Format
<1>. QED  BY <1>1, UntouchedInit, UntouchedNext, PTL DEF Spec, UntouchedFieldWritesNothing

LEMMA HonestInit == Init => HonestUnlessRefused
BY DEF Init, HonestUnlessRefused

LEMMA HonestNext == HonestUnlessRefused /\ [Next]_vars => HonestUnlessRefused'
<1>. SUFFICES ASSUME HonestUnlessRefused, [Next]_vars PROVE HonestUnlessRefused'
  OBVIOUS
<1>0. commitOn' \in {"blur", "change"} /\ setting' = setting /\ commitOn' = commitOn
  BY DEF HonestUnlessRefused, Next, vars, onFocus, onBlur, revert, onChange, ValueMoves, Choose
<1>1. CASE editing'
  BY <1>0, <1>1 DEF HonestUnlessRefused
<1>2. CASE onBlur
  <2>1. \/ text' = Format(value')
        \/ /\ Format(value') = Format(value)
           /\ text' = text /\ problem' = (Parse(text) = None)
           /\ cleared' = IF handed' = None THEN cleared
                         ELSE commitOn = "change" /\ handed'.t = "null"
    BY <1>2, FollowText DEF onBlur
  <2>2. CASE Parse(text) # None /\ Format(Parse(text)) # Format(value)
    <3>1. /\ handed' = Parse(text)
          /\ \/ value' = Parse(text)
             \/ rejected' = TRUE /\ commitOn # "change"
             \/ commitOn = "change" /\ Parse(text).t = "null"
      BY <1>2, <2>2, CommitText DEF onBlur, Held
    <3>. QED  BY <1>0, <2>1, <2>2, <3>1 DEF HonestUnlessRefused, Format
  <2>3. CASE Parse(text) # None /\ Format(Parse(text)) = Format(value)
    BY <1>0, <2>1, <2>3 DEF HonestUnlessRefused, Format, Parse
  <2>4. CASE Parse(text) = None
    BY <1>0, <2>1, <2>4 DEF HonestUnlessRefused, Format
  <2>. QED  BY <2>2, <2>3, <2>4
<1>3. ASSUME NEW v \in Committed(setting, commitOn), ValueMoves(v), ~editing'
      PROVE  HonestUnlessRefused'
  <2>1. ~editing /\ (commitOn = "blur" => rejected' = rejected)
    BY <1>3 DEF ValueMoves
  <2>2. \/ text' = Format(value')
        \/ /\ Format(value') = Format(value)
           /\ text' = text /\ problem' = problem /\ cleared' = cleared
    BY <1>3, FollowText DEF ValueMoves
  <2>. QED  BY <1>0, <2>1, <2>2 DEF HonestUnlessRefused, Format, Parse
<1>4. CASE UNCHANGED vars
  BY <1>4 DEF vars, HonestUnlessRefused, Format, Parse
<1>5. (onFocus \/ revert) => editing'
  BY DEF onFocus, revert
<1>6. \A t \in TextOf[setting] : onChange(t) => editing'
  BY DEF onChange
<1>7. ASSUME NEW v \in Choices(setting, value), Choose(v)
      PROVE  HonestUnlessRefused'
  BY <1>0, <1>7, ChoicesHaveNoText DEF HonestUnlessRefused
<1>. QED  BY <1>1, <1>2, <1>3, <1>4, <1>5, <1>6, <1>7 DEF Next

\* use-setting-text.ts 56-90: an input nobody is typing in shows its value, reads
\* as it, or says why it does not.
THEOREM BlurredFieldsAreHonest == Spec => []BlurredFieldIsHonest
<1>1. HonestUnlessRefused => BlurredFieldIsHonest
  BY DEF HonestUnlessRefused, BlurredFieldIsHonest
<1>. QED  BY <1>1, HonestInit, HonestNext, PTL DEF Spec

-----------------------------------------------------------------------------
(* Sorting and filtering. *)

\* An order in which no two places are level, on the places given.
LinearOn(places, before) ==
    /\ \A k \in places : <<k, k>> \notin before
    /\ \A i, j \in places : i = j \/ <<i, j>> \in before \/ <<j, i>> \in before
    /\ \A i, j, k \in places : <<i, j>> \in before /\ <<j, k>> \in before => <<i, k>> \in before

\* q runs through the places, in the order.
RunsThrough(q, places, before) ==
    /\ q \in [1..Cardinality(places) -> places]
    /\ \A k \in places : \E n \in 1..Cardinality(places) : q[n] = k
    /\ \A m, n \in 1..Cardinality(places) : m < n => <<q[m], q[n]>> \in before

\* A finite set that is ordered so has a last place.
LEMMA LastPlace ==
    ASSUME NEW places, NEW before, IsFiniteSet(places), places # {}, LinearOn(places, before)
    PROVE  \E k \in places : \A j \in places \ {k} : <<j, k>> \in before
<1> DEFINE After_(k) == {j \in places : <<k, j>> \in before}
           F == {After_(k) : k \in places}
<1>1. F # {} /\ F \subseteq FiniteSubsetsOf(places)
  <2>1. \A T \in SUBSET places : IsFiniteSet(T)
    BY FS_Subset
  <2> QED
    BY <2>1 DEF FiniteSubsetsOf
<1>2. IsWellFoundedOn(StrictSubsetOrdering(places), FiniteSubsetsOf(places))
  BY FS_StrictSubsetOrderingWellFounded
<1>3. PICK U \in F : \A W \in F : <<W, U>> \notin StrictSubsetOrdering(places)
  <2> HIDE DEF F
  <2> QED
    BY <1>1, <1>2, WFMin
<1>4. PICK k \in places : U = After_(k)
  OBVIOUS
<1>5. ASSUME NEW j \in places \ {k}, <<j, k>> \notin before PROVE FALSE
  <2>1. <<k, j>> \in before
    BY <1>5 DEF LinearOn
  <2>2. After_(j) \subseteq After_(k) /\ j \in After_(k) /\ j \notin After_(j)
    BY <2>1 DEF LinearOn
  <2>3. <<After_(j), U>> \in StrictSubsetOrdering(places)
    BY <1>4, <2>2 DEF StrictSubsetOrdering
  <2> QED
    BY <1>3, <2>3
<1> QED
  BY <1>5

LEMMA OneMorePlace ==
    ASSUME NEW places, NEW before, IsFiniteSet(places), LinearOn(places, before),
           NEW k \in places, \A j \in places \ {k} : <<j, k>> \in before,
           NEW q, RunsThrough(q, places \ {k}, before)
    PROVE  \E r : RunsThrough(r, places, before)
<1> DEFINE N == Cardinality(places)
           r == [n \in 1..N |-> IF n = N THEN k ELSE q[n]]
<1>1. N \in Nat /\ N > 0 /\ Cardinality(places \ {k}) = N - 1
  BY FS_CardinalityType, FS_RemoveElement, FS_EmptySet
<1>2. /\ q \in [1..(N - 1) -> places \ {k}]
      /\ \A j \in places \ {k} : \E n \in 1..(N - 1) : q[n] = j
      /\ \A m, n \in 1..(N - 1) : m < n => <<q[m], q[n]>> \in before
  BY <1>1 DEF RunsThrough
<1> HIDE DEF N
<1>3. r[N] = k /\ \A n \in 1..(N - 1) : r[n] = q[n] /\ n \in 1..N
  BY <1>1
<1>4. r \in [1..N -> places]
  BY <1>1, <1>2
<1>5. \A j \in places : \E n \in 1..N : r[n] = j
  <2> TAKE j \in places
  <2>1. CASE j = k
    BY <1>1, <1>3, <2>1
  <2>2. CASE j # k
    BY <1>2, <1>3, <2>2
  <2> QED
    BY <2>1, <2>2
<1>6. \A m, n \in 1..N : m < n => <<r[m], r[n]>> \in before
  <2> TAKE m \in 1..N, n \in 1..N
  <2> HAVE m < n
  <2>1. m \in 1..(N - 1) /\ r[m] = q[m] /\ q[m] \in places \ {k}
    BY <1>1, <1>2, <1>3
  <2>2. CASE n = N
    BY <1>3, <2>1, <2>2
  <2>3. CASE n # N
    <3>1. n \in 1..(N - 1)
      BY <1>1, <2>3
    <3> QED
      BY <1>2, <1>3, <2>1, <3>1
  <2> QED
    BY <2>2, <2>3
<1> HIDE DEF r
<1>7. RunsThrough(r, places, before)
  BY <1>4, <1>5, <1>6 DEF RunsThrough, N
<1> QED
  BY <1>7

\* Finitely many ordered places can be run through, one after the other.
LEMMA PlacesRunThrough ==
    ASSUME NEW places, NEW before, IsFiniteSet(places), LinearOn(places, before)
    PROVE  \E q : RunsThrough(q, places, before)
<1> DEFINE Stuck == {K \in FiniteSubsetsOf(places) : ~\E q : RunsThrough(q, K, before)}
<1>0. SUFFICES ASSUME Stuck # {} PROVE FALSE
  BY DEF FiniteSubsetsOf
<1>1. PICK K \in Stuck : \A L \in Stuck : <<L, K>> \notin StrictSubsetOrdering(places)
  <2>1. IsWellFoundedOn(StrictSubsetOrdering(places), FiniteSubsetsOf(places))
    BY FS_StrictSubsetOrderingWellFounded
  <2>2. Stuck \subseteq FiniteSubsetsOf(places)
    OBVIOUS
  <2> HIDE DEF Stuck
  <2> QED
    BY <1>0, <2>1, <2>2, WFMin
<1>2. K \subseteq places /\ IsFiniteSet(K) /\ LinearOn(K, before)
  BY DEF FiniteSubsetsOf, LinearOn
<1>3. K # {}
  <2>1. SUFFICES ASSUME K = {} PROVE FALSE
    OBVIOUS
  <2>2. RunsThrough([n \in {} |-> n], K, before)
    <3>1. Cardinality(K) = 0 /\ 1..0 = {}
      BY <2>1, FS_EmptySet
    <3> QED
      BY <2>1, <3>1 DEF RunsThrough
  <2> QED
    BY <2>2
<1>4. PICK k \in K : \A j \in K \ {k} : <<j, k>> \in before
  BY <1>2, <1>3, LastPlace
<1>5. K \ {k} \in FiniteSubsetsOf(places) /\ <<K \ {k}, K>> \in StrictSubsetOrdering(places)
  BY <1>2, FS_RemoveElement DEF FiniteSubsetsOf, StrictSubsetOrdering
<1>6. PICK q : RunsThrough(q, K \ {k}, before)
  BY <1>1, <1>5
<1> QED
  BY <1>2, <1>4, <1>6, OneMorePlace

\* So InOrder runs through them, and through each once.
LEMMA InOrderRuns ==
    ASSUME NEW places, NEW before, IsFiniteSet(places), LinearOn(places, before)
    PROVE  /\ RunsThrough(InOrder(places, before), places, before)
           /\ \A m, n \in 1..Cardinality(places) :
                  InOrder(places, before)[m] = InOrder(places, before)[n] => m = n
<1> DEFINE N == Cardinality(places)
           q == InOrder(places, before)
<1>1. RunsThrough(q, places, before)
  <2>1. PICK r : RunsThrough(r, places, before)
    BY PlacesRunThrough
  <2>2. /\ r \in [1..N -> places] /\ \A k \in places : \E n \in DOMAIN r : r[n] = k
        /\ \A m, n \in DOMAIN r : m < n => <<r[m], r[n]>> \in before
    BY <2>1 DEF RunsThrough
  <2>3. /\ q \in [1..N -> places] /\ \A k \in places : \E n \in DOMAIN q : q[n] = k
        /\ \A m, n \in DOMAIN q : m < n => <<q[m], q[n]>> \in before
    <3> HIDE DEF N
    <3>1. q = CHOOSE p \in [1..N -> places] :
                  /\ \A k \in places : \E n \in DOMAIN p : p[n] = k
                  /\ \A m, n \in DOMAIN p : m < n => <<p[m], p[n]>> \in before
      BY DEF InOrder, N
    <3> QED
      BY <2>2, <3>1
  <2> QED
    BY <2>3 DEF RunsThrough
<1>2. ASSUME NEW m \in 1..N, NEW n \in 1..N, m < n, q[m] = q[n] PROVE FALSE
  <2>1. <<q[m], q[n]>> \in before /\ q[n] \in places
    BY <1>1, <1>2 DEF RunsThrough
  <2> QED
    BY <1>2, <2>1 DEF LinearOn
<1>3. N \in Nat
  BY FS_CardinalityType
<1>4. ASSUME NEW m \in 1..N, NEW n \in 1..N, q[m] = q[n] PROVE m = n
  <2>1. m < n \/ n < m \/ m = n
    BY <1>3
  <2> QED
    BY <1>2, <1>4, <2>1
<1> QED
  BY <1>1, <1>4

\* The places of a list are ordered by which comes first.
Ascending(places) == {p \in places \X places : p[1] < p[2]}
LEMMA AscendingIsLinear ==
    ASSUME NEW places \in SUBSET Nat PROVE LinearOn(places, Ascending(places))
BY DEF LinearOn, Ascending

\* q says which place each element that is kept comes from, in their order, each once.
KeepsInOrder(q, list, places) ==
    /\ Cardinality(places) \in Nat
    /\ q \in [1..Cardinality(places) -> places]
    /\ \A k \in places : \E n \in 1..Cardinality(places) : q[n] = k
    /\ \A m, n \in 1..Cardinality(places) : m < n => q[m] < q[n]
    /\ \A m, n \in 1..Cardinality(places) : q[m] = q[n] => m = n
    /\ Filtered(list, places) = [n \in 1..Cardinality(places) |-> list[q[n]]]

LEMMA FilterKeeps ==
    ASSUME NEW T, NEW list \in Seq(T), NEW places \in SUBSET DOMAIN list
    PROVE  \E q : KeepsInOrder(q, list, places)
<1> DEFINE N == Cardinality(places)
           q == InOrder(places, Ascending(places))
<1>1. DOMAIN list = 1..Len(list) /\ Len(list) \in Nat
  BY LenProperties
<1>2. IsFiniteSet(places) /\ places \in SUBSET Nat
  <2>1. IsFiniteSet(1..Len(list))
    BY <1>1, FS_Interval
  <2> QED
    BY <1>1, <2>1, FS_Subset
<1>3. N \in Nat /\ RunsThrough(q, places, Ascending(places))
      /\ \A m, n \in 1..N : q[m] = q[n] => m = n
  BY <1>2, AscendingIsLinear, InOrderRuns, FS_CardinalityType
<1>4. Filtered(list, places) = [n \in 1..N |-> list[q[n]]]
  BY DEF Filtered, Sorted, Ascending
<1>5. /\ q \in [1..N -> places]
      /\ \A k \in places : \E n \in 1..N : q[n] = k
      /\ \A m, n \in 1..N : m < n => q[m] < q[n]
  BY <1>3 DEF RunsThrough, Ascending
<1>6. KeepsInOrder(q, list, places)
  BY <1>3, <1>4, <1>5 DEF KeepsInOrder
<1> QED
  BY <1>6

LEMMA FilterTakes ==
    ASSUME NEW T, NEW list \in Seq(T), NEW places \in SUBSET DOMAIN list
    PROVE  Filtered(list, places) \in Seq(T) /\ Takes(Filtered(list, places), list, places)
<1> DEFINE N == Cardinality(places)
<1>1. PICK q : KeepsInOrder(q, list, places)
  BY FilterKeeps
<1>2. /\ N \in Nat /\ q \in [1..N -> places]
      /\ Filtered(list, places) = [n \in 1..N |-> list[q[n]]]
      /\ \A k \in places : \E n \in 1..N : q[n] = k
      /\ \A m, n \in 1..N : m < n => q[m] < q[n]
  BY <1>1 DEF KeepsInOrder
<1> HIDE DEF N
<1>3. \A n \in 1..N : list[q[n]] \in T
  BY <1>2, ElementOfSeq, LenProperties
<1>4. Filtered(list, places) \in Seq(T)
  BY <1>2, <1>3, IsASeq
<1>5. Takes([n \in 1..N |-> list[q[n]]], list, places)
  BY <1>2 DEF Takes
<1> QED
  BY <1>2, <1>4, <1>5

-----------------------------------------------------------------------------
(* The rules checked before a write, and the server's. *)

\* validate.go 37-118: what is stored of a value, type by type.
LEMMA WhatIsDecoded ==
    ASSUME NEW v
    PROVE  /\ decoded("BOOLEAN", v) = IF v.t = "boolean" THEN {v}
                                      ELSE IF v.t = "null" THEN {Boolean(FALSE)} ELSE {}
           /\ decoded("NUMBER", v) = IF v.t = "number" THEN {v}
                                     ELSE IF v.t = "string" THEN v.num ELSE {}
           /\ decoded("STRING", v) = IF v.t = "string" THEN {v}
                                     ELSE IF v.t = "null" THEN {Text(<<>>)} ELSE {}
           /\ decoded("DATETIME", v) = IF isDateTime(v) THEN {Stored(v.at)} ELSE {}
<1>1. decoded("BOOLEAN", v) = IF v.t = "boolean" THEN {v}
                              ELSE IF v.t = "null" THEN {Boolean(FALSE)} ELSE {}
  BY DEF decoded
<1>2. decoded("NUMBER", v) = IF v.t = "number" THEN {v} ELSE IF v.t = "string" THEN v.num ELSE {}
  BY DEF decoded
<1>3. decoded("STRING", v) = IF v.t = "string" THEN {v}
                             ELSE IF v.t = "null" THEN {Text(<<>>)} ELSE {}
  BY DEF decoded
<1>4. decoded("DATETIME", v) = IF isDateTime(v) THEN {Stored(v.at)} ELSE {}
  BY DEF decoded
<1> QED
  BY <1>1, <1>2, <1>3, <1>4

LEMMA StoredIsAnInstant ==
    ASSUME NEW i
    PROVE  /\ Stored(i).t = "string" /\ Stored(i).text = <<"utc", i>> /\ Stored(i).at = i
           /\ Stored(i).shape = "rfc3339" /\ isInstant(Stored(i)) /\ isDateTime(Stored(i))
BY DEF Stored, Instant, Text, isInstant, isDateTime

\* validate.go 16-34: null is refused at the top, and a scalar goes by its type.
LEMMA WhatIsValidated ==
    ASSUME NEW s, NEW v, s.type \in ScalarTypes
    PROVE  Validate(s, v) = IF v.t = "null" THEN {} ELSE validateScalar(s.type, s, v)
BY DEF Validate, ScalarTypes

\* values.ts 154-194 and validateScalar (validate.go 37-118): about a value that is no
\* choice, the two differ in what they make of strings, of whole numbers and of quotes.
LEMMA ScalarRulesAgree ==
    ASSUME NEW s \in Setting, NEW v \in ValueOf[s], s.type # "SELECT",
           validateValue(s, v) # (Validate(s, v) # {})
    PROVE  KnownDifference(s, v)
<1>0. validateValue(s, v) \in BOOLEAN
  BY DEF validateValue
<1>1. CASE s.type = "JSON"
  BY <1>0, <1>1 DEF validateValue, Validate
<1>2. SUFFICES ASSUME s.type \in ScalarTypes PROVE KnownScalarDifference(s, v)
  BY <1>1, RulesAssumption DEF ScalarTypes, KnownDifference
<1>3. Validate(s, v) # {} <=> v.t # "null" /\ validateScalar(s.type, s, v) # {}
  BY <1>2, WhatIsValidated
<1>4. CASE s.type = "NUMBER"
  <2>1. validateValue(s, v) <=> /\ v.t = "number" /\ (s.integer => v.whole)
                                /\ InRange(v.n, s.min, s.max)
    BY <1>4 DEF validateValue
  <2>2. validateScalar(s.type, s, v) =
            {c \in decoded("NUMBER", v) : (s.integer => c.plain) /\ InRange(c.n, s.min, s.max)}
    BY <1>4 DEF validateScalar
  <2>3. CASE v.t = "number"
    <3>1. validateScalar(s.type, s, v) # {} <=> (s.integer => v.plain) /\ InRange(v.n, s.min, s.max)
      BY <2>2, <2>3, WhatIsDecoded
    <3>2. v.whole \in BOOLEAN /\ v.plain \in BOOLEAN /\ (v.plain => v.whole)
      <4>1. v \in Scalars(s)
        BY <1>4 DEF Scalars, Chosen, isMultiSelect
      <4> QED
        BY <2>3, <4>1, RulesAssumption
    <3> QED
      BY <1>0, <1>3, <1>4, <2>1, <2>3, <3>1, <3>2 DEF KnownScalarDifference
  <2>4. CASE v.t # "number"
    <3>1. v.t = "string" /\ v.num # {}
      BY <1>0, <1>3, <2>1, <2>2, <2>4, WhatIsDecoded
    <3> QED
      BY <1>4, <3>1 DEF KnownScalarDifference
  <2> QED
    BY <2>3, <2>4
<1>5. CASE s.type = "STRING"
  <2>1. validateValue(s, v) <=> /\ v.t = "string" /\ InRange(v.units, s.min, s.max)
                                /\ (s.pattern => v.js)
    BY <1>5 DEF validateValue
  <2>2. validateScalar(s.type, s, v) =
            {c \in decoded("STRING", v) : InRange(c.points, s.min, s.max) /\ (s.pattern => c.re2)}
    BY <1>5 DEF validateScalar
  <2>3. CASE v.t = "string"
    <3>1. validateScalar(s.type, s, v) # {} <=>
              InRange(v.points, s.min, s.max) /\ (s.pattern => v.re2)
      BY <2>2, <2>3, WhatIsDecoded
    <3> QED
      BY <1>0, <1>3, <1>5, <2>1, <2>3, <3>1 DEF KnownScalarDifference
  <2>4. CASE v.t # "string"
    BY <1>0, <1>3, <2>1, <2>2, <2>4, WhatIsDecoded
  <2> QED
    BY <2>3, <2>4
<1>6. CASE s.type = "DATETIME"
  <2>1. validateValue(s, v) <=> isInstant(v)
    BY <1>6 DEF validateValue
  <2>2. validateScalar(s.type, s, v) = decoded("DATETIME", v)
    BY <1>6 DEF validateScalar
  <2>3. Validate(s, v) # {} <=> isDateTime(v)
    BY <1>3, <2>2, WhatIsDecoded DEF isDateTime
  <2>4. v.t = "string" /\ v.shape \in {"overflowing", "padded"}
    BY <1>0, <2>1, <2>3 DEF isInstant, isDateTime
  <2> QED
    BY <1>6, <2>4 DEF KnownScalarDifference
<1>7. CASE s.type = "BOOLEAN"
  <2>1. validateValue(s, v) <=> v.t = "boolean"
    BY <1>7 DEF validateValue
  <2>2. validateScalar(s.type, s, v) = decoded("BOOLEAN", v)
    BY <1>7 DEF validateScalar
  <2> QED
    BY <1>0, <1>3, <2>1, <2>2, WhatIsDecoded
<1> QED
  BY <1>2, <1>4, <1>5, <1>6, <1>7 DEF ScalarTypes

\* What passes both is stored as what an input renders the same: an instant in another
\* spelling, and everything else as it is.
LEMMA StoredRendersTheSame ==
    ASSUME NEW s \in Setting, NEW v, validateValue(s, v), NEW w \in Validate(s, v)
    PROVE  FormatInput(s, w) = FormatInput(s, v)
<1>1. CASE s.type = "JSON"
  BY <1>1 DEF Validate
<1>2. CASE s.type = "NUMBER"
  <2>1. v.t = "number" /\ w \in decoded("NUMBER", v)
    BY <1>2, WhatIsValidated DEF validateValue, validateScalar, ScalarTypes
  <2>2. decoded("NUMBER", v) = {v}
    BY <2>1, WhatIsDecoded
  <2>3. w = v
    BY <2>1, <2>2
  <2> QED
    BY <2>3
<1>3. CASE s.type = "STRING"
  <2>1. v.t = "string" /\ w \in decoded("STRING", v)
    BY <1>3, WhatIsValidated DEF validateValue, validateScalar, ScalarTypes
  <2>2. decoded("STRING", v) = {v}
    BY <2>1, WhatIsDecoded
  <2>3. w = v
    BY <2>1, <2>2
  <2> QED
    BY <2>3
<1>4. CASE s.type = "DATETIME"
  <2>1. isInstant(v) /\ w \in decoded("DATETIME", v)
    BY <1>4, WhatIsValidated DEF validateValue, validateScalar, ScalarTypes
  <2>2. w = Stored(v.at)
    BY <2>1, WhatIsDecoded
  <2> QED
    BY <1>4, <2>1, <2>2, StoredIsAnInstant DEF FormatInput
<1>5. CASE s.type \notin TextTypes
  BY <1>5 DEF FormatInput, TextTypes
<1> QED
  BY <1>1, <1>2, <1>3, <1>4, <1>5 DEF TextTypes

\* config.go 117-135: an option is a value of the type the options are of, as it is
\* stored, so the server stores nothing else of it.
LEMMA OptionsAreStored ==
    ASSUME NEW s \in Setting, s.type = "SELECT", NEW o \in Options(s)
    PROVE  /\ o \in Scalars(s) /\ validateScalar(s.of, s, o) = {o}
           /\ s.of = "BOOLEAN" => o.t = "boolean"
           /\ s.of = "NUMBER" => o.t = "number"
           /\ s.of = "STRING" => o.t = "string"
           /\ s.of = "DATETIME" => o = Stored(o.at) /\ o.t = "string"
<1>1. o \in Scalars(s) /\ o \in validateScalar(s.of, s, o) /\ s.of \in ScalarTypes
  BY RulesAssumption DEF Scalars
<1>2. /\ o \in decoded(s.of, o)
      /\ \A c : c \in validateScalar(s.of, s, o) => c \in decoded(s.of, o)
  BY <1>1 DEF validateScalar
<1>3. CASE s.of = "BOOLEAN"
  <2>1. o.t = "boolean" /\ decoded("BOOLEAN", o) = {o}
    <3>1. Boolean(FALSE).t = "boolean"
      BY DEF Boolean
    <3> QED
      BY <1>2, <1>3, <3>1, WhatIsDecoded
  <2> QED
    BY <1>1, <1>2, <1>3, <2>1
<1>4. CASE s.of = "NUMBER"
  <2>1. o.t = "number" /\ decoded("NUMBER", o) = {o}
    <3>1. o.t = "string" => \A n \in o.num : n.t = "number"
      BY <1>1, RulesAssumption
    <3> QED
      BY <1>2, <1>4, <3>1, WhatIsDecoded
  <2> QED
    BY <1>1, <1>2, <1>4, <2>1
<1>5. CASE s.of = "STRING"
  <2>1. o.t = "string" /\ decoded("STRING", o) = {o}
    <3>1. Text(<<>>).t = "string"
      BY DEF Text
    <3> QED
      BY <1>2, <1>5, <3>1, WhatIsDecoded
  <2> QED
    BY <1>1, <1>2, <1>5, <2>1
<1>6. CASE s.of = "DATETIME"
  <2>1. o = Stored(o.at) /\ decoded("DATETIME", o) = {o}
    BY <1>2, <1>6, WhatIsDecoded
  <2>2. o.t = "string"
    BY <2>1, StoredIsAnInstant
  <2> QED
    BY <1>1, <1>2, <1>6, <2>1, <2>2
<1> QED
  BY <1>1, <1>3, <1>4, <1>5, <1>6 DEF ScalarTypes

\* One option is another just when they have one token.
LEMMA OptionsAreTold ==
    ASSUME NEW s \in Setting, s.type = "SELECT", NEW a \in Options(s), NEW b \in Options(s)
    PROVE  valuesEqual(s.of, a, b) <=> optionToken(a) = optionToken(b)
<1>1. a \in Scalars(s) /\ b \in Scalars(s)
  BY OptionsAreStored
<1>2. CASE s.of = "NUMBER"
  <2>1. a.t = "number" /\ b.t = "number"
    BY <1>2, OptionsAreStored
  <2>2. (a.text = b.text => a = b) /\ (a.n = b.n => a.text = b.text)
    BY <1>1, <2>1, RulesAssumption
  <2> QED
    BY <1>2, <2>2 DEF valuesEqual, optionToken
<1>3. CASE s.of # "NUMBER"
  BY <1>3 DEF valuesEqual, optionToken
<1> QED
  BY <1>2, <1>3

\* One chosen value: it has an option's token just when it is that option's value, or
\* the two are known to differ.
LEMMA ChoiceRulesAgree ==
    ASSUME NEW s \in Setting, s.type = "SELECT", NEW c \in Scalars(s),
           c.t = "null" => isMultiSelect(s), ~KnownChoiceDifference(s, c), NEW o \in Options(s)
    PROVE  o \in matchOption(s, c) <=> optionToken(c) = optionToken(o)
<1>1. /\ o \in Scalars(s) /\ validateScalar(s.of, s, o) = {o} /\ s.of \in ScalarTypes
      /\ o.t \in {"boolean", "number", "string"}
  BY OptionsAreStored, RulesAssumption DEF ScalarTypes
<1>2. o \in matchOption(s, c) <=> \E d \in validateScalar(s.of, s, c) : valuesEqual(s.of, o, d)
  BY DEF matchOption
<1>3. ASSUME optionToken(c) = optionToken(o) PROVE o \in matchOption(s, c)
  <2>1. c.t = o.t
    BY <1>3 DEF KnownChoiceDifference
  <2>2. c = o
    BY <1>1, <1>3, <2>1, RulesAssumption DEF optionToken
  <2>3. valuesEqual(s.of, o, o)
    BY DEF valuesEqual
  <2> QED
    BY <1>1, <1>2, <2>2, <2>3
<1>4. ASSUME o \in matchOption(s, c) PROVE optionToken(c) = optionToken(o)
  <2>1. PICK d \in validateScalar(s.of, s, c) : valuesEqual(s.of, o, d)
    BY <1>2, <1>4
  <2>2. d \in decoded(s.of, c)
    BY <2>1 DEF validateScalar
  <2>3. CASE s.of = "BOOLEAN"
    <3>1. c.t # "null"
      BY <2>3 DEF KnownChoiceDifference
    <3>2. d = c
      <4>1. decoded("BOOLEAN", c) = {c} \/ decoded("BOOLEAN", c) = {}
        BY <3>1, WhatIsDecoded
      <4> QED
        BY <2>2, <2>3, <4>1
    <3> QED
      BY <2>1, <2>3, <3>2 DEF valuesEqual, optionToken
  <2>4. CASE s.of = "NUMBER"
    <3>1. ~(c.t = "string" /\ c.num # {})
      BY <2>4 DEF KnownChoiceDifference
    <3>2. d = c /\ c.t = "number"
      <4>1. (decoded("NUMBER", c) = {c} /\ c.t = "number") \/ decoded("NUMBER", c) = {}
        BY <3>1, WhatIsDecoded
      <4> QED
        BY <2>2, <2>4, <4>1
    <3>3. o.t = "number" /\ o.n = c.n
      BY <2>1, <2>4, <3>2, OptionsAreStored DEF valuesEqual
    <3> QED
      BY <1>1, <3>2, <3>3, RulesAssumption DEF optionToken
  <2>5. CASE s.of = "STRING"
    <3>1. c.t # "null"
      BY <2>5 DEF KnownChoiceDifference
    <3>2. d = c
      <4>1. decoded("STRING", c) = {c} \/ decoded("STRING", c) = {}
        BY <3>1, WhatIsDecoded
      <4> QED
        BY <2>2, <2>5, <4>1
    <3> QED
      BY <2>1, <2>5, <3>2 DEF valuesEqual, optionToken
  <2>6. CASE s.of = "DATETIME"
    <3>1. isDateTime(c) /\ d = Stored(c.at)
      BY <2>2, <2>6, WhatIsDecoded
    <3>2. o = Stored(o.at) /\ o.text = d.text
      BY <2>1, <2>6, OptionsAreStored DEF valuesEqual
    <3>3. o.at = c.at
      <4>1. Stored(o.at).text = <<"utc", o.at>> /\ Stored(c.at).text = <<"utc", c.at>>
        BY StoredIsAnInstant
      <4>2. <<"utc", o.at>> = <<"utc", c.at>>
        BY <3>1, <3>2, <4>1
      <4> QED
        BY <4>2
    <3> QED
      BY <2>6, <3>1, <3>3 DEF KnownChoiceDifference
  <2> QED
    BY <1>1, <2>3, <2>4, <2>5, <2>6 DEF ScalarTypes
<1> QED
  BY <1>3, <1>4

\* values.ts 198-210, validateSelect (validate.go 120-176): so the two agree about the
\* value of a SELECT, but for the known differences.
LEMMA SelectRulesAgree ==
    ASSUME NEW s \in Setting, NEW v \in ValueOf[s], s.type = "SELECT", ~KnownDifference(s, v)
    PROVE  validateValue(s, v) = (Validate(s, v) # {})
<1>1. ASSUME NEW c \in Chosen(s, v), c.t = "null" => isMultiSelect(s), NEW o \in Options(s)
      PROVE  o \in matchOption(s, c) <=> optionToken(c) = optionToken(o)
  <2>1. c \in Scalars(s) /\ ~KnownChoiceDifference(s, c)
    BY DEF Scalars, KnownDifference
  <2> QED
    BY <1>1, <2>1, ChoiceRulesAgree
<1>2. validateValue(s, v) <=> /\ isMultiSelect(s) => v.t = "array"
                              /\ \A c \in Chosen(s, v) : optionToken(c) \in Tokens(s)
  BY DEF validateValue
<1>3. validateValue(s, v) \in BOOLEAN
  BY DEF validateValue
<1>4. Validate(s, v) = IF v.t = "null" THEN {} ELSE validateSelect(s, v)
  BY DEF Validate
<1>5. s.multiple \in BOOLEAN
  BY RulesAssumption
<1>6. CASE ~isMultiSelect(s)
  <2>1. ~s.multiple /\ Chosen(s, v) = {v}
    BY <1>6 DEF isMultiSelect, Chosen
  <2>2. validateSelect(s, v) = matchOption(s, v)
    BY <2>1 DEF validateSelect
  <2>3. validateValue(s, v) <=> \E o \in Options(s) : optionToken(v) = optionToken(o)
    BY <1>2, <1>6, <2>1 DEF Tokens
  <2>4. CASE v.t = "null"
    <3>1. \A o \in Options(s) : o.t # "null"
      BY OptionsAreStored, RulesAssumption DEF ScalarTypes
    <3>2. \A o \in Options(s) : optionToken(v) # optionToken(o)
      BY <2>1, <2>4, <3>1 DEF KnownDifference, KnownChoiceDifference
    <3> QED
      BY <1>3, <1>4, <2>3, <2>4, <3>2
  <2>5. CASE v.t # "null"
    <3>1. matchOption(s, v) # {} <=> \E o \in Options(s) : o \in matchOption(s, v)
      BY DEF matchOption
    <3>2. \A o \in Options(s) : o \in matchOption(s, v) <=> optionToken(v) = optionToken(o)
      BY <1>1, <2>1, <2>5
    <3> QED
      BY <1>3, <1>4, <2>2, <2>3, <2>5, <3>1, <3>2
  <2> QED
    BY <2>4, <2>5
<1>7. CASE isMultiSelect(s) /\ v.t # "array"
  <2>1. validateSelect(s, v) = {}
    BY <1>7 DEF validateSelect, isMultiSelect
  <2> QED
    BY <1>2, <1>3, <1>4, <1>7, <2>1
<1>8. CASE isMultiSelect(s) /\ v.t = "array"
  <2> DEFINE D == DOMAIN v.items
             lists == {q \in [D -> Options(s)] :
                          /\ \A i \in DOMAIN q : q[i] \in matchOption(s, v.items[i])
                          /\ \A i, j \in DOMAIN q : i # j => ~valuesEqual(s.of, q[i], q[j])}
  <2>1. Validate(s, v) = {List(q) : q \in lists}
    BY <1>4, <1>8 DEF validateSelect, isMultiSelect
  <2>2. \A i \in D : v.items[i] \in Chosen(s, v)
    BY <1>8 DEF Chosen, Elements
  <2>3. \A i \in D, o \in Options(s) :
            o \in matchOption(s, v.items[i]) <=> optionToken(v.items[i]) = optionToken(o)
    BY <1>1, <1>8, <2>2
  <2>4. validateValue(s, v) <=> \A i \in D : \E o \in Options(s) : optionToken(v.items[i]) = optionToken(o)
    <3>1. Chosen(s, v) = {v.items[i] : i \in D}
      BY <1>8 DEF Chosen, Elements
    <3>2. \A c : optionToken(c) \in Tokens(s) <=> \E o \in Options(s) : optionToken(c) = optionToken(o)
      BY DEF Tokens
    <3> HIDE DEF D
    <3> QED
      BY <1>2, <1>8, <3>1, <3>2
  <2>5. ASSUME lists # {} PROVE validateValue(s, v)
    <3>1. PICK q \in [D -> Options(s)] : \A i \in D : q[i] \in matchOption(s, v.items[i])
      BY <2>5
    <3> QED
      BY <2>3, <2>4, <3>1
  <2>6. ASSUME validateValue(s, v) PROVE lists # {}
    <3> DEFINE q == [i \in D |-> CHOOSE o \in Options(s) : optionToken(v.items[i]) = optionToken(o)]
    <3>1. \A i \in D : q[i] \in Options(s) /\ optionToken(v.items[i]) = optionToken(q[i])
      BY <2>4, <2>6
    <3>2. q \in [D -> Options(s)]
      BY <3>1
    <3> HIDE DEF q
    <3>3. \A i \in D : q[i] \in matchOption(s, v.items[i])
      BY <2>3, <3>1
    <3>4. ASSUME NEW i \in D, NEW j \in D, i # j, valuesEqual(s.of, q[i], q[j]) PROVE FALSE
      <4>1. optionToken(q[i]) = optionToken(q[j])
        BY <3>1, <3>4, OptionsAreTold
      <4>2. optionToken(v.items[i]) = optionToken(v.items[j])
        BY <3>1, <4>1
      <4> QED
        BY <1>8, <3>4, <4>2 DEF KnownDifference
    <3>5. q \in lists
      BY <3>2, <3>3, <3>4
    <3> QED
      BY <3>5
  <2>7. Validate(s, v) # {} <=> lists # {}
    <3> HIDE DEF lists
    <3> QED
      BY <2>1
  <2> QED
    BY <1>3, <2>5, <2>6, <2>7
<1> QED
  BY <1>6, <1>7, <1>8

\* setting-select.tsx 78-87: what is left of the options after one is ticked or
\* unticked is a list the server stores as it is, whatever was chosen before.
LEMMA TickedIsValid ==
    ASSUME NEW s \in Setting, isMultiSelect(s), NEW v, NEW o, NEW checked \in BOOLEAN,
           NEW w, w = onCheckedChange(s, v, o, checked)
    PROVE  Validate(s, w) = {w}
<1> DEFINE Kept(p) == IF optionToken(p) = optionToken(o) THEN checked
                      ELSE optionToken(p) \in chosen(s, v)
           places == {i \in DOMAIN s.options : Kept(s.options[i])}
           items == Filtered(s.options, places)
<1>1. /\ s.type = "SELECT" /\ s.multiple /\ s.options \in Seq(Options(s))
      /\ \A i, j \in DOMAIN s.options : i # j => ~valuesEqual(s.of, s.options[i], s.options[j])
  BY RulesAssumption DEF isMultiSelect
<1>2. w = List(items)
  BY DEF onCheckedChange
<1>3. places \in SUBSET DOMAIN s.options
  OBVIOUS
<1> HIDE DEF places
<1> DEFINE N == Cardinality(places)
<1>4. PICK p : KeepsInOrder(p, s.options, places)
  BY <1>1, <1>3, FilterKeeps
<1>5. /\ items = [n \in 1..N |-> s.options[p[n]]] /\ p \in [1..N -> places]
      /\ \A m, n \in 1..N : p[m] = p[n] => m = n
  BY <1>4 DEF KeepsInOrder
<1> HIDE DEF items, N
<1>6. /\ DOMAIN items = 1..N
      /\ \A n \in 1..N : /\ p[n] \in DOMAIN s.options /\ items[n] = s.options[p[n]]
                         /\ items[n] \in Options(s)
  BY <1>3, <1>5 DEF Options, Elements
<1>7. \A m, n \in 1..N : m # n => ~valuesEqual(s.of, items[m], items[n])
  BY <1>1, <1>5, <1>6
<1>8. ASSUME NEW n \in 1..N PROVE matchOption(s, items[n]) = {items[n]}
  <2>1. validateScalar(s.of, s, items[n]) = {items[n]}
    BY <1>1, <1>6, OptionsAreStored
  <2>2. valuesEqual(s.of, items[n], items[n])
    BY DEF valuesEqual
  <2>3. ASSUME NEW c \in Options(s), valuesEqual(s.of, c, items[n]) PROVE c = items[n]
    <3>1. PICK i \in DOMAIN s.options : c = s.options[i]
      BY DEF Options, Elements
    <3> QED
      BY <1>1, <1>6, <2>3, <3>1
  <2>4. matchOption(s, items[n]) = {c \in Options(s) : valuesEqual(s.of, c, items[n])}
    BY <2>1 DEF matchOption
  <2> QED
    BY <1>6, <2>2, <2>3, <2>4
<1> DEFINE lists == {q \in [1..N -> Options(s)] :
                        /\ \A i \in DOMAIN q : q[i] \in matchOption(s, items[i])
                        /\ \A i, j \in DOMAIN q : i # j => ~valuesEqual(s.of, q[i], q[j])}
<1>9. Validate(s, w) = {List(q) : q \in lists}
  <2>1. w.t = "array" /\ w.items = items
    BY <1>2 DEF List
  <2>2. Validate(s, w) = validateSelect(s, w)
    BY <1>1, <2>1 DEF Validate
  <2> QED
    BY <1>1, <1>6, <2>1, <2>2 DEF validateSelect
<1>10. items = [n \in 1..N |-> items[n]]
  BY <1>5, <1>6
<1>11. items \in lists
  <2>1. items \in [1..N -> Options(s)]
    BY <1>6, <1>10
  <2> QED
    BY <1>6, <1>7, <1>8, <2>1
<1>12. ASSUME NEW q \in lists PROVE q = items
  <2>1. q = [n \in 1..N |-> q[n]] /\ \A n \in 1..N : q[n] = items[n]
    BY <1>8
  <2> QED
    BY <1>10, <2>1
<1>13. lists = {items}
  <2> HIDE DEF lists
  <2> QED
    BY <1>11, <1>12
<1> QED
  BY <1>2, <1>9, <1>13

\* values.ts 154-219 and validate.go 12-176: for any settings and values, the library takes
\* before a write what the server stores, but for the known differences, and the server
\* stores what renders the same; of checkboxes it stores every choice as it is.
THEOREM RulesAreTheServers == Spec => []RulesAgree
<1>1. setting \in Setting => RulesAgree
  <2>0. SUFFICES ASSUME setting \in Setting PROVE RulesAgree
    OBVIOUS
  <2>1. ASSUME NEW v \in ValueOf[setting], validateValue(setting, v) # (Validate(setting, v) # {})
        PROVE  KnownDifference(setting, v)
    BY <2>0, <2>1, ScalarRulesAgree, SelectRulesAgree
  <2>2. ASSUME NEW v \in ValueOf[setting], validateValue(setting, v), NEW w \in Validate(setting, v)
        PROVE  Format(w) = Format(v)
    BY <2>0, <2>2, StoredRendersTheSame DEF Format
  <2>3. ASSUME isMultiSelect(setting), NEW v \in ValueOf[setting], NEW o \in Options(setting),
               NEW checked \in BOOLEAN
        PROVE  LET w == onCheckedChange(setting, v, o, checked) IN Validate(setting, w) = {w}
    BY <2>0, <2>3, TickedIsValid
  <2> QED
    BY <2>1, <2>2, <2>3 DEF RulesAgree
<1>2. UntouchedTextIsTheValue => setting \in Setting
  BY DEF UntouchedTextIsTheValue
<1> QED
  BY <1>1, <1>2, UntouchedInit, UntouchedNext, PTL DEF Spec

-----------------------------------------------------------------------------
(* The sections of a list. *)

\* The loop of groupSettings, one turn after the other.
Turns(f, settings, by, n) ==
    f = [m \in 0..n |-> IF m = 0 THEN <<>> ELSE Place(by, f[m - 1], settings[m])]

LEMMA LoopRuns ==
    ASSUME NEW settings, NEW by, NEW n \in Nat
    PROVE  \E f : Turns(f, settings, by, n)
<1> DEFINE Stuck == {m \in Nat : ~\E f : Turns(f, settings, by, m)}
           F == {1..m : m \in Stuck}
<1>0. SUFFICES ASSUME Stuck # {} PROVE FALSE
  OBVIOUS
<1>1. PICK m \in Stuck : \A k \in Stuck : <<1..k, 1..m>> \notin StrictSubsetOrdering(Nat)
  <2>1. IsWellFoundedOn(StrictSubsetOrdering(Nat), FiniteSubsetsOf(Nat))
    BY FS_StrictSubsetOrderingWellFounded
  <2>2. F \subseteq FiniteSubsetsOf(Nat) /\ F # {}
    <3>1. \A m \in Nat : IsFiniteSet(1..m) /\ 1..m \subseteq Nat
      BY FS_Interval
    <3> QED
      BY <1>0, <3>1 DEF FiniteSubsetsOf
  <2>3. \E U \in F : \A W \in F : <<W, U>> \notin StrictSubsetOrdering(Nat)
    <3> HIDE DEF F
    <3> QED
      BY <2>1, <2>2, WFMin
  <2> QED
    BY <2>3
<1>2. m \in Nat /\ \A k \in 0..(m - 1) : \E f : Turns(f, settings, by, k)
  <2>1. ASSUME NEW k \in 0..(m - 1), k \in Stuck PROVE FALSE
    <3>1. 1..k \subseteq 1..m /\ 1..k # 1..m
      BY <2>1
    <3>2. <<1..k, 1..m>> \in StrictSubsetOrdering(Nat)
      BY <3>1 DEF StrictSubsetOrdering
    <3> QED
      BY <1>1, <2>1, <3>2
  <2> QED
    BY <2>1
<1>3. CASE m = 0
  <2>1. Turns([k \in 0..0 |-> <<>>], settings, by, 0)
    BY DEF Turns
  <2> QED
    BY <1>3, <2>1
<1>4. CASE m > 0
  <2>1. PICK f : Turns(f, settings, by, m - 1)
    BY <1>2, <1>4
  <2> DEFINE g == [k \in 0..m |-> IF k = m THEN Place(by, f[m - 1], settings[m]) ELSE f[k]]
  <2>2. \A k \in 0..(m - 1) : f[k] = IF k = 0 THEN <<>> ELSE Place(by, f[k - 1], settings[k])
    BY <1>2, <1>4, <2>1 DEF Turns
  <2>3. \A k \in 0..(m - 1) : g[k] = f[k]
    BY <1>2
  <2>4. \A k \in 0..m : g[k] = IF k = 0 THEN <<>> ELSE Place(by, g[k - 1], settings[k])
    <3> TAKE k \in 0..m
    <3>1. CASE k = m
      <4>1. g[m - 1] = f[m - 1] /\ g[m] = Place(by, f[m - 1], settings[m])
        BY <1>2, <1>4, <2>3
      <4> QED
        BY <1>4, <3>1, <4>1
    <3>2. CASE k # m
      <4>1. k \in 0..(m - 1) /\ (k # 0 => k - 1 \in 0..(m - 1))
        BY <1>2, <3>2
      <4> HIDE DEF g
      <4> QED
        BY <2>2, <2>3, <4>1
    <3> QED
      BY <3>1, <3>2
  <2>5. g = [k \in 0..m |-> g[k]]
    OBVIOUS
  <2>6. Turns(g, settings, by, m)
    <3> HIDE DEF g
    <3> QED
      BY <2>4, <2>5 DEF Turns
  <2> QED
    BY <2>6
<1> QED
  BY <1>2, <1>3, <1>4

LEMMA SectionsUnfold ==
    ASSUME NEW T, NEW settings \in Seq(T), NEW by
    PROVE  \E f : Turns(f, settings, by, Len(settings)) /\ Sections(settings, by) = f[Len(settings)]
<1>1. Len(settings) \in Nat
  BY LenProperties
<1>2. PICK f : Turns(f, settings, by, Len(settings))
  BY <1>1, LoopRuns
<1> DEFINE g == CHOOSE h : h = [n \in 0..Len(settings) |->
                                   IF n = 0 THEN <<>> ELSE Place(by, h[n - 1], settings[n])]
<1>3. Turns(g, settings, by, Len(settings))
  BY <1>2 DEF Turns
<1>4. Sections(settings, by) = g[Len(settings)]
  BY DEF Sections
<1> QED
  BY <1>3, <1>4

\* A list with nothing in it but one element, and a list with one more at its end.
LEMMA TakesOne ==
    ASSUME NEW whole, NEW k \in Nat PROVE Takes(<<whole[k]>>, whole, {k})
<1> DEFINE q == [n \in {1} |-> k]
<1>1. DOMAIN <<whole[k]>> = {1} /\ <<whole[k]>>[1] = whole[k]
  OBVIOUS
<1>2. /\ q \in [DOMAIN <<whole[k]>> -> {k}]
      /\ \A j \in {k} : \E n \in DOMAIN <<whole[k]>> : q[n] = j
      /\ \A m, n \in DOMAIN <<whole[k]>> : m < n => q[m] < q[n]
      /\ \A n \in DOMAIN <<whole[k]>> : <<whole[k]>>[n] = whole[q[n]]
  BY <1>1
<1> HIDE DEF q
<1> QED
  BY <1>2 DEF Takes

LEMMA TakesOneMore ==
    ASSUME NEW T, NEW part \in Seq(T), NEW whole, NEW places \in SUBSET Nat, Takes(part, whole, places),
           NEW k \in Nat, \A j \in places : j < k, whole[k] \in T
    PROVE  Takes(Append(part, whole[k]), whole, places \union {k})
<1>1. PICK q \in [DOMAIN part -> places] :
          /\ \A j \in places : \E n \in DOMAIN part : q[n] = j
          /\ \A m, n \in DOMAIN part : m < n => q[m] < q[n]
          /\ \A n \in DOMAIN part : part[n] = whole[q[n]]
  BY DEF Takes
<1> DEFINE N == Len(part)
           more == Append(part, whole[k])
           r == [n \in 1..(N + 1) |-> IF n = N + 1 THEN k ELSE q[n]]
<1>2. /\ N \in Nat /\ DOMAIN part = 1..N /\ DOMAIN more = 1..(N + 1)
      /\ more[N + 1] = whole[k] /\ \A n \in 1..N : more[n] = part[n]
  BY LenProperties, AppendProperties
<1> HIDE DEF N, more
<1>3. r[N + 1] = k /\ \A n \in 1..N : r[n] = q[n] /\ n \in 1..(N + 1) /\ n # N + 1
  BY <1>2
<1>4. r \in [1..(N + 1) -> places \union {k}]
  <2>1. \A n \in 1..(N + 1) : n # N + 1 => n \in 1..N
    BY <1>2
  <2>2. \A n \in 1..N : q[n] \in places
    BY <1>1, <1>2
  <2> QED
    BY <2>1, <2>2
<1> HIDE DEF r
<1>5. \A j \in places \union {k} : \E n \in 1..(N + 1) : r[n] = j
  <2> TAKE j \in places \union {k}
  <2>1. N + 1 \in 1..(N + 1)
    BY <1>2
  <2> QED
    BY <1>1, <1>2, <1>3, <2>1
<1>6. \A m, n \in 1..(N + 1) : m < n => r[m] < r[n]
  <2> TAKE m, n \in 1..(N + 1)
  <2> HAVE m < n
  <2>1. m \in 1..N /\ r[m] = q[m] /\ q[m] \in places
    BY <1>1, <1>2, <1>3
  <2>2. CASE n = N + 1
    BY <1>3, <2>1, <2>2
  <2>3. CASE n # N + 1
    <3>1. n \in 1..N
      BY <1>2, <2>3
    <3> QED
      BY <1>1, <1>2, <1>3, <2>1, <3>1
  <2> QED
    BY <2>2, <2>3
<1>7. \A n \in 1..(N + 1) : more[n] = whole[r[n]]
  <2> TAKE n \in 1..(N + 1)
  <2>1. n = N + 1 \/ n \in 1..N
    BY <1>2
  <2> QED
    BY <1>1, <1>2, <1>3, <2>1
<1>8. Takes(more, whole, places \union {k})
  <2>1. /\ r \in [DOMAIN more -> places \union {k}]
        /\ \A j \in places \union {k} : \E n \in DOMAIN more : r[n] = j
        /\ \A m, n \in DOMAIN more : m < n => r[m] < r[n]
        /\ \A n \in DOMAIN more : more[n] = whole[r[n]]
    BY <1>2, <1>4, <1>5, <1>6, <1>7
  <2> QED
    BY <2>1 DEF Takes
<1> QED
  BY <1>8 DEF more

\* The places, up to n, of the settings of a group.
InGroup(settings, by, group, n) == {i \in 1..n : Grouper(by, settings[i]) = group}

\* What groupSettings has after n turns: a section for each group met, in the order
\* they were met, with the group's settings in theirs.
Sectioned(t, T, settings, by, n) ==
    /\ t \in Seq([group : {Grouper(by, x) : x \in T}, settings : Seq(T)])
    /\ \A g, h \in DOMAIN t : g # h => t[g].group # t[h].group
    /\ \A i \in 1..n : \E g \in DOMAIN t : t[g].group = Grouper(by, settings[i])
    /\ \A g \in DOMAIN t :
           /\ InGroup(settings, by, t[g].group, n) # {}
           /\ Takes(t[g].settings, settings, InGroup(settings, by, t[g].group, n))
    /\ \A g, h \in DOMAIN t : g < h =>
           \E i \in InGroup(settings, by, t[g].group, n) :
               \A j \in InGroup(settings, by, t[h].group, n) : i < j

LEMMA PlaceSections ==
    ASSUME NEW T, NEW settings \in Seq(T), NEW by, NEW n \in 1..Len(settings),
           NEW t, Sectioned(t, T, settings, by, n - 1)
    PROVE  Sectioned(Place(by, t, settings[n]), T, settings, by, n)
<1> DEFINE s == settings[n]
           group == Grouper(by, s)
           found == {i \in DOMAIN t : t[i].group = group}
           t2 == Place(by, t, s)
           Row == [group : {Grouper(by, x) : x \in T}, settings : Seq(T)]
           Was(g) == InGroup(settings, by, g, n - 1)
           Is(g) == InGroup(settings, by, g, n)
<1>1. /\ n \in Nat /\ n > 0 /\ s \in T /\ t \in Seq(Row)
      /\ group \in {Grouper(by, x) : x \in T}
      /\ DOMAIN t = 1..Len(t) /\ Len(t) \in Nat
  BY LenProperties, ElementOfSeq DEF Sectioned
<1>2. /\ \A g : g # group => Is(g) = Was(g)
      /\ Is(group) = Was(group) \union {n}
      /\ \A g : Was(g) \subseteq 1..(n - 1) /\ Was(g) \subseteq Is(g) /\ Is(g) \subseteq 1..n
  BY <1>1 DEF InGroup
<1>3. /\ \A g, h \in DOMAIN t : g # h => t[g].group # t[h].group
      /\ \A i \in 1..(n - 1) : \E g \in DOMAIN t : t[g].group = Grouper(by, settings[i])
      /\ \A g \in DOMAIN t : Was(t[g].group) # {} /\ Takes(t[g].settings, settings, Was(t[g].group))
      /\ \A g, h \in DOMAIN t : g < h =>
             \E i \in Was(t[g].group) : \A j \in Was(t[h].group) : i < j
  BY DEF Sectioned
<1>4. \A g \in DOMAIN t : t[g] \in Row
  BY <1>1, ElementOfSeq
<1>5. CASE found = {}
  <2> DEFINE new == [group |-> group, settings |-> <<s>>]
             N == Len(t)
  <2>1. t2 = Append(t, new)
    BY <1>5 DEF Place
  <2>2. new \in Row
    <3>1. <<s>> \in Seq(T)
      BY <1>1
    <3> QED
      BY <1>1, <3>1
  <2>3. /\ t2 \in Seq(Row) /\ DOMAIN t2 = 1..(N + 1)
        /\ t2[N + 1] = new /\ \A g \in 1..N : t2[g] = t[g]
    BY <1>1, <2>1, <2>2, AppendProperties, LenProperties
  <2>4. \A g \in 1..N : t2[g].group # group
    BY <1>1, <1>5, <2>3
  <2>5. new.group = group /\ new.settings = <<s>>
    OBVIOUS
  <2>6. Was(group) = {}
    BY <1>3, <1>5 DEF InGroup
  <2> HIDE DEF new, t2, N, found, Row, Was, Is, group, s
  <2>7. N \in Nat /\ \A g \in 1..(N + 1) : g \in 1..N \/ g = N + 1
    BY <1>1 DEF N
  <2>8. \A g, h \in DOMAIN t2 : g # h => t2[g].group # t2[h].group
    BY <1>1, <1>3, <2>3, <2>4, <2>5, <2>7 DEF N
  <2>9. \A i \in 1..n : \E g \in DOMAIN t2 : t2[g].group = Grouper(by, settings[i])
    <3> TAKE i \in 1..n
    <3>1. CASE i = n
      <4>1. N + 1 \in DOMAIN t2 /\ t2[N + 1].group = Grouper(by, settings[i])
        BY <2>3, <2>5, <2>7, <3>1 DEF group, s
      <4> QED
        BY <4>1
    <3>2. CASE i # n
      <4>1. i \in 1..(n - 1)
        BY <1>1, <3>2
      <4>2. PICK g \in DOMAIN t : t[g].group = Grouper(by, settings[i])
        BY <1>3, <4>1
      <4>3. g \in DOMAIN t2 /\ t2[g] = t[g]
        BY <1>1, <2>3, <2>7 DEF N
      <4> QED
        BY <4>2, <4>3
    <3> QED
      BY <3>1, <3>2
  <2>10. ASSUME NEW g \in DOMAIN t2
         PROVE  Is(t2[g].group) # {} /\ Takes(t2[g].settings, settings, Is(t2[g].group))
    <3>1. CASE g = N + 1
      <4>1. Is(t2[g].group) = {n} /\ t2[g].settings = <<settings[n]>>
        BY <1>2, <2>3, <2>5, <2>6, <3>1 DEF s
      <4> QED
        BY <1>1, <4>1, TakesOne
    <3>2. CASE g \in 1..N
      BY <1>1, <1>2, <1>3, <2>3, <2>4, <3>2 DEF N
    <3> QED
      BY <2>3, <2>7, <3>1, <3>2
  <2>11. ASSUME NEW g \in DOMAIN t2, NEW h \in DOMAIN t2, g < h
         PROVE  \E i \in Is(t2[g].group) : \A j \in Is(t2[h].group) : i < j
    <3>1. g \in 1..N
      BY <2>3, <2>7, <2>11
    <3>2. t2[g] = t[g] /\ Is(t[g].group) = Was(t[g].group)
      BY <1>2, <2>3, <2>4, <3>1
    <3>3. CASE h = N + 1
      <4>1. Is(t2[h].group) = {n}
        BY <1>2, <2>3, <2>5, <2>6, <3>3
      <4>2. PICK i \in Was(t[g].group) : TRUE
        BY <1>1, <1>3, <3>1 DEF N
      <4>3. i < n
        BY <1>1, <1>2, <4>2
      <4> QED
        BY <3>2, <4>1, <4>2, <4>3
    <3>4. CASE h \in 1..N
      <4>1. t2[h] = t[h] /\ Is(t[h].group) = Was(t[h].group)
        BY <1>2, <2>3, <2>4, <3>4
      <4>2. g \in DOMAIN t /\ h \in DOMAIN t
        BY <1>1, <3>1, <3>4 DEF N
      <4>3. \E i \in Was(t[g].group) : \A j \in Was(t[h].group) : i < j
        BY <1>3, <2>11, <4>2
      <4> QED
        BY <3>2, <4>1, <4>3
    <3> QED
      BY <2>3, <2>7, <3>3, <3>4
  <2>12. Sectioned(t2, T, settings, by, n)
    BY <2>3, <2>8, <2>9, <2>10, <2>11 DEF Sectioned, Is, Row
  <2> QED
    BY <2>12 DEF t2, s
<1>6. CASE found # {}
  <2>0. PICK f \in DOMAIN t : t[f].group = group
    BY <1>6
  <2>1. found = {f}
    BY <1>3, <2>0
  <2>2. t2 = [g \in DOMAIN t |-> IF g = f THEN [t[g] EXCEPT !.settings = Append(@, s)] ELSE t[g]]
    BY <1>6, <2>1 DEF Place
  <2> HIDE DEF t2, found, Was, Is, group, s
  <2>3. \A g \in DOMAIN t : t[g].group \in {Grouper(by, x) : x \in T} /\ t[g].settings \in Seq(T)
    BY <1>4
  <2>4. /\ DOMAIN t2 = DOMAIN t
        /\ \A g \in DOMAIN t : t2[g].group = t[g].group
        /\ \A g \in DOMAIN t : t2[g].settings = IF g = f THEN Append(t[g].settings, s) ELSE t[g].settings
    BY <1>4, <2>2
  <2>5. t2 \in Seq(Row)
    <3>1. \A g \in DOMAIN t : t2[g] \in Row
      <4> TAKE g \in DOMAIN t
      <4>1. CASE g = f
        <5>1. Append(t[g].settings, s) \in Seq(T)
          BY <1>1, <2>3, AppendProperties
        <5> QED
          BY <1>4, <2>2, <4>1, <5>1
      <4>2. CASE g # f
        BY <1>4, <2>2, <4>2
      <4> QED
        BY <4>1, <4>2
    <3> HIDE DEF Row
    <3>2. t2 = [g \in 1..Len(t) |-> t2[g]]
      BY <1>1, <2>2
    <3> QED
      BY <1>1, <3>1, <3>2, IsASeq
  <2> HIDE DEF Row
  <2>6. \A g, h \in DOMAIN t2 : g # h => t2[g].group # t2[h].group
    BY <1>3, <2>4
  <2>7. \A i \in 1..n : \E g \in DOMAIN t2 : t2[g].group = Grouper(by, settings[i])
    <3> TAKE i \in 1..n
    <3>1. CASE i = n
      BY <2>0, <2>4, <3>1 DEF group, s
    <3>2. CASE i # n
      <4>1. i \in 1..(n - 1)
        BY <1>1, <3>2
      <4> QED
        BY <1>3, <2>4, <4>1
    <3> QED
      BY <3>1, <3>2
  <2>8. ASSUME NEW g \in DOMAIN t2
        PROVE  Is(t2[g].group) # {} /\ Takes(t2[g].settings, settings, Is(t2[g].group))
    <3>0. Was(t[g].group) # {} /\ Takes(t[g].settings, settings, Was(t[g].group))
      BY <1>3, <2>4
    <3>1. CASE g = f
      <4>1. /\ Is(t2[g].group) = Was(t[g].group) \union {n}
            /\ t2[g].settings = Append(t[g].settings, settings[n])
        BY <1>2, <2>0, <2>4, <3>1 DEF s
      <4>2. Was(t[g].group) \in SUBSET Nat /\ \A j \in Was(t[g].group) : j < n
        BY <1>1, <1>2
      <4>3. t[g].settings \in Seq(T) /\ settings[n] \in T
        BY <1>1, <2>3, <2>4 DEF s
      <4>4. Takes(Append(t[g].settings, settings[n]), settings, Was(t[g].group) \union {n})
        BY <1>1, <3>0, <4>2, <4>3, TakesOneMore
      <4> QED
        BY <4>1, <4>4
    <3>2. CASE g # f
      <4>1. t2[g].group = t[g].group /\ t[g].group # group /\ t2[g].settings = t[g].settings
        BY <1>3, <2>0, <2>4, <3>2
      <4> QED
        BY <1>2, <3>0, <4>1
    <3> QED
      BY <3>1, <3>2
  <2>9. ASSUME NEW g \in DOMAIN t2, NEW h \in DOMAIN t2, g < h
        PROVE  \E i \in Is(t2[g].group) : \A j \in Is(t2[h].group) : i < j
    <3>1. PICK i \in Was(t[g].group) : \A j \in Was(t[h].group) : i < j
      BY <1>3, <2>4, <2>9
    <3>2. i \in Is(t2[g].group) /\ i < n
      BY <1>1, <1>2, <2>4, <3>1
    <3>3. \A j \in Is(t2[h].group) : j = n \/ j \in Was(t[h].group)
      BY <1>2, <2>4
    <3> QED
      BY <3>1, <3>2, <3>3
  <2>10. Sectioned(t2, T, settings, by, n)
    BY <2>5, <2>6, <2>7, <2>8, <2>9 DEF Sectioned, Is, Row
  <2> QED
    BY <2>10 DEF t2, s
<1> QED
  BY <1>5, <1>6

\* groupSettings' sections before they are sorted.
LEMMA SectionsHold ==
    ASSUME NEW T, NEW settings \in Seq(T), NEW by
    PROVE  Sectioned(Sections(settings, by), T, settings, by, Len(settings))
<1>1. Len(settings) \in Nat
  BY LenProperties
<1>2. PICK f : Turns(f, settings, by, Len(settings)) /\ Sections(settings, by) = f[Len(settings)]
  BY SectionsUnfold
<1>3. \A m \in 0..Len(settings) :
          f[m] = IF m = 0 THEN <<>> ELSE Place(by, f[m - 1], settings[m])
  BY <1>2 DEF Turns
<1> DEFINE P(m) == Sectioned(f[m], T, settings, by, m)
<1>4. P(0)
  <2>1. f[0] = <<>>
    BY <1>1, <1>3
  <2> QED
    BY <2>1, EmptySeq DEF Sectioned
<1>5. ASSUME NEW m \in 1..Len(settings), P(m - 1) PROVE P(m)
  BY <1>1, <1>3, <1>5, PlaceSections
<1> DEFINE Bad == {m \in 0..Len(settings) : ~P(m)}
<1>6. ASSUME Bad # {} PROVE FALSE
  <2> DEFINE F == {1..m : m \in Bad}
  <2>1. IsWellFoundedOn(StrictSubsetOrdering(Nat), FiniteSubsetsOf(Nat))
    BY FS_StrictSubsetOrderingWellFounded
  <2>2. F \subseteq FiniteSubsetsOf(Nat) /\ F # {}
    <3>1. \A m \in Nat : IsFiniteSet(1..m) /\ 1..m \subseteq Nat
      BY FS_Interval
    <3>2. Bad \subseteq Nat
      BY <1>1
    <3> HIDE DEF Bad
    <3> QED
      BY <1>6, <3>1, <3>2 DEF FiniteSubsetsOf
  <2>3. \E U \in F : \A W \in F : <<W, U>> \notin StrictSubsetOrdering(Nat)
    <3> HIDE DEF F
    <3> QED
      BY <2>1, <2>2, WFMin
  <2>4. PICK m \in Bad : \A k \in Bad : <<1..k, 1..m>> \notin StrictSubsetOrdering(Nat)
    BY <2>3
  <2> HIDE DEF P
  <2>5. m \in 1..Len(settings) /\ m - 1 \in 0..Len(settings)
    BY <1>1, <1>4
  <2>6. m - 1 \in Bad
    BY <1>5, <2>5
  <2>7. 1..(m - 1) \subseteq 1..m /\ 1..(m - 1) # 1..m
    BY <2>5
  <2>8. <<1..(m - 1), 1..m>> \in StrictSubsetOrdering(Nat)
    BY <2>5, <2>7 DEF StrictSubsetOrdering
  <2> QED
    BY <2>4, <2>6, <2>8
<1> QED
  BY <1>1, <1>2, <1>6

LEMMA PlacesAreFinite ==
    ASSUME NEW n \in Nat, NEW places \in SUBSET (1..n)
    PROVE  IsFiniteSet(places) /\ places \in SUBSET Nat
<1>1. IsFiniteSet(1..n) /\ places \subseteq 1..n
  BY FS_Interval
<1>2. IsFiniteSet(places)
  BY <1>1, FS_Subset, Zenon
<1> QED
  BY <1>2

\* The last of the places of a list.
LEMMA LatestIsLast ==
    ASSUME NEW n \in Nat, NEW places \in SUBSET (1..n), places # {}
    PROVE  Latest(places) \in places /\ \A j \in places : j <= Latest(places)
<1>1. IsFiniteSet(places) /\ places \in SUBSET Nat
  BY PlacesAreFinite
<1>2. PICK k \in places : \A j \in places \ {k} : <<j, k>> \in Ascending(places)
  <2> DEFINE before == Ascending(places)
  <2>1. LinearOn(places, before)
    BY <1>1, AscendingIsLinear
  <2> HIDE DEF before
  <2>2. \E k \in places : \A j \in places \ {k} : <<j, k>> \in before
    BY <1>1, <2>1, LastPlace, Zenon
  <2> QED
    BY <2>2 DEF before
<1>3. \A j \in places : j <= k
  <2> TAKE j \in places
  <2>1. j \in Nat /\ k \in Nat /\ (j # k => j < k)
    BY <1>1, <1>2 DEF Ascending
  <2> QED
    BY <2>1
<1> QED
  BY <1>3 DEF Latest

\* The first of them: what comes last when the order is turned round.
LEMMA EarliestIsFirst ==
    ASSUME NEW n \in Nat, NEW places \in SUBSET (1..n), places # {}
    PROVE  Earliest(places) \in places /\ \A j \in places : Earliest(places) <= j
<1> DEFINE before == {p \in places \X places : p[2] < p[1]}
<1>1. IsFiniteSet(places) /\ places \in SUBSET Nat
  BY PlacesAreFinite
<1>2. LinearOn(places, before)
  BY <1>1 DEF LinearOn
<1>3. PICK k \in places : \A j \in places \ {k} : <<j, k>> \in before
  <2> HIDE DEF before
  <2> QED
    BY <1>1, <1>2, LastPlace, Zenon
<1>4. \A j \in places : k <= j
  <2> TAKE j \in places
  <2>1. j \in Nat /\ k \in Nat /\ (j # k => k < j)
    BY <1>1, <1>3
  <2> QED
    BY <2>1
<1> QED
  BY <1>4 DEF Earliest

\* The rank of a key: a place the order gives it, or one after all of them.
LEMMA RankOfKey ==
    ASSUME NEW T, NEW order \in Seq(T), NEW key
    PROVE  /\ Rank(order, key) \in 1..(Len(order) + 1)
           /\ Rank(order, key) <= Len(order) => order[Rank(order, key)] = key
           /\ Rank(order, key) = Len(order) + 1 <=> \A i \in DOMAIN order : order[i] # key
<1> DEFINE places == {i \in DOMAIN order : order[i] = key}
<1>1. Len(order) \in Nat /\ DOMAIN order = 1..Len(order)
  BY LenProperties
<1>2. CASE places = {}
  <2>1. Rank(order, key) = Len(order) + 1
    BY <1>2 DEF Rank
  <2> QED
    BY <1>1, <1>2, <2>1
<1>3. CASE places # {}
  <2>1. Rank(order, key) = Latest(places)
    BY <1>3 DEF Rank
  <2>2. Latest(places) \in places
    BY <1>1, <1>3, LatestIsLast
  <2> QED
    BY <1>1, <2>1, <2>2
<1> QED
  BY <1>2, <1>3

\* q says which section each sorted one is: each once, by rank, and by appearance
\* within a rank.
SortsSections(q, t, order) ==
    /\ q \in [1..Len(t) -> 1..Len(t)]
    /\ Sorted(t, DOMAIN t, Precedes(order, t)) = [n \in 1..Len(t) |-> t[q[n]]]
    /\ \A k \in 1..Len(t) : \E n \in 1..Len(t) : q[n] = k
    /\ \A m, n \in 1..Len(t) : q[m] = q[n] => m = n
    /\ \A m, n \in 1..Len(t) : m < n =>
           \/ Rank(order, Key(t[q[m]].group)) < Rank(order, Key(t[q[n]].group))
           \/ /\ Rank(order, Key(t[q[m]].group)) = Rank(order, Key(t[q[n]].group))
              /\ q[m] < q[n]

\* sections.sort.
LEMMA SectionsAreSorted ==
    ASSUME NEW X, NEW t \in Seq(X), NEW T, NEW order \in Seq(T)
    PROVE  \E q : SortsSections(q, t, order)
<1> DEFINE D == DOMAIN t
           R(i) == Rank(order, Key(t[i].group))
           before == Precedes(order, t)
           q == InOrder(D, before)
<1>1. D = 1..Len(t) /\ Len(t) \in Nat /\ Len(order) \in Nat
  BY LenProperties
<1>2. IsFiniteSet(D) /\ Cardinality(D) = Len(t)
  <2> DEFINE N == Len(t)
  <2>1. N \in Nat /\ D = 1..N
    BY <1>1
  <2> HIDE DEF N, D
  <2>2. IsFiniteSet(1..N) /\ Cardinality(1..N) = IF 1 > N THEN 0 ELSE N - 1 + 1
    BY <2>1, FS_Interval
  <2> QED
    BY <2>1, <2>2 DEF N
<1>3. \A i : R(i) \in Nat
  BY <1>1, RankOfKey
<1>4. before = {p \in D \X D : R(p[1]) < R(p[2]) \/ (R(p[1]) = R(p[2]) /\ p[1] < p[2])}
  BY DEF Precedes
<1>5. \A i, j \in D : <<i, j>> \in before <=> R(i) < R(j) \/ (R(i) = R(j) /\ i < j)
  <2> HIDE DEF R, before, D
  <2> QED
    BY <1>4
<1>6. LinearOn(D, before)
  <2> HIDE DEF R, before, D
  <2> QED
    BY <1>1, <1>3, <1>5 DEF LinearOn
<1>7. RunsThrough(q, D, before) /\ \A m, n \in 1..Len(t) : q[m] = q[n] => m = n
  BY <1>2, <1>6, InOrderRuns
<1>8. Sorted(t, D, before) = [n \in 1..Len(t) |-> t[q[n]]]
  BY <1>2 DEF Sorted
<1>9. /\ q \in [1..Len(t) -> D] /\ \A k \in D : \E n \in 1..Len(t) : q[n] = k
      /\ \A m, n \in 1..Len(t) : m < n => <<q[m], q[n]>> \in before
  BY <1>2, <1>7 DEF RunsThrough
<1>10. \A m, n \in 1..Len(t) : m < n => R(q[m]) < R(q[n]) \/ (R(q[m]) = R(q[n]) /\ q[m] < q[n])
  <2> HIDE DEF R, before, D, q
  <2> QED
    BY <1>5, <1>9
<1>11. q \in [1..Len(t) -> 1..Len(t)] /\ \A k \in 1..Len(t) : \E n \in 1..Len(t) : q[n] = k
  BY <1>1, <1>9
<1>12. SortsSections(q, t, order)
  <2> HIDE DEF q, before
  <2> QED
    BY <1>7, <1>8, <1>10, <1>11 DEF SortsSections, before
<1> QED
  BY <1>12

\* What groupSettings makes of a list.
LEMMA GroupsAreSections ==
    ASSUME NEW T, NEW picked \in Seq(T), NEW by, NEW U, NEW order \in Seq(U),
           NEW sections, sections = groupSettings(picked, by, order)
    PROVE  SharesOut(sections, picked, by, order)
<1> DEFINE t == Sections(picked, by)
           N == Len(t)
           X == [group : {Grouper(by, x) : x \in T}, settings : Seq(T)]
           R(i) == Rank(order, Key(t[i].group))
           Of(i) == InGroup(picked, by, t[i].group, Len(picked))
           In(g) == Members(picked, by, sections[g].group)
<1>1. Sectioned(t, T, picked, by, Len(picked))
  BY SectionsHold
<1>2. /\ t \in Seq(X) /\ DOMAIN t = 1..N /\ N \in Nat
      /\ DOMAIN picked = 1..Len(picked) /\ Len(picked) \in Nat
      /\ DOMAIN order = 1..Len(order) /\ Len(order) \in Nat
  BY <1>1, LenProperties DEF Sectioned
<1>3. /\ \A i, j \in 1..N : i # j => t[i].group # t[j].group
      /\ \A i \in 1..Len(picked) : \E j \in 1..N : t[j].group = Grouper(by, picked[i])
      /\ \A j \in 1..N : Of(j) # {} /\ Takes(t[j].settings, picked, Of(j))
      /\ \A i, j \in 1..N : i < j => \E k \in Of(i) : \A l \in Of(j) : k < l
  BY <1>1, <1>2 DEF Sectioned
<1>5a. PICK q : SortsSections(q, t, order)
  <2> HIDE DEF t, X
  <2> QED
    BY <1>2, SectionsAreSorted
<1>5. /\ q \in [1..N -> 1..N]
      /\ Sorted(t, DOMAIN t, Precedes(order, t)) = [n \in 1..N |-> t[q[n]]]
      /\ \A k \in 1..N : \E n \in 1..N : q[n] = k
      /\ \A m, n \in 1..N : q[m] = q[n] => m = n
      /\ \A m, n \in 1..N : m < n => R(q[m]) < R(q[n]) \/ (R(q[m]) = R(q[n]) /\ q[m] < q[n])
  BY <1>5a DEF SortsSections
<1>6. sections = [n \in 1..N |-> t[q[n]]]
  BY <1>5 DEF groupSettings
<1> HIDE DEF t, X, N
<1>7. DOMAIN sections = 1..N /\ \A g \in 1..N : q[g] \in 1..N /\ sections[g] = t[q[g]]
  BY <1>5, <1>6
<1>8. \A g \in 1..N : In(g) = Of(q[g])
  BY <1>2, <1>7 DEF InGroup, Members
<1>9. \A i \in DOMAIN picked : \E g \in DOMAIN sections : i \in In(g)
  <2> TAKE i \in DOMAIN picked
  <2>1. PICK j \in 1..N : t[j].group = Grouper(by, picked[i])
    BY <1>2, <1>3
  <2>2. PICK g \in 1..N : q[g] = j
    BY <1>5
  <2>3. i \in In(g)
    BY <1>7, <2>1, <2>2 DEF Members
  <2> QED
    BY <1>7, <2>3
<1>10. \A g \in DOMAIN sections : Takes(sections[g].settings, picked, In(g))
  BY <1>3, <1>7, <1>8
<1>11. ASSUME NEW g \in 1..N, NEW h \in 1..N, g < h
       PROVE  /\ sections[g].group # sections[h].group
              /\ ((\E i \in DOMAIN order : order[i] = Key(sections[h].group))
                  /\ Key(sections[g].group) # Key(sections[h].group)) =>
                     \E i, j \in DOMAIN order : /\ i < j
                                                /\ order[i] = Key(sections[g].group)
                                                /\ order[j] = Key(sections[h].group)
              /\ (~(\E i \in DOMAIN order : order[i] = Key(sections[g].group))
                  \/ Key(sections[g].group) = Key(sections[h].group)) =>
                     Earliest(In(g)) < Earliest(In(h))
  <2> DEFINE kg == Key(sections[g].group)
             kh == Key(sections[h].group)
             rg == Rank(order, kg)
             rh == Rank(order, kh)
  <2>1. sections[g].group # sections[h].group /\ q[g] # q[h]
    <3>1. q[g] # q[h]
      <4>1. g # h
        BY <1>2, <1>11
      <4> QED
        BY <1>5, <4>1
    <3>2. t[q[g]].group # t[q[h]].group
      BY <1>3, <1>7, <3>1
    <3> QED
      BY <1>7, <3>1, <3>2
  <2>2. kg = kh => rg = rh
    OBVIOUS
  <2>3. rg < rh \/ (rg = rh /\ q[g] < q[h])
    <3>1. rg = R(q[g]) /\ rh = R(q[h])
      BY <1>7
    <3>2. R(q[g]) < R(q[h]) \/ (R(q[g]) = R(q[h]) /\ q[g] < q[h])
      <4> HIDE DEF R
      <4> QED
        BY <1>5, <1>11
    <3> HIDE DEF R, rg, rh
    <3> QED
      BY <3>1, <3>2
  <2>4. /\ rg \in 1..(Len(order) + 1) /\ rh \in 1..(Len(order) + 1)
        /\ rg <= Len(order) => order[rg] = kg
        /\ rh <= Len(order) => order[rh] = kh
        /\ rg = Len(order) + 1 <=> \A i \in DOMAIN order : order[i] # kg
        /\ rh = Len(order) + 1 <=> \A i \in DOMAIN order : order[i] # kh
    BY RankOfKey
  <2> HIDE DEF kg, kh, rg, rh
  <2>5. ASSUME \E i \in DOMAIN order : order[i] = kh, kg # kh
        PROVE  \E i, j \in DOMAIN order : i < j /\ order[i] = kg /\ order[j] = kh
    <3>1. rh \in 1..Len(order) /\ order[rh] = kh
      <4>1. rh # Len(order) + 1
        BY <2>4, <2>5
      <4> QED
        BY <1>2, <2>4, <4>1
    <3>2. rg \in 1..Len(order) /\ order[rg] = kg /\ rg < rh
      BY <1>2, <2>3, <2>4, <2>5, <3>1
    <3> QED
      BY <1>2, <3>1, <3>2
  <2>6. ASSUME (~\E i \in DOMAIN order : order[i] = kg) \/ kg = kh
        PROVE  Earliest(In(g)) < Earliest(In(h))
    <3>1. q[g] < q[h]
      BY <1>2, <2>2, <2>3, <2>4, <2>6
    <3>2. PICK k \in Of(q[g]) : \A l \in Of(q[h]) : k < l
      BY <1>3, <1>7, <3>1
    <3>3. /\ In(g) = Of(q[g]) /\ In(h) = Of(q[h])
          /\ In(g) # {} /\ In(g) \in SUBSET (1..Len(picked))
          /\ In(h) # {} /\ In(h) \in SUBSET (1..Len(picked))
      <4>1. In(g) = Of(q[g]) /\ In(h) = Of(q[h])
        BY <1>8
      <4>2. Of(q[g]) # {} /\ Of(q[h]) # {}
        BY <1>3, <1>7
      <4>3. Of(q[g]) \in SUBSET (1..Len(picked)) /\ Of(q[h]) \in SUBSET (1..Len(picked))
        BY DEF InGroup
      <4> HIDE DEF Of
      <4> QED
        BY <4>1, <4>2, <4>3
    <3>4. /\ Earliest(In(h)) \in In(h) /\ Earliest(In(g)) \in In(g)
          /\ \A j \in In(g) : Earliest(In(g)) <= j
      BY <1>2, <3>3, EarliestIsFirst
    <3>5. /\ Earliest(In(g)) <= k /\ k < Earliest(In(h))
          /\ k \in Nat /\ Earliest(In(g)) \in Nat /\ Earliest(In(h)) \in Nat
      BY <3>2, <3>3, <3>4
    <3> QED
      BY <3>5
  <2> QED
    BY <2>1, <2>5, <2>6 DEF kg, kh
<1> QED
  BY <1>7, <1>9, <1>10, <1>11 DEF SharesOut

\* settings.find is the first setting of that name.
LEMMA NamedIsFound ==
    ASSUME NEW T, NEW settings \in Seq(T), NEW name, Named(settings, name) # {}
    PROVE  /\ settings[Earliest(Named(settings, name))] \in T
           /\ settings[Earliest(Named(settings, name))].name = name
           /\ Earliest(Named(settings, name)) \in Named(settings, name)
           /\ \A k \in Named(settings, name) : Earliest(Named(settings, name)) <= k
<1>1. DOMAIN settings = 1..Len(settings) /\ Len(settings) \in Nat
  BY LenProperties
<1>2. Named(settings, name) \in SUBSET (1..Len(settings))
  BY <1>1 DEF Named
<1>3. /\ Earliest(Named(settings, name)) \in Named(settings, name)
      /\ \A k \in Named(settings, name) : Earliest(Named(settings, name)) <= k
  BY <1>1, <1>2, EarliestIsFirst
<1> QED
  BY <1>3, ElementOfSeq, <1>1 DEF Named

\* selectSettings with `names`: what is listed is what they ask for, in their order.
LEMMA NamesAreTaken ==
    ASSUME NEW T, NEW settings \in Seq(T), T = Elements(settings),
           NEW U, NEW names \in Seq(U), names # None, NEW kept,
           NEW picked, picked = selectSettings(settings, names, kept)
    PROVE  picked \in Seq(T) /\ ListsAsAsked(picked, settings, names, kept)
<1> DEFINE known == {i \in DOMAIN names : Named(settings, names[i]) # {}}
           found == Filtered(names, known)
           all == [i \in DOMAIN found |-> settings[Earliest(Named(settings, found[i]))]]
           asked == {i \in DOMAIN all : all[i].name \in kept}
           M == Cardinality(known)
           N == Cardinality(asked)
           wanted == {i \in DOMAIN names : names[i] \in kept /\ Named(settings, names[i]) # {}}
           First(x) == \E j \in Named(settings, x.name) :
                           settings[j] = x /\ \A k \in Named(settings, x.name) : j <= k
<1>1. picked = Filtered(all, asked)
  BY DEF selectSettings
<1>2. PICK p : KeepsInOrder(p, names, known)
  <2> known \in SUBSET DOMAIN names
    OBVIOUS
  <2> HIDE DEF known
  <2> QED
    BY FilterKeeps
<1>3. /\ M \in Nat /\ p \in [1..M -> known] /\ found = [n \in 1..M |-> names[p[n]]]
      /\ \A k \in known : \E n \in 1..M : p[n] = k
      /\ \A m, n \in 1..M : m < n => p[m] < p[n]
  BY <1>2 DEF KeepsInOrder
<1> HIDE DEF M, found, asked, First
<1>4. DOMAIN all = 1..M /\ \A n \in 1..M : /\ all[n] \in T /\ all[n].name = names[p[n]]
                                          /\ First(all[n])
  <2>1. DOMAIN all = 1..M
    BY <1>3
  <2>2. ASSUME NEW n \in 1..M
        PROVE  all[n] \in T /\ all[n].name = names[p[n]] /\ First(all[n])
    <3>1. found[n] = names[p[n]] /\ Named(settings, found[n]) # {}
      BY <1>3
    <3>2. all[n] = settings[Earliest(Named(settings, found[n]))]
      BY <1>3
    <3>3. /\ all[n] \in T /\ all[n].name = found[n]
          /\ Earliest(Named(settings, found[n])) \in Named(settings, found[n])
          /\ \A k \in Named(settings, found[n]) : Earliest(Named(settings, found[n])) <= k
      BY <3>1, <3>2, NamedIsFound
    <3>4. First(all[n])
      BY <3>2, <3>3 DEF First
    <3> QED
      BY <3>1, <3>3, <3>4
  <2> QED
    BY <2>1, <2>2
<1>5. all \in Seq(T)
  <2>1. all = [n \in 1..M |-> all[n]]
    BY <1>4
  <2>2. M \in Nat /\ \A n \in 1..M : all[n] \in T
    BY <1>3, <1>4
  <2> HIDE DEF all
  <2> QED
    BY <2>1, <2>2, IsASeq
<1> HIDE DEF all
<1>6. asked \in SUBSET DOMAIN all
  BY DEF asked
<1>7. PICK q : KeepsInOrder(q, all, asked)
  BY <1>5, <1>6, FilterKeeps
<1>8. /\ N \in Nat /\ q \in [1..N -> asked] /\ picked = [n \in 1..N |-> all[q[n]]]
      /\ \A k \in asked : \E n \in 1..N : q[n] = k
      /\ \A m, n \in 1..N : m < n => q[m] < q[n]
  BY <1>1, <1>7 DEF KeepsInOrder
<1>9. picked \in Seq(T)
  BY <1>1, <1>5, <1>6, FilterTakes
<1> HIDE DEF N, known, wanted
<1> DEFINE r == [n \in 1..N |-> p[q[n]]]
           listed == [i \in DOMAIN picked |-> picked[i].name]
<1>10. \A n \in 1..N : q[n] \in 1..M /\ q[n] \in asked /\ p[q[n]] \in known
  BY <1>3, <1>4, <1>6, <1>8
<1>11. \A n \in 1..N : listed[n] = names[p[q[n]]] /\ names[p[q[n]]] \in kept
  <2> TAKE n \in 1..N
  <2>1. picked[n] = all[q[n]] /\ n \in DOMAIN picked
    BY <1>8
  <2>2. all[q[n]].name = names[p[q[n]]] /\ all[q[n]].name \in kept
    BY <1>4, <1>10 DEF asked
  <2> QED
    BY <2>1, <2>2
<1>12. r \in [1..N -> wanted]
  <2>1. \A n \in 1..N : p[q[n]] \in wanted
    BY <1>10, <1>11 DEF known, wanted
  <2> QED
    BY <2>1
<1>13. ASSUME NEW k \in wanted PROVE \E n \in 1..N : r[n] = k
  <2>1. k \in known /\ names[k] \in kept
    BY DEF known, wanted
  <2>2. PICK m \in 1..M : p[m] = k
    BY <1>3, <2>1
  <2>3. m \in asked
    BY <1>4, <2>1, <2>2 DEF asked
  <2>4. PICK n \in 1..N : q[n] = m
    BY <1>8, <2>3
  <2> QED
    BY <2>2, <2>4
<1>14. \A m, n \in 1..N : m < n => r[m] < r[n]
  <2> TAKE m, n \in 1..N
  <2> HAVE m < n
  <2>1. q[m] < q[n] /\ q[m] \in 1..M /\ q[n] \in 1..M
    BY <1>8, <1>10
  <2>2. p[q[m]] < p[q[n]]
    BY <1>3, <2>1
  <2> QED
    BY <2>2
<1>15. DOMAIN listed = 1..N /\ \A n \in 1..N : listed[n] = names[r[n]]
  BY <1>8, <1>11
<1> HIDE DEF r, listed
<1>16. Takes(listed, names, wanted)
  <2>1. /\ r \in [DOMAIN listed -> wanted]
        /\ \A k \in wanted : \E n \in DOMAIN listed : r[n] = k
        /\ \A m, n \in DOMAIN listed : m < n => r[m] < r[n]
        /\ \A n \in DOMAIN listed : listed[n] = names[r[n]]
    BY <1>12, <1>13, <1>14, <1>15
  <2> QED
    BY <2>1 DEF Takes
<1>17. \A i \in DOMAIN picked : picked[i] \in T
  BY <1>9, ElementOfSeq, LenProperties
<1>18. \A i \in DOMAIN picked : First(picked[i])
  BY <1>4, <1>8, <1>10
<1> QED
  BY <1>9, <1>16, <1>17, <1>18 DEF ListsAsAsked, Elements, listed, wanted, First

\* selectSettings, with `names` and without.
LEMMA SelectionIsAsked ==
    ASSUME NEW T, NEW settings \in Seq(T), T = Elements(settings),
           NEW names, names # None => names \in Seq(Elements(names)), NEW kept,
           NEW picked, picked = selectSettings(settings, names, kept)
    PROVE  picked \in Seq(T) /\ ListsAsAsked(picked, settings, names, kept)
<1>1. CASE names = None
  <2> DEFINE places == {i \in DOMAIN settings : settings[i].name \in kept}
  <2>1. picked = Filtered(settings, places) /\ places \in SUBSET DOMAIN settings
    BY <1>1 DEF selectSettings
  <2> HIDE DEF places
  <2>2. picked \in Seq(T) /\ Takes(picked, settings, places)
    BY <2>1, FilterTakes
  <2>3. \A i \in DOMAIN picked : picked[i] \in T
    BY <2>2, ElementOfSeq, LenProperties
  <2> QED
    BY <1>1, <2>2, <2>3 DEF ListsAsAsked, Elements, places
<1>2. CASE names # None
  BY <1>2, NamesAreTaken
<1> QED
  BY <1>1, <1>2

\* setting-list.tsx 31-42, 196-225 and grouping.ts 40-74: for any resolutions, names,
\* filters, groupings and orders, repeated names and colliding keys included, a list
\* shows each setting as often as it is asked for, where it is asked for.
THEOREM ListsShowWhatIsAsked == Spec => []ListShowsWhatIsAsked
<1>1. ASSUME NEW settings \in Resolved, NEW names \in NameLists, NEW kept \in Filters,
             NEW by \in GroupBys, NEW order \in Orders,
             NEW picked, picked = selectSettings(settings, names, kept)
      PROVE  /\ ListsAsAsked(picked, settings, names, kept)
             /\ SharesOut(groupSettings(picked, by, order), picked, by, order)
  <2> DEFINE T == Elements(settings)
  <2>1. /\ settings \in Seq(T)
        /\ names # None => names \in Seq(Elements(names))
        /\ order \in Seq(Elements(order))
    BY ListAssumption DEF Elements
  <2>2. picked \in Seq(T) /\ ListsAsAsked(picked, settings, names, kept)
    <3>1. T = Elements(settings)
      OBVIOUS
    <3> HIDE DEF T
    <3> QED
      BY <1>1, <2>1, <3>1, SelectionIsAsked
  <2>3. SharesOut(groupSettings(picked, by, order), picked, by, order)
    <3> HIDE DEF T
    <3> QED
      BY <2>1, <2>2, GroupsAreSections
  <2> QED
    BY <2>2, <2>3
<1>2. ListShowsWhatIsAsked
  BY <1>1 DEF ListShowsWhatIsAsked
<1>3. UntouchedTextIsTheValue => ListShowsWhatIsAsked
  BY <1>2
<1> QED
  BY <1>3, UntouchedInit, UntouchedNext, PTL DEF Spec
=============================================================================
