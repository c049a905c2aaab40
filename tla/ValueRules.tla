------------------------------ MODULE ValueRules ------------------------------
(***************************************************************************)
(* The type rules of a setting as the React library checks them before a   *)
(* write (lib/app-settings/values.ts), the rules the server applies        *)
(* (internal/valuetype), and what the text inputs render and read.         *)
(*                                                                         *)
(* A value is a record tagged with its JSON type, t, and holding what the  *)
(* rules ask of it.  A string keeps its length in UTF-16 units and in code *)
(* points, whether the pattern matches it for JavaScript and for RE2, the  *)
(* number it is in quotes, if it is one, and its shape as a date-time with *)
(* the instant it denotes; a number keeps whether it is whole and whether  *)
(* JSON.stringify writes it as a 64-bit integer; `text` is its spelling.   *)
(* A setting's rules are a record too, with None for a rule that is not    *)
(* given.                                                                  *)
(*                                                                         *)
(* The two sides read date-times by parsers of their own.  Both take the   *)
(* shape "rfc3339".  Only Date.parse takes an "overflowing" one, with the  *)
(* hour 24 or a day past its month's end, and only time.Parse, which comes *)
(* after a trim, a "padded" one.                                           *)
(***************************************************************************)
EXTENDS Datetime, Sequences, FiniteSets

CONSTANTS
    None,           \* no rule; no value
    NumberOf,       \* what Number(text) reads: a number, or None
    JsonOf          \* what JSON.parse(text) reads: a value, or None

Null == [t |-> "null", text |-> <<"null">>]
Number(n) == [t |-> "number", text |-> <<"number", n>>, n |-> n, whole |-> TRUE, plain |-> TRUE]
Boolean(b) == [t |-> "boolean", text |-> <<IF b THEN "true" ELSE "false">>]
List(items) == [t |-> "array", text |-> <<"array">>, items |-> items]
Text(spelling) == [t |-> "string", text |-> spelling, units |-> Len(spelling), points |-> Len(spelling),
                   js |-> TRUE, re2 |-> TRUE, num |-> {}, shape |-> "other", at |-> 0]

\* A string that denotes an instant; toISOString and the server spell it differently.
Instant(i, spelling) == [Text(<<spelling, i>>) EXCEPT !.shape = "rfc3339", !.at = i]
toInstant(i) == Instant(i, "iso")
Stored(i) == Instant(i, "utc")

\* The library's reading of a date-time.
isInstant(v) == v.t = "string" /\ v.shape \in {"rfc3339", "overflowing"}

InRange(n, min, max) == (min # None => n >= min) /\ (max # None => n <= max)
isMultiSelect(s) == s.type = "SELECT" /\ s.multiple

\* The string form of an option's value: its JSON, or the string itself.
optionToken(v) == v.text
Elements(list) == {list[i] : i \in DOMAIN list}
Options(s) == Elements(s.options)
Tokens(s) == {optionToken(o) : o \in Options(s)}

\* The values a SELECT's value chooses, and their tokens: nothing for null.
Chosen(s, v) ==
    IF isMultiSelect(s) /\ v.t = "array" THEN Elements(v.items) ELSE {v}
chosen(s, v) == IF v.t = "null" THEN {} ELSE {optionToken(c) : c \in Chosen(s, v)}

\* Mutant of validateValue: a value that is no list stands for the list of it.
validateValueLoosely(s, v) ==
    \/ s.type = "BOOLEAN" /\ v.t = "boolean"
    \/ s.type = "NUMBER" /\ v.t = "number" /\ (s.integer => v.whole) /\ InRange(v.n, s.min, s.max)
    \/ s.type = "STRING" /\ v.t = "string" /\ InRange(v.units, s.min, s.max) /\ (s.pattern => v.js)
    \/ s.type = "DATETIME" /\ isInstant(v)
    \/ s.type = "SELECT" /\ \A c \in Chosen(s, v) : optionToken(c) \in Tokens(s)
    \/ s.type = "JSON"

\* validateValue returns no problem.  Which of several it names is left out.
validateValue(s, v) ==
    \/ s.type = "BOOLEAN" /\ v.t = "boolean"
    \/ s.type = "NUMBER" /\ v.t = "number" /\ (s.integer => v.whole) /\ InRange(v.n, s.min, s.max)
    \/ s.type = "STRING" /\ v.t = "string" /\ InRange(v.units, s.min, s.max) /\ (s.pattern => v.js)
    \/ s.type = "DATETIME" /\ isInstant(v)
    \/ /\ s.type = "SELECT" /\ (isMultiSelect(s) => v.t = "array")
       /\ \A c \in Chosen(s, v) : optionToken(c) \in Tokens(s)
    \/ s.type = "JSON"

-----------------------------------------------------------------------------
\* The server's reading of one.
isDateTime(v) == v.t = "string" /\ v.shape \in {"rfc3339", "padded"}

\* What Go decodes of a JSON value for a type, as it is stored, or nothing: json.Number
\* takes a number in quotes, null leaves the zero value, a date-time becomes UTC.
decoded(type, v) ==
    CASE type = "BOOLEAN" /\ v.t = "boolean" -> {v}
      [] type = "BOOLEAN" /\ v.t = "null" -> {Boolean(FALSE)}
      [] type = "NUMBER" /\ v.t = "number" -> {v}
      [] type = "NUMBER" /\ v.t = "string" -> v.num
      [] type = "STRING" /\ v.t = "string" -> {v}
      [] type = "STRING" /\ v.t = "null" -> {Text(<<>>)}
      [] type = "DATETIME" /\ isDateTime(v) -> {Stored(v.at)}
      [] OTHER -> {}

\* What each check returns is a set: what the server stores of the value, or nothing
\* where it refuses the value.
validateScalar(type, s, v) ==
    {c \in decoded(type, v) :
        /\ type = "NUMBER" => (s.integer => c.plain) /\ InRange(c.n, s.min, s.max)
        /\ type = "STRING" => InRange(c.points, s.min, s.max) /\ (s.pattern => c.re2)}

\* Of two stored values of one type.
valuesEqual(type, a, b) == IF type = "NUMBER" THEN a.n = b.n ELSE a.text = b.text

\* The rules of a SELECT are those of its options too.
matchOption(s, v) ==
    {o \in Options(s) : \E c \in validateScalar(s.of, s, v) : valuesEqual(s.of, o, c)}

validateSelect(s, v) ==
    CASE ~s.multiple -> matchOption(s, v)
      [] s.multiple /\ v.t = "array" ->
             {List(q) : q \in {q \in [DOMAIN v.items -> Options(s)] :
                 /\ \A i \in DOMAIN q : q[i] \in matchOption(s, v.items[i])
                 /\ \A i, j \in DOMAIN q : i # j => ~valuesEqual(s.of, q[i], q[j])}}
      [] OTHER -> {}

Validate(s, v) ==
    CASE s.type = "JSON" -> {v}
      [] s.type # "JSON" /\ v.t = "null" -> {}
      [] s.type = "SELECT" /\ v.t # "null" -> validateSelect(s, v)
      [] OTHER -> validateScalar(s.type, s, v)

\* Where the two are known to part.  About a string: its length and its pattern.  About
\* a number: an integer that JSON does not spell in 64 bits, and a number in quotes.
\* About an instant: the shapes that only one side reads.
KnownScalarDifference(s, v) ==
    \/ s.type = "STRING" /\ v.t = "string" /\ (v.units # v.points \/ v.js # v.re2)
    \/ s.type = "NUMBER" /\ s.integer /\ v.t = "number" /\ v.whole /\ ~v.plain
    \/ s.type = "NUMBER" /\ v.t = "string" /\ v.num # {}
    \/ s.type = "DATETIME" /\ v.t = "string" /\ v.shape \in {"overflowing", "padded"}

\* About a choice: null in a list, a number in quotes, an option's instant spelled
\* otherwise, an option's spelling by a value of another type.
KnownChoiceDifference(s, c) ==
    \/ c.t = "null" /\ isMultiSelect(s) /\ s.of \in {"BOOLEAN", "STRING"}
    \/ c.t = "string" /\ s.of = "NUMBER" /\ c.num # {}
    \/ \E o \in Options(s) :
           \/ s.of = "DATETIME" /\ isDateTime(c) /\ c.at = o.at /\ optionToken(c) # optionToken(o)
           \/ optionToken(c) = optionToken(o) /\ c.t # o.t

\* And about a list: one token twice.
KnownDifference(s, v) ==
    \/ KnownScalarDifference(s, v)
    \/ s.type = "SELECT" /\ \E c \in Chosen(s, v) : KnownChoiceDifference(s, c)
    \/ isMultiSelect(s) /\ v.t = "array" /\ \E i, j \in DOMAIN v.items :
           i # j /\ optionToken(v.items[i]) = optionToken(v.items[j])

-----------------------------------------------------------------------------
\* The places of a finite set, by an order of them; sort and filter of arrays.
InOrder(places, before) ==
    CHOOSE q \in [1..Cardinality(places) -> places] :
        /\ \A k \in places : \E n \in DOMAIN q : q[n] = k
        /\ \A m, n \in DOMAIN q : m < n => <<q[m], q[n]>> \in before
Sorted(s, places, before) == [n \in 1..Cardinality(places) |-> s[InOrder(places, before)[n]]]
Filtered(s, places) == Sorted(s, places, {p \in places \X places : p[1] < p[2]})

\* SettingSelect: the options still chosen after one is ticked or unticked, in
\* the order of the options; what was chosen and is offered no more is dropped.
onCheckedChange(s, v, option, checked) ==
    LET Kept(o) == IF optionToken(o) = optionToken(option) THEN checked
                   ELSE optionToken(o) \in chosen(s, v)
    IN List(Filtered(s.options, {i \in DOMAIN s.options : Kept(s.options[i])}))

\* What a switch or a select may hand over for the value it shows.
Choices(s, v) ==
    CASE s.type = "BOOLEAN" -> {Boolean(v # Boolean(TRUE))}
      [] isMultiSelect(s) ->
             {onCheckedChange(s, v, o, optionToken(o) \notin chosen(s, v)) : o \in Options(s)}
      [] s.type = "SELECT" /\ ~s.multiple -> {o \in Options(s) : optionToken(o) \notin chosen(s, v)}
      [] OTHER -> {}

\* What a control starts from: the value, or the type's empty one.
emptyValue(s) ==
    CASE s.type = "BOOLEAN" -> Boolean(FALSE)
      [] s.type = "NUMBER" -> Number(IF s.min # None THEN s.min ELSE 0)
      [] s.type \in {"STRING", "DATETIME"} -> Text(<<>>)
      [] s.type = "SELECT" /\ s.multiple -> List(<<>>)
      [] OTHER -> Null
controlValue(s, v) == IF v.t = "null" THEN emptyValue(s) ELSE v

\* What the text inputs render of a value, and read back: a value, or None where
\* the text is not of the type.
FormatNumber(v) == IF v.t = "number" THEN v.text ELSE <<>>
ParseNumber(text) == IF text = <<>> THEN None ELSE NumberOf[text]

FormatText(v) == IF v.t = "string" THEN v.text ELSE <<>>
ParseText(text) == Text(text)

FormatDateTime(v) == IF isInstant(v) THEN <<"reading", toDateTimeLocal(v.at)>> ELSE <<>>
ParseDateTime(text) ==
    IF text = <<>> THEN Text(<<>>)
    ELSE IF text[1] = "reading" THEN toInstant(localToInstant(text[2])) ELSE None

FormatJson(v) == IF v.t = "null" THEN <<>> ELSE v.text
ParseJson(text) == IF text = <<>> THEN Null ELSE JsonOf[text]

\* The control of each type; a switch and a select have no text.
TextTypes == {"NUMBER", "STRING", "DATETIME", "JSON"}
FormatInput(s, v) ==
    CASE s.type = "NUMBER" -> FormatNumber(v)
      [] s.type = "STRING" -> FormatText(v)
      [] s.type = "DATETIME" -> FormatDateTime(v)
      [] s.type = "JSON" -> FormatJson(v)
      [] OTHER -> <<>>
ParseInput(s, text) ==
    CASE s.type = "NUMBER" -> ParseNumber(text)
      [] s.type = "STRING" -> ParseText(text)
      [] s.type = "DATETIME" -> ParseDateTime(text)
      [] s.type = "JSON" -> ParseJson(text)
      [] OTHER -> None
=============================================================================
