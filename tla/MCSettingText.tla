---------------------------- MODULE MCSettingText ----------------------------
(* SettingText with one setting of each kind and values at the edges of its
   rules, and SettingList with five of them in lists. *)
EXTENDS SettingList

Rules(type) == [type |-> type, of |-> type, integer |-> FALSE, min |-> None, max |-> None,
                pattern |-> FALSE, multiple |-> FALSE, options |-> <<>>]
Choice(of, options, multiple) ==
    [Rules("SELECT") EXCEPT !.of = of, !.options = options, !.multiple = multiple]

Limit == [Rules("NUMBER") EXCEPT !.integer = TRUE, !.min = 0, !.max = 100]
Name == [Rules("STRING") EXCEPT !.min = 1, !.max = 2, !.pattern = TRUE]
Cutoff == Rules("DATETIME")
Blob == Rules("JSON")
Flag == Rules("BOOLEAN")
Quoted(n) == [Text(n.text) EXCEPT !.num = {n}]
Theme == Choice("STRING", <<Text(<<"dark">>), Quoted(Number(1)), Text(<<>>)>>, FALSE)
Tags == [Theme EXCEPT !.multiple = TRUE]
Sizes == [Choice("NUMBER", <<Number(1), Number(2)>>, TRUE) EXCEPT !.integer = TRUE, !.max = 2]
Days == Choice("BOOLEAN", <<Boolean(TRUE), Boolean(FALSE)>>, TRUE)
Launch == Choice("DATETIME", <<Stored(0), Stored(3600)>>, FALSE)
Windows == [Launch EXCEPT !.multiple = TRUE]

Half == [Number(7) EXCEPT !.text = <<"7.5">>, !.whole = FALSE, !.plain = FALSE]
Huge == [Number(9) EXCEPT !.text = <<"1e21">>, !.plain = FALSE]
Numbers == {Number(0), Number(7), Number(100), Number(101), Half, Huge}

\* One code point of two units; a string only RE2 matches, and one only JavaScript does.
Emoji == [Text(<<"moon">>) EXCEPT !.units = 2]
Moons == [Text(<<"moon", "moon">>) EXCEPT !.units = 4]
Greek == [Text(<<"pi">>) EXCEPT !.js = FALSE]
Latin == [Text(<<"e">>) EXCEPT !.re2 = FALSE]
Strings == {Text(<<>>), Text(<<"a">>), Text(<<"a", "b", "c">>), Emoji, Moons, Greek, Latin}

\* 24:00 of the day before, and the instant with a space after it.
Midnight(i) == [Instant(i, "24:00") EXCEPT !.shape = "overflowing"]
Padded(i) == [Instant(i, "space") EXCEPT !.shape = "padded"]

One == [Number(1) EXCEPT !.text = <<"1.0">>, !.plain = FALSE]
Lists == {List(<<>>), List(<<Number(1)>>), List(<<Number(2), Number(1)>>), List(<<Number(1), Number(1)>>),
          List(<<Number(3)>>), List(<<Quoted(Number(1))>>), List(<<Quoted(One)>>), List(<<Null>>),
          List(<<Number(1), Quoted(Number(1))>>)}
NullLists == {List(<<Null>>), List(<<Boolean(TRUE), Null>>), List(<<Null, Boolean(FALSE)>>), Null}
Object == [t |-> "object", text |-> <<"object">>]

\* Clocks go forward an hour at 10:00, so that 05:00 to 06:00 is skipped.
MCChange == 36000
MCBefore == 18000
MCAfter == 14400
Instants == {MCChange - 3600, MCChange - 1, MCChange, MCChange + 61}

MCSetting == {Limit, Name, Cutoff, Blob, Flag, Theme, Tags, Sizes, Days, Launch, Windows}
MCValueOf ==
    [s \in MCSetting |->
        CASE s = Limit -> Numbers \union {Quoted(Number(7)), Quoted(Half), Null}
          [] s = Name -> Strings \union {Null, Number(7)}
          [] s = Cutoff -> {Stored(i) : i \in Instants} 
                                \union {toInstant(MCChange + 61), Midnight(MCChange), Padded(MCChange), Null}
          [] s = Blob -> {Null, Boolean(TRUE), Object, Number(7)}
          [] s = Flag -> {Boolean(TRUE), Null, Text(<<"true">>)}
          [] s = Theme -> {Text(<<"dark">>), Text(<<"light">>), Quoted(Number(1)), Number(1), Null}
          [] s = Tags -> {List(<<Null>>), List(<<Null, Text(<<>>)>>), List(<<Text(<<"dark">>)>>), List(<<Number(1)>>)}
          [] s = Sizes -> Lists \union {Number(1), Null}
          [] s = Days -> NullLists
          [] s = Launch -> {Stored(0), toInstant(0), Padded(0), Midnight(0), Stored(60), Null}
          [] s = Windows -> {List(<<Stored(0), Padded(0)>>), List(<<Midnight(0)>>), List(<<Stored(3600), Stored(0)>>)}]
MCTextOf ==
    [s \in MCSetting |->
        CASE s = Limit -> {n.text : n \in Numbers} \union {<<"007">>, <<"junk">>, <<>>}
          [] s = Name -> {v.text : v \in Strings}
          [] s = Cutoff -> {<<"reading", r>> : r \in {14400, 18000, 19800, 21600, 21661}}
                           \union {<<"junk">>, <<>>}
          [] s = Blob -> {<<"true">>, <<"object">>, <<"{">>, <<>>}
          [] OTHER -> {}]

Spelled(values, t) == IF \E v \in values : v.text = t THEN CHOOSE v \in values : v.text = t ELSE None
MCNumberOf ==
    [t \in MCTextOf[Limit] \union {v.text : v \in Numbers} |->
        IF t = <<"007">> THEN Number(7) ELSE Spelled(Numbers, t)]
MCJsonOf ==
    [t \in MCTextOf[Blob] \union {v.text : v \in MCValueOf[Blob]} |-> Spelled(MCValueOf[Blob], t)]

Currency == [name |-> "billing.currency", prefix |-> "billing", platform |-> "web", rules |-> Theme]
Open == [name |-> "open", prefix |-> "", platform |-> "web", rules |-> Flag]
OpenOnIos == [Open EXCEPT !.platform = "ios", !.rules = Limit]
Cards == [name |-> "billing.cards", prefix |-> "billing", platform |-> "", rules |-> Launch]
General == [name |-> "__general__.fees", prefix |-> "__general__", platform |-> "web", rules |-> Days]
MCResolved == {<<Currency, Open, Cards>>, <<Open, Currency, Cards>>, <<Cards, Open>>, <<Open>>, <<Cards, Open, OpenOnIos>>,
               <<General, Currency, Open>>, <<Open, General>>}
MCNameLists == {None, <<>>, <<"open", "billing.cards", "open", "__general__.fees">>,
                <<"billing.cards", "gone", "open", "billing.currency">>, <<"open", "billing.cards">>}
MCFilters == {{"open", "billing.cards", "billing.currency", "__general__.fees"}, {"billing.cards", "billing.currency"}, {"open"}}
MCGroupBys == {"none", "prefix", "platform"}
MCOrders == {<<>>, <<"billing">>, <<"__general__", "billing">>, <<"gone", "web">>, <<"billing", "__general__", "billing">>}
=============================================================================
