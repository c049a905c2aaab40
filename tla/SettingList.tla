------------------------------ MODULE SettingList ------------------------------
(***************************************************************************)
(* What a page lists of a resolution: SettingList and its selectSettings   *)
(* (ui/app-settings/setting-list.tsx), sectioned by groupSettings          *)
(* (lib/app-settings/grouping.ts), around the input of SettingText.  A     *)
(* setting is a record of its name, its name's prefix, whatever else it    *)
(* may be grouped by, and its rules.  A filter and a search are the set of *)
(* names they keep; titles are left out.                                   *)
(***************************************************************************)
EXTENDS SettingText

CONSTANTS
    Resolved,       \* the resolutions considered: sequences of settings
    NameLists,      \* the `names` considered, None for all of them
    Filters,        \* the settings kept by the filters considered
    GroupBys,       \* "none", or a field of settings
    Orders          \* the orders of sections considered

Earliest(places) == CHOOSE i \in places : \A j \in places : i <= j
Latest(places) == CHOOSE i \in places : \A j \in places : j <= i

\* selectSettings: the named ones in that order, of those the kept ones.
Named(settings, name) == {i \in DOMAIN settings : settings[i].name = name}
selectSettings(settings, names, kept) ==
    LET found == Filtered(names, {i \in DOMAIN names : Named(settings, names[i]) # {}})
        picked == IF names = None THEN settings
                  ELSE [i \in DOMAIN found |-> settings[Earliest(Named(settings, found[i]))]]
    IN Filtered(picked, {i \in DOMAIN picked : picked[i].name \in kept})

\* resolveGrouper; a setting it returns nothing for is grouped under "".
Grouper(by, s) == IF by = "none" THEN "" ELSE s[by]
Key(group) == IF group = "" THEN "__general__" ELSE group

\* Nothing is asked of a list's elements: a name is unique only within a platform
\* (003_settings.sql 33), and a resolution without one may have a name more than once.
ASSUME ListAssumption ==
    /\ \A r \in Resolved : r \in Seq(Elements(r))
    /\ \A names \in NameLists \ {None} : names \in Seq(Elements(names))
    /\ \A order \in Orders : order \in Seq(Elements(order))

\* Mutant of Place: only the section before is looked at.
PlaceInRuns(by, sections, s) ==
    IF sections # <<>> /\ sections[Len(sections)].group = Grouper(by, s)
    THEN [sections EXCEPT ![Len(sections)].settings = Append(@, s)]
    ELSE Append(sections, [group |-> Grouper(by, s), settings |-> <<s>>])

\* One turn of groupSettings' loop: into the section there is, or a new last one.
Place(by, sections, s) ==
    LET of == {i \in DOMAIN sections : sections[i].group = Grouper(by, s)} IN
    IF of = {} THEN Append(sections, [group |-> Grouper(by, s), settings |-> <<s>>])
    ELSE [i \in DOMAIN sections |->
             IF i \in of THEN [sections[i] EXCEPT !.settings = Append(@, s)] ELSE sections[i]]

Sections(settings, by) ==
    LET placed[n \in 0..Len(settings)] ==
            IF n = 0 THEN <<>> ELSE Place(by, placed[n - 1], settings[n])
    IN placed[Len(settings)]

\* Sections are sorted, stably, by their key's last place in the order given.
Rank(order, key) ==
    LET places == {i \in DOMAIN order : order[i] = key} IN
    IF places = {} THEN Len(order) + 1 ELSE Latest(places)
Precedes(order, sections) ==
    LET Ranked(i) == Rank(order, Key(sections[i].group)) IN
    {p \in (DOMAIN sections) \X (DOMAIN sections) :
        Ranked(p[1]) < Ranked(p[2]) \/ (Ranked(p[1]) = Ranked(p[2]) /\ p[1] < p[2])}
groupSettings(settings, by, order) ==
    LET sections == Sections(settings, by)
    IN Sorted(sections, DOMAIN sections, Precedes(order, sections))

-----------------------------------------------------------------------------
\* A list takes the given places of another, each once and in their order.
Takes(part, whole, places) ==
    \E q \in [DOMAIN part -> places] :
        /\ \A k \in places : \E n \in DOMAIN part : q[n] = k
        /\ \A m, n \in DOMAIN part : m < n => q[m] < q[n]
        /\ \A n \in DOMAIN part : part[n] = whole[q[n]]

\* A list has the settings it is asked for, in the order of the resolution or of the
\* names, each of which stands for the first setting called so.
ListsAsAsked(picked, settings, names, kept) ==
    /\ Elements(picked) \subseteq Elements(settings)
    /\ names = None => Takes(picked, settings, {i \in DOMAIN settings : settings[i].name \in kept})
    /\ names # None =>
           /\ Takes([i \in DOMAIN picked |-> picked[i].name], names,
                    {i \in DOMAIN names : names[i] \in kept /\ Named(settings, names[i]) # {}})
           /\ \A i \in DOMAIN picked : \E j \in Named(settings, picked[i].name) :
                  settings[j] = picked[i] /\ \A k \in Named(settings, picked[i].name) : j <= k

\* Sections share out a list: each of its settings is in one, and there once; a section's
\* settings share its group and keep their order; and the sections follow the order
\* given, those it does not list after them.  Those, and two sections of one key (of
\* settings without a group and of a group called as that section is), are by first
\* appearance.
Members(picked, by, group) == {i \in DOMAIN picked : Grouper(by, picked[i]) = group}
SharesOut(sections, picked, by, order) ==
    LET In(g) == Members(picked, by, sections[g].group)
        Listed(g) == \E i \in DOMAIN order : order[i] = Key(sections[g].group)
        Alike(g, h) == Key(sections[g].group) = Key(sections[h].group)
    IN /\ \A i \in DOMAIN picked : \E g \in DOMAIN sections : i \in In(g)
       /\ \A g \in DOMAIN sections : Takes(sections[g].settings, picked, In(g))
       /\ \A g, h \in DOMAIN sections : g < h =>
              /\ sections[g].group # sections[h].group
              /\ Listed(h) /\ ~Alike(g, h) =>
                     \E i, j \in DOMAIN order : /\ i < j
                                                /\ order[i] = Key(sections[g].group)
                                                /\ order[j] = Key(sections[h].group)
              /\ ~Listed(g) \/ Alike(g, h) => Earliest(In(g)) < Earliest(In(h))

\* Every list that may hold the input's setting shows each setting its options ask for,
\* as often as they do (once, unless `names` repeats it), in the section and at the
\* place they say (setting-list.tsx 31-42).
ListShowsWhatIsAsked ==
    \A settings \in {r \in Resolved : \E i \in DOMAIN r : r[i].rules = setting},
       names \in NameLists, kept \in Filters, by \in GroupBys, order \in Orders :
        LET picked == selectSettings(settings, names, kept)
        IN /\ ListsAsAsked(picked, settings, names, kept)
           /\ SharesOut(groupSettings(picked, by, order), picked, by, order)
=============================================================================
