------------------------------- MODULE MCRelease -------------------------------
(* Release with three entries that depend on, import and miss one another.    *)
EXTENDS Release, TLC

CONSTANTS core, field, form, fc, ff, fo, query, v1, v2, v3

MCLands == (fc :> "lib/core") @@ (ff :> "ui/field") @@ (fo :> "ui/form")

Shipping(name, f, deps, tags, sdk) ==
    [name |-> name, deps |-> deps, tags |-> tags, sdk |-> sdk, files |-> [x \in {f} |-> Lands[x]]]

\* The third entry may take the name or the file of the first.
Checked ==
    {<<Shipping(core, fc, d1, t1, v1), Shipping(field, ff, d2, {}, None),
       Shipping(last[1], last[2], d3, {}, None)>> :
        d1 \in {{}, {form}}, t1 \in {{}, {query}}, d2 \in SUBSET {core, form},
        last \in {<<form, fo>>, <<core, fo>>, <<form, fc>>}, d3 \in {{}, {core}, {field}}}
    \union
    \* A file in the wrong place.
    {<<[Shipping(core, fc, {}, {}, v1) EXCEPT !.files = (fc :> Lands[ff])]>>}

\* Versions are moved with two entries that both name the SDK.
Released == <<Shipping(core, fc, {}, {}, v1), Shipping(field, ff, {core}, {}, v1)>>
MCManifest == Checked \union {Released}
MCTurns == [m \in MCManifest |-> IF m = Released THEN 3 ELSE 1]

\* In the last of these, fo does not exist.
MCImports ==
    {(fc :> c) @@ (ff :> d) @@ (fo :> o) :
        c \in {{}, {query}}, d \in SUBSET {fc, query}, o \in {{}, {ff}, {query}, {fc, ff}}}
    \union {(fc :> {}) @@ (ff :> {})}
=============================================================================
