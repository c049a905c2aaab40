-------------------------------- MODULE Registry --------------------------------
(***************************************************************************)
(* The registry of React components (app-settings-react,                   *)
(* scripts/build-registry.ts): the script checks that every import of      *)
(* every file an item ships is covered by what the item declares, and      *)
(* writes one hosted file per item.  What it protects is an install        *)
(* somewhere else: shadcn's CLI, external, follows the items' dependencies *)
(* and puts their files where it rewrites imports to.                      *)
(*                                                                         *)
(* A shadcn primitive and an npm package are both tags here: an item       *)
(* declares them, a file imports them.  Dependencies outside the registry, *)
(* titles, and how imports are spelled are left out.                       *)
(***************************************************************************)
EXTENDS Naturals, Sequences, FiniteSets

CONSTANTS
    Item,           \* names of items
    Tag,            \* primitives and packages
    Lands,          \* Lands[f]: where the CLI rewrites imports of file f to
    Manifest,       \* the manifests considered: sequences of entries, includes followed
    Imports,        \* the sources considered: what each file on disk imports
    Version,        \* of the SDK
    None, Old,      \* no file, and one left by an earlier build
    MaxTurns        \* bound: MaxTurns[m] further runs (and edits) from manifest m

File == DOMAIN Lands
Entry == [name : Item, deps : SUBSET Item, tags : SUBSET Tag, sdk : Version \union {None},
          files : UNION {[F -> {Lands[f] : f \in File}] : F \in SUBSET File}]

\* closure's tags cannot be item names; files are known by their paths.
ASSUME NamesAssumption ==
    /\ IsFiniteSet(Item)
    /\ Item \intersect Tag = {} /\ (Item \union Tag) \intersect File = {}
ASSUME RegistryAssumption ==
    /\ Manifest \subseteq Seq(Entry) \ {<<>>}
    /\ \A source \in Imports : \A f \in DOMAIN source :
           f \in File /\ source[f] \subseteq File \union Tag
    /\ MaxTurns \in [Manifest -> Nat]
    /\ None \notin Version

VARIABLES
    manifest, imports,  \* registry.json, and the files on disk
    phase,              \* how far the script is, or how it ended
    at,                 \* the entry being checked or written
    queue, seen,        \* closure's worklist and result
    problems,           \* some problem was found
    hosted,             \* hosted[i]: r/<i>.json, None, or Old
    catalog,            \* r/registry.json: the entries it lists
    turns               \* bound: how many are left

inputs == <<manifest, imports>>
output == <<hosted, catalog>>
vars == <<inputs, phase, at, queue, seen, problems, output, turns>>

Names == {manifest[i].name : i \in DOMAIN manifest}

\* byName and owners: the last entry of a name, the last that ships a file.
Last(found) == CHOOSE i \in found : \A j \in found : j <= i
byName(name) == manifest[Last({i \in DOMAIN manifest : manifest[i].name = name})]
Shipped == UNION {DOMAIN manifest[i].files : i \in DOMAIN manifest}
owner(f) == manifest[Last({i \in DOMAIN manifest : f \in DOMAIN manifest[i].files})].name

Init ==
    /\ manifest \in Manifest
    /\ imports \in Imports
    /\ phase = "start" /\ at = 1
    /\ queue = <<>> /\ seen = {}
    /\ problems = FALSE
    /\ hosted \in {[i \in Item |-> None], [i \in Item |-> Old]}
    /\ catalog = <<>>
    /\ turns = MaxTurns[manifest]

-----------------------------------------------------------------------------
\* A file is put where its siblings will import it from.
checkTargetMatchesImportPath(entry, f) == entry.files[f] = Lands[f]

\* checkItems before it looks at imports: dependencies and files exist.
WellFormed(entry) ==
    /\ entry.deps \subseteq Names
    /\ DOMAIN entry.files \subseteq DOMAIN imports
    /\ \A f \in DOMAIN entry.files : checkTargetMatchesImportPath(entry, f)

checkItems ==
    /\ phase = "start"
    /\ problems' = \E i \in DOMAIN manifest : ~WellFormed(manifest[i])
    /\ phase' = "closing" /\ at' = 1
    /\ queue' = <<manifest[1].name>> /\ seen' = {}
    /\ UNCHANGED <<inputs, output, turns>>

\* The sequences of a set's members, once each.
Orders(S) == {s \in [1..Cardinality(S) -> S] : {s[i] : i \in DOMAIN s} = S}

\* Mutant of Pop: only the item's own dependencies are followed.
PopShallow ==
    /\ phase = "closing" /\ queue # <<>>
    /\ LET current == queue[Len(queue)]
           rest == SubSeq(queue, 1, Len(queue) - 1) IN
       IF current \in seen \/ current \notin Names
       THEN queue' = rest /\ seen' = seen \union {current}
       ELSE /\ seen' = seen \union {current} \union byName(current).tags
            /\ \E pushed \in Orders(IF seen = {} THEN byName(current).deps ELSE {}) :
                   queue' = rest \o pushed
    /\ UNCHANGED <<inputs, phase, at, problems, output, turns>>

\* closure: one turn of its loop.  Dependencies are pushed in any order.
Pop ==
    /\ phase = "closing" /\ queue # <<>>
    /\ LET current == queue[Len(queue)]
           rest == SubSeq(queue, 1, Len(queue) - 1) IN
       IF current \in seen \/ current \notin Names
       THEN queue' = rest /\ seen' = seen \union {current}
       ELSE /\ seen' = seen \union {current} \union byName(current).tags
            /\ \E pushed \in Orders(byName(current).deps) : queue' = rest \o pushed
    /\ UNCHANGED <<inputs, phase, at, problems, output, turns>>

\* checkImports for one entry, once its closure is known.  It reads the entry's
\* files without asking whether they exist, and the script ends there if not.
Covered(x) == x \in seen \/ (x \in Shipped /\ owner(x) \in seen)
Readable == DOMAIN manifest[at].files \subseteq DOMAIN imports
checkImports ==
    /\ phase = "closing" /\ queue = <<>>
    /\ Readable
    /\ problems' = (problems \/ \E f \in DOMAIN manifest[at].files :
                                    \E x \in imports[f] : ~Covered(x))
    /\ IF at < Len(manifest)
       THEN at' = at + 1 /\ queue' = <<manifest[at + 1].name>> /\ seen' = {} /\ UNCHANGED phase
       ELSE phase' = "checked" /\ UNCHANGED <<at, queue, seen>>
    /\ UNCHANGED <<inputs, output, turns>>
Throw ==
    /\ phase = "closing" /\ queue = <<>>
    /\ ~Readable
    /\ phase' = "thrown"
    /\ UNCHANGED <<inputs, at, queue, seen, problems, output, turns>>

\* Problems end the script with an error, --check without one; otherwise it builds.
Decide ==
    /\ phase = "checked"
    /\ phase' \in IF problems THEN {"refused"} ELSE {"ok", "building"}
    /\ at' = 1
    /\ UNCHANGED <<inputs, queue, seen, problems, output, turns>>

\* Mutant of WriteItem: a build skips what an earlier one has written.
WriteMissing ==
    /\ phase = "building" /\ at <= Len(manifest)
    /\ hosted' = [hosted EXCEPT ![manifest[at].name] = IF @ = None THEN manifest[at] ELSE @]
    /\ at' = at + 1
    /\ UNCHANGED <<inputs, phase, queue, seen, problems, catalog, turns>>

WriteItem ==
    /\ phase = "building" /\ at <= Len(manifest)
    /\ hosted' = [hosted EXCEPT ![manifest[at].name] = manifest[at]]
    /\ at' = at + 1
    /\ UNCHANGED <<inputs, phase, queue, seen, problems, catalog, turns>>

WriteCatalog ==
    /\ phase = "building" /\ at > Len(manifest)
    /\ catalog' = manifest
    /\ phase' = "done"
    /\ UNCHANGED <<inputs, at, queue, seen, problems, hosted, turns>>

\* The script is interrupted, or a write fails; a script that ended is run again.
Interrupted ==
    /\ phase = "building"
    /\ phase' = "interrupted"
    /\ UNCHANGED <<inputs, at, queue, seen, problems, output, turns>>
Running == phase \in {"start", "closing", "checked", "building"}
Again ==
    /\ ~Running /\ turns > 0
    /\ turns' = turns - 1
    /\ phase' = "start"
    /\ UNCHANGED <<inputs, at, queue, seen, problems, output>>

Next ==
    \/ checkItems \/ Pop \/ checkImports \/ Throw \/ Decide
    \/ WriteItem \/ WriteCatalog \/ Interrupted \/ Again

Spec == Init /\ [][Next]_vars

-----------------------------------------------------------------------------
\* What the CLI installs for an item: all that its dependencies lead to, which
\* is the smallest set that has the item and the dependencies of its members.
Closed(S) == \A k \in S \intersect Names : byName(k).deps \subseteq S
Reached(i) == {j \in Item : \A S \in SUBSET Item : i \in S /\ Closed(S) => j \in S}
Installs(i) == Reached(i) \intersect Names

\* After installing i, file x is where its importers look for it.
InPlace(x, i) ==
    /\ \E k \in Installs(i) : x \in DOMAIN byName(k).files /\ byName(k).files[x] = Lands[x]
    /\ \A k \in Installs(i) : \A y \in DOMAIN byName(k).files : byName(k).files[y] = Lands[x] => y = x

\* The installed code compiles: what each file imports is in its place, or is
\* one of the primitives and packages that came along.
Compiles(i) ==
    \A j \in Installs(i) : \A f \in DOMAIN byName(j).files : \A x \in imports[f] :
        (\E k \in Installs(i) : x \in byName(k).tags) \/ (x \in File /\ InPlace(x, i))

\* No name twice, no file in two entries, no two files in one place: nothing in
\* the script looks at these.
Distinct ==
    /\ \A i, j \in DOMAIN manifest : i # j =>
           /\ manifest[i].name # manifest[j].name
           /\ DOMAIN manifest[i].files \intersect DOMAIN manifest[j].files = {}
    /\ \A f, g \in Shipped : f # g => Lands[f] # Lands[g]

\* build-registry.ts 11-15: the checks pass exactly the registries of which every
\* item, installed alone, compiles in someone else's project.
CheckMeansInstallable ==
    Distinct /\ phase \in {"refused", "thrown", "ok", "building", "done"} =>
        (problems <=> \/ \E i \in DOMAIN manifest : ~WellFormed(manifest[i])
                      \/ \E i \in DOMAIN manifest : ~Compiles(manifest[i].name))

\* A build that ends, after whatever interrupted ones and over whatever earlier
\* ones, leaves for each item what the manifest says now, and lists them all.
BuildIsCurrent ==
    [][phase # "done" /\ phase' = "done" =>
           /\ \A i \in Names : hosted'[i] = byName(i)
           /\ catalog' = manifest]_vars

-----------------------------------------------------------------------------
\* The inductive invariant's part of the proofs (DeploymentProofs).
RegistryTypeOK ==
    /\ manifest \in Seq(Entry) \ {<<>>} /\ imports \in Imports
    /\ phase \in {"start", "closing", "checked", "building",
                  "refused", "thrown", "ok", "done", "interrupted"}
    /\ at \in Nat \ {0}
    /\ queue \in Seq(Item) /\ seen \subseteq Item \union Tag
    /\ problems \in BOOLEAN
    /\ hosted \in [Item -> Entry \union {None, Old}]

\* closure's loop: whatever it has seen or pushed can be reached from the entry
\* at hand, and whatever that leads to is seen or still on the worklist.
Waiting == {queue[n] : n \in DOMAIN queue}
ClosureSoFar ==
    phase = "closing" =>
        /\ at \in DOMAIN manifest
        /\ manifest[at].name \in seen \union Waiting
        /\ Waiting \union (seen \ Tag) \subseteq Reached(manifest[at].name)
        /\ \A x \in seen \intersect Tag : \E k \in Installs(manifest[at].name) : x \in byName(k).tags
        /\ \A k \in seen \intersect Names :
               byName(k).deps \subseteq seen \union Waiting /\ byName(k).tags \subseteq seen

\* What an entry may import: what its dependencies lead to, and what that ships.
Declared(i) == Reached(i) \union UNION {byName(k).tags : k \in Installs(i)}
ImportsDeclared(entry) ==
    \A f \in DOMAIN entry.files : \A x \in imports[f] :
        x \in Declared(entry.name) \/ (x \in Shipped /\ owner(x) \in Declared(entry.name))

\* The problems found are those of the entries looked at.
AllWellFormed == \A i \in DOMAIN manifest : WellFormed(manifest[i])
FoundUpTo(n) == ~AllWellFormed \/ \E i \in 1..n : ~ImportsDeclared(manifest[i])
ProblemsSoFar ==
    /\ phase = "closing" => (problems <=> FoundUpTo(at - 1))
    /\ phase \in {"checked", "refused", "ok", "building", "done"} =>
           (problems <=> FoundUpTo(Len(manifest)))
    /\ phase = "thrown" => problems /\ ~AllWellFormed

\* Each entry written so far is hosted, unless a later one took its name.
HostedSoFar ==
    phase = "building" =>
        /\ at \in 1..(Len(manifest) + 1)
        /\ \A n \in 1..(at - 1) :
               \/ hosted[manifest[n].name] = manifest[n]
               \/ \E m \in (n + 1)..(at - 1) : manifest[m].name = manifest[n].name

RegistryIInv == RegistryTypeOK /\ ClosureSoFar /\ ProblemsSoFar /\ HostedSoFar
=============================================================================
