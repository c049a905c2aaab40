-------------------------------- MODULE Release --------------------------------
(***************************************************************************)
(* Moving every package to one version (scripts/version.ts set, and the    *)
(* bump recipe of the justfile, which rebuilds the registry afterwards),   *)
(* together with the registry's script.  The version is written into four  *)
(* files and the changelog one after the other; the third is registry.json *)
(* itself, the manifest of Registry.  One developer runs one script at a   *)
(* time, may be interrupted, edits by hand, and starts over.               *)
(***************************************************************************)
EXTENDS Registry

CONSTANT
    Compatible      \* versions whose major go.mod's module path allows

ASSUME ReleaseAssumption == Compatible \subseteq Version

VARIABLES
    pins,           \* the version in each other file, None when it has none
    changelog,      \* versions with an entry
    job,            \* the number of the next write, or Idle, or Rebuild
    next            \* the version being set

tree == <<pins, changelog>>
releaseVars == <<vars, tree, job, next>>

\* PINS, and where each keeps its version.
PINS == <<"SDK package", "registry package", "SDK range", "install ref">>
Stamp == Len(PINS) + 1
Rebuild == Len(PINS) + 2
Idle == 0
Files == {PINS[i] : i \in DOMAIN PINS} \ {"SDK range"}
read(pin) ==
    (IF pin = "SDK range" THEN {manifest[i].sdk : i \in DOMAIN manifest} ELSE {pins[pin]}) \ {None}

\* A version may be written where a pin is.
Bumped(entry, version) == IF entry.sdk = None THEN entry ELSE [entry EXCEPT !.sdk = version]
Write(pin, version) ==
    IF pin = "SDK range"
    THEN manifest' = [i \in DOMAIN manifest |-> Bumped(manifest[i], version)] /\ UNCHANGED pins
    ELSE pins' = [pins EXCEPT ![pin] = version] /\ UNCHANGED manifest

ReleaseInit ==
    /\ Init
    /\ \E v \in read("SDK range") :
           /\ pins = [f \in Files |-> v]
           /\ changelog = {v}
    /\ job = Idle /\ next = None

-----------------------------------------------------------------------------
AtRest == ~Running /\ job \in {Idle, Rebuild}

\* set, up to its first write: go.mod must allow the version, and the SDK's
\* package must have one already.
BeginSet(version) ==
    /\ AtRest /\ turns > 0
    /\ read(PINS[1]) # {}
    /\ version \in Compatible
    /\ turns' = turns - 1
    /\ job' = 1 /\ next' = version
    /\ UNCHANGED <<inputs, phase, at, queue, seen, problems, output, tree>>

\* Mutant of WritePin: files are skipped when the package is at the version already.
WritePinOnce ==
    /\ job \in DOMAIN PINS
    /\ IF read(PINS[job]) = {}
       THEN job' = Idle /\ UNCHANGED <<manifest, pins>>
       ELSE IF read(PINS[1]) = {next} /\ job = 1
       THEN job' = Stamp /\ UNCHANGED <<manifest, pins>>
       ELSE job' = job + 1 /\ Write(PINS[job], next)
    /\ UNCHANGED <<imports, phase, at, queue, seen, problems, output, turns, changelog, next>>

WritePin ==
    /\ job \in DOMAIN PINS
    /\ IF read(PINS[job]) = {}
       THEN job' = Idle /\ UNCHANGED <<manifest, pins>>   \* set fails
       ELSE job' = job + 1 /\ Write(PINS[job], next)
    /\ UNCHANGED <<imports, phase, at, queue, seen, problems, output, turns, changelog, next>>

\* stampChangelog, after which the recipe goes on to rebuild the registry.
stampChangelog ==
    /\ job = Stamp
    /\ changelog' = changelog \union {next}
    /\ job' = Rebuild /\ phase' = "start"
    /\ UNCHANGED <<inputs, at, queue, seen, problems, output, turns, pins, next>>

SetInterrupted ==
    /\ job \in 1..Stamp
    /\ job' = Idle
    /\ UNCHANGED <<vars, tree, next>>

\* A developer changes a version by hand, or removes it.
HandEdit(pin, version) ==
    /\ AtRest /\ turns > 0
    /\ read(pin) # {}
    /\ turns' = turns - 1
    /\ Write(pin, version)
    /\ job' = Idle
    /\ UNCHANGED <<imports, phase, at, queue, seen, problems, output, changelog, next>>

RegistryStep ==
    /\ job \in {Idle, Rebuild}
    /\ Next
    /\ UNCHANGED <<tree, job, next>>

ReleaseNext ==
    \/ RegistryStep
    \/ \E v \in Version : BeginSet(v)
    \/ WritePin \/ stampChangelog \/ SetInterrupted
    \/ \E i \in DOMAIN PINS, v \in Version \union {None} : HandEdit(PINS[i], v)

ReleaseSpec == ReleaseInit /\ [][ReleaseNext]_releaseVars

-----------------------------------------------------------------------------
\* check: what a tag is held to before it is made, and again before it is published.
check(tag) ==
    /\ \A i \in DOMAIN PINS : read(PINS[i]) = {tag}
    /\ tag \in changelog
    /\ tag \in Compatible

\* version.ts 5-8, justfile 139-140: a bump that runs to its end leaves a tree
\* that check accepts and a hosted registry that installs the same version,
\* whatever was interrupted, failed or edited by hand before it.
BumpsAlign ==
    job = Rebuild /\ phase = "done" =>
        /\ check(next)
        /\ \A i \in Names : hosted[i].sdk \in {next, None}

-----------------------------------------------------------------------------
\* The other part of the inductive invariant (DeploymentProofs): the pins that a
\* set has passed have its version, and no script runs beside it.
ReleaseTypeOK ==
    /\ pins \in [Files -> Version \union {None}] /\ changelog \subseteq Version
    /\ job \in Idle..Rebuild /\ next \in Version \union {None}
SetSoFar ==
    /\ job \in 1..Stamp => ~Running
    /\ job # Idle => next \in Compatible
    /\ \A i \in DOMAIN PINS : i < job => read(PINS[i]) = {next}
    /\ job = Rebuild => next \in changelog
    /\ job = Rebuild /\ phase = "done" => \A i \in Names : hosted[i] = byName(i)

ReleaseIInv == RegistryIInv /\ ReleaseTypeOK /\ SetSoFar
=============================================================================
