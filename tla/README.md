# app-settings in TLA+

A verification development for app-settings: the Go server (REST API, PostgreSQL, an
optional Redis cache), the TypeScript SDK, the React registry and the scripts that release
them. TLC checks the modules on small instances; the TLA+ proof system proves most safety
properties for every value of the constants.

All paths below are relative to the repository's root; line numbers are those of the commit
the modules were written from.

## The system

| Part | State | Operations | Talks to |
|---|---|---|---|
| Layer resolution (`queries/resolve.sql`, `internal/resolve`) | none | resolve for a user, resolve for the server | reads every table in one statement |
| Setting definitions (`internal/api/settings.go`) | `settings` | create, patch, delete | values (cascade), cache |
| Layer values (`internal/api/values.go`) | `server_settings`, `personal_settings`, `intermediate_settings` | put and delete in each layer | settings and groups (triggers, foreign keys), cache |
| Groups (`internal/api/groups.go`) | `groups`, `group_members` | create, patch, delete, add and remove members | overrides (cascade), cache |
| Taxonomy (`internal/api/taxonomy.go`) | `roles`, `platforms`, `environments` | upsert, delete | settings and keys (foreign keys) |
| Resolution cache (`internal/cache`) | Redis: an entry per resolution, an index set per environment, lifetimes | get, put, invalidate an environment | filled by resolve requests, dropped by writing requests |
| API keys (`internal/api/keys.go`, `auth.go`, `internal/apikey`) | `api_keys` | authenticate, mint, revoke | roles (rank), every request |
| Boot (`cmd/app-settings`, `internal/database/migrate.go`, `internal/store/bootstrap.go`) | version table, advisory lock, the bootstrap key | migrate, mint the first key, serve | api_keys |
| Type rules (`internal/valuetype`) | none | validate a rule set, validate a value | called before every write |
| SDK transport (`app-settings-js/src/http.ts`) | one call: attempts, deadline | request, retry, abort | server |
| SDK client (`client.ts`, `datetime.ts`) | none | one method per endpoint, dates and local readings | SDK transport |
| SDK store (`store.ts`, `snapshot.ts`) | snapshot, optimistic writes, the load in flight, listeners, an interval | load, write, subscribe, change user, dispose | SDK client |
| React hooks (`registry/.../hooks`) | the query's data and fetch, mutations, a draft with its problems, an input's text | refetch, write a row, edit, revert, save, type, blur, escape | server through the app's own routes; React Query |
| React library and components (`lib`, `ui`) | none | validate, parse and render values, group and list | hooks |
| Build scripts (`scripts/version.ts`, `app-settings-react/scripts/build-registry.ts`, `justfile`) | `registry.json`, hosted items, pins, changelog | check, build, set a version | each other, through the files |

Handlers are goroutines. Outside `POST /groups` none of them opens a transaction: a handler
loads a row, decides in Go, writes with another statement, and then drops cache entries with
up to three Redis calls. The SDK and the hooks run on one JavaScript thread, but give way at
every `await`. What makes this system hard is what happens between those calls:

* a row that was validated, merged or counted is changed or deleted before the write;
* a resolution read before a write reaches the cache after that write's invalidation;
* the invalidation of a committed write fails, half succeeds, or dies with its request;
* identities are read once per request and outlive revocations and changes of rank;
* several instances boot at once, and boots die half way;
* a call is repeated although it was carried out, or carried out after it was given up;
* an optimistic write is rolled back over another one, or over another user's settings;
* a refetch is cancelled or replaced while a save waits for it, and edits go on meanwhile;
* a value changes under the input somebody is typing in;
* a script that writes several files stops between two of them.

`PROJECT.json` lists these hazards one by one, each at its line, with the properties that
cover it.

## Modules

| Module | Models | Checked by | Proved in |
|---|---|---|---|
| `ResolutionCache` | the cache, its readers and its writers | `MCResolutionCache` | `ResolutionCacheProofs` |
| `Resolution` | both resolution statements and the override block, as operators | through `SettingsData` | through `SettingsDataProofs` |
| `SettingsData` | definitions, values, groups, roles and their handlers; extends `Resolution` | `MCSettingsData` | `SettingsDataProofs` |
| `ApiKeys` | keys, identities, roles as ceilings | `MCApiKeys` | `ApiKeysProofs` |
| `Boot` | migrations and the bootstrap key | `MCBoot` | `DeploymentProofs` |
| `RemoteCall` | abstract: what a caller may conclude from how a call ended | as a property of `HttpRetry` | `HttpRetryProofs` |
| `HttpRetry` | one call of the SDK, the server and the network | `MCHttpRetry` | `HttpRetryProofs` |
| `SdkClient` | the request each method of the client sends | `MCHttpRetry` | |
| `SettingsStore` | the SDK's store, its snapshots and the server | `MCSettingsStore` | `SettingsStoreProofs` |
| `SettingsQuery` | a resolution in React Query's cache and rows that write through it | through `SettingsDraft` | through `SettingsDraftProofs` |
| `SettingsDraft` | a form's draft and its saves; extends `SettingsQuery` | `MCSettingsDraft` | `SettingsDraftProofs` |
| `Datetime` | instants and local readings around a change of clocks | through `SettingText` | `SettingTextProofs` |
| `ValueRules` | what each input reads and renders; the registry's rules and the server's | through `SettingText` | `SettingTextProofs` |
| `SettingText` | the text of an input while its value moves | `MCSettingText` | `SettingTextProofs` |
| `SettingList` | which settings a list shows, in which sections | `MCSettingText` | `SettingTextProofs` |
| `Registry` | the registry script and what its check promises | through `Release` | through `DeploymentProofs` |
| `Release` | setting a version and rebuilding; extends `Registry` | `MCRelease` | `DeploymentProofs` |

### ResolutionCache

The database is one version number per environment; a committed write that can change a
resolution adds one, and a cached payload is the version its reader saw. A reader is the
second half of `handleResolveUser`: `GetMiss`, `ResolveForUser` (one statement, hence one
snapshot) and `Put` (one MULTI/EXEC). A writer is a handler after its commit: `ReadIndex`,
`UnlinkEntries`, `UnlinkIndex`, once per environment, in any order, after `ListEnvironments`
when the group spans all of them. Each of these may fail in the way the code handles it:
the errors are swallowed, and `InvalidateEnvironment` goes on after a failed first UNLINK
but not after a failed SMEMBERS. `WriterDies` is also a client that hangs up, because
Redis is called with the request's context. `Tick` is Redis' clock.

`beyond` is a history variable. It collects the entries that nothing will ever drop:
put by a reader that had read before the write, or left behind by a failure or by an
UNLINK of the index. The invariants say that these are the *only* entries that can be
untracked (`IndexOutlivesEntries`) or stale without a request that still has to drop them
(`StaleEntryIsOwed`), so that without requests in flight every other entry is the
database's answer (`QuietCacheIsFresh`). `EventuallyFresh` makes no exception: when the
writes are over, lifetimes end all staleness.

### Resolution and SettingsData

`Resolution` translates the SQL: `Visible`, `MemberGroups`, `Winner` (DISTINCT ON with its
ORDER BY), the COALESCE and CASE of `ResolveOne`, and `EffectiveOverride` from Go.
Values and rule sets are model values; `Accepts[c]` is the set of values valid under rules
`c`. Two groups are never created at the same instant, so `created` numbers the groups.
`Editable` is the SDK's reading of a resolution (`snapshot.ts`): `EditableMeansEffective` sets
it beside the tables and says that a setting is called editable exactly when a personal value
written now would be what resolves.

`SettingsData` holds the tables and one record per request. `Begin...` actions are a handler
up to its write, and keep what it loaded: the environment to invalidate, the merged columns
of a PATCH, the validated value. The action with the statement's name is the write: it
looks at the tables again only where a constraint, a trigger or a foreign key does. It ends
with `Wrote`, the invalidation that is owed; `Invalidate` performs it. `StoreFails` covers
every refusal and failure of a pending statement; the clash of two settings' or groups'
names, which nothing else depends on, is one of those. Callers have the highest rank
and no fence, so `UpsertRole` has no ceiling here (`ApiKeys` has it); a lower one is only refused more
often.

### ApiKeys

`Authenticate` copies the row and its role's rank into the request; every later step uses
that copy. Minting is three statements (default role, rank of the granted role, insert),
between which other requests revoke keys and re-rank or delete roles. `Expire` is the clock
passing `expires_at`. Only the two scopes that guard modelled operations exist. A key minted
without a role gets the lowest one, or `Fallback`, the role "user", when the list of roles cannot be
read.

### Boot

One action per step of `serve`, `Migrate` and `EnsureBootstrapKey`; `Stop` is an error, a
kill or a shutdown at any of them, after which the instance may start again. The session's
advisory lock ends with the session; a migration and its version commit together (tern).
An instance that does not migrate fails its count until `api_keys` exists.

### HttpRetry, SdkClient and RemoteCall

`SdkClient` has one row per method of the client: its HTTP method, what the server does for
it, and what the client itself insists on before sending (`requireValue`). `HttpRetry` runs
one of them: `Call` and `Preflight`, an attempt that the server answers, loses, or carries
out without the answer arriving, `TimesOut`, `Abort`, `Read` (the body, which may be broken),
and `Resume` after the back-off. A request the client gave up on is a stray: it may arrive
at any later time. `OtherClient` changes whether the resource exists.

`RemoteCall` is what a caller may rely on: a call ends once; one that is *done* took effect;
one that was *refused* did not and never will; anything else leaves it open; an effect that
adds something happens at most once. `CallImplements` is the refinement. It rests on POST
being sent once (the mutant `AttemptsOfAll`), and it only lets a refusal be believed when it
answers the first attempt: a later one may speak of what an earlier one did.

### SettingsStore

An action is the code between two awaits. `Load` joins the load in flight or starts one,
which the server reads (`ServerReads`) and which ends (`LoadSucceeds`, `LoadFails`) in any
order with loads that a `SetUser` or `Dispose` superseded. A write shows its value at once,
is carried out by the server or lost, and ends in a reload or in `RolledBack`. A write that
failed for the client may still be carried out later (`LateWrite`). `generation` and the
identity of snapshots are only compared, so both are names from a finite set, reused when
nothing holds them.

### SettingsQuery and SettingsDraft

A page with a form and rows over one resolution. React Query is external: one fetch per
query at a time, `cancelQueries` drops it, `invalidateQueries` drops it and asks again,
`setQueryData` counts as a success, a failed fetch keeps the data, and a mutation stays
pending until the refetch it asked for ends, is cancelled or is replaced. A row's write is
`BeginWrite` (cancel, show, send: `cancelQueries` gives way only to its own promises, so nothing of
the page, the server or the network comes between), the server's word, `WriteSucceeds` or `WriteFails`. A form
edits `draft` and `problems`; a save takes the dirty names of the moment it began, writes
them one after the other, records each in one of two lists, and then clears what was written
and waits for its refetch. `behind` is auxiliary: another client wrote after the data was
read.

### Datetime, ValueRules, SettingText and SettingList

`Datetime` reduces a zone to one change of its offset. `ValueRules` is, for the six inputs,
what they render of a value and read from a text, with the registry's `validateValue` beside
the server's `Validate`. Values carry what the rules look at: lengths in code points and
UTF-16 units, what either regex dialect matches, the spelling of a number or instant, the number
a string quotes. The two sides share no predicate. The registry looks at the value it holds. The
server first decodes it into a Go type (`decoded`: a number in quotes is a number, `null` in a list
is the zero value, an instant becomes UTC) and checks what it decoded, so each of its checks returns
a set, what it stores, which is empty where it refuses. Date-times come in the shapes that both
parsers read, that only `Date.parse` does (`isInstant`), or only `time.Parse` after its trim and
upper-casing (`isDateTime`). `KnownDifference` lists where the two sides part, about a scalar, about
a choice and about a list, and `RulesAgree` says that they part nowhere else. `SettingText` is `useSettingText`: the
text, the focus, and an effect that follows the committed value; the value moves from outside
at any time. In a row a blur commits and the value is
shown in the same step, for the reason `BeginWrite` is one; in a form every change does. `SettingList` selects,
orders and groups settings. `Filtered` and `Sorted` are `filter` and `sort`: they choose the
places they keep and run through them in order. `Sections` is the loop of `groupSettings`, one
`Place` for each setting. `ListShowsWhatIsAsked` says of its result, without the loop, what was
asked for; MCSettingText gives it lists where one section's settings are not next to each
other, where names repeat, where one name is on two platforms, and where a group is called as the
section without a title is.

### Registry and Release

A script run is `checkItems`, then for each entry the worklist of `closure` one `Pop` at a
time and `checkImports`, then the decision, then one `WriteItem` per entry and the catalog.
What a missing file does (`Throw`), an interruption and a second run over what an earlier one
left are actions. What the check is for is stated without the script's own worklist:
`Compiles` is shadcn's CLI, external, installing one item elsewhere. It installs the smallest set
that has the item and is closed under dependencies (`Reached`), and every import must find a file
of that set at the place it names, and no other file at that place (`InPlace`). `Release` adds
`version.ts set`, which writes four pins and the changelog one file at a time (one of the
files being the registry's manifest), hand edits between scripts, and the bump recipe's
rebuild.

## Runs

| Run | Instance | What it shows |
|---|---|---|
| `cache` | 2 environments, 1 key each, 2 readers, 2 writers, lifetimes 1 and 2, 1 write per environment, all failures | entries are tracked, stale ones are owed a drop, a quiet cache is fresh, `EventuallyFresh` |
| `tables` | 1 setting of any scope, 1 group (of all environments, or of another one), 1 user, 2 roles with 2 ranks, 2 rule sets, 2 values, 2 requests of any kind | `DefaultValid`, `StoredWithinScope`, `NoOrphans`, `ChangesAreAnnounced` under crossing requests |
| `layers` | 1 setting, 2 groups, 1 user, 2 values, 1 request | every stack of layers: `LayerOrder`, `OverrideIsTheCause`, `EditableMeansEffective`, `LiftingRestoresChoice`, `AdHocEqualsMembership` |
| `apikeys` | 3 keys, 2 roles, 4 ranks, 2 environments, 2 requests | fences narrow, ranks stay below the first, keys keep role and grants |
| `boot` | 3 instances (2 migrate), 3 migrations, 2 stops | migrations once and in order, one key, `BootsFinish` |
| `store` | 1 user or none, 1 setting, 2 values, an override, 2 listeners, polling, 1 write at a time and 2 loads out, lost and late writes | the snapshot is the user's, flags agree with what is going on, one interval while somebody listens, `EventuallyTrue` |
| `http` | all 39 methods of the client, 2 retries, time-outs and a caller's signal | `CallImplements`, `CallEnds` |
| `board` | 2 settings in a form, 1 of them with a row, 3 values of which one is invalid, 2 row writes, 5 turns | a quiet page is true, edits outlive failures, `SavesEnd` |
| `field` | 11 settings, one for each kind of rules and of options, values and texts at their edges | honest inputs, harmless tabbing, `RulesAgree`, `ListShowsWhatIsAsked` |
| `release` | 3 entries with cycles, repeated names and shared files; 4 pins; 3 versions, one of which go.mod refuses; 3 further runs | `CheckMeansInstallable`, `BuildIsCurrent`, `BumpsAlign` |
| `roles`, `lies` | as `tables` and `store`, smaller | two sentences of the documentation that the code does not keep, see [Findings](#findings) |

**Why these bounds.** Two requests are enough for every crossing of a check and a write, since
each handler has at most one of each. Two environments tell "this environment" from "all of
them". Cache lifetimes 1 and 2 are the smallest where an index outlives an entry; how the
two relate is all the code uses, and the proofs cover every pair. One group per direction
would hide priorities, so `layers` has two, with equal and different priorities. Four ranks around
the first two leave room above and below each. Two stops let a lock holder die and its
successor too. In `store`, two names of generations let one superseded load come back while
the next is out; one write at a time keeps the run with liveness small, while `lies` has two
and the proofs have any number. Two retries are the smallest number where an attempt is
neither first nor last. Five turns of users and other clients let a save of two settings cross
a row's write and an outside change. Three registry entries make cycles that do not pass
through the item installed. `MaxVersion`, `MaxStops`, `MaxTurns` and `MaxTicking` only bound
counters. Where the properties are also proved, the bounds matter no more.

**Symmetry** is used for requests, plain keys and values, never in a run with a liveness
property. **Deadlock** is checked in the runs `cache`, `tables`, `layers`, `roles` and
`field`. It is off for `apikeys`, because keys can all end up expired or revoked and then
nobody can send a request (two keys that revoke each other in crossing requests both succeed,
which nothing in the repository rules out); for `boot`, where instances that serve have
nothing to do; for `store` and `lies`, where a disposed store stays so; for `http`, where a
call ends; and for `board` and `release`, whose turns run out.

**Fairness.** `ResolutionCache!FairSpec`: a request that has started goes on to its next call
or fails (Go's HTTP server cancels, it does not suspend), and time passes. Nothing makes a
client send a request or write. `Boot!FairSpec`: a started process runs on; waiting for the
lock is only promised to end because the other boots release it (weak fairness is
enough as each boot takes the lock once and stops are bounded). `HttpRetry!FairSpec`: only
the client's own steps, so timers fire and bodies that arrived are read; of the server and
the network nothing is assumed, and `CallEnds` is about calls with a time-out.
`SettingsStore!FairSpec`: a running interval fires, and the server neither leaves a load
unread nor fails every one (strong fairness, because polling asks again for ever).
`SettingsDraft!FairDraftSpec`: a fetch and a save are answered, if only by a time-out; rows
and users need do nothing.

Every property also has a mutant: a definition named for a plausible slip (a lifetime swapped,
a trigger missing, an invalidation forgotten, a rollback unconditional) stands before the one
it would replace. Replacing it violates the property, so the property depends on the code it
is about.

## Proofs

Every invariant and every action property of the runs above is also a theorem: it holds
for any sets of requests, rows, keys, instances, calls, writers, settings, texts, lists and registry
items. Each `...Proofs` module proves the inductive invariant of its modules and derives the
properties from it. The runs `apikeys`, `store` and `board` check theirs as well.

Assumptions are the named `ASSUME`s of the modules, and TLC evaluates them in every run. They say
what sets and rows look like: ranks are positive numbers, `None` is no value and no override, there
are two values at least, an index lives at least as long as an entry, clocks change by full minutes.
Four of them say more, and the code is why they hold:

* `RulesAssumption`: options pass their own rules, are kept in the form the server stores, and no two
  of them are the same (`config.go` 96-140); values of one JSON type that are spelled alike are alike,
  and equal numbers are spelled alike; a number JSON spells as a 64-bit integer is whole.
* `TextAssumption`: the runtime reads what it writes (`Spells`): `Number` reads what `String` spells,
  `JSON.parse` what `JSON.stringify` does.
* `RegistryAssumption` and `NamesAssumption`: the manifest's items have types, there are finitely
  many of them, and a primitive or package is neither an item nor a file.

* **ResolutionCacheProofs.** `IndexOutlivesEntries` and `StaleEntryIsOwed` are not inductive
  alone: a tick could end an index before its entries, and a writer in a stage that owes
  nothing could hold obligations. `IndexCoversEntries` (an entry never has more ticks left
  than its index) and `ObligationsMatchStage` close both gaps.
* **SettingsDataProofs.** `DefaultValid` needs `PendingUpdatesValid`: what a PATCH will write
  was checked as a pair, and the UPDATE writes both columns, whatever happened meanwhile. This
  is also why crossing PATCHes lose updates: writing only the named columns would
  break `DefaultValid`, as the mutant `UpdateNamedColumns` shows. `NoOrphans` and
  `StoredWithinScope` need `RowsAreBorn` (ids are not reused) and rest on the triggers and
  cascades, not on what handlers loaded. `AdHocEqualsMembership` and `LiftingRestoresChoice` are
  facts about the operators, proved in every state.

  `LayerOrder`, `OverrideIsTheCause` and `EditableMeansEffective` need `CreatedApart`: groups that
  exist were created at different instants. Only then does one of a user's groups with a value rank
  before all the others (`RankedFirst`: among finitely many groups there is one that none
  outranks), and only then does `Winner` choose the same one as the layer it is compared with.
  `ChangesAreAnnounced` needs `LoadedEnvironments`: the environment a request loaded, to invalidate
  it after its write, is still the row's when it writes, or the row is gone. No handler
  changes the environment of a setting or group.
* **ApiKeysProofs.** `IdentitiesAreCopies`: a request's fences are those of its key's row, rows
  never change their grants, and a row waiting to be inserted is already within its creator's.
  `NothingOutranksTheFirst` holds although ceilings may be out of date, because every
  ceiling was a rank once. `GrantsAreFixed` is an action property, from the same invariant.
* **DeploymentProofs.** Two parts. For `Boot`, `LockIsHeld` says who is between taking and
  releasing the lock and that its migrator's version is the recorded one; `KeyStepsAreReady` that a
  token about to be printed is stored.

  For `Registry` and `Release`: `ClosureSoFar` says that what the worklist has seen and what still
  waits is closed under dependencies and inside `Reached`, so that at the end it *is* `Reached`, in
  whatever order items were pushed and popped and through any cycle. `ProblemsSoFar` then says that
  the script has a problem exactly when an entry so far imports something its closure does not
  declare. `CheckMeansInstallable` joins the two sides. The script checks each item's *own* files; a
  user compiles *all* files of the install, and both come to the same because `Reached` is transitive
  and the script checks every item. The exception `Distinct` (one owner per file, one file per
  place) is needed where shadcn finds a file by its place and the script by its name.
  `HostedSoFar` (what has been written is what the manifest says) gives `BuildIsCurrent`, and
  `SetSoFar` (the pins before the one to be written next have the new version) gives `BumpsAlign`.
* **HttpRetryProofs.** The refinement `Spec => CallImplements`: initial states map to initial
  states, and each step of the transport to a step of `RemoteCall` or to none. The invariant
  says that every effect was sent, that an answer to the first attempt tells the truth, and
  that after a refused first attempt nothing is left that could still take effect.
* **SettingsStoreProofs.** `SnapshotIsOfUser` needs three facts about what is out:
  the snapshot a write would restore is about the user of the write, a rollback only happens
  while that write's own snapshot is shown, and a load of the current generation is the one in
  flight. `FlagsTellTheTruth` and `IntervalsAreOwned` follow from the same invariant.
* **SettingsDraftProofs.** `QuietBoardIsTrue` needs `SaveIsSound` (a save that settles has a
  fetch to wait for; a fetch that was read while nothing was out has read the truth).
  `EditsOutliveFailures` is an action property over the same invariant.
* **SettingTextProofs.** Two corrections of a local reading are enough
  (`ReadingsReadBack`, for every reading a clock shows); from it, rendering an instant,
  reading the text and rendering again gives the same text; from that, an input nobody typed
  in hands nothing over, and one without the focus shows its value or says what is wrong.

  `RenderingReadsBack` says that of all four text inputs: for an instant it is that argument
  (`InstantsReadBack`), for a number or JSON it is `Spells`, and a text is its own reading.

  `RulesAgree` goes type by type (`ScalarRulesAgree`), from what Go decodes of each JSON type
  (`WhatIsDecoded`). For a SELECT, the library looks for an option's token and the
  server for the option that equals what it decoded: a value with a token of an option *is* that option
  unless its JSON type differs, and one that decodes to an option has its token unless it is `null`, a
  number in quotes or an instant spelled otherwise (`ChoiceRulesAgree`, from options being kept as the
  server stores them, `OptionsAreStored`). A list
  that passes the library but that the server refuses as repeating repeats a token. What passes both is
  stored as something that renders the same: the value itself, an option's spelling, or the same
  instant in UTC (`StoredRendersTheSame`), so the refetch after a write moves no text. What the
  checkboxes hand over is a part of the options, which repeat none, and is stored as it is
  (`TickedIsValid`).

  `ListShowsWhatIsAsked` is about any lists, repeated names and colliding keys included. That finitely many places can be run through in an order
  (`PlacesRunThrough`) gives what `filter` and `sort` return. `Sectioned` is the loop's invariant:
  after n turns there is a section for each group among the first n settings, with its settings
  in their order, and of two sections the earlier one was met earlier. Sorting by rank then
  keeps sections of one rank, hence those the order does not list, by first appearance.

Only model-checked: the liveness properties (`EventuallyFresh`, `BootsFinish`, `EventuallyTrue`,
`CallEnds`, `SavesEnd`), which are about fairness, and the two findings, which are counterexamples.
The proofs by induction over sets, numbers and lists are arguments by a smallest
counterexample, since the library's induction theorems take operators that the provers cannot
instantiate.

## Findings

| Run | Documentation | Code |
|---|---|---|
| `roles` | README 447, and `cache.go` 28-29: entries are "dropped whenever a write could change what a resolution returns" | `handleUpsertRole` changes ranks, which resolutions filter by, and invalidates nothing |
| `lies` | `app-settings-js/src/store.ts` 82: "rolled back if it fails, so a control feels instant but never lies" | of two writes that fail in the order they began, the first restores nothing and the second restores the first's refused value, until the next load |

The models also contain the following behaviours. None of them has a run of its own.

*Server.*
* A payload read before a write is put into the cache after that write's invalidation and
  served until its TTL (`cache.go` 113; README 447). An entry put while its index is being
  unlinked is no longer tracked (`cache.go` 110-111). `beyond` contains both.
* A value stored between the count and the delete goes without `?cascade=true`
  (`settings.go` 226; README 427-429).
* A PATCH writes the omitted fields back as it loaded them, over a crossing PATCH
  (`settings.go` 162; `client.ts` 260: "Omitted fields are left as they are").
* A boot that dies after storing the bootstrap key and before printing it leaves a key that is
  never printed, and no later boot mints another (`main.go` 103; README 29-30).
* A value can be stored although the rules were tightened after it was validated
  (`values.go` 217; README 124-125).

*SDK.*
* A reload after a write joins an older load that is still out and shows its answer
  (`store.ts` 128, 213).
* The same callback subscribed again while subscribed starts a second interval, and the handle
  of the first is lost (`store.ts` 243-247); `IntervalsAreOwned` excepts it (`Twice`).
* After dispose, a load that comes back leaves `isValidating` set. `initialData` is taken
  without a look at whose it is.
* Back-off after a 429 comes from the body's `retry_after`; the header is not read
  (`http.ts` 272-286). A body that breaks on a good answer escapes as it was thrown. An abort
  while a failed answer's body is read is not heard by the delay that follows. A fetch that is aborted
  with a reason of the caller's own is taken for a failure of the network, and goes to the next attempt
  (`http.ts` 134-139, 240).
* A DELETE that is repeated may report `not_found` about what its own first attempt removed.
  A PUT that arrives late may overwrite another client's newer write.

*Registry.*
* An edit made during a save is lost if that save wrote its name; a problem recorded during a
  save outlives its edit, and then both buttons are disabled.
* Two writes of one row that fail in order flash the first refused value, until the refetch.
* After a save the form shows the old values until its refetch ends.
* A background refetch that fails replaces a list by its error, and half-typed text goes with it.
* JSON typed into a form is drafted at every change that parses, so a save can carry a prefix
  of what is in the text; JSON emptied in a form is drafted as null and shown as the server's value
  (`use-settings-draft.ts` 262).
* A write at the server layer is shown at once although a personal value outranks it, and
  invalidates only its own query (`keys.ts` 5-6 says "exactly the resolutions it could have
  changed").
* A DATETIME that differs only in its seconds is never committed. Readings in the hour that
  is skipped shift by it.
* A field that has the focus while its value moves keeps its text, and writes the old value back over
  the new one when it is left, although nobody typed in it (`use-setting-text.ts` 71, 106-109).
  `UntouchedFieldWritesNothing` excepts it (`moved`).
* The registry's rules and the server's differ (`values.ts` 150-151 calls them the same, `datetime.ts`
  124 says of `isInstant` that it is what the server accepts):
  string lengths in UTF-16 units against code points; the dialects of expressions; integers that
  JSON does not spell in 64 bits, such as 1e21, which only the registry takes; numbers in quotes,
  which only the server does (`validate.go` 62-66); date-times with the hour 24 or a day past the
  month's end, which only the registry takes, and padded ones, which only the server does
  (`datetime.go` 55-57); `null` in a list of choices, which the server takes for `false` or `""`
  (`validate.go` 40-41, 96-97); repeated choices; options of different types with one token; DATETIME
  options spelled with another offset.
* In a list, `order: [""]` never matches the section without a title, and a section really called
  `__general__` has that one's key. Repeated `names` give repeated rows. A name is unique only per
  platform and environment (`003_settings.sql` 33): of two settings of one name a list with `names`
  shows the first (`setting-list.tsx` 209).

*Scripts.*
* A file that is missing ends the registry script in `checkImports` before any problem is
  listed (`build-registry.ts` 199-201). Two items of one name, a file in two items and two
  files that land in one place pass the check (`Distinct` excepts them). Hosted files of
  removed items are never deleted, although `registry.test.ts` 58-63 says to run the build.
  Includes that form a cycle recurse for ever.
* A `set` that was interrupted and is run again takes `previous` from a pin it has already
  written, so that the changelog compares a version with itself (`version.ts` 116, 187-190). One
  that fails at a later file leaves the earlier ones written.

## Not modelled

* Listing and reading endpoints, routing, error bodies, logging, configuration, the command line
  tool, generated queries: no state of their own.
* Platforms and environments as growing tables, `last_used_at`, the comparison of secrets.
* Visibility and fences of single requests (`requestedPlatforms`, `requestedRole`,
  `settingForRequest`, `groupVisibleTo`): pure functions of an identity and a row.
* How a rule set is validated, and how dates, numbers and expressions are parsed: the models take
  the outcome as given for each value.
* The runtime's own time zone (external); zones with more than one change.
* `useApiKey`, permissions, query keys and the provider's context; markup, labels, and the panel
  that shows where a value comes from.
* The SDK's bundling, the stubs, and how `go.mod`'s module path and the Unreleased section are found.

`PROJECT.json` gives the reason for each component.

## Plan

All of the planned modules are written. What would come next:

1. The store composed with `HttpRetry`: its write as a `RemoteCall` rather than a request that is
   carried out, lost or late.
2. The abstract specification of a cached resolution (an answer is one the database gave within
   the last TTL), implemented by `ResolutionCache`; `SettingsData` composed with the cache
   through a refinement of its `Invalidate`.
3. `Access`: which settings and groups a fenced, ranked key sees; listing, reading and resolving
   agree.
