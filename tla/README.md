# Verification of normgate's policy lifecycle

normgate decides whether an operation may proceed, under policies written in Rego.
This directory holds TLA+ models of the part of it that is implemented: how a
policy bundle becomes the active policy, survives crashes and is refreshed
(`internal/policy/manager.go`), what its sources deliver (`source.go`), how bundles
are built and read (`bundle.go`), how the engine keeps compiled revisions and
evaluates an event under one (`opa/engine.go`), and how the decisions of several
policy layers become one (`composition.go`). TLC checks the models on small
instances. TLAPS proves, for every value of the constants, every safety property that
the passing runs check: of the manager, its recovery and its refinement of an abstract
lifecycle, of the engine's cache, of evaluation and composition, of bundles and
archives, of several processes on one directory and of the timing of refreshes.

## 1. The system

| Component | State | Operations | What is hard |
|---|---|---|---|
| Policy manager, `manager.go` | directory with `<digest>.tar.gz` and `state.json`; `active` (atomic pointer), `mu` | `NewManager`, `Activate`, `Rollback`, `Refresh`, `Status`, `Evaluate` | two atomic writes per activation, crash or loss of power between any two steps, failing fsyncs, fallback at startup, lock-free readers, tags kept over changes of source |
| Refresh loop, `Manager.Run` | `delay`, a timer | poll for ever | backoff, jitter, staleness that is checked before use |
| Engine cache, `opa/engine.go` | `revisions`, `closed` under an RWMutex | `Compile`, `Explain`, `Evaluate`, `Health`, `Close` | compiling outside the lock, a limit without eviction, closing during calls |
| Evaluation, `opa/engine.go`, `engine.go` | none kept; facts, layers, parts of one event | `Explain`, `FactsPresent`, `Decision`, `ExplainResult` | failing closed at each step, deadlines |
| Composition, `composition.go` | none (pure) | `Compose` | order, monotonicity, conflicts of obligations |
| Sources, `source.go` | none kept; what the file or server holds | `Fetch` of file, HTTPS, OCI | conditional requests, checksum pins, the two requests of one OCI fetch, servers that answer anything |
| Scenarios, `scenarios.go` | none | `RunTests` | deadlines of single scenarios |
| Bundles, `bundle.go` | none (pure) | `LoadDir`, `Inspect`, `ValidateDependencies`, `Build`, `ReadArchive`, `Diff` | limits met entry by entry, dependency graphs, layers, digests a manifest carries of itself |
| Policy CLI, `internal/cli/policy.go` | output files | `build`, `test`, `explain`, `activate`, `status`, `rollback` | each command that opens the directory is a second manager on it, `status` included |
| Normalization, contracts, configuration, api, errors, SDKs | none | conversions and validation | text |

`enforcement`, `identity`, `receipt`, `storage`, `telemetry`, `web` and
`deployments` are empty in this commit.

How they interact: the manager holds its mutex over a whole call. A refresh asks a
source, conditionally with the tag of the active snapshot; the bytes go through
`ReadArchive`, `Engine.Compile`, `Engine.Health` and `RunTests`; the archive and
then `state.json` are written by temporary file, fsync, rename and directory
fsync; last, `active` is replaced. Readers load `active` once, without the mutex,
compare its age with the maximum staleness, and call the engine with its revision.
A new process reads `state.json` and tests its revision again, or else the
revision before it.

What makes each part correct:

- manager: a running manager serves exactly what was acknowledged last; every
  state file a restart may find can be recovered; readers switch only to durable
  states and only run tested revisions; a fallback names a revision that was in
  force; a 304 renews only what the source still serves; calls end; a source that
  settles is served again.
- refresh loop: the backoff is bounded, polling bounds the age of a policy by the
  failures since the last success, a decision is never later than one pause and one
  deadline beyond the maximum staleness, plus what the clock was set back; the policy
  recovers.
- engine: bounded, nothing after `Close`, nothing in use evicted.
- bundles: files are accepted exactly when they are within the limits, their
  manifests are compatible, free of duplicates and overlapping namespaces, closed
  under their pins and acyclic, and their layers are ordered and owned; a revision
  names the content of its files; what is built can be read.
- sources: a tag is kept only with bytes its source gave, and a pin cannot be evaded.
- several processes: whatever they overwrite, `state.json` stays recoverable; a
  process that has the directory for itself agrees with it, but for a call that failed
  after its rename; polling repairs what a command overwrote.
- composition: fail-closed, independent of order, monotone, free of conflicts,
  within the decision contract.

## 2. The modules

| Module | Models | Notes |
|---|---|---|
| `PolicyManager` | `manager.go`, with engine, sources and scenarios as it uses them | the core |
| `PolicyLifecycle` | the promise of the manager, without disk, engine and steps | abstract specification |
| `PolicyManagerProofs` | | theorems on `PolicyManager` |
| `PolicyRecoveryProofs` | | what a crash leaves on disk, and that `PolicyManager` implements `PolicyLifecycle` |
| `PolicySource` | `source.go` | operators |
| `PolicyDeployment` | a service and commands of `internal/cli/policy.go` on one directory | extends `PolicySource` |
| `PolicyDeploymentProofs` | | theorems on `PolicyDeployment` |
| `PolicyEngine` | the cache of `opa/engine.go` | one action per critical section |
| `PolicyEngineProofs` | | theorems on `PolicyEngine` |
| `PolicyDependencies` | `ValidateDependencies` of `bundle.go` | one action per step of the search |
| `PolicyBundle` | `ReadArchive`, `Inspect`, `seal`, `Build` of `bundle.go` | extends `PolicyDependencies`, which it calls |
| `PolicyBundleProofs` | | theorems on `PolicyBundle` |
| `Sorting` | what `slices.Sort` and `slices.SortFunc` leave | one operator, used by composition and bundles |
| `Composition` | `composition.go`, with the decision schema | operators |
| `PolicyEvaluation` | `Engine.Explain` and `ExplainResult` | extends `Composition` |
| `PolicyEvaluationProofs` | | theorems on `Compose` and `PolicyEvaluation` |
| `PolicyRefresh` | `Run`, `Status`, `Evaluate` in time | ticks |
| `PolicyRefreshProofs` | | theorems on `PolicyRefresh` |
| `DataProofs` | | sorting, least numbers, recursive functions: lemmas that several proofs rest on |
| `MC...` | instances for TLC | constants only |

### PolicyManager

State and code:

| Variable | Code |
|---|---|
| `artifact`, `saved` | files of the state directory, as `os.Open` finds them |
| `maybeArtifact`, `maybeSaved` | what could be found there after a loss of power: a rename that has not been followed by a successful fsync of the directory adds its new content to these sets, a successful fsync leaves only the current content |
| `active` | `Manager.active`; `err` stands for `LastError` |
| `op` | the call that holds `Manager.mu`, or `NewManager` |
| `prepared`, `closed` | `Engine.revisions`, `Engine.closed` |
| `reader` | the revision each goroutine in `Evaluate` was admitted with |
| `remote` | what each source serves now |
| `committed`, `limbo`, `served` | history: the last acknowledged revision, revisions whose call a crash cut off, revisions that were in force |

A call is a walk of `op.pc`: `fetching` (Refresh only), `checking` (ReadArchive and
Compile), `testing` (RunTests), `artifact` and `artifactSync` (the archive's
atomicWrite, split at the rename), `persist` and `stateSync` (the same for
`state.json`), `publish`. A 304 enters at `persist`; a start goes from `testing` to
`persist`. Every step has a failing twin, whose outcome is `Fail`: `recordError` for
a call, the fallback or the end of the process for a start. Readers, the engine's
`Close`, sources and crashes interleave everywhere.

What the history variables settle: a call is acknowledged when it returns nil. A
crash after the rename of `state.json` and before the return leaves the caller
without an answer; the next start may come up with either revision (`limbo`), and
what it comes up with is from then on what was acknowledged.

Abstractions: a bundle is its revision (digest of its files), so different archives
of one bundle are one content; a tag is a function of source and revision, strong
at one source (`TagsAreStrong`), while different sources may use one tag for
different contents; a source answers 304 exactly when the tag sent is that of what
it serves; `state.json` that cannot be parsed does not occur, because only
`atomicWrite` writes it; ages and staleness are in `PolicyRefresh` (a stale snapshot
refuses a reader and changes no state); Compile is one step of the manager, because
`PolicyEngine` has its critical sections.

The faults a run allows are the elements of `Faults`: `crash`, `power`, `sync` (a
directory fsync fails), `write` (a failure before a rename), `timeout` (deadlines of
contexts, of Compile and of scenarios), `network`, `corrupt` (an archive is damaged),
`misfile` (an archive is copied over another), `close`.

### PolicySource, PolicyDeployment

`PolicySource` has each `Fetch` as an operator on the file or on the answers of the
server. A server may answer each request with any status, bytes and tag; the second
request of an OCI fetch has its own answer, so a registry that changes or lies
between the two is included. Bytes stand for their SHA-256: a pin is the
bytes it is the digest of, and a file's tag is what was read. An address that is
refused, a redirect, an answer that is too long and a broken connection are one
answer, `refused`.

`PolicyDeployment` gives every process its own manager: `active`, `op`, and `life`,
which is `starting` inside `NewManager`. The service polls files and servers for ever;
a command starts, makes one call (`activate` of a file, `rollback`, or none, which is
`status`) and ends. They share `artifact`, `saved` and `file`. What a process does alone is
joined to its next step on something shared, so a step is a read or a write of the
file or the directory; every interleaving of those is explored. A revision is named
by its bytes, and everything that does not compile, fails its scenarios or was torn is
`Junk`. The disk is simple here, since `PolicyManager` has its faults: a rename
is durable and archives are not damaged. A write fails before its rename (`write`), and
changes nothing, or after it (`sync`: the directory cannot be opened or fsynced), when the
archive or `state.json` is the new one although the call returns an error; this is finding 1
again, seen by the processes. `alone` is history: no other process has run since this one
started; so is `refused`: the service, alone, wrote what `state.json` says in a call that
failed. `LastError`, readiness, ages and the engine's cache are left out.

### PolicyEngine, PolicyEvaluation, Composition

`PolicyEngine` has a record per goroutine. `Look` and `Insert`/`InsertRefused` are
the two critical sections of `Compile`, `Find` the one of `Explain`; a context may
expire between any two. `PolicyEvaluation` takes a prepared revision and lets each
layer's query return any list of `Outputs`. `Composition` works on sets of
obligations and reasons (the code sorts and compacts lists of them); the order of
JSON texts, by which `Compose` sorts, is a rank of the contributions. `MaxItems`
stands for the array limits of the decision schema, which a union of many layers may
exceed: `FitsSchema` is what `Compose` tests last. The loop of `Compose` is written
without recursion: `Gathered(parts, i)` is what it has gathered before part `i`, and the
first part in sorted order that has a code ends it.

### PolicyDependencies, PolicyBundle

`manifests` is the argument, `byID` and `owners` (keys only) are the maps of the code,
`state` its marks 0, 1, 2, and `stack` the calls of `visit` in progress, each with the
index of its next pin. `VisitRoot` may take any registered bundle that was not visited:
the order of a Go map. A namespace is the sequence of its segments, so that the code's
test on `previous + "."` is `IsPrefix`. Versions are compared for equality only, and
`compatible` is an attribute of a manifest: arithmetic on three numbers is left out.
The manifest contract makes pins and namespaces of one manifest unique.

`PolicyBundle` wraps the search. `job` is a `build` of a directory, a `read` of an
archive or the `reread` of what was built; `phase` says which check is next. The archive
is a sequence of entries and is taken one by one, with the limits tested at each;
`Inspect` then checks files, manifests, dependencies and layers, `Seal` and `Matches`
are `seal` and the comparison of digests. Files are a function from names to
contents. Digests are free of collisions, so the digest of some files is the files; it
is taken of a manifest with its own digests cleared, in two stages as in `seal`. A
manifest has a `form` (short, canonical, long) and a size that depends on it, because
sealing rewrites it as canonical JSON, which escapes characters, and that may exceed the
limit on a file or on the bundle which the directory met. `checkFiles` looks at the files
in the order of a map, so of a file that is too long and one that is misnamed either may be
reported. Sizes are counted as sets of bytes (`Bytes`), which lets the proofs compare them.
`Unwritable` names fit the checks but not a tar header. `Words` are the segments that
`namespacePattern` allows in the namespace of a layer: a manifest may own a namespace with
a hyphen, for which there can be no layer. `MaxLayers` is the 32 of `Inspect`. The walk of `LoadDir`, which
applies the same checks, and the bytes of gzip and tar are left out.

### PolicyRefresh

A tick is a unit of time. `left` is the time to the timer or to the deadline of
the refresh in progress; `Tick` does not pass a timer or a deadline that is due.
`RefreshedAt` is some moment within the refresh. `Pause` bounds how long the
scheduler may leave an admitted reader before its evaluation begins, the only
assumption under which the age of a decision is bounded at all. `FetchTime` stands for
the whole refresh; HTTP sources have 30 s, compiling 5 s, each scenario 50 ms.

`RefreshedAt` is a wall-clock time: `UTC()` and the JSON of `state.json` drop Go's
monotonic reading. `back` is how far the clock has been set back since the last
refresh, up to `MaxSetBack`; a success may forget any part of it, since
some of it may have happened before the answer. `Ready` refuses a negative age.

## 3. The runs

| Run | Shows | Bounds |
|---|---|---|
| `manager_crash` | acknowledged = active, recovery from any loss of power, fallback, tags, readers, refinement of `PolicyLifecycle` | 3 revisions, one failing its scenarios; 2 sources with crossed tags, 1 reader, 2 engine slots |
| `manager_sync` | durability before publication and a revision to start from, although fsyncs fail; every call and start ends | 3 revisions, one failing its scenarios; 1 source that gives a tag to one of them, 2 engine slots; every fault but damaged archives |
| `manager_live` | a settled source is served again and again | 3 revisions, one failing its scenarios; 2 sources, 2 engine slots; every fault but deadlines, loss of power, failed fsyncs and misfiled archives |
| `manager_failed_sync` | finding 1 | 2 revisions, 1 source; crashes, failed fsyncs |
| `manager_misfiled` | finding 2 | 2 revisions, 1 source; misfiled archives only |
| `engine_cache` | bound, closure, residence | 4 revisions, one unsound; 3 goroutines; 2 slots |
| `engine_limit` | finding 3 | the same |
| `evaluation` | the laws of composition | 3 layers, 13 items, 18 outputs of a layer, 4 events, arrays of 2 items |
| `expired_facts` | finding 4 | the same |
| `dependencies` | `Build` and `ReadArchive`: the verdict in every order is the declarative one, codes name a cause, revisions name contents, what is built is readable, each ends | all graphs of 3 bundles with up to 2 ordered pins each (1,000); 3,200 pairs of manifests with odd pins, nested namespaces, duplicates, an old core; layer lists of up to 3 in every order, a layer under an owned namespace with a hyphen, one layer too many; archives rearranged, cut, extended, spoiled and re-sealed; 7 files, 1 module, 11 bytes, 6 in a file, 3 layers |
| `shared_directory` | recoverable state, tags prove contents, a lone writer agrees with the disk, polling repairs | 2 revisions, a bundle file without pin, an OCI registry pinned to one revision, the service and 1 command; crashes, deadlines, writes that fail before or after the rename |
| `refresh_loop` | bounds of backoff, age and lateness; recovery | interval 5, backoff to 12, staleness 8, 3 failures in a row, clock set back by 2 |

Why the bounds suffice. Three revisions give an active one, its predecessor and a
candidate that differs from both and may fail its tests, and with two engine slots the
third meets a full cache. Two sources with crossed tags are what a
confusion of tags needs; where tags are not the question, one tag on one revision gives
answers with a tag, without one and with a 304. In `manager_live` two slots for three
revisions let the cache fill before the settled revision gets in; deadlines and failed
fsyncs are left to `manager_sync`, since to a refresh they are one more step that fails.
One reader is enough, since readers share nothing they
write. In the engine three goroutines fill two slots while a third inserts. The
items of `evaluation` reach every branch of `Compose` and `Conflict`; pairs of layers
show each interaction of two contributions and the third layer shows that the result
of two is carried on. In `refresh_loop` the maximum backoff is not the interval times
a power of two, so that the cap is met in the middle of a doubling.
Three bundles have self-pins, cycles of two and three, diamonds and chains; two manifests
have each pairing of errors, so that the order decides which one is met first. The
file, module and byte limits are set so that archives and directories lie on both sides of each,
and so that one bundle crosses the byte limit, and one manifest the limit on a file, only by
being sealed.
In `shared_directory` the command has no state between its calls and may run again, so
one stands for many in sequence, and with the service it gives two writers; a revision
that the registry is pinned to and one that only the file has are what a confusion of
sources needs. Two layers of up to two items exceed the arrays of
`evaluation`; a set-back of two ticks is as long as a refresh.
Deadlock is checked except in `evaluation`, `expired_facts` and `dependencies`, where a
computation ends.

Each property of a passing run has a mutant of the model that breaks it: an operator
beside the mapped definition, with a comment that begins with "Mutant of". No
behaviour of the specifications uses them.

### Fairness

- `PolicyManager`: `WF(Startup)`, a service that died is started again;
  `WF(Progress \/ Failure)`, a call in progress takes its next step because none of its
  steps waits for another goroutine, fetches are cut off after 30 s and the compiler and scenarios
  have deadlines; `SF(Refresh(s))`, `Run` polls for ever and a Go mutex in
  starvation mode is handed to its waiters in turn. Calls of operators, crashes and
  damages have no fairness. `CallsEnd` needs only the two `WF` (`StepSpec`).
  `SettledSourceIsServed` is about runs in which, from some time on, four things hold. The
  process stays up and its engine is not closed. The source stops changing. The
  archive stored under the revision is not damaged: a damaged one makes
  every re-activation fail with `checksum_mismatch` (`manager.go:163-171`), because
  nothing rewrites it. And the engine has the revision or a free slot: once the cache is
  full of other revisions it is refused with `revision_limit` (`opa/engine.go:262`) until
  the process is restarted (`docs/policy.md:166`). Finally the calls for that source stop
  failing where they could have gone on (`Unlucky`): writes and fetches fail
  as often as they like before that, and for other sources and rollbacks for ever.
- `PolicyBundle`: `WF(BundleNext)`, one goroutine that nothing holds up.
- `PolicyDeployment`: `WF` of the service's steps in progress, which wait for nothing;
  `SF` of its refreshes of a file, which `Run` repeats for ever, and of storing and saving what a file
  delivered, whose validation and writes do not fail each time (the engine's cache, for
  one, is not full). Commands and the
  environment have none. `PollingHeals` is about runs in which only the service is left and
  the file has settled. It promises agreement of `state.json` and service again and again, not
  for good: a service that polls two sources may fail after the rename at each switch.
- `PolicyRefresh`: time passes, a due timer fires, a refresh ends, an admitted reader
  begins and ends; at most `MaxFailures` refreshes fail in a row.

### What the runs found

1. `manager_failed_sync`: a failed directory fsync after the rename of `state.json`
   is reported as a failed activation, but the next start serves the refused revision.
   The manual (`docs/policy.md:157`) says that failed candidates retain the active revision.
   In `shared_directory` the same failure makes a service that has the directory for
   itself disagree with it, the one exception in `SingleWriterAgrees`.
2. `manager_misfiled`: `Rollback` does not compare what it finds with the
   revision it was asked for (`recover` does); `docs/policy.md:163` calls it exact.
3. `engine_limit`: two concurrent compilations of one revision into the last slot end in
   `revision_limit` for the second; `docs/policy.md:166` speaks of distinct revisions.
4. `expired_facts`: one valid fact of a source makes its expired ones visible to
   Rego too; `docs/policy.md:127-129` asks that facts be valid at event time.

Every invariant of `manager_crash` holds with a lost power supply but needs directory
fsyncs that succeed; `EveryCrashStarts` is what remains without that. Both start from
the first acknowledged revision: a first activation that is cut off by a crash of
the process and then by a loss of power can leave a `state.json` that names no archive.

## 4. The proofs

### The manager

`PolicyManagerProofs` proves of `Spec`, for any finite set of revisions, any sources, tags,
readers, cache size and any `Faults`, from the assumptions `ConstantsAssumption`,
`NullsAssumption` and `TagsAreStrong`:

| Theorem | Property | Inductive invariant and why it is needed |
|---|---|---|
| `TypeCorrect` | `TypeOK` | `TypeInv`: types and `OpShape`, which fields of `op` mean something at which step; without it a fallback could be to no revision |
| `DurableFirst` | `DurableBeforePublish` | `DurableInv`: from the rename on `saved` is the candidate, from the directory fsync on it is the only file that can be found. The property speaks of `publish` only |
| `Acknowledged` | `AcknowledgedIsActive` | `AckInv`: every file a restart may find names the acknowledged revision or one in `limbo`, and no call leaves such a file behind in a running process. Assumes `"sync" \notin Faults`; `manager_failed_sync` shows that it must |
| `TagsMatch`, `RenewalSound` | `SavedTagMatches`, `RenewalKeepsBytes` | `TagInv`: tags in memory, on disk and in the candidate belong to their revision at their source, and a tag under way to a source is the one kept for it |
| `AdmittedFindsRevision`, `OnlyTestedRevisions` | `AdmittedIsPrepared`, `ReadersRunTestedRevision` | `ReaderInv`: what is active, being published or in use by a reader is `Fit`: it passes its scenarios and is compiled, unless the engine closed |
| `FallbackWasServed` | `PreviousWasServed` | `PrevInv`: the property for the candidate too, from the step that computes it on, and that an active revision was served |

`PolicyRecoveryProofs` proves, for archives that are not damaged (`Faults` has neither
`corrupt` nor `misfile`):

| Theorem | Property | Inductive invariant and why it is needed |
|---|---|---|
| `CrashesStart` | `EveryCrashStarts` | `StartInv`: an archive only ever appears under its own name (`Stored`), every state file, the state in memory and the candidate have an archive that no loss of power takes away, or a fallback that has one (`Files`, `Memory`, `Carried`), and a fallback is always kept. The property speaks of files only, but a call writes what it carries |
| `CrashesRecover` | `EveryCrashRecovers` | `SettledInv`: a running manager that has an active revision has settled every rename but the one it is about to sync, so an archive that `store` finds in place needs no sync of its own. Assumes `"sync" \notin Faults` as well |

It also proves `LifecycleImplemented`: `PolicyManager` implements
`PolicyLifecycle` (`ImplementsLifecycle`), when directory fsyncs succeed. The rename of
`state.json` maps to `Propose`, publication to `Switch` or `Resume`, a start without a state to
`Resume`, a crash to `Stop`, and every other step to a stutter or to a step of a reader.
It rests on `AckInv`, `ReaderInv`, `PrevInv`, and on `ForceInv`: the
acknowledged revision and the fallback of a candidate were in force.

### The engine's cache

`PolicyEngineProofs` proves, for any callers, revisions and limit, from
`EngineAssumption`:

| Theorem | Property | Inductive invariant and why it is needed |
|---|---|---|
| `TypeCorrect` | `TypeOK` | `EngineTypes`: itself, and that a call under way names a revision |
| `Bounded`, `NothingAfterClose` | `CacheIsBounded`, `ClosedIsEmpty` | `CacheInv`: both, and that the cache is finite, so that one more element adds one to its cardinality |
| `NothingEvicted` | `CompiledStays` | the property with `EngineTypes`: a call that goes on has a revision |

### Several processes

`PolicyDeploymentProofs` proves, for any processes, sources and answers of servers, from
`SourceAssumption`, `SourceNulls` and `DeploymentAssumption`:

| Theorem | Property | Inductive invariant and why it is needed |
|---|---|---|
| `TypeCorrect` | `TypeOK` | `Inv`: types, `Good(saved)`, and `GoodProcess` of every process, which asks of its memory and of the status it carries the same as of the file, because any of them may become the file |
| `EveryStateRecovers` | `EveryProcessStarts` | `Inv`: `Good` says that the archives of revision and fallback are stored |
| `TagsProve` | `TagProvesContent` | `Inv`: the bytes in a call are those its tag was given with, and a tag sent to a source was one of its own |
| `SingleWriter` | `SingleWriterAgrees` | `AloneInv`: while a process is alone every other is down, and once it is up the file is what it has in memory, in the middle of its calls too, or what a call that failed after its rename left: a candidate whose fallback is what it has in memory. A second such failure replaces the candidate and keeps that relation |

### Timing

`PolicyRefreshProofs` proves, for any interval, backoff, staleness and deadlines with
`RunArguments`:

| Theorem | Property | Inductive invariant and why it is needed |
|---|---|---|
| `TypeCorrect`, `BackoffBounded` | `TypeOK`, `BackoffIsBounded` | `Inv`: the range of `left` follows from the backoff being bounded, and the other way round for jitter |
| `DecisionsAreTimely` | `DecisionAgeIsBounded` | `ReaderIsTimely`: how old the snapshot may be at each step of a reader, given how long it has been there |
| `PollingKeepsFresh` | `PollingBoundsAge` | `AgeInv`: the age and what is left of the wait, or of the refresh, stay together within the longest wait of so many failures, and the backoff is the interval doubled as often, up to the maximum. The bound `Waits` is a recursive function; `DoubledUnfolds` and `WaitsUnfold` give its equations, `LongestWaitGrows` and `DelaysDouble` its steps |

### Evaluation and composition

`PolicyEvaluationProofs` proves, for any number of layers, contributions, obligations,
facts and any array limit, from `Texts` (contributions are records of five fields, and
different ones have different JSON texts) and `LayersContribute` (what a layer may return is
a list, and what it contributes is among the contributions):

| Theorem | Property | Argument |
|---|---|---|
| `ComposeIsCommutative` | | `Compose` gives the same for any two lists with the same members. `Joined` decides of a set of parts without an order: a part is refused for what it is and for the obligations of the parts with smaller texts. `ComposeIsJoined` shows that sorting and stopping at the first code does the same |
| `TypeCorrect` | `TypeOK` | `Inv`, below |
| `ReleaseHasEveryLayer` | `ReleaseNeedsEveryLayer` | `Inv`: `Heard`, every layer before the next has contributed; `Decision`, a result is composed of what was collected after all layers, and only if facts were there. A silent layer contributes a part that is refused, and `Joined` releases nothing with a refused part |
| `ReleaseKeepsEverything` | `ReleaseKeepsConstraints` | `JoinedReleased`: with no part refused the result has the union of obligations and reasons, and `StrongestIsStrongest` |
| `DecisionsAreConsistent` | `NoContradiction` | `JoinedIsConsistent`: contributions that are not refused define each id once (`OneDefinition`), and no two obligations conflict, whichever parts they come from |
| `ComposedDecisionsAreValid` | `ComposedIsValid` | `JoinedIsValid`: what valid parts join to has every rule of the decision contract but its array limits |
| `OrderDoesNotMatter` | `OrderIrrelevant` | `ComposeIsCommutative` |
| `NoLayerWeakens` | `LayersOnlyTighten` | `JoinedTightens`: with more parts, a part that was refused still is, and obligations only grow |

### Manifests, dependencies and archives

`PolicyBundleProofs` proves, for any manifests, archives, directories, layers and limits.
The first two theorems need no assumption; the others rest on `Limits` (the limits are
numbers), `NamesSorted` (no name in play comes twice) and `Contents` (a file has a size, a
manifest that parses has all fields of the contract, layers are a list with integer
priorities, and what `json.Marshal` writes of a manifest can be read):

| Theorem | Property | Inductive invariant and why it is needed |
|---|---|---|
| `CausesNamed` | `CodeNamesCause` | `Inv`, below: a cycle is reported only where pins form one |
| `AcceptsExactly` | `AcceptsExactlyValid`, the dependency part of `AcceptsExactlySound` | `Inv`: what was registered is apart (`Registered`, `Owned`); the stack is a path along pins (`Stacked`, `Descends`); what was visited is closed under its pins (`Closed`) and has a rank that falls along them (`Ranked`), the order in which `visit` returns, which is why an accepted graph has no cycle; and the verdict is right for what was seen (`Judged`) |
| `BundleTypeCorrect` | `BundleTypeOK` | `BundleInv`, below |
| `AcceptsSound` | `AcceptsExactlySound` | `BundleInv`: `TakenIn`, the files are the entries before the next; `Complete`, `Checked`, `Passing`, `LayersTakenIn`, what has been established when the next phase begins; `Refusable`, each refusal has a ground in the archive or in what was read of it. That priorities which ascend between neighbours ascend in every pair is `AscendingIsOrder`; that files over the limit after one more entry stay so with the rest of the archive is `SizeGrows` |
| `RevisionsNameContents` | `RevisionNamesContent` | `BundleInv`, and `DigestNamesFiles`: files that carry their own digests and the same build digest are equal but for the form of the manifest |
| `BuiltCanBeRead` | `BuiltIsReadable` | `Rebuilt`: the archive that was written has everything that `ReadArchive` asks for (`Acceptable`), but for the size of its manifest and its own. It comes from `SealedIsValid`, sealing changes no field that is checked, `SealedMatches`, and `EntriesAreFiles`, the sorted entries are the files |

`DataProofs` has the lemmas these need of data: `InOrderSorts`, sorting by a strict total order
puts each member of a finite set in one place and in that order; `Least` and `Induction`,
natural induction over a set of numbers in place of an operator; `Recursion`, a function
that is defined by recursion satisfies its equations.

Each proof has one step per action. The invariants of the manager other than types take
`TypeInv` as known (`TypesHold`), and `Acknowledged` takes `DurableInv`.

Only model-checked is liveness, which is beyond the prover: `CallsEnd`,
`SettledSourceIsServed`, `BecomesReady`, `Ends` and `PollingHeals`.
The runs that expect a violation have no theorem.

## 5. Plan

Done: the manager with its faults, engine cache, composition with its array limits,
evaluation, refresh loop with a clock that is set back, sources, bundles with archives
and dependencies, several processes on one directory, and the theorems of section 4,
which state every safety and action property that a passing run checks. What is left:

1. `PolicyScenarios`: `RunTests` on a cached revision with the deadlines of single
   scenarios, composed with `PolicyEngine` and the manager, in place of `TestsPass`.
2. Lemmas on the operators of `PolicySource`: that no answer of a server evades a pin,
   stated apart from `TagProvesContent`.
3. An abstract specification of `PolicyDeployment`, one writer at a time, and the
   assumptions under which the processes implement it.

## 6. Not modelled

- Scenarios: which scenario fails and how; a revision passes, fails or meets a deadline.
- `Diff`, a pure comparison for display; the walk of `LoadDir`; the commands `lint`,
  `inspect`, `test`, `explain`, `diff` and the output file of `build`, which touch no shared state.
- What OPA computes, and the static checks of Rego modules: a revision is sound or not,
  a query returns anything.
- Normalization: canonical JSON and digests of text, character by character and pure.
  Here equal content has equal digests, and different content has different ones.
- Configuration (read and validated once), contracts (JSON schemas by a library and
  generated types), api and errors (a table from codes to HTTP statuses), CLI parsing and
  printing, SDKs (generated types), the baseline policy (a Rego bundle, data of the engine).
- The empty directories `enforcement`, `identity`, `receipt`, `storage`, `telemetry`,
  `web` and `deployments`.
