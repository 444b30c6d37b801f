# A TLA+ development of pkg.re

pkg.re serves two curated, read-only package registries: a Cargo sparse registry (`rust/`, Rust) and an
npm-compatible one (`js/`, JavaScript).  A *catalog*, a directory of declarations, generated locks and objects kept
in Git, says which package versions exist.  Operators change it with the tooling under `rust/src`; two services
each watch one Git ref and serve the newest catalog they accept.

All paths below are relative to `src/`.

## 1. Inventory

| component | state it keeps | operations | talks to |
|---|---|---|---|
| **accepted-ref policy** (`rust/src/accepted_ref.rs`, `js/src/accepted-ref.js`) | none, pure | `evaluate_startup`, `evaluate_reload`, and their JavaScript twins | called by the watchers |
| **Rust watcher** (`rust/serve/src/watcher.rs`) | `accepted-ref.json` and a bare Git mirror in the state directory; `accepted`, `suppressed` in memory | `startup`, `poll_once`/`reload`, `persist_record`, `apply`, `run` | Git (remote and mirror), policy, catalog loader, `Shared` |
| **JavaScript watcher** (`js/src/serve/watcher.js`, `js/src/serve/main.js`) | the same, in one event loop | the same; polls are started by `setInterval` | the same |
| **request serving** (`rust/serve/src/web.rs`, `js/src/serve/web.js`) | the installed snapshot, a permit semaphore | public dispatch, admin dispatch, `install_snapshot` | watcher (writes the snapshot), HTTP clients |
| **service process** (`rust/serve/src/main.rs`, `js/src/serve/main.js`, configuration) | listeners, the poll timer | start, listen, stop | everything above |
| **snapshot build** (`rust/src/serve.rs`, `projection.rs`, `request_target.rs`, `http_response.rs`, `js/src/serve/snapshot.js`, `projection.js`, ...) | none, pure | catalog to route table, request to response | catalog, archive store |
| **catalog transition** (`rust/src/transition.rs`) | none, pure | `check_transition` | Rust watcher |
| **catalog transaction** (`rust/src/lock.rs`: guard, staging, installation) | the catalog directory, a guard file, staging and backup siblings | `transact_catalog`, `reconcile`, `install_staging` | update workflow, operators |
| **lock reconciliation** (`rust/src/lock.rs`, `schema.rs`, `policy.rs`, `index.rs`) | registry locks and objects | `reconcile`: resolve, append, tombstone | crates.io, Git tags |
| **update workflow** (`rust/src/update/*`) | admission batches (`admissions/*.toml`, `*.lock`) | `update-plan`, `update-inspect`, `update-apply` | crates.io, transaction |
| **release rendering** (`rust/src/render.rs`, `download.rs`, `artifact.rs`) | the rendered site, `release.json` | `render`, `verify`, `verify-monotonic` | catalog |
| **migration and archives** (`rust/src/migrate.rs`, `archive.rs`, `import.rs`, `package.rs`) | new catalog trees, object store | exact schema migrations, archive inventory and import, Git tag packaging | catalog |
| **JavaScript tooling** (`js/src/*.js` other than `serve/`) | the rendered site | `renderSite`, `writeSiteDirectory`, catalog checks | file system |
| **vendor and harness** (`nix/pkgre-vendor.py`, `harness/*.mjs`) | files of a build | one-shot scripts | registries |

Hard behaviours:

* *Concurrency.*  JavaScript polls overlap; the Rust accepted record and snapshot are behind two locks; requests
  read a snapshot that a poll replaces; two operators, or an operator and an editor, change one catalog directory.
* *Failure.*  Every Git command can fail or time out, and what is concluded from that differs per command; a write
  can fail before or after the rename that matters; a process can be killed between any two steps; a power loss
  can take a rename back whose directory was not yet synced.
* *Ordering.*  The remote ref moves between being listed, fetched and resolved.
* *Memory.*  A rejected hash stays rejected until the process restarts, also when it has become acceptable; Git may
  collect what no ref names.
* *Signals.*  A stop signal may come before its handler is there, or twice.

What makes each component correct: the *watchers* must serve only what descends legally from what was served before,
over restarts too, keep on disk a record a restart can use, and give every stable tip a verdict.  The *policy* must
be one function, written twice.  *Serving* must answer each request from one snapshot, current when it was read, and
never wedge.  The *transaction* must never lose the catalog, and never install over something it has not seen.
*Reconciliation* must only ever append and tombstone.  The *update workflow* must apply exactly what was reviewed.

`PROJECT.json` lists every component with its status, every hazard with its line, and for each definition of the
modules the lines it stands for.

## 2. Modules

```
CatalogHistory ── GitMirror ──┬── RustWatcher ── RustWatcherProofs
      │                       └── JsWatcher ── JsWatcherProofs
      └── LastKnownGood            (both watchers INSTANCE AcceptedRefPolicy)
              ▲ refined by RustWatcher
Serving ── ServingProofs
Packaging ── Delivery ── DeliveryProofs
CatalogLifecycle ── CatalogLifecycleProofs
CatalogTransaction ── CatalogTransactionProofs
UpdateWorkflow ── UpdateWorkflowProofs
AcceptedRefPolicy, ReleaseLadder, Calendar, UpdateEvidence ── Rules ── RulesProofs
```

Each `MC…` module extends one of these and gives the sets TLC runs on; `MCHistory` is shared by both watchers.
Two kinds of definitions are not part of the model: those under "Properties", and those with a comment that starts
with *mutant*, which are plausible wrong versions of the definition that follows them.

### Watching a ref

**`CatalogHistory`** is what Git and the catalog format fix: objects, ancestry, annotated tags, which commits
yield a snapshot, which catalog is a legal successor of which.  `Forward(a, b)` is one legal step.

**`GitMirror`** is the bare mirror as the watchers see it: for every Git command, the set of answers it may give
for a mirror whose objects are missing, valid or corrupt.  Git is not part of the repository; the answers are those
the callers tell apart.

**`AcceptedRefPolicy`** is `accepted_ref.rs` and `accepted-ref.js`, one operator per function, the two languages
side by side.  `RustWatcher` and `JsWatcher` call them; `Rules` evaluates them alone.

**`RustWatcher`** is `rust/serve/src/watcher.rs`.  `pc` is the await the process is at, `start` and `cand` are the
locals of `startup()` and `reload()`; `accepted`, `active` and `suppressed` are `Watcher::accepted`, the installed
snapshot's commit and `Watcher::suppressed`; `disk` is `accepted-ref.json`.  Each Git command, file operation and
lock is an action: `ObserveRemote`, `FetchTip`, `ResolveTip`, `ProbeTip`, `ProbeAncestry`, `ValidateCandidate`,
`WriteRecord` (up to the rename), `SyncRecord` (the directory's fsync), `ApplyCandidate`, `AcceptCommit`,
`InstallSnapshot`, and the same for startup.  The environment moves the ref, damages objects, collects them, writes
the directory back, kills the process and cuts the power.  `durable` is what a power loss leaves of `disk`.

**`JsWatcher`** is `js/src/serve/watcher.js` with the timer of `js/src/serve/main.js`.  What lies between two
`await`s is one action; polls are members of `Poll` and interleave at each `await`.  There is no transition check
in this implementation, so `Successor` is not consulted.  The stop signal drains what is in flight.

**`LastKnownGood`** is the abstract specification: a stored commit leads the served one by at most one legal step,
and over all restarts the service moves along legal steps only.  `RustWatcher` implements it under
`stored <- StoredCommit(disk), served <- active` (property `KeepsLastKnownGood`, theorem `Refinement`).
The JavaScript watcher does not (see Findings).

### Answering requests

**`Serving`** is the serving half of both services: `web.rs`, `web.js`, and the startup and shutdown of `main.rs`
and `main.js`.  `service` chooses the implementation.  Rust reads the snapshot and then waits for a permit, and its
request is dropped with the client's connection; JavaScript reads when it has the permit and finishes without its
client.  The watcher's writes are `Install`.  Only the watcher configuration is modelled: with a fixed catalog
nothing is ever installed twice.

`process` follows `serve()`: `starting`, `public` and `bound` (one listener, both), `serving` once the stop signal has
a handler (`HandleSignal`), then `stopping` and `exited`; `failed` is a JavaScript process whose startup failed while
its timer keeps it alive.  `handled` says whether a signal finds a handler.  Rust has one from `HandleSignal` on (the
three `shutdown_signal()` that `serve` polls together subscribe in one step here); JavaScript's `process.once` is used
up by `Stop`, so that a signal before `HandleSignal`, or a second one while requests drain, is `Killed`, with all
requests.  (SIGTERM and SIGINT are one signal here; of two different ones the second would find its handler.)

### From a tag to a download

**`Packaging`** is one new package on its way into a lock: `resolve_git_tag` and what it calls (clone, resolve,
check the tree, package twice with the pinned Cargo, compare, check the manifest and the worktree again) and the
crates.io side (row, archive, checksum).  `job` is the package under way; `MoveTag` is the upstream repository,
which may move the tag between any two of these steps, and every command may fail.

**`Delivery`** extends it with everything an archive passes afterwards.  `work` is the working catalog with its route
table and object files, `head` the one merged last.  `LockNew` installs what `Packaging` delivered, `LockRemoved` and
`LockSame` are the other things `lock` may find to do.  A catalog `declared` what homes there are and which category
may depend on which; `Route` says what row that makes of an identity, or none.  Curators change it
(`EditDeclarations`), `lock` records the row of each identity and refuses a catalog in which one has become another
(`RowsRouted`, `validate_routed_rows`), and the build routes and compares once more (`RowsProject`,
`projected_bodies`); `check` routes nothing.  `locked` is no file but a history variable: what was declared when
`lock` last succeeded.  The migration to retained delivery (`MigrateBegins`, `MigrateDeclares`, `MigrateRoutes`) and
`archive-import` (`ImportBegins`, `ImportCreates`, `ImportWrites`, `ImportKeeps`, `ImportEnds`) write one file at a
time and can be killed between two.  `Merge` asks for what `check` asks for.  The service builds a snapshot of `head`
in either mode (`BuildProjects`, `Publish`), in body mode from a store that an operator fills meanwhile, and hashes
each file in one read and takes it from another (`HashBody`, `ReadBody`); `Restart` starts it with another
configuration file.  An identity whose row a client may have read is in `learned`, and `Download` is what it gets by
that row.  How `lock` installs is `CatalogTransaction`'s subject and how a commit is accepted `RustWatcher`'s; here
both are one step.

### Changing a catalog

**`CatalogLifecycle`** is the *content*: from declarations through `lock` and `update-apply` to what is merged,
released and served.  `Lock` and `UpdateApply` each are the whole command; `Generated`, `NextPackage`, `Row`,
`Stageable` and `Reconciles` are the parts of `reconcile`; `Monotonic` is `verify-monotonic` and
`ChecksTransition` is `check_transition`.

**`CatalogTransaction`** is the *installation*: `lock` and `update-apply` with one action per file operation that
can fail, be killed at, or be overtaken by an editor: acquire the guard, load, fingerprint, stage, copy, validate,
fingerprint again, move the live directory away, move the stage in (or move the live one back), sync the parent,
remove the backup, remove the guard.  `survivors` are the states of the parent directory that a power loss may
leave.  A catalog's content is a counter of edits and the set of admitted batches.

**`UpdateWorkflow`** is the *selection*: `update-plan`, `update-plan-exact` and `update-apply` for one mirrored
name.  `Implicit`, `Exact` and `ExactInLane` are the three selections of `policy.rs`; `Dormant`, `Promotions`,
`Reasons` and `Decision` are the evidence rules of `workflow.rs`; `Valid` is what `plan.rs` lets an admission lock
say.  `template` is the template of the last plan as long as the catalog lock it was planned against is the
catalog's.

### Pure decisions

**`ReleaseLadder`** is `verify-monotonic` (`render.rs`): what each of the four release schemas demands of a site,
and the transitions between them.  Each sees two neighbouring releases; `known` is what was ever released, and
the property is about that: `Remembered` compares it with the release deployed last.  The home of a package is
carried from one schema to the next by the two migrations (`HomeAt`).

**`UpdateEvidence`** is the evidence of one selected release: `archive.rs` (the archive inspected without unpacking
it, its limits), `delta.rs`, `api.rs`, `source.rs` (the comparison with the public tree), the reasons and the
decision of `workflow.rs`, and `plan.rs`, which validates all of that a second time.

**`Calendar`** is the arithmetic of timestamps, of `update/time.rs` and its copy in `migrate.rs`.  It keeps a day
and a second of the day apart, since TLC's integers have 32 bits.

**`Rules`** calls these three and the policy.  One call is one behaviour: `Evaluate` is the two policies on one input,
`Deploy` one site that the release ladder lets pass, and a timestamp or a selected update needs no step.  The inputs
are four constant sets; `InputAssumption` says what every one of them is (`Startup`, `Reload`, `Moment`,
`Selection`), `MCRules` gives the small sets TLC runs on.

### Abstractions

* Names, hashes and archives are model values; two identities differ in their evidence or not.  An archive stands
  for its hash.
* `CatalogTransaction` copies a tree in one step (an edit during the copy is one before or after it) and has a
  staged copy's own reconciliation as part of `ValidateStaged`.
* `CatalogLifecycle` gives a key one source class, leaves out `delivery = "retained"` (which is in `Delivery`), and
  its `Merge` does without CI's `verify-monotonic`, which makes the branch freer than documented: what holds here
  holds there.
* `UpdateWorkflow` has one name, so an admission of several names is not one step of it; crates.io rows never
  vanish, and change only by yanking.  New dependencies and the build surface, which add reasons for review, are in
  `UpdateEvidence`, which leaves the checks of version, time and lane to `UpdateWorkflow`.  A release whose
  source is forged is still admitted for review when the source does not answer, as the documentation says.
* `UpdateEvidence` takes the well-formedness of a tar header as one bit, and the content of a file as a name
  whose meaning to a parser constant functions give; `WithNul` are the contents with a NUL byte.  Modes are numbers.
  `ending` says how the tar stream ends, as far as the code tells it apart: with both zero blocks and nothing else
  after them, cut off, with one block only, with an entry after one, or with data after both.
* `Delivery` has the fetches of `lock` before the command, each package on its own; the command that uses them is
  one step, and so is the last strict load of the migration, which only decides its exit code.

### Not modelled

* *JavaScript tooling*: a one-shot renderer without state of its own.  *Vendor and harness*: scripts of the build
  and of the tests.  *The JavaScript copy of the snapshot build*: shares its fixtures with the Rust one.
* Paths, headers and conditional requests character by character; the text of TOML, JSON and index rows.
* Cargo, Git and crates.io themselves, subprocess environments and download retries.
* The schema conversions that write a fresh directory once (`migrate.rs`), except for their publication times.

`PROJECT.json` says of each component what of it is left out.

## 3. Properties and runs

`tlc -config <run>.cfg <module>` repeats a run (`RustSafety.cfg` with `MCRustWatcher`, and so on: `PROJECT.json`
pairs them), `tlapm <module>Proofs.tla` checks proofs.

| run | question | properties |
|---|---|---|
| `RustSafety` | Is anything but a legal step ever recorded or served, whatever fails? | `RecordLeadsByOneStep`, `ServedMovesForward`, `SessionMovesForward`, `UnpublishedRecordIsSuppressed`, `NoPanic`, `BadRecordForbidsService` |
| `RustSettles` | Does the Rust watcher keep its promise, and come to a verdict? | `KeepsLastKnownGood`, `RecordedObjectKept`, `StableTipIsJudged`, `FreshTipIsServed` |
| `JsOverlap` | What do overlapping polls preserve, and do they come to a verdict? | `NeverBeforeFirst`, `ServedIsRecorded`, `StableTipIsJudged` |
| `JsRegression` | (violation) Do overlapping polls only move forward? | `ServedMovesForward` |
| `Serving` | Does each request get one current answer and a permit, and an end? | `PermitsAreHeld`, `AnswerWasInstalled`, `RequestsEnd` |
| `Delivery` | Does what was tagged reach the client, and what was locked and checked get built? | `LockedCatalogBuilds`, `LearnedRowsResolve`, `ServedIsWhatWasTagged` |
| `CatalogTransaction` | Can a catalog or a reported batch be lost or overwritten unseen? | `OneAtATime`, `CatalogNeverLost`, `MissingIsExplained`, `AppliedIsKept`, `ReplacementKeeps` |
| `CatalogLifecycle` | Is history irreversible, and do the gates take what the tools make? | `StagedIsValid`, `SecondLockIsNoOp`, `GateAcceptsTools`, `WatcherAcceptsTools`, `HistoryIrreversible`, `RoutesPermanent` |
| `LifecycleRemoval` | (violation) Is a documented removal ever served? | `RemovalIsServed` |
| `UpdateWorkflow` | Is what was reviewed what is applied, and is every wake-up reviewed? | `TemplateStaysApplicable`, `ActiveLaneAdvances`, `WakeupIsReviewed` |
| `UpdateTemplate` | (violation) Is every generated template applicable? | `TemplateIsApplicable` |
| `Rules` | Are the pure decisions right, one by one and against their copies? | `ImplementationsAgree`, `ReleasedForGood`, `TimesAreReal`, `PlansValidate`, `SourceIsPublic`, `AutomaticIsQuiet` |

Each model has a type invariant, `TypeOK`; no run checks it, the theorems `TypeCorrect` of section 4 do.

### Bounds, and why they are enough

*Watchers.*  `MCHistory` has every relation a tip can have to what is served: a line `c0`–`c1`–`c2`, a legal fork
`d1`, an illegal child `x1`, an annotated tag `t1`, and no ref at all.  Legality is not transitive: `c2` is a legal
successor of `c1` and not of `c0`, as a catalog two download migrations ahead is none, so a tip can be rejected from
`c0`, and come back when it has become acceptable.
- `RustSafety` starts from any record (absent, malformed, of another ref or repository, `c1`) and gives the remote
  two moves, so the tip can change again during a reload; two faults, so that a second one meets what the first left; one
  damaged object; one kill and one power loss, so a half-persisted record is met by a restart.  About 2.5 million
  states.  A third commit after `c2` would only repeat the step from `c1` to `c2`.
- `RustSettles` has no power loss: the promise excludes it, and liveness after it is that of a restart.  It adds
  Git's automatic collection.
- `JsOverlap` has two polls in flight, the least that can overlap; the counterexample of `JsRegression` needs
  exactly these two and two moves.  A third adds no new pair of steps, and the proofs hold for any number.

*Serving.*  Three clients and one permit: one served, two in the queue, so that order and hand-over matter.  Three
snapshots, so an answer can be older than one that came and went while it waited, and a request that arrives after
the second tells an answer of the first from a current one.  Signals are not bounded: they come in every phase, and
again.  Services stop, so deadlock is not checked.

*Delivery.*  A mirror, a mirror of the same archive in another registry and a Git package, one move of its tag, one
package fetched, two events (an edit, a leftover removed, a kill, a file put into the store, a restart), which are
what it takes to kill a command and repeat it, to fill the store and read it in a service restarted in body mode, or
to change the declarations and change them back; two declarations, the
second without an edge that one package needs and with another home for what a second one depends on, so that a row
may have no route or another one, after the lock or before it; each of the valid configurations, and one with each
mistake.  1.2 million states.  Commands stop, so deadlock is not checked.

*Transaction.*  One `lock` and two `update-apply`, an edit, two faults (a rename and its undoing can both fail), a
kill and a power loss.  Six directory names: five run out, more add no states.

*Lifecycle.*  Two registries, so that a second one can take over or rival a route; three names, one of them
published from Git; three identities, one row that depends on another name; three edits, which are what adding a
home, using it and trying to take it over needs.

*Update.*  Three releases of one lane and a prerelease between them, one with a dependency without a home, one with
a forged source; an age floor of 1 and a dormant gap of 2 on a clock of 3, so both can be met exactly and missed
by one, and a burst can follow a silence; one release yanked at a time.

*Rules.*  The policy: every input, over two valid commits, one invalid name and the enumerations of the code.  The
ladder: two names in every state a name can have, each well-formed site of each schema, and each of those with any
one thing wrong; the whole ladder can be climbed.  Times: the years around which leap years and centuries turn,
every month and day and the ones past the end.  Evidence: every archive composed of a manifest, a claim, a file and
an oddity, each change from a base, each account of the source against each tree, one group at a time with the
others at their plainest, modes with each bit that is looked at and every way a stream may end.  One call per
behaviour, 127 thousand states; deadlock is not checked, since a call
ends.

### Fairness

Safety runs assume none.  `RustWatcher!FairSpec` is weak fairness of a running watcher's next step without a fault:
the runtime polls the task, the interval keeps ticking, and `GIT_TIMEOUT` bounds each Git command.
`JsWatcher!FairSpec` says the same of the startup, of each poll (the timer fires, the event loop resumes
what has finished, `GIT_TIMEOUT_MS` bounds Git) and of the drain.  `Serving!FairSpec` is weak fairness of each
request's own progress and of the exit once drained.  Nothing is assumed of the remote, of the clients, of
installations, of faults ending, or of a supervisor that restarts a process; the liveness properties are therefore
about a service that *stays* up while the tip *stays* put.

## 4. What is proved

All proofs hold for every value of the constants that satisfies the module's `ASSUME`, which TLC evaluates on the
instance of each run.

**`RustWatcherProofs`** (every history, set of first records and budget).  `TypeOK` and the property alone are not
inductive: that a record on disk is a legal step ahead depends on what the locals of a suspended `reload()` were
checked for.  `IInv` therefore says phase by phase what those locals are good for: `StartupRecord` (what is
on disk is what startup read), `ReadyPhase` (a reload's base is what is served), `CandidatePhase` (a candidate's
fields are filled in order, each after its gate), `Judged` (the inputs `apply()` may be handed) and `PublishPhase`
(what is about to be served is on disk).  From it follow `TypeCorrect`, `NeverPanics`, `RecordLeads`,
`ReloadJudgesServed`, the action properties `SessionForward` and `ServedForward`, and `Refinement`: with
`MaxOutages = 0`, the watcher implements `LastKnownGood`.
A second layer, `Further`, is about what is not in the locals: `ObjectsKept` (what is recorded is in the mirror until
Git collects), `AcceptedRecorded` and `RecordPhase` (where memory and disk may differ, and that the difference is
suppressed) and `BadStays` (a record that is not one of ours stays as it is).  That `startup()` does not get past such a
record is already in `IInv`.
From it follow `ObjectKept`, `UnpublishedSuppressed` and `BadRecordForbids`.

**`JsWatcherProofs`** (every history, any number of polls in flight, any budget).  `TypeCorrect`, `FirstStays` (no
commit older than the first one served is ever served or recorded) and `Recorded`.  Overlapping polls may publish in
any order, so nothing relates a poll's base to what is served; the invariant instead relates every base ever read to the
*first* commit: `PollPhase` follows one poll through its awaits, `StartupPhase` and `StartupRecord` the startup,
`AfterFirst` says that bases and what is served all follow the first commit, `FilesKept` the same of what a restart or a
power loss would find, and `NothingYet` what may be there before anything was served.  `PoliciesAgree` is here too: the
two policy functions decide alike, by cases, over any names.

**`ServingProofs`** (any number of requests, permits and installations).  `TypeCorrect`; `Permitted`: the semaphore
neither loses nor invents a permit; `Answered`: an answer's snapshot was installed while its request was under way,
also where the same client is answered from the same snapshot again.
`Semaphore` counts the granted requests and needs that the queue holds each waiting request exactly once, and none
while a permit is free; `Snapshots` bounds what a request has read by what was installed when it came.

**`DeliveryProofs`** (every set of packages, tags, archives, configurations and limits).  `TypeCorrect`; `Tagged`: what is
locked, and served, of a Git tag is one piece of evidence; `LockedBuilds`: a catalog that `lock` left and `check` passed
can be built, but for the named exceptions; `RowsResolve`: what clients learned keeps resolving.  Four invariants, each
on top of the types: `Evidence` says the same of a fetched package as of the locked ones; `Vetted` that each catalog
that may come to be built, and the working one, routes to the rows it records under the declarations `lock` last saw,
whatever is declared in it by now; `Checks` that what may be built has passed `check`; `Bodies` which archives the build
and the snapshot have read.

**`CatalogTransactionProofs`** (any number of commands, directories, edits, failures, crashes and power losses).
`Exclusion`: one command at a time is in its guarded section.  The invariant is that such a command is the owner of
the guard file; it needs that an exit removes only its own guard, a crash none, and the operator waits for every
command.  On top of it `TypeCorrect`, `NeverLost` (the catalog installed last is somewhere in the directory),
`Explained` (a missing catalog is one command between its renames, or one that failed or was killed there), `Applied`
(a batch that was reported is in the catalog) and `Replacement` (nothing is replaced that was not looked at).  Three
layers: `Names` says where each command's trees are, in every state of `survivors` too; `Contents` what is in them;
`Tallies` counts what explains a missing catalog.

**`CatalogLifecycleProofs`** (every set of registries, names, identities and evidence, any number of edits).
`TypeCorrect`, and `HistoryForever`: after the first lock is merged, no home moves, no hash or route changes, no
identity vanishes or comes back.  The invariant `Linked` is about the *working* catalog: its locks extend the
branch's whatever its declarations say, since commands only extend locks and giving up takes the branch's.
`StagedValid` and `SecondLock` are about the operator of `reconcile` itself: what passes its checks before
staging passes those after it, and a strict catalog is its own lock.  `GateAccepts`, `WatcherAccepts` and `RoutesForever`
need a second invariant, `Trails`: from what was released and served to the branch, and from there to the working
catalog, locks only extend and downloads only migrate forward; and what is locked has a home and its archives.
It rests on the assumption that the first catalog has no locks.

**`UpdateWorkflowProofs`** (every set of releases that has a greatest, every lane assignment, age and gap).
`Planned` carries what was true of a request when its template was written through time, publications and yanks;
`IInv` is that, the type invariant and "what is locked was published".  From it `TemplateStays`, `LaneAdvances` and
`Wakeup`.  That the base and the highest candidate exist is `Least`, by the well-foundedness of the numbers; that
`first_dormant_gap` finds a silence is `SilenceIsDormant`, by looking at the first release after it.

**`RulesProofs`** (every set of inputs with `InputAssumption`, every set of candidate sites, every archive, tree and
answer).  A call is at most one step, or a climb, so the inductive invariants are short: `Called` (the input is one of
those assumed) and `LadderInv` (whatever was ever released has its continuation in the release deployed last).
The length is in the functions:
- `ImplementationsAgreeAlways`: by cases over the enumerations.
- `ReleasedForGoodAlways`: each transition, whatever its own code, takes every package by one relation, `Steps`,
  to a package of the next site; what is remembered of a package (`Kept`) survives a step, with one case for each
  schema it may have been released in and each it may have arrived at.
- `TimesAreRealAlways`: the property counts the leap years, months and days of the calendar as finite sets; the code
  has a formula.  That the two counts agree is an induction over years and months whose statement is a set of
  numbers (the least number outside it leads to a contradiction), and that `civil_from_days` undoes `days_from_civil`
  is that each of its truncated divisions has the quotient expected, by bounds on either side.
- `PlansValidateAlways`, `SourceIsPublicAlways`, `AutomaticIsQuietAlways`: one lemma per part of what
  `build_candidate` returns, then one per check of `plan.rs` and per claim.  `PlansValidate` names exactly the
  candidates that `plan.rs` refuses (section 5), so both directions are proved.

They rest on `PolicyAssumption` (the configured identity and ref are well formed), `LadderAssumption` (a site has one
of the four schemas, and a package is yanked or not), `EvidenceAssumption` (what a parser returns) and
`InputAssumption` (what the callers pass: a selection that has no base although its package has locked releases never
gets there, since `rust/src/update/policy.rs:216` stops the planning).

With these, every invariant and every action property of the passing runs is stated by a theorem.

**Only model-checked**: liveness (`StableTipIsJudged` of both watchers, `FreshTipIsServed`, `RequestsEnd`), which
is beyond the proof system.  The length of an archive once unpacked (`UnpackedBlocks`, a fold over its entries) is
proved nothing about: it only decides whether an archive is inspected, and the theorems hold for either answer.

## 5. Findings

* **Overlapping JavaScript polls move the service backwards** (`JsRegression`).  `setInterval` starts a poll while
  an earlier one waits for Git; the slower one judged its candidate against an older base and publishes it over the
  newer one.  What still holds is `JsOverlap`: nothing older than the first commit ever served comes back, and disk
  and memory agree.
* **A documented removal stops the Rust service's updates** (`LifecycleRemoval`).  `lock` makes a tombstone,
  `verify-monotonic` takes it, and `check_transition` rejects the commit and each later one.
* **A generated template can be refused** (`UpdateTemplate`).  After the removal of a release above the active
  maximum of its lane, `update-plan` proposes that same release again, and with it the whole manifest is refused.

### Observations without a run

These follow from the models or from reading the code.  Of most of them no document says otherwise, or the effect is
documented; the first three differ from what a document says.

* The headers of both watchers (`rust/serve/src/watcher.rs:7-8`, `js/src/serve/watcher.js:7-8`) say that a rejected tip
  is suppressed "until the tip changes or the process restarts".  Nothing ever leaves `suppressed`
  (`watcher.rs:266` reads it, `:361` adds to it), and two histories differ from the header.  With `c0` served, the remote goes to
  `c2`, which is no legal successor of `c0`, back to `c1`, which is served, and on to `c2`: legal now, and never served
  until the restart.  And a tip that one failed Git command got suppressed stays so however often the ref changes.
  `FreshTipIsServed` therefore is about a tip that was not rejected before.
* `docs/catalog.md:174` says that loading a catalog validates the routed-row hash.  Neither `Catalog::load` nor the
  command `check` (`rust/src/main.rs:74`) routes a row; `lock`, `render` and the build of a snapshot do.  Removing an edge
  that is in use, or adding a home that takes over a dependency, passes `check` and stops the service's updates.  CI's
  no-op `lock` (`docs/workflows.md:115`) finds it, which is the exception "edited since the last `lock`" in
  `LockedCatalogBuilds`.
* The JavaScript service handles a stop signal only after both listeners are up (`js/src/serve/main.js:72-83`), and
  once (`:36-37`): a signal in that window, or a second one during the drain, ends the process with its requests.
  In Rust the window is a few instructions: `serve` polls the first accept and `shutdown_signal()` together.
  `RequestsEnd` names these cases.
* When the directory's fsync fails after the rename, the reload is reported as failed although the record has
  changed; a restart serves the new commit.  The commit stays suppressed until then
  (`UnpublishedRecordIsSuppressed` names the case).  A startup serves a record nobody synced.
* Git's collection may prune the accepted commit after a forced push, since no ref names it
  (`RecordedObjectKept` names the case): the next restart then fails until the operator intervenes.
* An edit after a command's last look at the live directory is replaced without notice (`late` in
  `ReplacementKeeps`).  A guard left by a crash blocks every command until the operator removes it, as
  `docs/workflows.md` says.  A second `update-apply` of an installed batch confirms it without guard or sync.
* Archive import takes no catalog guard and writes in place.  Deleting all locks makes the next `lock` a bootstrap;
  neither is modelled.
* The watcher also rejects a commit that adds a registry, and one that is two download migrations ahead, for ever;
  the release gate also rejects changed edges and `router` to `native` (the exceptions of `WatcherAcceptsTools` and
  `GateAcceptsTools`).
* A lane without a base older than its candidate fails `update-plan` for every name.  An exact plan of a version
  whose lane is active may be refused at apply.  Yanking a locked release upstream changes its row and stops plans
  and admissions of that name, also after its removal.
* When the second listener of the JavaScript service cannot be bound, the process neither ends nor becomes ready.
* Body mode needs a store body for every removed and mirrored identity too, although `rust/src/archive.rs:47` says
  that removed packages never require bodies (and `:33` calls the inventory everything body mode requires).  A
  reload that fails because the store lacks a body suppresses that tip until the next restart.
* `max_snapshot_body_bytes` (`rust/src/projection.rs`) is not enforced for bodies converted in body mode, and
  `check` knows no limits: a catalog that passes can still be too large for a service (the exceptions named in
  `LockedCatalogBuilds`).
* Two registries that retain the same archive make `archive-inventory` list it twice, and `archive-import` refuses
  such an inventory ("repeats object").  A file torn by a killed `archive-import`, and the temporary file of a killed
  migration, block later loads and imports until removed by hand.
* A removed identity with retained delivery answers 404 where clients had learned a redirect, as `docs/catalog.md:338`
  says.  Paths of `/v1` longer than 1024 bytes cannot be requested.
* Undeclaring one of several registries may leave an object set that is neither strict nor legacy, so `lock` refuses.
* `from_unix_seconds` panics for seconds beyond about 1.36e17.  `canonicalize_pubtime` (`rust/src/migrate.rs:147-152`)
  accepts impossible dates such as 31 February, although it says that input that is not RFC 3339 is an error.  A schema-3
  site with versions that differ in build metadata only, with names Cargo takes for one, or with a category
  without packages cannot be followed by one of schema 4.
* An admission request names no checksum and relies on crates.io never changing one.  That a decision says
  "review-required" is not enforced by `update-apply`.
* A trusted-publishing repository that ends in ".git" is kept as it is in the API evidence and normalised in the source
  evidence, so `plan.rs:741-820` refuses the plan that `workflow.rs` computed (`Renamed` in `PlansValidate`).  With
  trusted publishing, a repository URL with a trailing slash or a `/tree/…` path is a disagreement of anchors and
  blocks.  The build surface has the declared *name* of a build script not called `build.rs`, not its content.  One file
  of the public tree that is a link makes the whole comparison unavailable, and so a review, not a mismatch.

## 6. Plan

Done, in this order: the policy and the two watchers; the abstract specification and its refinement; the
transaction; the lifecycle; serving; the update workflow; packaging and delivery; the release ladder, the evidence
of updates and the calendar; the proofs of section 4.

Left to model: a request's path through both route tables, Rust and JavaScript side by side, character by
character; several names in one `update-apply`; the composition of `Serving` with a watcher, so that an answer's
snapshot is a legal successor of an earlier answer's.

Left to prove: nothing that is stated, but for liveness.  The composition above will need `ServedForward` of the
watcher as an assumption about `Install`.
