---------------------------- MODULE RustWatcher ----------------------------
(***************************************************************************)
(* The accepted-ref watcher of the Rust service.  One process polls one     *)
(* remote ref; every Git command, file operation and lock it waits for is a *)
(* step of its own, so that the remote, the disk and a kill can come        *)
(* between any two.  Polls never overlap: run() awaits each before the next.*)
(***************************************************************************)
EXTENDS GitMirror, Naturals

CONSTANTS
    WellFormed, RepositoryIdentity, FullRef,    \* see AcceptedRefPolicy
    InitialRecords,     \* records the state directory may hold at the start
    MaxMoves,           \* how often the remote ref moves
    MaxFaults,          \* how many commands and file operations fail
    MaxDamage,          \* how many mirror objects go bad
    MaxCrashes,         \* how often the process is killed or stopped
    MaxOutages,         \* how often the machine loses power
    GcRuns              \* whether git's automatic gc ever prunes

Policy == INSTANCE AcceptedRefPolicy WITH NoCommit <- None

ASSUME RustWatcherAssumption ==
    /\ Object \cup {RepositoryIdentity, FullRef} \subseteq WellFormed
    /\ None \notin WellFormed
    /\ \A file \in InitialRecords :
          \/ file \in {[kind |-> "absent"], [kind |-> "malformed"]}
          \/ \E r \in [commit : Commit, fullRef : WellFormed,
                       identity : WellFormed] :
                file = [kind |-> "present", record |-> r]
    /\ {MaxMoves, MaxFaults, MaxDamage, MaxCrashes, MaxOutages} \subseteq Nat
    /\ GcRuns \in BOOLEAN

VARIABLES
    remote,         \* the watched ref upstream, None when it is absent
    disk,           \* accepted-ref.json as the running system sees it
    durable,        \* accepted-ref.json as a power loss would leave it
    mirror,         \* the object store of the bare mirror
    watchRef,       \* refs/pkgre/watch in the mirror
    pc,             \* what the process does next
    start,          \* locals of startup()
    cand,           \* locals of one reload()
    accepted,       \* Watcher::accepted
    active,         \* the installed snapshot's source commit
    suppressed,     \* Watcher::suppressed
    last,           \* the commit served most recently, over all restarts
    moves, faults, damage, crashes, outages     \* used up so far

files == <<disk, durable>>
git == <<mirror, watchRef>>
process == <<pc, start, cand, accepted, active, suppressed>>
budgets == <<moves, faults, damage, crashes, outages>>
vars == <<remote, files, git, process, last, budgets>>

Absent == [kind |-> "absent"]
Malformed == [kind |-> "malformed"]
Present(record) == [kind |-> "present", record |-> record]
Record(commit) == Present(Policy!AcceptedRef(commit))

Files == {Absent, Malformed} \cup {Record(c) : c \in Commit} \cup InitialRecords

StartupPc == {"bootstrap-probe", "bootstrap-fetch", "bootstrap-reprobe",
              "accepted-probe", "decide", "build", "bootstrap-write",
              "bootstrap-sync"}
ReloadPc == {"fetch", "resolve", "probe", "ancestry", "validate", "write",
             "sync", "apply"}
PublishPc == {"accept", "install"}

NoStart == [file |-> Absent, bootstrapObject |-> "not-applicable",
            localObject |-> "not-applicable", commit |-> None]

NoCand == [base |-> None, tip |-> None, object |-> "missing",
           ancestry |-> "not-evaluated", semantic |-> "not-evaluated",
           persistence |-> "not-attempted"]

Init ==
    /\ remote \in Commit
    /\ disk \in InitialRecords
    /\ durable = disk
    /\ IF disk.kind = "present"
         THEN /\ watchRef = disk.record.commit
              /\ mirror = [o \in Object |->
                    IF o \in HistoryOf(watchRef) THEN "valid" ELSE "missing"]
         ELSE /\ watchRef = None
              /\ mirror = [o \in Object |-> "missing"]
    /\ pc = "down" /\ start = NoStart /\ cand = NoCand
    /\ accepted = None /\ active = None /\ suppressed = {}
    /\ last = None
    /\ moves = 0 /\ faults = 0 /\ damage = 0 /\ crashes = 0 /\ outages = 0

----------------------------------------------------------------------------
(* How a step ends. *)

\* a command or a file operation fails
Fault ==
    /\ faults < MaxFaults
    /\ faults' = faults + 1
    /\ UNCHANGED <<moves, damage, crashes, outages>>

Works == UNCHANGED budgets

\* what object_state() answers for the object
Probed(o, answer) ==
    \/ answer \in ProbedState(mirror, o) /\ Works
    \/ answer \in FailedProbe /\ Fault

\* git fetch of the watched ref: done, or failed with the ref left alone
FetchArrives ==
    /\ remote # None /\ Works
    /\ mirror' \in Fetched(mirror, remote)
    /\ watchRef' = remote

FetchFails ==
    /\ UNCHANGED watchRef
    /\ \/ Fault /\ UNCHANGED mirror
       \/ Fault /\ remote # None /\ mirror' \in Fetched(mirror, remote)
       \/ ~Fetchable(mirror, remote) /\ Works /\ UNCHANGED mirror

Goto(next) == pc' = next /\ UNCHANGED <<accepted, active, suppressed>>

\* the process is gone, and everything it kept in memory with it
Gone ==
    /\ pc' = "down" /\ start' = NoStart /\ cand' = NoCand
    /\ accepted' = None /\ active' = None /\ suppressed' = {}

Idle == pc' = "idle" /\ cand' = NoCand /\ UNCHANGED <<start, accepted, active>>

----------------------------------------------------------------------------
(* startup() *)

\* mutant: a record that does not parse is read as none
LoadedLeniently == IF disk.kind = "malformed" THEN Absent ELSE disk

\* load_startup_record
LoadedRecord == disk

\* prepare_state, prepare_repository, and the record
Startup ==
    /\ pc = "down"
    /\ \/ Fault /\ UNCHANGED process
       \/ /\ Works
          /\ start' = [NoStart EXCEPT !.file = LoadedRecord]
          /\ Goto(IF start'.file.kind = "absent" THEN "bootstrap-probe"
                  ELSE IF start'.file.kind = "present" THEN "accepted-probe"
                  ELSE "decide")
          /\ UNCHANGED cand
    /\ UNCHANGED <<remote, files, git, last>>

ProbeBootstrap ==
    /\ pc = "bootstrap-probe"
    /\ \E answer \in ProbeAnswer :
          /\ Probed(Bootstrap, answer)
          /\ \/ answer = "error" /\ Gone
             \/ /\ answer = "missing" /\ Goto("bootstrap-fetch")
                /\ UNCHANGED <<start, cand>>
             \/ /\ answer \notin {"error", "missing"} /\ Goto("decide")
                /\ start' = [start EXCEPT !.bootstrapObject = answer]
                /\ UNCHANGED cand
    /\ UNCHANGED <<remote, files, git, last>>

\* a failed fetch is only logged
FetchBootstrap ==
    /\ pc = "bootstrap-fetch"
    /\ FetchArrives \/ FetchFails
    /\ Goto("bootstrap-reprobe")
    /\ UNCHANGED <<remote, files, start, cand, last>>

ReprobeBootstrap ==
    /\ pc = "bootstrap-reprobe"
    /\ \E answer \in ProbeAnswer :
          /\ Probed(Bootstrap, answer)
          /\ \/ answer = "error" /\ Gone
             \/ /\ answer # "error" /\ Goto("decide")
                /\ start' = [start EXCEPT !.bootstrapObject = answer]
                /\ UNCHANGED cand
    /\ UNCHANGED <<remote, files, git, last>>

ProbeAccepted ==
    /\ pc = "accepted-probe"
    /\ \E answer \in ProbeAnswer :
          /\ Probed(start.file.record.commit, answer)
          /\ \/ answer = "error" /\ Gone
             \/ /\ answer # "error" /\ Goto("decide")
                /\ start' = [start EXCEPT !.localObject = answer]
                /\ UNCHANGED cand
    /\ UNCHANGED <<remote, files, git, last>>

StartupInput ==
    [state |-> start.file.kind,
     record |-> IF start.file.kind = "present" THEN start.file.record
                ELSE Policy!AcceptedRef(None),
     bootstrap |-> Bootstrap,
     bootstrapObject |-> start.bootstrapObject,
     localObject |-> start.localObject]

DecideStartup ==
    /\ pc = "decide"
    /\ LET outcome == Policy!EvaluateStartup(StartupInput) IN
          \/ /\ outcome.decision \in {"bootstrap", "start-accepted"}
             /\ start' = [start EXCEPT !.commit = outcome.active]
             /\ Goto("build")
             /\ UNCHANGED cand
          \/ outcome.decision \notin {"bootstrap", "start-accepted"} /\ Gone
    /\ Works /\ UNCHANGED <<remote, files, git, last>>

\* initial_snapshot
BuildInitial ==
    /\ pc = "build"
    /\ \/ /\ mirror[start.commit] = "valid" /\ start.commit \in Buildable
          /\ Works
          /\ Goto(IF start.file.kind = "absent" THEN "bootstrap-write"
                  ELSE "accept")
          /\ UNCHANGED <<start, cand>>
       \/ /\ ~(mirror[start.commit] = "valid" /\ start.commit \in Buildable)
          /\ Works /\ Gone
       \/ Fault /\ Gone
    /\ UNCHANGED <<remote, files, git, last>>

\* publish_record in two: up to the rename, and the directory's fsync
WriteBootstrap ==
    /\ pc = "bootstrap-write"
    /\ \/ /\ Works /\ disk' = Record(start.commit)
          /\ Goto("bootstrap-sync")
          /\ UNCHANGED <<start, cand>>
       \/ Fault /\ Gone /\ UNCHANGED disk
    /\ UNCHANGED <<remote, durable, git, last>>

SyncBootstrap ==
    /\ pc = "bootstrap-sync"
    /\ \/ /\ Works /\ durable' = disk
          /\ Goto("accept")
          /\ UNCHANGED <<start, cand>>
       \/ Fault /\ Gone /\ UNCHANGED durable
    /\ UNCHANGED <<remote, disk, git, last>>

----------------------------------------------------------------------------
(* poll_once() and reload() *)

\* The candidate apply() hands to the policy; observed = FALSE is None.
Candidate(c, observed, isSuppressed) ==
    [observed |-> observed, commit |-> c.tip, fullRef |-> FullRef,
     identity |-> RepositoryIdentity, object |-> c.object,
     ancestry |-> c.ancestry, semantic |-> c.semantic,
     persistence |-> c.persistence, suppressed |-> isSuppressed]

\* mutant: a rejection is not noted
NotedNever(candidate) == suppressed

\* the rejected hashes after candidate has been retained against
Noted(candidate) ==
    IF candidate.observed /\ ~candidate.suppressed
      THEN suppressed \cup {candidate.commit}
      ELSE suppressed

\* apply(): an accepted candidate stays in cand until it is published
Apply(base, candidate) ==
    LET outcome ==
          Policy!EvaluateReload(Policy!AcceptedRef(base), candidate) IN
    \/ /\ outcome.decision = "error"
       /\ Goto("panic") /\ UNCHANGED <<start, cand>>
    \/ /\ outcome.decision = "accept-forward"
       /\ Goto("accept") /\ UNCHANGED <<start, cand>>
    \/ /\ outcome.decision = "retain-accepted"
       /\ suppressed' = Noted(candidate)
       /\ Idle
    \/ /\ outcome.decision = "unchanged"
       /\ Idle /\ UNCHANGED suppressed

\* the reload gives up without a verdict on the tip
NoVerdict == Apply(cand.base, Candidate(cand, FALSE, FALSE))

\* poll_once reads accepted, remote_tip asks the remote
ObserveRemote ==
    /\ pc = "idle"
    /\ \/ /\ Fault \/ (remote = None /\ Works)
          /\ Apply(accepted, Candidate(NoCand, FALSE, FALSE))
       \/ remote = accepted /\ Works /\ Idle /\ UNCHANGED suppressed
       \/ /\ remote \in suppressed \ {accepted} /\ Works
          /\ Apply(accepted, Candidate([NoCand EXCEPT !.tip = remote],
                                       TRUE, TRUE))
       \/ /\ remote \notin suppressed \cup {None, accepted} /\ Works
          /\ cand' = [NoCand EXCEPT !.base = accepted, !.tip = remote]
          /\ Goto("fetch") /\ UNCHANGED start
    /\ UNCHANGED <<remote, files, git, last>>

FetchTip ==
    /\ pc = "fetch"
    /\ \/ FetchArrives /\ Goto("resolve") /\ UNCHANGED <<start, cand>>
       \/ FetchFails /\ NoVerdict
    /\ UNCHANGED <<remote, files, last>>

\* rev-parse peels the fetched ref; the remote may have moved meanwhile
ResolveTip ==
    /\ pc = "resolve"
    /\ \/ /\ Works /\ mirror[watchRef] = "valid" /\ Peel[watchRef] = cand.tip
          /\ Goto("probe") /\ UNCHANGED <<start, cand>>
       \/ /\ ~(mirror[watchRef] = "valid" /\ Peel[watchRef] = cand.tip)
          /\ Works /\ NoVerdict
       \/ Fault /\ NoVerdict
    /\ UNCHANGED <<remote, files, git, last>>

ProbeTip ==
    /\ pc = "probe"
    /\ \E answer \in ProbeAnswer :
          /\ Probed(cand.tip, answer)
          /\ \/ answer = "error" /\ NoVerdict
             \/ /\ answer # "error"
                /\ cand' = [cand EXCEPT !.object = answer]
                /\ Goto(IF answer = "valid" THEN "ancestry" ELSE "apply")
                /\ UNCHANGED start
    /\ UNCHANGED <<remote, files, git, last>>

ProbeAncestry ==
    /\ pc = "ancestry"
    /\ \E answer \in {"descendant", "predecessor", "divergent", "unknown"} :
          /\ \/ /\ answer \in ProbedAncestry(mirror, cand.base, cand.tip)
                /\ Works
             \/ answer = "unknown" /\ Fault
          /\ cand' = [cand EXCEPT !.ancestry = answer]
          /\ Goto(IF answer = "descendant" THEN "validate" ELSE "apply")
    /\ UNCHANGED <<remote, files, git, start, last>>

\* mutant: the candidate is validated on its own
ValidatesAlone(base, tip) ==
    mirror[base] = "valid" /\ mirror[tip] = "valid" /\ tip \in Buildable

\* whatever goes wrong while validating counts against the candidate
Validates(base, tip) ==
    /\ mirror[base] = "valid" /\ mirror[tip] = "valid"
    /\ <<base, tip>> \in Successor
    /\ tip \in Buildable

ValidateCandidate ==
    /\ pc = "validate"
    /\ \/ /\ Works /\ Validates(cand.base, cand.tip)
          /\ cand' = [cand EXCEPT !.semantic = "valid"]
          /\ Goto("write")
       \/ /\ Fault \/ (Works /\ ~Validates(cand.base, cand.tip))
          /\ cand' = [cand EXCEPT !.semantic = "invalid"]
          /\ Goto("apply")
    /\ UNCHANGED <<remote, files, git, start, last>>

\* mutants: a failed write counts as no verdict, or goes unreported
PersistRetried == Fault /\ NoVerdict
PersistUnreported == Fault /\ UNCHANGED cand /\ Goto("apply")

PersistFailed ==
    /\ Fault
    /\ cand' = [cand EXCEPT !.persistence = "interrupted-before-rename"]
    /\ Goto("apply")

WriteRecord ==
    /\ pc = "write"
    /\ \/ /\ Works /\ disk' = Record(cand.tip)
          /\ Goto("sync") /\ UNCHANGED cand
       \/ PersistFailed /\ UNCHANGED disk
    /\ UNCHANGED <<remote, durable, git, start, last>>

SyncRecord ==
    /\ pc = "sync"
    /\ \/ /\ Works /\ durable' = disk
          /\ cand' = [cand EXCEPT !.persistence = "success"]
          /\ Goto("apply")
       \/ PersistFailed /\ UNCHANGED durable
    /\ UNCHANGED <<remote, disk, git, start, last>>

ApplyCandidate ==
    /\ pc = "apply"
    /\ Apply(cand.base, Candidate(cand, TRUE, FALSE))
    /\ Works /\ UNCHANGED <<remote, files, git, last>>

----------------------------------------------------------------------------
(* Publication: Watcher::accepted first, then the shared snapshot, each     *)
(* behind a lock of its own.                                                *)

\* mutant: a restart publishes the configured commit
PublishingBootstrap == IF cand.tip # None THEN cand.tip ELSE Bootstrap

Publishing == IF cand.tip # None THEN cand.tip ELSE start.commit

AcceptCommit ==
    /\ pc = "accept"
    /\ accepted' = Publishing /\ pc' = "install"
    /\ UNCHANGED <<start, cand, active, suppressed>>
    /\ Works /\ UNCHANGED <<remote, files, git, last>>

InstallSnapshot ==
    /\ pc = "install"
    /\ active' = Publishing /\ last' = Publishing
    /\ pc' = "idle" /\ start' = NoStart /\ cand' = NoCand
    /\ UNCHANGED <<accepted, suppressed>>
    /\ Works /\ UNCHANGED <<remote, files, git>>

----------------------------------------------------------------------------
(* The environment. *)

MoveRemote ==
    /\ moves < MaxMoves /\ moves' = moves + 1
    /\ \E o \in Object \cup {None} : o # remote /\ remote' = o
    /\ UNCHANGED <<files, git, process, last, faults, damage, crashes, outages>>

DamageObject ==
    /\ damage < MaxDamage /\ damage' = damage + 1
    /\ \E o \in Object :
          mirror[o] = "valid" /\ mirror' = [mirror EXCEPT ![o] = "corrupt"]
    /\ UNCHANGED <<remote, files, watchRef, process, last,
                   moves, faults, crashes, outages>>

AutoGc ==
    /\ GcRuns
    /\ mirror' = Pruned(mirror, watchRef)
    /\ mirror' # mirror
    /\ UNCHANGED <<remote, files, watchRef, process, last, budgets>>

\* the kernel writes the directory back on its own
WriteBack ==
    /\ durable # disk /\ durable' = disk
    /\ UNCHANGED <<remote, disk, git, process, last, budgets>>

\* Killed, or stopped: run() drops the poll at whatever it is awaiting.
Crash ==
    /\ pc # "down" /\ crashes < MaxCrashes /\ crashes' = crashes + 1
    /\ Gone
    /\ UNCHANGED <<remote, files, git, last, moves, faults, damage, outages>>

PowerLoss ==
    /\ outages < MaxOutages /\ outages' = outages + 1
    /\ Gone
    /\ disk' = durable
    /\ UNCHANGED <<remote, durable, git, last, moves, faults, damage, crashes>>

----------------------------------------------------------------------------

StartupStep ==
    \/ Startup \/ ProbeBootstrap \/ FetchBootstrap \/ ReprobeBootstrap
    \/ ProbeAccepted \/ DecideStartup \/ BuildInitial
    \/ WriteBootstrap \/ SyncBootstrap

ReloadStep ==
    \/ ObserveRemote \/ FetchTip \/ ResolveTip \/ ProbeTip \/ ProbeAncestry
    \/ ValidateCandidate \/ WriteRecord \/ SyncRecord \/ ApplyCandidate

PublishStep == AcceptCommit \/ InstallSnapshot

WatcherStep == StartupStep \/ ReloadStep \/ PublishStep

Environment ==
    MoveRemote \/ DamageObject \/ AutoGc \/ WriteBack \/ Crash \/ PowerLoss

Next == WatcherStep \/ Environment

Spec == Init /\ [][Next]_vars

(***************************************************************************)
(* A running watcher always takes its next step: the runtime polls it, the  *)
(* interval keeps ticking and GIT_TIMEOUT bounds every Git call.  A fault   *)
(* is never forced.  Nothing is assumed of the remote, or of whoever would  *)
(* restart the process once it is gone.                                     *)
(***************************************************************************)
RunningStep == pc # "down" /\ WatcherStep /\ faults' = faults

FairSpec == Spec /\ WF_vars(RunningStep)

----------------------------------------------------------------------------
(* Properties. *)

Commits == Commit \cup {None}

StartState ==
    [file : Files, bootstrapObject : Policy!ObjectState,
     localObject : Policy!ObjectState, commit : Commits]

CandState ==
    [base : Commits, tip : Object \cup {None}, object : Policy!ObjectState,
     ancestry : Policy!Ancestry, semantic : Policy!SemanticValidity,
     persistence : Policy!Persistence]

BudgetsOK ==
    /\ moves \in 0 .. MaxMoves /\ faults \in 0 .. MaxFaults
    /\ damage \in 0 .. MaxDamage /\ crashes \in 0 .. MaxCrashes
    /\ outages \in 0 .. MaxOutages

\* The type invariant.
TypeOK ==
    /\ remote \in Object \cup {None}
    /\ disk \in Files /\ durable \in Files
    /\ mirror \in Mirrors /\ watchRef \in Object \cup {None}
    /\ pc \in {"down", "idle", "panic"} \cup StartupPc \cup ReloadPc
                \cup PublishPc
    /\ start \in StartState /\ cand \in CandState
    /\ accepted \in Commits /\ active \in Commits /\ last \in Commits
    /\ suppressed \subseteq Object
    /\ BudgetsOK

\* the commit a restart would serve from this file
StoredCommit(file) ==
    IF file.kind = "present"
      THEN IF Policy!Bound(file.record) THEN file.record.commit ELSE None
      ELSE None

\* The record on disk is what was served last or one legal step ahead of it,
\* whatever failed or was killed on the way, until a power loss takes the
\* directory back (persist_record before apply, startup from the record).
RecordLeadsByOneStep ==
    outages = 0 /\ last # None =>
        \/ StoredCommit(disk) = last
        \/ StoredCommit(disk) \in Commit /\ Forward(last, StoredCommit(disk))

\* Over all restarts, what clients are served only ever moves forward along
\* legal, servable steps, as long as the machine does not lose power.
ServedMovesForward ==
    [][last' # last /\ last # None /\ outages = 0 => Forward(last, last')]_vars

\* Within one process no fault at all moves the served snapshot other than
\* forward: reload() compares the candidate with what is being served.
SessionMovesForward ==
    [][active # active' /\ active # None /\ active' # None
          => Forward(active, active')]_vars

\* Between polls the record on disk is the accepted one, or one whose
\* persistence failed half way and that this process will not try again.
UnpublishedRecordIsSuppressed ==
    pc = "idle" =>
        \/ disk = Record(accepted)
        \/ \E c \in suppressed \cap Commit :
              disk = Record(c) /\ Forward(accepted, c)

\* A present but malformed or foreign record is never replaced, never read
\* past, and never served around by bootstrapping (load_startup_record,
\* evaluate_startup).
BadRecordForbidsService ==
    [][disk # Absent /\ StoredCommit(disk) = None
          => disk' = disk /\ active' = None]_vars

\* A reload judges its candidate against the commit being served, and the
\* watcher never idles with something else than the accepted commit served.
ReloadsFromServed ==
    /\ pc \in ReloadPc => cand.base = active
    /\ pc \in ReloadPc \cup {"idle"} => active = accepted /\ active \in Buildable

\* apply() never meets an inconsistent candidate: its expect() cannot fire.
NoPanic == pc # "panic"

\* Without damage to the mirror, the object a restart needs is there, except
\* when Git collected it after the watched ref left its history.
RecordedObjectKept ==
    damage = 0 /\ StoredCommit(disk) # None =>
        \/ mirror[StoredCommit(disk)] = "valid"
        \/ GcRuns /\ StoredCommit(disk) \notin HistoryOf(watchRef)

\* Once the remote stays on a commit, a service that stays up ends up serving
\* it or rejecting it for good: no tip is left without a verdict.
StableTipIsJudged ==
    \A o \in Commit :
        <>[](remote = o /\ active # None) => <>[](o \in suppressed \cup {active})

\* With no command failing, an idle service whose remote moves to a legal step
\* it has not rejected before ends up serving it, unless the remote moves on.
\* A tip that was rejected stays so even if the remote leaves it and comes
\* back when it has become a legal step: reload() never clears suppressed.
FreshTipIsServed ==
    \A o \in Commit :
        (pc = "idle" /\ remote = o /\ o \notin suppressed
            /\ Forward(active, o) /\ faults = 0)
          ~> (active = o \/ active = None \/ remote # o \/ faults > 0)

\* The watcher keeps the promise of LastKnownGood (without power loss).
LKG == INSTANCE LastKnownGood WITH stored <- StoredCommit(disk), served <- active

KeepsLastKnownGood == LKG!Spec

============================================================================
