----------------------------- MODULE JsWatcher -----------------------------
(***************************************************************************)
(* The accepted-ref watcher of the JavaScript service.  A timer starts a    *)
(* poll every pollIntervalSeconds whether or not earlier polls are still    *)
(* waiting for Git, so polls interleave at every await; what lies between   *)
(* two awaits is one step of the event loop.                                *)
(***************************************************************************)
EXTENDS GitMirror, Naturals

CONSTANTS
    WellFormed, RepositoryIdentity, FullRef,    \* see AcceptedRefPolicy
    InitialRecords,     \* records the state directory may hold at the start
    Poll,               \* how many polls may be in flight at once
    MaxMoves, MaxFaults, MaxDamage, MaxCrashes, MaxOutages,
    GcRuns              \* the environment's budgets, as in RustWatcher

Policy == INSTANCE AcceptedRefPolicy WITH NoCommit <- None

ASSUME JsWatcherAssumption ==
    /\ Object \cup {RepositoryIdentity, FullRef} \subseteq WellFormed
    /\ None \notin WellFormed
    /\ \A file \in InitialRecords :
          \/ file \in {[kind |-> "absent"], [kind |-> "malformed"]}
          \/ \E r \in [commit : Commit, fullRef : WellFormed,
                       identity : WellFormed] :
                file = [kind |-> "present", record |-> r]
    /\ {MaxMoves, MaxFaults, MaxDamage, MaxCrashes, MaxOutages} \subseteq Nat
    /\ GcRuns \in BOOLEAN

VARIABLES
    remote,         \* the watched ref upstream, None when it is absent
    disk,           \* accepted-ref.json as the running system sees it
    durable,        \* accepted-ref.json as a power loss would leave it
    mirror,         \* the object store of the bare mirror
    watchRef,       \* refs/pkgre/watch in the mirror
    pc,             \* what startup does next, "running" and "draining" after it
    start,          \* locals of startup()
    poll,           \* [Poll -> locals of one pollOnce() and reload()]
    accepted,       \* this.accepted
    active,         \* shared.snapshot.sourceCommit
    suppressed,     \* this.suppressed
    last,           \* the commit served most recently, over all restarts
    first,          \* the commit served first of all
    moves, faults, damage, crashes, outages     \* used up so far

files == <<disk, durable>>
git == <<mirror, watchRef>>
memory == <<accepted, active, suppressed>>
process == <<pc, start, poll, memory>>
served == <<last, first>>
budgets == <<moves, faults, damage, crashes, outages>>
vars == <<remote, files, git, process, served, budgets>>

Absent == [kind |-> "absent"]
Malformed == [kind |-> "malformed"]
Record(commit) == [kind |-> "present", record |-> Policy!AcceptedRef(commit)]
Files == {Absent, Malformed} \cup {Record(c) : c \in Commit} \cup InitialRecords

StartupPc == {"bootstrap-probe", "bootstrap-fetch", "bootstrap-reprobe",
              "accepted-probe", "decide", "build"}

NoStart == [file |-> Absent, bootstrapObject |-> "not-applicable",
            localObject |-> "not-applicable", commit |-> None]

NoPoll == [pc |-> "none", base |-> None, tip |-> None, object |-> "missing",
           ancestry |-> "not-evaluated"]

Init ==
    /\ remote \in Commit
    /\ disk \in InitialRecords
    /\ durable = disk
    /\ IF disk.kind = "present"
         THEN /\ watchRef = disk.record.commit
              /\ mirror = [o \in Object |->
                    IF o \in HistoryOf(watchRef) THEN "valid" ELSE "missing"]
         ELSE /\ watchRef = None
              /\ mirror = [o \in Object |-> "missing"]
    /\ pc = "down" /\ start = NoStart /\ poll = [p \in Poll |-> NoPoll]
    /\ accepted = None /\ active = None /\ suppressed = {}
    /\ last = None /\ first = None
    /\ moves = 0 /\ faults = 0 /\ damage = 0 /\ crashes = 0 /\ outages = 0

----------------------------------------------------------------------------
(* How a step ends. *)

\* A bound: a damaged object and another incident do not come together.
Undamaged == damage = 0

Fault ==
    /\ faults < MaxFaults /\ Undamaged
    /\ faults' = faults + 1
    /\ UNCHANGED <<moves, damage, crashes, outages>>

Works == UNCHANGED budgets

\* what probeObject() answers for the object
Probed(o, answer) ==
    \/ answer \in ProbedState(mirror, o) /\ Works
    \/ answer \in FailedProbe /\ Fault

FetchArrives ==
    /\ remote # None /\ Works
    /\ mirror' \in Fetched(mirror, remote)
    /\ watchRef' = remote

\* A failure may also be two fetches contending for the lock of the one ref.
FetchFails ==
    /\ UNCHANGED watchRef
    /\ \/ Fault /\ UNCHANGED mirror
       \/ Fault /\ remote # None /\ mirror' \in Fetched(mirror, remote)
       \/ ~Fetchable(mirror, remote) /\ Works /\ UNCHANGED mirror

Gone ==
    /\ pc' = "down" /\ start' = NoStart /\ poll' = [p \in Poll |-> NoPoll]
    /\ accepted' = None /\ active' = None /\ suppressed' = {}

Publish(commit) ==
    /\ accepted' = commit /\ active' = commit /\ last' = commit
    /\ first' = IF first = None THEN commit ELSE first

\* mutant: published without a record
NotPersisted(commit) == Works /\ UNCHANGED files

\* persistRecord(): fails before the rename, at the directory's fsync (the
\* new record is in place), or not at all
Persisted(commit) ==
    disk' = Record(commit) /\ durable' = disk' /\ Works

PersistFails(commit) ==
    /\ Fault /\ UNCHANGED durable
    /\ disk' \in {disk, Record(commit)}

----------------------------------------------------------------------------
(* startup() *)

StartupGoto(next) == pc' = next /\ UNCHANGED <<poll, memory>>

Startup ==
    /\ pc = "down"
    /\ \/ Fault /\ UNCHANGED process
       \/ /\ Works
          /\ start' = [NoStart EXCEPT !.file = disk]
          /\ StartupGoto(IF disk.kind = "absent" THEN "bootstrap-probe"
                         ELSE IF disk.kind = "present" THEN "accepted-probe"
                         ELSE "decide")
    /\ UNCHANGED <<remote, files, git, served>>

ProbeBootstrap ==
    /\ pc = "bootstrap-probe"
    /\ \E answer \in ProbeAnswer :
          /\ Probed(Bootstrap, answer)
          /\ \/ answer = "error" /\ Gone
             \/ /\ answer = "missing" /\ StartupGoto("bootstrap-fetch")
                /\ UNCHANGED start
             \/ /\ answer \notin {"error", "missing"} /\ StartupGoto("decide")
                /\ start' = [start EXCEPT !.bootstrapObject = answer]
    /\ UNCHANGED <<remote, files, git, served>>

FetchBootstrap ==
    /\ pc = "bootstrap-fetch"
    /\ FetchArrives \/ FetchFails
    /\ StartupGoto("bootstrap-reprobe")
    /\ UNCHANGED <<remote, files, start, served>>

ReprobeBootstrap ==
    /\ pc = "bootstrap-reprobe"
    /\ \E answer \in ProbeAnswer :
          /\ Probed(Bootstrap, answer)
          /\ \/ answer = "error" /\ Gone
             \/ /\ answer # "error" /\ StartupGoto("decide")
                /\ start' = [start EXCEPT !.bootstrapObject = answer]
    /\ UNCHANGED <<remote, files, git, served>>

ProbeAccepted ==
    /\ pc = "accepted-probe"
    /\ \E answer \in ProbeAnswer :
          /\ Probed(start.file.record.commit, answer)
          /\ \/ answer = "error" /\ Gone
             \/ /\ answer # "error" /\ StartupGoto("decide")
                /\ start' = [start EXCEPT !.localObject = answer]
    /\ UNCHANGED <<remote, files, git, served>>

StartupInput ==
    [state |-> start.file.kind,
     record |-> IF start.file.kind = "present" THEN start.file.record
                ELSE Policy!AcceptedRef(None),
     bootstrap |-> Bootstrap,
     bootstrapObject |-> start.bootstrapObject,
     localObject |-> start.localObject]

DecideStartup ==
    /\ pc = "decide"
    /\ LET outcome == Policy!JsEvaluateStartup(StartupInput) IN
          \/ /\ outcome.decision \in {"bootstrap", "start-accepted"}
             /\ start' = [start EXCEPT !.commit = outcome.active]
             /\ StartupGoto("build")
          \/ outcome.decision \notin {"bootstrap", "start-accepted"} /\ Gone
    /\ Works /\ UNCHANGED <<remote, files, git, served>>

\* initialSnapshot() is awaited; the rest of startup is one step
Builds(commit) == mirror[commit] = "valid" /\ commit \in Buildable

StartServing ==
    /\ pc = "build" /\ Builds(start.commit)
    /\ IF start.file.kind = "absent" THEN Persisted(start.commit)
       ELSE Works /\ UNCHANGED files
    /\ Publish(start.commit)
    /\ pc' = "running" /\ start' = NoStart
    /\ UNCHANGED <<remote, git, poll, suppressed>>

StartFails ==
    /\ pc = "build"
    /\ \/ ~Builds(start.commit) /\ Works /\ UNCHANGED files
       \/ Fault /\ UNCHANGED files
       \/ /\ Builds(start.commit) /\ start.file.kind = "absent"
          /\ PersistFails(start.commit)
    /\ Gone
    /\ UNCHANGED <<remote, git, served>>

----------------------------------------------------------------------------
(* pollOnce() and reload() *)

Up == pc \in {"running", "draining"}

PollGoto(p, locals) ==
    poll' = [poll EXCEPT ![p] = locals] /\ UNCHANGED <<pc, start, memory>>

Candidate(c, observed, semantic, persistence, isSuppressed) ==
    [observed |-> observed, commit |-> c.tip, fullRef |-> FullRef,
     identity |-> RepositoryIdentity, object |-> c.object,
     ancestry |-> c.ancestry, semantic |-> semantic,
     persistence |-> persistence, suppressed |-> isSuppressed]

\* mutant: a rejection is not noted
NotedNever(candidate) == suppressed

\* the rejected hashes after candidate has been retained against
Noted(candidate) ==
    IF candidate.observed /\ ~candidate.suppressed
      THEN suppressed \cup {candidate.commit}
      ELSE suppressed

\* apply(); a policy exception only fails this poll
Apply(p, base, candidate) ==
    LET outcome ==
          Policy!JsEvaluateReload(Policy!AcceptedRef(base), candidate) IN
    /\ IF outcome.decision = "accept-forward"
         THEN Publish(outcome.active) /\ UNCHANGED suppressed
         ELSE /\ suppressed' = IF outcome.decision = "retain-accepted"
                                  THEN Noted(candidate) ELSE suppressed
              /\ UNCHANGED <<accepted, active, served>>
    /\ poll' = [poll EXCEPT ![p] = NoPoll]
    /\ UNCHANGED <<pc, start>>

NoVerdict(p) ==
    Apply(p, poll[p].base,
          Candidate(poll[p], FALSE, "not-evaluated", "not-attempted", FALSE))

\* setInterval: pollOnce() reads this.accepted and asks the remote
StartPoll(p) ==
    /\ pc = "running" /\ poll[p].pc = "none"
    /\ PollGoto(p, [NoPoll EXCEPT !.pc = "observe", !.base = accepted])
    /\ Works /\ UNCHANGED <<remote, files, git, served>>

ObserveRemote(p) ==
    /\ Up /\ poll[p].pc = "observe"
    /\ LET base == poll[p].base IN
       \/ /\ Fault \/ (remote = None /\ Works)
          /\ NoVerdict(p)
       \/ /\ remote = base /\ Works
          /\ PollGoto(p, NoPoll) /\ UNCHANGED served
       \/ /\ remote \in suppressed \ {base} /\ Works
          /\ Apply(p, base, Candidate([NoPoll EXCEPT !.tip = remote], TRUE,
                       "not-evaluated", "not-attempted", TRUE))
       \/ /\ remote \notin suppressed \cup {None, base} /\ Works
          /\ PollGoto(p, [poll[p] EXCEPT !.pc = "fetch", !.tip = remote])
          /\ UNCHANGED served
    /\ UNCHANGED <<remote, files, git>>

FetchTip(p) ==
    /\ Up /\ poll[p].pc = "fetch"
    /\ \/ /\ FetchArrives
          /\ PollGoto(p, [poll[p] EXCEPT !.pc = "resolve"])
          /\ UNCHANGED served
       \/ FetchFails /\ NoVerdict(p)
    /\ UNCHANGED <<remote, files>>

Resolves(tip) == mirror[watchRef] = "valid" /\ Peel[watchRef] = tip

ResolveTip(p) ==
    /\ Up /\ poll[p].pc = "resolve"
    /\ \/ /\ Resolves(poll[p].tip) /\ Works
          /\ PollGoto(p, [poll[p] EXCEPT !.pc = "probe"])
          /\ UNCHANGED served
       \/ ~Resolves(poll[p].tip) /\ Works /\ NoVerdict(p)
       \/ Fault /\ NoVerdict(p)
    /\ UNCHANGED <<remote, files, git>>

ProbeTip(p) ==
    /\ Up /\ poll[p].pc = "probe"
    /\ \E answer \in ProbeAnswer :
          /\ Probed(poll[p].tip, answer)
          /\ \/ answer = "error" /\ NoVerdict(p)
             \/ /\ answer = "valid"
                /\ PollGoto(p, [poll[p] EXCEPT !.pc = "ancestry",
                                               !.object = answer])
                /\ UNCHANGED served
             \/ /\ answer \notin {"error", "valid"}
                /\ Apply(p, poll[p].base,
                         Candidate([poll[p] EXCEPT !.object = answer], TRUE,
                                   "not-evaluated", "not-attempted", FALSE))
    /\ UNCHANGED <<remote, files, git>>

ProbeAncestry(p) ==
    /\ Up /\ poll[p].pc = "ancestry"
    /\ \E answer \in {"descendant", "predecessor", "divergent", "unknown"} :
          /\ \/ /\ answer \in ProbedAncestry(mirror, poll[p].base, poll[p].tip)
                /\ Works
             \/ answer = "unknown" /\ Fault
          /\ IF answer = "descendant"
               THEN /\ PollGoto(p, [poll[p] EXCEPT !.pc = "validate",
                                                   !.ancestry = answer])
                    /\ UNCHANGED served
               ELSE Apply(p, poll[p].base,
                          Candidate([poll[p] EXCEPT !.ancestry = answer], TRUE,
                                    "not-evaluated", "not-attempted", FALSE))
    /\ UNCHANGED <<remote, files, git>>

\* The accepted catalog reads and validates, the candidate's builds; there is
\* no transition check in JavaScript.
Validates(base, tip) ==
    mirror[base] = "valid" /\ mirror[tip] = "valid" /\ tip \in Buildable

\* once validation is over, persistRecord() and apply() are one step
AcceptCandidate(p) ==
    /\ Up /\ poll[p].pc = "validate"
    /\ Validates(poll[p].base, poll[p].tip)
    /\ Persisted(poll[p].tip)
    /\ Apply(p, poll[p].base,
             Candidate(poll[p], TRUE, "valid", "success", FALSE))
    /\ UNCHANGED <<remote, git>>

RejectCandidate(p) ==
    /\ Up /\ poll[p].pc = "validate"
    /\ \/ /\ Fault \/ (Works /\ ~Validates(poll[p].base, poll[p].tip))
          /\ UNCHANGED files
          /\ Apply(p, poll[p].base,
                   Candidate(poll[p], TRUE, "invalid", "not-attempted", FALSE))
       \/ /\ Validates(poll[p].base, poll[p].tip)
          /\ PersistFails(poll[p].tip)
          /\ Apply(p, poll[p].base,
                   Candidate(poll[p], TRUE, "valid",
                             "interrupted-before-rename", FALSE))
    /\ UNCHANGED <<remote, git>>

----------------------------------------------------------------------------
(* Stopping, and the environment. *)

\* A signal clears the timer; polls in flight run on until the last ends.
StopSignal ==
    /\ pc = "running" /\ crashes < MaxCrashes /\ Undamaged /\ crashes' = crashes + 1
    /\ pc' = "draining"
    /\ UNCHANGED <<remote, files, git, start, poll, memory, served,
                   moves, faults, damage, outages>>

Drained ==
    /\ pc = "draining" /\ \A p \in Poll : poll[p].pc = "none"
    /\ Gone
    /\ Works /\ UNCHANGED <<remote, files, git, served>>

\* a record whose rename may be the last thing the process gets to do
Renaming ==
    {poll[p].tip : p \in {q \in Poll :
        Up /\ poll[q].pc = "validate" /\ Validates(poll[q].base, poll[q].tip)}}
    \cup (IF pc = "build" /\ start.file.kind = "absent" /\ Builds(start.commit)
            THEN {start.commit} ELSE {})

\* Killed between the rename of a record and the fsync of the directory; the
\* event loop is inside persistRecord(), so nothing else runs any more.
KilledAtRename ==
    /\ crashes < MaxCrashes /\ Undamaged /\ crashes' = crashes + 1
    /\ \E c \in Renaming : disk' = Record(c)
    /\ pc' = "killed"
    /\ UNCHANGED <<remote, durable, git, start, poll, memory, served,
                   moves, faults, damage, outages>>

Vanish ==
    /\ pc = "killed" /\ Gone
    /\ Works /\ UNCHANGED <<remote, files, git, served>>

Crash ==
    /\ pc \notin {"down", "killed"} /\ crashes < MaxCrashes /\ Undamaged
    /\ crashes' = crashes + 1
    /\ Gone
    /\ UNCHANGED <<remote, files, git, served, moves, faults, damage, outages>>

PowerLoss ==
    /\ outages < MaxOutages /\ Undamaged /\ outages' = outages + 1
    /\ Gone
    /\ disk' = durable
    /\ UNCHANGED <<remote, durable, git, served, moves, faults, damage, crashes>>

WriteBack ==
    /\ durable # disk /\ durable' = disk
    /\ UNCHANGED <<remote, disk, git, process, served, budgets>>

MoveRemote ==
    /\ moves < MaxMoves /\ moves' = moves + 1
    /\ \E o \in Object \cup {None} : o # remote /\ remote' = o
    /\ UNCHANGED <<files, git, process, served, faults, damage, crashes, outages>>

DamageObject ==
    /\ damage < MaxDamage /\ faults + crashes + outages = 0
    /\ damage' = damage + 1
    /\ \E o \in Object :
          mirror[o] = "valid" /\ mirror' = [mirror EXCEPT ![o] = "corrupt"]
    /\ UNCHANGED <<remote, files, watchRef, process, served,
                   moves, faults, crashes, outages>>

AutoGc ==
    /\ GcRuns
    /\ mirror' = Pruned(mirror, watchRef)
    /\ mirror' # mirror
    /\ UNCHANGED <<remote, files, watchRef, process, served, budgets>>

----------------------------------------------------------------------------

StartupStep ==
    \/ Startup \/ ProbeBootstrap \/ FetchBootstrap \/ ReprobeBootstrap
    \/ ProbeAccepted \/ DecideStartup \/ StartServing \/ StartFails

PollStep(p) ==
    \/ StartPoll(p) \/ ObserveRemote(p) \/ FetchTip(p) \/ ResolveTip(p)
    \/ ProbeTip(p) \/ ProbeAncestry(p) \/ AcceptCandidate(p)
    \/ RejectCandidate(p)

Environment ==
    \/ StopSignal \/ KilledAtRename \/ Vanish \/ Crash \/ PowerLoss \/ WriteBack
    \/ MoveRemote \/ DamageObject \/ AutoGc

Next == StartupStep \/ (\E p \in Poll : PollStep(p)) \/ Drained \/ Environment

Spec == Init /\ [][Next]_vars

(***************************************************************************)
(* The timer keeps firing, Git calls are bounded by GIT_TIMEOUT_MS and the  *)
(* event loop resumes what has finished.  Restarting the process is left to *)
(* whoever supervises it.                                                   *)
(***************************************************************************)
FairSpec ==
    /\ Spec
    /\ WF_vars(pc # "down" /\ StartupStep)
    /\ WF_vars(Drained)
    /\ \A p \in Poll : WF_vars(PollStep(p))

----------------------------------------------------------------------------
(* Properties. *)

Commits == Commit \cup {None}

StartState == [file : Files, bootstrapObject : Policy!ObjectState,
               localObject : Policy!ObjectState, commit : Commits]

PollState == [pc : {"none", "observe", "fetch", "resolve", "probe", "ancestry",
                    "validate"},
              base : Commits, tip : Object \cup {None},
              object : Policy!ObjectState, ancestry : Policy!Ancestry]

\* The type invariant.
TypeOK ==
    /\ remote \in Object \cup {None}
    /\ disk \in Files /\ durable \in Files
    /\ mirror \in Mirrors /\ watchRef \in Object \cup {None}
    /\ pc \in {"down", "running", "draining", "killed"} \cup StartupPc
    /\ start \in StartState /\ poll \in [Poll -> PollState]
    /\ {accepted, active, last, first} \subseteq Commits
    /\ suppressed \subseteq Object
    /\ {moves, faults, damage, crashes, outages} \subseteq Nat

StoredCommit(file) ==
    IF file.kind = "present"
      THEN IF Policy!Bound(file.record) THEN file.record.commit ELSE None
      ELSE None

\* a step the JavaScript gates accept: there is no transition check
Follows(a, b) == <<a, b>> \in Older /\ b \in Buildable

\* What is served only ever moves forward, over all restarts, as long as the
\* machine does not lose power: "only strictly forward ... candidates are
\* published".
ServedMovesForward ==
    [][last' # last /\ last # None /\ outages = 0 => Follows(last, last')]_vars

\* However polls overlap, fail or are killed, nothing older than the first
\* commit ever served is recorded or served again: every base a poll works
\* from has been accepted after it.
NeverBeforeFirst ==
    first # None =>
        \A c \in {accepted, active, last, StoredCommit(disk)} :
            c \in {None, first} \/ Follows(first, c)

\* Polls that overlap still never leave the record on disk and the served
\* snapshot apart, as long as no persistence fails half way and nothing kills
\* the process: no poll suspends between persistRecord() and apply().
ServedIsRecorded ==
    active # None /\ faults = 0 /\ crashes = 0 /\ outages = 0
        => disk = Record(active)

\* A tip that stays is served or rejected for good, however polls overlap,
\* unless the mirror is damaged: fetches then fail for ever.
StableTipIsJudged ==
    <>[](pc = "running" /\ damage = 0 /\ remote \in Commit) /\ <>[][FALSE]_remote
        => <>[](active = remote) \/ <>[](remote \in suppressed)

============================================================================
