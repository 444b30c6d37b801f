------------------------- MODULE RustWatcherProofs -------------------------
(***************************************************************************)
(* Theorems about the Rust watcher, for every history, every set of initial *)
(* records and every budget.  The inductive invariant IInv says, phase by   *)
(* phase, what the locals of startup() and reload() are good for.           *)
(***************************************************************************)
EXTENDS RustWatcher, TLAPS

Ready == ReloadPc \cup {"idle"}

\* nothing is served before startup has published
StartupPhase ==
    pc \in StartupPc \cup {"down"} =>
        active = None /\ accepted = None /\ cand = NoCand

\* startup() works from the record that is on disk
StartupRecord ==
    /\ pc \in StartupPc \ {"bootstrap-sync"} => start.file = disk
    /\ pc \in {"bootstrap-probe", "bootstrap-fetch", "bootstrap-reprobe",
               "bootstrap-write"} =>
          start.file.kind = "absent"
    /\ pc = "accepted-probe" => start.file.kind = "present"
    /\ pc = "build" =>
          /\ start.commit \in Commit
          /\ \/ start.file.kind = "absent" /\ start.commit = Bootstrap
             \/ StoredCommit(start.file) = start.commit
    /\ pc = "bootstrap-write" =>
          start.commit \in Buildable /\ start.commit = Bootstrap
    /\ pc = "bootstrap-sync" =>
          start.commit \in Buildable /\ disk = Record(start.commit)

\* reload() compares with what is served
ReadyPhase ==
    /\ pc \in Ready => active = accepted /\ active \in Buildable
    /\ pc = "idle" => cand = NoCand
    /\ pc \in ReloadPc => cand.base = active /\ cand.tip \in Object \ {active}

\* the candidate's fields are filled in order, and each gate is passed first
Unjudged == cand.semantic = "not-evaluated" /\ cand.persistence = "not-attempted"

CandidatePhase ==
    /\ pc = "resolve" => watchRef \in Object
    /\ pc \in ReloadPc \ {"fetch", "resolve"} => cand.tip \in Commit
    /\ pc \in {"fetch", "resolve", "probe"} =>
          Unjudged /\ cand.object = "missing" /\ cand.ancestry = "not-evaluated"
    /\ pc \in {"ancestry", "validate"} => Unjudged /\ cand.object = "valid"
    /\ pc = "validate" =>
          cand.ancestry = "descendant" /\ <<active, cand.tip>> \in Older
    /\ pc \in {"write", "sync"} =>
          /\ cand.object = "valid" /\ cand.ancestry = "descendant"
          /\ cand.semantic = "valid" /\ Forward(active, cand.tip)
    /\ pc = "sync" => disk = Record(cand.tip)

\* what apply() may be handed
Judged ==
    pc = "apply" =>
        \/ cand.object # "valid"
        \/ /\ cand.object = "valid"
           /\ cand.ancestry \in {"predecessor", "divergent", "unknown"}
        \/ cand.ancestry = "descendant" /\ cand.semantic = "invalid"
        \/ /\ cand.ancestry = "descendant" /\ cand.semantic = "valid"
           /\ cand.persistence = "interrupted-before-rename"
        \/ /\ cand.ancestry = "descendant" /\ cand.semantic = "valid"
           /\ cand.persistence = "success"
           /\ Forward(active, cand.tip) /\ disk = Record(cand.tip)

\* what is published is on disk
PublishPhase ==
    /\ pc \in PublishPc =>
          \/ /\ cand.tip \in Commit /\ active \in Commit
             /\ Forward(active, cand.tip) /\ disk = Record(cand.tip)
          \/ /\ cand = NoCand /\ active = None
             /\ start.commit \in Buildable
             /\ StoredCommit(disk) = start.commit
    /\ pc = "install" => accepted = Publishing

ServedIsLast == active # None => last = active

IInv ==
    /\ TypeOK
    /\ StartupPhase /\ StartupRecord
    /\ ReadyPhase /\ CandidatePhase /\ Judged /\ PublishPhase
    /\ ServedIsLast /\ RecordLeadsByOneStep
    /\ NoPanic

----------------------------------------------------------------------------
(* What the constants and the helpers give. *)

LEMMA ConstantFacts ==
    /\ Commit \subseteq Object /\ None \notin Object /\ None \notin Commit
    /\ Bootstrap \in Commit /\ Buildable \subseteq Commit
    /\ Peel \in [Object -> Commit]
    /\ Absent \in Files /\ Malformed \in Files
BY HistoryAssumption DEF Files

LEMMA RecordFacts ==
    ASSUME NEW c \in Commit
    PROVE  /\ Record(c) \in Files
           /\ Record(c).kind = "present"
           /\ StoredCommit(Record(c)) = c
           /\ Policy!Bound(Policy!AcceptedRef(c))
BY HistoryAssumption, RustWatcherAssumption
   DEF Record, Present, Files, StoredCommit, Policy!Bound, Policy!ValidRecord,
       Policy!AcceptedRef

LEMMA FileFacts ==
    ASSUME NEW f \in Files
    PROVE  /\ f.kind \in {"absent", "malformed", "present"}
           /\ f.kind = "present" => f.record.commit \in Commit
           /\ StoredCommit(f) \in Commit \cup {None}
           /\ f.kind # "present" => StoredCommit(f) = None
BY HistoryAssumption, RustWatcherAssumption
   DEF Files, Absent, Malformed, Record, Present, StoredCommit,
       Policy!AcceptedRef

LEMMA NoStartType == NoStart \in StartState /\ NoCand \in CandState
BY ConstantFacts
   DEF NoStart, NoCand, StartState, CandState, Commits, Policy!ObjectState,
       Policy!Ancestry, Policy!SemanticValidity, Policy!Persistence

LEMMA FetchedType ==
    ASSUME NEW m \in Mirrors, NEW o \in Object, NEW n \in Fetched(m, o)
    PROVE  n \in Mirrors
BY DEF Fetched, Mirrors, Stored

LEMMA PrunedType ==
    ASSUME NEW m \in Mirrors, NEW ref
    PROVE  Pruned(m, ref) \in Mirrors
BY DEF Pruned, Mirrors, Stored

LEMMA InitInv == Init => IInv
BY ConstantFacts, RustWatcherAssumption, FileFacts
   DEF Init, IInv, TypeOK, BudgetsOK, StartupPhase, StartupRecord, ReadyPhase,
       CandidatePhase, Judged, PublishPhase, ServedIsLast,
       RecordLeadsByOneStep, NoPanic, Mirrors, Stored, NoStart, NoCand,
       StartState, CandState, Commits, Files, StartupPc, ReloadPc, PublishPc,
       Ready, Policy!ObjectState, Policy!Ancestry, Policy!SemanticValidity,
       Policy!Persistence, Absent, Malformed, Record, Present, Policy!AcceptedRef

LEMMA BudgetFacts ==
    ASSUME BudgetsOK, Fault \/ Works
    PROVE  BudgetsOK' /\ outages' = outages
BY RustWatcherAssumption DEF BudgetsOK, Fault, Works, budgets

----------------------------------------------------------------------------
(* What the policy answers apply(). *)

LEMMA NoCandidateRetains ==
    ASSUME NEW base \in Commit, NEW c, c.observed = FALSE
    PROVE  Policy!EvaluateReload(Policy!AcceptedRef(base), c).decision
             = "retain-accepted"
BY RecordFacts
   DEF Policy!EvaluateReload, Policy!Retain, Policy!Outcome, Policy!AcceptedRef

LEMMA SuppressedRetains ==
    ASSUME NEW base \in Commit, NEW c, c.observed = TRUE, c.suppressed = TRUE,
           c.identity = RepositoryIdentity, c.fullRef = FullRef
    PROVE  Policy!EvaluateReload(Policy!AcceptedRef(base), c).decision
             = "retain-accepted"
BY RecordFacts
   DEF Policy!EvaluateReload, Policy!Retain, Policy!Outcome, Policy!AcceptedRef

LEMMA JudgedIsDecided ==
    ASSUME NEW base \in Commit, NEW c, c.observed = TRUE, c.suppressed = FALSE,
           c.identity = RepositoryIdentity, c.fullRef = FullRef,
           c.commit \in Commit \ {base},
           \/ c.object # "valid"
           \/ c.ancestry \in {"predecessor", "divergent", "unknown"}
           \/ c.ancestry = "descendant" /\ c.semantic = "invalid"
           \/ /\ c.ancestry = "descendant" /\ c.semantic = "valid"
              /\ c.persistence \in {"interrupted-before-rename", "success"},
           NEW outcome,
           outcome = Policy!EvaluateReload(Policy!AcceptedRef(base), c)
    PROVE  /\ outcome.decision \in {"retain-accepted", "accept-forward"}
           /\ outcome.decision = "accept-forward" =>
                 /\ c.object = "valid" /\ c.ancestry = "descendant"
                 /\ c.semantic = "valid" /\ c.persistence = "success"
BY RecordFacts, ConstantFacts
   DEF Policy!EvaluateReload, Policy!Retain, Policy!Outcome, Policy!AcceptedRef

----------------------------------------------------------------------------
(* The three ways a process gets out of what it was doing. *)

LEMMA GoneInv ==
    ASSUME IInv, Gone, BudgetsOK', UNCHANGED <<remote, git, last>>,
           disk' \in Files, durable' \in Files, RecordLeadsByOneStep'
    PROVE  IInv'
BY NoStartType, ConstantFacts
   DEF IInv, Gone, TypeOK, StartupPhase, StartupRecord, ReadyPhase,
       CandidatePhase, Judged, PublishPhase, ServedIsLast, NoPanic, git,
       Ready, StartupPc, ReloadPc, PublishPc, Commits

LEMMA IdleInv ==
    ASSUME IInv, pc \in Ready, Idle, BudgetsOK',
           UNCHANGED <<remote, files, last, outages>>,
           mirror' \in Mirrors, watchRef' \in Object \cup {None},
           suppressed' \subseteq Object
    PROVE  IInv'
BY NoStartType, ConstantFacts
   DEF IInv, Idle, TypeOK, StartupPhase, StartupRecord, ReadyPhase,
       CandidatePhase, Judged, PublishPhase, ServedIsLast, NoPanic, files,
       Ready, StartupPc, ReloadPc, PublishPc, Commits, RecordLeadsByOneStep

\* giving up without a verdict leads back to idle
LEMMA NoVerdictInv ==
    ASSUME IInv, pc \in ReloadPc, NoVerdict, BudgetsOK',
           UNCHANGED <<remote, files, last, outages>>,
           mirror' \in Mirrors, watchRef' \in Object \cup {None}
    PROVE  IInv'
<1>1. cand.base \in Commit
  BY ConstantFacts DEF IInv, ReadyPhase, Ready
<1>2. Policy!EvaluateReload(Policy!AcceptedRef(cand.base),
                            Candidate(cand, FALSE, FALSE)).decision
        = "retain-accepted"
  BY <1>1, NoCandidateRetains DEF Candidate
<1>3. Idle /\ suppressed' = suppressed
  BY <1>2 DEF NoVerdict, Apply, Noted, Candidate
<1>4. pc \in Ready /\ suppressed' \subseteq Object
  BY <1>3 DEF IInv, TypeOK, Ready
<1> QED
  BY <1>3, <1>4, IdleInv

----------------------------------------------------------------------------
(* Every step preserves the invariant. *)

LEMMA EnvironmentInv == IInv /\ Environment => IInv'
<1> SUFFICES ASSUME IInv, Environment PROVE IInv'
  OBVIOUS
<1> USE ConstantFacts, RustWatcherAssumption
    DEF vars, files, git, process, budgets, BudgetsOK
<1>i. TypeOK /\ RecordLeadsByOneStep
  BY DEF IInv
<1>1. CASE MoveRemote
  BY <1>1 DEF MoveRemote, IInv, TypeOK, StartupPhase, StartupRecord, ReadyPhase,
       CandidatePhase, Unjudged, Judged, PublishPhase, ServedIsLast,
       RecordLeadsByOneStep, NoPanic, Publishing
<1>2. CASE DamageObject
  BY <1>2 DEF DamageObject, Mirrors, Stored, IInv, TypeOK, StartupPhase,
       StartupRecord, ReadyPhase, CandidatePhase, Unjudged, Judged,
       PublishPhase, ServedIsLast, RecordLeadsByOneStep, NoPanic, Publishing
<1>3. CASE AutoGc
  BY <1>3, PrunedType DEF AutoGc, IInv, TypeOK, StartupPhase, StartupRecord,
       ReadyPhase, CandidatePhase, Unjudged, Judged, PublishPhase,
       ServedIsLast, RecordLeadsByOneStep, NoPanic, Publishing
<1>4. CASE WriteBack
  BY <1>4 DEF WriteBack, IInv, TypeOK, StartupPhase, StartupRecord, ReadyPhase,
       CandidatePhase, Unjudged, Judged, PublishPhase, ServedIsLast,
       RecordLeadsByOneStep, NoPanic, Publishing
<1>5. CASE Crash
  <2>1. BudgetsOK' /\ RecordLeadsByOneStep'
    BY <1>5, <1>i DEF Crash, TypeOK, RecordLeadsByOneStep
  <2> QED
    BY <1>5, <1>i, <2>1, GoneInv DEF Crash, TypeOK
<1>6. CASE PowerLoss
  <2>1. BudgetsOK' /\ outages' # 0
    BY <1>6, <1>i DEF PowerLoss, TypeOK
  <2> QED
    BY <1>6, <1>i, <2>1, GoneInv DEF PowerLoss, TypeOK, RecordLeadsByOneStep
<1> QED
  BY <1>1, <1>2, <1>3, <1>4, <1>5, <1>6 DEF Environment

----------------------------------------------------------------------------
(* startup() *)

\* a startup step that goes on to another one
LEMMA StartupGoesOn ==
    ASSUME IInv, pc \in StartupPc \cup {"down"}, pc' \in StartupPc,
           UNCHANGED <<remote, files, cand, accepted, active, suppressed, last>>,
           mirror' \in Mirrors, watchRef' \in Object \cup {None},
           BudgetsOK', outages' = outages,
           start' \in StartState, StartupRecord'
    PROVE  IInv'
BY DEF IInv, TypeOK, StartupPhase, ReadyPhase, CandidatePhase, Judged,
       PublishPhase, ServedIsLast, RecordLeadsByOneStep, NoPanic, files,
       Ready, StartupPc, ReloadPc, PublishPc

\* a startup step that gives up
LEMMA StartupGivesUp ==
    ASSUME IInv, Gone, Fault \/ Works, UNCHANGED <<remote, files, git, last>>
    PROVE  IInv'
<1>1. BudgetsOK' /\ outages' = outages
  BY BudgetFacts DEF IInv, TypeOK
<1>2. disk' \in Files /\ durable' \in Files /\ RecordLeadsByOneStep'
  BY <1>1 DEF IInv, TypeOK, RecordLeadsByOneStep, files
<1> QED
  BY <1>1, <1>2, GoneInv

LEMMA StartupInv == IInv /\ Startup => IInv'
<1> SUFFICES ASSUME IInv, Startup PROVE IInv'
  OBVIOUS
<1>1. BudgetsOK' /\ outages' = outages
  BY BudgetFacts DEF IInv, TypeOK, Startup
<1>2. CASE UNCHANGED process
  BY <1>1, <1>2 DEF Startup, process, files, git, IInv, TypeOK, StartupPhase,
     StartupRecord, ReadyPhase, CandidatePhase, Unjudged, Judged, PublishPhase,
     ServedIsLast, RecordLeadsByOneStep, NoPanic, Publishing
<1>3. CASE ~UNCHANGED process
  <2>1. /\ start' = [NoStart EXCEPT !.file = disk]
        /\ Goto(IF start'.file.kind = "absent" THEN "bootstrap-probe"
                ELSE IF start'.file.kind = "present" THEN "accepted-probe"
                ELSE "decide")
        /\ UNCHANGED <<cand, remote, files, git, last>>
        /\ pc = "down"
    BY <1>3 DEF Startup, LoadedRecord
  <2>2. disk \in Files /\ mirror \in Mirrors /\ watchRef \in Object \cup {None}
    BY DEF IInv, TypeOK
  <2>3. start' \in StartState
    BY <2>1, <2>2, NoStartType DEF StartState, NoStart
  <2>4. start'.file = disk' /\ pc' \in {"bootstrap-probe", "accepted-probe", "decide"}
    BY <2>1, NoStartType DEF Goto, files, NoStart
  <2>5. StartupRecord'
    BY <2>1, <2>4 DEF Goto, StartupRecord, files
  <2> QED
    BY <1>1, <2>1, <2>2, <2>3, <2>4, <2>5, StartupGoesOn
       DEF Goto, git, StartupPc
<1> QED
  BY <1>2, <1>3

\* what an object probe may answer
LEMMA ProbeFacts ==
    ASSUME NEW o, NEW answer \in ProbeAnswer, Probed(o, answer)
    PROVE  /\ Fault \/ Works
           /\ answer # "error" => answer \in Policy!ObjectState
BY DEF Probed, ProbeAnswer, Policy!ObjectState

LEMMA ProbeBootstrapInv == IInv /\ ProbeBootstrap => IInv'
<1> SUFFICES ASSUME IInv, ProbeBootstrap PROVE IInv'
  OBVIOUS
<1>1. PICK answer \in ProbeAnswer :
        /\ Probed(Bootstrap, answer)
        /\ \/ answer = "error" /\ Gone
           \/ /\ answer = "missing" /\ Goto("bootstrap-fetch")
              /\ UNCHANGED <<start, cand>>
           \/ /\ answer \notin {"error", "missing"} /\ Goto("decide")
              /\ start' = [start EXCEPT !.bootstrapObject = answer]
              /\ UNCHANGED cand
  BY DEF ProbeBootstrap
<1>2. pc = "bootstrap-probe" /\ UNCHANGED <<remote, files, git, last>>
  BY DEF ProbeBootstrap
<1>3. Fault \/ Works
  BY <1>1, ProbeFacts
<1>4. CASE Gone
  BY <1>2, <1>3, <1>4, StartupGivesUp
<1>5. CASE answer = "missing" /\ Goto("bootstrap-fetch") /\ UNCHANGED <<start, cand>>
  <2>1. StartupRecord' /\ start' \in StartState
    BY <1>2, <1>5 DEF IInv, TypeOK, StartupRecord, Goto, StartupPc, files
  <2> QED
    BY <1>2, <1>3, <1>5, <2>1, BudgetFacts, StartupGoesOn
       DEF IInv, TypeOK, Goto, git, StartupPc
<1>6. CASE /\ answer \notin {"error", "missing"} /\ Goto("decide")
           /\ start' = [start EXCEPT !.bootstrapObject = answer]
           /\ UNCHANGED cand
  <2>1. answer \in Policy!ObjectState
    BY <1>1, <1>6, ProbeFacts
  <2>2. start' \in StartState /\ start'.file = start.file
    BY <1>6, <2>1 DEF IInv, TypeOK, StartState
  <2>3. StartupRecord'
    BY <1>2, <1>6, <2>2 DEF IInv, StartupRecord, Goto, StartupPc, files
  <2> QED
    BY <1>2, <1>3, <1>6, <2>2, <2>3, BudgetFacts, StartupGoesOn
       DEF IInv, TypeOK, Goto, git, StartupPc
<1> QED
  BY <1>1, <1>4, <1>5, <1>6

LEMMA FetchFacts ==
    ASSUME TypeOK, FetchArrives \/ FetchFails
    PROVE  /\ mirror' \in Mirrors /\ watchRef' \in Object \cup {None}
           /\ Fault \/ Works
BY FetchedType DEF TypeOK, FetchArrives, FetchFails

LEMMA FetchBootstrapInv == IInv /\ FetchBootstrap => IInv'
<1> SUFFICES ASSUME IInv, FetchBootstrap PROVE IInv'
  OBVIOUS
<1>1. /\ mirror' \in Mirrors /\ watchRef' \in Object \cup {None}
      /\ BudgetsOK' /\ outages' = outages
  BY FetchFacts, BudgetFacts DEF FetchBootstrap, IInv, TypeOK
<1>2. StartupRecord' /\ start' \in StartState
  BY DEF FetchBootstrap, IInv, TypeOK, StartupRecord, Goto, StartupPc, files
<1> QED
  BY <1>1, <1>2, StartupGoesOn DEF FetchBootstrap, Goto, StartupPc

LEMMA ReprobeBootstrapInv == IInv /\ ReprobeBootstrap => IInv'
<1> SUFFICES ASSUME IInv, ReprobeBootstrap PROVE IInv'
  OBVIOUS
<1>1. PICK answer \in ProbeAnswer :
        /\ Probed(Bootstrap, answer)
        /\ \/ answer = "error" /\ Gone
           \/ /\ answer # "error" /\ Goto("decide")
              /\ start' = [start EXCEPT !.bootstrapObject = answer]
              /\ UNCHANGED cand
  BY DEF ReprobeBootstrap
<1>2. pc = "bootstrap-reprobe" /\ UNCHANGED <<remote, files, git, last>>
  BY DEF ReprobeBootstrap
<1>3. Fault \/ Works
  BY <1>1, ProbeFacts
<1>4. CASE Gone
  BY <1>2, <1>3, <1>4, StartupGivesUp
<1>5. CASE ~Gone
  <2>1. answer \in Policy!ObjectState
    BY <1>1, <1>5, ProbeFacts
  <2>2. start' \in StartState /\ start'.file = start.file
    BY <1>1, <1>5, <2>1 DEF IInv, TypeOK, StartState
  <2>3. StartupRecord'
    BY <1>1, <1>2, <1>5, <2>2 DEF IInv, StartupRecord, Goto, StartupPc, files
  <2> QED
    BY <1>1, <1>2, <1>3, <1>5, <2>2, <2>3, BudgetFacts, StartupGoesOn
       DEF IInv, TypeOK, Goto, git, StartupPc
<1> QED
  BY <1>4, <1>5

LEMMA ProbeAcceptedInv == IInv /\ ProbeAccepted => IInv'
<1> SUFFICES ASSUME IInv, ProbeAccepted PROVE IInv'
  OBVIOUS
<1>1. PICK answer \in ProbeAnswer :
        /\ Probed(start.file.record.commit, answer)
        /\ \/ answer = "error" /\ Gone
           \/ /\ answer # "error" /\ Goto("decide")
              /\ start' = [start EXCEPT !.localObject = answer]
              /\ UNCHANGED cand
  BY DEF ProbeAccepted
<1>2. pc = "accepted-probe" /\ UNCHANGED <<remote, files, git, last>>
  BY DEF ProbeAccepted
<1>3. Fault \/ Works
  BY <1>1, ProbeFacts
<1>4. CASE Gone
  BY <1>2, <1>3, <1>4, StartupGivesUp
<1>5. CASE ~Gone
  <2>1. answer \in Policy!ObjectState
    BY <1>1, <1>5, ProbeFacts
  <2>2. start' \in StartState /\ start'.file = start.file
    BY <1>1, <1>5, <2>1 DEF IInv, TypeOK, StartState
  <2>3. StartupRecord'
    BY <1>1, <1>2, <1>5, <2>2 DEF IInv, StartupRecord, Goto, StartupPc, files
  <2> QED
    BY <1>1, <1>2, <1>3, <1>5, <2>2, <2>3, BudgetFacts, StartupGoesOn
       DEF IInv, TypeOK, Goto, git, StartupPc
<1> QED
  BY <1>4, <1>5

\* what evaluate_startup lets the watcher start from
LEMMA StartupDecision ==
    ASSUME start \in StartState,
           NEW outcome, outcome = Policy!EvaluateStartup(StartupInput),
           outcome.decision \in {"bootstrap", "start-accepted"}
    PROVE  /\ outcome.active \in Commit
           /\ \/ start.file.kind = "absent" /\ outcome.active = Bootstrap
              \/ StoredCommit(start.file) = outcome.active
<1>1. start.file \in Files
  BY DEF StartState
<1>2. CASE start.file.kind = "absent"
  BY <1>2, ConstantFacts
     DEF StartupInput, Policy!EvaluateStartup, Policy!Outcome,
         Policy!FailStartup, Policy!Inconsistent
<1>3. CASE start.file.kind = "malformed"
  BY <1>3
     DEF StartupInput, Policy!EvaluateStartup, Policy!Outcome,
         Policy!FailStartup, Policy!Inconsistent
<1>4. CASE start.file.kind = "present"
  BY <1>1, <1>4, FileFacts
     DEF StartupInput, StoredCommit, Policy!EvaluateStartup, Policy!Bound,
         Policy!Outcome, Policy!FailStartup, Policy!Inconsistent
<1> QED
  BY <1>1, <1>2, <1>3, <1>4, FileFacts

LEMMA DecideStartupInv == IInv /\ DecideStartup => IInv'
<1> SUFFICES ASSUME IInv, DecideStartup PROVE IInv'
  OBVIOUS
<1> DEFINE outcome == Policy!EvaluateStartup(StartupInput)
<1>1. pc = "decide" /\ Works /\ UNCHANGED <<remote, files, git, last>>
  BY DEF DecideStartup
<1>2. CASE Gone
  BY <1>1, <1>2, StartupGivesUp
<1>3. CASE ~Gone
  <2>1. /\ outcome.decision \in {"bootstrap", "start-accepted"}
        /\ start' = [start EXCEPT !.commit = outcome.active]
        /\ Goto("build") /\ UNCHANGED cand
    BY <1>3 DEF DecideStartup
  <2>2. start \in StartState
    BY DEF IInv, TypeOK
  <2> HIDE DEF outcome
  <2>3. /\ outcome.active \in Commit
        /\ \/ start.file.kind = "absent" /\ outcome.active = Bootstrap
           \/ StoredCommit(start.file) = outcome.active
    BY <2>1, <2>2, StartupDecision DEF outcome
  <2>4. /\ start' \in StartState /\ start'.file = start.file
        /\ start'.commit = outcome.active
    BY <2>1, <2>2, <2>3 DEF StartState, Commits
  <2>5. StartupRecord'
    BY <1>1, <2>1, <2>3, <2>4
       DEF IInv, StartupRecord, Goto, StartupPc, files, StoredCommit
  <2> QED
    BY <1>1, <2>1, <2>4, <2>5, BudgetFacts, StartupGoesOn
       DEF IInv, TypeOK, Goto, git, StartupPc
<1> QED
  BY <1>2, <1>3

\* a startup step after which the stored commit is published
LEMMA StartupPublishes ==
    ASSUME IInv, pc \in StartupPc, pc' = "accept",
           UNCHANGED <<remote, disk, git, start, cand, accepted, active,
                       suppressed, last>>,
           durable' \in Files, BudgetsOK', outages' = outages,
           start.commit \in Buildable, StoredCommit(disk) = start.commit
    PROVE  IInv'
BY DEF IInv, TypeOK, StartupPhase, StartupRecord, ReadyPhase, CandidatePhase,
       Judged, PublishPhase, ServedIsLast, RecordLeadsByOneStep, NoPanic, git,
       Ready, StartupPc, ReloadPc, PublishPc

LEMMA BuildInitialInv == IInv /\ BuildInitial => IInv'
<1> SUFFICES ASSUME IInv, BuildInitial PROVE IInv'
  OBVIOUS
<1>1. /\ pc = "build" /\ (Fault \/ Works)
      /\ UNCHANGED <<remote, files, git, last>>
  BY DEF BuildInitial
<1>2. CASE Gone
  BY <1>1, <1>2, StartupGivesUp
<1>3. CASE ~Gone
  <2>1. /\ start.commit \in Buildable
        /\ Goto(IF start.file.kind = "absent" THEN "bootstrap-write"
                ELSE "accept")
        /\ UNCHANGED <<start, cand>>
    BY <1>3 DEF BuildInitial
  <2>2. BudgetsOK' /\ outages' = outages
    BY <1>1, BudgetFacts DEF IInv, TypeOK
  <2>3. CASE start.file.kind = "absent"
    <3>a. start.commit = Bootstrap
      BY <1>1, <2>3, ConstantFacts DEF IInv, StartupRecord, StoredCommit
    <3>1. StartupRecord' /\ start' \in StartState
      BY <1>1, <2>1, <2>3, <3>a
         DEF IInv, TypeOK, StartupRecord, Goto, StartupPc, files
    <3> QED
      BY <1>1, <2>1, <2>2, <2>3, <3>1, StartupGoesOn
         DEF IInv, TypeOK, Goto, git, StartupPc
  <2>4. CASE start.file.kind # "absent"
    <3>1. StoredCommit(disk) = start.commit
      BY <1>1, <2>4 DEF IInv, StartupRecord, StartupPc
    <3> QED
      BY <1>1, <2>1, <2>2, <2>4, <3>1, StartupPublishes
         DEF IInv, TypeOK, Goto, StartupPc, files
  <2> QED
    BY <2>3, <2>4
<1> QED
  BY <1>2, <1>3

LEMMA WriteBootstrapInv == IInv /\ WriteBootstrap => IInv'
<1> SUFFICES ASSUME IInv, WriteBootstrap PROVE IInv'
  OBVIOUS
<1>1. /\ pc = "bootstrap-write" /\ (Fault \/ Works)
      /\ UNCHANGED <<remote, durable, git, last>>
  BY DEF WriteBootstrap
<1>2. CASE Gone /\ disk' = disk
  BY <1>1, <1>2, StartupGivesUp DEF files
<1>3. CASE ~(Gone /\ disk' = disk)
  <2>1. /\ disk' = Record(start.commit) /\ Goto("bootstrap-sync")
        /\ UNCHANGED <<start, cand>>
    BY <1>3 DEF WriteBootstrap
  <2>2. BudgetsOK' /\ outages' = outages
    BY <1>1, BudgetFacts DEF IInv, TypeOK
  <2>3. start.commit \in Buildable /\ start.commit \in Commit
    BY <1>1, ConstantFacts DEF IInv, StartupRecord
  <2>4. last = None \/ outages # 0 \/ StoredCommit(disk) # None
    BY ConstantFacts DEF IInv, RecordLeadsByOneStep
  <2>5. disk' \in Files /\ StoredCommit(disk') = start.commit
    BY <2>1, <2>3, RecordFacts
  <2>6. CASE last = None \/ outages # 0
    <3>1. TypeOK'
      BY <1>1, <2>1, <2>2, <2>5 DEF IInv, TypeOK, Goto, git, StartupPc
    <3>2. StartupPhase'
      BY <1>1, <2>1 DEF IInv, StartupPhase, Goto, StartupPc
    <3>5. StartupRecord'
      BY <2>1, <2>3 DEF StartupRecord, Goto, StartupPc
    <3>3. ReadyPhase' /\ CandidatePhase' /\ Judged' /\ PublishPhase' /\ NoPanic'
      BY <2>1 DEF ReadyPhase, CandidatePhase, Judged, PublishPhase, NoPanic,
                  Goto, Ready, ReloadPc, PublishPc
    <3>4. ServedIsLast' /\ RecordLeadsByOneStep'
      BY <1>1, <2>1, <2>2, <2>6
         DEF IInv, ServedIsLast, RecordLeadsByOneStep, Goto
    <3> QED
      BY <3>1, <3>2, <3>3, <3>4, <3>5 DEF IInv
  <2>7. CASE StoredCommit(disk) # None
    BY <1>1, <2>7 DEF IInv, StartupRecord, StartupPc, StoredCommit
  <2> QED
    BY <2>4, <2>6, <2>7
<1> QED
  BY <1>2, <1>3

LEMMA SyncBootstrapInv == IInv /\ SyncBootstrap => IInv'
<1> SUFFICES ASSUME IInv, SyncBootstrap PROVE IInv'
  OBVIOUS
<1>1. /\ pc = "bootstrap-sync" /\ (Fault \/ Works)
      /\ UNCHANGED <<remote, disk, git, last>>
  BY DEF SyncBootstrap
<1>2. CASE Gone /\ durable' = durable
  BY <1>1, <1>2, StartupGivesUp DEF files
<1>3. CASE ~(Gone /\ durable' = durable)
  <2>1. durable' = disk /\ Goto("accept") /\ UNCHANGED <<start, cand>>
    BY <1>3 DEF SyncBootstrap
  <2>2. start.commit \in Buildable /\ StoredCommit(disk) = start.commit
    BY <1>1, ConstantFacts, RecordFacts DEF IInv, StartupRecord
  <2> QED
    BY <1>1, <2>1, <2>2, BudgetFacts, StartupPublishes
       DEF IInv, TypeOK, Goto, StartupPc
<1> QED
  BY <1>2, <1>3

----------------------------------------------------------------------------
(* poll_once() and reload() *)

\* a reload step that goes on to another one
LEMMA ReloadGoesOn ==
    ASSUME IInv, pc \in Ready, pc' \in ReloadPc,
           UNCHANGED <<remote, start, accepted, active, suppressed, last>>,
           mirror' \in Mirrors, watchRef' \in Object \cup {None},
           disk' \in Files, durable' \in Files, RecordLeadsByOneStep',
           BudgetsOK', cand' \in CandState,
           cand'.base = active, cand'.tip \in Object \ {active},
           CandidatePhase', Judged'
    PROVE  IInv'
BY DEF IInv, TypeOK, StartupPhase, StartupRecord, ReadyPhase, PublishPhase,
       ServedIsLast, NoPanic, Ready, StartupPc, ReloadPc, PublishPc

\* what every reload step may rely on
LEMMA ReloadFacts ==
    ASSUME IInv, pc \in Ready
    PROVE  /\ active \in Commit /\ active # None /\ accepted = active
           /\ last = active
           /\ pc # "idle" =>
                /\ cand.base = active /\ cand.tip \in Object \ {active}
                /\ cand.tip # None
           /\ cand \in CandState /\ start \in StartState
           /\ mirror \in Mirrors /\ watchRef \in Object \cup {None}
           /\ disk \in Files /\ durable \in Files /\ suppressed \subseteq Object
           /\ remote \in Object \cup {None}
BY ConstantFacts DEF IInv, TypeOK, ReadyPhase, ServedIsLast, Ready

\* the record is not touched
LEMMA RecordStays ==
    ASSUME IInv, UNCHANGED <<disk, last, outages>>
    PROVE  RecordLeadsByOneStep'
BY DEF IInv, RecordLeadsByOneStep

LEMMA ObserveRemoteInv == IInv /\ ObserveRemote => IInv'
<1> SUFFICES ASSUME IInv, ObserveRemote PROVE IInv'
  OBVIOUS
<1>1. /\ pc = "idle" /\ (Fault \/ Works)
      /\ UNCHANGED <<remote, files, git, last>>
  BY DEF ObserveRemote
<1>2. pc \in Ready /\ BudgetsOK' /\ outages' = outages
  BY <1>1, BudgetFacts DEF Ready, IInv, TypeOK
<1>3. ASSUME Idle, suppressed' \subseteq Object PROVE IInv'
  BY <1>1, <1>2, <1>3, ReloadFacts, IdleInv DEF git
<1>4. CASE Apply(accepted, Candidate(NoCand, FALSE, FALSE))
  <2>1. Policy!EvaluateReload(Policy!AcceptedRef(accepted),
                              Candidate(NoCand, FALSE, FALSE)).decision
          = "retain-accepted"
    BY <1>2, ReloadFacts, NoCandidateRetains DEF Candidate
  <2>2. Idle /\ suppressed' = suppressed
    BY <1>4, <2>1 DEF Apply, Noted, Candidate
  <2> QED
    BY <1>2, <1>3, <2>2, ReloadFacts
<1>5. CASE Idle /\ UNCHANGED suppressed
  BY <1>2, <1>3, <1>5, ReloadFacts
<1>6. CASE Apply(accepted, Candidate([NoCand EXCEPT !.tip = remote], TRUE, TRUE))
  <2> DEFINE c == Candidate([NoCand EXCEPT !.tip = remote], TRUE, TRUE)
  <2>1. /\ c.observed = TRUE /\ c.suppressed = TRUE
        /\ c.identity = RepositoryIdentity /\ c.fullRef = FullRef
    BY DEF Candidate
  <2> HIDE DEF c
  <2>2. Policy!EvaluateReload(Policy!AcceptedRef(accepted), c).decision
          = "retain-accepted"
    BY <1>2, <2>1, ReloadFacts, SuppressedRetains
  <2>3. Apply(accepted, c)
    BY <1>6 DEF c
  <2>4. Idle /\ suppressed' = suppressed
    BY <2>1, <2>2, <2>3 DEF Apply, Noted
  <2> QED
    BY <1>2, <1>3, <2>4, ReloadFacts
<1>7. CASE /\ remote \notin suppressed \cup {None, accepted}
           /\ cand' = [NoCand EXCEPT !.base = accepted, !.tip = remote]
           /\ Goto("fetch") /\ UNCHANGED start
  <2>1. /\ cand' \in CandState /\ cand'.base = active
        /\ cand'.tip \in Object \ {active}
    BY <1>2, <1>7, ReloadFacts, NoStartType DEF NoCand, CandState, Commits
  <2>2. CandidatePhase' /\ Judged'
    BY <1>7 DEF CandidatePhase, Unjudged, Judged, Goto, NoCand, ReloadPc
  <2> QED
    BY <1>1, <1>2, <1>7, <2>1, <2>2, ReloadFacts, RecordStays, ReloadGoesOn
       DEF Goto, files, git, ReloadPc
<1> QED
  BY <1>4, <1>5, <1>6, <1>7 DEF ObserveRemote

LEMMA FetchTipInv == IInv /\ FetchTip => IInv'
<1> SUFFICES ASSUME IInv, FetchTip PROVE IInv'
  OBVIOUS
<1>1. /\ pc = "fetch" /\ pc \in ReloadPc /\ pc \in Ready
      /\ UNCHANGED <<remote, files, last>>
  BY DEF FetchTip, ReloadPc, Ready
<1>2. /\ mirror' \in Mirrors /\ watchRef' \in Object \cup {None}
      /\ BudgetsOK' /\ outages' = outages
  BY FetchFacts, BudgetFacts DEF FetchTip, IInv, TypeOK
<1>3. CASE NoVerdict
  BY <1>1, <1>2, <1>3, NoVerdictInv
<1>4. CASE FetchArrives /\ Goto("resolve") /\ UNCHANGED <<start, cand>>
  <2>a. watchRef' \in Object
    BY <1>1, <1>4, ReloadFacts DEF FetchArrives
  <2>1. CandidatePhase' /\ Judged'
    BY <1>1, <1>4, <2>a DEF IInv, CandidatePhase, Unjudged, Judged, Goto, ReloadPc
  <2> QED
    BY <1>1, <1>2, <1>4, <2>1, ReloadFacts, RecordStays, ReloadGoesOn
       DEF Goto, files, ReloadPc
<1> QED
  BY <1>3, <1>4 DEF FetchTip

LEMMA ResolveTipInv == IInv /\ ResolveTip => IInv'
<1> SUFFICES ASSUME IInv, ResolveTip PROVE IInv'
  OBVIOUS
<1>1. /\ pc = "resolve" /\ pc \in ReloadPc /\ pc \in Ready
      /\ Fault \/ Works
      /\ UNCHANGED <<remote, files, git, last>>
  BY DEF ResolveTip, ReloadPc, Ready
<1>2. /\ mirror' \in Mirrors /\ watchRef' \in Object \cup {None}
      /\ BudgetsOK' /\ outages' = outages
  BY <1>1, BudgetFacts DEF IInv, TypeOK, git
<1>3. CASE NoVerdict
  BY <1>1, <1>2, <1>3, NoVerdictInv
<1>4. CASE /\ mirror[watchRef] = "valid" /\ Peel[watchRef] = cand.tip
           /\ Goto("probe") /\ UNCHANGED <<start, cand>>
  <2>1. cand.tip \in Commit
    BY <1>1, <1>4, ConstantFacts DEF IInv, CandidatePhase
  <2>2. CandidatePhase' /\ Judged'
    BY <1>1, <1>4, <2>1
       DEF IInv, CandidatePhase, Unjudged, Judged, Goto, ReloadPc
  <2> QED
    BY <1>1, <1>2, <1>4, <2>2, ReloadFacts, RecordStays, ReloadGoesOn
       DEF Goto, files, ReloadPc
<1> QED
  BY <1>3, <1>4 DEF ResolveTip

LEMMA ProbeTipInv == IInv /\ ProbeTip => IInv'
<1> SUFFICES ASSUME IInv, ProbeTip PROVE IInv'
  OBVIOUS
<1>1. PICK answer \in ProbeAnswer :
        /\ Probed(cand.tip, answer)
        /\ \/ answer = "error" /\ NoVerdict
           \/ /\ answer # "error"
              /\ cand' = [cand EXCEPT !.object = answer]
              /\ Goto(IF answer = "valid" THEN "ancestry" ELSE "apply")
              /\ UNCHANGED start
  BY DEF ProbeTip
<1>2. /\ pc = "probe" /\ pc \in ReloadPc /\ pc \in Ready
      /\ UNCHANGED <<remote, files, git, last>>
  BY DEF ProbeTip, ReloadPc, Ready
<1>3. /\ mirror' \in Mirrors /\ watchRef' \in Object \cup {None}
      /\ BudgetsOK' /\ outages' = outages
  BY <1>1, <1>2, ProbeFacts, BudgetFacts DEF IInv, TypeOK, git
<1>4. CASE NoVerdict
  BY <1>2, <1>3, <1>4, NoVerdictInv
<1>5. CASE ~NoVerdict
  <2>1. answer \in Policy!ObjectState
    BY <1>1, <1>5, ProbeFacts
  <2>2. cand' \in CandState /\ cand'.object = answer
    BY <1>1, <1>2, <1>5, <2>1, ReloadFacts DEF CandState
  <2>3. /\ cand'.base = cand.base /\ cand'.tip = cand.tip
        /\ cand'.ancestry = cand.ancestry /\ cand'.semantic = cand.semantic
        /\ cand'.persistence = cand.persistence
    BY <1>1, <1>2, <1>5, ReloadFacts DEF CandState
  <2>4. CandidatePhase' /\ Judged'
    BY <1>1, <1>2, <1>5, <2>2, <2>3
       DEF IInv, CandidatePhase, Unjudged, Judged, Goto, ReloadPc
  <2> QED
    BY <1>1, <1>2, <1>3, <1>5, <2>2, <2>3, <2>4, ReloadFacts, RecordStays,
       ReloadGoesOn DEF Goto, files, ReloadPc
<1> QED
  BY <1>4, <1>5

LEMMA AncestryFacts ==
    ASSUME NEW m, NEW a \in Commit, NEW b \in Commit,
           "descendant" \in ProbedAncestry(m, a, b)
    PROVE  <<a, b>> \in Older
BY DEF ProbedAncestry, Relation

LEMMA ProbeAncestryInv == IInv /\ ProbeAncestry => IInv'
<1> SUFFICES ASSUME IInv, ProbeAncestry PROVE IInv'
  OBVIOUS
<1>1. PICK answer \in {"descendant", "predecessor", "divergent", "unknown"} :
        /\ \/ /\ answer \in ProbedAncestry(mirror, cand.base, cand.tip)
              /\ Works
           \/ answer = "unknown" /\ Fault
        /\ cand' = [cand EXCEPT !.ancestry = answer]
        /\ Goto(IF answer = "descendant" THEN "validate" ELSE "apply")
  BY DEF ProbeAncestry
<1>2. /\ pc = "ancestry" /\ pc \in ReloadPc /\ pc \in Ready
      /\ UNCHANGED <<remote, files, git, start, last>>
  BY DEF ProbeAncestry, ReloadPc, Ready
<1>3. /\ mirror' \in Mirrors /\ watchRef' \in Object \cup {None}
      /\ BudgetsOK' /\ outages' = outages
  BY <1>1, <1>2, BudgetFacts DEF IInv, TypeOK, git
<1>4. /\ cand' \in CandState /\ cand'.ancestry = answer
      /\ cand'.base = cand.base /\ cand'.tip = cand.tip
      /\ cand'.object = cand.object /\ cand'.semantic = cand.semantic
      /\ cand'.persistence = cand.persistence
  BY <1>1, <1>2, ReloadFacts DEF CandState, Policy!Ancestry
<1>5. cand.tip \in Commit /\ Unjudged /\ cand.object = "valid"
  BY <1>2 DEF IInv, CandidatePhase, ReloadPc
<1>6. answer = "descendant" => <<active, cand.tip>> \in Older
  BY <1>1, <1>2, <1>5, ReloadFacts, AncestryFacts
<1>7. CandidatePhase' /\ Judged'
  BY <1>1, <1>2, <1>4, <1>5, <1>6
     DEF CandidatePhase, Unjudged, Judged, Goto, ReloadPc
<1> QED
  BY <1>1, <1>2, <1>3, <1>4, <1>7, ReloadFacts, RecordStays, ReloadGoesOn
     DEF Goto, files, ReloadPc

LEMMA ValidateCandidateInv == IInv /\ ValidateCandidate => IInv'
<1> SUFFICES ASSUME IInv, ValidateCandidate PROVE IInv'
  OBVIOUS
<1>1. /\ pc = "validate" /\ pc \in ReloadPc /\ pc \in Ready
      /\ UNCHANGED <<remote, files, git, start, last>>
  BY DEF ValidateCandidate, ReloadPc, Ready
<1>2. \/ /\ Works /\ Validates(cand.base, cand.tip)
         /\ cand' = [cand EXCEPT !.semantic = "valid"] /\ Goto("write")
      \/ /\ Fault \/ Works
         /\ cand' = [cand EXCEPT !.semantic = "invalid"] /\ Goto("apply")
  BY DEF ValidateCandidate
<1>3. /\ mirror' \in Mirrors /\ watchRef' \in Object \cup {None}
      /\ BudgetsOK' /\ outages' = outages
  BY <1>1, <1>2, BudgetFacts DEF IInv, TypeOK, git
<1>4. /\ cand' \in CandState
      /\ cand'.base = cand.base /\ cand'.tip = cand.tip
      /\ cand'.object = cand.object /\ cand'.ancestry = cand.ancestry
      /\ cand'.persistence = cand.persistence
      /\ pc' = "write" => cand'.semantic = "valid"
      /\ pc' = "apply" => cand'.semantic = "invalid"
  BY <1>1, <1>2, ReloadFacts DEF CandState, Policy!SemanticValidity, Goto
<1>5. /\ cand.tip \in Commit /\ cand.object = "valid"
      /\ cand.ancestry = "descendant" /\ <<active, cand.tip>> \in Older
  BY <1>1 DEF IInv, CandidatePhase, ReloadPc
<1>6. pc' = "write" => Forward(active, cand.tip)
  BY <1>1, <1>2, <1>5, ReloadFacts DEF Validates, Forward, Goto
<1>7. pc' \in {"write", "apply"} /\ UNCHANGED <<accepted, active, suppressed>>
  BY <1>2 DEF Goto
<1>8. CandidatePhase' /\ Judged'
  BY <1>4, <1>5, <1>6, <1>7 DEF CandidatePhase, Judged, ReloadPc
<1> QED
  BY <1>1, <1>3, <1>4, <1>7, <1>8, ReloadFacts, RecordStays, ReloadGoesOn
     DEF files, ReloadPc

\* the record could not be written: the candidate is retried never
LEMMA PersistFailedInv ==
    ASSUME IInv, pc \in {"write", "sync"}, PersistFailed,
           UNCHANGED <<remote, files, git, start, last>>
    PROVE  IInv'
<1>1. pc \in ReloadPc /\ pc \in Ready
  BY DEF ReloadPc, Ready
<1>2. BudgetsOK' /\ outages' = outages
  BY BudgetFacts DEF PersistFailed, IInv, TypeOK
<1>3. /\ cand' \in CandState /\ cand'.persistence = "interrupted-before-rename"
      /\ cand'.base = cand.base /\ cand'.tip = cand.tip
      /\ cand'.object = cand.object /\ cand'.ancestry = cand.ancestry
      /\ cand'.semantic = cand.semantic
  BY <1>1, ReloadFacts DEF PersistFailed, CandState, Policy!Persistence
<1>4. /\ cand.tip \in Commit /\ cand.object = "valid"
      /\ cand.ancestry = "descendant" /\ cand.semantic = "valid"
  BY <1>1 DEF IInv, CandidatePhase
<1>5. CandidatePhase' /\ Judged'
  BY <1>3, <1>4 DEF PersistFailed, Goto, CandidatePhase, Judged, ReloadPc
<1> QED
  BY <1>1, <1>2, <1>3, <1>5, ReloadFacts, RecordStays, ReloadGoesOn
     DEF PersistFailed, Goto, files, git, ReloadPc

LEMMA WriteRecordInv == IInv /\ WriteRecord => IInv'
<1> SUFFICES ASSUME IInv, WriteRecord PROVE IInv'
  OBVIOUS
<1>1. /\ pc = "write" /\ pc \in ReloadPc /\ pc \in Ready
      /\ UNCHANGED <<remote, durable, git, start, last>>
  BY DEF WriteRecord, ReloadPc, Ready
<1>2. CASE PersistFailed /\ UNCHANGED disk
  BY <1>1, <1>2, PersistFailedInv DEF files
<1>3. CASE Works /\ disk' = Record(cand.tip) /\ Goto("sync") /\ UNCHANGED cand
  <2>1. BudgetsOK' /\ outages' = outages
    BY <1>3, BudgetFacts DEF IInv, TypeOK
  <2>2. /\ cand.tip \in Commit /\ cand.object = "valid"
        /\ cand.ancestry = "descendant" /\ cand.semantic = "valid"
        /\ Forward(active, cand.tip)
    BY <1>1 DEF IInv, CandidatePhase
  <2>3. disk' \in Files /\ StoredCommit(disk') = cand.tip
    BY <1>3, <2>2, RecordFacts
  <2>4. RecordLeadsByOneStep'
    BY <1>1, <2>2, <2>3, ReloadFacts DEF RecordLeadsByOneStep
  <2>5. CandidatePhase' /\ Judged'
    BY <1>3, <2>2 DEF CandidatePhase, Judged, Goto, ReloadPc
  <2> QED
    BY <1>1, <1>3, <2>1, <2>3, <2>4, <2>5, ReloadFacts, ReloadGoesOn
       DEF Goto, git, ReloadPc
<1> QED
  BY <1>2, <1>3 DEF WriteRecord

LEMMA SyncRecordInv == IInv /\ SyncRecord => IInv'
<1> SUFFICES ASSUME IInv, SyncRecord PROVE IInv'
  OBVIOUS
<1>1. /\ pc = "sync" /\ pc \in ReloadPc /\ pc \in Ready
      /\ UNCHANGED <<remote, disk, git, start, last>>
  BY DEF SyncRecord, ReloadPc, Ready
<1>2. CASE PersistFailed /\ UNCHANGED durable
  BY <1>1, <1>2, PersistFailedInv DEF files
<1>3. CASE /\ Works /\ durable' = disk
           /\ cand' = [cand EXCEPT !.persistence = "success"]
           /\ Goto("apply")
  <2>1. BudgetsOK' /\ outages' = outages
    BY <1>3, BudgetFacts DEF IInv, TypeOK
  <2>2. /\ cand.tip \in Commit /\ cand.object = "valid"
        /\ cand.ancestry = "descendant" /\ cand.semantic = "valid"
        /\ Forward(active, cand.tip) /\ disk = Record(cand.tip)
    BY <1>1 DEF IInv, CandidatePhase
  <2>3. /\ cand' \in CandState /\ cand'.persistence = "success"
        /\ cand'.base = cand.base /\ cand'.tip = cand.tip
        /\ cand'.object = cand.object /\ cand'.ancestry = cand.ancestry
        /\ cand'.semantic = cand.semantic
    BY <1>1, <1>3, ReloadFacts DEF CandState, Policy!Persistence
  <2>4. CandidatePhase' /\ Judged'
    BY <1>1, <1>3, <2>2, <2>3 DEF CandidatePhase, Judged, Goto, ReloadPc
  <2> QED
    BY <1>1, <1>3, <2>1, <2>3, <2>4, ReloadFacts, RecordStays, ReloadGoesOn
       DEF Goto, git, ReloadPc
<1> QED
  BY <1>2, <1>3 DEF SyncRecord

\* what apply() makes of a judged candidate
LEMMA ApplyFacts ==
    ASSUME IInv, ApplyCandidate
    PROVE  \/ Idle /\ suppressed' = suppressed \cup {cand.tip}
           \/ /\ Goto("accept") /\ UNCHANGED <<start, cand>>
              /\ cand.tip \in Commit /\ Forward(active, cand.tip)
              /\ disk = Record(cand.tip)
<1> DEFINE c == Candidate(cand, TRUE, FALSE)
           outcome == Policy!EvaluateReload(Policy!AcceptedRef(cand.base), c)
<1>1. pc = "apply" /\ pc \in ReloadPc /\ pc \in Ready
  BY DEF ApplyCandidate, ReloadPc, Ready
<1>2. /\ c.observed = TRUE /\ c.suppressed = FALSE
      /\ c.identity = RepositoryIdentity /\ c.fullRef = FullRef
      /\ c.commit = cand.tip /\ c.object = cand.object
      /\ c.ancestry = cand.ancestry /\ c.semantic = cand.semantic
      /\ c.persistence = cand.persistence
  BY DEF Candidate
<1>3. Apply(cand.base, c)
  BY DEF ApplyCandidate
<1>4. /\ cand.base = active /\ active \in Commit
      /\ cand.tip \in Commit \ {active}
  BY <1>1, ReloadFacts DEF IInv, CandidatePhase
<1>5. \/ cand.object # "valid"
      \/ cand.ancestry \in {"predecessor", "divergent", "unknown"}
      \/ cand.ancestry = "descendant" /\ cand.semantic = "invalid"
      \/ /\ cand.ancestry = "descendant" /\ cand.semantic = "valid"
         /\ cand.persistence \in {"interrupted-before-rename", "success"}
  BY <1>1 DEF IInv, Judged
<1> HIDE DEF c
<1>6. /\ c.commit \in Commit \ {cand.base} /\ cand.base \in Commit
      /\ \/ c.object # "valid"
         \/ c.ancestry \in {"predecessor", "divergent", "unknown"}
         \/ c.ancestry = "descendant" /\ c.semantic = "invalid"
         \/ /\ c.ancestry = "descendant" /\ c.semantic = "valid"
            /\ c.persistence \in {"interrupted-before-rename", "success"}
  BY <1>2, <1>4, <1>5
<1> HIDE DEF outcome
<1>7. /\ outcome.decision \in {"retain-accepted", "accept-forward"}
      /\ outcome.decision = "accept-forward" =>
            /\ c.object = "valid" /\ c.ancestry = "descendant"
            /\ c.semantic = "valid" /\ c.persistence = "success"
  BY <1>2, <1>6, JudgedIsDecided DEF outcome
<1>8. /\ outcome.decision \in {"retain-accepted", "accept-forward"}
      /\ outcome.decision = "accept-forward" =>
            /\ cand.object = "valid" /\ cand.ancestry = "descendant"
            /\ cand.semantic = "valid" /\ cand.persistence = "success"
  BY <1>2, <1>7
<1>9. CASE outcome.decision = "retain-accepted"
  BY <1>2, <1>3, <1>9 DEF Apply, Noted, outcome
<1>10. CASE outcome.decision = "accept-forward"
  <2>1. Goto("accept") /\ UNCHANGED <<start, cand>>
    BY <1>3, <1>10 DEF Apply, outcome
  <2>2. Forward(active, cand.tip) /\ disk = Record(cand.tip)
    BY <1>1, <1>8, <1>10 DEF IInv, Judged
  <2> QED
    BY <1>4, <2>1, <2>2
<1> QED
  BY <1>8, <1>9, <1>10

LEMMA ApplyCandidateInv == IInv /\ ApplyCandidate => IInv'
<1> SUFFICES ASSUME IInv, ApplyCandidate PROVE IInv'
  OBVIOUS
<1>1. /\ pc = "apply" /\ pc \in ReloadPc /\ pc \in Ready /\ Works
      /\ UNCHANGED <<remote, files, git, last>>
  BY DEF ApplyCandidate, ReloadPc, Ready
<1>2. BudgetsOK' /\ outages' = outages
  BY <1>1, BudgetFacts DEF IInv, TypeOK
<1>3. CASE Idle /\ suppressed' = suppressed \cup {cand.tip}
  BY <1>1, <1>2, <1>3, ReloadFacts, IdleInv DEF git
<1>4. CASE /\ Goto("accept") /\ UNCHANGED <<start, cand>>
           /\ cand.tip \in Commit /\ Forward(active, cand.tip)
           /\ disk = Record(cand.tip)
  <2>1. TypeOK'
    BY <1>1, <1>2, <1>4, ReloadFacts
       DEF IInv, TypeOK, Goto, files, git, PublishPc
  <2>2. PublishPhase'
    BY <1>1, <1>4, ReloadFacts DEF PublishPhase, Goto, files
  <2>3. /\ StartupPhase' /\ StartupRecord' /\ ReadyPhase' /\ CandidatePhase'
        /\ Judged' /\ NoPanic'
    BY <1>4 DEF StartupPhase, StartupRecord, ReadyPhase, CandidatePhase,
                Judged, NoPanic, Goto, Ready, StartupPc, ReloadPc
  <2>4. ServedIsLast' /\ RecordLeadsByOneStep'
    BY <1>1, <1>2, <1>4, RecordStays DEF IInv, ServedIsLast, Goto, files
  <2> QED
    BY <2>1, <2>2, <2>3, <2>4 DEF IInv
<1> QED
  BY <1>3, <1>4, ApplyFacts

----------------------------------------------------------------------------
(* Publication *)

LEMMA PublishFacts ==
    ASSUME IInv, pc \in PublishPc
    PROVE  /\ Publishing \in Buildable /\ Publishing \in Commit
           /\ StoredCommit(disk) = Publishing
           /\ active # None => Forward(active, Publishing)
<1>1. CASE /\ cand.tip \in Commit /\ active \in Commit
           /\ Forward(active, cand.tip) /\ disk = Record(cand.tip)
  <2>1. Publishing = cand.tip
    BY <1>1, ConstantFacts DEF Publishing
  <2> QED
    BY <1>1, <2>1, RecordFacts DEF Forward
<1>2. CASE /\ cand = NoCand /\ active = None
           /\ start.commit \in Buildable
           /\ StoredCommit(disk) = start.commit
  <2>1. Publishing = start.commit
    BY <1>2 DEF Publishing, NoCand
  <2> QED
    BY <1>2, <2>1, ConstantFacts
<1> QED
  BY <1>1, <1>2 DEF IInv, PublishPhase

LEMMA AcceptCommitInv == IInv /\ AcceptCommit => IInv'
<1> SUFFICES ASSUME IInv, AcceptCommit PROVE IInv'
  OBVIOUS
<1>1. /\ pc = "accept" /\ pc \in PublishPc /\ Works
      /\ pc' = "install" /\ accepted' = Publishing
      /\ UNCHANGED <<start, cand, active, suppressed, remote, files, git, last>>
  BY DEF AcceptCommit, PublishPc
<1>2. BudgetsOK' /\ outages' = outages
  BY <1>1, BudgetFacts DEF IInv, TypeOK
<1>3. TypeOK'
  BY <1>1, <1>2, PublishFacts DEF IInv, TypeOK, files, git, PublishPc, Commits
<1>4. PublishPhase'
  BY <1>1 DEF IInv, PublishPhase, Publishing, files, PublishPc
<1>5. /\ StartupPhase' /\ StartupRecord' /\ ReadyPhase' /\ CandidatePhase'
      /\ Judged' /\ NoPanic'
  BY <1>1 DEF StartupPhase, StartupRecord, ReadyPhase, CandidatePhase,
              Judged, NoPanic, Ready, StartupPc, ReloadPc
<1>6. ServedIsLast' /\ RecordLeadsByOneStep'
  BY <1>1, <1>2, RecordStays DEF IInv, ServedIsLast, files
<1> QED
  BY <1>3, <1>4, <1>5, <1>6 DEF IInv

LEMMA InstallSnapshotInv == IInv /\ InstallSnapshot => IInv'
<1> SUFFICES ASSUME IInv, InstallSnapshot PROVE IInv'
  OBVIOUS
<1>1. /\ pc = "install" /\ pc \in PublishPc /\ Works
      /\ active' = Publishing /\ last' = Publishing /\ pc' = "idle"
      /\ start' = NoStart /\ cand' = NoCand
      /\ UNCHANGED <<accepted, suppressed, remote, files, git>>
  BY DEF InstallSnapshot, PublishPc
<1>2. BudgetsOK' /\ outages' = outages
  BY <1>1, BudgetFacts DEF IInv, TypeOK
<1>3. /\ Publishing \in Buildable /\ Publishing \in Commit
      /\ StoredCommit(disk) = Publishing /\ accepted = Publishing
  BY <1>1, PublishFacts DEF IInv, PublishPhase
<1>4. TypeOK'
  BY <1>1, <1>2, <1>3, NoStartType DEF IInv, TypeOK, files, git, Commits
<1>5. ReadyPhase' /\ ServedIsLast' /\ RecordLeadsByOneStep'
  BY <1>1, <1>3
     DEF ReadyPhase, ServedIsLast, RecordLeadsByOneStep, files, ReloadPc
<1>6. /\ StartupPhase' /\ StartupRecord' /\ CandidatePhase' /\ Judged'
      /\ PublishPhase' /\ NoPanic'
  BY <1>1 DEF StartupPhase, StartupRecord, CandidatePhase, Judged,
              PublishPhase, NoPanic, StartupPc, ReloadPc, PublishPc
<1> QED
  BY <1>4, <1>5, <1>6 DEF IInv

----------------------------------------------------------------------------
(* The theorems. *)

LEMMA StutterInv == IInv /\ UNCHANGED vars => IInv'
BY DEF vars, files, git, process, budgets, IInv, TypeOK, BudgetsOK,
       StartupPhase, StartupRecord, ReadyPhase, CandidatePhase, Unjudged,
       Judged, PublishPhase, ServedIsLast, RecordLeadsByOneStep, NoPanic,
       Publishing

LEMMA NextInv == IInv /\ [Next]_vars => IInv'
<1> SUFFICES ASSUME IInv, [Next]_vars PROVE IInv'
  OBVIOUS
<1>1. CASE StartupStep
  BY <1>1, StartupInv, ProbeBootstrapInv, FetchBootstrapInv,
     ReprobeBootstrapInv, ProbeAcceptedInv, DecideStartupInv, BuildInitialInv,
     WriteBootstrapInv, SyncBootstrapInv DEF StartupStep
<1>2. CASE ReloadStep
  BY <1>2, ObserveRemoteInv, FetchTipInv, ResolveTipInv, ProbeTipInv,
     ProbeAncestryInv, ValidateCandidateInv, WriteRecordInv, SyncRecordInv,
     ApplyCandidateInv DEF ReloadStep
<1>3. CASE PublishStep
  BY <1>3, AcceptCommitInv, InstallSnapshotInv DEF PublishStep
<1>4. CASE Environment
  BY <1>4, EnvironmentInv
<1>5. CASE UNCHANGED vars
  BY <1>5, StutterInv
<1> QED
  BY <1>1, <1>2, <1>3, <1>4, <1>5 DEF Next, WatcherStep

\* The inductive invariant: in every phase of startup() and reload() the
\* locals, the record on disk and what is served fit together, whatever
\* fails, moves, or is killed in between.
THEOREM Invariant == Spec => []IInv
<1>1. Init => IInv
  BY InitInv
<1>2. IInv /\ [Next]_vars => IInv'
  BY NextInv
<1> QED
  BY <1>1, <1>2, PTL DEF Spec

\* Every variable of the watcher keeps its type.
THEOREM TypeCorrect == Spec => []TypeOK
<1>1. IInv => TypeOK
  BY DEF IInv
<1> QED
  BY <1>1, Invariant, PTL

\* The expect() in apply() cannot fire: no order of failures makes reload()
\* hand the policy an inconsistent candidate.
THEOREM NeverPanics == Spec => []NoPanic
<1>1. IInv => NoPanic
  BY DEF IInv
<1> QED
  BY <1>1, Invariant, PTL

\* Until a power loss, the record on disk is what was served last or one
\* legal step ahead of it: persist_record comes before publication, and
\* nothing else writes the record.
THEOREM RecordLeads == Spec => []RecordLeadsByOneStep
<1>1. IInv => RecordLeadsByOneStep
  BY DEF IInv
<1> QED
  BY <1>1, Invariant, PTL

\* A reload judges its candidate against what is being served, and an idle
\* watcher serves what it has accepted.
THEOREM ReloadJudgesServed == Spec => []ReloadsFromServed
<1>1. IInv => ReloadsFromServed
  BY DEF IInv, ReloadsFromServed, ReadyPhase, Ready
<1> QED
  BY <1>1, Invariant, PTL

----------------------------------------------------------------------------
(* Who changes what the refinement and the action properties talk about. *)

\* what is observed of the watcher from outside
observed == <<disk, active, last>>

\* the record is replaced by the two renames, and by a power loss
LEMMA StartupObserved ==
    IInv /\ StartupStep =>
        \/ UNCHANGED observed
        \/ pc = "bootstrap-write" /\ disk' = Record(start.commit)
             /\ UNCHANGED <<active, last>>
<1> SUFFICES ASSUME IInv, StartupStep
             PROVE  \/ UNCHANGED observed
                    \/ pc = "bootstrap-write" /\ disk' = Record(start.commit)
                         /\ UNCHANGED <<active, last>>
  OBVIOUS
<1>1. pc \in StartupPc \cup {"down"}
  BY DEF StartupStep, Startup, ProbeBootstrap, FetchBootstrap,
         ReprobeBootstrap, ProbeAccepted, DecideStartup, BuildInitial,
         WriteBootstrap, SyncBootstrap, StartupPc
<1>2. active = None
  BY <1>1 DEF IInv, StartupPhase
<1>3. CASE WriteBootstrap
  BY <1>2, <1>3 DEF WriteBootstrap, Gone, Goto, observed
<1>4. CASE ~WriteBootstrap
  <2>1. UNCHANGED <<disk, last>>
    BY <1>4 DEF StartupStep, Startup, ProbeBootstrap, FetchBootstrap,
                ReprobeBootstrap, ProbeAccepted, DecideStartup, BuildInitial,
                SyncBootstrap, files
  <2>2. active' = active
    BY <1>2, <1>4
       DEF StartupStep, Startup, ProbeBootstrap, FetchBootstrap,
           ReprobeBootstrap, ProbeAccepted, DecideStartup, BuildInitial,
           SyncBootstrap, Gone, Goto, process
  <2> QED
    BY <2>1, <2>2 DEF observed
<1> QED
  BY <1>3, <1>4

LEMMA ReloadObserved ==
    ASSUME ReloadStep
    PROVE  \/ UNCHANGED observed
           \/ pc = "write" /\ disk' = Record(cand.tip)
                /\ UNCHANGED <<active, last>>
<1>1. ASSUME NEW base, NEW c, Apply(base, c) PROVE active' = active
  BY <1>1 DEF Apply, Goto, Idle
<1>2. NoVerdict => active' = active
  BY <1>1 DEF NoVerdict
<1>3. active' = active
  <2>1. CASE ObserveRemote
    BY <1>1, <2>1 DEF ObserveRemote, Goto, Idle
  <2>2. CASE FetchTip
    BY <1>2, <2>2 DEF FetchTip, Goto
  <2>3. CASE ResolveTip
    BY <1>2, <2>3 DEF ResolveTip, Goto
  <2>4. CASE ProbeTip
    BY <1>2, <2>4 DEF ProbeTip, Goto
  <2>5. CASE ProbeAncestry \/ ValidateCandidate \/ WriteRecord \/ SyncRecord
    BY <2>5 DEF ProbeAncestry, ValidateCandidate, WriteRecord, SyncRecord,
                PersistFailed, Goto
  <2>6. CASE ApplyCandidate
    BY <1>1, <2>6 DEF ApplyCandidate
  <2> QED
    BY <2>1, <2>2, <2>3, <2>4, <2>5, <2>6 DEF ReloadStep
<1>4. last' = last
  BY DEF ReloadStep, ObserveRemote, FetchTip, ResolveTip, ProbeTip,
         ProbeAncestry, ValidateCandidate, WriteRecord, SyncRecord,
         ApplyCandidate
<1>5. disk' = disk \/ (pc = "write" /\ disk' = Record(cand.tip))
  BY DEF ReloadStep, ObserveRemote, FetchTip, ResolveTip, ProbeTip,
         ProbeAncestry, ValidateCandidate, WriteRecord, SyncRecord,
         ApplyCandidate, files
<1> QED
  BY <1>3, <1>4, <1>5 DEF observed

\* every step, as it shows from outside
LEMMA NextObserved ==
    IInv /\ [Next]_vars =>
        \/ UNCHANGED observed
        \/ pc = "bootstrap-write" /\ disk' = Record(start.commit)
             /\ UNCHANGED <<active, last>>
        \/ pc = "write" /\ disk' = Record(cand.tip) /\ UNCHANGED <<active, last>>
        \/ pc = "install" /\ active' = Publishing /\ last' = Publishing
             /\ disk' = disk
        \/ active' = None /\ UNCHANGED <<disk, last>>
        \/ PowerLoss
<1>1. ASSUME PublishStep
      PROVE  \/ UNCHANGED observed
             \/ pc = "install" /\ active' = Publishing /\ last' = Publishing
                  /\ disk' = disk
  BY <1>1 DEF PublishStep, AcceptCommit, InstallSnapshot, observed, files
<1>2. ASSUME Environment
      PROVE  \/ UNCHANGED observed
             \/ active' = None /\ UNCHANGED <<disk, last>>
             \/ PowerLoss
  BY <1>2 DEF Environment, MoveRemote, DamageObject, AutoGc, WriteBack, Crash,
              Gone, observed, files, process
<1>3. UNCHANGED vars => UNCHANGED observed
  BY DEF vars, files, process, observed
<1> QED
  BY <1>1, <1>2, <1>3, StartupObserved, ReloadObserved DEF Next, WatcherStep

\* Within one process no fault moves the served snapshot other than forward.
THEOREM SessionForward == Spec => SessionMovesForward
<1>1. IInv /\ [Next]_vars =>
        [active # active' /\ active # None /\ active' # None
            => Forward(active, active')]_vars
  BY NextObserved, PublishFacts DEF observed, PublishPc, PowerLoss, Gone
<1> QED
  BY <1>1, Invariant, PTL DEF Spec, SessionMovesForward

\* Over all restarts, what clients are served only ever moves forward, as
\* long as the machine does not lose power.
THEOREM ServedForward == Spec => ServedMovesForward
<1>1. IInv /\ [Next]_vars =>
        [last' # last /\ last # None /\ outages = 0 => Forward(last, last')]_vars
  <2> SUFFICES ASSUME IInv, [Next]_vars,
                      last' # last, last # None, outages = 0
               PROVE  Forward(last, last')
    OBVIOUS
  <2>1. pc = "install" /\ last' = Publishing
    BY NextObserved DEF observed, PowerLoss
  <2>2. /\ StoredCommit(disk) = Publishing
        /\ active # None => Forward(active, Publishing)
    BY <2>1, PublishFacts DEF PublishPc
  <2>3. CASE active # None
    BY <2>1, <2>2, <2>3 DEF IInv, ServedIsLast
  <2>4. CASE active = None
    BY <2>1, <2>2, <2>4 DEF IInv, RecordLeadsByOneStep
  <2> QED
    BY <2>3, <2>4
<1> QED
  BY <1>1, Invariant, PTL DEF Spec, ServedMovesForward

\* The watcher implements LastKnownGood when the machine never loses power.
THEOREM Refinement == ASSUME MaxOutages = 0 PROVE Spec => KeepsLastKnownGood
<1>1. Init => LKG!Init
  BY FileFacts DEF Init, LKG!Init, Files
<1>2. IInv /\ [Next]_vars => [LKG!Next]_(LKG!promise)
  <2> SUFFICES ASSUME IInv, [Next]_vars PROVE [LKG!Next]_(LKG!promise)
    OBVIOUS
  <2>1. CASE UNCHANGED observed
    BY <2>1 DEF observed, LKG!promise
  <2>2. CASE pc = "bootstrap-write" /\ disk' = Record(start.commit)
               /\ UNCHANGED <<active, last>>
    <3>1. StoredCommit(disk) = None
      BY <2>2 DEF IInv, StartupRecord, StartupPc, StoredCommit
    <3>2. start.commit = Bootstrap /\ Bootstrap \in Buildable
      BY <2>2 DEF IInv, StartupRecord
    <3>3. StoredCommit(disk') = Bootstrap
      BY <2>2, <3>2, ConstantFacts, RecordFacts
    <3>4. LKG!Store(Bootstrap)
      BY <2>2, <3>1, <3>2, <3>3 DEF LKG!Store, LKG!Storable
    <3> QED
      BY <3>4, ConstantFacts DEF LKG!Next
  <2>3. CASE pc = "write" /\ disk' = Record(cand.tip)
               /\ UNCHANGED <<active, last>>
    <3>1. cand.tip \in Commit /\ Forward(active, cand.tip) /\ active # None
      BY <2>3, ReloadFacts DEF IInv, CandidatePhase, Ready, ReloadPc
    <3>2. StoredCommit(disk') = cand.tip
      BY <2>3, <3>1, RecordFacts
    <3>3. LKG!Forward(active, cand.tip)
      BY <3>1 DEF LKG!Forward, Forward
    <3>4. LKG!Store(cand.tip)
      BY <2>3, <3>1, <3>2, <3>3 DEF LKG!Store, LKG!Storable
    <3> QED
      BY <3>1, <3>4 DEF LKG!Next
  <2>4. CASE pc = "install" /\ active' = Publishing /\ last' = Publishing
               /\ disk' = disk
    <3>1. Publishing \in Buildable /\ StoredCommit(disk) = Publishing
      BY <2>4, PublishFacts DEF PublishPc
    <3>2. LKG!Serve
      BY <2>4, <3>1 DEF LKG!Serve
    <3> QED
      BY <3>2 DEF LKG!Next
  <2>5. CASE active' = None /\ UNCHANGED <<disk, last>>
    BY <2>5 DEF LKG!Next, LKG!Stop, LKG!promise
  <2>6. CASE PowerLoss
    BY <2>6, RustWatcherAssumption DEF PowerLoss, IInv, TypeOK, BudgetsOK
  <2> QED
    BY <2>1, <2>2, <2>3, <2>4, <2>5, <2>6, NextObserved
<1> QED
  BY <1>1, <1>2, Invariant, PTL DEF Spec, KeepsLastKnownGood, LKG!Spec

----------------------------------------------------------------------------
(* The record between polls, and the object it names: a second invariant on *)
(* top of the first.                                                        *)

\* a restart would find the commit, save for a damaged or collected mirror
Kept(c) ==
    damage = 0 =>
        \/ mirror[c] = "valid"
        \/ GcRuns /\ c \notin HistoryOf(watchRef)

NoneCorrupt == damage = 0 => \A o \in Object : mirror[o] # "corrupt"

\* what is on disk, what a power loss would leave and what is about to be written
ObjectsKept ==
    /\ \A file \in {disk, durable} :
          StoredCommit(file) # None => Kept(StoredCommit(file))
    /\ pc = "bootstrap-write" => Kept(start.commit)
    /\ pc = "write" => Kept(cand.tip)

\* the record is the accepted one or that of a rejected step from it
AcceptedRecorded ==
    \/ disk = Record(accepted)
    \/ \E c \in suppressed \cap Commit :
          disk = Record(c) /\ Forward(accepted, c)

RecordPhase ==
    /\ pc \in Ready \ {"sync", "apply"} => AcceptedRecorded
    /\ pc = "apply" =>
          \/ AcceptedRecorded
          \/ disk = Record(cand.tip) /\ Forward(accepted, cand.tip)

BadRecord == disk # Absent /\ StoredCommit(disk) = None

\* nothing ever wrote over a bad record
BadStays == BadRecord => durable = disk

Further ==
    /\ NoneCorrupt /\ ObjectsKept /\ RecordPhase /\ BadStays

LEMMA StoredIsRecord ==
    ASSUME NEW f \in Files, StoredCommit(f) # None
    PROVE  f = Record(StoredCommit(f)) /\ StoredCommit(f) \in Commit
<1>1. StoredCommit(f) \in Commit /\ f.kind = "present"
  BY FileFacts
<1>2. CASE f \in {Absent, Malformed}
  BY <1>1, <1>2 DEF Absent, Malformed
<1>3. CASE \E c \in Commit : f = Record(c)
  BY <1>3, RecordFacts
<1>4. CASE f \in InitialRecords
  <2>1. PICK r \in [commit : Commit, fullRef : WellFormed, identity : WellFormed] :
           f = [kind |-> "present", record |-> r]
    BY <1>1, <1>4, RustWatcherAssumption
  <2>2. f.record = r /\ Policy!Bound(r) /\ StoredCommit(f) = r.commit
    BY <1>1, <2>1 DEF StoredCommit
  <2>3. r = [commit |-> r.commit, fullRef |-> FullRef,
             identity |-> RepositoryIdentity]
    BY <2>2 DEF Policy!Bound
  <2> QED
    BY <1>1, <2>1, <2>2, <2>3 DEF Record, Present, Policy!AcceptedRef
<1> QED
  BY <1>1, <1>2, <1>3, <1>4 DEF Files

LEMMA AbsentFile ==
    ASSUME NEW f \in Files, f.kind = "absent"
    PROVE  f = Absent
BY RustWatcherAssumption DEF Files, Absent, Malformed, Record, Present

LEMMA InitFurther == Init => Further
<1> SUFFICES ASSUME Init PROVE Further
  OBVIOUS
<1>1. disk \in Files /\ durable = disk /\ damage = 0 /\ pc = "down"
  BY DEF Init, Files
<1>2. NoneCorrupt
  BY DEF Init, NoneCorrupt
<1>3. ASSUME StoredCommit(disk) # None PROVE mirror[StoredCommit(disk)] = "valid"
  <2>1. /\ StoredCommit(disk) = disk.record.commit /\ disk.kind = "present"
        /\ StoredCommit(disk) \in Object
    BY <1>1, <1>3, StoredIsRecord, ConstantFacts DEF StoredCommit
  <2> QED
    BY <2>1 DEF Init, HistoryOf
<1> QED
  BY <1>1, <1>2, <1>3
     DEF Further, ObjectsKept, Kept, RecordPhase, BadStays, Ready, ReloadPc

\* No step takes an object away, other than damage and the collection of what
\* the watched ref does not reach.
LEMMA MirrorSteps ==
    ASSUME IInv, NoneCorrupt, [Next]_vars
    PROVE  NoneCorrupt' /\ \A c \in Commit : Kept(c) => Kept(c)'
<1>1. /\ TypeOK /\ damage \in Nat /\ mirror \in Mirrors
  BY RustWatcherAssumption DEF IInv, TypeOK, BudgetsOK
<1>2. \/ UNCHANGED <<git, damage>>
      \/ /\ damage' = damage /\ remote # None
         /\ mirror' \in Fetched(mirror, remote) /\ watchRef' \in {remote, watchRef}
      \/ damage' = damage + 1
      \/ /\ GcRuns /\ damage' = damage /\ watchRef' = watchRef
         /\ mirror' = Pruned(mirror, watchRef)
  <2>1. CASE UNCHANGED vars
    BY <2>1 DEF vars, budgets
  <2>2. CASE Environment
    BY <2>2 DEF Environment, MoveRemote, DamageObject, AutoGc, WriteBack, Crash,
       PowerLoss, git, budgets
  <2>3. CASE FetchBootstrap \/ FetchTip
    BY <2>3 DEF FetchBootstrap, FetchTip, FetchArrives, FetchFails, Fault, Works,
       git, budgets
  <2>4. CASE /\ WatcherStep /\ ~FetchBootstrap /\ ~FetchTip
    <3>1. UNCHANGED git
      BY <2>4 DEF WatcherStep, StartupStep, ReloadStep, PublishStep, Startup,
         ProbeBootstrap, ReprobeBootstrap, ProbeAccepted, DecideStartup,
         BuildInitial, WriteBootstrap, SyncBootstrap, ObserveRemote, ResolveTip,
         ProbeTip, ProbeAncestry, ValidateCandidate, WriteRecord, SyncRecord,
         ApplyCandidate, AcceptCommit, InstallSnapshot
    <3>2. Fault \/ Works
      BY <2>4 DEF WatcherStep, StartupStep, ReloadStep, PublishStep, Startup,
         ProbeBootstrap, ReprobeBootstrap, ProbeAccepted, DecideStartup,
         BuildInitial, WriteBootstrap, SyncBootstrap, ObserveRemote, ResolveTip,
         ProbeTip, ProbeAncestry, ValidateCandidate, WriteRecord, SyncRecord,
         PersistFailed, ApplyCandidate, AcceptCommit, InstallSnapshot, Probed
    <3> QED
      BY <3>1, <3>2 DEF Fault, Works, budgets
  <2> QED
    BY <2>1, <2>2, <2>3, <2>4 DEF Next
<1>3. CASE UNCHANGED <<git, damage>>
  BY <1>3 DEF NoneCorrupt, Kept, git
<1>4. CASE /\ damage' = damage /\ remote # None
           /\ mirror' \in Fetched(mirror, remote) /\ watchRef' \in {remote, watchRef}
  <2>1. ASSUME damage = 0, NEW o \in Object
        PROVE  mirror'[o] = IF o \in HistoryOf(remote) THEN "valid" ELSE mirror[o]
    <3>1. {a \in HistoryOf(remote) : mirror[a] = "corrupt"} = {}
      <4>1. HistoryOf(remote) \subseteq Object
        BY <1>1, <1>4, ConstantFacts DEF TypeOK, HistoryOf
      <4> QED
        BY <2>1, <4>1 DEF NoneCorrupt
    <3>2. mirror' = [a \in Object |->
             IF a \notin HistoryOf(remote) THEN mirror[a] ELSE "valid"]
      BY <1>4, <3>1 DEF Fetched
    <3> QED
      BY <3>2
  <2>2. NoneCorrupt'
    BY <1>4, <2>1 DEF NoneCorrupt
  <2>3. ASSUME NEW c \in Commit, Kept(c), damage = 0
        PROVE  mirror'[c] = "valid" \/ (GcRuns /\ c \notin HistoryOf(watchRef'))
    BY <1>4, <2>1, <2>3, ConstantFacts DEF Kept
  <2> QED
    BY <1>4, <2>2, <2>3 DEF Kept
<1>5. CASE damage' = damage + 1
  BY <1>1, <1>5 DEF NoneCorrupt, Kept
<1>6. CASE /\ GcRuns /\ damage' = damage /\ watchRef' = watchRef
           /\ mirror' = Pruned(mirror, watchRef)
  <2>1. \A o \in Object : mirror'[o] =
           IF watchRef # None /\ o \notin HistoryOf(watchRef) THEN "missing"
           ELSE mirror[o]
    BY <1>6 DEF Pruned
  <2> QED
    BY <1>6, <2>1, ConstantFacts DEF NoneCorrupt, Kept
<1> QED
  BY <1>2, <1>3, <1>4, <1>5, <1>6

\* Who writes the record, and what.
LEMMA FileSteps ==
    ASSUME IInv, [Next]_vars
    PROVE  \/ disk' = disk /\ durable' \in {disk, durable}
           \/ disk' = durable /\ durable' = durable /\ active' = None /\ pc' = "down"
           \/ /\ pc = "bootstrap-write" /\ disk' = Record(start.commit)
              /\ durable' = durable /\ disk.kind = "absent" /\ start.commit \in Commit
           \/ /\ pc = "write" /\ disk' = Record(cand.tip) /\ durable' = durable
              /\ cand.tip \in Commit
<1>1. CASE UNCHANGED vars
  BY <1>1 DEF vars, files
<1>2. CASE Environment
  BY <1>2 DEF Environment, MoveRemote, DamageObject, AutoGc, WriteBack, Crash,
     PowerLoss, Gone, files
<1>3. CASE WriteBootstrap
  <2>1. pc = "bootstrap-write" /\ disk.kind = "absent" /\ start.commit \in Commit
    BY <1>3, ConstantFacts DEF WriteBootstrap, IInv, StartupRecord, StartupPc
  <2> QED
    BY <1>3, <2>1 DEF WriteBootstrap
<1>4. CASE WriteRecord
  <2>1. pc = "write" /\ cand.tip \in Commit
    BY <1>4 DEF WriteRecord, IInv, CandidatePhase, ReloadPc
  <2> QED
    BY <1>4, <2>1 DEF WriteRecord
<1>5. CASE SyncBootstrap \/ SyncRecord
  BY <1>5 DEF SyncBootstrap, SyncRecord
<1>6. CASE /\ WatcherStep
           /\ ~WriteBootstrap /\ ~WriteRecord /\ ~SyncBootstrap /\ ~SyncRecord
  BY <1>6 DEF WatcherStep, StartupStep, ReloadStep, PublishStep, Startup,
     ProbeBootstrap, FetchBootstrap, ReprobeBootstrap, ProbeAccepted,
     DecideStartup, BuildInitial, ObserveRemote, FetchTip, ResolveTip,
     ProbeTip, ProbeAncestry, ValidateCandidate,
     ApplyCandidate, AcceptCommit, InstallSnapshot, files
<1> QED
  BY <1>1, <1>2, <1>3, <1>4, <1>5, <1>6 DEF Next

\* what is about to be written was validated in the mirror
LEMMA WritesAreKept ==
    ASSUME IInv, ObjectsKept, [Next]_vars,
           \A c \in Commit : Kept(c) => Kept(c)'
    PROVE  /\ pc' = "bootstrap-write" => Kept(start.commit)'
           /\ pc' = "write" => Kept(cand.tip)'
<1>1. ASSUME pc' = "bootstrap-write" PROVE Kept(start.commit)'
  <2>1. /\ start' = start
        /\ \/ pc = "bootstrap-write"
           \/ pc = "build" /\ mirror[start.commit] = "valid"
    <3>1. CASE UNCHANGED vars
      BY <1>1, <3>1 DEF vars, process
    <3>2. CASE Environment
      BY <1>1, <3>2 DEF Environment, MoveRemote, DamageObject, AutoGc, WriteBack,
         Crash, PowerLoss, Gone, process
    <3>3. CASE StartupStep
      BY <1>1, <3>3 DEF StartupStep, Startup, ProbeBootstrap, FetchBootstrap,
         ReprobeBootstrap, ProbeAccepted, DecideStartup, BuildInitial,
         WriteBootstrap, SyncBootstrap, Goto, Gone, process
    <3>4. CASE ReloadStep
      BY <1>1, <3>4 DEF ReloadStep, ObserveRemote, FetchTip, ResolveTip, ProbeTip,
         ProbeAncestry, ValidateCandidate, WriteRecord, SyncRecord, PersistFailed,
         ApplyCandidate, NoVerdict, Apply, Goto, Idle
    <3>5. CASE PublishStep
      BY <1>1, <3>5 DEF PublishStep, AcceptCommit, InstallSnapshot
    <3> QED
      BY <3>1, <3>2, <3>3, <3>4, <3>5 DEF Next, WatcherStep
  <2>2. PICK c : c = start.commit
    OBVIOUS
  <2>3. c \in Commit /\ Kept(c)
    BY <2>1, <2>2, ConstantFacts DEF IInv, StartupRecord, ObjectsKept, Kept
  <2>4. Kept(c)' /\ start'.commit = c
    BY <2>1, <2>2, <2>3
  <2> QED
    BY <2>4 DEF Kept
<1>2. ASSUME pc' = "write" PROVE Kept(cand.tip)'
  <2>1. /\ cand'.tip = cand.tip
        /\ \/ pc = "write"
           \/ pc = "validate" /\ mirror[cand.tip] = "valid"
    <3>1. CASE UNCHANGED vars
      BY <1>2, <3>1 DEF vars, process
    <3>2. CASE Environment
      BY <1>2, <3>2 DEF Environment, MoveRemote, DamageObject, AutoGc, WriteBack,
         Crash, PowerLoss, Gone, process
    <3>3. CASE StartupStep
      BY <1>2, <3>3 DEF StartupStep, Startup, ProbeBootstrap, FetchBootstrap,
         ReprobeBootstrap, ProbeAccepted, DecideStartup, BuildInitial,
         WriteBootstrap, SyncBootstrap, Goto, Gone, process
    <3>4. CASE ValidateCandidate
      BY <1>2, <3>4 DEF ValidateCandidate, Validates, Goto, IInv, TypeOK, CandState
    <3>5. CASE ReloadStep /\ ~ValidateCandidate
      BY <1>2, <3>5 DEF ReloadStep, ObserveRemote, FetchTip, ResolveTip, ProbeTip,
         ProbeAncestry, WriteRecord, SyncRecord, PersistFailed,
         ApplyCandidate, NoVerdict, Apply, Goto, Idle
    <3>6. CASE PublishStep
      BY <1>2, <3>6 DEF PublishStep, AcceptCommit, InstallSnapshot
    <3> QED
      BY <3>1, <3>2, <3>3, <3>4, <3>5, <3>6 DEF Next, WatcherStep
  <2>2. PICK c : c = cand.tip
    OBVIOUS
  <2>3. c \in Commit /\ Kept(c)
    BY <2>1, <2>2 DEF IInv, CandidatePhase, ReloadPc, ObjectsKept, Kept
  <2>4. Kept(c)' /\ cand'.tip = c
    BY <2>1, <2>2, <2>3
  <2> QED
    BY <2>4 DEF Kept
<1> QED
  BY <1>1, <1>2

LEMMA FilesFurther ==
    ASSUME IInv, Further, [Next]_vars
    PROVE  NoneCorrupt' /\ ObjectsKept' /\ BadStays'
<1>1. NoneCorrupt' /\ \A c \in Commit : Kept(c) => Kept(c)'
  BY MirrorSteps DEF Further
<1>2. /\ pc' = "bootstrap-write" => Kept(start.commit)'
      /\ pc' = "write" => Kept(cand.tip)'
  BY <1>1, WritesAreKept DEF Further
<1>3. disk \in Files /\ durable \in Files
  BY DEF IInv, TypeOK
<1>4. ASSUME NEW f \in {disk', durable'}, StoredCommit(f) # None
      PROVE  Kept(StoredCommit(f))'
  <2>1. CASE f \in {disk, durable}
    <3>1. Kept(StoredCommit(f)) /\ StoredCommit(f) \in Commit
      BY <1>3, <1>4, <2>1, StoredIsRecord DEF Further, ObjectsKept
    <3>2. PICK c \in Commit : c = StoredCommit(f)
      BY <3>1
    <3> QED
      BY <1>1, <3>1, <3>2
  <2>2. ASSUME NEW c \in Commit, f = Record(c), Kept(c)
        PROVE  Kept(StoredCommit(f))'
    BY <1>1, <2>2, RecordFacts
  <2> QED
    BY <2>1, <2>2, FileSteps DEF Further, ObjectsKept
<1>5. ObjectsKept'
  BY <1>2, <1>4 DEF ObjectsKept
<1>6. BadStays'
  <2>1. ASSUME NEW c \in Commit PROVE StoredCommit(Record(c)) # None
    BY RecordFacts, ConstantFacts
  <2> QED
    BY <2>1, FileSteps DEF Further, BadStays, BadRecord, StoredCommit
<1> QED
  BY <1>1, <1>5, <1>6

\* What a reload leaves of the accepted record: it goes on, it ends, or it is
\* about to be judged.
LEMMA ReloadOutcome ==
    ASSUME IInv, ReloadStep
    PROVE  /\ accepted' = accepted /\ accepted \in Commit
           /\ pc' = "apply" => cand'.tip = cand.tip
           /\ \/ suppressed' = suppressed
              \/ pc = "apply" /\ suppressed' = suppressed \cup {cand.tip}
           /\ pc = "apply" /\ pc' = "idle" => suppressed' = suppressed \cup {cand.tip}
           /\ pc = "apply" => pc' \in {"idle", "accept"} /\ disk' = disk
<1>1. pc \in Ready
  BY DEF ReloadStep, ObserveRemote, FetchTip, ResolveTip, ProbeTip, ProbeAncestry,
     ValidateCandidate, WriteRecord, SyncRecord, ApplyCandidate, Ready, ReloadPc
<1>2. accepted \in Commit /\ cand \in CandState
  BY <1>1, ReloadFacts
<1>3. CASE ObserveRemote
  <2> DEFINE d == Candidate([NoCand EXCEPT !.tip = remote], TRUE, TRUE)
  <2>1. /\ d.observed = TRUE /\ d.suppressed = TRUE
        /\ d.identity = RepositoryIdentity /\ d.fullRef = FullRef
    BY DEF Candidate
  <2> HIDE DEF d
  <2>2. ASSUME Apply(accepted, d) PROVE Idle /\ suppressed' = suppressed
    <3>1. Policy!EvaluateReload(Policy!AcceptedRef(accepted), d).decision
            = "retain-accepted"
      BY <1>2, <2>1, SuppressedRetains
    <3> QED
      BY <2>1, <2>2, <3>1 DEF Apply, Noted
  <2>3. ASSUME Apply(accepted, Candidate(NoCand, FALSE, FALSE))
        PROVE  Idle /\ suppressed' = suppressed
    <3>1. Policy!EvaluateReload(Policy!AcceptedRef(accepted),
                                Candidate(NoCand, FALSE, FALSE)).decision
            = "retain-accepted"
      BY <1>2, NoCandidateRetains DEF Candidate
    <3> QED
      BY <2>3, <3>1 DEF Apply, Noted, Candidate
  <2> QED
    BY <1>2, <1>3, <2>2, <2>3 DEF ObserveRemote, Idle, Goto, d
<1>4. ASSUME NoVerdict, pc \in ReloadPc PROVE Idle /\ suppressed' = suppressed
  <2>1. cand.base \in Commit
    BY <1>1, <1>2, <1>4, ReloadFacts, ConstantFacts DEF ReloadPc
  <2>2. Policy!EvaluateReload(Policy!AcceptedRef(cand.base),
                              Candidate(cand, FALSE, FALSE)).decision
          = "retain-accepted"
    BY <2>1, NoCandidateRetains DEF Candidate
  <2> QED
    BY <1>4, <2>2 DEF NoVerdict, Apply, Noted, Candidate
<1>5. CASE FetchTip \/ ResolveTip \/ ProbeTip
  BY <1>2, <1>4, <1>5 DEF FetchTip, ResolveTip, ProbeTip, Goto, Idle, ReloadPc, CandState
<1>6. CASE ProbeAncestry \/ ValidateCandidate \/ WriteRecord \/ SyncRecord
  BY <1>2, <1>6 DEF ProbeAncestry, ValidateCandidate, WriteRecord, SyncRecord,
     PersistFailed, Goto, CandState
<1>7. CASE ApplyCandidate
  BY <1>2, <1>7, ApplyFacts DEF ApplyCandidate, Idle, Goto, files
<1> QED
  BY <1>3, <1>5, <1>6, <1>7 DEF ReloadStep

LEMMA RecordFurther ==
    ASSUME IInv, RecordPhase, [Next]_vars
    PROVE  RecordPhase'
<1>1. CASE UNCHANGED vars
  BY <1>1 DEF vars, files, process, RecordPhase, AcceptedRecorded
<1>2. CASE Environment
  BY <1>2 DEF Environment, MoveRemote, DamageObject, AutoGc, WriteBack, Crash,
     PowerLoss, Gone, files, process, RecordPhase, AcceptedRecorded, Ready, ReloadPc
<1>3. CASE StartupStep
  <2>1. pc' \notin Ready
    BY <1>3 DEF StartupStep, Startup, ProbeBootstrap, FetchBootstrap,
       ReprobeBootstrap, ProbeAccepted, DecideStartup, BuildInitial,
       WriteBootstrap, SyncBootstrap, Goto, Gone, process, Ready, ReloadPc
  <2> QED
    BY <2>1 DEF RecordPhase, Ready, ReloadPc
<1>4. CASE PublishStep
  <2>1. CASE AcceptCommit
    BY <2>1 DEF AcceptCommit, RecordPhase, Ready, ReloadPc
  <2>2. CASE InstallSnapshot
    <3>1. /\ pc \in PublishPc /\ pc' = "idle" /\ disk' = disk
          /\ accepted' = accepted /\ accepted = Publishing
      BY <2>2 DEF InstallSnapshot, IInv, PublishPhase, PublishPc, files
    <3>2. disk = Record(accepted)
      BY <3>1, PublishFacts, StoredIsRecord, ConstantFacts DEF IInv, TypeOK
    <3> QED
      BY <3>1, <3>2 DEF RecordPhase, AcceptedRecorded
  <2> QED
    BY <1>4, <2>1, <2>2 DEF PublishStep
<1>5. CASE ReloadStep
  <2>1. /\ accepted' = accepted /\ accepted \in Commit
        /\ pc' = "apply" => cand'.tip = cand.tip
        /\ suppressed \subseteq suppressed'
        /\ pc = "apply" /\ pc' = "idle" => cand.tip \in suppressed'
        /\ pc = "apply" => pc' \in {"idle", "accept"} /\ disk' = disk
    BY <1>5, ReloadOutcome
  <2>2. ASSUME AcceptedRecorded, disk' = disk PROVE AcceptedRecorded'
    BY <2>1, <2>2 DEF AcceptedRecorded
  <2>3. CASE pc = "sync"
    <3>1. /\ disk = Record(cand.tip) /\ Forward(accepted, cand.tip)
          /\ disk' = disk /\ pc' = "apply"
      BY <1>5, <2>3 DEF IInv, ReadyPhase, CandidatePhase, Ready, ReloadPc,
         ReloadStep, ObserveRemote, FetchTip, ResolveTip, ProbeTip, ProbeAncestry,
         ValidateCandidate, WriteRecord, SyncRecord, PersistFailed, ApplyCandidate,
         Goto
    <3> QED
      BY <2>1, <3>1 DEF RecordPhase
  <2>4. CASE pc = "apply"
    <3>1. ASSUME disk = Record(cand.tip), Forward(accepted, cand.tip), pc' = "idle"
          PROVE  AcceptedRecorded'
      <4>1. PICK c \in Commit : c = cand.tip
        BY <2>4 DEF IInv, CandidatePhase, ReloadPc
      <4> QED
        BY <2>1, <2>4, <3>1, <4>1 DEF AcceptedRecorded
    <3> QED
      BY <2>1, <2>2, <2>4, <3>1 DEF RecordPhase, Ready, ReloadPc
  <2>5. CASE pc \notin {"sync", "apply"}
    <3>1. pc \in Ready
      BY <1>5, <2>5 DEF Ready, ReloadPc, ReloadStep, ObserveRemote, FetchTip,
         ResolveTip, ProbeTip, ProbeAncestry, ValidateCandidate, WriteRecord,
         SyncRecord, ApplyCandidate
    <3>2. AcceptedRecorded
      BY <2>5, <3>1 DEF RecordPhase
    <3>3. disk' = disk \/ pc' = "sync"
      BY <1>5, <2>5 DEF ReloadStep, ObserveRemote, FetchTip, ResolveTip, ProbeTip,
         ProbeAncestry, ValidateCandidate, WriteRecord, SyncRecord, ApplyCandidate,
         Goto, files
    <3> QED
      BY <2>2, <3>2, <3>3 DEF RecordPhase
  <2> QED
    BY <2>3, <2>4, <2>5
<1> QED
  BY <1>1, <1>2, <1>3, <1>4, <1>5 DEF Next, WatcherStep

LEMMA FurtherInv == Spec => [](IInv /\ Further)
<1>1. Init => IInv /\ Further
  BY InitInv, InitFurther
<1>2. IInv /\ Further /\ [Next]_vars => (IInv /\ Further)'
  BY NextInv, FilesFurther, RecordFurther DEF Further
<1> QED
  BY <1>1, <1>2, PTL DEF Spec

\* Between polls the record on disk is the accepted one, or one whose
\* persistence failed half way: persist_record reports the failure, and
\* apply() then suppresses its commit, so that this process never retries it.
THEOREM UnpublishedSuppressed == Spec => []UnpublishedRecordIsSuppressed
<1>1. Further => UnpublishedRecordIsSuppressed
  BY DEF Further, RecordPhase, AcceptedRecorded, UnpublishedRecordIsSuppressed,
     Ready
<1> QED
  BY <1>1, FurtherInv, PTL

\* The object that load_startup_record and the bootstrap need at the next
\* restart is in the mirror, also after every power loss, unless Git collected
\* it after the watched ref left its history.
THEOREM ObjectKept == Spec => []RecordedObjectKept
<1>1. Further => RecordedObjectKept
  BY DEF Further, ObjectsKept, Kept, RecordedObjectKept
<1> QED
  BY <1>1, FurtherInv, PTL

\* A malformed or foreign accepted-ref.json is never replaced, read past or
\* served around by startup(), whatever fails: evaluate_startup refuses it.
THEOREM BadRecordForbids == Spec => BadRecordForbidsService
<1>1. ASSUME IInv, Further, [Next]_vars, BadRecord
      PROVE  disk' = disk /\ active' = None
  <2>1. pc \notin Ready \cup PublishPc /\ pc # "panic"
    <3>1. ASSUME NEW c \in Commit PROVE StoredCommit(Record(c)) # None
      BY RecordFacts, ConstantFacts
    <3>2. pc \in PublishPc => StoredCommit(disk) # None
      BY <1>1, PublishFacts, ConstantFacts
    <3>3. pc \in Ready => accepted \in Commit
      BY <1>1, ReloadFacts
    <3>4. pc \in {"sync", "apply"} => cand.tip \in Commit
      BY <1>1 DEF IInv, CandidatePhase, ReloadPc
    <3>5. pc = "sync" => disk = Record(cand.tip)
      BY <1>1 DEF IInv, CandidatePhase
    <3> QED
      BY <1>1, <3>1, <3>2, <3>3, <3>4, <3>5
         DEF BadRecord, Further, RecordPhase, AcceptedRecorded, IInv, NoPanic
  <2>2. pc \in StartupPc \cup {"down"} /\ active = None
    BY <1>1, <2>1 DEF IInv, TypeOK, Ready, StartupPhase
  <2>3. active' = None
    BY <1>1, <2>1, <2>2
       DEF Next, WatcherStep, StartupStep, ReloadStep, PublishStep, Environment,
       Startup, ProbeBootstrap, FetchBootstrap, ReprobeBootstrap, ProbeAccepted,
       DecideStartup, BuildInitial, WriteBootstrap, SyncBootstrap, ObserveRemote,
       FetchTip, ResolveTip, ProbeTip, ProbeAncestry, ValidateCandidate,
       WriteRecord, SyncRecord, ApplyCandidate, AcceptCommit, InstallSnapshot,
       MoveRemote, DamageObject, AutoGc, WriteBack, Crash, PowerLoss, Gone, Goto,
       process, vars, Ready, ReloadPc, PublishPc
  <2>4. pc # "write" /\ (pc = "bootstrap-write" => disk = Absent)
    <3>1. pc = "bootstrap-write" => disk \in Files /\ disk.kind = "absent"
      BY <1>1 DEF IInv, TypeOK, StartupRecord, StartupPc
    <3> QED
      BY <2>1, <3>1, AbsentFile DEF Ready, ReloadPc
  <2>5. durable = disk
    BY <1>1 DEF Further, BadStays
  <2> QED
    BY <1>1, <2>3, <2>4, <2>5, FileSteps DEF BadRecord
<1>2. [][Next]_vars /\ [](IInv /\ Further) => BadRecordForbidsService
  <2>1. IInv /\ Further /\ [Next]_vars
          => [disk # Absent /\ StoredCommit(disk) = None
                => disk' = disk /\ active' = None]_vars
    BY <1>1 DEF BadRecord
  <2> QED
    BY <2>1, PTL DEF BadRecordForbidsService
<1> QED
  BY <1>2, FurtherInv, PTL DEF Spec

==============================================================================
