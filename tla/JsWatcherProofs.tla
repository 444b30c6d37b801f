-------------------------- MODULE JsWatcherProofs --------------------------
(***************************************************************************)
(* Theorems about the JavaScript watcher, for every history, any number of  *)
(* polls in flight and every budget.  Overlapping polls may publish out of  *)
(* order; what the inductive invariant keeps is that every base a poll has  *)
(* read was accepted after the first commit served, and that the record is  *)
(* written in the same step of the event loop as what is served.            *)
(***************************************************************************)
EXTENDS JsWatcher, TLAPS

\* nothing is served, and no poll runs, before startup has published
StartupPhase ==
    pc \in StartupPc \cup {"down"} =>
        /\ active = None /\ accepted = None
        /\ poll = [p \in Poll |-> NoPoll]

\* startup() works from the record that is on disk
StartupRecord ==
    /\ pc \in StartupPc => start.file = disk
    /\ pc \in {"bootstrap-probe", "bootstrap-fetch", "bootstrap-reprobe"} =>
          start.file.kind = "absent"
    /\ pc = "accepted-probe" => start.file.kind = "present"
    /\ pc = "build" =>
          /\ start.commit \in Commit
          /\ \/ start.file.kind = "absent" /\ start.commit = Bootstrap
             \/ start.file = Record(start.commit)

\* what a poll has read and answered so far
PollPhase(p) ==
    /\ poll[p].pc # "none" => poll[p].base \in Commit
    /\ poll[p].pc \notin {"none", "observe"} => poll[p].tip \in Object
    /\ poll[p].pc \in {"ancestry", "validate"} => poll[p].object = "valid"
    /\ poll[p].pc = "validate" =>
          /\ poll[p].ancestry = "descendant"
          /\ <<poll[p].base, poll[p].tip>> \in Older

Serving == pc \in {"running", "draining"} => accepted \in Commit

\* no commit older than, or beside, the first one that was served
NotBefore(c) == c \in {None, first} \/ Follows(first, c)

\* What a restart or a power loss would find.  Before anything has been served
\* it is the initial record, or that of a bootstrap killed before it could
\* publish.
FilesKept(now, later) ==
    IF first = None
      THEN now # later => later = Absent /\ now = Record(Bootstrap)
      ELSE /\ NotBefore(StoredCommit(now)) /\ NotBefore(StoredCommit(later))
           /\ Absent \in {now, later} => first = Bootstrap

NothingYet ==
    first = None =>
        /\ active = None /\ accepted = None /\ last = None
        /\ pc \notin {"running", "draining"}
        /\ \A p \in Poll : poll[p] = NoPoll

AfterFirst ==
    first # None =>
        /\ NotBefore(accepted) /\ NotBefore(active) /\ NotBefore(last)
        /\ \A p \in Poll : NotBefore(poll[p].base)

IInv ==
    /\ TypeOK
    /\ StartupPhase /\ StartupRecord
    /\ \A p \in Poll : PollPhase(p)
    /\ Serving /\ FilesKept(disk, durable) /\ NothingYet /\ AfterFirst
    /\ ServedIsRecorded

----------------------------------------------------------------------------
(* What the constants and the helpers give. *)

LEMMA ConstantFacts ==
    /\ Commit \subseteq Object /\ None \notin Object /\ None \notin Commit
    /\ Bootstrap \in Commit /\ Buildable \subseteq Commit
    /\ Absent \in Files /\ Malformed \in Files /\ Malformed # Absent
BY HistoryAssumption DEF Files, Absent, Malformed

LEMMA RecordFacts ==
    ASSUME NEW c \in Commit
    PROVE  /\ Record(c) \in Files /\ Record(c) # Absent
           /\ Record(c).kind = "present"
           /\ Record(c).record = Policy!AcceptedRef(c)
           /\ Policy!AcceptedRef(c).commit = c
           /\ StoredCommit(Record(c)) = c
           /\ Policy!Bound(Policy!AcceptedRef(c))
BY HistoryAssumption, JsWatcherAssumption
   DEF Record, Files, Absent, StoredCommit, Policy!Bound, Policy!ValidRecord,
       Policy!AcceptedRef

LEMMA FileFacts ==
    ASSUME NEW f \in Files
    PROVE  /\ f.kind \in {"absent", "malformed", "present"}
           /\ f.kind = "absent" => f = Absent
           /\ f.kind = "present" =>
                 /\ f.record.commit \in Commit
                 /\ Policy!Bound(f.record) => f = Record(f.record.commit)
           /\ StoredCommit(f) \in Commit \cup {None}
           /\ f.kind # "present" => StoredCommit(f) = None
<1>1. CASE f \in {Absent, Malformed}
    BY <1>1 DEF Absent, Malformed, StoredCommit
<1>2. ASSUME NEW r \in [commit : Commit, fullRef : WellFormed, identity : WellFormed],
             f = [kind |-> "present", record |-> r]
      PROVE  /\ f.kind = "present" /\ f.record.commit \in Commit
             /\ Policy!Bound(f.record) => f = Record(f.record.commit)
             /\ StoredCommit(f) \in Commit \cup {None}
    <2>1. f.kind = "present" /\ f.record = r /\ r.commit \in Commit
        BY <1>2
    <2>2. ASSUME Policy!Bound(r) PROVE f = Record(r.commit)
        <3>1. r = [commit |-> r.commit, fullRef |-> FullRef,
                   identity |-> RepositoryIdentity]
            BY <2>2 DEF Policy!Bound
        <3> QED
            BY <1>2, <3>1 DEF Record, Policy!AcceptedRef
    <2> QED
        BY <2>1, <2>2 DEF StoredCommit
<1>3. \/ f \in {Absent, Malformed}
      \/ \E r \in [commit : Commit, fullRef : WellFormed, identity : WellFormed] :
            f = [kind |-> "present", record |-> r]
    <2>1. CASE f \in InitialRecords
        BY <2>1, JsWatcherAssumption DEF Absent, Malformed
    <2>2. ASSUME NEW c \in Commit, f = Record(c)
          PROVE  \E r \in [commit : Commit, fullRef : WellFormed,
                           identity : WellFormed] :
                     f = [kind |-> "present", record |-> r]
        <3>1. Policy!AcceptedRef(c) \in
                 [commit : Commit, fullRef : WellFormed, identity : WellFormed]
            BY JsWatcherAssumption DEF Policy!AcceptedRef
        <3> QED
            BY <2>2, <3>1 DEF Record
    <2> QED
        BY <2>1, <2>2 DEF Files
<1>4. f \in {Absent, Malformed} \/ f.kind = "present"
    BY <1>2, <1>3
<1> QED
    BY <1>1, <1>2, <1>3, <1>4 DEF Absent, Malformed

LEMMA NoStateType == NoStart \in StartState /\ NoPoll \in PollState
BY ConstantFacts
   DEF NoStart, NoPoll, StartState, PollState, Commits, Policy!ObjectState,
       Policy!Ancestry

LEMMA FetchedType ==
    ASSUME NEW m \in Mirrors, NEW o \in Object, NEW n \in Fetched(m, o)
    PROVE  n \in Mirrors
BY DEF Fetched, Mirrors, Stored

LEMMA PrunedType ==
    ASSUME NEW m \in Mirrors, NEW ref
    PROVE  Pruned(m, ref) \in Mirrors
BY DEF Pruned, Mirrors, Stored

\* A budget only grows.
Spent ==
    /\ {moves, faults, damage, crashes, outages}' \subseteq Nat
    /\ faults' = 0 => faults = 0
    /\ crashes' = 0 => crashes = 0
    /\ outages' = 0 => outages = 0

LEMMA SpentFacts == TypeOK /\ (Fault \/ Works) => Spent
BY DEF TypeOK, Fault, Works, budgets, Spent

LEMMA NoneIsNotBefore == NotBefore(None) /\ NoPoll.base = None
BY DEF NotBefore, NoPoll

LEMMA InitInv == Init => IInv
<1> SUFFICES ASSUME Init PROVE IInv
    OBVIOUS
<1>1. disk \in Files
    BY DEF Init, Files
<1>2. watchRef \in Object \cup {None} /\ mirror \in Mirrors
    BY <1>1, ConstantFacts, FileFacts DEF Init, Mirrors, Stored
<1>3. TypeOK
    BY <1>1, <1>2, ConstantFacts, NoStateType
       DEF Init, TypeOK, Commits
<1>4. StartupPhase /\ StartupRecord /\ Serving /\ NothingYet /\ AfterFirst
      /\ ServedIsRecorded /\ FilesKept(disk, durable)
    BY ConstantFacts
       DEF Init, StartupPhase, StartupRecord, StartupPc, Serving, NothingYet,
           AfterFirst, ServedIsRecorded, FilesKept
<1>5. \A p \in Poll : PollPhase(p)
    BY DEF Init, NoPoll, PollPhase
<1> QED
    BY <1>3, <1>4, <1>5 DEF IInv

----------------------------------------------------------------------------
(* How a step may end. *)

\* The process is gone, and a restart finds what FilesKept allows.
LEMMA GoneInv ==
    ASSUME IInv, Gone, Spent, UNCHANGED <<remote, git, served>>,
           disk' \in Files, durable' \in Files, FilesKept(disk, durable)'
    PROVE  IInv'
<1>1. TypeOK'
    BY NoStateType, ConstantFacts
       DEF IInv, TypeOK, Gone, Spent, git, served, Commits
<1>2. StartupPhase' /\ StartupRecord' /\ Serving' /\ ServedIsRecorded'
    BY DEF Gone, StartupPhase, StartupRecord, StartupPc, Serving, ServedIsRecorded
<1>3. \A p \in Poll : PollPhase(p)'
    BY DEF Gone, NoPoll, PollPhase
<1>4. NothingYet'
    BY DEF Gone, NothingYet, IInv, served
<1>5. AfterFirst'
    BY NoneIsNotBefore DEF Gone, AfterFirst, IInv, NotBefore, NoPoll, served
<1> QED
    BY <1>1, <1>2, <1>3, <1>4, <1>5 DEF IInv

\* A step of startup() that goes on to another one.
LEMMA StartupGoesOn ==
    ASSUME IInv, pc \in StartupPc \cup {"down"}, pc' \in StartupPc, Spent,
           UNCHANGED <<remote, files, poll, memory, served>>,
           mirror' \in Mirrors, watchRef' \in Object \cup {None},
           start' \in StartState, StartupRecord'
    PROVE  IInv'
<1>1. TypeOK'
    BY DEF IInv, TypeOK, Spent, files, memory, served
<1>2. StartupPhase' /\ Serving' /\ ServedIsRecorded'
    BY DEF IInv, StartupPhase, Serving, ServedIsRecorded, StartupPc, memory
<1>3. \A p \in Poll : PollPhase(p)'
    BY DEF IInv, PollPhase
<1>4. NothingYet' /\ AfterFirst' /\ FilesKept(disk, durable)'
    BY DEF IInv, NothingYet, AfterFirst, FilesKept, NotBefore, StartupPc, memory,
           served, files
<1> QED
    BY <1>1, <1>2, <1>3, <1>4 DEF IInv

\* A step of a poll that publishes nothing.
LEMMA PollGoesOn ==
    ASSUME IInv, Up, NEW p \in Poll, NEW locals \in PollState,
           poll' = [poll EXCEPT ![p] = locals], Spent,
           UNCHANGED <<remote, durable, pc, start, accepted, active, served>>,
           mirror' \in Mirrors, watchRef' \in Object \cup {None},
           suppressed' \subseteq Object,
           disk' \in Files, FilesKept(disk, durable)', disk' = disk \/ faults' # 0,
           PollPhase(p)', first # None => NotBefore(locals.base)
    PROVE  IInv'
<1>1. poll \in [Poll -> PollState]
    BY DEF IInv, TypeOK
<1>2. TypeOK'
    BY <1>1 DEF IInv, TypeOK, Spent, served
<1>3. StartupPhase' /\ StartupRecord' /\ Serving'
    BY DEF IInv, StartupPhase, StartupRecord, Serving, StartupPc, Up
<1>4. \A q \in Poll : PollPhase(q)'
    <2>1. ASSUME NEW q \in Poll \ {p} PROVE PollPhase(q)'
        <3>1. poll'[q] = poll[q]
            BY <1>1
        <3> QED
            BY <3>1 DEF IInv, PollPhase
    <2> QED
        BY <2>1
<1>5. first # None
    BY DEF IInv, NothingYet, Up
<1>6. ServedIsRecorded'
    BY DEF IInv, ServedIsRecorded, Spent
<1>7. NothingYet' /\ AfterFirst'
    BY <1>1, <1>5 DEF IInv, NothingYet, AfterFirst, NotBefore, served
<1> QED
    BY <1>2, <1>3, <1>4, <1>6, <1>7 DEF IInv

\* What a poll that has passed every gate would publish.
LEMMA TipFacts ==
    ASSUME IInv, NEW p \in Poll, poll[p].pc = "validate",
           Validates(poll[p].base, poll[p].tip)
    PROVE  /\ first # None /\ poll[p].base \in Commit /\ poll[p].tip \in Commit
           /\ poll[p].tip # poll[p].base
           /\ NotBefore(poll[p].tip)
           /\ Record(poll[p].tip) \in Files
           /\ FilesKept(Record(poll[p].tip), durable)
           /\ FilesKept(Record(poll[p].tip), Record(poll[p].tip))
<1> DEFINE base == poll[p].base
           tip == poll[p].tip
<1>1. poll[p] # NoPoll
    BY DEF NoPoll
<1>2. first # None /\ NotBefore(base)
    BY <1>1 DEF IInv, NothingYet, AfterFirst
<1>3. base \in Commit /\ <<base, tip>> \in Older /\ tip \in Buildable
    BY DEF IInv, PollPhase, Validates
<1>4. tip \in Commit /\ tip # base
    BY <1>3, HistoryAssumption
<1>5. NotBefore(tip)
    <2>1. CASE base = first
        BY <1>3, <2>1 DEF NotBefore, Follows
    <2>2. CASE Follows(first, base)
        <3>1. <<first, base>> \in Older /\ first \in Commit
            BY <2>2, HistoryAssumption DEF Follows
        <3>2. <<first, tip>> \in Older
            BY <1>3, <1>4, <3>1, HistoryAssumption
        <3> QED
            BY <1>3, <3>2 DEF NotBefore, Follows
    <2> QED
        BY <1>2, <1>3, <2>1, <2>2, ConstantFacts DEF NotBefore
<1>6. FilesKept(disk, durable)
    BY DEF IInv
<1>7. /\ Record(tip) \in Files /\ Record(tip) # Absent
      /\ StoredCommit(Record(tip)) = tip
    BY <1>4, RecordFacts
<1> QED
    BY <1>2, <1>3, <1>4, <1>5, <1>6, <1>7 DEF FilesKept

\* What a bootstrap that has passed every gate would record.
LEMMA BootstrapFacts ==
    ASSUME IInv, pc = "build", start.file.kind = "absent"
    PROVE  /\ start.commit = Bootstrap
           /\ Record(Bootstrap) \in Files
           /\ FilesKept(Record(Bootstrap), durable)
           /\ FilesKept(Record(Bootstrap), Record(Bootstrap))
           /\ first # None => first = Bootstrap
<1>1. start.file = disk /\ disk \in Files
    BY DEF IInv, TypeOK, StartupRecord, StartupPc
<1>2. disk = Absent
    BY <1>1, FileFacts
<1>3. start.commit = Bootstrap
    BY ConstantFacts, RecordFacts DEF IInv, StartupRecord
<1>4. /\ Record(Bootstrap) \in Files /\ Record(Bootstrap) # Absent
      /\ StoredCommit(Record(Bootstrap)) = Bootstrap
    BY ConstantFacts, RecordFacts
<1>5. CASE first = None
    <2>1. durable = Absent
        BY <1>2, <1>4, <1>5 DEF IInv, FilesKept
    <2> QED
        BY <1>3, <1>4, <1>5, <2>1 DEF FilesKept
<1>6. CASE first # None
    <2>1. first = Bootstrap /\ NotBefore(StoredCommit(durable))
        BY <1>2, <1>6 DEF IInv, FilesKept
    <2> QED
        BY <1>3, <1>4, <1>6, <2>1 DEF FilesKept, NotBefore
<1> QED
    BY <1>5, <1>6

----------------------------------------------------------------------------
(* startup() *)

LEMMA StartupInv ==
    ASSUME IInv, Startup
    PROVE  IInv'
<1>1. pc = "down" /\ UNCHANGED <<remote, files, git, served>> /\ TypeOK
    BY DEF Startup, IInv
<1>2. Spent
    BY <1>1, SpentFacts DEF Startup
<1>3. CASE UNCHANGED process
    <2>1. TypeOK' /\ ServedIsRecorded'
        BY <1>1, <1>2, <1>3
           DEF TypeOK, IInv, Spent, ServedIsRecorded, process, memory, files, git, served
    <2> QED
        BY <1>1, <1>3, <2>1
           DEF IInv, StartupPhase, StartupRecord, PollPhase, Serving, FilesKept,
               NothingYet, AfterFirst, NotBefore, process, memory, files, git, served
<1>4. CASE /\ start' = [NoStart EXCEPT !.file = disk]
           /\ StartupGoto(IF disk.kind = "absent" THEN "bootstrap-probe"
                          ELSE IF disk.kind = "present" THEN "accepted-probe"
                          ELSE "decide")
    <2>1. start' \in StartState /\ start'.file = disk
        BY <1>1, <1>4, NoStateType DEF TypeOK, StartState, NoStart
    <2>2. StartupRecord' /\ pc' \in StartupPc
        BY <1>1, <1>4, <2>1 DEF StartupRecord, StartupGoto, StartupPc, files
    <2>3. mirror' \in Mirrors /\ watchRef' \in Object \cup {None}
        BY <1>1 DEF TypeOK, git
    <2> QED
        BY <1>1, <1>2, <1>4, <2>1, <2>2, <2>3, StartupGoesOn DEF StartupGoto
<1> QED
    BY <1>3, <1>4 DEF Startup

\* A step of startup() that gives up.
LEMMA StartupGivesUp ==
    ASSUME IInv, Gone, Fault \/ Works, UNCHANGED <<remote, files, git, served>>
    PROVE  IInv'
<1>1. Spent
    BY SpentFacts DEF IInv
<1>2. disk' \in Files /\ durable' \in Files /\ FilesKept(disk, durable)'
    BY DEF IInv, TypeOK, FilesKept, NotBefore, files, served
<1> QED
    BY <1>1, <1>2, GoneInv

\* A probe of startup() that goes on, maybe noting its answer.
LEMMA ProbedGoesOn ==
    ASSUME IInv, pc \in {"bootstrap-probe", "bootstrap-reprobe", "accepted-probe"},
           NEW next \in {"bootstrap-fetch", "decide"}, StartupGoto(next),
           pc = "accepted-probe" => next = "decide",
           Fault \/ Works, UNCHANGED <<remote, files, git, served>>,
           start' \in StartState, start'.file = start.file
    PROVE  IInv'
<1>1. TypeOK
    BY DEF IInv
<1>2. StartupRecord' /\ pc' \in StartupPc
    BY DEF IInv, StartupRecord, StartupGoto, StartupPc, files
<1>3. mirror' \in Mirrors /\ watchRef' \in Object \cup {None}
    BY <1>1 DEF TypeOK, git
<1> QED
    BY <1>1, <1>2, <1>3, SpentFacts, StartupGoesOn DEF StartupGoto, StartupPc

LEMMA ProbeInv ==
    ASSUME IInv, ProbeBootstrap \/ ReprobeBootstrap \/ ProbeAccepted
    PROVE  IInv'
<1>1. UNCHANGED <<remote, files, git, served>> /\ start \in StartState
    BY DEF ProbeBootstrap, ReprobeBootstrap, ProbeAccepted, IInv, TypeOK
<1>2. PICK answer \in ProbeAnswer :
         \/ Gone
         \/ /\ pc = "bootstrap-probe" /\ StartupGoto("bootstrap-fetch") /\ UNCHANGED start
         \/ /\ pc \in {"bootstrap-probe", "bootstrap-reprobe"} /\ StartupGoto("decide")
            /\ answer # "error" /\ start' = [start EXCEPT !.bootstrapObject = answer]
         \/ /\ pc = "accepted-probe" /\ StartupGoto("decide")
            /\ answer # "error" /\ start' = [start EXCEPT !.localObject = answer]
    BY DEF ProbeBootstrap, ReprobeBootstrap, ProbeAccepted
<1>3. Fault \/ Works
    BY DEF ProbeBootstrap, ReprobeBootstrap, ProbeAccepted, Probed
<1>4. CASE Gone
    BY <1>1, <1>3, <1>4, StartupGivesUp
<1>5. CASE ~Gone
    <2>1. start' \in StartState /\ start'.file = start.file
        BY <1>1, <1>2, <1>5 DEF StartState, ProbeAnswer, Policy!ObjectState
    <2>2. PICK next \in {"bootstrap-fetch", "decide"} :
             StartupGoto(next) /\ (pc = "accepted-probe" => next = "decide")
        BY <1>2, <1>5
    <2>3. pc \in {"bootstrap-probe", "bootstrap-reprobe", "accepted-probe"}
        BY <1>2, <1>5
    <2> QED
        BY <1>1, <1>3, <2>1, <2>2, <2>3, ProbedGoesOn
<1> QED
    BY <1>4, <1>5

LEMMA FetchFacts ==
    ASSUME TypeOK, FetchArrives \/ FetchFails
    PROVE  /\ mirror' \in Mirrors /\ watchRef' \in Object \cup {None}
           /\ Fault \/ Works
BY FetchedType DEF FetchArrives, FetchFails, TypeOK

LEMMA FetchBootstrapInv ==
    ASSUME IInv, FetchBootstrap
    PROVE  IInv'
<1>1. /\ pc = "bootstrap-fetch" /\ StartupGoto("bootstrap-reprobe")
      /\ UNCHANGED <<remote, files, start, served>> /\ TypeOK
    BY DEF FetchBootstrap, IInv
<1>2. /\ mirror' \in Mirrors /\ watchRef' \in Object \cup {None}
      /\ Fault \/ Works
    BY <1>1, FetchFacts DEF FetchBootstrap
<1>3. StartupRecord' /\ start' \in StartState
    BY <1>1 DEF IInv, StartupRecord, StartupGoto, StartupPc, files, TypeOK
<1> QED
    BY <1>1, <1>2, <1>3, SpentFacts, StartupGoesOn DEF StartupGoto, StartupPc

\* What the policy lets startup() serve.
LEMMA StartupDecision ==
    ASSUME start \in StartState,
           NEW outcome, outcome = Policy!JsEvaluateStartup(StartupInput),
           outcome.decision \in {"bootstrap", "start-accepted"}
    PROVE  /\ outcome.active \in Commit
           /\ \/ start.file.kind = "absent" /\ outcome.active = Bootstrap
              \/ start.file = Record(outcome.active)
<1>1. start.file \in Files
    BY DEF StartState
<1>2. CASE start.file.kind = "absent"
    BY <1>2, ConstantFacts
       DEF StartupInput, Policy!JsEvaluateStartup, Policy!Outcome, Policy!FailStartup
<1>3. CASE start.file.kind = "malformed"
    BY <1>3
       DEF StartupInput, Policy!JsEvaluateStartup, Policy!Outcome, Policy!FailStartup
<1>4. CASE start.file.kind = "present"
    <2>1. /\ Policy!Bound(start.file.record)
          /\ outcome.active = start.file.record.commit
        BY <1>4 DEF StartupInput, Policy!JsEvaluateStartup, Policy!Bound,
                    Policy!Outcome, Policy!FailStartup
    <2> QED
        BY <1>1, <1>4, <2>1, FileFacts
<1> QED
    BY <1>1, <1>2, <1>3, <1>4, FileFacts

LEMMA DecideStartupInv ==
    ASSUME IInv, DecideStartup
    PROVE  IInv'
<1> DEFINE outcome == Policy!JsEvaluateStartup(StartupInput)
<1>1. pc = "decide" /\ Works /\ UNCHANGED <<remote, files, git, served>>
    BY DEF DecideStartup
<1>2. CASE Gone
    BY <1>1, <1>2, StartupGivesUp
<1>3. CASE ~Gone
    <2>1. /\ outcome.decision \in {"bootstrap", "start-accepted"}
          /\ start' = [start EXCEPT !.commit = outcome.active]
          /\ StartupGoto("build")
        BY <1>3 DEF DecideStartup
    <2>2. start \in StartState /\ TypeOK
        BY DEF IInv, TypeOK
    <2> HIDE DEF outcome
    <2>3. /\ outcome.active \in Commit
          /\ \/ start.file.kind = "absent" /\ outcome.active = Bootstrap
             \/ start.file = Record(outcome.active)
        BY <2>1, <2>2, StartupDecision DEF outcome
    <2>4. /\ start' \in StartState /\ start'.file = start.file
          /\ start'.commit = outcome.active
        BY <2>1, <2>2, <2>3 DEF StartState, Commits
    <2>5. StartupRecord'
        BY <1>1, <2>1, <2>3, <2>4
           DEF IInv, StartupRecord, StartupGoto, StartupPc, files, Record
    <2>6. mirror' \in Mirrors /\ watchRef' \in Object \cup {None}
        BY <1>1, <2>2 DEF TypeOK, git
    <2> QED
        BY <1>1, <2>1, <2>2, <2>4, <2>5, <2>6, SpentFacts, StartupGoesOn
           DEF StartupGoto, StartupPc
<1> QED
    BY <1>2, <1>3

\* The first publication of a process: what the record says, or a bootstrap
\* that is recorded in the same step.
LEMMA StartServingInv ==
    ASSUME IInv, StartServing
    PROVE  IInv'
<1>0. PICK commit \in Commit : commit = start.commit
    BY DEF StartServing, IInv, StartupRecord
<1>1. /\ pc = "build" /\ pc' = "running" /\ start' = NoStart
      /\ UNCHANGED <<remote, git, poll, suppressed>>
      /\ commit \in Buildable
      /\ accepted' = commit /\ active' = commit /\ last' = commit
      /\ first' = IF first = None THEN commit ELSE first
    BY <1>0 DEF StartServing, Publish, Builds
<1>2. /\ TypeOK /\ start.file = disk /\ commit \in Commit /\ commit # None
      /\ active = None /\ accepted = None /\ poll = [p \in Poll |-> NoPoll]
    BY <1>1, ConstantFacts DEF IInv, StartupRecord, StartupPhase, StartupPc
<1>3. /\ Spent
      /\ disk' = Record(commit) /\ disk' \in Files /\ durable' \in Files
      /\ FilesKept(disk, durable)'
      /\ first # None => NotBefore(commit)
    <2>1. CASE start.file.kind = "absent"
        <3>1. disk' = Record(commit) /\ durable' = Record(commit) /\ Works
            BY <1>0, <2>1 DEF StartServing, Persisted
        <3>2. /\ commit = Bootstrap /\ Record(Bootstrap) \in Files
              /\ first # None => first = Bootstrap
            BY <1>0, <1>1, <2>1, BootstrapFacts
        <3>3. Record(commit) # Absent /\ StoredCommit(Record(commit)) = commit
            BY <1>2, RecordFacts
        <3>4. first' = commit
            BY <1>1, <3>2
        <3> QED
            BY <1>2, <3>1, <3>2, <3>3, <3>4, SpentFacts DEF FilesKept, NotBefore
    <2>2. CASE start.file.kind # "absent"
        <3>1. UNCHANGED files /\ Works
            BY <2>2 DEF StartServing
        <3>2. disk = Record(commit)
            BY <1>0, <1>1, <1>2, <2>2 DEF IInv, StartupRecord
        <3>3. StoredCommit(disk) = commit /\ disk # Absent
            BY <1>2, <3>2, RecordFacts
        <3>4. CASE first # None
            <4>1. NotBefore(commit) /\ first' = first
                BY <1>1, <3>3, <3>4 DEF IInv, FilesKept
            <4>2. FilesKept(disk, durable)'
                BY <3>1, <4>1 DEF IInv, FilesKept, NotBefore, files
            <4> QED
                BY <1>2, <3>1, <3>2, <4>1, <4>2, SpentFacts DEF files, TypeOK
        <3>5. CASE first = None
            <4>1. first' = commit /\ first' # None
                BY <1>1, <1>2, <3>5
            <4>2. durable = disk \/ (durable = Absent /\ commit = Bootstrap)
                <5>1. durable # disk => durable = Absent /\ disk = Record(Bootstrap)
                    BY <3>5 DEF IInv, FilesKept
                <5>2. disk = Record(Bootstrap) => commit = Bootstrap
                    BY <3>3, RecordFacts, ConstantFacts
                <5> QED
                    BY <5>1, <5>2
            <4>3. StoredCommit(Absent) = None
                BY FileFacts, ConstantFacts DEF Absent
            <4>4. FilesKept(disk, durable)'
                BY <3>1, <3>3, <4>1, <4>2, <4>3 DEF FilesKept, NotBefore, files
            <4> QED
                BY <1>2, <3>1, <3>2, <3>5, <4>4, SpentFacts DEF files, TypeOK
        <3> QED
            BY <3>4, <3>5
    <2> QED
        BY <2>1, <2>2
<1>4. first' \in Commit /\ NotBefore(commit)'
    <2>1. CASE first = None
        BY <1>1, <1>2, <2>1 DEF NotBefore
    <2>2. CASE first # None
        BY <1>1, <1>2, <1>3, <2>2 DEF NotBefore, TypeOK, Commits
    <2> QED
        BY <2>1, <2>2
<1>5. TypeOK'
    BY <1>1, <1>2, <1>3, <1>4, NoStateType
       DEF TypeOK, Spent, git, Commits
<1>6. StartupPhase' /\ StartupRecord' /\ Serving' /\ ServedIsRecorded' /\ NothingYet'
    BY <1>1, <1>2, <1>3, <1>4, ConstantFacts
       DEF StartupPhase, StartupRecord, StartupPc, Serving, ServedIsRecorded, NothingYet
<1>7. \A p \in Poll : PollPhase(p)' /\ NotBefore(poll[p].base)'
    BY <1>1, <1>2, NoneIsNotBefore DEF PollPhase, NoPoll, NotBefore
<1>8. AfterFirst'
    BY <1>1, <1>4, <1>7 DEF AfterFirst, NotBefore
<1> QED
    BY <1>3, <1>5, <1>6, <1>7, <1>8 DEF IInv

LEMMA StartFailsInv ==
    ASSUME IInv, StartFails
    PROVE  IInv'
<1>1. Gone /\ UNCHANGED <<remote, git, served>> /\ pc = "build"
    BY DEF StartFails
<1>2. CASE UNCHANGED files
    <2>1. Fault \/ Works
        BY DEF StartFails, PersistFails
    <2> QED
        BY <1>1, <1>2, <2>1, StartupGivesUp
<1>3. CASE start.file.kind = "absent" /\ PersistFails(start.commit)
    <2>1. Spent /\ durable' = durable /\ disk' \in {disk, Record(Bootstrap)}
        BY <1>1, <1>3, SpentFacts, BootstrapFacts DEF PersistFails, IInv
    <2>2. disk' \in Files /\ durable' \in Files /\ FilesKept(disk, durable)'
        BY <1>1, <1>3, <2>1, BootstrapFacts
           DEF IInv, TypeOK, FilesKept, NotBefore, served
    <2> QED
        BY <1>1, <2>1, <2>2, GoneInv
<1> QED
    BY <1>2, <1>3 DEF StartFails

----------------------------------------------------------------------------
(* pollOnce() and reload() *)

\* What apply() is handed without a new record is never published.
LEMMA NothingToPublish ==
    ASSUME NEW base \in Commit, NEW c, c.persistence # "success"
    PROVE  Policy!JsEvaluateReload(Policy!AcceptedRef(base), c).decision
             # "accept-forward"
BY DEF Policy!JsEvaluateReload, Policy!Retain, Policy!Outcome, Policy!Inconsistent

\* What has passed every gate is.
LEMMA ForwardIsPublished ==
    ASSUME NEW base \in Commit, NEW c, c.observed = TRUE, c.suppressed = FALSE,
           c.identity = RepositoryIdentity, c.fullRef = FullRef,
           c.commit \in Commit \ {base}, c.object = "valid",
           c.ancestry = "descendant", c.semantic = "valid",
           c.persistence = "success",
           NEW outcome, outcome = Policy!JsEvaluateReload(Policy!AcceptedRef(base), c)
    PROVE  outcome.decision = "accept-forward" /\ outcome.active = c.commit
<1>1. c.commit \in WellFormed
    BY HistoryAssumption, JsWatcherAssumption
<1>2. Policy!Bound(Policy!AcceptedRef(base)) /\ Policy!AcceptedRef(base).commit = base
    BY RecordFacts
<1> QED
    BY <1>1, <1>2 DEF Policy!JsEvaluateReload, Policy!Outcome

\* A poll that ends without publishing.
LEMMA PollEnds ==
    ASSUME IInv, Up, NEW p \in Poll, NEW base \in Commit, NEW c,
           Apply(p, base, c), c.persistence # "success",
           c.observed = FALSE \/ c.suppressed = TRUE \/ c.commit \in Object,
           Fault \/ Works, UNCHANGED <<remote, durable>>,
           disk' \in Files, FilesKept(disk', durable), disk' = disk \/ faults' # 0,
           mirror' \in Mirrors, watchRef' \in Object \cup {None}
    PROVE  IInv'
<1>1. /\ UNCHANGED <<accepted, active, served, pc, start>>
      /\ poll' = [poll EXCEPT ![p] = NoPoll]
      /\ suppressed' \in {suppressed, Noted(c)}
    BY NothingToPublish DEF Apply
<1>2. TypeOK /\ Spent
    BY SpentFacts DEF IInv
<1>3. suppressed' \subseteq Object
    BY <1>1, <1>2 DEF Noted, TypeOK
<1>4. PollPhase(p)'
    BY <1>1, <1>2 DEF PollPhase, NoPoll, TypeOK
<1>5. FilesKept(disk, durable)'
    BY <1>1 DEF FilesKept, NotBefore, served
<1> QED
    BY <1>1, <1>2, <1>3, <1>4, <1>5, NoStateType, NoneIsNotBefore, PollGoesOn

\* Giving up without a verdict.
LEMMA NoVerdictInv ==
    ASSUME IInv, Up, NEW p \in Poll, poll[p].pc # "none", NoVerdict(p),
           Fault \/ Works, UNCHANGED <<remote, files>>,
           mirror' \in Mirrors, watchRef' \in Object \cup {None}
    PROVE  IInv'
<1>1. poll[p].base \in Commit /\ disk \in Files /\ FilesKept(disk, durable)
    BY DEF IInv, PollPhase, TypeOK
<1> DEFINE c == Candidate(poll[p], FALSE, "not-evaluated", "not-attempted", FALSE)
<1>2. Apply(p, poll[p].base, c)
    BY DEF NoVerdict
<1>3. c.observed = FALSE /\ c.persistence # "success"
    BY DEF Candidate
<1>4. UNCHANGED <<remote, durable>> /\ disk' = disk
    BY DEF files
<1> HIDE DEF c
<1>5. disk' \in Files /\ FilesKept(disk', durable)
    BY <1>1, <1>4
<1> QED
    BY <1>1, <1>2, <1>3, <1>4, <1>5, PollEnds

\* A poll that goes on to its next await, having read what `locals` adds.
LEMMA PollStays ==
    ASSUME IInv, Up, NEW p \in Poll, NEW locals \in PollState, PollGoto(p, locals),
           Fault \/ Works, UNCHANGED <<remote, files, served>>,
           mirror' \in Mirrors, watchRef' \in Object \cup {None},
           PollPhase(p)', locals.base \in {accepted, poll[p].base, None}
    PROVE  IInv'
<1>1. TypeOK /\ Spent
    BY SpentFacts DEF IInv
<1>2. first # None => NotBefore(locals.base)
    BY NoneIsNotBefore DEF IInv, AfterFirst
<1>3. disk' \in Files /\ FilesKept(disk, durable)' /\ suppressed' \subseteq Object
    BY <1>1 DEF IInv, TypeOK, FilesKept, NotBefore, files, served, PollGoto, memory
<1> QED
    BY <1>1, <1>2, <1>3, PollGoesOn DEF PollGoto, memory, files

LEMMA StartPollInv ==
    ASSUME IInv, NEW p \in Poll, StartPoll(p)
    PROVE  IInv'
<1> DEFINE locals == [NoPoll EXCEPT !.pc = "observe", !.base = accepted]
<1>1. /\ pc = "running" /\ Works /\ PollGoto(p, locals)
      /\ UNCHANGED <<remote, files, git, served>> /\ TypeOK
    BY DEF StartPoll, IInv
<1>2. accepted \in Commit
    BY <1>1 DEF IInv, Serving
<1>3. locals \in PollState /\ locals.base = accepted /\ locals.pc = "observe"
    BY <1>2, NoStateType DEF PollState, NoPoll, Commits
<1> HIDE DEF locals
<1>4. PollPhase(p)'
    BY <1>1, <1>2, <1>3 DEF PollGoto, PollPhase, TypeOK
<1>5. mirror' \in Mirrors /\ watchRef' \in Object \cup {None}
    BY <1>1 DEF TypeOK, git
<1> QED
    BY <1>1, <1>3, <1>4, <1>5, PollStays DEF Up

LEMMA ObserveRemoteInv ==
    ASSUME IInv, NEW p \in Poll, ObserveRemote(p)
    PROVE  IInv'
<1>1. /\ Up /\ poll[p].pc = "observe" /\ UNCHANGED <<remote, files, git>>
      /\ TypeOK /\ poll[p] \in PollState
    BY DEF ObserveRemote, IInv, TypeOK
<1>2. /\ mirror' \in Mirrors /\ watchRef' \in Object \cup {None}
      /\ Fault \/ Works
    BY <1>1 DEF ObserveRemote, TypeOK, git
<1>3. poll[p].base \in Commit /\ disk \in Files /\ FilesKept(disk, durable)
    BY <1>1 DEF IInv, PollPhase, TypeOK
<1>4. CASE NoVerdict(p)
    BY <1>1, <1>2, <1>4, NoVerdictInv
<1>5. CASE PollGoto(p, NoPoll) /\ UNCHANGED served
    <2>1. PollPhase(p)'
        BY <1>1, <1>5 DEF PollGoto, PollPhase, TypeOK, NoPoll
    <2> QED
        BY <1>1, <1>2, <1>5, <2>1, NoStateType, NoneIsNotBefore, PollStays
<1> DEFINE c == Candidate([NoPoll EXCEPT !.tip = remote], TRUE, "not-evaluated",
                          "not-attempted", TRUE)
<1>6. CASE Apply(p, poll[p].base, c)
    <2>1. c.suppressed = TRUE /\ c.persistence # "success"
        BY DEF Candidate
    <2>2. UNCHANGED <<remote, durable>> /\ disk' = disk
        BY <1>1 DEF files
    <2> HIDE DEF c
    <2>3. disk' \in Files /\ FilesKept(disk', durable)
        BY <1>3, <2>2
    <2> QED
        BY <1>1, <1>2, <1>3, <1>6, <2>1, <2>2, <2>3, PollEnds
<1> DEFINE locals == [poll[p] EXCEPT !.pc = "fetch", !.tip = remote]
<1>7. CASE remote \notin suppressed \cup {None, poll[p].base}
           /\ PollGoto(p, locals) /\ UNCHANGED served
    <2>1. remote \in Object
        BY <1>1, <1>7 DEF TypeOK
    <2>2. /\ locals \in PollState /\ locals.base = poll[p].base
          /\ locals.pc = "fetch" /\ locals.tip \in Object
        BY <1>1, <2>1 DEF PollState
    <2> HIDE DEF locals
    <2>3. PollPhase(p)'
        BY <1>1, <1>3, <1>7, <2>2 DEF PollGoto, PollPhase, TypeOK
    <2> QED
        BY <1>1, <1>2, <1>7, <2>2, <2>3, PollStays
<1> QED
    BY <1>4, <1>5, <1>6, <1>7 DEF ObserveRemote

LEMMA FetchTipInv ==
    ASSUME IInv, NEW p \in Poll, FetchTip(p)
    PROVE  IInv'
<1>1. /\ Up /\ poll[p].pc = "fetch" /\ UNCHANGED <<remote, files>>
      /\ TypeOK /\ poll[p] \in PollState
    BY DEF FetchTip, IInv, TypeOK
<1>2. /\ mirror' \in Mirrors /\ watchRef' \in Object \cup {None}
      /\ Fault \/ Works
    BY <1>1, FetchFacts DEF FetchTip
<1>3. CASE NoVerdict(p)
    BY <1>1, <1>2, <1>3, NoVerdictInv
<1> DEFINE locals == [poll[p] EXCEPT !.pc = "resolve"]
<1>4. CASE PollGoto(p, locals) /\ UNCHANGED served
    <2>1. /\ locals \in PollState /\ locals.base = poll[p].base
          /\ locals.pc = "resolve" /\ locals.tip = poll[p].tip
        BY <1>1 DEF PollState
    <2> HIDE DEF locals
    <2>2. PollPhase(p)'
        BY <1>1, <1>4, <2>1 DEF IInv, PollGoto, PollPhase, TypeOK
    <2> QED
        BY <1>1, <1>2, <1>4, <2>1, <2>2, PollStays
<1> QED
    BY <1>3, <1>4 DEF FetchTip

LEMMA ResolveTipInv ==
    ASSUME IInv, NEW p \in Poll, ResolveTip(p)
    PROVE  IInv'
<1>1. /\ Up /\ poll[p].pc = "resolve" /\ UNCHANGED <<remote, files, git>>
      /\ TypeOK /\ poll[p] \in PollState
    BY DEF ResolveTip, IInv, TypeOK
<1>2. /\ mirror' \in Mirrors /\ watchRef' \in Object \cup {None}
      /\ Fault \/ Works
    BY <1>1 DEF ResolveTip, TypeOK, git
<1>3. CASE NoVerdict(p)
    BY <1>1, <1>2, <1>3, NoVerdictInv
<1> DEFINE locals == [poll[p] EXCEPT !.pc = "probe"]
<1>4. CASE PollGoto(p, locals) /\ UNCHANGED served
    <2>1. /\ locals \in PollState /\ locals.base = poll[p].base
          /\ locals.pc = "probe" /\ locals.tip = poll[p].tip
        BY <1>1 DEF PollState
    <2> HIDE DEF locals
    <2>2. PollPhase(p)'
        BY <1>1, <1>4, <2>1 DEF IInv, PollGoto, PollPhase, TypeOK
    <2> QED
        BY <1>1, <1>2, <1>4, <2>1, <2>2, PollStays
<1> QED
    BY <1>3, <1>4 DEF ResolveTip

LEMMA ProbeTipInv ==
    ASSUME IInv, NEW p \in Poll, ProbeTip(p)
    PROVE  IInv'
<1>1. /\ Up /\ poll[p].pc = "probe" /\ UNCHANGED <<remote, files, git>>
      /\ TypeOK /\ poll[p] \in PollState
    BY DEF ProbeTip, IInv, TypeOK
<1>2. /\ mirror' \in Mirrors /\ watchRef' \in Object \cup {None}
      /\ Fault \/ Works
    BY <1>1 DEF ProbeTip, Probed, TypeOK, git
<1>3. /\ poll[p].base \in Commit /\ poll[p].tip \in Object
      /\ disk \in Files /\ FilesKept(disk, durable)
    BY <1>1 DEF IInv, PollPhase, TypeOK
<1>4. CASE NoVerdict(p)
    BY <1>1, <1>2, <1>4, NoVerdictInv
<1> DEFINE locals == [poll[p] EXCEPT !.pc = "ancestry", !.object = "valid"]
<1>5. CASE PollGoto(p, locals) /\ UNCHANGED served
    <2>1. /\ locals \in PollState /\ locals.base = poll[p].base
          /\ locals.pc = "ancestry" /\ locals.tip = poll[p].tip
          /\ locals.object = "valid"
        BY <1>1 DEF PollState, Policy!ObjectState
    <2> HIDE DEF locals
    <2>2. PollPhase(p)'
        BY <1>1, <1>3, <1>5, <2>1 DEF PollGoto, PollPhase, TypeOK
    <2> QED
        BY <1>1, <1>2, <1>5, <2>1, <2>2, PollStays
<1>6. ASSUME NEW answer \in ProbeAnswer,
             Apply(p, poll[p].base,
                   Candidate([poll[p] EXCEPT !.object = answer], TRUE,
                             "not-evaluated", "not-attempted", FALSE))
      PROVE  IInv'
    <2> DEFINE c == Candidate([poll[p] EXCEPT !.object = answer], TRUE,
                              "not-evaluated", "not-attempted", FALSE)
    <2>1. c.commit = poll[p].tip /\ c.persistence # "success"
        BY <1>1 DEF Candidate, PollState
    <2>2. UNCHANGED <<remote, durable>> /\ disk' = disk
        BY <1>1 DEF files
    <2>3. Apply(p, poll[p].base, c)
        BY <1>6
    <2> HIDE DEF c
    <2>4. disk' \in Files /\ FilesKept(disk', durable) /\ c.commit \in Object
        BY <1>3, <2>1, <2>2
    <2> QED
        BY <1>1, <1>2, <1>3, <2>1, <2>2, <2>3, <2>4, PollEnds
<1> QED
    BY <1>4, <1>5, <1>6 DEF ProbeTip

LEMMA AncestryFacts ==
    ASSUME NEW m, NEW a, NEW b, "descendant" \in ProbedAncestry(m, a, b)
    PROVE  <<a, b>> \in Older
BY DEF ProbedAncestry, Relation

LEMMA ProbeAncestryInv ==
    ASSUME IInv, NEW p \in Poll, ProbeAncestry(p)
    PROVE  IInv'
<1>1. /\ Up /\ poll[p].pc = "ancestry" /\ UNCHANGED <<remote, files, git>>
      /\ TypeOK /\ poll[p] \in PollState
    BY DEF ProbeAncestry, IInv, TypeOK
<1>2. /\ mirror' \in Mirrors /\ watchRef' \in Object \cup {None}
      /\ Fault \/ Works
    BY <1>1 DEF ProbeAncestry, TypeOK, git
<1>3. /\ poll[p].base \in Commit /\ poll[p].tip \in Object
      /\ poll[p].object = "valid"
      /\ disk \in Files /\ FilesKept(disk, durable)
    BY <1>1 DEF IInv, PollPhase, TypeOK
<1> DEFINE locals == [poll[p] EXCEPT !.pc = "validate", !.ancestry = "descendant"]
<1>4. CASE /\ "descendant" \in ProbedAncestry(mirror, poll[p].base, poll[p].tip)
           /\ PollGoto(p, locals) /\ UNCHANGED served
    <2>1. /\ locals \in PollState /\ locals.base = poll[p].base
          /\ locals.pc = "validate" /\ locals.tip = poll[p].tip
          /\ locals.object = "valid" /\ locals.ancestry = "descendant"
        BY <1>1, <1>3 DEF PollState, Policy!Ancestry
    <2>2. <<poll[p].base, poll[p].tip>> \in Older
        BY <1>4, AncestryFacts
    <2> HIDE DEF locals
    <2>3. PollPhase(p)'
        BY <1>1, <1>3, <1>4, <2>1, <2>2 DEF PollGoto, PollPhase, TypeOK
    <2> QED
        BY <1>1, <1>2, <1>4, <2>1, <2>3, PollStays
<1>5. ASSUME NEW answer \in {"predecessor", "divergent", "unknown"},
             Apply(p, poll[p].base,
                   Candidate([poll[p] EXCEPT !.ancestry = answer], TRUE,
                             "not-evaluated", "not-attempted", FALSE))
      PROVE  IInv'
    <2> DEFINE c == Candidate([poll[p] EXCEPT !.ancestry = answer], TRUE,
                              "not-evaluated", "not-attempted", FALSE)
    <2>1. c.commit = poll[p].tip /\ c.persistence # "success"
        BY <1>1 DEF Candidate, PollState
    <2>2. UNCHANGED <<remote, durable>> /\ disk' = disk
        BY <1>1 DEF files
    <2>3. Apply(p, poll[p].base, c)
        BY <1>5
    <2> HIDE DEF c
    <2>4. disk' \in Files /\ FilesKept(disk', durable) /\ c.commit \in Object
        BY <1>3, <2>1, <2>2
    <2> QED
        BY <1>1, <1>2, <1>3, <2>1, <2>2, <2>3, <2>4, PollEnds
<1> QED
    BY <1>4, <1>5 DEF ProbeAncestry

\* Recorded and published in one step of the event loop.
LEMMA AcceptCandidateInv ==
    ASSUME IInv, NEW p \in Poll, AcceptCandidate(p)
    PROVE  IInv'
<1>1. PICK base, tip : base = poll[p].base /\ tip = poll[p].tip
    OBVIOUS
<1> DEFINE c == Candidate(poll[p], TRUE, "valid", "success", FALSE)
<1>2. /\ Up /\ poll[p].pc = "validate" /\ Validates(base, tip)
      /\ disk' = Record(tip) /\ durable' = Record(tip) /\ Works
      /\ Apply(p, base, c) /\ UNCHANGED <<remote, git>> /\ TypeOK
    BY <1>1 DEF AcceptCandidate, Persisted, IInv
<1>3. /\ first # None /\ base \in Commit /\ tip \in Commit \ {base}
      /\ NotBefore(tip) /\ Record(tip) \in Files
      /\ FilesKept(Record(tip), Record(tip))
    BY <1>1, <1>2, TipFacts
<1>4. /\ c.observed = TRUE /\ c.suppressed = FALSE
      /\ c.identity = RepositoryIdentity /\ c.fullRef = FullRef
      /\ c.commit = tip /\ c.object = "valid" /\ c.ancestry = "descendant"
      /\ c.semantic = "valid" /\ c.persistence = "success"
    BY <1>1, <1>2 DEF Candidate, IInv, PollPhase
<1> HIDE DEF c
<1>5. /\ Publish(tip) /\ UNCHANGED <<suppressed, pc, start>>
      /\ poll' = [poll EXCEPT ![p] = NoPoll]
    BY <1>2, <1>3, <1>4, ForwardIsPublished DEF Apply
<1>6. /\ accepted' = tip /\ active' = tip /\ last' = tip /\ first' = first
    BY <1>3, <1>5 DEF Publish
<1>7. Spent
    BY <1>2, SpentFacts
<1>8. poll \in [Poll -> PollState] /\ poll' \in [Poll -> PollState]
    BY <1>2, <1>5, NoStateType DEF TypeOK
<1>9. TypeOK'
    BY <1>2, <1>3, <1>5, <1>6, <1>7, <1>8 DEF TypeOK, Spent, git, Commits
<1>10. StartupPhase' /\ StartupRecord' /\ Serving' /\ ServedIsRecorded' /\ NothingYet'
    BY <1>2, <1>3, <1>5, <1>6
       DEF StartupPhase, StartupRecord, StartupPc, Up, Serving, ServedIsRecorded,
           NothingYet
<1>11. \A q \in Poll : PollPhase(q)' /\ NotBefore(poll[q].base)'
    <2>1. ASSUME NEW q \in Poll PROVE PollPhase(q)' /\ NotBefore(poll[q].base)'
        <3>1. poll'[q] \in {poll[q], NoPoll}
            BY <1>5, <1>8
        <3>2. PollPhase(q) /\ NotBefore(poll[q].base)
            BY <1>3 DEF IInv, AfterFirst
        <3> QED
            BY <1>6, <3>1, <3>2, NoneIsNotBefore DEF PollPhase, NotBefore, NoPoll
    <2> QED
        BY <2>1
<1>12. AfterFirst' /\ FilesKept(disk, durable)'
    BY <1>2, <1>3, <1>6, <1>11 DEF AfterFirst, FilesKept, NotBefore
<1> QED
    BY <1>9, <1>10, <1>11, <1>12 DEF IInv

LEMMA RejectCandidateInv ==
    ASSUME IInv, NEW p \in Poll, RejectCandidate(p)
    PROVE  IInv'
<1>1. /\ Up /\ poll[p].pc = "validate" /\ UNCHANGED <<remote, git>>
      /\ TypeOK /\ poll[p] \in PollState
    BY DEF RejectCandidate, IInv, TypeOK
<1>2. /\ mirror' \in Mirrors /\ watchRef' \in Object \cup {None}
      /\ Fault \/ Works
    BY <1>1 DEF RejectCandidate, PersistFails, TypeOK, git
<1>3. /\ poll[p].base \in Commit /\ poll[p].tip \in Object
      /\ disk \in Files /\ FilesKept(disk, durable)
    BY <1>1 DEF IInv, PollPhase, TypeOK
<1>4. PICK semantic \in {"invalid", "valid"},
           persistence \in {"not-attempted", "interrupted-before-rename"} :
         Apply(p, poll[p].base, Candidate(poll[p], TRUE, semantic, persistence, FALSE))
    BY DEF RejectCandidate
<1> DEFINE c == Candidate(poll[p], TRUE, semantic, persistence, FALSE)
<1>5. c.commit = poll[p].tip /\ c.persistence # "success"
    BY DEF Candidate
<1>6. Apply(p, poll[p].base, c)
    BY <1>4
<1> HIDE DEF c
<1>7. /\ durable' = durable /\ disk' \in Files /\ FilesKept(disk', durable)
      /\ disk' = disk \/ faults' # 0
    <2>1. CASE UNCHANGED files
        BY <1>3, <2>1 DEF files
    <2>2. CASE Validates(poll[p].base, poll[p].tip) /\ PersistFails(poll[p].tip)
        <3>1. Record(poll[p].tip) \in Files /\ FilesKept(Record(poll[p].tip), durable)
            BY <1>1, <2>2, TipFacts
        <3>2. durable' = durable /\ disk' \in {disk, Record(poll[p].tip)} /\ faults' # 0
            BY <1>1, <2>2 DEF PersistFails, Fault, TypeOK
        <3> QED
            BY <1>3, <3>1, <3>2
    <2> QED
        BY <2>1, <2>2 DEF RejectCandidate
<1>8. UNCHANGED <<remote, durable>> /\ c.commit \in Object
    BY <1>1, <1>3, <1>5, <1>7
<1> QED
    BY <1>1, <1>2, <1>3, <1>5, <1>6, <1>7, <1>8, PollEnds

----------------------------------------------------------------------------
(* Stopping, and the environment. *)

\* What the environment does to the remote, the mirror or the file, while the
\* process stays where it is.
LEMMA WorldMoves ==
    ASSUME IInv, Spent, UNCHANGED <<disk, process, served>>,
           remote' \in Object \cup {None}, mirror' \in Mirrors,
           watchRef' \in Object \cup {None},
           durable' \in Files, FilesKept(disk, durable)'
    PROVE  IInv'
<1>1. TypeOK'
    BY DEF IInv, TypeOK, Spent, process, memory, served
<1>2. StartupPhase' /\ StartupRecord' /\ Serving' /\ NothingYet'
    BY DEF IInv, StartupPhase, StartupRecord, Serving, NothingYet, process, memory,
           served
<1>3. \A p \in Poll : PollPhase(p)'
    BY DEF IInv, PollPhase, process
<1>4. AfterFirst' /\ ServedIsRecorded'
    BY DEF IInv, AfterFirst, ServedIsRecorded, NotBefore, Spent, process, memory,
           served
<1> QED
    BY <1>1, <1>2, <1>3, <1>4 DEF IInv

\* The process is stopped, but its memory is still there.
LEMMA Halted ==
    ASSUME IInv, pc' \in {"draining", "killed"},
           pc' = "draining" => pc = "running" /\ disk' = disk,
           Spent, crashes' # 0,
           UNCHANGED <<remote, durable, git, start, poll, memory, served>>,
           disk' \in Files, FilesKept(disk, durable)'
    PROVE  IInv'
<1>1. TypeOK'
    BY DEF IInv, TypeOK, Spent, git, memory, served
<1>2. StartupPhase' /\ StartupRecord' /\ ServedIsRecorded'
    BY DEF StartupPhase, StartupRecord, StartupPc, ServedIsRecorded
<1>3. \A p \in Poll : PollPhase(p)'
    BY DEF IInv, PollPhase
<1>4. Serving' /\ NothingYet' /\ AfterFirst'
    BY DEF IInv, Serving, NothingYet, AfterFirst, NotBefore, memory, served
<1> QED
    BY <1>1, <1>2, <1>3, <1>4 DEF IInv

LEMMA FilesKeptFacts ==
    ASSUME IInv
    PROVE  /\ disk \in Files /\ durable \in Files
           /\ FilesKept(disk, durable) /\ FilesKept(disk, disk)
           /\ FilesKept(durable, durable)
BY DEF IInv, TypeOK, FilesKept

\* The same files, or those a step leaves, are kept with the new first commit.
LEMMA StillKept ==
    ASSUME UNCHANGED served, FilesKept(disk', durable')
    PROVE  FilesKept(disk, durable)'
BY DEF FilesKept, NotBefore, served

LEMMA StopSignalInv == IInv /\ StopSignal => IInv'
<1> SUFFICES ASSUME IInv, StopSignal PROVE IInv'
    OBVIOUS
<1>1. disk' = disk /\ durable' = durable /\ UNCHANGED served
    BY DEF StopSignal, files
<1>2. FilesKept(disk, durable)' /\ disk' \in Files
    BY <1>1, FilesKeptFacts, StillKept
<1>3. Spent /\ crashes' # 0
    BY DEF StopSignal, IInv, TypeOK, Spent
<1> QED
    BY <1>1, <1>2, <1>3, Halted DEF StopSignal

LEMMA KilledAtRenameInv == IInv /\ KilledAtRename => IInv'
<1> SUFFICES ASSUME IInv, KilledAtRename PROVE IInv'
    OBVIOUS
<1>1. PICK c \in Renaming : disk' = Record(c)
    BY DEF KilledAtRename
<1>2. Record(c) \in Files /\ FilesKept(Record(c), durable)
    <2>1. ASSUME NEW p \in Poll, poll[p].pc = "validate", c = poll[p].tip,
                 Validates(poll[p].base, poll[p].tip)
          PROVE  Record(c) \in Files /\ FilesKept(Record(c), durable)
        BY <2>1, TipFacts
    <2>2. ASSUME pc = "build", start.file.kind = "absent", c = start.commit
          PROVE  Record(c) \in Files /\ FilesKept(Record(c), durable)
        BY <2>2, BootstrapFacts
    <2> QED
        BY <2>1, <2>2 DEF Renaming
<1>3. durable' = durable /\ UNCHANGED served /\ pc' = "killed"
    BY DEF KilledAtRename
<1>4. FilesKept(disk, durable)' /\ disk' \in Files
    BY <1>1, <1>2, <1>3, StillKept
<1>5. Spent /\ crashes' # 0
    BY DEF KilledAtRename, IInv, TypeOK, Spent
<1> QED
    BY <1>3, <1>4, <1>5, Halted DEF KilledAtRename

\* A process that ends without writing anything.
LEMMA VanishInv ==
    ASSUME IInv, Gone, Spent, UNCHANGED <<remote, files, git, served>>
    PROVE  IInv'
<1>1. disk' = disk /\ durable' = durable
    BY DEF files
<1>2. FilesKept(disk, durable)' /\ disk' \in Files /\ durable' \in Files
    BY <1>1, FilesKeptFacts, StillKept
<1> QED
    BY <1>2, GoneInv

LEMMA PowerLossInv == IInv /\ PowerLoss => IInv'
<1> SUFFICES ASSUME IInv, PowerLoss PROVE IInv'
    OBVIOUS
<1>1. disk' = durable /\ durable' = durable /\ UNCHANGED served
    BY DEF PowerLoss
<1>2. FilesKept(disk, durable)' /\ disk' \in Files /\ durable' \in Files
    BY <1>1, FilesKeptFacts, StillKept
<1>3. Spent
    BY DEF PowerLoss, IInv, TypeOK, Spent
<1> QED
    BY <1>2, <1>3, GoneInv DEF PowerLoss

LEMMA WriteBackInv == IInv /\ WriteBack => IInv'
<1> SUFFICES ASSUME IInv, WriteBack PROVE IInv'
    OBVIOUS
<1>1. disk' = disk /\ durable' = disk /\ UNCHANGED served
    BY DEF WriteBack
<1>2. FilesKept(disk, durable)' /\ durable' \in Files
    BY <1>1, FilesKeptFacts, StillKept
<1>3. Spent
    BY DEF WriteBack, IInv, TypeOK, Spent, budgets
<1> QED
    BY <1>1, <1>2, <1>3, WorldMoves DEF WriteBack, IInv, TypeOK, git

LEMMA OutsideInv == IInv /\ (MoveRemote \/ DamageObject \/ AutoGc) => IInv'
<1> SUFFICES ASSUME IInv, MoveRemote \/ DamageObject \/ AutoGc PROVE IInv'
    OBVIOUS
<1>1. disk' = disk /\ durable' = durable /\ UNCHANGED <<process, served>>
    BY DEF MoveRemote, DamageObject, AutoGc, files
<1>2. FilesKept(disk, durable)' /\ durable' \in Files
    BY <1>1, FilesKeptFacts, StillKept
<1>3. Spent
    BY DEF MoveRemote, DamageObject, AutoGc, IInv, TypeOK, Spent, budgets
<1>4. /\ remote' \in Object \cup {None} /\ watchRef' \in Object \cup {None}
      /\ mirror' \in Mirrors
    <2>1. CASE MoveRemote
        BY <2>1 DEF MoveRemote, IInv, TypeOK, git
    <2>2. CASE DamageObject
        BY <2>2 DEF DamageObject, IInv, TypeOK, Mirrors, Stored
    <2>3. CASE AutoGc
        BY <2>3, PrunedType DEF AutoGc, IInv, TypeOK
    <2> QED
        BY <2>1, <2>2, <2>3
<1> QED
    BY <1>1, <1>2, <1>3, <1>4, WorldMoves

LEMMA StutterInv == IInv /\ UNCHANGED vars => IInv'
<1> SUFFICES ASSUME IInv, UNCHANGED vars PROVE IInv'
    OBVIOUS
<1>1. UNCHANGED <<remote, disk, durable, mirror, watchRef, process, served>>
    BY DEF vars, files, git
<1>2. FilesKept(disk, durable)'
    BY <1>1, FilesKeptFacts, StillKept
<1>3. Spent
    BY DEF vars, IInv, TypeOK, Spent, budgets
<1> QED
    BY <1>1, <1>2, <1>3, WorldMoves DEF IInv, TypeOK

----------------------------------------------------------------------------
(* The theorems. *)

LEMMA NextInv == IInv /\ [Next]_vars => IInv'
<1> SUFFICES ASSUME IInv, [Next]_vars PROVE IInv'
    OBVIOUS
<1>1. CASE StartupStep
    BY <1>1, StartupInv, ProbeInv, FetchBootstrapInv, DecideStartupInv,
       StartServingInv, StartFailsInv
       DEF StartupStep
<1>2. ASSUME NEW p \in Poll, PollStep(p) PROVE IInv'
    BY <1>2, StartPollInv, ObserveRemoteInv, FetchTipInv, ResolveTipInv, ProbeTipInv,
       ProbeAncestryInv, AcceptCandidateInv, RejectCandidateInv
       DEF PollStep
<1>3. CASE Drained \/ Vanish \/ Crash
    <2>1. Gone /\ UNCHANGED <<remote, files, git, served>>
        BY <1>3 DEF Drained, Vanish, Crash
    <2>2. Spent
        BY <1>3 DEF Drained, Vanish, Crash, Works, IInv, TypeOK, Spent, budgets
    <2> QED
        BY <2>1, <2>2, VanishInv
<1>4. CASE StopSignal \/ KilledAtRename
    BY <1>4, StopSignalInv, KilledAtRenameInv
<1>5. CASE PowerLoss \/ WriteBack \/ MoveRemote \/ DamageObject \/ AutoGc
    BY <1>5, PowerLossInv, WriteBackInv, OutsideInv
<1>6. CASE UNCHANGED vars
    BY <1>6, StutterInv
<1> QED
    BY <1>1, <1>2, <1>3, <1>4, <1>5, <1>6 DEF Next, Environment

\* The inductive invariant of startup() and of every poll that overlaps it,
\* js/src/serve/watcher.js.
THEOREM Invariant == Spec => []IInv
BY InitInv, NextInv, PTL DEF Spec

\* Every variable of the JavaScript watcher keeps its type.
THEOREM TypeCorrect == Spec => []TypeOK
<1>1. IInv => TypeOK
    BY DEF IInv
<1> QED
    BY <1>1, Invariant, PTL

\* Whatever number of polls overlap in pollOnce(), and however often the
\* process is killed or the machine loses power, nothing older than the first
\* commit that was served is ever accepted, served or recorded again.
THEOREM FirstStays == Spec => []NeverBeforeFirst
<1>1. IInv => NeverBeforeFirst
    BY DEF IInv, AfterFirst, FilesKept, NotBefore, NeverBeforeFirst
<1> QED
    BY <1>1, Invariant, PTL

\* persistRecord() and apply() run without an await between them, so that as
\* long as nothing fails or is killed the record on disk is that of the
\* snapshot served, whatever number of polls overlap.
THEOREM Recorded == Spec => []ServedIsRecorded
<1>1. IInv => ServedIsRecorded
    BY DEF IInv
<1> QED
    BY <1>1, Invariant, PTL

----------------------------------------------------------------------------
(* The two policies.  The watchers call evaluateStartup and evaluateReload   *)
(* with typed probes, over whatever names there are.                        *)

LEMMA ReloadsAgree ==
    ASSUME NEW record, NEW c, c.ancestry \in Policy!Ancestry,
           c.semantic \in Policy!SemanticValidity,
           c.persistence \in Policy!Persistence
    PROVE  Policy!JsEvaluateReload(record, c) = Policy!EvaluateReload(record, c)
BY DEF Policy!JsEvaluateReload, Policy!EvaluateReload, Policy!Ancestry,
       Policy!SemanticValidity, Policy!Persistence

LEMMA StartupsAgree ==
    ASSUME NEW in, in.bootstrapObject \in Policy!ObjectState,
           in.localObject \in Policy!ObjectState
    PROVE  \/ Policy!JsEvaluateStartup(in) = Policy!EvaluateStartup(in)
           \/ /\ Policy!EvaluateStartup(in) = Policy!Inconsistent
              /\ Policy!JsEvaluateStartup(in).decision = "fail-startup"
BY DEF Policy!JsEvaluateStartup, Policy!EvaluateStartup, Policy!ObjectState,
       Policy!FailStartup, Policy!Outcome

(***************************************************************************)
(* evaluateReload and evaluate_reload decide every candidate alike, and so  *)
(* do evaluateStartup and evaluate_startup every startup, except that where *)
(* Rust refuses its input as inconsistent JavaScript may fail the startup.  *)
(***************************************************************************)
THEOREM PoliciesAgree ==
    /\ \A record, c : c.ancestry \in Policy!Ancestry
                      /\ c.semantic \in Policy!SemanticValidity
                      /\ c.persistence \in Policy!Persistence =>
          Policy!JsEvaluateReload(record, c) = Policy!EvaluateReload(record, c)
    /\ \A in : in.bootstrapObject \in Policy!ObjectState
                 /\ in.localObject \in Policy!ObjectState =>
          \/ Policy!JsEvaluateStartup(in) = Policy!EvaluateStartup(in)
          \/ /\ Policy!EvaluateStartup(in) = Policy!Inconsistent
             /\ Policy!JsEvaluateStartup(in).decision = "fail-startup"
BY ReloadsAgree, StartupsAgree

=============================================================================
