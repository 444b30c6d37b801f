--------------------------- MODULE DeliveryProofs ---------------------------
(***************************************************************************)
(* For every set of packages, tags, archives, configurations and limits:    *)
(* what is locked for a Git tag is one piece of evidence, what `lock` left   *)
(* and `check` let through can be built, and what clients have learned keeps *)
(* resolving.                                                               *)
(*                                                                          *)
(* Four inductive invariants, each on top of the type invariant: Evidence    *)
(* says the same of the fetched package as of the locked ones; Vetted, that   *)
(* in every catalog that is edited, merged, recorded or built each row is     *)
(* what it routes to under the declarations of the last `lock`; Checks, that  *)
(* whatever may be built or judged has passed `check`, and that a build in    *)
(* body mode is under way in body mode; Bodies, which bodies the build and    *)
(* the snapshot have read.                                                   *)
(***************************************************************************)
EXTENDS Delivery, FiniteSetTheorems, TLAPS

----------------------------------------------------------------------------
(* Types. *)

\* a fetched tag is a tag of a Git identity; a fetched package has an archive
JobTyped ==
    /\ job.pc = "fetched" => job.id \in GitIdentity /\ job.tag \in Tag
    /\ job.pc = "ready" => job.id \in Identity /\ job.archive \in Archive

\* a build is of a catalog, and reads archives of what that has locked
BuildTyped ==
    build.pc # "none" =>
        /\ build.catalog \in Catalog
        /\ build.left \subseteq Locked(build.catalog)
        /\ build.pc = "read" => build.path \in Locked(build.catalog)

Typed == TypeOK /\ JobTyped /\ BuildTyped

\* A route table has a cell for each identity.
LEMMA RouteTableType ==
    ASSUME NEW c
    PROVE  RouteTable(c) \in [Identity -> {"none", "redirect", "retained"}]
BY DEF RouteTable

\* What `lock` stages is a catalog.
LEMMA StagedType ==
    ASSUME work \in Catalog, NEW packages \in [Identity -> Package \cup {None}]
    PROVE  Staged(packages) \in Catalog
<1> DEFINE next == [work EXCEPT !.package = packages, !.locked = work.declared]
<1>1. next \in Catalog
    BY DEF Catalog
<1>2. RouteTable(next) \in [Identity -> {"none", "redirect", "retained"}]
    BY RouteTableType
<1>3. [a \in Archive |-> IF a \in RetainedArchives(next) THEN "whole" ELSE "absent"]
          \in [Archive -> Content]
    BY DEF Content
<1> HIDE DEF next
<1>4. Staged(packages) =
        [next EXCEPT
           !.table = RouteTable(next),
           !.crates = [a \in Archive |-> IF a \in RetainedArchives(next)
                                         THEN "whole" ELSE "absent"]]
    BY DEF Staged, next
<1> QED
    BY <1>1, <1>2, <1>3, <1>4 DEF Catalog

LEMMA InitType == Init => Typed
<1> SUFFICES ASSUME Init PROVE Typed
    OBVIOUS
<1>1. PackagingTypeOK /\ JobTyped
    BY PackagingAssumption
       DEF Init, PackagingInit, PackagingTypeOK, Idle, JobPc, JobTyped
<1>2. service \in [mode : DeliveryMode, watched : BOOLEAN,
                   record : Catalog \cup {None}, refused : Catalog \cup {None}]
    BY DeliveryAssumption DEF Init, Configured, ConfigFile
<1>3. build \in [pc : {"none", "load", "hash", "read"},
                 catalog : Catalog \cup {None}, left : SUBSET Identity,
                 path : Identity \cup {None}, read : [Identity -> Content]]
    BY DeliveryAssumption DEF Init, Building, NoBuild, Content
<1>8. BuildTyped
    BY DeliveryAssumption DEF Init, Building, NoBuild, BuildTyped
<1>4. command \in [pc : {"idle", "declare", "import"}, paths : Seq(Registry),
                   left : SUBSET Archive, writing : Archive \cup {None}]
    BY DEF Init, NoCommand
<1>5. work \in Catalog /\ head \in Catalog /\ store \in [Archive -> Content]
    BY DeliveryAssumption DEF Init
<1>6. events \in 0 .. MaxEvents
    BY DeliveryAssumption DEF Init
<1>7. /\ inventory \subseteq Identity /\ maxArchives \in Limits
      /\ snapshot = None /\ overwritten \in BOOLEAN /\ learned \subseteq Identity
    BY DEF Init
<1> QED
    BY <1>1, <1>2, <1>3, <1>4, <1>5, <1>6, <1>7, <1>8 DEF TypeOK, Typed

\* Fetching keeps the types of what it fetches.
LEMMA FetchingType == Typed /\ Fetching => Typed'
<1> SUFFICES ASSUME Typed, Fetching PROVE Typed'
    OBVIOUS
<1>1. PackagingTypeOK /\ JobTyped
    BY DEF Typed, TypeOK
<1>2. PackagingTypeOK' /\ JobTyped'
    <2>1. CASE \E i \in GitIdentity : \E t \in Tag : MoveTag(i, t)
        BY <1>1, <2>1, PackagingAssumption DEF MoveTag, PackagingTypeOK, JobTyped
    <2>0. jobs < MaxJobs /\ jobs' = jobs + 1 => jobs' \in 0 .. MaxJobs
        BY <1>1, PackagingAssumption DEF PackagingTypeOK
    <2>2. ASSUME NEW i \in Identity, FetchTag(i)
          PROVE  PackagingTypeOK' /\ JobTyped'
        <3>1. job' = [pc |-> "fetched", id |-> i, tag |-> upstream[i],
                      commit |-> None, archive |-> None]
            BY <2>2 DEF FetchTag, Idle
        <3>2. i \in GitIdentity /\ upstream[i] \in Tag
            BY <1>1, <2>2 DEF FetchTag, PackagingTypeOK
        <3>3. jobs' \in 0 .. MaxJobs /\ UNCHANGED <<upstream, moves>>
            BY <2>0, <2>2 DEF FetchTag
        <3> QED
            BY <1>1, <3>1, <3>2, <3>3 DEF PackagingTypeOK, JobPc, JobTyped
    <2>3. ASSUME NEW i \in Identity, FetchMirror(i)
          PROVE  PackagingTypeOK' /\ JobTyped'
        <3>1. History[i].checksum \in Archive
            BY <2>3, PackagingAssumption DEF FetchMirror, HistoryFacts
        <3>2. job' = [pc |-> "ready", id |-> i, tag |-> None, commit |-> None,
                      archive |-> History[i].checksum]
            BY <2>3 DEF FetchMirror, Idle
        <3>3. jobs' \in 0 .. MaxJobs /\ UNCHANGED <<upstream, moves>>
            BY <2>0, <2>3 DEF FetchMirror
        <3> QED
            BY <1>1, <3>1, <3>2, <3>3 DEF PackagingTypeOK, JobPc, JobTyped
    <2>4. CASE PackageTag
        <3>1. Resolved \in Commit
            BY <1>1, <2>4, PackagingAssumption DEF PackageTag, JobTyped, Resolved
        <3>2. PICK a \in Archive :
                  job' = [job EXCEPT !.pc = "ready", !.commit = Resolved, !.archive = a]
            BY <2>4, <3>1, PackagingAssumption DEF PackageTag
        <3>3. job.id \in Identity /\ UNCHANGED <<upstream, moves, jobs>>
            BY <1>1, <2>4, PackagingAssumption DEF PackageTag, JobTyped
        <3> QED
            BY <1>1, <3>1, <3>2, <3>3 DEF PackagingTypeOK, JobPc, JobTyped
    <2>5. CASE JobFails
        BY <1>1, <2>5 DEF JobFails, PackagingTypeOK, Idle, JobPc, JobTyped
    <2> QED
        BY <2>1, <2>2, <2>3, <2>4, <2>5 DEF Fetching, PackagingNext
<1> QED
    BY <1>2 DEF Typed, TypeOK, BuildTyped, Fetching, catalogs, archives, aside, serving

\* The budget of events is kept.
LEMMA EventsBounded ==
    events \in 0 .. MaxEvents /\ (Event \/ UNCHANGED events) =>
        events' \in 0 .. MaxEvents
BY DeliveryAssumption DEF Event

\* The commands of the working catalog make catalogs of catalogs.
LEMMA CommandType ==
    ASSUME Typed, UNCHANGED <<aside, serving, learned>>,
           \/ LockNew \/ LockSame \/ Merge
           \/ \E i \in Identity : LockRemoved(i)
           \/ \E r \in Registry : Undeclare(r)
           \/ \E d \in Declaration : EditDeclarations(d)
    PROVE  Typed'
<1>1. PackagingTypeOK /\ JobTyped /\ work \in Catalog /\ head \in Catalog
    BY DEF Typed, TypeOK
<1>2. UNCHANGED <<command, archives>> /\ (Event \/ UNCHANGED events)
    BY DEF LockNew, LockSame, Merge, LockRemoved, Undeclare, EditDeclarations
<1>4. events' \in 0 .. MaxEvents
    BY <1>2, EventsBounded DEF Typed, TypeOK
<1>3. PackagingTypeOK' /\ JobTyped' /\ work' \in Catalog /\ head' \in Catalog
    <2>1. CASE LockNew
        <3> DEFINE packages ==
                [work.package EXCEPT ![job.id] =
                    [state |-> "active", sha |-> job.archive,
                     row |-> Route[job.id][work.declared], tag |-> job.tag,
                     commit |-> job.commit]]
        <3>4. Route[job.id][work.declared] \in Row
            BY <1>1, <2>1, DeliveryAssumption DEF LockNew, JobTyped, Catalog
        <3>1. packages \in [Identity -> Package \cup {None}]
            BY <1>1, <2>1, <3>4
               DEF LockNew, PackagingTypeOK, JobTyped, Catalog, Package
        <3>2. work' = Staged(packages) /\ job' = Idle
            BY <2>1 DEF LockNew, Reconcile
        <3>3. work' \in Catalog
            BY <1>1, <3>1, <3>2, StagedType
        <3> QED
            BY <1>1, <2>1, <3>2, <3>3
               DEF LockNew, PackagingTypeOK, JobTyped, Idle, JobPc
    <2>2. ASSUME NEW i \in Identity, LockRemoved(i)
          PROVE  /\ PackagingTypeOK' /\ JobTyped'
                 /\ work' \in Catalog /\ head' \in Catalog
        <3> DEFINE packages == [work.package EXCEPT ![i].state = "removed"]
        <3>1. work.package[i] \in Package
            BY <1>1, <2>2 DEF LockRemoved, Active, Locked, Catalog
        <3>2. packages \in [Identity -> Package \cup {None}]
            BY <1>1, <3>1 DEF Catalog, Package
        <3>3. work' = Staged(packages)
            BY <2>2 DEF LockRemoved, Reconcile
        <3>4. work' \in Catalog
            BY <1>1, <3>2, <3>3, StagedType
        <3> QED
            BY <1>1, <2>2, <3>4
               DEF LockRemoved, PackagingTypeOK, JobTyped, packaging
    <2>3. CASE \E r \in Registry : Undeclare(r)
        BY <1>1, <2>3
           DEF Undeclare, PackagingTypeOK, JobTyped, packaging, Catalog
    <2>4. CASE LockSame
        <3>1. work.package \in [Identity -> Package \cup {None}]
            BY <1>1 DEF Catalog
        <3>2. work' \in Catalog
            BY <1>1, <2>4, <3>1, StagedType DEF LockSame, Reconcile
        <3> QED
            BY <1>1, <2>4, <3>2
               DEF LockSame, PackagingTypeOK, JobTyped, packaging
    <2>5. CASE Merge
        BY <1>1, <2>5
           DEF Merge, PackagingTypeOK, JobTyped, packaging
    <2>6. CASE \E d \in Declaration : EditDeclarations(d)
        BY <1>1, <2>6
           DEF EditDeclarations, PackagingTypeOK, JobTyped, packaging, Catalog
    <2> QED
        BY <2>1, <2>2, <2>3, <2>4, <2>5, <2>6
<1> QED
    BY <1>2, <1>3, <1>4 DEF Typed, TypeOK, BuildTyped, aside, serving, archives

Commands == [pc : {"idle", "declare", "import"}, paths : Seq(Registry),
             left : SUBSET Archive, writing : Archive \cup {None}]

\* So do the migration and the import, and what befalls them.
LEMMA UnguardedType ==
    ASSUME Typed,
           \/ MigrateBegins \/ MigrateDeclares \/ MigrateRoutes
           \/ ImportBegins \/ ImportWrites \/ ImportEnds
           \/ CommandKilled \/ RemoveLeftovers
           \/ \E a \in Archive : ImportKeeps(a) \/ ImportCreates(a)
    PROVE  Typed'
<1>1. work \in Catalog /\ command \in Commands
    BY DEF Typed, TypeOK, Commands
<1>2. NoCommand \in Commands
    BY DEF NoCommand, Commands
<1>3. /\ UNCHANGED <<packaging, head, archives, aside, serving, learned>>
      /\ Event \/ UNCHANGED events
    BY DEF MigrateBegins, MigrateDeclares, MigrateRoutes, ImportBegins,
           ImportWrites, ImportEnds, CommandKilled, RemoveLeftovers, ImportKeeps,
           ImportCreates, catalogs, archives
<1>4. events' \in 0 .. MaxEvents
    BY <1>3, EventsBounded DEF Typed, TypeOK
<1>5. work' \in Catalog /\ command' \in Commands
    <2>1. CASE MigrateBegins
        <3>1. RegistryPaths \in Seq(Registry)
            BY DeliveryAssumption
        <3> QED
            BY <1>1, <1>2, <2>1, <3>1 DEF MigrateBegins, catalogs, Commands
    <2>2. CASE MigrateDeclares
        <3>1. command.paths \in Seq(Registry) /\ command.paths # <<>>
            BY <1>1, <2>2 DEF MigrateDeclares, Commands
        <3>2. Tail(command.paths) \in Seq(Registry) /\ Head(command.paths) \in Registry
            BY <3>1
        <3>3. work' = [work EXCEPT !.retained = @ \cup {Head(command.paths)}]
            BY <2>2 DEF MigrateDeclares
        <3>4. \/ command' = [command EXCEPT !.paths = Tail(command.paths)]
              \/ command' = NoCommand
            BY <2>2 DEF MigrateDeclares
        <3>5. work' \in Catalog
            BY <1>1, <3>2, <3>3 DEF Catalog
        <3>6. command' \in Commands
            BY <1>1, <1>2, <3>2, <3>4 DEF Commands
        <3> QED
            BY <3>5, <3>6
    <2>3. CASE MigrateRoutes
        <3>1. work' \in Catalog
            BY <1>1, <2>3, RouteTableType DEF MigrateRoutes, Catalog
        <3> QED
            BY <1>2, <2>3, <3>1 DEF MigrateRoutes
    <2>4. CASE ImportBegins
        <3>1. Listed \subseteq Archive
            <4>1. Listed = RetainedArchives(work)
                BY <2>4 DEF ImportBegins
            <4> QED
                BY <1>1, <4>1
                   DEF RetainedArchives, Active, Locked, Sha, Catalog, Package
        <3> QED
            BY <1>1, <1>2, <2>4, <3>1 DEF ImportBegins, catalogs, Commands
    <2>5. CASE ImportWrites
        BY <1>1, <2>5 DEF ImportWrites, Commands, Catalog, Content
    <2>6. CASE ImportEnds
        BY <1>1, <1>2, <2>6 DEF ImportEnds, catalogs
    <2>7. CASE CommandKilled
        BY <1>1, <1>2, <2>7 DEF CommandKilled, Catalog
    <2>8. CASE RemoveLeftovers
        BY <1>1, <2>8 DEF RemoveLeftovers, Catalog, Content
    <2>9. ASSUME NEW a \in Archive, ImportKeeps(a)
          PROVE  work' \in Catalog /\ command' \in Commands
        BY <1>1, <2>9 DEF ImportKeeps, catalogs, Commands
    <2>10. ASSUME NEW a \in Archive, ImportCreates(a)
           PROVE  work' \in Catalog /\ command' \in Commands
        BY <1>1, <2>10 DEF ImportCreates, Commands, Catalog, Content
    <2> QED
        BY <2>1, <2>2, <2>3, <2>4, <2>5, <2>6, <2>7, <2>8, <2>9, <2>10
<1> QED
    BY <1>3, <1>4, <1>5
       DEF Typed, TypeOK, Commands, packaging, archives, aside, serving,
           PackagingTypeOK, JobTyped, BuildTyped

\* The inventory and the store.
LEMMA StoreType ==
    ASSUME Typed,
           \/ TakeInventory
           \/ \E a \in Archive : DepositBegins(a) \/ DepositEnds(a)
    PROVE  Typed'
<1>1. /\ UNCHANGED <<packaging, catalogs, command, aside, serving, learned>>
      /\ Event \/ UNCHANGED events
    BY DEF TakeInventory, DepositBegins, DepositEnds
<1>2. events' \in 0 .. MaxEvents
    BY <1>1, EventsBounded DEF Typed, TypeOK
<1>3. store' \in [Archive -> Content] /\ inventory' \subseteq Identity
    BY DEF TakeInventory, DepositBegins, DepositEnds, Typed, TypeOK, Content,
           Active, Locked
<1> QED
    BY <1>1, <1>2, <1>3
       DEF Typed, TypeOK, packaging, catalogs, aside, serving, PackagingTypeOK,
           JobTyped, BuildTyped

Services == [mode : DeliveryMode, watched : BOOLEAN,
             record : Catalog \cup {None}, refused : Catalog \cup {None}]

Builds == [pc : {"none", "load", "hash", "read"},
           catalog : Catalog \cup {None}, left : SUBSET Identity,
           path : Identity \cup {None}, read : [Identity -> Content]]

Snapshots == [mode : DeliveryMode, catalog : Catalog, read : [Identity -> Content]]

\* The service.
LEMMA ServiceType ==
    ASSUME Typed,
           \/ \E file \in Configs : Restart(file)
           \/ Poll \/ BuildProjects \/ ReadBody \/ GiveUpBuild \/ Publish
           \/ \E i \in Identity : HashBody(i)
    PROVE  Typed'
<1>1. /\ work \in Catalog /\ head \in Catalog /\ store \in [Archive -> Content]
      /\ service \in Services /\ build \in Builds /\ snapshot \in Snapshots \cup {None}
      /\ overwritten \in BOOLEAN /\ learned \subseteq Identity
      /\ BuildTyped
    BY DEF Typed, TypeOK, Services, Builds, Snapshots
<1>2. /\ UNCHANGED <<packaging, catalogs, command, archives, maxArchives>>
      /\ Event \/ UNCHANGED events
    BY DEF Restart, Poll, BuildProjects, ReadBody, GiveUpBuild, Publish, HashBody, aside
<1>3. events' \in 0 .. MaxEvents
    BY <1>2, EventsBounded DEF Typed, TypeOK
<1>4. NoBuild \in Builds /\ \A c \in Catalog : Building(c) \in Builds
    BY DEF NoBuild, Building, Builds, Content
<1>5. /\ service' \in Services /\ build' \in Builds
      /\ snapshot' \in Snapshots \cup {None}
      /\ overwritten' \in BOOLEAN /\ learned' \subseteq Identity
      /\ BuildTyped'
    <2>0. \A c \in Catalog : build' = Building(c) => BuildTyped'
        BY DEF Building, NoBuild, BuildTyped
    <2>1. ASSUME NEW file \in Configs, Restart(file)
          PROVE  <1>5!:
        <3>1. file \in ConfigFile
            BY DeliveryAssumption
        <3>2. service' \in Services
            BY <1>1, <2>1, <3>1 DEF Restart, Configured, Services, ConfigFile
        <3>3. build' \in Builds /\ BuildTyped'
            <4>1. PICK c \in Catalog : build' = Building(c)
                BY <1>1, <2>1 DEF Restart, Services
            <4> QED
                BY <1>4, <2>0, <4>1
        <3> QED
            BY <1>1, <2>1, <3>2, <3>3 DEF Restart, aside
    <2>2. CASE Poll
        <3>1. service' \in Services /\ build' \in Builds
            BY <1>1, <1>4, <2>2 DEF Poll, Services
        <3>2. BuildTyped'
            BY <1>1, <2>0, <2>2 DEF Poll, BuildTyped
        <3> QED
            BY <1>1, <2>2, <3>1, <3>2 DEF Poll, aside
    <2>3. CASE BuildProjects
        <3>1. FromStore(build.catalog) \subseteq Locked(build.catalog)
            BY DEF FromStore
        <3>2. build' \in Builds /\ BuildTyped'
            BY <1>1, <2>3, <3>1 DEF BuildProjects, Builds, BuildTyped, Locked
        <3> QED
            BY <1>1, <2>3, <3>2 DEF BuildProjects, aside
    <2>4. CASE ReadBody
        <3> DEFINE a == Sha(build.catalog, build.path)
        <3>1. a \in Archive
            BY <1>1, <2>4
               DEF ReadBody, BuildTyped, Locked, Sha, Catalog, Package
        <3>2. build' = [build EXCEPT !.pc = "hash", !.path = None,
                                     !.left = @ \ {build.path},
                                     !.read[build.path] = store[a]]
            BY <2>4 DEF ReadBody, Stored
        <3>3. store[a] \in Content
            BY <1>1, <3>1
        <3> HIDE DEF a
        <3>4. build' \in Builds
            BY <1>1, <3>2, <3>3 DEF Builds
        <3>5. BuildTyped'
            BY <1>1, <2>4, <3>2 DEF ReadBody, Builds, BuildTyped
        <3> QED
            BY <1>1, <2>4, <3>4, <3>5 DEF ReadBody
    <2>5. CASE GiveUpBuild
        <3>1. build' \in Builds /\ BuildTyped'
            BY <1>4, <2>5 DEF GiveUpBuild, NoBuild, BuildTyped
        <3>2. service' \in Services
            BY <1>1, <2>5 DEF GiveUpBuild, Services, Builds
        <3> QED
            BY <1>1, <2>5, <3>1, <3>2 DEF GiveUpBuild, aside
    <2>6. CASE Publish
        <3>1. build.catalog \in Catalog
            BY <1>1, <2>6 DEF Publish, BuildTyped
        <3>2. snapshot' \in Snapshots
            BY <1>1, <2>6, <3>1 DEF Publish, Snapshots, Services, Builds
        <3>3. service' \in Services
            BY <1>1, <2>6, <3>1 DEF Publish, Services
        <3>4. learned' \subseteq Identity
            BY <1>1, <2>6 DEF Publish, Unyanked, Locked
        <3> QED
            BY <1>1, <1>4, <2>6, <3>2, <3>3, <3>4 DEF Publish, aside, NoBuild, BuildTyped
    <2>7. ASSUME NEW i \in Identity, HashBody(i)
          PROVE  <1>5!:
        BY <1>1, <2>7 DEF HashBody, Builds, BuildTyped, aside
    <2> QED
        BY <2>1, <2>2, <2>3, <2>4, <2>5, <2>6, <2>7
<1> QED
    BY <1>2, <1>3, <1>5
       DEF Typed, TypeOK, packaging, catalogs, archives, PackagingTypeOK, JobTyped,
           Services, Builds, Snapshots

LEMMA TypedStep == Typed /\ [Next]_vars => Typed'
<1> SUFFICES ASSUME Typed, [Next]_vars PROVE Typed'
    OBVIOUS
<1>1. CASE UNCHANGED vars
    BY <1>1
       DEF vars, packaging, catalogs, archives, aside, serving, Typed, TypeOK,
           PackagingTypeOK, JobTyped, BuildTyped
<1>2. CASE \/ LockNew \/ LockSame \/ Merge
           \/ \E i \in Identity : LockRemoved(i)
           \/ \E r \in Registry : Undeclare(r)
           \/ \E d \in Declaration : EditDeclarations(d)
    <2>1. UNCHANGED <<aside, serving, learned>>
        BY <1>2
           DEF LockNew, LockSame, Merge, LockRemoved, Undeclare, EditDeclarations
    <2> QED
        BY <1>2, <2>1, CommandType
<1> QED
    BY <1>1, <1>2, FetchingType, UnguardedType, StoreType, ServiceType DEF Next

\* Every reachable state of Delivery is well typed: what `lock`, the migration
\* and the import make are catalogs, and what the service builds is one.
THEOREM TypeCorrect == Spec => []TypeOK
<1>1. Typed => TypeOK
    BY DEF Typed
<1> QED
    BY InitType, TypedStep, <1>1, PTL DEF Spec

----------------------------------------------------------------------------
(* One piece of evidence. *)

Evidence ==
    /\ ServedIsWhatWasTagged
    /\ job.pc = "ready" /\ job.id \in GitIdentity =>
           OfOnePiece(job.tag, job.commit, job.archive)

\* What is not fetched or locked anew keeps its evidence.
LEMMA EvidenceKept ==
    ASSUME Evidence, UNCHANGED job, UNCHANGED work.package
    PROVE  Evidence'
BY DEF Evidence, ServedIsWhatWasTagged, Locked

LEMMA EvidenceFetched == Evidence /\ Typed /\ Fetching => Evidence'
<1> SUFFICES ASSUME Evidence, Typed, Fetching PROVE Evidence'
    OBVIOUS
<1>1. ServedIsWhatWasTagged'
    BY DEF Evidence, ServedIsWhatWasTagged, Fetching, catalogs, Locked
<1>2. job'.pc = "ready" /\ job'.id \in GitIdentity =>
          OfOnePiece(job'.tag, job'.commit, job'.archive)
    <2>1. CASE \E i \in GitIdentity : \E t \in Tag : MoveTag(i, t)
        BY <2>1 DEF MoveTag, Evidence
    <2>2. CASE \E i \in Identity : FetchTag(i)
        BY <2>2 DEF FetchTag, Idle
    <2>3. CASE \E i \in Identity : FetchMirror(i)
        BY <2>3 DEF FetchMirror, Idle, Mirrored
    <2>4. CASE PackageTag
        <3>1. job \in [pc : JobPc, id : Identity \cup {None}, tag : Tag \cup {None},
                       commit : Commit \cup {None}, archive : Archive \cup {None}]
            BY DEF Typed, TypeOK, PackagingTypeOK
        <3>2. PICK a \in Crate[Resolved] :
                  job' = [job EXCEPT !.pc = "ready", !.commit = Resolved, !.archive = a]
            BY <2>4 DEF PackageTag
        <3> QED
            BY <2>4, <3>1, <3>2 DEF PackageTag, OfOnePiece, Resolved
    <2>5. CASE JobFails
        BY <2>5 DEF JobFails, Idle
    <2> QED
        BY <2>1, <2>2, <2>3, <2>4, <2>5 DEF Fetching, PackagingNext
<1> QED
    BY <1>1, <1>2 DEF Evidence

LEMMA EvidenceStep == Evidence /\ Typed /\ [Next]_vars => Evidence'
<1> SUFFICES ASSUME Evidence, Typed, [Next]_vars PROVE Evidence'
    OBVIOUS
<1>1. work \in Catalog
    BY DEF Typed, TypeOK
<1>2. \A packages : Staged(packages).package = packages
    BY <1>1 DEF Staged, Catalog
<1>3. CASE LockNew
    <2> DEFINE p == [state |-> "active", sha |-> job.archive,
                     row |-> Route[job.id][work.declared], tag |-> job.tag,
                     commit |-> job.commit]
    <2>1. work'.package = [work.package EXCEPT ![job.id] = p]
        BY <1>2, <1>3 DEF LockNew, Reconcile
    <2>2. job' = Idle
        BY <1>3 DEF LockNew
    <2>3. job.id \in GitIdentity => OfOnePiece(p.tag, p.commit, p.sha)
        BY <1>3 DEF LockNew, Evidence
    <2>4. work.package \in [Identity -> Package \cup {None}]
        BY <1>1 DEF Catalog
    <2> HIDE DEF p
    <2>5. ServedIsWhatWasTagged'
        BY <2>1, <2>3, <2>4 DEF Evidence, ServedIsWhatWasTagged, Locked
    <2> QED
        BY <2>2, <2>5 DEF Evidence, Idle
<1>4. ASSUME NEW i \in Identity, LockRemoved(i)
      PROVE  Evidence'
    <2>1. work'.package = [work.package EXCEPT ![i].state = "removed"]
        BY <1>2, <1>4 DEF LockRemoved, Reconcile
    <2>2. work.package \in [Identity -> Package \cup {None}]
        BY <1>1 DEF Catalog
    <2>3. work.package[i] \in Package
        BY <1>4, <2>2 DEF LockRemoved, Active, Locked
    <2>6. work.package[i] # None
        BY <1>4 DEF LockRemoved, Active, Locked
    <2>4. ASSUME NEW j \in GitIdentity, work'.package[j] # None
          PROVE  LET q == work'.package[j] IN OfOnePiece(q.tag, q.commit, q.sha)
        <3>1. j \in Identity
            BY PackagingAssumption
        <3>2. /\ work.package[j] # None
              /\ work'.package[j].tag = work.package[j].tag
              /\ work'.package[j].commit = work.package[j].commit
              /\ work'.package[j].sha = work.package[j].sha
            BY <2>1, <2>2, <2>3, <2>4, <2>6, <3>1 DEF Package
        <3> QED
            BY <3>1, <3>2 DEF Evidence, ServedIsWhatWasTagged, Locked
    <2>7. ServedIsWhatWasTagged'
        BY <2>4 DEF ServedIsWhatWasTagged, Locked
    <2>5. UNCHANGED job
        BY <1>4 DEF LockRemoved, packaging
    <2> QED
        BY <2>5, <2>7 DEF Evidence
<1>5. CASE UNCHANGED job /\ UNCHANGED work.package
    BY <1>5, EvidenceKept
<1>6. CASE LockSame
    BY <1>2, <1>5, <1>6 DEF LockSame, Reconcile, packaging
<1>7. CASE \/ MigrateDeclares \/ MigrateRoutes \/ ImportWrites
           \/ CommandKilled \/ RemoveLeftovers
           \/ \E r \in Registry : Undeclare(r)
           \/ \E d \in Declaration : EditDeclarations(d)
           \/ \E a \in Archive : ImportCreates(a)
    BY <1>1, <1>5, <1>7
       DEF MigrateDeclares, MigrateRoutes, ImportWrites, CommandKilled,
           RemoveLeftovers, Undeclare, EditDeclarations, ImportCreates, packaging, Catalog
<1>8. CASE \/ Merge \/ MigrateBegins \/ ImportBegins \/ ImportEnds
           \/ TakeInventory \/ Poll \/ BuildProjects \/ ReadBody
           \/ GiveUpBuild \/ Publish
           \/ \E i \in Identity : HashBody(i)
           \/ \E a \in Archive : ImportKeeps(a) \/ DepositBegins(a) \/ DepositEnds(a)
           \/ \E file \in Configs : Restart(file)
    BY <1>5, <1>8
       DEF Merge, MigrateBegins, ImportBegins, ImportEnds, TakeInventory, Poll,
           BuildProjects, ReadBody, GiveUpBuild, Publish, HashBody, ImportKeeps,
           DepositBegins, DepositEnds, Restart, packaging, catalogs
<1>9. CASE UNCHANGED vars
    BY <1>5, <1>9 DEF vars, packaging, catalogs
<1> QED
    BY <1>3, <1>4, <1>6, <1>7, <1>8, <1>9, EvidenceFetched DEF Next

\* However upstream tags move and whatever fails, what rust/src/package.rs
\* packages and `lock` records for a Git tag is of one piece.
THEOREM Tagged == Spec => []ServedIsWhatWasTagged
<1>1. Init => Evidence
    BY DeliveryAssumption
       DEF Init, PackagingInit, Idle, Evidence, ServedIsWhatWasTagged
<1>2. Evidence => ServedIsWhatWasTagged
    BY DEF Evidence
<1> QED
    BY <1>1, InitType, TypedStep, EvidenceStep, <1>2, PTL DEF Spec

----------------------------------------------------------------------------
(* `lock` keeps the rows and the declarations together. *)

\* each row is what it routed to when `lock` last succeeded
RowsLocked(c) == \A i \in Locked(c) : c.package[i].row = Route[i][c.locked]

Vetted ==
    /\ RowsLocked(work) /\ RowsLocked(head)
    /\ service.record # None => RowsLocked(service.record)
    /\ build.pc # "none" => RowsLocked(build.catalog)

LEMMA VettedInit == Init => Vetted
BY DeliveryAssumption
   DEF Init, Configured, Building, NoBuild, Vetted, RowsLocked, RowsRouted

\* What `lock` writes routes to what it records.
LEMMA ReconcileVets ==
    ASSUME work \in Catalog, NEW packages, NEW pending, Reconcile(packages, pending)
    PROVE  RowsLocked(work')
<1>1. work' = Staged(packages) /\ RowsRouted(Staged(packages))
    BY DEF Reconcile
<1>2. Staged(packages).locked = Staged(packages).declared
    BY DEF Staged, Catalog
<1> QED
    BY <1>1, <1>2 DEF RowsLocked, RowsRouted, Locked

LEMMA VettedStep == Vetted /\ Typed /\ [Next]_vars => Vetted'
<1> SUFFICES ASSUME Vetted, Typed, [Next]_vars PROVE Vetted'
    OBVIOUS
<1>1. work \in Catalog /\ service \in Services /\ build \in Builds
    BY DEF Typed, TypeOK, Services, Builds
<1>2. ASSUME UNCHANGED <<head, service, build>>, RowsLocked(work')
      PROVE  Vetted'
    BY <1>2 DEF Vetted
<1>3. CASE LockNew \/ LockSame \/ \E i \in Identity : LockRemoved(i)
    <2>1. \E packages, pending : Reconcile(packages, pending)
        BY <1>3 DEF LockNew, LockSame, LockRemoved
    <2> QED
        BY <1>1, <1>2, <1>3, <2>1, ReconcileVets
           DEF LockNew, LockSame, LockRemoved, serving
<1>4. CASE \/ MigrateDeclares \/ MigrateRoutes \/ ImportWrites
           \/ CommandKilled \/ RemoveLeftovers
           \/ \E r \in Registry : Undeclare(r)
           \/ \E d \in Declaration : EditDeclarations(d)
           \/ \E a \in Archive : ImportCreates(a)
    <2>1. work'.package = work.package /\ work'.locked = work.locked
        BY <1>1, <1>4
           DEF MigrateDeclares, MigrateRoutes, ImportWrites, CommandKilled,
               RemoveLeftovers, Undeclare, EditDeclarations, ImportCreates, Catalog
    <2>2. UNCHANGED <<head, service, build>>
        BY <1>4
           DEF MigrateDeclares, MigrateRoutes, ImportWrites, CommandKilled,
               RemoveLeftovers, Undeclare, EditDeclarations, ImportCreates, serving
    <2> QED
        BY <1>2, <2>1, <2>2 DEF Vetted, RowsLocked, Locked
<1>5. CASE Merge
    BY <1>5 DEF Merge, Vetted, serving
<1>6. \A c : build' = Building(c) => build'.pc = "load" /\ build'.catalog = c
    BY DEF Building, NoBuild
<1>7. ASSUME NEW file \in Configs, Restart(file)
      PROVE  Vetted'
    <2>1. service'.record = service.record /\ UNCHANGED catalogs
        BY <1>7 DEF Restart, Configured
    <2>2. PICK c : build' = Building(c) /\ RowsLocked(c)
        BY <1>7 DEF Restart, Vetted
    <2> QED
        BY <1>6, <2>1, <2>2 DEF Vetted, catalogs
<1>8. CASE Poll
    <2>1. service'.record = service.record /\ UNCHANGED catalogs
        BY <1>1, <1>8 DEF Poll, Services
    <2>2. build' = Building(head) \/ build' = build
        BY <1>8 DEF Poll
    <2> QED
        BY <1>6, <2>1, <2>2 DEF Vetted, catalogs
<1>9. CASE BuildProjects \/ ReadBody \/ \E i \in Identity : HashBody(i)
    <2>1. build.pc # "none" /\ build'.catalog = build.catalog
        BY <1>1, <1>9 DEF BuildProjects, ReadBody, HashBody, Builds
    <2>2. UNCHANGED <<catalogs, service>>
        BY <1>9 DEF BuildProjects, ReadBody, HashBody
    <2> QED
        BY <2>1, <2>2 DEF Vetted, catalogs
<1>10. CASE GiveUpBuild \/ Publish
    <2>1. /\ build'.pc = "none" /\ build.pc # "none" /\ UNCHANGED catalogs
          /\ service'.record \in {service.record, build.catalog}
        BY <1>1, <1>10 DEF GiveUpBuild, BuildFails, Publish, NoBuild, Services
    <2> QED
        BY <2>1 DEF Vetted, catalogs
<1>11. CASE \/ Fetching \/ MigrateBegins \/ ImportBegins \/ ImportEnds
            \/ TakeInventory
            \/ \E a \in Archive : ImportKeeps(a) \/ DepositBegins(a) \/ DepositEnds(a)
            \/ UNCHANGED vars
    <2>1. UNCHANGED <<catalogs, serving>>
        BY <1>11
           DEF Fetching, MigrateBegins, ImportBegins, ImportEnds, TakeInventory,
               ImportKeeps, DepositBegins, DepositEnds, vars
    <2> QED
        BY <2>1 DEF Vetted, catalogs, serving
<1> QED
    BY <1>3, <1>4, <1>5, <1>7, <1>8, <1>9, <1>10, <1>11 DEF Next

----------------------------------------------------------------------------
(* What is built has passed `check`. *)

Reads == build.pc \in {"hash", "read"}

Checks ==
    /\ Checked(head)
    /\ service.record # None => Checked(service.record)
    /\ build.pc # "none" => Checked(build.catalog)
    /\ Reads => service.mode = "body" /\ build.left \subseteq FromStore(build.catalog)

LEMMA ChecksInit == Init => Checks
BY DeliveryAssumption DEF Init, Configured, Building, NoBuild, Checks, Reads

LEMMA ChecksStep == Checks /\ Typed /\ [Next]_vars => Checks'
<1> SUFFICES ASSUME Checks, Typed, [Next]_vars PROVE Checks'
    OBVIOUS
<1>1. service \in Services /\ build \in Builds
    BY DEF Typed, TypeOK, Services, Builds
<1>2. CASE UNCHANGED <<head, serving>>
    BY <1>2 DEF Checks, Reads, serving, FromStore
<1>3. CASE Merge
    BY <1>3 DEF Merge, Checks, Reads, serving, FromStore
<1>4. \A c : build' = Building(c) => build'.pc = "load" /\ build'.catalog = c
    BY DEF Building, NoBuild
<1>5. ASSUME NEW file \in Configs, Restart(file)
      PROVE  Checks'
    <2>1. service'.record = service.record /\ head' = head
        BY <1>5 DEF Restart, Configured, catalogs
    <2>2. PICK c : build' = Building(c) /\ Checked(c)
        BY <1>5 DEF Restart, Checks
    <2> QED
        BY <1>4, <2>1, <2>2 DEF Checks, Reads
<1>6. CASE Poll
    <2>1. head' = head /\ service'.record = service.record
        BY <1>1, <1>6 DEF Poll, catalogs, Services
    <2>2. \/ build' = Building(head)
          \/ build' = build /\ build.pc = "none"
        BY <1>6 DEF Poll
    <2> QED
        BY <1>4, <2>1, <2>2 DEF Checks, Reads
<1>7. CASE BuildProjects
    <2>1. /\ service.mode = "body"
          /\ build' = [build EXCEPT !.pc = "hash", !.left = FromStore(build.catalog)]
          /\ UNCHANGED <<head, service>>
        BY <1>1, <1>7 DEF BuildProjects, FromStore, catalogs, Services, DeliveryMode
    <2> QED
        BY <1>1, <1>7, <2>1 DEF BuildProjects, Builds, Checks, Reads, FromStore
<1>8. ASSUME NEW i \in Identity, HashBody(i)
      PROVE  Checks'
    BY <1>1, <1>8 DEF HashBody, catalogs, Builds, Checks, Reads, FromStore
<1>9. CASE ReadBody
    <2>1. /\ build'.pc = "hash" /\ build'.catalog = build.catalog
          /\ build'.left \subseteq build.left
          /\ build.pc = "read" /\ UNCHANGED <<head, service>>
        BY <1>1, <1>9 DEF ReadBody, catalogs, Builds
    <2> QED
        BY <2>1 DEF Checks, Reads, FromStore
<1>10. CASE GiveUpBuild
    <2>1. /\ build'.pc = "none" /\ head' = head
          /\ service'.record = service.record
        BY <1>1, <1>10 DEF GiveUpBuild, NoBuild, catalogs, Services
    <2> QED
        BY <2>1 DEF Checks, Reads
<1>11. CASE Publish
    <2>1. /\ build'.pc = "none" /\ head' = head /\ build.pc # "none"
          /\ service'.record \in {service.record, build.catalog}
        BY <1>1, <1>11 DEF Publish, NoBuild, catalogs, Services
    <2> QED
        BY <2>1 DEF Checks, Reads
<1>12. CASE \/ Fetching
            \/ LockNew \/ LockSame
            \/ \E i \in Identity : LockRemoved(i)
            \/ \E r \in Registry : Undeclare(r)
            \/ \E d \in Declaration : EditDeclarations(d)
            \/ MigrateBegins \/ MigrateDeclares \/ MigrateRoutes
            \/ TakeInventory \/ ImportBegins \/ ImportWrites \/ ImportEnds
            \/ CommandKilled \/ RemoveLeftovers
            \/ \E a \in Archive :
                   \/ ImportKeeps(a) \/ ImportCreates(a)
                   \/ DepositBegins(a) \/ DepositEnds(a)
            \/ UNCHANGED vars
    BY <1>2, <1>12
       DEF Fetching, LockNew, LockSame, LockRemoved, Undeclare,
           EditDeclarations, MigrateBegins,
           MigrateDeclares, MigrateRoutes, TakeInventory, ImportBegins,
           ImportWrites, ImportEnds, CommandKilled, RemoveLeftovers, ImportKeeps,
           ImportCreates, DepositBegins, DepositEnds, vars, catalogs
<1> QED
    BY <1>3, <1>5, <1>6, <1>7, <1>8, <1>9, <1>10, <1>11, <1>12 DEF Next

\* The limit counts the archives that are served from the catalog itself.
LEMMA Counting ==
    ASSUME NEW c \in Catalog, maxArchives \in Limits, ~WithinLimits(c)
    PROVE  Cardinality(RetainedArchives(c)) > maxArchives
<1>1. Projected(c) = RetainedArchives(c)
    BY DEF Projected, RetainedArchives
<1>2. RetainedArchives(c) \subseteq Archive
    BY DEF RetainedArchives, Active, Locked, Sha, Catalog, Package
<1>3. Cardinality(RetainedArchives(c)) \in Nat
    BY <1>2, DeliveryAssumption, FS_Subset, FS_CardinalityType
<1>4. maxArchives \in Nat
    BY DeliveryAssumption
<1> QED
    BY <1>1, <1>3, <1>4 DEF WithinLimits

\* What `lock` left and `check` let into the branch fails to build only for
\* declarations edited since (rust/src/render.rs), the limits or what the store of
\* rust/src/serve.rs does not have, for every catalog and every routing of rows.
THEOREM LockedBuilds == Spec => []LockedCatalogBuilds
<1>1. Checks /\ Vetted /\ Typed => LockedCatalogBuilds
    <2> SUFFICES ASSUME Checks, Vetted, Typed, BuildFails PROVE LockedCatalogBuilds
        BY DEF LockedCatalogBuilds
    <2> DEFINE c == build.catalog
    <2>1. CASE build.pc = "load" /\ ~Projects(c)
        <3>1. c \in Catalog /\ maxArchives \in Limits
            BY <2>1 DEF Typed, TypeOK, BuildTyped
        <3>2. ~RowsProject(c) \/ ~WithinLimits(c)
            BY <2>1 DEF Checks, Checked, Projects
        <3>3. ASSUME c.declared = c.locked
              PROVE  RowsProject(c)
            <4>1. SUFFICES ASSUME NEW i \in Locked(c)
                           PROVE  /\ Route[i][c.declared] # None
                                  /\ Route[i][c.declared] = c.package[i].row
                BY DEF RowsProject
            <4>2. c.package[i].row = Route[i][c.declared]
                BY <2>1, <3>3 DEF Vetted, RowsLocked
            <4>3. c.package[i].row \in Row
                BY <3>1 DEF Locked, Catalog, Package
            <4> QED
                BY <4>2, <4>3, DeliveryAssumption
        <3> QED
            BY <3>1, <3>2, <3>3, Counting DEF LockedCatalogBuilds
    <2>2. ASSUME build.pc = "hash", NEW i \in build.left, ~DigestMatches(i)
          PROVE  LockedCatalogBuilds
        <3>1. service.mode = "body" /\ i \in FromStore(c)
            BY <2>2 DEF Checks, Reads
        <3>2. i \in Locked(c) /\ Sha(c, i) \notin Projected(c)
            BY <3>1 DEF FromStore
        <3>3. i \notin {j \in Active(c) : IsRetained(c, j)}
            BY <3>2 DEF Projected
        <3>4. store[Sha(c, i)] # "whole"
            BY <2>2 DEF DigestMatches, Stored
        <3> QED
            BY <3>1, <3>2, <3>3, <3>4 DEF LockedCatalogBuilds
    <2> QED
        BY <2>1, <2>2 DEF BuildFails
<1> QED
    BY InitType, TypedStep, ChecksInit, ChecksStep, VettedInit, VettedStep, <1>1,
       PTL DEF Spec

----------------------------------------------------------------------------
(* The bodies that are served have been read whole. *)

\* the archives of c that body mode reads from the store
Elsewhere(c) == {i \in Locked(c) : Sha(c, i) \notin Projected(c)}

Bodies ==
    /\ Reads => \A i \in Elsewhere(build.catalog) \ build.left :
                    build.read[i] = "whole" \/ overwritten
    /\ snapshot # None /\ snapshot.mode = "body" =>
           \A i \in Elsewhere(snapshot.catalog) :
               snapshot.read[i] = "whole" \/ overwritten

LEMMA BodiesInit == Init => Bodies
BY DEF Init, Building, NoBuild, Bodies, Reads

LEMMA BodiesStep == Bodies /\ Checks /\ Typed /\ [Next]_vars => Bodies'
<1> SUFFICES ASSUME Bodies, Checks, Typed, [Next]_vars PROVE Bodies'
    OBVIOUS
<1>1. service \in Services /\ build \in Builds
    BY DEF Typed, TypeOK, Services, Builds
<1>2. CASE build' = build /\ snapshot' = snapshot /\ overwritten' = overwritten
    BY <1>2 DEF Bodies, Reads, Elsewhere
<1>3. ASSUME snapshot' \in {None, snapshot}, overwritten' = overwritten,
             build'.pc \notin {"hash", "read"}
      PROVE  Bodies'
    BY <1>3 DEF Bodies, Reads, Elsewhere
<1>4. CASE BuildProjects
    <2>1. /\ build' = [build EXCEPT !.pc = "hash", !.left = FromStore(build.catalog)]
          /\ UNCHANGED <<snapshot, overwritten>>
        BY <1>4 DEF BuildProjects, aside
    <2>2. FromStore(build.catalog) = Elsewhere(build.catalog)
        BY <1>1, <1>4 DEF BuildProjects, FromStore, Elsewhere, Services, DeliveryMode
    <2>3. build'.left = Elsewhere(build'.catalog)
        BY <1>1, <2>1, <2>2 DEF Builds
    <2> QED
        BY <2>1, <2>3 DEF Bodies
<1>5. ASSUME NEW i \in Identity, HashBody(i)
      PROVE  Bodies'
    BY <1>1, <1>5 DEF HashBody, aside, Builds, Bodies, Reads, Elsewhere
<1>6. CASE ReadBody
    <2>1. /\ build'.catalog = build.catalog
          /\ build'.left = build.left \ {build.path}
          /\ build.pc = "read"
          /\ build'.read = [build.read EXCEPT ![build.path] = Stored(build.path)]
          /\ overwritten' = (overwritten \/ Stored(build.path) # "whole")
          /\ snapshot' = snapshot
        BY <1>1, <1>6 DEF ReadBody, Builds
    <2>2. build.read \in [Identity -> Content]
        BY <1>1 DEF Builds
    <2>3. ASSUME NEW i \in Elsewhere(build.catalog) \ (build.left \ {build.path})
          PROVE  build'.read[i] = "whole" \/ overwritten'
        <3>1. i \in Identity
            BY DEF Elsewhere, Locked
        <3>2. CASE i = build.path
            BY <2>1, <2>2, <3>1, <3>2
        <3>3. CASE i # build.path
            BY <2>1, <2>2, <3>1, <3>3 DEF Bodies, Reads
        <3> QED
            BY <3>2, <3>3
    <2> QED
        BY <2>1, <2>3 DEF Bodies, Reads
<1>7. CASE Publish
    <2>1. /\ snapshot' = [mode |-> service.mode, catalog |-> build.catalog,
                          read |-> build.read]
          /\ build' = NoBuild /\ overwritten' = overwritten
        BY <1>7 DEF Publish, aside
    <2>2. ASSUME service.mode = "body", NEW i \in Elsewhere(build.catalog)
          PROVE  build.read[i] = "whole" \/ overwritten
        <3>1. CASE build.pc = "load"
            BY <1>7, <2>2, <3>1 DEF Publish, FromStore, Elsewhere
        <3>2. CASE build.pc = "hash" /\ build.left = {}
            BY <2>2, <3>2 DEF Bodies, Reads
        <3> QED
            BY <1>7, <3>1, <3>2 DEF Publish
    <2> QED
        BY <2>1, <2>2 DEF Bodies, Reads, NoBuild
<1>8. CASE GiveUpBuild
    BY <1>3, <1>8 DEF GiveUpBuild, NoBuild, aside
<1>9. CASE Poll
    BY <1>2, <1>3, <1>9 DEF Poll, Building, NoBuild, aside
<1>10. CASE \E file \in Configs : Restart(file)
    BY <1>3, <1>10 DEF Restart, Building, NoBuild, aside
<1>11. CASE \/ Fetching
            \/ LockNew \/ LockSame \/ Merge
            \/ \E i \in Identity : LockRemoved(i)
            \/ \E r \in Registry : Undeclare(r)
            \/ \E d \in Declaration : EditDeclarations(d)
            \/ MigrateBegins \/ MigrateDeclares \/ MigrateRoutes
            \/ TakeInventory \/ ImportBegins \/ ImportWrites \/ ImportEnds
            \/ CommandKilled \/ RemoveLeftovers
            \/ \E a \in Archive :
                   \/ ImportKeeps(a) \/ ImportCreates(a)
                   \/ DepositBegins(a) \/ DepositEnds(a)
            \/ UNCHANGED vars
    BY <1>2, <1>11
       DEF Fetching, LockNew, LockSame, Merge, LockRemoved, Undeclare,
           EditDeclarations, MigrateBegins, MigrateDeclares, MigrateRoutes, TakeInventory,
           ImportBegins, ImportWrites, ImportEnds, CommandKilled,
           RemoveLeftovers, ImportKeeps, ImportCreates, DepositBegins,
           DepositEnds, vars, aside, serving
<1> QED
    BY <1>4, <1>5, <1>6, <1>7, <1>8, <1>9, <1>10, <1>11 DEF Next

\* What a snapshot answers for an identity its catalog has.
LEMMA Answers ==
    ASSUME NEW s \in Snapshots, NEW i \in Locked(s.catalog)
    PROVE  LET c == s.catalog IN
           Download(s, i) =
               IF s.mode = "body"
               THEN Body(Sha(c, i), IF Sha(c, i) \in Projected(c)
                                    THEN "whole" ELSE s.read[i])
               ELSE IF ~IsRetained(c, i) \/ Sha(c, i) \in Projected(c)
                    THEN Body(Sha(c, i), "whole")
                    ELSE NotFound
<1> DEFINE c == s.catalog
<1> DEFINE a == Sha(c, i)
<1>1. s.mode \in {"redirect", "body"}
    BY DEF Snapshots, DeliveryMode
<1>2. DownloadPath(i) \in RoutePaths(c)
    BY DEF RoutePaths
<1>3. DownloadPath(i)[1] = "v1" /\ DownloadPath(i)[2] = i
    BY DEF DownloadPath
<1>4. CratePath(a)[1] = "crates" /\ CratePath(a)[2] = a
    BY DEF CratePath
<1>5. CratePath(a) \in RoutePaths(c) <=> a \in Projected(c)
    <2>1. \A b : CratePath(b) = CratePath(a) => b = a
        BY DEF CratePath
    <2>2. \A j : CratePath(a) # DownloadPath(j)
        BY DEF CratePath, DownloadPath
    <2> QED
        BY <2>1, <2>2 DEF RoutePaths
<1>6. Evaluate(s, CratePath(a)) = IF a \in Projected(c) THEN Body(a, "whole")
                                  ELSE NotFound
    BY <1>4, <1>5 DEF Evaluate, Prepared
<1>7. CASE s.mode = "body"
    <2>1. Evaluate(s, DownloadPath(i)) =
              Body(a, IF a \in Projected(c) THEN "whole" ELSE s.read[i])
        BY <1>2, <1>3, <1>7 DEF Evaluate, Prepared
    <2>2. \A x, y : Body(x, y).status # 302
        BY DEF Body
    <2> QED
        BY <1>7, <2>1, <2>2 DEF Download
<1>8. CASE s.mode = "redirect"
    <2>1. Evaluate(s, DownloadPath(i)) = Redirect(Destination(c, i))
        BY <1>2, <1>3, <1>8 DEF Evaluate, Prepared
    <2>2. \A to : Redirect(to).status = 302 /\ Redirect(to).to = to
        BY DEF Redirect
    <2>3. IF IsRetained(c, i)
          THEN Destination(c, i) = CratePath(a)
          ELSE Destination(c, i)[1] = "crates.io"
        BY DEF Destination
    <2> QED
        BY <1>4, <1>6, <1>8, <2>1, <2>2, <2>3 DEF Download
<1> QED
    BY <1>1, <1>7, <1>8

\* Whatever was once listed to a client keeps resolving to its bytes, with the
\* named exceptions, over every sequence of merges, restarts, migrations and
\* removals (rust/src/projection.rs, serve.rs).
THEOREM RowsResolve == Spec => []LearnedRowsResolve
<1>1. Bodies /\ Typed => LearnedRowsResolve
    <2> SUFFICES ASSUME Bodies, Typed, snapshot # None,
                        NEW i \in learned \cap Locked(snapshot.catalog)
                 PROVE  LET c == snapshot.catalog IN
                        \/ Download(snapshot, i) = Body(Sha(c, i), "whole")
                        \/ /\ Download(snapshot, i) = NotFound
                           /\ c.package[i].state = "removed" /\ IsRetained(c, i)
                           /\ snapshot.mode = "redirect"
                        \/ overwritten /\ snapshot.mode = "body"
        BY DEF LearnedRowsResolve
    <2> DEFINE c == snapshot.catalog
    <2>1. snapshot \in Snapshots /\ c \in Catalog
        BY DEF Typed, TypeOK, Snapshots
    <2>2. CASE snapshot.mode = "body"
        <3>1. CASE Sha(c, i) \in Projected(c)
            BY <2>1, <2>2, <3>1, Answers
        <3>2. CASE Sha(c, i) \notin Projected(c)
            <4>1. snapshot.read[i] = "whole" \/ overwritten
                BY <2>2, <3>2 DEF Bodies, Elsewhere
            <4> QED
                BY <2>1, <2>2, <3>2, <4>1, Answers
        <3> QED
            BY <3>1, <3>2
    <2>3. CASE snapshot.mode = "redirect"
        <3>1. IsRetained(c, i) /\ Sha(c, i) \notin Projected(c) =>
                  c.package[i].state = "removed"
            BY <2>1 DEF Projected, Active, Locked, Catalog, Package
        <3> QED
            BY <2>1, <2>3, <3>1, Answers
    <2> QED
        BY <2>1, <2>2, <2>3 DEF Snapshots, DeliveryMode
<1> QED
    BY InitType, TypedStep, ChecksInit, ChecksStep, BodiesInit, BodiesStep, <1>1,
       PTL DEF Spec

=============================================================================
