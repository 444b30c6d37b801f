------------------------------ MODULE Delivery ------------------------------
(***************************************************************************)
(* From an archive that was packaged to the client that downloads it: the   *)
(* working catalog with its route table and object store, `lock` that adds   *)
(* and removes packages, the migration to retained delivery and the import   *)
(* of archives (neither of which holds the catalog guard), the check that    *)
(* lets a catalog be merged, and the service that builds a snapshot of it in *)
(* redirect or in body mode, where a redirect becomes an archive read from   *)
(* a store that an operator fills meanwhile.                                 *)
(*                                                                          *)
(* An archive stands for its hash.  How `lock` installs is in                *)
(* CatalogTransaction, how the watcher picks a commit in RustWatcher: here   *)
(* both are one step.                                                        *)
(***************************************************************************)
EXTENDS Packaging, Sequences

CONSTANTS
    RegistryPaths,  \* the registries, in the order of their files
    Home,           \* [Identity -> the registry it is locked in]
    Declaration,    \* what curators may declare of homes and of the categories
                    \* that may depend on each other
    Row,            \* the index rows with their dependencies routed
    Route,          \* [Identity -> [Declaration -> the routed row, or None when
                    \* a dependency has no home, several, or a forbidden one]]
    InitialCatalog, \* what is locked, and what the store holds, at the start
    InitialStore,
    Configs,        \* the configuration files the service is restarted with
    InitialConfig,  \* and the one of its first start
    Limits,         \* the max-archives a service may be built with
    MaxEvents       \* bound: declarations edited, leftovers removed, commands
                    \* killed, files put into the store, restarts: together

Registry == {RegistryPaths[n] : n \in DOMAIN RegistryPaths}

VARIABLES
    work,           \* the catalog commands work on
    head,           \* the catalog merged last
    command,        \* migrate-retained-delivery or archive-import, under way
    store,          \* the archive store, a directory of the operator's
    inventory,      \* the identities its inventory lists
    maxArchives,
    service,        \* the configuration and the record of the watcher
    build,          \* the snapshot being built
    snapshot,       \* the snapshot being served
    overwritten,    \* a file was replaced between the two reads of a build
    learned,        \* the identities whose active row clients have read
    events

catalogs == <<work, head>>
archives == <<store, inventory>>
serving == <<service, build, snapshot>>
aside == <<maxArchives, overwritten>>
vars == <<packaging, catalogs, command, archives, aside, serving,
          learned, events>>

Content == {"absent", "torn", "whole"}

Package == [state : {"active", "removed"}, sha : Archive,
            row : Row, tag : Tag \cup {None}, commit : Commit \cup {None}]

\* `table` is downloads.json, `junk` a temporary file left in the root; `locked`
\* is no file: it remembers what was declared when `lock` last succeeded
Catalog == [package : [Identity -> Package \cup {None}],
            declared : Declaration,
            locked : Declaration,
            retained : SUBSET Registry,
            table : [Identity -> {"none", "redirect", "retained"}],
            crates : [Archive -> Content],
            junk : BOOLEAN]

DeliveryMode == {"redirect", "body"}

\* a configuration file, as far as its sections bear on each other
ConfigFile == [delivery : DeliveryMode, archiveStore : BOOLEAN,
               catalog : BOOLEAN,
               watcher : {"none", "malformed", "wellformed"}]

\* one of the bounded events
Event == events < MaxEvents /\ events' = events + 1

----------------------------------------------------------------------------
(* What is derived from a catalog. *)

Locked(c) == {i \in Identity : c.package[i] # None}
Active(c) == {i \in Locked(c) : c.package[i].state = "active"}
Sha(c, i) == c.package[i].sha

\* DownloadCatalog::from_catalog, removed identities included
IsRetained(c, i) == i \in GitIdentity \/ Home[i] \in c.retained

RouteTable(c) ==
    [i \in Identity |-> IF i \notin Locked(c) THEN "none"
                        ELSE IF IsRetained(c, i) THEN "retained" ELSE "redirect"]

RetainedArchives(c) == {Sha(c, i) : i \in {j \in Active(c) : IsRetained(c, j)}}
LegacyArchives(c) == {Sha(c, i) : i \in Active(c)}
Objects(c) == {a \in Archive : c.crates[a] # "absent"}
Whole(c, as) == \A a \in as : c.crates[a] = "whole"

\* load_registry_inputs refuses any entry of the root it does not know
Readable(c) == ~c.junk
Loads(c) == Readable(c) /\ c.table = RouteTable(c)

\* ArtifactMap::load, and load_for_update
ObjectsMatch(c) == Objects(c) = RetainedArchives(c) /\ Whole(c, Objects(c))
ObjectsForUpdate(c) ==
    /\ Objects(c) \in {RetainedArchives(c), LegacyArchives(c)}
    /\ Whole(c, Objects(c))

\* mutant: `lock` trusts the hashes of rows it has recorded before
RowsTrusted(c) == TRUE

\* validate_routed_rows: routed anew, each row is still the one that was recorded
RowsRouted(c) ==
    \A i \in Locked(c) : c.package[i].row = Route[i][c.declared]

\* the command `check`, which routes no row
Checked(c) == Loads(c) /\ ObjectsMatch(c)

\* the commit is the tag's, acceptable, and the archive is packaged from it
OfOnePiece(tag, commit, archive) ==
    /\ commit = Peel[tag]
    /\ archive \in Crate[commit]
    /\ Acceptable(commit)

ASSUME DeliveryAssumption ==
    /\ IsFiniteSet(Archive)
    /\ RegistryPaths \in Seq(Registry)
    /\ None \notin Row
    /\ Route \in [Identity -> [Declaration -> Row \cup {None}]]
    /\ InitialCatalog \in Catalog /\ Checked(InitialCatalog)
    /\ RowsRouted(InitialCatalog)
    /\ InitialCatalog.locked = InitialCatalog.declared
    /\ \A i \in GitIdentity \cap Locked(InitialCatalog) :
           LET p == InitialCatalog.package[i] IN OfOnePiece(p.tag, p.commit, p.sha)
    /\ InitialStore \in [Archive -> Content]
    /\ Configs \subseteq ConfigFile /\ InitialConfig \in ConfigFile
    /\ Limits \subseteq Nat /\ MaxEvents \in Nat
    /\ None \notin Catalog

----------------------------------------------------------------------------
(* `lock` *)

\* what staging writes for new packages
Staged(packages) ==
    LET next == [work EXCEPT !.package = packages, !.locked = work.declared] IN
    [next EXCEPT
        !.table = RouteTable(next),
        !.crates = [a \in Archive |-> IF a \in RetainedArchives(next)
                                      THEN "whole" ELSE "absent"]]

Reconcile(packages, pending) ==
    /\ Readable(work) /\ ObjectsForUpdate(work)
    /\ RowsRouted(Staged(packages))
    /\ RetainedArchives(Staged(packages)) \subseteq Objects(work) \cup pending
    /\ work' = Staged(packages)

LockNew ==
    /\ job.pc = "ready" /\ job.id \notin Locked(work)
    /\ Route[job.id][work.declared] # None
    /\ Reconcile([work.package EXCEPT ![job.id] =
                    [state |-> "active", sha |-> job.archive,
                     row |-> Route[job.id][work.declared], tag |-> job.tag,
                     commit |-> job.commit]],
                 {job.archive})
    /\ job' = Idle
    /\ UNCHANGED <<upstream, moves, jobs, head, command, archives, aside,
                   serving, learned, events>>

LockRemoved(i) ==
    /\ i \in Active(work)
    /\ Event
    /\ Reconcile([work.package EXCEPT ![i].state = "removed"], {})
    /\ UNCHANGED <<packaging, head, command, archives, aside, serving, learned>>

\* a curator takes back what migrate-retained-delivery declared
Undeclare(r) ==
    /\ r \in work.retained
    /\ Event
    /\ work' = [work EXCEPT !.retained = @ \ {r}]
    /\ UNCHANGED <<packaging, head, command, archives, aside, serving, learned>>

\* a home is added, a category may no longer depend on another
EditDeclarations(d) ==
    /\ d # work.declared
    /\ Event
    /\ work' = [work EXCEPT !.declared = d]
    /\ UNCHANGED <<packaging, head, command, archives, aside, serving, learned>>

LockSame ==
    /\ Reconcile(work.package, {})
    /\ work' # work
    /\ UNCHANGED <<packaging, head, command, archives, aside, serving,
                   learned, events>>

\* CI's `check` of what is proposed
Merge ==
    /\ Checked(work) /\ head # work
    /\ head' = work
    /\ UNCHANGED <<packaging, work, command, archives, aside, serving,
                   learned, events>>

----------------------------------------------------------------------------
(* migrate-retained-delivery, without the guard. *)

NoCommand == [pc |-> "idle", paths |-> <<>>, left |-> {}, writing |-> None]

MigrateBegins ==
    /\ command.pc = "idle"
    /\ command' = [NoCommand EXCEPT !.pc = "declare", !.paths = RegistryPaths]
    /\ UNCHANGED <<packaging, catalogs, archives, aside, serving, learned, events>>

\* each file is replaced by a rename, and then all inputs are read again
MigrateDeclares ==
    /\ command.pc = "declare" /\ command.paths # <<>>
    /\ LET r == Head(command.paths) IN
           /\ work' = [work EXCEPT !.retained = @ \cup {r}]
           /\ command' = IF r \in work.retained \/ Readable(work)
                         THEN [command EXCEPT !.paths = Tail(@)]
                         ELSE NoCommand
    /\ UNCHANGED <<packaging, head, archives, aside, serving, learned, events>>

\* the strict load at the end only decides the exit code
MigrateRoutes ==
    /\ command.pc = "declare" /\ command.paths = <<>>
    /\ work' = IF Readable(work)
               THEN [work EXCEPT !.table = RouteTable(work)] ELSE work
    /\ command' = NoCommand
    /\ UNCHANGED <<packaging, head, archives, aside, serving, learned, events>>

----------------------------------------------------------------------------
(* archive-inventory and archive-import, without the guard. *)

TakeInventory ==
    /\ Loads(work)
    /\ inventory' = {i \in Active(work) : work.table[i] = "retained"}
    /\ inventory' # inventory
    /\ UNCHANGED <<packaging, catalogs, command, store, aside, serving,
                   learned, events>>

Listed == {Sha(work, i) : i \in inventory}

\* two identities of one archive are "repeats object"
ListsOnce ==
    \A i, j \in inventory : Sha(work, i) = Sha(work, j) => i = j

ImportBegins ==
    /\ command.pc = "idle" /\ inventory # {}
    /\ ListsOnce
    /\ Loads(work) /\ Listed = RetainedArchives(work)
    /\ command' = [NoCommand EXCEPT !.pc = "import", !.left = Listed]
    /\ UNCHANGED <<packaging, catalogs, archives, aside, serving, learned, events>>

ImportRefuses ==
    \E a \in command.left :
        store[a] # "whole" \/ work.crates[a] = "torn"

ImportKeeps(a) ==
    /\ command.pc = "import" /\ command.writing = None
    /\ a \in command.left
    /\ store[a] = "whole" /\ work.crates[a] = "whole"
    /\ command' = [command EXCEPT !.left = @ \ {a}]
    /\ UNCHANGED <<packaging, catalogs, archives, aside, serving, learned, events>>

\* fs::write: the name comes before the bytes
ImportCreates(a) ==
    /\ command.pc = "import" /\ command.writing = None
    /\ a \in command.left
    /\ store[a] = "whole" /\ work.crates[a] = "absent"
    /\ work' = [work EXCEPT !.crates[a] = "torn"]
    /\ command' = [command EXCEPT !.writing = a]
    /\ UNCHANGED <<packaging, head, archives, aside, serving, learned, events>>

ImportWrites ==
    /\ command.pc = "import" /\ command.writing # None
    /\ work' = [work EXCEPT !.crates[command.writing] = "whole"]
    /\ command' = [command EXCEPT !.writing = None, !.left = @ \ {command.writing}]
    /\ UNCHANGED <<packaging, head, archives, aside, serving, learned, events>>

ImportEnds ==
    /\ command.pc = "import" /\ command.writing = None
    /\ command.left = {} \/ ImportRefuses
    /\ command' = NoCommand
    /\ UNCHANGED <<packaging, catalogs, archives, aside, serving, learned, events>>

----------------------------------------------------------------------------
(* What befalls a command, and what an operator does about it. *)

\* between create and rename the migration leaves its temporary file
CommandKilled ==
    /\ command.pc # "idle"
    /\ Event
    /\ command' = NoCommand
    /\ \/ work' = work
       \/ command.pc = "declare" /\ work' = [work EXCEPT !.junk = TRUE]
    /\ UNCHANGED <<packaging, head, archives, aside, serving, learned>>

RemoveLeftovers ==
    /\ command.pc = "idle"
    /\ work.junk \/ \E a \in Archive : work.crates[a] = "torn"
    /\ Event
    /\ work' = [work EXCEPT !.junk = FALSE,
                            !.crates = [a \in Archive |->
                                IF @[a] = "torn" THEN "absent" ELSE @[a]]]
    /\ UNCHANGED <<packaging, head, command, archives, aside, serving, learned>>

\* a copy into the store, over what was there
DepositBegins(a) ==
    /\ Event
    /\ store' = [store EXCEPT ![a] = "torn"]
    /\ UNCHANGED <<packaging, catalogs, command, inventory, aside, serving, learned>>

DepositEnds(a) ==
    /\ store[a] = "torn"
    /\ store' = [store EXCEPT ![a] = "whole"]
    /\ UNCHANGED <<packaging, catalogs, command, inventory, aside, serving,
                   learned, events>>

----------------------------------------------------------------------------
(* The service: a configuration, the record of its watcher, a build. *)

NoBuild == [pc |-> "none", catalog |-> None, left |-> {}, path |-> None,
            read |-> [i \in Identity |-> "absent"]]

Building(c) == [NoBuild EXCEPT !.pc = "load", !.catalog = c]

\* a watcher or a static catalog, and a store for body mode alone
Valid(file) ==
    /\ file.archiveStore = (file.delivery = "body")
    /\ file.catalog = (file.watcher = "none")
    /\ file.watcher # "malformed"

Configured(file, record) ==
    [mode |-> file.delivery, watched |-> file.watcher # "none",
     record |-> record, refused |-> None]

\* a watcher starts from its record, a first start and a static catalog from
\* what is checked out
Restart(file) ==
    /\ Event
    /\ Valid(file)
    /\ service' = Configured(file, service.record)
    /\ build' = Building(IF service'.watched /\ service.record # None
                         THEN service.record ELSE head)
    /\ snapshot' = None
    /\ UNCHANGED <<packaging, catalogs, command, archives, aside, learned>>

\* check_transition; `delivery` is no part of the topology it compares
Forward(accepted, candidate) ==
    /\ Loads(accepted) /\ Loads(candidate)
    /\ \A i \in Locked(accepted) : candidate.package[i] = accepted.package[i]
    /\ Whole(candidate, RetainedArchives(candidate))

\* a poll that finds another commit at the tip
Poll ==
    /\ service.watched /\ build.pc = "none" /\ snapshot # None
    /\ head \notin {service.record, service.refused}
    /\ IF Forward(service.record, head)
       THEN build' = Building(head) /\ UNCHANGED service
       ELSE service' = [service EXCEPT !.refused = head] /\ UNCHANGED build
    /\ UNCHANGED <<packaging, catalogs, command, archives, aside, snapshot,
                   learned, events>>

\* mutant: archives are projected for Git identities alone
ProjectedGitOnly(c) == {Sha(c, i) : i \in Active(c) \cap GitIdentity}

\* the archive bodies of CatalogProjection
Projected(c) == {Sha(c, i) : i \in {j \in Active(c) : IsRetained(c, j)}}

\* ProjectionAccounting, which knows nothing of body mode
WithinLimits(c) == Cardinality(Projected(c)) <= maxArchives

\* projected_bodies routes each row anew, and compares
RowsProject(c) ==
    \A i \in Locked(c) : LET routed == Route[i][c.declared] IN
        routed # None /\ routed = c.package[i].row

\* build_snapshot up to its projection
Projects(c) ==
    Loads(c) /\ ObjectsMatch(c) /\ RowsProject(c) /\ WithinLimits(c)

\* the index rows of a projection: those of removed identities are yanked
Unyanked(c) == {i \in Locked(c) : c.package[i].state # "removed"}

\* in body mode every archive that is not projected is read from the store
FromStore(c) ==
    IF service.mode = "redirect" THEN {}
    ELSE {i \in Locked(c) : Sha(c, i) \notin Projected(c)}

BuildProjects ==
    /\ build.pc = "load" /\ Projects(build.catalog)
    /\ FromStore(build.catalog) # {}
    /\ build' = [build EXCEPT !.pc = "hash", !.left = FromStore(build.catalog)]
    /\ UNCHANGED <<packaging, catalogs, command, archives, aside, service,
                   snapshot, learned, events>>

Stored(i) == store[Sha(build.catalog, i)]

DigestMatches(i) == Stored(i) = "whole"

\* body_bytes: the file is hashed, and then read once more
HashBody(i) ==
    /\ build.pc = "hash" /\ i \in build.left
    /\ DigestMatches(i)
    /\ build' = [build EXCEPT !.pc = "read", !.path = i]
    /\ UNCHANGED <<packaging, catalogs, command, archives, aside, service,
                   snapshot, learned, events>>

ReadBody ==
    /\ build.pc = "read"
    /\ build' = [build EXCEPT !.pc = "hash", !.path = None,
                              !.left = @ \ {build.path},
                              !.read[build.path] = Stored(build.path)]
    /\ overwritten' = (overwritten \/ Stored(build.path) # "whole")
    /\ UNCHANGED <<packaging, catalogs, command, archives, maxArchives, service,
                   snapshot, learned, events>>

BuildFails ==
    \/ build.pc = "load" /\ ~Projects(build.catalog)
    \/ build.pc = "hash" /\ \E i \in build.left : ~DigestMatches(i)

\* a reload keeps what is served, a start ends the process
GiveUpBuild ==
    /\ BuildFails
    /\ build' = NoBuild
    /\ service' = IF snapshot = None THEN service
                  ELSE [service EXCEPT !.refused = build.catalog]
    /\ UNCHANGED <<packaging, catalogs, command, archives, aside, snapshot,
                   learned, events>>

\* some client reads each index before it is replaced
Publish ==
    /\ \/ build.pc = "load" /\ Projects(build.catalog) /\ FromStore(build.catalog) = {}
       \/ build.pc = "hash" /\ build.left = {}
    /\ snapshot' = [mode |-> service.mode, catalog |-> build.catalog,
                    read |-> build.read]
    /\ service' = IF service.watched
                  THEN [service EXCEPT !.record = build.catalog] ELSE service
    /\ build' = NoBuild
    /\ learned' = learned \cup Unyanked(build.catalog)
    /\ UNCHANGED <<packaging, catalogs, command, archives, aside, events>>

----------------------------------------------------------------------------
(* Clients. *)

\* /v1/{registry}/{name}/{version}/{sha}, and /crates/{sha}.crate
DownloadPath(i) == <<"v1", i>>
CratePath(a) == <<"crates", a>>

RoutePaths(c) ==
    {DownloadPath(i) : i \in Locked(c)} \cup {CratePath(a) : a \in Projected(c)}

Body(a, content) == [status |-> 200, sha |-> a, content |-> content]
Redirect(to) == [status |-> 302, to |-> to]
NotFound == [status |-> 404]

Destination(c, i) == IF IsRetained(c, i) THEN CratePath(Sha(c, i))
                     ELSE <<"crates.io", Sha(c, i)>>

\* body mode turns each redirect into the body it leads to
Prepared(s, path) ==
    LET c == s.catalog
        x == path[2]
    IN  CASE path[1] = "crates" -> Body(x, "whole")
          [] path[1] = "v1" /\ s.mode = "redirect" -> Redirect(Destination(c, x))
          [] OTHER -> Body(Sha(c, x), IF Sha(c, x) \in Projected(c)
                                      THEN "whole" ELSE s.read[x])

\* a GET of a canonical path
Evaluate(s, path) ==
    IF path \in RoutePaths(s.catalog) THEN Prepared(s, path) ELSE NotFound

\* Cargo follows the redirect; crates.io keeps what it lists
Download(s, i) ==
    LET first == Evaluate(s, DownloadPath(i)) IN
    IF first.status # 302 THEN first
    ELSE IF first.to[1] = "crates.io" THEN Body(Sha(s.catalog, i), "whole")
         ELSE Evaluate(s, first.to)

----------------------------------------------------------------------------

Init ==
    /\ PackagingInit
    /\ work = InitialCatalog /\ head = InitialCatalog
    /\ command = NoCommand
    /\ store = InitialStore /\ inventory = {}
    /\ maxArchives \in Limits
    /\ service = Configured(InitialConfig, None)
    /\ build = Building(InitialCatalog)
    /\ snapshot = None
    /\ overwritten = FALSE /\ learned = {}
    /\ events = 0

\* only what no lock has is fetched
Fetching ==
    /\ PackagingNext
    /\ job'.id \notin Locked(work)
    /\ UNCHANGED <<catalogs, command, archives, aside, serving, learned, events>>

Next ==
    \/ Fetching
    \/ LockNew \/ LockSame \/ Merge
    \/ \E i \in Identity : LockRemoved(i) \/ HashBody(i)
    \/ \E r \in Registry : Undeclare(r)
    \/ \E d \in Declaration : EditDeclarations(d)
    \/ MigrateBegins \/ MigrateDeclares \/ MigrateRoutes
    \/ TakeInventory \/ ImportBegins \/ ImportWrites \/ ImportEnds
    \/ CommandKilled \/ RemoveLeftovers
    \/ \E a \in Archive :
           \/ ImportKeeps(a) \/ ImportCreates(a)
           \/ DepositBegins(a) \/ DepositEnds(a)
    \/ \E file \in Configs : Restart(file)
    \/ Poll \/ BuildProjects \/ ReadBody \/ GiveUpBuild \/ Publish

Spec == Init /\ [][Next]_vars

----------------------------------------------------------------------------
(* Properties. *)

\* The type invariant.
TypeOK ==
    /\ PackagingTypeOK
    /\ work \in Catalog /\ head \in Catalog
    /\ command \in [pc : {"idle", "declare", "import"}, paths : Seq(Registry),
                    left : SUBSET Archive, writing : Archive \cup {None}]
    /\ store \in [Archive -> Content] /\ inventory \subseteq Identity
    /\ maxArchives \in Limits
    /\ service \in [mode : DeliveryMode, watched : BOOLEAN,
                    record : Catalog \cup {None}, refused : Catalog \cup {None}]
    /\ build \in [pc : {"none", "load", "hash", "read"},
                  catalog : Catalog \cup {None}, left : SUBSET Identity,
                  path : Identity \cup {None}, read : [Identity -> Content]]
    /\ snapshot \in {None} \cup [mode : DeliveryMode, catalog : Catalog,
                                 read : [Identity -> Content]]
    /\ overwritten \in BOOLEAN /\ learned \subseteq Identity
    /\ events \in 0 .. MaxEvents

\* What `lock` left and `check` let through, the service can build.  `check`
\* (main.rs) routes no row, the build (render.rs) refuses one that routes to
\* another than the recorded: it is `lock` that keeps the rows and the
\* declarations together, whatever was edited, added or removed before.  Excepted
\* are declarations edited since the last `lock`, the limits, which `check` does
\* not know, and in body mode archives the store does not have, those of removed
\* identities included (the inventory lists none).
LockedCatalogBuilds ==
    BuildFails =>
        \/ build.catalog.declared # build.catalog.locked
        \/ Cardinality(RetainedArchives(build.catalog)) > maxArchives
        \/ /\ service.mode = "body"
           /\ \E i \in Locked(build.catalog) \ {j \in Active(build.catalog) :
                                                   IsRetained(build.catalog, j)} :
                  store[Sha(build.catalog, i)] # "whole"

\* A row a client has once read keeps resolving, to the very bytes its checksum
\* names, in every snapshot whose catalog has the identity: over merges, restarts
\* in the other mode, migrations and removals.  Excepted are a removed identity
\* whose retained archive nobody else has, in redirect mode, and a file of the
\* store that was overwritten between body_bytes' two reads.
LearnedRowsResolve ==
    snapshot # None =>
        \A i \in learned \cap Locked(snapshot.catalog) :
            LET c == snapshot.catalog IN
            \/ Download(snapshot, i) = Body(Sha(c, i), "whole")
            \/ /\ Download(snapshot, i) = NotFound
               /\ c.package[i].state = "removed" /\ IsRetained(c, i)
               /\ snapshot.mode = "redirect"
            \/ overwritten /\ snapshot.mode = "body"

\* The evidence of a published Git package is of one piece: the commit is that of
\* the tag object recorded, and the archive what its checkout packages to, whatever
\* the tag's name pointed at meanwhile.
ServedIsWhatWasTagged ==
    \A i \in GitIdentity \cap Locked(work) :
        LET p == work.package[i] IN OfOnePiece(p.tag, p.commit, p.sha)

=============================================================================
