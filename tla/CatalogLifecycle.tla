------------------------- MODULE CatalogLifecycle -------------------------
(***************************************************************************)
(* The catalog's contents from an edit of the declarations to what clients  *)
(* are served: `lock` and `update-apply` generate the locks, a merge takes  *)
(* what loads strictly, the release gate (verify-monotonic) guards the      *)
(* published site and check_transition guards the served commit.  Each      *)
(* command is one step here: CatalogTransaction has its interleavings.      *)
(*                                                                          *)
(* A package name is a key of one registry and keeps one source class.      *)
(***************************************************************************)
EXTENDS Naturals, FiniteSets

CONSTANTS
    Registry, Key, Category,
    Name,           \* package names; keys of two registries may share one
    RegistryOf,     \* [Key \cup Category -> Registry]
    NameOf,         \* [Key -> Name]
    PublishKey,     \* the keys whose identities come from Git tags
    Identity,       \* package versions, and tags
    KeyOf,          \* [Identity -> Key]
    Evidence,       \* what a fetch of an identity may bring: archive and row
    Deps,           \* [Evidence -> SUBSET Name]: what the row depends on
    InitialCatalog, \* the first declarations, without locks
    None,
    MaxEdits

Mirror == {i \in Identity : KeyOf[i] \notin PublishKey}

VARIABLES
    work,           \* the catalog the curator works on
    head,           \* the catalog on the protected branch
    released,       \* the catalog of the published site, or None
    served,         \* the catalog the watcher serves, or None
    edits,
    admitted        \* the identities update-apply has added

vars == <<work, head, released, served, edits, admitted>>

Download == {"static", "router", "native"}

Package ==
    [state : {"active", "removed"}, evidence : Evidence,
     row : [Name -> Registry \cup {None}]]

(***************************************************************************)
(* declared and locked are the registries with a .toml and a .lock; home,   *)
(* edges and desired what the .toml files say, download and anchor what     *)
(* they and the .lock files say, bodies the retained archives.              *)
(***************************************************************************)
Catalog ==
    [declared : SUBSET Registry, home : [Key -> Category \cup {None}],
     edges : SUBSET (Category \X Category), desired : SUBSET Identity,
     download : [Registry -> Download],
     locked : SUBSET Registry, anchor : [Key -> Category \cup {None}],
     lockDownload : [Registry -> Download],
     package : [Identity -> Package \cup {None}], bodies : SUBSET Evidence]

ASSUME LifecycleAssumption ==
    /\ RegistryOf \in [Key \cup Category -> Registry]
    /\ NameOf \in [Key -> Name] /\ Deps \in [Evidence -> SUBSET Name]
    /\ PublishKey \subseteq Key
    /\ KeyOf \in [Identity -> Key]
    /\ None \notin Registry \cup Category
    /\ None \notin Package \cup Catalog
    /\ InitialCatalog \in Catalog
    /\ InitialCatalog.locked = {}
    /\ InitialCatalog.package = [i \in Identity |-> None]
    /\ InitialCatalog.anchor = [k \in Key |-> None]
    /\ MaxEdits \in Nat

----------------------------------------------------------------------------
(* Reading a catalog. *)

Homed(c) == {k \in Key : c.home[k] # None}

Known(c) == {i \in Identity : c.package[i] # None}

Active(c) == {i \in Known(c) : c.package[i].state = "active"}

\* the retained archives a complete catalog has: those of active Git tags
Bodies(package) ==
    {package[i].evidence : i \in {j \in Identity \ Mirror :
        package[j] # None /\ package[j].state = "active"}}

\* resolve_dependency: the home in the row's own registry, or all others
Targets(c, registry, name) ==
    LET all == {k \in Homed(c) : NameOf[k] = name}
        own == {k \in all : RegistryOf[k] = registry}
    IN IF own # {} THEN own ELSE all

\* the routed row: every dependency has one home, and the edge to it exists
Routable(c, i, e) ==
    \A name \in Deps[e] :
        \E k \in Key :
            /\ Targets(c, RegistryOf[KeyOf[i]], name) = {k}
            /\ <<c.home[KeyOf[i]], c.home[k]>> \in c.edges

Row(c, i, e) ==
    [name \in Name |->
        IF name \notin Deps[e] THEN None
        ELSE RegistryOf[CHOOSE k \in Key :
                 k \in Targets(c, RegistryOf[KeyOf[i]], name)]]

\* mutant: the routes of known identities are not computed again
RowsTrusted(c) == TRUE

\* validate_routed_rows
RowsRouted(c) ==
    \A i \in Known(c) :
        /\ Routable(c, i, c.package[i].evidence)
        /\ c.package[i].row = Row(c, i, c.package[i].evidence)

\* validate_catalog: the source-specific endpoint serves one source class
PolicyHolds(c) ==
    /\ \A k \in Homed(c) : RegistryOf[k] \in c.declared
    /\ \A r \in c.declared :
          LET keys == {k \in Homed(c) : RegistryOf[k] = r} IN
          c.download[r] = "static" =>
              keys \subseteq PublishKey \/ keys \cap PublishKey = {}

\* is_allowed_download_migration
MayMigrate(before, after) ==
    \/ before = after
    \/ before = "static" /\ after = "router"
    \/ before = "router" /\ after = "native"

\* mutant: a removed identity may be desired again
Reactivable(c) ==
    /\ c.locked \subseteq c.declared
    /\ \A r \in c.locked : MayMigrate(c.lockDownload[r], c.download[r])
    /\ \A k \in Key : c.anchor[k] # None => c.home[k] = c.anchor[k]

\* validate_input_for_update and validate_desired_against_history
Updatable(c) ==
    /\ c.locked \subseteq c.declared
    /\ \A r \in c.locked : MayMigrate(c.lockDownload[r], c.download[r])
    /\ \A k \in Key : c.anchor[k] # None => c.home[k] = c.anchor[k]
    /\ c.desired \cap Known(c) \subseteq Active(c)

\* what loads strictly, passes the policy and renders
Strict(c) ==
    /\ Updatable(c) /\ PolicyHolds(c) /\ RowsRouted(c)
    /\ c.locked = c.declared /\ c.anchor = c.home
    /\ c.lockDownload = c.download
    /\ c.desired = Active(c)
    /\ c.bodies = Bodies(c.package)

----------------------------------------------------------------------------
(* Generating the locks. *)

\* mutant: what is no longer desired is dropped
NextPackageDropped(c, i, found) ==
    IF i \in Known(c) THEN IF i \in c.desired THEN c.package[i] ELSE None
    ELSE IF i \in c.desired
      THEN [state |-> "active", evidence |-> found[i], row |-> Row(c, i, found[i])]
    ELSE None

\* mutant: what is desired is resolved anew
NextPackageRefreshed(c, i, found) ==
    IF i \in c.desired
      THEN [state |-> "active", evidence |-> found[i], row |-> Row(c, i, found[i])]
    ELSE IF i \in Known(c) THEN [c.package[i] EXCEPT !.state = "removed"]
    ELSE None

\* prepare_next_locks and resolve_new_packages
NextPackage(c, i, found) ==
    IF i \in Known(c)
      THEN IF i \in c.desired THEN c.package[i]
           ELSE [c.package[i] EXCEPT !.state = "removed"]
    ELSE IF i \in c.desired
      THEN [state |-> "active", evidence |-> found[i], row |-> Row(c, i, found[i])]
    ELSE None

Generated(c, found) ==
    LET package == [i \in Identity |-> NextPackage(c, i, found)] IN
    [c EXCEPT !.locked = c.declared, !.anchor = c.home,
              !.lockDownload = c.download, !.package = package,
              !.bodies = Bodies(package)]

\* the archives a staged catalog cannot copy and has not just fetched
MissingBodies(c, found) ==
    Bodies(Generated(c, found).package)
        \ (c.bodies \cup {found[i] : i \in (c.desired \ Known(c)) \ Mirror})

\* reconcile_with_mode up to the staged copy; found is what the network has
\* for the new identities
Stageable(c, found) ==
    /\ Updatable(c) /\ PolicyHolds(c) /\ RowsRouted(c)
    /\ \A i \in c.desired \ Known(c) :
          c.home[KeyOf[i]] # None /\ Routable(c, i, found[i])

\* stage_catalog and validate_staged_catalog
Reconciles(c, found) ==
    /\ Stageable(c, found)
    /\ MissingBodies(c, found) = {}
    /\ Strict(Generated(c, found))

Fetches(c) ==
    LET new == c.desired \ Known(c) IN
    {[i \in Identity |-> IF i \in new THEN f[i] ELSE CHOOSE e \in Evidence : TRUE] :
        f \in [new -> Evidence]}

Init ==
    /\ work = InitialCatalog /\ head = InitialCatalog
    /\ released = None /\ served = None
    /\ edits = 0 /\ admitted = {}

\* validate_mirror_admissions without a batch: only before the first locks
DirectAllowed == (work.desired \ Known(work)) \cap Mirror = {} \/ work.locked = {}

\* `lock`
Lock ==
    /\ DirectAllowed
    /\ \E found \in Fetches(work) :
          /\ Reconciles(work, found)
          /\ work' = Generated(work, found)
    /\ UNCHANGED <<head, released, served, edits, admitted>>

\* `update-apply`: a batch of new mirror versions under declared names
UpdateApply ==
    /\ Strict(work)
    /\ \E batch \in SUBSET (Mirror \ Known(work)) :
          LET next == [work EXCEPT !.desired = @ \cup batch] IN
          /\ batch # {}
          /\ \A i \in batch : work.home[KeyOf[i]] # None
          /\ \E found \in Fetches(next) :
                /\ Reconciles(next, found)
                /\ work' = Generated(next, found)
          /\ admitted' = admitted \cup batch
    /\ UNCHANGED <<head, released, served, edits>>

----------------------------------------------------------------------------
(* The curator edits declarations, one at a time, and may give up.           *)

Edited(c) ==
    /\ edits < MaxEdits /\ edits' = edits + 1
    /\ work' = c
    /\ UNCHANGED <<head, released, served, admitted>>

EditRegistries ==
    \E r \in Registry \ work.declared :
        Edited([work EXCEPT !.declared = @ \cup {r}])

EditHomes ==
    \E k \in Key, to \in Category \cup {None} :
        /\ to # work.home[k]
        /\ to # None => RegistryOf[to] = RegistryOf[k]
        /\ Edited([work EXCEPT !.home[k] = to])

EditEdges ==
    \E edge \in Category \X Category :
        \/ edge \in work.edges /\ Edited([work EXCEPT !.edges = @ \ {edge}])
        \/ edge \notin work.edges /\ Edited([work EXCEPT !.edges = @ \cup {edge}])

EditDesired ==
    \E i \in Identity :
        \/ i \in work.desired /\ Edited([work EXCEPT !.desired = @ \ {i}])
        \/ /\ i \notin work.desired /\ work.home[KeyOf[i]] # None
           /\ Edited([work EXCEPT !.desired = @ \cup {i}])

EditDownload ==
    \E r \in work.declared, to \in Download :
        to # work.download[r] /\ Edited([work EXCEPT !.download[r] = to])

Discard ==
    /\ work' = head /\ work # head
    /\ UNCHANGED <<head, released, served, edits, admitted>>

----------------------------------------------------------------------------
(* From the branch to the clients. *)

\* protected CI: `check`, a render, and a `lock` that changes nothing; what it
\* compares with the published site is left to Release
Merge ==
    /\ Strict(work) /\ head # work
    /\ head' = work
    /\ UNCHANGED <<work, released, served, edits, admitted>>

\* verify_v4_to_v4
Monotonic(prev, next) ==
    /\ prev.declared \subseteq next.declared
    /\ \A r \in prev.declared :
          \/ prev.download[r] = next.download[r]
          \/ prev.download[r] = "static" /\ next.download[r] = "router"
    /\ \A k \in Homed(prev) :
          /\ next.home[k] = prev.home[k]
          /\ {e \in next.edges : e[1] = prev.home[k]}
               = {e \in prev.edges : e[1] = prev.home[k]}
    /\ \A i \in Known(prev) :
          /\ i \in Known(next)
          /\ next.package[i].evidence = prev.package[i].evidence
          /\ next.package[i].row = prev.package[i].row
          /\ i \notin Active(prev) => i \notin Active(next)

Release ==
    /\ Strict(head)
    /\ released # None => Monotonic(released, head)
    /\ released' = head
    /\ UNCHANGED <<work, head, served, edits, admitted>>

\* check_transition
ChecksTransition(accepted, candidate) ==
    /\ Strict(accepted) /\ Strict(candidate)
    /\ accepted.declared = candidate.declared
    /\ \A r \in accepted.declared :
          MayMigrate(accepted.download[r], candidate.download[r])
    /\ \A i \in Known(accepted) :
          /\ candidate.package[i] = accepted.package[i]
          /\ candidate.home[KeyOf[i]] = accepted.home[KeyOf[i]]

Serve ==
    /\ Strict(head)
    /\ served # None => ChecksTransition(served, head)
    /\ served' = head
    /\ UNCHANGED <<work, head, released, edits, admitted>>

Next ==
    \/ EditRegistries \/ EditHomes \/ EditEdges \/ EditDesired \/ EditDownload
    \/ Discard \/ Lock \/ UpdateApply \/ Merge \/ Release \/ Serve

Spec == Init /\ [][Next]_vars

----------------------------------------------------------------------------
(* Properties. *)

\* The type invariant.
TypeOK ==
    /\ {work, head} \subseteq Catalog
    /\ {released, served} \subseteq Catalog \cup {None}
    /\ edits \in 0 .. MaxEdits /\ admitted \subseteq Identity

\* next has all that prev has, and undoes nothing of it
Extends(prev, next) ==
    /\ \A k \in Homed(prev) : next.home[k] = prev.home[k]
    /\ \A i \in Known(prev) :
          /\ i \in Known(next)
          /\ next.package[i].evidence = prev.package[i].evidence
          /\ next.package[i].row = prev.package[i].row
          /\ i \in Active(next) => i \in Active(prev)

\* Once the branch has locks, whatever the curator edits, gives up, locks and
\* applies between two merges: homes, hashes and routed rows stay, identities
\* are added or go from active to removed.
HistoryIrreversible ==
    [][head.locked # {} => Extends(head, head')]_vars

\* A route that clients have seen is what the catalog's homes give for ever:
\* no later home, nearer or rivalling, takes a dependency over.
RoutesPermanent ==
    [][ head.locked # {} =>
          \A i \in Known(head) :
              /\ Routable(head', i, head.package[i].evidence)
              /\ Row(head', i, head.package[i].evidence)
                    = head.package[i].row ]_vars

\* What passes the checks before staging passes those after it: no archive
\* is missing and the generated catalog is strict.
StagedIsValid ==
    \A found \in Fetches(work) :
        Stageable(work, found) => Reconciles(work, found)

\* Reconciling a complete catalog again changes nothing.
SecondLockIsNoOp ==
    Strict(work) =>
        \A found \in Fetches(work) :
            Reconciles(work, found) /\ Generated(work, found) = work

\* The release gate stops no merged catalog but one that changes a category's
\* edges or goes back on, or goes native with, a download template.
GateAcceptsTools ==
    released # None /\ released.edges = head.edges
      /\ (\A r \in Registry : head.download[r] # "native")
        => Monotonic(released, head)

\* The watcher's transition check stops no merged catalog but one that adds a
\* registry, removes an identity, or is two download migrations ahead of what
\* is served.
WatcherAcceptsTools ==
    served # None /\ served.declared = head.declared
      /\ Active(served) \subseteq Active(head)
      /\ (\A r \in Registry :
            head.download[r] = "native" => served.download[r] # "static")
        => ChecksTransition(served, head)

(***************************************************************************)
(* What the documentation says and the code does not do: "only additions +  *)
(* active->removed are valid" of a catalog's successors, and removal is a   *)
(* documented operation; the watcher refuses to serve its result.           *)
(***************************************************************************)
RemovalIsServed ==
    served # None /\ served.declared = head.declared /\ Extends(served, head)
        => ChecksTransition(served, head)

============================================================================
