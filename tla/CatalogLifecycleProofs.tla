----------------------- MODULE CatalogLifecycleProofs -----------------------
(***************************************************************************)
(* For every set of registries, names, identities, every evidence a fetch   *)
(* may bring and any number of edits: the catalog's history on the          *)
(* protected branch is irreversible.  The invariant is that the working     *)
(* catalog's locks extend those of the branch, whatever its declarations    *)
(* say: commands only ever extend locks, and giving up takes the branch's.  *)
(***************************************************************************)
EXTENDS CatalogLifecycle, TLAPS

\* the locks of next extend those of prev
LocksExtend(prev, next) ==
    /\ \A k \in Key : prev.anchor[k] # None => next.anchor[k] = prev.anchor[k]
    /\ \A i \in Known(prev) :
          /\ i \in Known(next)
          /\ next.package[i].evidence = prev.package[i].evidence
          /\ next.package[i].row = prev.package[i].row
          /\ i \in Active(next) => i \in Active(prev)

Linked ==
    head.locked # {} => head.anchor = head.home /\ LocksExtend(head, work)

IInv == TypeOK /\ Linked

----------------------------------------------------------------------------
(* The catalog operators. *)

\* A record of the package set is told from an absent one.
LEMMA PackageOf ==
    ASSUME NEW c \in Catalog, NEW i \in Identity
    PROVE  /\ i \in Known(c) <=> c.package[i] # None
           /\ i \in Known(c) => c.package[i] \in Package
           /\ i \in Active(c) <=> i \in Known(c) /\ c.package[i].state = "active"
BY DEF Known, Active, Catalog

\* A routable row leads to registries.
LEMMA RowType ==
    ASSUME NEW c \in Catalog, NEW i \in Identity, NEW e \in Evidence,
           Routable(c, i, e)
    PROVE  Row(c, i, e) \in [Name -> Registry \cup {None}]
<1> SUFFICES ASSUME NEW name \in Name, name \in Deps[e]
             PROVE  RegistryOf[CHOOSE k \in Key :
                        k \in Targets(c, RegistryOf[KeyOf[i]], name)] \in Registry
    BY DEF Row
<1> DEFINE P(k) == k \in Targets(c, RegistryOf[KeyOf[i]], name)
<1>1. PICK k \in Key : Targets(c, RegistryOf[KeyOf[i]], name) = {k}
    BY DEF Routable
<1>2. P(k)
    BY <1>1
<1>3. (CHOOSE x \in Key : P(x)) \in Key
    BY <1>2
<1> QED
    BY <1>3, LifecycleAssumption

\* What a generated lock says of an identity.
LEMMA NextPackageType ==
    ASSUME NEW c \in Catalog, NEW found, Stageable(c, found),
           \A i \in c.desired \ Known(c) : found[i] \in Evidence,
           NEW i \in Identity
    PROVE  NextPackage(c, i, found) \in Package \cup {None}
<1>1. CASE i \in Known(c)
    <2>1. c.package[i] \in Package
        BY <1>1, PackageOf
    <2>2. [c.package[i] EXCEPT !.state = "removed"] \in Package
        BY <2>1 DEF Package
    <2> QED
        BY <1>1, <2>1, <2>2 DEF NextPackage
<1>2. CASE i \notin Known(c) /\ i \in c.desired
    <2>1. found[i] \in Evidence /\ Routable(c, i, found[i])
        BY <1>2 DEF Stageable
    <2>2. Row(c, i, found[i]) \in [Name -> Registry \cup {None}]
        BY <2>1, RowType
    <2> QED
        BY <1>2, <2>1, <2>2 DEF NextPackage, Package
<1>3. CASE i \notin Known(c) /\ i \notin c.desired
    BY <1>3 DEF NextPackage
<1> QED
    BY <1>1, <1>2, <1>3

\* What a generated catalog says of homes and identities.
LEMMA GeneratedFields ==
    ASSUME NEW c \in Catalog, NEW found
    PROVE  /\ Generated(c, found).anchor = c.home
           /\ Generated(c, found).package
                = [i \in Identity |-> NextPackage(c, i, found)]
BY DEF Generated, Catalog

\* The archives of a lock are archives.
LEMMA BodiesType ==
    ASSUME NEW package \in [Identity -> Package \cup {None}]
    PROVE  Bodies(package) \subseteq Evidence
<1> SUFFICES ASSUME NEW e \in Bodies(package)
             PROVE  e \in Evidence
    OBVIOUS
<1>1. PICK j \in Identity : package[j] # None /\ e = package[j].evidence
    BY DEF Bodies
<1>2. package[j] \in Package
    BY <1>1
<1> QED
    BY <1>1, <1>2 DEF Package

\* A generated catalog is a catalog.
LEMMA GeneratedType ==
    ASSUME NEW c \in Catalog, NEW found, Stageable(c, found),
           \A i \in c.desired \ Known(c) : found[i] \in Evidence
    PROVE  Generated(c, found) \in Catalog
<1> DEFINE g == Generated(c, found)
           q == [i \in Identity |-> NextPackage(c, i, found)]
<1>1. q \in [Identity -> Package \cup {None}]
    BY NextPackageType
<1>2. Bodies(q) \subseteq Evidence
    BY <1>1, BodiesType
<1>3. g = [c EXCEPT !.locked = c.declared, !.anchor = c.home,
             !.lockDownload = c.download, !.package = q, !.bodies = Bodies(q)]
    BY DEF Generated
<1>4. ASSUME NEW p \in [Identity -> Package \cup {None}],
             NEW b \in SUBSET Evidence
      PROVE  [c EXCEPT !.locked = c.declared, !.anchor = c.home,
                !.lockDownload = c.download, !.package = p, !.bodies = b]
                \in Catalog
    BY DEF Catalog
<1> HIDE DEF g, q
<1>5. g \in Catalog
    BY <1>1, <1>2, <1>3, <1>4
<1> QED
    BY <1>5 DEF g

\* Reconciling extends the locks of its input.
LEMMA GeneratedExtends ==
    ASSUME NEW c \in Catalog, NEW found, Stageable(c, found),
           Generated(c, found) \in Catalog
    PROVE  LocksExtend(c, Generated(c, found))
<1> DEFINE g == Generated(c, found)
<1>0. /\ Generated(c, found).anchor = c.home
      /\ Generated(c, found).package
            = [i \in Identity |-> NextPackage(c, i, found)]
    BY GeneratedFields
<1>1. g.anchor = c.home /\ g.package = [i \in Identity |-> NextPackage(c, i, found)]
    BY <1>0
<1> HIDE DEF g
<1>2. \A k \in Key : c.anchor[k] # None => g.anchor[k] = c.anchor[k]
    BY <1>1 DEF Stageable, Updatable
<1> SUFFICES ASSUME NEW i \in Known(c)
             PROVE  /\ i \in Known(g)
                    /\ g.package[i].evidence = c.package[i].evidence
                    /\ g.package[i].row = c.package[i].row
                    /\ i \in Active(g) => i \in Active(c)
    BY <1>2 DEF LocksExtend, g
<1>3. i \in Identity /\ c.package[i] \in Package
    BY PackageOf DEF Known
<1>4. \/ g.package[i] = c.package[i]
      \/ g.package[i] = [c.package[i] EXCEPT !.state = "removed"]
    BY <1>1, <1>3 DEF NextPackage
<1>5. /\ g.package[i] \in Package
      /\ g.package[i].evidence = c.package[i].evidence
      /\ g.package[i].row = c.package[i].row
      /\ g.package[i].state = "active" => c.package[i].state = "active"
    BY <1>3, <1>4 DEF Package
<1>6. g.package[i] # None
    BY <1>5, LifecycleAssumption
<1> QED
    BY <1>3, <1>5, <1>6 DEF Known, Active

LEMMA ExtendTransitive ==
    ASSUME NEW a, NEW b, NEW c, LocksExtend(a, b), LocksExtend(b, c)
    PROVE  LocksExtend(a, c)
BY DEF LocksExtend

LEMMA SameLocks ==
    ASSUME NEW a, NEW b, b.anchor = a.anchor, b.package = a.package
    PROVE  LocksExtend(a, b)
BY DEF LocksExtend, Known, Active

LEMMA FetchedEvidence ==
    ASSUME NEW c \in Catalog, NEW found \in Fetches(c)
    PROVE  \A i \in c.desired \ Known(c) : found[i] \in Evidence
BY DEF Fetches, Catalog

\* Reconciling a catalog yields one whose locks extend its own.
LEMMA Reconciling ==
    ASSUME NEW c \in Catalog, NEW found \in Fetches(c), Reconciles(c, found)
    PROVE  /\ Generated(c, found) \in Catalog
           /\ LocksExtend(c, Generated(c, found))
<1>1. Stageable(c, found)
    BY DEF Reconciles
<1>2. Generated(c, found) \in Catalog
    BY <1>1, FetchedEvidence, GeneratedType
<1> QED
    BY <1>1, <1>2, GeneratedExtends

----------------------------------------------------------------------------
(* The invariant. *)

LEMMA InitOK ==
    ASSUME Init
    PROVE  IInv
BY LifecycleAssumption DEF Init, IInv, TypeOK, Linked

\* A new working catalog that extends the old one keeps the invariant.
LEMMA WorkExtends ==
    ASSUME IInv, work' \in Catalog, LocksExtend(work, work'),
           UNCHANGED <<head, released, served>>,
           edits' \in 0 .. MaxEdits, admitted' \subseteq Identity
    PROVE  IInv'
<1>1. TypeOK'
    BY DEF IInv, TypeOK
<1>2. Linked'
    BY ExtendTransitive DEF IInv, Linked
<1> QED
    BY <1>1, <1>2 DEF IInv

\* An edit leaves the locks alone.
LEMMA EditedOK ==
    ASSUME IInv, NEW c \in Catalog, Edited(c),
           c.anchor = work.anchor, c.package = work.package
    PROVE  IInv'
<1>1. edits' \in 0 .. MaxEdits
    BY LifecycleAssumption DEF IInv, TypeOK, Edited
<1>2. LocksExtend(work, work')
    BY SameLocks DEF Edited
<1> QED
    BY <1>1, <1>2, WorkExtends DEF IInv, TypeOK, Edited

LEMMA EditsOK ==
    ASSUME IInv,
           EditRegistries \/ EditHomes \/ EditEdges \/ EditDesired \/ EditDownload
    PROVE  IInv'
<1>0. work \in Catalog
    BY DEF IInv, TypeOK
<1>1. CASE EditRegistries
    <2>1. PICK r \in Registry : Edited([work EXCEPT !.declared = @ \cup {r}])
        BY <1>1 DEF EditRegistries
    <2>2. [work EXCEPT !.declared = @ \cup {r}] \in Catalog
        BY <1>0 DEF Catalog
    <2> QED
        BY <1>0, <2>1, <2>2, EditedOK DEF Catalog
<1>2. CASE EditHomes
    <2>1. PICK k \in Key, to \in Category \cup {None} :
                Edited([work EXCEPT !.home[k] = to])
        BY <1>2 DEF EditHomes
    <2>2. [work EXCEPT !.home[k] = to] \in Catalog
        BY <1>0 DEF Catalog
    <2> QED
        BY <1>0, <2>1, <2>2, EditedOK DEF Catalog
<1>3. CASE EditEdges
    <2>1. PICK edge \in Category \X Category :
                \/ Edited([work EXCEPT !.edges = @ \ {edge}])
                \/ Edited([work EXCEPT !.edges = @ \cup {edge}])
        BY <1>3 DEF EditEdges
    <2>2. /\ [work EXCEPT !.edges = @ \ {edge}] \in Catalog
          /\ [work EXCEPT !.edges = @ \cup {edge}] \in Catalog
        BY <1>0 DEF Catalog
    <2> QED
        BY <1>0, <2>1, <2>2, EditedOK DEF Catalog
<1>4. CASE EditDesired
    <2>1. PICK i \in Identity :
                \/ Edited([work EXCEPT !.desired = @ \ {i}])
                \/ Edited([work EXCEPT !.desired = @ \cup {i}])
        BY <1>4 DEF EditDesired
    <2>2. /\ [work EXCEPT !.desired = @ \ {i}] \in Catalog
          /\ [work EXCEPT !.desired = @ \cup {i}] \in Catalog
        BY <1>0 DEF Catalog
    <2> QED
        BY <1>0, <2>1, <2>2, EditedOK DEF Catalog
<1>5. CASE EditDownload
    <2>1. PICK r \in Registry, to \in Download :
                Edited([work EXCEPT !.download[r] = to])
        BY <1>0, <1>5 DEF EditDownload, Catalog
    <2>2. [work EXCEPT !.download[r] = to] \in Catalog
        BY <1>0 DEF Catalog
    <2> QED
        BY <1>0, <2>1, <2>2, EditedOK DEF Catalog
<1> QED
    BY <1>1, <1>2, <1>3, <1>4, <1>5

LEMMA LockOK ==
    ASSUME IInv, Lock
    PROVE  IInv'
<1>1. PICK found \in Fetches(work) :
            Reconciles(work, found) /\ work' = Generated(work, found)
    BY DEF Lock
<1>2. work' \in Catalog /\ LocksExtend(work, work')
    BY <1>1, Reconciling DEF IInv, TypeOK
<1> QED
    BY <1>2, WorkExtends DEF Lock, IInv, TypeOK

LEMMA UpdateApplyOK ==
    ASSUME IInv, UpdateApply
    PROVE  IInv'
<1>1. PICK batch \in SUBSET (Mirror \ Known(work)) :
            /\ \E found \in Fetches([work EXCEPT !.desired = @ \cup batch]) :
                  /\ Reconciles([work EXCEPT !.desired = @ \cup batch], found)
                  /\ work' = Generated([work EXCEPT !.desired = @ \cup batch], found)
            /\ admitted' = admitted \cup batch
    BY DEF UpdateApply
<1> DEFINE next == [work EXCEPT !.desired = @ \cup batch]
<1>2. batch \subseteq Identity
    BY DEF Mirror
<1>3. next \in Catalog /\ next.anchor = work.anchor /\ next.package = work.package
    BY <1>2 DEF IInv, TypeOK, Catalog
<1>4. PICK found \in Fetches(next) :
            Reconciles(next, found) /\ work' = Generated(next, found)
    BY <1>1
<1> HIDE DEF next
<1>5. work' \in Catalog /\ LocksExtend(next, work')
    BY <1>3, <1>4, Reconciling
<1>6. LocksExtend(work, work')
    BY <1>3, <1>5, SameLocks, ExtendTransitive
<1>7. admitted' \subseteq Identity
    BY <1>1, <1>2 DEF IInv, TypeOK
<1> QED
    BY <1>5, <1>6, <1>7, WorkExtends DEF UpdateApply, IInv, TypeOK

\* The branch and the working catalog become the same.
LEMMA MeetOK ==
    ASSUME IInv, Discard \/ Merge
    PROVE  IInv'
<1>1. work' = head' /\ LocksExtend(head', work')
    BY SameLocks DEF Discard, Merge
<1>2. TypeOK'
    BY DEF IInv, TypeOK, Discard, Merge
<1>3. head'.locked # {} => head'.anchor = head'.home
    BY DEF IInv, Linked, Discard, Merge, Strict
<1> QED
    BY <1>1, <1>2, <1>3 DEF IInv, Linked

LEMMA PublishOK ==
    ASSUME IInv, Release \/ Serve
    PROVE  IInv'
<1>1. UNCHANGED <<work, head>>
    BY DEF Release, Serve
<1>2. TypeOK'
    BY DEF IInv, TypeOK, Release, Serve
<1> QED
    BY <1>1, <1>2 DEF IInv, Linked

LEMMA StepOK ==
    ASSUME IInv, [Next]_vars
    PROVE  IInv'
<1>1. CASE UNCHANGED vars
    BY <1>1 DEF IInv, TypeOK, Linked, vars
<1>2. CASE Next
    BY <1>2, EditsOK, LockOK, UpdateApplyOK, MeetOK, PublishOK DEF Next
<1> QED
    BY <1>1, <1>2

THEOREM Invariant == Spec => []IInv
<1>1. Init => IInv
    BY InitOK
<1>2. IInv /\ [Next]_vars => IInv'
    BY StepOK
<1> QED
    BY <1>1, <1>2, PTL DEF Spec

(***************************************************************************)
(* Whatever commands and edits a curator interleaves, and whatever the       *)
(* network brings, all four places hold well-formed catalogs.               *)
(***************************************************************************)
THEOREM TypeCorrect == Spec => []TypeOK
<1>1. IInv => TypeOK
    BY DEF IInv
<1> QED
    BY <1>1, Invariant, PTL

\* A merge is the only step of the branch, and takes a strict catalog.
LEMMA HeadExtends ==
    ASSUME IInv, [Next]_vars
    PROVE  [head.locked # {} => Extends(head, head')]_vars
<1> SUFFICES ASSUME head.locked # {}
             PROVE  Extends(head, head')
    OBVIOUS
<1>1. head \in Catalog /\ work \in Catalog
    BY DEF IInv, TypeOK
<1>2. CASE UNCHANGED head
    BY <1>2 DEF Extends
<1>3. CASE Merge
    <2>1. head.anchor = head.home /\ LocksExtend(head, work) /\ head' = work
        BY <1>3 DEF IInv, Linked, Merge
    <2>2. work.anchor = work.home
        BY <1>3 DEF Merge, Strict
    <2> QED
        BY <2>1, <2>2 DEF Extends, LocksExtend, Homed
<1>4. Merge \/ UNCHANGED head
    BY DEF Next, EditRegistries, EditHomes, EditEdges, EditDesired, EditDownload,
           Edited, Discard, Lock, UpdateApply, Release, Serve, vars
<1> QED
    BY <1>2, <1>3, <1>4

(***************************************************************************)
(* The protected branch's history is irreversible: a merge moves no home,   *)
(* changes no evidence or routed row, drops no identity and activates none  *)
(* that was removed, although the curator edits any declaration at will     *)
(* between two merges.                                                      *)
(***************************************************************************)
THEOREM HistoryForever == Spec => HistoryIrreversible
<1>1. IInv /\ [Next]_vars => [head.locked # {} => Extends(head, head')]_vars
    BY HeadExtends
<1> QED
    BY <1>1, Invariant, PTL DEF Spec, HistoryIrreversible

----------------------------------------------------------------------------
(* What the two gates downstream and a second `lock` find.  The second       *)
(* invariant follows the locks from what was released and served to the      *)
(* branch, and from there to the working catalog.                            *)

\* by any number of download migrations
Reaches(before, after) ==
    \/ before = after
    \/ before = "static"
    \/ before = "router" /\ after = "native"

\* next is what commands may have made of prev
Trail(prev, next) ==
    /\ LocksExtend(prev, next)
    /\ prev.locked \subseteq next.locked
    /\ \A r \in prev.locked : Reaches(prev.lockDownload[r], next.lockDownload[r])

\* what is locked has a home for ever, and its archive when it is from Git
Founded(c) ==
    /\ \A i \in Known(c) : c.anchor[KeyOf[i]] # None
    /\ Bodies(c.package) \subseteq c.bodies

Trails ==
    /\ Founded(work) /\ Founded(head)
    /\ Trail(head, work)
    /\ head.locked # {} => Strict(head)
    /\ \A c \in {released, served} :
          c # None => Strict(c) /\ Strict(head) /\ Founded(c) /\ Trail(c, head)

LEMMA TrailTransitive ==
    ASSUME NEW a \in Catalog, NEW b \in Catalog, NEW c \in Catalog,
           Trail(a, b), Trail(b, c)
    PROVE  Trail(a, c)
<1>1. LocksExtend(a, c)
    BY ExtendTransitive DEF Trail
<1>2. \A r \in a.locked : Reaches(a.lockDownload[r], c.lockDownload[r])
    BY DEF Trail, Reaches, Catalog, Download
<1> QED
    BY <1>1, <1>2 DEF Trail

LEMMA SameTrail ==
    ASSUME NEW a, NEW b, b.anchor = a.anchor, b.package = a.package,
           b.locked = a.locked, b.lockDownload = a.lockDownload
    PROVE  Trail(a, b)
BY SameLocks DEF Trail, Reaches

LEMMA SameFounded ==
    ASSUME NEW a, NEW b, b.anchor = a.anchor, b.package = a.package,
           b.bodies = a.bodies, Founded(a)
    PROVE  Founded(b)
BY DEF Founded, Known

LEMMA AllGeneratedFields ==
    ASSUME NEW c \in Catalog, NEW found, NEW g, g = Generated(c, found)
    PROVE  /\ g.declared = c.declared /\ g.home = c.home /\ g.edges = c.edges
           /\ g.desired = c.desired /\ g.download = c.download
           /\ g.locked = c.declared /\ g.anchor = c.home
           /\ g.lockDownload = c.download
           /\ g.bodies = Bodies(g.package)
           /\ \A i \in Identity : g.package[i] = NextPackage(c, i, found)
BY DEF Generated, Catalog

\* Routes are made of homes and edges alone.
HomeIn(targets) == CHOOSE k \in Key : k \in targets

LEMMA SameRoutes ==
    ASSUME NEW a, NEW b, a.home = b.home, a.edges = b.edges, NEW i, NEW e
    PROVE  (Routable(a, i, e) <=> Routable(b, i, e)) /\ Row(a, i, e) = Row(b, i, e)
<1>1. Homed(a) = Homed(b)
    BY DEF Homed
<1>2. \A r, n : Targets(a, r, n) = Targets(b, r, n)
    BY <1>1 DEF Targets
<1>3. Routable(a, i, e) <=> Routable(b, i, e)
    BY <1>2 DEF Routable
<1>4. ASSUME NEW c
      PROVE  Row(c, i, e) = [n \in Name |->
                 IF n \notin Deps[e] THEN None
                 ELSE RegistryOf[HomeIn(Targets(c, RegistryOf[KeyOf[i]], n))]]
    BY DEF Row, HomeIn
<1>5. Row(a, i, e) = Row(b, i, e)
    BY <1>2, <1>4
<1> QED
    BY <1>3, <1>5

\* What becomes of one identity.
LEMMA GeneratedPackage ==
    ASSUME NEW c \in Catalog, NEW found, Stageable(c, found),
           \A i \in c.desired \ Known(c) : found[i] \in Evidence,
           NEW g, g = Generated(c, found), NEW i \in Identity
    PROVE  /\ i \in Known(g) <=> i \in Known(c) \cup c.desired
           /\ i \in Active(g) <=> i \in c.desired
           /\ i \in Known(c) =>
                 /\ g.package[i].evidence = c.package[i].evidence
                 /\ g.package[i].row = c.package[i].row
           /\ i \in c.desired \ Known(c) =>
                 /\ g.package[i].evidence = found[i]
                 /\ g.package[i].row = Row(c, i, found[i])
           /\ g.package[i] \in Package \cup {None}
<1>1. g.package[i] = NextPackage(c, i, found)
    BY AllGeneratedFields
<1>2. g.package[i] \in Package \cup {None}
    BY <1>1, NextPackageType
<1>3. /\ i \in Known(g) <=> g.package[i] # None
      /\ i \in Active(g) <=> i \in Known(g) /\ g.package[i].state = "active"
    BY DEF Known, Active
<1>4. CASE i \in Known(c)
    <2>1. c.package[i] \in Package /\ (i \in c.desired => c.package[i].state = "active")
        BY <1>4, PackageOf DEF Stageable, Updatable
    <2>2. g.package[i] = IF i \in c.desired THEN c.package[i]
                         ELSE [c.package[i] EXCEPT !.state = "removed"]
        BY <1>1, <1>4 DEF NextPackage
    <2>3. /\ g.package[i] \in Package
          /\ g.package[i].evidence = c.package[i].evidence
          /\ g.package[i].row = c.package[i].row
          /\ g.package[i].state = "active" <=> i \in c.desired
        BY <2>1, <2>2 DEF Package
    <2> QED
        BY <1>2, <1>3, <1>4, <2>3, LifecycleAssumption
<1>5. CASE i \notin Known(c) /\ i \in c.desired
    <2>1. g.package[i] = [state |-> "active", evidence |-> found[i],
                          row |-> Row(c, i, found[i])]
        BY <1>1, <1>5 DEF NextPackage
    <2>2. g.package[i] \in Package
        <3>1. found[i] \in Evidence /\ Routable(c, i, found[i])
            BY <1>5 DEF Stageable
        <3>2. Row(c, i, found[i]) \in [Name -> Registry \cup {None}]
            BY <3>1, RowType
        <3> QED
            BY <2>1, <3>1, <3>2 DEF Package
    <2> QED
        BY <1>2, <1>3, <1>5, <2>1, <2>2, LifecycleAssumption
<1>6. CASE i \notin Known(c) /\ i \notin c.desired
    <2>1. g.package[i] = None
        BY <1>1, <1>6 DEF NextPackage
    <2> QED
        BY <1>2, <1>3, <1>6, <2>1
<1> QED
    BY <1>4, <1>5, <1>6

\* What passes the checks before staging loads strictly after it.
LEMMA GeneratedStrict ==
    ASSUME NEW c \in Catalog, NEW found, Stageable(c, found),
           \A i \in c.desired \ Known(c) : found[i] \in Evidence
    PROVE  Strict(Generated(c, found))
<1>1. PICK g : g = Generated(c, found)
    OBVIOUS
<1>2. /\ g.declared = c.declared /\ g.home = c.home /\ g.edges = c.edges
      /\ g.desired = c.desired /\ g.download = c.download
      /\ g.locked = c.declared /\ g.anchor = c.home
      /\ g.lockDownload = c.download
      /\ g.bodies = Bodies(g.package)
    BY <1>1, AllGeneratedFields
<1>3. c.desired \subseteq Identity
    BY DEF Catalog
<1>4. g.desired = Active(g)
    <2>1. Active(g) \subseteq Identity
        BY DEF Active, Known
    <2> QED
        BY <1>1, <1>2, <1>3, <2>1, GeneratedPackage
<1>5. Updatable(g)
    BY <1>2, <1>4 DEF Updatable, MayMigrate
<1>6. PolicyHolds(g)
    BY <1>2 DEF Stageable, PolicyHolds, Homed
<1>7. RowsRouted(g)
    <2> SUFFICES ASSUME NEW i \in Known(g)
                 PROVE  /\ Routable(g, i, g.package[i].evidence)
                        /\ g.package[i].row = Row(g, i, g.package[i].evidence)
        BY DEF RowsRouted
    <2>1. i \in Identity
        BY DEF Known
    <2>2. \A e : (Routable(g, i, e) <=> Routable(c, i, e)) /\ Row(g, i, e) = Row(c, i, e)
        BY <1>2, SameRoutes
    <2>3. CASE i \in Known(c)
        <3>1. /\ g.package[i].evidence = c.package[i].evidence
              /\ g.package[i].row = c.package[i].row
            BY <1>1, <2>1, <2>3, GeneratedPackage
        <3> QED
            BY <2>2, <2>3, <3>1 DEF Stageable, RowsRouted
    <2>4. CASE i \in c.desired \ Known(c)
        <3>1. /\ g.package[i].evidence = found[i]
              /\ g.package[i].row = Row(c, i, found[i])
            BY <1>1, <2>1, <2>4, GeneratedPackage
        <3> QED
            BY <2>2, <2>4, <3>1 DEF Stageable
    <2> QED
        BY <1>1, <2>1, <2>3, <2>4, GeneratedPackage
<1> QED
    BY <1>1, <1>2, <1>4, <1>5, <1>6, <1>7 DEF Strict

\* The archives it needs are there or were fetched.
LEMMA GeneratedBodies ==
    ASSUME NEW c \in Catalog, NEW found, Stageable(c, found), Founded(c),
           \A i \in c.desired \ Known(c) : found[i] \in Evidence
    PROVE  MissingBodies(c, found) = {}
<1> SUFFICES ASSUME NEW e \in Bodies(Generated(c, found).package)
             PROVE  e \in c.bodies \cup {found[i] : i \in (c.desired \ Known(c)) \ Mirror}
    BY DEF MissingBodies
<1>1. PICK g : g = Generated(c, found)
    OBVIOUS
<1>2. PICK i \in Identity \ Mirror :
            g.package[i] # None /\ g.package[i].state = "active"
            /\ e = g.package[i].evidence
    BY <1>1 DEF Bodies
<1>3. i \in Active(g)
    BY <1>2 DEF Active, Known
<1>4. i \in c.desired
    BY <1>1, <1>3, GeneratedPackage
<1>5. CASE i \in Known(c)
    <2>1. e = c.package[i].evidence /\ c.package[i] # None
          /\ c.package[i].state = "active"
        BY <1>1, <1>2, <1>4, <1>5, GeneratedPackage
           DEF Stageable, Updatable, Active, Known
    <2>2. e \in Bodies(c.package)
        BY <1>2, <2>1 DEF Bodies
    <2> QED
        BY <2>2 DEF Founded
<1>6. CASE i \notin Known(c)
    BY <1>1, <1>2, <1>4, <1>6, GeneratedPackage
<1> QED
    BY <1>5, <1>6

LEMMA GeneratedFounded ==
    ASSUME NEW c \in Catalog, NEW found, Stageable(c, found), Founded(c),
           \A i \in c.desired \ Known(c) : found[i] \in Evidence
    PROVE  Founded(Generated(c, found)) /\ Trail(c, Generated(c, found))
<1>1. PICK g : g = Generated(c, found)
    OBVIOUS
<1>2. /\ g.locked = c.declared /\ g.anchor = c.home
      /\ g.lockDownload = c.download
      /\ g.bodies = Bodies(g.package)
    BY <1>1, AllGeneratedFields
<1>3. ASSUME NEW i \in Known(g) PROVE g.anchor[KeyOf[i]] # None
    <2>1. i \in Identity /\ i \in Known(c) \cup c.desired /\ KeyOf[i] \in Key
        BY <1>1, GeneratedPackage, LifecycleAssumption DEF Known
    <2> QED
        BY <1>2, <2>1 DEF Founded, Stageable, Updatable
<1>4. LocksExtend(c, g)
    BY <1>1, GeneratedType, GeneratedExtends
<1>5. \A r \in c.locked : Reaches(c.lockDownload[r], g.lockDownload[r])
    BY <1>2 DEF Stageable, Updatable, MayMigrate, Reaches
<1> QED
    BY <1>1, <1>2, <1>3, <1>4, <1>5 DEF Founded, Trail, Stageable, Updatable

----------------------------------------------------------------------------

LEMMA InitTrails == Init => Trails
<1> SUFFICES ASSUME Init PROVE Trails
    OBVIOUS
<1>1. Known(InitialCatalog) = {}
    BY LifecycleAssumption DEF Known
<1>2. Bodies(InitialCatalog.package) = {}
    BY LifecycleAssumption DEF Bodies
<1> QED
    BY <1>1, <1>2, SameTrail, LifecycleAssumption DEF Init, Trails, Founded

\* A new working catalog that leaves the trail no other way.
LEMMA WorkTrails ==
    ASSUME IInv, Trails, UNCHANGED <<head, released, served>>,
           work' \in Catalog, Founded(work'), Trail(work, work')
    PROVE  Trails'
<1>1. Trail(head, work')
    BY TrailTransitive DEF IInv, TypeOK, Trails
<1> QED
    BY <1>1 DEF Trails

LEMMA EditTrails ==
    ASSUME IInv, Trails, NEW c \in Catalog, Edited(c),
           c.anchor = work.anchor, c.package = work.package,
           c.locked = work.locked, c.lockDownload = work.lockDownload,
           c.bodies = work.bodies
    PROVE  Trails'
<1>1. work' = c /\ UNCHANGED <<head, released, served>>
    BY DEF Edited
<1>2. Founded(c) /\ Trail(work, c)
    BY SameFounded, SameTrail DEF Trails
<1> QED
    BY <1>1, <1>2, WorkTrails

LEMMA EditsTrails ==
    ASSUME IInv, Trails,
           EditRegistries \/ EditHomes \/ EditEdges \/ EditDesired \/ EditDownload
    PROVE  Trails'
<1>0. work \in Catalog
    BY DEF IInv, TypeOK
<1>1. CASE EditRegistries
    <2>1. PICK r \in Registry : Edited([work EXCEPT !.declared = @ \cup {r}])
        BY <1>1 DEF EditRegistries
    <2>2. [work EXCEPT !.declared = @ \cup {r}] \in Catalog
        BY <1>0 DEF Catalog
    <2> QED
        BY <1>0, <2>1, <2>2, EditTrails DEF Catalog
<1>2. CASE EditHomes
    <2>1. PICK k \in Key, to \in Category \cup {None} :
                Edited([work EXCEPT !.home[k] = to])
        BY <1>2 DEF EditHomes
    <2>2. [work EXCEPT !.home[k] = to] \in Catalog
        BY <1>0 DEF Catalog
    <2> QED
        BY <1>0, <2>1, <2>2, EditTrails DEF Catalog
<1>3. CASE EditEdges
    <2>1. PICK edge \in Category \X Category :
                \/ Edited([work EXCEPT !.edges = @ \ {edge}])
                \/ Edited([work EXCEPT !.edges = @ \cup {edge}])
        BY <1>3 DEF EditEdges
    <2>2. /\ [work EXCEPT !.edges = @ \ {edge}] \in Catalog
          /\ [work EXCEPT !.edges = @ \cup {edge}] \in Catalog
        BY <1>0 DEF Catalog
    <2> QED
        BY <1>0, <2>1, <2>2, EditTrails DEF Catalog
<1>4. CASE EditDesired
    <2>1. PICK i \in Identity :
                \/ Edited([work EXCEPT !.desired = @ \ {i}])
                \/ Edited([work EXCEPT !.desired = @ \cup {i}])
        BY <1>4 DEF EditDesired
    <2>2. /\ [work EXCEPT !.desired = @ \ {i}] \in Catalog
          /\ [work EXCEPT !.desired = @ \cup {i}] \in Catalog
        BY <1>0 DEF Catalog
    <2> QED
        BY <1>0, <2>1, <2>2, EditTrails DEF Catalog
<1>5. CASE EditDownload
    <2>1. PICK r \in Registry, to \in Download :
                Edited([work EXCEPT !.download[r] = to])
        BY <1>0, <1>5 DEF EditDownload, Catalog
    <2>2. [work EXCEPT !.download[r] = to] \in Catalog
        BY <1>0 DEF Catalog
    <2> QED
        BY <1>0, <2>1, <2>2, EditTrails DEF Catalog
<1> QED
    BY <1>1, <1>2, <1>3, <1>4, <1>5

LEMMA LockTrails ==
    ASSUME IInv, Trails, Lock
    PROVE  Trails'
<1>1. PICK found \in Fetches(work) :
            Reconciles(work, found) /\ work' = Generated(work, found)
    BY DEF Lock
<1>2. work \in Catalog /\ Stageable(work, found)
      /\ \A i \in work.desired \ Known(work) : found[i] \in Evidence
    BY <1>1, FetchedEvidence DEF IInv, TypeOK, Reconciles
<1>3. work' \in Catalog /\ Founded(work') /\ Trail(work, work')
    BY <1>1, <1>2, GeneratedType, GeneratedFounded DEF Trails
<1> QED
    BY <1>3, WorkTrails DEF Lock

LEMMA UpdateApplyTrails ==
    ASSUME IInv, Trails, UpdateApply
    PROVE  Trails'
<1>1. PICK batch \in SUBSET (Mirror \ Known(work)) :
            \E found \in Fetches([work EXCEPT !.desired = @ \cup batch]) :
                  /\ Reconciles([work EXCEPT !.desired = @ \cup batch], found)
                  /\ work' = Generated([work EXCEPT !.desired = @ \cup batch], found)
    BY DEF UpdateApply
<1> DEFINE next == [work EXCEPT !.desired = @ \cup batch]
<1>2. batch \subseteq Identity
    BY DEF Mirror
<1>3. /\ next \in Catalog /\ next.anchor = work.anchor
      /\ next.package = work.package /\ next.locked = work.locked
      /\ next.lockDownload = work.lockDownload /\ next.bodies = work.bodies
    BY <1>2 DEF IInv, TypeOK, Catalog
<1>4. PICK found \in Fetches(next) :
            Reconciles(next, found) /\ work' = Generated(next, found)
    BY <1>1
<1> HIDE DEF next
<1>5. Founded(next) /\ Trail(work, next)
    BY <1>3, SameFounded, SameTrail DEF Trails
<1>6. Stageable(next, found)
      /\ \A i \in next.desired \ Known(next) : found[i] \in Evidence
    BY <1>3, <1>4, FetchedEvidence DEF Reconciles
<1>7. work' \in Catalog /\ Founded(work') /\ Trail(next, work')
    BY <1>3, <1>4, <1>5, <1>6, GeneratedType, GeneratedFounded
<1>8. Trail(work, work')
    BY <1>3, <1>5, <1>7, TrailTransitive DEF IInv, TypeOK
<1> QED
    BY <1>7, <1>8, WorkTrails DEF UpdateApply

LEMMA MeetTrails ==
    ASSUME IInv, Trails, Discard \/ Merge
    PROVE  Trails'
<1>1. CASE Discard
    <2>1. work' = head /\ UNCHANGED <<head, released, served>> /\ Trail(head, head)
        BY <1>1, SameTrail DEF Discard
    <2> QED
        BY <2>1 DEF Trails
<1>2. CASE Merge
    <2>1. /\ head' = work /\ UNCHANGED <<work, released, served>>
          /\ Strict(work) /\ Trail(work, work)
        BY <1>2, SameTrail DEF Merge
    <2>2. ASSUME NEW c \in {released, served}, c # None
          PROVE  Strict(c) /\ Founded(c) /\ Trail(c, work)
        <3>1. c \in Catalog /\ work \in Catalog /\ head \in Catalog
            BY <2>2 DEF IInv, TypeOK
        <3> QED
            BY <2>2, <3>1, TrailTransitive DEF Trails
    <2>3. \A c \in {released', served'} :
             c # None => Strict(c) /\ Strict(work) /\ Founded(c) /\ Trail(c, work)
        BY <2>1, <2>2
    <2> QED
        BY <2>1, <2>3 DEF Trails
<1> QED
    BY <1>1, <1>2

LEMMA PublishTrails ==
    ASSUME IInv, Trails, Release \/ Serve
    PROVE  Trails'
<1>1. /\ UNCHANGED <<work, head>> /\ Strict(head) /\ Trail(head, head)
      /\ {released', served'} \subseteq {released, served, head}
    BY SameTrail DEF Release, Serve
<1>2. \A c \in {released', served'} :
          c # None => Strict(c) /\ Strict(head) /\ Founded(c) /\ Trail(c, head)
    BY <1>1 DEF Trails
<1> QED
    BY <1>1, <1>2 DEF Trails

LEMMA TrailsInv == Spec => [](IInv /\ Trails)
<1>1. Init => IInv /\ Trails
    BY InitOK, InitTrails
<1>2. ASSUME IInv, Trails, [Next]_vars PROVE Trails'
    <2>1. CASE UNCHANGED vars
        BY <1>2, <2>1 DEF Trails, vars
    <2>2. CASE Next
        BY <1>2, <2>2, EditsTrails, LockTrails, UpdateApplyTrails, MeetTrails,
           PublishTrails DEF Next
    <2> QED
        BY <1>2, <2>1, <2>2
<1>3. IInv /\ Trails /\ [Next]_vars => (IInv /\ Trails)'
    BY <1>2, StepOK
<1> QED
    BY <1>1, <1>3, PTL DEF Spec

----------------------------------------------------------------------------

(***************************************************************************)
(* Whatever the declarations say, what reconcile_with_mode lets pass before *)
(* staging, validate_staged_catalog finds complete and strict after it.     *)
(***************************************************************************)
THEOREM StagedValid == Spec => []StagedIsValid
<1>1. IInv /\ Trails => StagedIsValid
    <2> SUFFICES ASSUME IInv, Trails, NEW found \in Fetches(work),
                        Stageable(work, found)
                 PROVE  Reconciles(work, found)
        BY DEF StagedIsValid
    <2>1. work \in Catalog /\ Founded(work)
          /\ \A i \in work.desired \ Known(work) : found[i] \in Evidence
        BY FetchedEvidence DEF IInv, TypeOK, Trails
    <2> QED
        BY <2>1, GeneratedStrict, GeneratedBodies DEF Reconciles
<1> QED
    BY <1>1, TrailsInv, PTL

\* A package that is not active is removed already.
LEMMA RemovedStays ==
    ASSUME NEW p \in Package, p.state # "active"
    PROVE  [p EXCEPT !.state = "removed"] = p
BY DEF Package

\* A `lock` of a complete catalog fetches nothing and writes what is there.
THEOREM SecondLock == Spec => []SecondLockIsNoOp
<1>1. IInv => SecondLockIsNoOp
    <2> SUFFICES ASSUME IInv, Strict(work), NEW found \in Fetches(work)
                 PROVE  Reconciles(work, found) /\ Generated(work, found) = work
        BY DEF SecondLockIsNoOp
    <2>1. PICK c \in Catalog : c = work /\ Strict(c)
        BY DEF IInv, TypeOK
    <2>2. c.desired \ Known(c) = {}
        BY <2>1 DEF Strict, Active
    <2>3. Stageable(c, found)
        BY <2>1, <2>2 DEF Stageable, Strict
    <2>4. [i \in Identity |-> NextPackage(c, i, found)] = c.package
        <3>1. ASSUME NEW i \in Identity PROVE NextPackage(c, i, found) = c.package[i]
            <4>1. CASE i \in c.desired
                BY <2>2, <4>1 DEF NextPackage
            <4>2. CASE i \in Known(c) \ c.desired
                <5>1. c.package[i] \in Package /\ c.package[i].state # "active"
                    BY <2>1, <4>2, PackageOf DEF Strict
                <5> QED
                    BY <4>2, <5>1, RemovedStays DEF NextPackage
            <4>3. CASE i \notin Known(c) \cup c.desired
                BY <4>3 DEF NextPackage, Known
            <4> QED
                BY <4>1, <4>2, <4>3
        <3> QED
            BY <3>1 DEF Catalog
    <2>5. Generated(c, found) = c
        <3>1. Generated(c, found) =
                 [c EXCEPT !.locked = c.declared, !.anchor = c.home,
                           !.lockDownload = c.download, !.package = c.package,
                           !.bodies = Bodies(c.package)]
            BY <2>4 DEF Generated
        <3>2. /\ c.declared = c.locked /\ c.home = c.anchor
              /\ c.download = c.lockDownload /\ Bodies(c.package) = c.bodies
            BY <2>1 DEF Strict
        <3>3. [c EXCEPT !.locked = c.locked, !.anchor = c.anchor,
                        !.lockDownload = c.lockDownload, !.package = c.package,
                        !.bodies = c.bodies] = c
            BY DEF Catalog
        <3> QED
            BY <3>1, <3>2, <3>3
    <2>6. MissingBodies(c, found) = {}
        BY <2>1, <2>5 DEF MissingBodies, Strict
    <2> QED
        BY <2>1, <2>3, <2>5, <2>6 DEF Reconciles
<1> QED
    BY <1>1, Invariant, PTL

\* What two strict catalogs on one trail have in common.
LEMMA TrailFacts ==
    ASSUME NEW a \in Catalog, NEW b \in Catalog, Strict(a), Strict(b), Founded(a),
           Trail(a, b)
    PROVE  /\ a.declared \subseteq b.declared
           /\ \A r \in a.declared : Reaches(a.download[r], b.download[r])
           /\ \A k \in Homed(a) : b.home[k] = a.home[k]
           /\ \A i \in Known(a) :
                 /\ i \in Known(b) /\ i \in Identity
                 /\ b.package[i].evidence = a.package[i].evidence
                 /\ b.package[i].row = a.package[i].row
                 /\ i \in Active(b) => i \in Active(a)
                 /\ KeyOf[i] \in Homed(a)
                 /\ a.package[i] \in Package /\ b.package[i] \in Package
<1>1. \A i \in Known(a) : KeyOf[i] \in Homed(a) /\ i \in Identity
    BY LifecycleAssumption DEF Founded, Strict, Homed, Known
<1>2. \A i \in Known(a) : i \in Known(b)
    BY DEF Trail, LocksExtend
<1>3. \A i \in Known(a) : a.package[i] \in Package /\ b.package[i] \in Package
    BY <1>1, <1>2, PackageOf
<1> QED
    BY <1>1, <1>2, <1>3 DEF Trail, LocksExtend, Strict, Homed

(***************************************************************************)
(* verify-monotonic refuses no release of a merged catalog for what `lock`  *)
(* and `update-apply` did to it, only for edges and download templates that *)
(* a curator changed.                                                       *)
(***************************************************************************)
THEOREM GateAccepts == Spec => []GateAcceptsTools
<1>1. IInv /\ Trails => GateAcceptsTools
    <2> SUFFICES ASSUME IInv, Trails, released # None, released.edges = head.edges,
                        \A r \in Registry : head.download[r] # "native"
                 PROVE  Monotonic(released, head)
        BY DEF GateAcceptsTools
    <2>1. PICK a \in Catalog, b \in Catalog : a = released /\ b = head
        BY DEF IInv, TypeOK
    <2>2. Strict(a) /\ Strict(b) /\ Founded(a) /\ Trail(a, b)
        BY <2>1 DEF Trails
    <2>3. \A r \in a.declared :
             \/ a.download[r] = b.download[r]
             \/ a.download[r] = "static" /\ b.download[r] = "router"
        <3> SUFFICES ASSUME NEW r \in a.declared
                     PROVE  \/ a.download[r] = b.download[r]
                            \/ a.download[r] = "static" /\ b.download[r] = "router"
            OBVIOUS
        <3>1. /\ r \in Registry /\ a.download[r] \in Download
              /\ b.download[r] \in Download /\ b.download[r] # "native"
            BY <2>1 DEF Catalog
        <3>2. Reaches(a.download[r], b.download[r])
            BY <2>2, TrailFacts
        <3> QED
            BY <3>1, <3>2 DEF Reaches, Download
    <2>4. a.edges = b.edges
        BY <2>1
    <2>5. Monotonic(a, b)
        BY <2>2, <2>3, <2>4, TrailFacts DEF Monotonic
    <2> QED
        BY <2>1, <2>5
<1> QED
    BY <1>1, TrailsInv, PTL

(***************************************************************************)
(* check_transition stops no merged catalog for what the commands did to    *)
(* it, save for a new registry, a removal, and two migrations at once.      *)
(***************************************************************************)
THEOREM WatcherAccepts == Spec => []WatcherAcceptsTools
<1>1. IInv /\ Trails => WatcherAcceptsTools
    <2> SUFFICES ASSUME IInv, Trails, served # None, served.declared = head.declared,
                        Active(served) \subseteq Active(head),
                        \A r \in Registry :
                            head.download[r] = "native" => served.download[r] # "static"
                 PROVE  ChecksTransition(served, head)
        BY DEF WatcherAcceptsTools
    <2>1. PICK a \in Catalog, b \in Catalog : a = served /\ b = head
        BY DEF IInv, TypeOK
    <2>2. Strict(a) /\ Strict(b) /\ Founded(a) /\ Trail(a, b)
        BY <2>1 DEF Trails
    <2>3. ASSUME NEW r \in a.declared PROVE MayMigrate(a.download[r], b.download[r])
        <3>1. /\ r \in Registry /\ a.download[r] \in Download
              /\ b.download[r] \in Download
              /\ b.download[r] = "native" => a.download[r] # "static"
            BY <2>1 DEF Catalog
        <3>2. Reaches(a.download[r], b.download[r])
            BY <2>2, TrailFacts
        <3> QED
            BY <3>1, <3>2 DEF Reaches, MayMigrate, Download
    <2>4. ASSUME NEW i \in Known(a)
          PROVE  b.package[i] = a.package[i] /\ b.home[KeyOf[i]] = a.home[KeyOf[i]]
        <3>1. /\ i \in Identity /\ i \in Known(b)
              /\ b.package[i].evidence = a.package[i].evidence
              /\ b.package[i].row = a.package[i].row
              /\ i \in Active(b) <=> i \in Active(a)
              /\ a.package[i] \in Package /\ b.package[i] \in Package
            BY <2>1, <2>2, TrailFacts
        <3>2. b.package[i].state = a.package[i].state
            BY <3>1 DEF Active, Package
        <3>3. b.package[i] = a.package[i]
            BY <3>1, <3>2 DEF Package
        <3> QED
            BY <2>2, <3>3, TrailFacts
    <2>5. ChecksTransition(a, b)
        BY <2>1, <2>2, <2>3, <2>4 DEF ChecksTransition
    <2> QED
        BY <2>1, <2>5
<1> QED
    BY <1>1, TrailsInv, PTL

(***************************************************************************)
(* A dependency's route, once merged, is what every later catalog's homes   *)
(* give: resolve_dependency never turns to a nearer or a rivalling home,    *)
(* because validate_routed_rows computes each known row again.              *)
(***************************************************************************)
THEOREM RoutesForever == Spec => RoutesPermanent
<1>1. ASSUME IInv, Trails, [Next]_vars, head.locked # {}, NEW i \in Known(head)
      PROVE  /\ Routable(head', i, head.package[i].evidence)
             /\ Row(head', i, head.package[i].evidence) = head.package[i].row
    <2>1. CASE UNCHANGED head
        BY <1>1, <2>1 DEF Trails, Strict, RowsRouted
    <2>2. CASE Merge
        <3>1. head' = work /\ RowsRouted(work) /\ LocksExtend(head, work)
            BY <1>1, <2>2 DEF Merge, Strict, Trails, Trail
        <3>2. /\ i \in Known(work)
              /\ work.package[i].evidence = head.package[i].evidence
              /\ work.package[i].row = head.package[i].row
            BY <1>1, <3>1 DEF LocksExtend
        <3> QED
            BY <3>1, <3>2 DEF RowsRouted
    <2>3. Merge \/ UNCHANGED head
        BY <1>1 DEF Next, EditRegistries, EditHomes, EditEdges, EditDesired,
               EditDownload, Edited, Discard, Lock, UpdateApply, Release, Serve, vars
    <2> QED
        BY <2>1, <2>2, <2>3
<1>2. IInv /\ Trails /\ [Next]_vars =>
        [ head.locked # {} =>
            \A i \in Known(head) :
                /\ Routable(head', i, head.package[i].evidence)
                /\ Row(head', i, head.package[i].evidence)
                      = head.package[i].row ]_vars
    BY <1>1
<1> QED
    BY <1>2, TrailsInv, PTL DEF Spec, RoutesPermanent

=============================================================================
