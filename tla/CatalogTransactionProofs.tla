---------------------- MODULE CatalogTransactionProofs ----------------------
(***************************************************************************)
(* Whatever the numbers of commands, directories, edits, faults, crashes    *)
(* and power losses: one command at a time is in its guarded section.  The  *)
(* guard file carries the argument: a command in that section is the one    *)
(* that created the file, and nobody else removes it meanwhile, for an exit *)
(* removes its own, a crash removes none and the operator waits for all.    *)
(***************************************************************************)
EXTENDS CatalogTransaction, TLAPS

Places == Tree \cup {None}

Shapes == [root : Places, guard : Proc \cup {None},
           stage : [Proc -> Places], backup : [Proc -> Places],
           left : SUBSET Places, last : Places]

Shape ==
    /\ dir \in Shapes
    /\ survivors \subseteq Shapes
    /\ pc \in [Proc -> Guarded \cup {"idle", "lock"}]

GuardHeld == \A p \in Proc : pc[p] \in Guarded => dir.guard = p

IInv == Shape /\ GuardHeld

----------------------------------------------------------------------------

\* Every command starts idle beside a catalog nobody guards.
LEMMA InitOK == Init => IInv
<1> SUFFICES ASSUME Init PROVE IInv
    OBVIOUS
<1> DEFINE tree == Some(Tree)
<1>1. tree \in Tree
    BY TransactionAssumption DEF Some
<1>2. dir \in Shapes
    <2>1. dir = [root |-> tree, guard |-> None, stage |-> [p \in Proc |-> None],
                 backup |-> [p \in Proc |-> None], left |-> {}, last |-> tree]
        BY DEF Init
    <2> QED
        BY <1>1, <2>1 DEF Shapes, Places
<1>3. survivors \subseteq Shapes
    BY <1>2 DEF Init
<1>4. pc \in [Proc -> Guarded \cup {"idle", "lock"}]
    BY DEF Init
<1>5. GuardHeld
    BY DEF Init, GuardHeld, Guarded
<1> QED
    BY <1>2, <1>3, <1>4, <1>5 DEF IInv, Shape

\* A step of a command that leaves the guard alone, and enters the guarded
\* section only from within, keeps the invariant.
LEMMA QuietStep ==
    ASSUME IInv, NEW p \in Proc, NEW next \in Guarded \cup {"idle", "lock"},
           dir' \in Shapes, dir'.guard = dir.guard,
           survivors' \subseteq survivors \cup {dir'},
           Goto(p, next), next \in Guarded => pc[p] \in Guarded
    PROVE  IInv'
<1>1. survivors' \subseteq Shapes
    BY DEF IInv, Shape
<1>2. pc' = [pc EXCEPT ![p] = next] /\ pc \in [Proc -> Guarded \cup {"idle", "lock"}]
    BY DEF Goto, IInv, Shape
<1>3. Shape'
    BY <1>1, <1>2 DEF Shape
<1>4. GuardHeld'
    BY <1>1, <1>2 DEF IInv, GuardHeld
<1> QED
    BY <1>3, <1>4 DEF IInv

\* The same when the directory does not change.
LEMMA StillStep ==
    ASSUME IInv, NEW p \in Proc, NEW next \in Guarded \cup {"idle", "lock"},
           NoEntry, Goto(p, next), next \in Guarded => pc[p] \in Guarded
    PROVE  IInv'
BY QuietStep DEF NoEntry, IInv, Shape

\* Creating the guard file enters the section, if no command is in it.
LEMMA AcquireGuardOK ==
    ASSUME IInv, NEW p \in Proc, AcquireGuard(p)
    PROVE  IInv'
<1>1. CASE NoEntry /\ Goto(p, "idle")
    BY <1>1, StillStep DEF Guarded
<1>2. CASE /\ dir.guard = None
           /\ Becomes([dir EXCEPT !.guard = p])
           /\ Goto(p, IF p \in Reconciler THEN "load" ELSE "check")
    <2>1. dir \in Shapes /\ survivors \subseteq Shapes
        BY DEF IInv, Shape
    <2>2. dir' = [dir EXCEPT !.guard = p] /\ dir' \in Shapes
        BY <1>2, <2>1 DEF Becomes, Shapes
    <2>3. survivors' \subseteq Shapes
        BY <1>2, <2>1, <2>2 DEF Becomes
    <2>4. dir'.guard = p
        BY <2>1, <2>2 DEF Shapes
    <2>5. \A q \in Proc : pc[q] \notin Guarded
        BY <1>2, TransactionAssumption DEF IInv, GuardHeld
    <2>6. pc \in [Proc -> Guarded \cup {"idle", "lock"}]
        BY DEF IInv, Shape
    <2>7. pc' = [pc EXCEPT ![p] = IF p \in Reconciler THEN "load" ELSE "check"]
        BY <1>2 DEF Goto
    <2>8. GuardHeld'
        BY <2>4, <2>5, <2>6, <2>7 DEF GuardHeld
    <2>9. Shape'
        BY <2>2, <2>3, <2>6, <2>7 DEF Shape, Guarded
    <2> QED
        BY <2>8, <2>9 DEF IInv
<1> QED
    BY <1>1, <1>2 DEF AcquireGuard

\* The exit that removes the guard file is that of the command that holds it.
LEMMA UnlockOK ==
    ASSUME IInv, NEW p \in Proc, Unlock(p)
    PROVE  IInv'
<1>1. dir \in Shapes /\ survivors \subseteq Shapes
      /\ pc \in [Proc -> Guarded \cup {"idle", "lock"}]
    BY DEF IInv, Shape
<1>2. Leftovers(p) \subseteq Places
    BY <1>1 DEF Leftovers, Shapes, Places
<1>3. dir' = [dir EXCEPT !.guard = None, !.left = Leftovers(p),
                         !.stage[p] = None, !.backup[p] = None]
    BY DEF Unlock, Becomes
<1>4. dir' \in Shapes
    BY <1>1, <1>2, <1>3 DEF Shapes, Places
<1>5. survivors' \subseteq Shapes
    BY <1>1, <1>3, <1>4 DEF Unlock, Becomes
<1>6. pc' = [pc EXCEPT ![p] = "idle"] /\ pc[p] \in Guarded
    BY DEF Unlock, Goto, Guarded
<1>7. \A q \in Proc : pc[q] \in Guarded => q = p
    BY <1>6 DEF IInv, GuardHeld
<1>8. GuardHeld'
    BY <1>1, <1>6, <1>7 DEF GuardHeld, Guarded
<1> QED
    BY <1>1, <1>4, <1>5, <1>6, <1>8 DEF IInv, Shape, Guarded

\* A crash leaves the guard file behind.
LEMMA CrashOK ==
    ASSUME IInv, NEW p \in Proc, Crash(p)
    PROVE  IInv'
<1>1. dir \in Shapes /\ survivors \subseteq Shapes
    BY DEF IInv, Shape
<1>2. Leftovers(p) \subseteq Places
    BY <1>1 DEF Leftovers, Shapes, Places
<1> DEFINE entries == [dir EXCEPT !.left = Leftovers(p), !.stage[p] = None,
                                  !.backup[p] = None]
<1>3. entries \in Shapes /\ entries.guard = dir.guard
    BY <1>1, <1>2 DEF Shapes, Places
<1>4. Becomes(entries) /\ Goto(p, "idle")
    BY DEF Crash, Becomes
<1> QED
    BY <1>3, <1>4, QuietStep DEF Becomes, Guarded

\* After a power loss no command runs.
LEMMA PowerLossOK ==
    ASSUME IInv, PowerLoss
    PROVE  IInv'
<1>1. survivors \subseteq Shapes
    BY DEF IInv, Shape
<1>2. PICK d \in survivors : dir' = Vanish(d)
    BY DEF PowerLoss
<1>3. d \in Shapes
    BY <1>1
<1> DEFINE named == (d.left \cup {d.stage[p] : p \in Proc}
                       \cup {d.backup[p] : p \in Proc}) \ {None}
<1>4. named \subseteq Places
    BY <1>3 DEF Shapes, Places
<1>5. dir' = [d EXCEPT !.left = named, !.stage = [p \in Proc |-> None],
                       !.backup = [p \in Proc |-> None]]
    BY <1>2, <1>3 DEF Vanish, Shapes
<1> HIDE DEF named
<1>6. dir' \in Shapes
    BY <1>3, <1>4, <1>5 DEF Shapes, Places
<1>7. survivors' = {dir'} /\ pc' = [p \in Proc |-> "idle"]
    BY DEF PowerLoss
<1> QED
    BY <1>6, <1>7 DEF IInv, Shape, GuardHeld, Guarded

\* The operator removes a guard file only when no command runs.
LEMMA RecoverOK ==
    ASSUME IInv, Recover
    PROVE  IInv'
<1>1. dir \in Shapes
      /\ pc \in [Proc -> Guarded \cup {"idle", "lock"}]
    BY DEF IInv, Shape
<1>2. dir' = [dir EXCEPT !.root = dir.last, !.guard = None, !.left = {}]
    BY DEF Recover
<1>3. dir' \in Shapes
    BY <1>1, <1>2 DEF Shapes, Places
<1>4. survivors' = {dir'} /\ pc' = pc /\ \A p \in Proc : pc[p] = "idle"
    BY DEF Recover
<1> QED
    BY <1>1, <1>3, <1>4 DEF IInv, Shape, GuardHeld, Guarded

----------------------------------------------------------------------------

\* Every step of a command but those two.
LEMMA CommandOK ==
    ASSUME IInv, NEW p \in Proc, Command(p)
    PROVE  IInv'
<1>1. dir \in Shapes
    BY DEF IInv, Shape
<1>2. CASE StartReconcile(p)
    BY <1>2, StillStep DEF StartReconcile, Guarded
<1>3. CASE RecomputeFacts(p)
    BY <1>3, StillStep DEF RecomputeFacts, Guarded
<1>4. CASE AlreadyApplied(p)
    BY <1>4 DEF AlreadyApplied, NoEntry, IInv, Shape, GuardHeld
<1>5. CASE AcquireGuard(p)
    BY <1>5, AcquireGuardOK
<1>6. CASE LoadInputs(p)
    <2>1. NoEntry /\ pc[p] = "load" /\ \E next \in {"unlock", "stage"} : Goto(p, next)
        BY <1>6 DEF LoadInputs, GiveUp
    <2> QED
        BY <2>1, StillStep DEF Guarded
<1>7. CASE CheckFingerprint(p)
    <2>1. NoEntry /\ pc[p] = "check" /\ \E next \in {"unlock", "stage"} : Goto(p, next)
        BY <1>7 DEF CheckFingerprint, GiveUp
    <2> QED
        BY <2>1, StillStep DEF Guarded
<1>8. CASE MakeStage(p)
    <2> DEFINE tree == Some(Free)
    <2>1. tree \in Tree
        BY <1>8 DEF MakeStage, Some, Free
    <2>2. Becomes([dir EXCEPT !.stage[p] = tree]) /\ Goto(p, "copy") /\ pc[p] = "stage"
        BY <1>8 DEF MakeStage
    <2> HIDE DEF tree
    <2>3. [dir EXCEPT !.stage[p] = tree] \in Shapes
        BY <1>1, <2>1 DEF Shapes, Places
    <2>4. [dir EXCEPT !.stage[p] = tree].guard = dir.guard
        BY <1>1 DEF Shapes
    <2> QED
        BY <2>2, <2>3, <2>4, QuietStep DEF Becomes, Guarded
<1>9. CASE CopyLive(p)
    <2>1. NoEntry /\ pc[p] = "copy" /\ \E next \in {"validate", "unstage"} : Goto(p, next)
        BY <1>9 DEF CopyLive
    <2> QED
        BY <2>1, StillStep DEF Guarded
<1>10. CASE ValidateStaged(p)
    <2>1. /\ NoEntry /\ pc[p] = "validate"
          /\ \E next \in {"swap-out", "recheck", "unstage"} : Goto(p, next)
        BY <1>10 DEF ValidateStaged
    <2> QED
        BY <2>1, StillStep DEF Guarded
<1>11. CASE RecheckFingerprint(p)
    <2>1. NoEntry /\ pc[p] = "recheck" /\ \E next \in {"swap-out", "unstage"} : Goto(p, next)
        BY <1>11 DEF RecheckFingerprint
    <2> QED
        BY <2>1, StillStep DEF Guarded
<1>12. CASE SwapOut(p)
    <2> DEFINE moved == [dir EXCEPT !.root = None, !.backup[p] = dir.root]
    <2>1. moved \in Shapes /\ moved.guard = dir.guard
        BY <1>1 DEF Shapes, Places
    <2>2. /\ pc[p] = "swap-out"
          /\ \/ Becomes(moved) /\ Goto(p, "swap-in")
             \/ NoEntry /\ Goto(p, "unstage")
        BY <1>12 DEF SwapOut
    <2> HIDE DEF moved
    <2> QED
        BY <2>1, <2>2, QuietStep, StillStep DEF Becomes, Guarded
<1>13. CASE SwapIn(p)
    <2> DEFINE moved == [dir EXCEPT !.root = dir.stage[p], !.last = dir.stage[p],
                                    !.stage[p] = None]
    <2>1. moved \in Shapes /\ moved.guard = dir.guard
        BY <1>1 DEF Shapes, Places
    <2>2. /\ pc[p] = "swap-in"
          /\ \/ Becomes(moved) /\ Goto(p, "sync")
             \/ NoEntry /\ Goto(p, "restore")
        BY <1>13 DEF SwapIn
    <2> HIDE DEF moved
    <2> QED
        BY <2>1, <2>2, QuietStep, StillStep DEF Becomes, Guarded
<1>14. CASE Restore(p)
    <2> DEFINE moved == [dir EXCEPT !.root = dir.backup[p], !.backup[p] = None]
    <2>1. moved \in Shapes /\ moved.guard = dir.guard
        BY <1>1 DEF Shapes, Places
    <2>2. /\ pc[p] = "restore" /\ Goto(p, "unstage")
          /\ Becomes(moved) \/ NoEntry
        BY <1>14 DEF Restore
    <2> HIDE DEF moved
    <2> QED
        BY <2>1, <2>2, QuietStep, StillStep DEF Becomes, Guarded
<1>15. CASE SyncParent(p)
    <2>1. /\ pc[p] = "sync" /\ dir' = dir
          /\ survivors' = {dir} \/ survivors' = survivors
        BY <1>15 DEF SyncParent
    <2>2. PICK next \in {"discard", "unstage"} : Goto(p, next)
        BY <1>15 DEF SyncParent
    <2>3. pc \in [Proc -> Guarded \cup {"idle", "lock"}] /\ survivors \subseteq Shapes
        BY DEF IInv, Shape
    <2>4. pc' = [pc EXCEPT ![p] = next]
        BY <2>2 DEF Goto
    <2>5. Shape'
        BY <1>1, <2>1, <2>2, <2>3, <2>4 DEF Shape, Guarded
    <2>6. GuardHeld'
        BY <2>1, <2>3, <2>4 DEF IInv, GuardHeld, Guarded
    <2> QED
        BY <2>5, <2>6 DEF IInv
<1>16. CASE DiscardBackup(p)
    <2> DEFINE moved == [dir EXCEPT !.backup[p] = None]
    <2>1. moved \in Shapes /\ moved.guard = dir.guard
        BY <1>1 DEF Shapes, Places
    <2>2. /\ pc[p] = "discard" /\ Goto(p, "finish")
          /\ Becomes(moved) \/ NoEntry
        BY <1>16 DEF DiscardBackup
    <2> HIDE DEF moved
    <2> QED
        BY <2>1, <2>2, QuietStep, StillStep DEF Becomes, Guarded
<1>17. CASE Unstage(p)
    <2> DEFINE moved == [dir EXCEPT !.stage[p] = None]
    <2>1. moved \in Shapes /\ moved.guard = dir.guard
        BY <1>1 DEF Shapes, Places
    <2>2. /\ pc[p] = "unstage" /\ Goto(p, "unlock")
          /\ Becomes(moved) \/ NoEntry
        BY <1>17 DEF Unstage, NoEntry
    <2> HIDE DEF moved
    <2> QED
        BY <2>1, <2>2, QuietStep, StillStep DEF Becomes, Guarded
<1>18. CASE Unlock(p)
    BY <1>18, UnlockOK
<1> QED
    BY <1>2, <1>3, <1>4, <1>5, <1>6, <1>7, <1>8, <1>9, <1>10, <1>11, <1>12,
       <1>13, <1>14, <1>15, <1>16, <1>17, <1>18 DEF Command

LEMMA StepOK == IInv /\ [Next]_vars => IInv'
<1> SUFFICES ASSUME IInv, [Next]_vars PROVE IInv'
    OBVIOUS
<1>1. CASE \E p \in Proc : Command(p) \/ Crash(p)
    BY <1>1, CommandOK, CrashOK
<1>2. CASE Edit
    BY <1>2 DEF Edit, NoEntry, IInv, Shape, GuardHeld
<1>3. CASE PowerLoss
    BY <1>3, PowerLossOK
<1>4. CASE Recover
    BY <1>4, RecoverOK
<1>5. CASE UNCHANGED vars
    BY <1>5 DEF vars, IInv, Shape, GuardHeld
<1> QED
    BY <1>1, <1>2, <1>3, <1>4, <1>5 DEF Next

\* The guard file of rust/src/lock.rs keeps any number of `lock` and
\* `update-apply` commands apart, crashes and power losses included.
THEOREM Exclusion == Spec => []OneAtATime
<1>1. IInv => OneAtATime
    BY DEF IInv, GuardHeld, OneAtATime
<1> QED
    BY InitOK, StepOK, <1>1, PTL DEF Spec

----------------------------------------------------------------------------
(***************************************************************************)
(* What the commands promise about the catalog itself, for any number of     *)
(* commands, directories, edits, faults, crashes and power losses.           *)
(*                                                                          *)
(* The invariant has three layers on top of the guard's (IInv): Names says   *)
(* where the trees of each command are, and that a staged tree has no other  *)
(* name in any state a power loss may leave; Contents says what is in them;  *)
(* Tallies counts what may explain a catalog that is missing.                *)
(***************************************************************************)

(* Where things are. *)

\* the catalog installed last is at hand
Reachable(d) ==
    /\ d.root \in {None, d.last}
    /\ d.last \in {d.root} \cup d.left \cup {d.backup[p] : p \in Proc}

Bare(p) == dir.stage[p] = None /\ dir.backup[p] = None

\* no state a power loss may leave has p's staged tree under another name
Private(p) ==
    /\ dir.stage[p] \in Tree
    /\ \A d \in survivors :
          dir.stage[p] \notin {d.root, d.last} \cup d.left
                                \cup {d.backup[q] : q \in Proc}

\* a power loss can only leave the catalog installed last in its place
Synced == \A d \in survivors : d.last = dir.last /\ d.root = dir.last

\* what holds of p's trees when it is at a label
LocatedAt(p, label) ==
    /\ label \in {"idle", "lock", "load", "check", "stage"} => Bare(p)
    /\ label \in {"copy", "validate", "recheck", "swap-out", "swap-in", "restore"} =>
          Private(p)
    /\ label \in {"copy", "validate", "recheck", "swap-out"} => dir.backup[p] = None
    /\ label \in {"swap-in", "restore"} => dir.root = None /\ dir.backup[p] = dir.last
    /\ label = "unstage" => dir.stage[p] = None \/ Private(p)
    /\ label \in {"sync", "discard", "finish"} =>
          dir.stage[p] = None /\ dir.root = dir.last
    /\ label \in {"sync", "discard"} => dir.backup[p] \in Tree \ {dir.last}
    /\ label \in {"discard", "finish"} => Synced

Names ==
    /\ dir \in Entries /\ dir \in survivors /\ survivors \subseteq Entries
    /\ \A d \in survivors : Reachable(d)
    /\ \A p \in Proc : LocatedAt(p, pc[p])

Labels == Guarded \cup {"idle", "lock"}

\* While one command is in its guarded section the others are before theirs.
LEMMA OthersWait ==
    ASSUME IInv, NEW p \in Proc, pc[p] \in Guarded, NEW q \in Proc \ {p}
    PROVE  pc[q] \in {"idle", "lock"}
BY DEF IInv, Shape, GuardHeld

LEMMA NamesInit == Init => Names
<1> SUFFICES ASSUME Init PROVE Names
    OBVIOUS
<1> DEFINE tree == Some(Tree)
<1>1. tree \in Tree
    BY TransactionAssumption DEF Some
<1>2. dir = [root |-> tree, guard |-> None, stage |-> [p \in Proc |-> None],
             backup |-> [p \in Proc |-> None], left |-> {}, last |-> tree]
    BY DEF Init
<1> HIDE DEF tree
<1>3. survivors = {dir} /\ \A p \in Proc : pc[p] = "idle"
    BY DEF Init
<1>4. dir \in Entries
    BY <1>1, <1>2 DEF Entries
<1>5. Reachable(dir)
    BY <1>2 DEF Reachable
<1>6. \A p \in Proc : LocatedAt(p, pc[p])
    BY <1>2, <1>3 DEF LocatedAt, Bare
<1> QED
    BY <1>3, <1>4, <1>5, <1>6 DEF Names

\* A step that names nothing anew.
LEMMA StillNames ==
    ASSUME IInv, Names, NEW p \in Proc, NEW next \in Labels, NoEntry,
           Goto(p, next), LocatedAt(p, next)
    PROVE  Names'
<1>1. pc' = [pc EXCEPT ![p] = next] /\ pc \in [Proc -> Labels]
    BY DEF Goto, IInv, Shape, Labels
<1>2. dir' = dir /\ survivors' = survivors
    BY DEF NoEntry
<1>3. \A q \in Proc, label \in Labels : LocatedAt(q, label) => LocatedAt(q, label)'
    BY <1>2 DEF LocatedAt, Bare, Private, Synced
<1>4. \A q \in Proc : LocatedAt(q, pc[q])'
    <2>1. ASSUME NEW q \in Proc PROVE LocatedAt(q, pc[q])'
        <3>1. PICK label \in Labels : pc'[q] = label /\ LocatedAt(q, label)
            BY <1>1 DEF Names
        <3>2. LocatedAt(q, label)'
            BY <1>3, <3>1
        <3> QED
            BY <3>1, <3>2 DEF LocatedAt
    <2> QED
        BY <2>1
<1>5. \A d \in survivors' : Reachable(d)'
    BY <1>2 DEF Names, Reachable
<1> QED
    BY <1>2, <1>4, <1>5 DEF Names

\* A guarded command gives its own trees other names, or has the parent
\* directory synced.
LEMMA RenamedNames ==
    ASSUME IInv, Names, NEW p \in Proc, pc[p] \in Guarded, NEW next \in Labels,
           NEW entries \in Entries, dir' = entries, entries \in survivors',
           survivors' \subseteq survivors \cup {entries}, Goto(p, next),
           Reachable(entries), LocatedAt(p, next)',
           \A q \in Proc \ {p} : /\ entries.stage[q] = dir.stage[q]
                                 /\ entries.backup[q] = dir.backup[q]
    PROVE  Names'
<1>1. pc' = [pc EXCEPT ![p] = next] /\ pc \in [Proc -> Labels]
    BY DEF Goto, IInv, Shape, Labels
<1>2. \A d \in survivors' : Reachable(d)'
    BY DEF Names, Reachable
<1>3. ASSUME NEW q \in Proc PROVE LocatedAt(q, pc[q])'
    <2>1. CASE q = p
        BY <1>1, <2>1 DEF LocatedAt
    <2>2. CASE q # p
        <3>1. pc'[q] = pc[q] /\ pc[q] \in {"idle", "lock"}
            BY <1>1, <2>2, OthersWait
        <3>2. Bare(q)'
            BY <2>2, <3>1 DEF Names, LocatedAt, Bare
        <3> QED
            BY <3>1, <3>2 DEF LocatedAt
    <2> QED
        BY <2>1, <2>2
<1>4. dir' \in Entries /\ dir' \in survivors' /\ survivors' \subseteq Entries
    BY DEF Names
<1> QED
    BY <1>2, <1>3, <1>4 DEF Names

LEMMA MovedNames ==
    ASSUME IInv, Names, NEW p \in Proc, pc[p] \in Guarded, NEW next \in Labels,
           NEW entries \in Entries, Becomes(entries), Goto(p, next),
           Reachable(entries), LocatedAt(p, next)',
           \A q \in Proc \ {p} : /\ entries.stage[q] = dir.stage[q]
                                 /\ entries.backup[q] = dir.backup[q]
    PROVE  Names'
BY RenamedNames DEF Becomes

\* The steps that name nothing, each with what its label asks.
LEMMA ReadingNames ==
    ASSUME IInv, Names, NEW p \in Proc,
           \/ StartReconcile(p) \/ RecomputeFacts(p) \/ AlreadyApplied(p)
           \/ LoadInputs(p) \/ CheckFingerprint(p) \/ CopyLive(p)
           \/ ValidateStaged(p) \/ RecheckFingerprint(p)
    PROVE  Names'
<1>1. NoEntry
    BY DEF StartReconcile, RecomputeFacts, AlreadyApplied, LoadInputs,
           CheckFingerprint, CopyLive, ValidateStaged, RecheckFingerprint
<1>2. LocatedAt(p, pc[p])
    BY DEF Names
<1>3. CASE AlreadyApplied(p)
    <2>1. UNCHANGED <<dir, survivors, pc>>
        BY <1>3 DEF AlreadyApplied, NoEntry
    <2> QED
        BY <2>1 DEF Names, Reachable, LocatedAt, Bare, Private, Synced
<1>4. CASE StartReconcile(p) \/ RecomputeFacts(p)
    <2>1. pc[p] = "idle" /\ Goto(p, "lock")
        BY <1>4 DEF StartReconcile, RecomputeFacts
    <2>2. LocatedAt(p, "lock")
        BY <1>2, <2>1 DEF LocatedAt
    <2> QED
        BY <1>1, <2>1, <2>2, StillNames DEF Labels
<1>5. CASE LoadInputs(p) \/ CheckFingerprint(p)
    <2>1. PICK next \in {"unlock", "stage"} : Goto(p, next)
        BY <1>5 DEF LoadInputs, CheckFingerprint, GiveUp
    <2>2. LocatedAt(p, next)
        BY <1>2, <1>5 DEF LoadInputs, CheckFingerprint, LocatedAt
    <2> QED
        BY <1>1, <2>1, <2>2, StillNames DEF Labels, Guarded
<1>6. CASE CopyLive(p) \/ ValidateStaged(p) \/ RecheckFingerprint(p)
    <2>1. PICK next \in {"validate", "recheck", "swap-out", "unstage"} : Goto(p, next)
        BY <1>6 DEF CopyLive, ValidateStaged, RecheckFingerprint
    <2>2. LocatedAt(p, next)
        BY <1>2, <1>6 DEF CopyLive, ValidateStaged, RecheckFingerprint, LocatedAt
    <2> QED
        BY <1>1, <2>1, <2>2, StillNames DEF Labels, Guarded
<1> QED
    BY <1>3, <1>4, <1>5, <1>6

\* Only the guard's own entry changes.
LEMMA AcquireGuardNames == 
    ASSUME IInv, Names, NEW p \in Proc, AcquireGuard(p)
    PROVE  Names'
<1>1. LocatedAt(p, "lock") /\ pc[p] = "lock"
    <2>1. pc[p] = "lock" /\ LocatedAt(p, pc[p])
        BY DEF Names, AcquireGuard
    <2> QED
        BY <2>1 DEF LocatedAt
<1>2. CASE NoEntry /\ Goto(p, "idle")
    <2>1. LocatedAt(p, "idle")
        BY <1>1 DEF LocatedAt
    <2> QED
        BY <1>2, <2>1, StillNames DEF Labels
<1>3. CASE /\ dir.guard = None
           /\ Becomes([dir EXCEPT !.guard = p])
           /\ Goto(p, IF p \in Reconciler THEN "load" ELSE "check")
    <2>1. dir \in Entries /\ survivors \subseteq Entries
        BY DEF Names
    <2>2. /\ dir' \in Entries /\ dir'.root = dir.root /\ dir'.last = dir.last
          /\ dir'.left = dir.left /\ dir'.stage = dir.stage
          /\ dir'.backup = dir.backup
          /\ survivors' = survivors \cup {dir'}
        BY <1>3, <2>1 DEF Becomes, Entries
    <2>3. pc \in [Proc -> Labels] /\ \A q \in Proc : pc[q] \in {"idle", "lock"}
        <3>1. \A q \in Proc : pc[q] \notin Guarded
            BY <1>3, TransactionAssumption DEF IInv, GuardHeld
        <3> QED
            BY <3>1 DEF IInv, Shape, Labels
    <2>4. \A q \in Proc : Bare(q)
        BY <2>3 DEF Names, LocatedAt
    <2>5. \A q \in Proc : pc'[q] \in {"idle", "lock", "load", "check"}
        BY <1>3, <2>3 DEF Goto
    <2>6. \A q \in Proc : LocatedAt(q, pc[q])'
        BY <2>2, <2>4, <2>5 DEF LocatedAt, Bare
    <2>7. \A d \in survivors' : Reachable(d)'
        <3>1. Reachable(dir) => Reachable(dir)'
            BY <2>2 DEF Reachable
        <3>2. \A d \in survivors : Reachable(d) => Reachable(d)'
            BY DEF Reachable
        <3>3. \A d \in survivors' : d \in survivors \/ d = dir'
            BY <2>2
        <3> QED
            BY <3>1, <3>2, <3>3 DEF Names, Reachable
    <2> QED
        BY <2>1, <2>2, <2>6, <2>7 DEF Names
<1> QED
    BY <1>2, <1>3 DEF AcquireGuard

\* The staged tree is one nobody has a name for.
LEMMA MakeStageNames ==
    ASSUME IInv, Names, NEW p \in Proc, MakeStage(p)
    PROVE  Names'
<1> DEFINE tree == Some(Free)
<1>1. tree \in Free
    BY DEF MakeStage, Some
<1>2. tree \in Tree /\ \A d \in survivors : tree \notin Named(d)
    BY <1>1 DEF Free
<1>3. pc[p] = "stage" /\ Goto(p, "copy") /\ Becomes([dir EXCEPT !.stage[p] = tree])
    BY DEF MakeStage
<1> HIDE DEF tree
<1> DEFINE moved == [dir EXCEPT !.stage[p] = tree]
<1>4. dir \in Entries /\ dir \in survivors /\ Bare(p)
    BY <1>3 DEF Names, LocatedAt
<1>5. /\ moved \in Entries /\ moved.root = dir.root /\ moved.last = dir.last
      /\ moved.left = dir.left /\ moved.backup = dir.backup
      /\ moved.stage[p] = tree
      /\ \A q \in Proc \ {p} : moved.stage[q] = dir.stage[q]
    BY <1>2, <1>4 DEF Entries
<1> HIDE DEF moved
<1>6. Reachable(moved)
    BY <1>4, <1>5 DEF Names, Reachable
<1>7. LocatedAt(p, "copy")'
    <2>1. dir' = moved /\ survivors' = survivors \cup {moved}
        BY <1>3 DEF Becomes, moved
    <2>2. \A d \in survivors' : tree \notin {d.root, d.last} \cup d.left
                                            \cup {d.backup[q] : q \in Proc}
        <3>1. \A d \in survivors : tree \notin {d.root, d.last} \cup d.left
                                               \cup {d.backup[q] : q \in Proc}
            BY <1>2 DEF Named
        <3> QED
            BY <1>4, <1>5, <2>1, <3>1
    <2>3. Private(p)'
        BY <1>2, <1>5, <2>1, <2>2 DEF Private
    <2>4. dir'.backup[p] = None
        BY <1>4, <1>5, <2>1 DEF Bare
    <2> QED
        BY <2>3, <2>4 DEF LocatedAt
<1>8. Becomes(moved)
    BY <1>3 DEF moved
<1> QED
    BY <1>3, <1>5, <1>6, <1>7, <1>8, MovedNames DEF Labels, Guarded

\* The two renames of install_staging, and the one that takes the first back.
LEMMA SwapOutNames ==
    ASSUME IInv, Names, NEW p \in Proc, SwapOut(p)
    PROVE  Names'
<1>1. pc[p] = "swap-out" /\ LocatedAt(p, "swap-out")
    <2>1. pc[p] = "swap-out" /\ LocatedAt(p, pc[p])
        BY DEF Names, SwapOut
    <2> QED
        BY <2>1 DEF LocatedAt
<1>2. CASE NoEntry /\ Goto(p, "unstage")
    <2>1. LocatedAt(p, "unstage")
        BY <1>1 DEF LocatedAt
    <2> QED
        BY <1>2, <2>1, StillNames DEF Labels, Guarded
<1> DEFINE moved == [dir EXCEPT !.root = None, !.backup[p] = dir.root]
<1>3. CASE dir.root # None /\ Becomes(moved) /\ Goto(p, "swap-in")
    <2>1. dir \in Entries /\ dir \in survivors /\ dir.root = dir.last
        BY <1>3 DEF Names, Reachable
    <2>2. /\ moved \in Entries /\ moved.root = None /\ moved.last = dir.last
          /\ moved.left = dir.left /\ moved.stage = dir.stage
          /\ moved.backup[p] = dir.last
          /\ \A q \in Proc \ {p} : moved.backup[q] = dir.backup[q]
        BY <2>1 DEF Entries
    <2>3. Becomes(moved)
        BY <1>3
    <2> HIDE DEF moved
    <2>4. Reachable(moved)
        BY <2>1, <2>2 DEF Reachable
    <2>5. dir' = moved /\ survivors' = survivors \cup {moved}
        BY <2>3 DEF Becomes
    <2>6. dir.stage[p] \notin {moved.backup[q] : q \in Proc}
        BY <1>1, <2>1, <2>2 DEF LocatedAt, Private
    <2>7. Private(p)'
        BY <1>1, <2>1, <2>2, <2>5, <2>6, TransactionAssumption
           DEF LocatedAt, Private
    <2>8. LocatedAt(p, "swap-in")'
        BY <2>2, <2>5, <2>7 DEF LocatedAt
    <2> QED
        BY <1>1, <1>3, <2>2, <2>3, <2>4, <2>8, MovedNames DEF Labels, Guarded
<1> QED
    BY <1>2, <1>3 DEF SwapOut

LEMMA SwapInNames ==
    ASSUME IInv, Names, NEW p \in Proc, SwapIn(p)
    PROVE  Names'
<1>1. pc[p] = "swap-in" /\ LocatedAt(p, "swap-in")
    <2>1. pc[p] = "swap-in" /\ LocatedAt(p, pc[p])
        BY DEF Names, SwapIn
    <2> QED
        BY <2>1 DEF LocatedAt
<1>2. CASE NoEntry /\ Goto(p, "restore")
    <2>1. LocatedAt(p, "restore")
        BY <1>1 DEF LocatedAt
    <2> QED
        BY <1>2, <2>1, StillNames DEF Labels, Guarded
<1> DEFINE moved == [dir EXCEPT !.root = dir.stage[p], !.last = dir.stage[p],
                                !.stage[p] = None]
<1>3. CASE Becomes(moved) /\ Goto(p, "sync")
    <2>1. dir \in Entries /\ dir \in survivors /\ dir.stage[p] \in Tree
          /\ dir.backup[p] = dir.last /\ dir.stage[p] # dir.last
        BY <1>1 DEF Names, LocatedAt, Private
    <2>2. /\ moved \in Entries /\ moved.root = dir.stage[p] /\ moved.last = dir.stage[p]
          /\ moved.backup = dir.backup /\ moved.stage[p] = None
          /\ \A q \in Proc \ {p} : moved.stage[q] = dir.stage[q]
        BY <2>1 DEF Entries
    <2>3. Becomes(moved)
        BY <1>3
    <2> HIDE DEF moved
    <2>4. Reachable(moved)
        BY <2>2 DEF Reachable
    <2>5. dir' = moved
        BY <2>3 DEF Becomes
    <2>6. LocatedAt(p, "sync")'
        BY <2>1, <2>2, <2>5 DEF LocatedAt, Entries
    <2> QED
        BY <1>1, <1>3, <2>2, <2>3, <2>4, <2>6, MovedNames DEF Labels, Guarded
<1> QED
    BY <1>2, <1>3 DEF SwapIn

LEMMA RestoreNames ==
    ASSUME IInv, Names, NEW p \in Proc, Restore(p)
    PROVE  Names'
<1>1. pc[p] = "restore" /\ LocatedAt(p, "restore")
    <2>1. pc[p] = "restore" /\ LocatedAt(p, pc[p])
        BY DEF Names, Restore
    <2> QED
        BY <2>1 DEF LocatedAt
<1>2. CASE NoEntry /\ Goto(p, "unstage")
    <2>1. LocatedAt(p, "unstage")
        BY <1>1 DEF LocatedAt
    <2> QED
        BY <1>2, <2>1, StillNames DEF Labels, Guarded
<1> DEFINE moved == [dir EXCEPT !.root = dir.backup[p], !.backup[p] = None]
<1>3. CASE Becomes(moved) /\ Goto(p, "unstage")
    <2>1. dir \in Entries /\ dir \in survivors /\ dir.backup[p] = dir.last
        BY <1>1 DEF Names, LocatedAt
    <2>2. /\ moved \in Entries /\ moved.root = dir.last /\ moved.last = dir.last
          /\ moved.left = dir.left /\ moved.stage = dir.stage
          /\ moved.backup[p] = None
          /\ \A q \in Proc \ {p} : moved.backup[q] = dir.backup[q]
        BY <2>1 DEF Entries
    <2>3. Becomes(moved)
        BY <1>3
    <2> HIDE DEF moved
    <2>4. Reachable(moved)
        BY <2>2 DEF Reachable
    <2>5. dir' = moved /\ survivors' = survivors \cup {moved}
        BY <2>3 DEF Becomes
    <2>6. dir.stage[p] \notin {moved.backup[q] : q \in Proc}
        BY <1>1, <2>1, <2>2, TransactionAssumption DEF LocatedAt, Private
    <2>7. Private(p)'
        BY <1>1, <2>1, <2>2, <2>5, <2>6 DEF LocatedAt, Private
    <2>8. LocatedAt(p, "unstage")'
        BY <2>7 DEF LocatedAt
    <2> QED
        BY <1>1, <1>3, <2>2, <2>3, <2>4, <2>8, MovedNames DEF Labels, Guarded
<1> QED
    BY <1>2, <1>3 DEF Restore

\* Once synced, a power loss finds the new catalog in its place.
LEMMA SyncParentNames ==
    ASSUME IInv, Names, NEW p \in Proc, SyncParent(p)
    PROVE  Names'
<1>1. pc[p] = "sync" /\ LocatedAt(p, "sync")
    <2>1. pc[p] = "sync" /\ LocatedAt(p, pc[p])
        BY DEF Names, SyncParent
    <2> QED
        BY <2>1 DEF LocatedAt
<1>2. CASE UNCHANGED survivors /\ Goto(p, "unstage")
    <2>1. LocatedAt(p, "unstage")
        BY <1>1 DEF LocatedAt
    <2>2. NoEntry
        BY <1>2 DEF SyncParent, NoEntry
    <2> QED
        BY <1>2, <2>1, <2>2, StillNames DEF Labels, Guarded
<1>3. CASE survivors' = {dir} /\ Goto(p, "discard")
    <2>1. dir' = dir
        BY DEF SyncParent
    <2>2. LocatedAt(p, "discard")'
        BY <1>1, <1>3, <2>1 DEF LocatedAt, Synced
    <2> QED
        BY <1>1, <1>3, <2>1, <2>2, RenamedNames DEF Names, Labels, Guarded
<1> QED
    BY <1>2, <1>3 DEF SyncParent

LEMMA DiscardBackupNames ==
    ASSUME IInv, Names, NEW p \in Proc, DiscardBackup(p)
    PROVE  Names'
<1>1. pc[p] = "discard" /\ LocatedAt(p, "discard")
    <2>1. pc[p] = "discard" /\ LocatedAt(p, pc[p])
        BY DEF Names, DiscardBackup
    <2> QED
        BY <2>1 DEF LocatedAt
<1>2. CASE NoEntry /\ Goto(p, "finish")
    <2>1. LocatedAt(p, "finish")
        BY <1>1 DEF LocatedAt
    <2> QED
        BY <1>2, <2>1, StillNames DEF Labels, Guarded
<1> DEFINE moved == [dir EXCEPT !.backup[p] = None]
<1>3. CASE Becomes(moved) /\ Goto(p, "finish")
    <2>1. dir \in Entries /\ dir.root = dir.last /\ dir.stage[p] = None /\ Synced
        BY <1>1 DEF Names, LocatedAt
    <2>2. /\ moved \in Entries /\ moved.root = dir.last /\ moved.last = dir.last
          /\ moved.left = dir.left /\ moved.stage = dir.stage
          /\ \A q \in Proc \ {p} : moved.backup[q] = dir.backup[q]
        BY <2>1 DEF Entries
    <2>3. Becomes(moved)
        BY <1>3
    <2> HIDE DEF moved
    <2>4. Reachable(moved)
        BY <2>2 DEF Reachable
    <2>5. dir' = moved /\ survivors' = survivors \cup {moved}
        BY <2>3 DEF Becomes
    <2>6. LocatedAt(p, "finish")'
        BY <2>1, <2>2, <2>5 DEF LocatedAt, Synced
    <2> QED
        BY <1>1, <1>3, <2>2, <2>3, <2>4, <2>6, MovedNames DEF Labels, Guarded
<1> QED
    BY <1>2, <1>3 DEF DiscardBackup

\* The way out: nothing is asked of a command that only has its guard left.
LEMMA UnstageNames ==
    ASSUME IInv, Names, NEW p \in Proc, Unstage(p)
    PROVE  Names'
<1>1. pc[p] = "unstage" /\ LocatedAt(p, "unlock")'
    BY DEF Unstage, LocatedAt
<1>2. CASE UNCHANGED <<dir, survivors>> /\ Goto(p, "unlock")
    <2>1. NoEntry /\ LocatedAt(p, "unlock")
        BY <1>2 DEF NoEntry, LocatedAt
    <2> QED
        BY <1>2, <2>1, StillNames DEF Labels, Guarded
<1> DEFINE moved == [dir EXCEPT !.stage[p] = None]
<1>3. CASE Becomes(moved) /\ Goto(p, "unlock")
    <2>1. dir \in Entries /\ dir \in survivors
        BY DEF Names
    <2>2. /\ moved \in Entries /\ moved.root = dir.root /\ moved.last = dir.last
          /\ moved.left = dir.left /\ moved.backup = dir.backup
          /\ \A q \in Proc \ {p} : moved.stage[q] = dir.stage[q]
        BY <2>1 DEF Entries
    <2>3. Becomes(moved)
        BY <1>3
    <2> HIDE DEF moved
    <2>4. Reachable(moved)
        BY <2>1, <2>2 DEF Names, Reachable
    <2> QED
        BY <1>1, <1>3, <2>2, <2>3, <2>4, MovedNames DEF Labels, Guarded
<1> QED
    BY <1>2, <1>3 DEF Unstage

\* What a command leaves behind, by an exit or a crash, is still reachable.
LEMMA LeftBehind ==
    ASSUME IInv, Names, NEW p \in Proc, pc[p] \in Guarded, Goto(p, "idle"),
           NEW guard \in Proc \cup {None},
           Becomes([dir EXCEPT !.guard = guard, !.left = Leftovers(p),
                               !.stage[p] = None, !.backup[p] = None])
    PROVE  Names'
<1> DEFINE moved == [dir EXCEPT !.guard = guard, !.left = Leftovers(p),
                                !.stage[p] = None, !.backup[p] = None]
<1>1. dir \in Entries /\ dir \in survivors
    BY DEF Names
<1>2. Leftovers(p) \subseteq Tree /\ dir.left \subseteq Leftovers(p)
      /\ (dir.backup[p] # None => dir.backup[p] \in Leftovers(p))
    BY <1>1 DEF Entries, Leftovers
<1>3. /\ moved \in Entries /\ moved.root = dir.root /\ moved.last = dir.last
      /\ moved.left = Leftovers(p)
      /\ moved.stage[p] = None /\ moved.backup[p] = None
      /\ \A q \in Proc \ {p} : /\ moved.stage[q] = dir.stage[q]
                               /\ moved.backup[q] = dir.backup[q]
    BY <1>1, <1>2 DEF Entries
<1>4. Becomes(moved)
    OBVIOUS
<1> HIDE DEF moved
<1>5. Reachable(moved)
    <2>1. dir.last \in Tree /\ dir.last # None
        BY <1>1, TransactionAssumption DEF Entries
    <2>2. Reachable(dir)
        BY <1>1 DEF Names
    <2>3. \A q \in Proc : dir.last = dir.backup[q] =>
              dir.last \in Leftovers(p) \/ dir.last = moved.backup[q]
        BY <1>2, <1>3, <2>1
    <2>4. moved.last \in {moved.root} \cup moved.left
                          \cup {moved.backup[q] : q \in Proc}
        BY <1>2, <1>3, <2>2, <2>3 DEF Reachable
    <2> QED
        BY <1>3, <2>2, <2>4 DEF Reachable
<1>6. LocatedAt(p, "idle")'
    BY <1>3, <1>4 DEF Becomes, LocatedAt, Bare
<1> QED
    BY <1>3, <1>4, <1>5, <1>6, MovedNames DEF Labels

LEMMA UnlockNames ==
    ASSUME IInv, Names, NEW p \in Proc, Unlock(p)
    PROVE  Names'
BY LeftBehind DEF Unlock, Guarded

LEMMA CrashNames ==
    ASSUME IInv, Names, NEW p \in Proc, Crash(p)
    PROVE  Names'
<1> DEFINE entries == [dir EXCEPT !.left = Leftovers(p), !.stage[p] = None,
                                  !.backup[p] = None]
<1>1. dir \in Entries /\ pc \in [Proc -> Labels]
    BY DEF Names, IInv, Shape, Labels
<1>2. Becomes(entries) /\ Goto(p, "idle") /\ pc[p] # "idle"
    BY DEF Crash, Becomes
<1>3. CASE pc[p] = "lock"
    <2>1. Bare(p)
        BY <1>3 DEF Names, LocatedAt
    <2>2. Leftovers(p) = dir.left
        BY <2>1 DEF Bare, Leftovers
    <2>3. entries = dir
        <3>1. entries.stage = dir.stage /\ entries.backup = dir.backup
            BY <1>1, <2>1 DEF Bare, Entries
        <3> QED
            BY <1>1, <2>2, <3>1 DEF Entries
    <2>4. NoEntry
        BY <1>2, <2>3 DEF Becomes, NoEntry, Names
    <2>5. LocatedAt(p, "idle")
        BY <2>1 DEF LocatedAt
    <2> QED
        BY <1>2, <2>4, <2>5, StillNames DEF Labels
<1>4. CASE pc[p] \in Guarded
    <2>1. entries = [dir EXCEPT !.guard = dir.guard, !.left = Leftovers(p),
                                !.stage[p] = None, !.backup[p] = None]
        BY <1>1 DEF Entries
    <2>2. dir.guard \in Proc \cup {None}
        BY <1>1 DEF Entries
    <2> QED
        BY <1>2, <1>4, <2>1, <2>2, LeftBehind
<1> QED
    BY <1>1, <1>2, <1>3, <1>4 DEF Labels

\* When no command runs, only the parent directory's own names are left.
LEMMA AloneNames ==
    ASSUME dir' \in Entries, survivors' = {dir'}, Reachable(dir'),
           pc' = [p \in Proc |-> "idle"],
           dir'.stage = [p \in Proc |-> None], dir'.backup = [p \in Proc |-> None]
    PROVE  Names'
<1>1. \A p \in Proc : LocatedAt(p, pc[p])'
    BY DEF LocatedAt, Bare
<1>2. \A d \in survivors' : Reachable(d)'
    BY DEF Reachable
<1> QED
    BY <1>1, <1>2 DEF Names

LEMMA PowerLossNames ==
    ASSUME IInv, Names, PowerLoss
    PROVE  Names'
<1>1. PICK d \in survivors : dir' = Vanish(d)
    BY DEF PowerLoss
<1>2. d \in Entries /\ Reachable(d)
    BY DEF Names
<1> DEFINE left == (d.left \cup {d.stage[p] : p \in Proc}
                        \cup {d.backup[p] : p \in Proc}) \ {None}
<1>3. left \subseteq Tree
    BY <1>2 DEF Entries
<1>4. dir' = [d EXCEPT !.left = left, !.stage = [p \in Proc |-> None],
                       !.backup = [p \in Proc |-> None]]
    BY <1>1 DEF Vanish
<1>5. /\ dir' \in Entries /\ dir'.root = d.root /\ dir'.last = d.last
      /\ dir'.left = left /\ dir'.stage = [p \in Proc |-> None]
      /\ dir'.backup = [p \in Proc |-> None]
    BY <1>2, <1>3, <1>4 DEF Entries
<1>6. d.last \in Tree
    BY <1>2 DEF Entries
<1>7. d.last # None
    BY <1>6, TransactionAssumption
<1>8. d.last \in {d.root} \cup left
    BY <1>2, <1>7 DEF Reachable
<1>9. Reachable(dir')
    BY <1>2, <1>5, <1>8 DEF Reachable
<1> QED
    BY <1>5, <1>9, AloneNames DEF PowerLoss

LEMMA RecoverNames ==
    ASSUME IInv, Names, Recover
    PROVE  Names'
<1>1. dir \in Entries /\ pc \in [Proc -> Labels]
    BY DEF Names, IInv, Shape, Labels
<1>2. dir' = [dir EXCEPT !.root = dir.last, !.guard = None, !.left = {}]
    BY DEF Recover
<1>3. \A p \in Proc : pc[p] = "idle" /\ Bare(p)
    BY DEF Recover, Names, LocatedAt
<1>4. pc' = [p \in Proc |-> "idle"]
    BY <1>1, <1>3 DEF Recover
<1>5. dir.stage = [p \in Proc |-> None] /\ dir.backup = [p \in Proc |-> None]
    BY <1>1, <1>3 DEF Entries, Bare
<1>6. /\ dir' \in Entries /\ dir'.root = dir.last /\ dir'.last = dir.last
      /\ dir'.stage = dir.stage /\ dir'.backup = dir.backup
    BY <1>1, <1>2 DEF Entries
<1>7. Reachable(dir')
    BY <1>6 DEF Reachable
<1> QED
    BY <1>4, <1>5, <1>6, <1>7, AloneNames DEF Recover

LEMMA NamesStep == IInv /\ Names /\ [Next]_vars => Names'
<1> SUFFICES ASSUME IInv, Names, [Next]_vars PROVE Names'
    OBVIOUS
<1>1. CASE UNCHANGED <<dir, survivors, pc>>
    BY <1>1 DEF Names, Reachable, LocatedAt, Bare, Private, Synced
<1>2. ASSUME NEW p \in Proc, Command(p) PROVE Names'
    BY <1>2, ReadingNames, AcquireGuardNames, MakeStageNames, SwapOutNames,
       SwapInNames, RestoreNames, SyncParentNames, DiscardBackupNames,
       UnstageNames, UnlockNames DEF Command
<1>3. ASSUME NEW p \in Proc, Crash(p) PROVE Names'
    BY <1>3, CrashNames
<1>4. CASE Edit
    BY <1>1, <1>4 DEF Edit, NoEntry
<1>5. CASE PowerLoss
    BY <1>5, PowerLossNames
<1>6. CASE Recover
    BY <1>6, RecoverNames
<1>7. CASE UNCHANGED vars
    BY <1>1, <1>7 DEF vars
<1> QED
    BY <1>2, <1>3, <1>4, <1>5, <1>6, <1>7 DEF Next

----------------------------------------------------------------------------
(* What is in the trees. *)

Batches(tree) == content[tree].lock.batches

\* a complete catalog whose locks know the batches its declarations have
Whole(tree) ==
    /\ tree \in Tree /\ content[tree] \in Catalog
    /\ content[tree].decl.batches = Batches(tree)

\* what a power loss may leave has the last catalog, and every reported batch
Intact(d) ==
    /\ Whole(d.last)
    /\ InSync(content[d.last]) \/ edits > 0
    /\ reported \subseteq Batches(d.last)

\* p's staged tree can replace the live one
Prepared(p) ==
    LET tree == dir.stage[p] IN
    /\ Whole(tree)
    /\ Batches(dir.last) \subseteq Batches(tree)
    /\ p \in Applier => p \in Batches(tree)

\* p has the live catalog's edits, or an edit has overtaken it
Fresh(p) ==
    \/ content[dir.stage[p]].decl.edits = content[dir.last].decl.edits
    \/ p \in late

\* what a command has worked out when it is at a label
WorkedOut(p, label) ==
    /\ label \in {"stage", "copy"} /\ p \in Reconciler =>
          seen[p] \in Catalog /\ seen[p].decl.batches = Batches(dir.last)
    /\ label \in {"validate", "recheck", "swap-out", "swap-in"} => Prepared(p)
    /\ label \in {"recheck", "swap-out", "swap-in"} => InSync(content[dir.stage[p]])
    /\ label \in {"validate", "recheck"} /\ p \in Applier =>
          seen[p] \in Catalog /\ content[dir.stage[p]] = Admitted(seen[p], p)
    /\ label \in {"check", "recheck"} => p \in Applier
    /\ label \in {"swap-out", "swap-in"} => Fresh(p)
    /\ label = "validate" /\ p \in Reconciler => Fresh(p)
    /\ label \in {"sync", "discard", "finish"} /\ p \in Applier =>
          p \in Batches(dir.last)

Typed ==
    /\ content \in [Tree -> Catalog \cup {Partial}]
    /\ seen \in [Proc -> Catalog \cup {Partial}]
    /\ late \subseteq Proc
    /\ reported \subseteq Applier
    /\ edits \in 0 .. MaxEdits

Contents ==
    /\ Typed
    /\ \A d \in survivors : Intact(d)
    /\ \A p \in Proc : WorkedOut(p, pc[p])

\* Facts of the operators on catalogs.
LEMMA NotPartial == \A catalog \in Catalog : catalog # Partial
BY DeclarationsAssumption DEF Catalog, Partial

LEMMA ReconciledCatalog ==
    ASSUME NEW catalog \in Catalog, NEW from \in Catalog
    PROVE  /\ Reconciled(catalog, from) \in Catalog
           /\ Reconciled(catalog, from).decl = catalog.decl
           /\ Reconciled(catalog, from).lock = from.decl
BY DEF Reconciled, Catalog

LEMMA AdmittedCatalog ==
    ASSUME NEW catalog \in Catalog, NEW batch \in Applier
    PROVE  /\ Admitted(catalog, batch) \in Catalog
           /\ Admitted(catalog, batch).lock = Admitted(catalog, batch).decl
           /\ Admitted(catalog, batch).decl.edits = catalog.decl.edits
           /\ Admitted(catalog, batch).decl.batches =
                catalog.decl.batches \cup {batch}
<1> DEFINE decl == [catalog.decl EXCEPT !.batches = @ \cup {batch}]
<1>1. catalog.decl \in Declarations
    BY DEF Catalog
<1>2. /\ decl \in Declarations /\ decl.edits = catalog.decl.edits
      /\ decl.batches = catalog.decl.batches \cup {batch}
    BY <1>1 DEF Declarations
<1>3. Admitted(catalog, batch) = [decl |-> decl, lock |-> decl]
    BY DEF Admitted
<1> HIDE DEF decl
<1> QED
    BY <1>2, <1>3 DEF Catalog

LEMMA EditedCatalog ==
    ASSUME NEW catalog \in Catalog, NEW n \in 0 .. MaxEdits
    PROVE  /\ [catalog EXCEPT !.decl.edits = n] \in Catalog
           /\ [catalog EXCEPT !.decl.edits = n].lock = catalog.lock
           /\ [catalog EXCEPT !.decl.edits = n].decl.batches = catalog.decl.batches
BY DEF Catalog, Declarations

LEMMA ContentsInit == Init => Contents
<1> SUFFICES ASSUME Init PROVE Contents
    OBVIOUS
<1> DEFINE tree == Some(Tree)
           first == [decl |-> Initially, lock |-> Initially]
<1>1. tree \in Tree
    BY TransactionAssumption DEF Some
<1>2. survivors = {dir} /\ dir.last = tree
    BY DEF Init
<1>3. content = [u \in Tree |-> IF u = tree THEN first ELSE Partial]
    BY DEF Init
<1>4. MaxEdits \in Nat
    BY TransactionAssumption
<1>5. first \in Catalog /\ Initially \in Declarations
    BY <1>4 DEF Initially, Declarations, Catalog
<1>6. Typed
    BY <1>3, <1>4, <1>5 DEF Init, Typed
<1> HIDE DEF tree
<1>7. content[tree] = first
    BY <1>1, <1>3
<1>8. Intact(dir)
    BY <1>1, <1>2, <1>5, <1>7, NotPartial
       DEF Init, Intact, Whole, Batches, InSync
<1>9. \A p \in Proc : WorkedOut(p, pc[p])
    BY DEF Init, WorkedOut
<1> QED
    BY <1>2, <1>6, <1>8, <1>9 DEF Contents

\* The catalogs stay where nothing writes to them.
LEMMA StillIntact ==
    ASSUME Contents, NEW d \in survivors, edits' = edits, reported' = reported,
           content'[d.last] = content[d.last]
    PROVE  Intact(d)'
BY DEF Contents, Intact, Whole, Batches, InSync

\* A step of a guarded command is about its own results.
LEMMA OwnContents ==
    ASSUME IInv, Contents, NEW p \in Proc, pc[p] \in Guarded, NEW next \in Labels,
           Goto(p, next), Typed', \A d \in survivors' : Intact(d)',
           WorkedOut(p, next)'
    PROVE  Contents'
<1>1. pc' = [pc EXCEPT ![p] = next] /\ pc \in [Proc -> Labels]
    BY DEF Goto, IInv, Shape, Labels
<1>2. ASSUME NEW q \in Proc PROVE WorkedOut(q, pc[q])'
    <2>1. CASE q = p
        BY <1>1, <2>1 DEF WorkedOut
    <2>2. CASE q # p
        <3>1. pc'[q] \in {"idle", "lock"}
            BY <1>1, <2>2, OthersWait
        <3> QED
            BY <3>1 DEF WorkedOut
    <2> QED
        BY <2>1, <2>2
<1> QED
    BY <1>2 DEF Contents

\* The live catalog is the last one.
LEMMA Live ==
    ASSUME Names, Contents, dir.root # None
    PROVE  dir.root = dir.last /\ Whole(dir.root)
BY DEF Names, Reachable, Contents, Intact

\* Before the guard, and taking it: no result but the facts an update-apply
\* has recomputed.
LEMMA OutsideContents ==
    ASSUME IInv, Names, Contents, NEW p \in Proc,
           \/ StartReconcile(p) \/ RecomputeFacts(p) \/ AlreadyApplied(p)
           \/ AcquireGuard(p)
    PROVE  Contents'
<1>1. /\ UNCHANGED <<content, late, reported, edits>>
      /\ pc[p] \in {"idle", "lock"}
    BY DEF StartReconcile, RecomputeFacts, AlreadyApplied, AcquireGuard, Works, budgets
<1>2. Typed'
    <2>1. CASE RecomputeFacts(p)
        <3>1. content[dir.root] \in Catalog
            BY <2>1, Live DEF RecomputeFacts, Whole
        <3> QED
            BY <1>1, <2>1, <3>1 DEF RecomputeFacts, Contents, Typed
    <2>2. CASE UNCHANGED seen
        BY <1>1, <2>2 DEF Contents, Typed
    <2> QED
        BY <2>1, <2>2 DEF StartReconcile, AlreadyApplied, AcquireGuard
<1>3. dir \in Entries /\ dir \in survivors
    BY DEF Names
<1>4. \/ UNCHANGED <<dir, survivors>>
      \/ /\ dir' = [dir EXCEPT !.guard = p]
         /\ survivors' = survivors \cup {dir'}
    BY DEF StartReconcile, RecomputeFacts, AlreadyApplied, AcquireGuard, NoEntry,
           Becomes
<1>5. dir'.last = dir.last /\ dir'.stage = dir.stage
    BY <1>3, <1>4 DEF Entries
<1>6. \A d \in survivors' : Intact(d)'
    <2>1. \A d \in survivors : Intact(d)'
        BY <1>1, StillIntact
    <2>2. ASSUME NEW d \in survivors' PROVE Intact(d)'
        <3>1. d \in survivors \/ d.last = dir.last
            BY <1>4, <1>5
        <3> QED
            BY <1>3, <2>1, <3>1 DEF Intact
    <2> QED
        BY <2>2
<1>7. ASSUME NEW q \in Proc PROVE WorkedOut(q, pc[q])'
    <2>1. pc \in [Proc -> Labels] /\ WorkedOut(q, pc[q])
        BY DEF IInv, Shape, Labels, Contents
    <2>2. CASE q # p \/ UNCHANGED pc
        <3>1. pc'[q] = pc[q]
            BY <2>1, <2>2 DEF StartReconcile, RecomputeFacts, AlreadyApplied,
                              AcquireGuard, Goto
        <3>2. seen'[q] = seen[q]
            BY <2>1, <2>2 DEF RecomputeFacts, StartReconcile, AlreadyApplied,
                              AcquireGuard, Contents, Typed, Goto
        <3>3. PICK label \in Labels : pc[q] = label /\ WorkedOut(q, label)
            BY <2>1
        <3>4. WorkedOut(q, label)'
            BY <1>1, <1>5, <3>2, <3>3
               DEF WorkedOut, Prepared, Fresh, Whole, Batches
        <3> QED
            BY <3>1, <3>3, <3>4 DEF WorkedOut
    <2>3. CASE q = p /\ ~UNCHANGED pc
        <3>1. pc'[p] \in {"idle", "lock", "load"} \/ (pc'[p] = "check" /\ p \in Applier)
            BY <2>1, <2>3 DEF StartReconcile, RecomputeFacts, AlreadyApplied,
                              AcquireGuard, Goto, Proc
        <3> QED
            BY <2>3, <3>1 DEF WorkedOut
    <2> QED
        BY <2>2, <2>3
<1> QED
    BY <1>2, <1>6, <1>7 DEF Contents

\* The steps that only read.
LEMMA LoadContents ==
    ASSUME IInv, Names, Contents, NEW p \in Proc, LoadInputs(p) \/ CheckFingerprint(p)
    PROVE  Contents'
<1>1. /\ UNCHANGED <<dir, survivors, content, late, reported, edits>>
      /\ pc[p] \in Guarded
    BY DEF LoadInputs, CheckFingerprint, NoEntry, Works, Fault, budgets, Guarded
<1>2. PICK next \in {"unlock", "stage"} : Goto(p, next)
    BY DEF LoadInputs, CheckFingerprint, GiveUp
<1>3. \A d \in survivors' : Intact(d)'
    BY <1>1, StillIntact
<1>4. CASE LoadInputs(p) /\ dir.root # None /\ seen' = [seen EXCEPT ![p] = content[dir.root]]
    <2>1. Whole(dir.root) /\ dir.root = dir.last
        BY <1>4, Live
    <2>2. seen' \in [Proc -> Catalog \cup {Partial}] /\ seen'[p] = content[dir.last]
        BY <1>4, <2>1 DEF Contents, Typed, Whole
    <2>3. Typed'
        BY <1>1, <2>2 DEF Contents, Typed
    <2>4. WorkedOut(p, next)'
        BY <1>1, <1>2, <2>1, <2>2 DEF WorkedOut, Whole, Batches
    <2> QED
        BY <1>1, <1>2, <1>3, <2>3, <2>4, OwnContents DEF Labels, Guarded
<1>5. CASE UNCHANGED seen /\ (CheckFingerprint(p) \/ Goto(p, "unlock"))
    <2>1. Typed'
        BY <1>1, <1>5 DEF Contents, Typed
    <2>2. CASE Goto(p, "unlock")
        <3>1. WorkedOut(p, "unlock")'
            BY DEF WorkedOut
        <3> QED
            BY <1>1, <1>3, <2>1, <2>2, <3>1, OwnContents DEF Labels, Guarded
    <2>3. CASE CheckFingerprint(p) /\ Goto(p, "stage")
        <3>1. p \notin Reconciler
            <4>1. pc[p] = "check" /\ WorkedOut(p, pc[p])
                BY <2>3 DEF CheckFingerprint, Contents
            <4> QED
                BY <4>1, TransactionAssumption DEF WorkedOut
        <3>2. WorkedOut(p, "stage")'
            BY <3>1 DEF WorkedOut
        <3> QED
            BY <1>1, <1>3, <2>1, <2>3, <3>2, OwnContents DEF Labels, Guarded
    <2> QED
        BY <1>5, <2>2, <2>3 DEF CheckFingerprint, GiveUp
<1> QED
    BY <1>4, <1>5 DEF LoadInputs, CheckFingerprint, GiveUp

\* What a label knows is known before the step from it.
LEMMA WorkedOutHere ==
    ASSUME Contents, NEW p \in Proc, NEW label \in Labels, pc[p] = label
    PROVE  WorkedOut(p, label)
<1>1. WorkedOut(p, pc[p])
    BY DEF Contents
<1> QED
    BY <1>1 DEF WorkedOut

LEMMA LocatedHere ==
    ASSUME Names, NEW p \in Proc, NEW label \in Labels, pc[p] = label
    PROVE  LocatedAt(p, label)
<1>1. LocatedAt(p, pc[p])
    BY DEF Names
<1> QED
    BY <1>1 DEF LocatedAt

\* A step that leaves trees and entries alone.
LEMMA ReadingContents ==
    ASSUME IInv, Names, Contents, NEW p \in Proc, pc[p] \in Guarded,
           NEW next \in Labels, Goto(p, next), NoEntry,
           UNCHANGED <<content, seen, reported, edits>>, late' \subseteq late,
           WorkedOut(p, next)'
    PROVE  Contents'
<1>1. Typed'
    BY DEF Contents, Typed
<1>2. \A d \in survivors' : Intact(d)'
    BY StillIntact DEF NoEntry
<1> QED
    BY <1>1, <1>2, OwnContents

\* A step that writes to a tree no survivor has for its catalog.
LEMMA WritingContents ==
    ASSUME IInv, Names, Contents, NEW p \in Proc, pc[p] \in Guarded,
           NEW next \in Labels, Goto(p, next),
           dir'.last = dir.last, survivors' \subseteq survivors \cup {dir'},
           UNCHANGED <<seen, reported, edits>>, late' \subseteq late,
           NEW tree \in Tree, \A d \in survivors : d.last # tree,
           NEW new \in Catalog \cup {Partial}, content' = [content EXCEPT ![tree] = new],
           WorkedOut(p, next)'
    PROVE  Contents'
<1>1. Typed'
    BY DEF Contents, Typed
<1>2. \A d \in survivors : content'[d.last] = content[d.last]
    BY DEF Contents, Typed
<1>3. ASSUME NEW d \in survivors' PROVE Intact(d)'
    <2>1. \A e \in survivors : Intact(e)'
        BY <1>2, StillIntact
    <2>2. \E e \in survivors : e.last = d.last
        BY DEF Names
    <2> QED
        BY <2>1, <2>2 DEF Intact
<1> QED
    BY <1>1, <1>3, OwnContents

\* A step that gives trees other names.
LEMMA RenamingContents ==
    ASSUME IInv, Names, Contents, NEW p \in Proc, pc[p] \in Guarded,
           NEW next \in Labels, Goto(p, next),
           dir'.last = dir.last, survivors' \subseteq survivors \cup {dir'},
           UNCHANGED <<content, seen, late, reported, edits>>,
           WorkedOut(p, next)'
    PROVE  Contents'
<1>1. Typed'
    BY DEF Contents, Typed
<1>2. ASSUME NEW d \in survivors' PROVE Intact(d)'
    <2>1. \A e \in survivors : Intact(e)'
        BY StillIntact
    <2>2. \E e \in survivors : e.last = d.last
        BY DEF Names
    <2> QED
        BY <2>1, <2>2 DEF Intact
<1> QED
    BY <1>1, <1>2, OwnContents

LEMMA MakeStageContents ==
    ASSUME IInv, Names, Contents, NEW p \in Proc, MakeStage(p)
    PROVE  Contents'
<1> DEFINE tree == Some(Free)
<1>1. tree \in Free
    BY DEF MakeStage, Some
<1>2. tree \in Tree /\ \A d \in survivors : d.last # tree
    <2>1. tree \in Tree /\ \A d \in survivors : tree \notin Named(d)
        BY <1>1 DEF Free
    <2> QED
        BY <2>1 DEF Named
<1>3. /\ pc[p] = "stage" /\ Goto(p, "copy") /\ Becomes([dir EXCEPT !.stage[p] = tree])
      /\ content' = [content EXCEPT ![tree] = Partial]
      /\ UNCHANGED <<seen, late, reported, edits>>
    BY DEF MakeStage, Works, budgets
<1> HIDE DEF tree
<1>4. dir \in Entries /\ dir \in survivors
    BY DEF Names
<1>5. dir'.last = dir.last /\ survivors' = survivors \cup {dir'}
    BY <1>3, <1>4 DEF Becomes, Entries
<1>6. WorkedOut(p, "stage")
    BY <1>3, WorkedOutHere DEF Labels, Guarded
<1>7. content'[dir.last] = content[dir.last]
    BY <1>2, <1>3, <1>4 DEF Contents, Typed
<1>8. WorkedOut(p, "copy")'
    BY <1>3, <1>5, <1>6, <1>7 DEF WorkedOut, Batches
<1> QED
    BY <1>2, <1>3, <1>5, <1>8, WritingContents DEF Labels, Guarded

LEMMA CopyLiveContents ==
    ASSUME IInv, Names, Contents, NEW p \in Proc, CopyLive(p)
    PROVE  Contents'
<1> DEFINE tree == dir.stage[p]
           live == content[dir.root]
<1>1. /\ pc[p] = "copy" /\ NoEntry /\ UNCHANGED <<seen, reported, edits>>
      /\ late' \subseteq late
    BY DEF CopyLive, Works, Fault, budgets
<1>2. LocatedAt(p, "copy") /\ WorkedOut(p, "copy")
    BY <1>1, LocatedHere, WorkedOutHere DEF Labels, Guarded
<1>3. tree \in Tree /\ \A d \in survivors : d.last # tree
    <2>1. Private(p)
        BY <1>2 DEF LocatedAt
    <2> QED
        BY <2>1 DEF Private
<1>4. dir \in Entries /\ dir \in survivors
      /\ dir' = dir /\ survivors' = survivors
    BY <1>1 DEF Names, NoEntry
<1>5. content \in [Tree -> Catalog \cup {Partial}]
    BY DEF Contents, Typed
<1>6. CASE Goto(p, "unstage") /\ UNCHANGED <<content, late>>
    <2>1. WorkedOut(p, "unstage")'
        BY DEF WorkedOut
    <2> QED
        BY <1>1, <1>6, <2>1, ReadingContents DEF Labels, Guarded
<1>7. ASSUME dir.root # None, p \in Reconciler,
             content' = [content EXCEPT ![tree] = Reconciled(live, seen[p])],
             Goto(p, "validate")
      PROVE  Contents'
    <2>1. /\ dir.root = dir.last /\ Whole(dir.root) /\ tree # dir.last
        BY <1>3, <1>4, <1>7, Live
    <2>2. seen[p] \in Catalog /\ seen[p].decl.batches = Batches(dir.last)
        BY <1>2, <1>7 DEF WorkedOut
    <2> DEFINE new == Reconciled(live, seen[p])
    <2>3. new \in Catalog /\ new.decl = live.decl /\ new.lock = seen[p].decl
        BY <2>1, <2>2, ReconciledCatalog DEF Whole
    <2>4. content'[tree] = new /\ content'[dir.last] = live
        BY <1>3, <1>5, <1>7, <2>1 DEF Whole
    <2> HIDE DEF new
    <2>5. Prepared(p)'
        BY <1>3, <1>4, <1>7, <2>1, <2>2, <2>3, <2>4, TransactionAssumption
           DEF Prepared, Whole, Batches
    <2>6. Fresh(p)'
        BY <1>4, <2>3, <2>4 DEF Fresh
    <2>7. WorkedOut(p, "validate")'
        BY <1>7, <2>5, <2>6, TransactionAssumption DEF WorkedOut
    <2>8. content' = [content EXCEPT ![tree] = new]
        BY <1>7 DEF new
    <2> QED
        BY <1>1, <1>3, <1>4, <1>7, <2>3, <2>7, <2>8, WritingContents
           DEF Labels, Guarded
<1>8. ASSUME dir.root # None, p \in Applier, Matches(p, dir.root),
             content' = [content EXCEPT ![tree] = Admitted(live, p)],
             Goto(p, "validate")
      PROVE  Contents'
    <2>1. dir.root = dir.last /\ Whole(dir.root) /\ tree # dir.last
        BY <1>3, <1>4, <1>8, Live
    <2>2. seen[p] = live /\ live \in Catalog
        BY <1>8, <2>1 DEF Matches, Whole
    <2> DEFINE new == Admitted(live, p)
    <2>3. /\ new \in Catalog /\ new.lock = new.decl
          /\ new.decl.batches = live.decl.batches \cup {p}
        BY <1>8, <2>2, AdmittedCatalog
    <2>4. content'[tree] = new /\ content'[dir.last] = live
        BY <1>3, <1>5, <1>8, <2>1 DEF Whole
    <2>5. content'[tree] = Admitted(seen[p], p)
        BY <2>2, <2>4
    <2>6. content' = [content EXCEPT ![tree] = new]
        BY <1>8
    <2> HIDE DEF new
    <2>7. Prepared(p)'
        BY <1>3, <1>4, <2>1, <2>3, <2>4 DEF Prepared, Whole, Batches
    <2>8. WorkedOut(p, "validate")'
        BY <1>1, <1>4, <1>8, <2>2, <2>5, <2>7, TransactionAssumption DEF WorkedOut
    <2> QED
        BY <1>1, <1>3, <1>4, <1>8, <2>3, <2>6, <2>8, WritingContents
           DEF Labels, Guarded
<1> QED
    BY <1>6, <1>7, <1>8 DEF CopyLive

LEMMA ValidateStagedContents ==
    ASSUME IInv, Names, Contents, NEW p \in Proc, ValidateStaged(p)
    PROVE  Contents'
<1>1. /\ pc[p] = "validate" /\ NoEntry
      /\ UNCHANGED <<content, seen, late, reported, edits>>
    BY DEF ValidateStaged, Works, Fault, budgets
<1>2. WorkedOut(p, "validate")
    BY <1>1, WorkedOutHere DEF Labels, Guarded
<1>3. CASE Goto(p, "unstage")
    <2>1. WorkedOut(p, "unstage")'
        BY DEF WorkedOut
    <2> QED
        BY <1>1, <1>3, <2>1, ReadingContents DEF Labels, Guarded
<1>4. CASE InSync(content[dir.stage[p]])
           /\ Goto(p, IF p \in Reconciler THEN "swap-out" ELSE "recheck")
    <2> DEFINE next == IF p \in Reconciler THEN "swap-out" ELSE "recheck"
    <2>1. WorkedOut(p, next)
        BY <1>2, <1>4, TransactionAssumption DEF WorkedOut, Proc
    <2>2. WorkedOut(p, next)'
        BY <1>1, <2>1 DEF WorkedOut, Prepared, Whole, Batches, Fresh, NoEntry
    <2> QED
        BY <1>1, <1>4, <2>2, ReadingContents DEF Labels, Guarded
<1> QED
    BY <1>3, <1>4 DEF ValidateStaged

LEMMA RecheckContents ==
    ASSUME IInv, Names, Contents, NEW p \in Proc, RecheckFingerprint(p)
    PROVE  Contents'
<1>1. /\ pc[p] = "recheck" /\ NoEntry
      /\ UNCHANGED <<content, seen, reported, edits>> /\ late' \subseteq late
    BY DEF RecheckFingerprint, Works, budgets
<1>2. WorkedOut(p, "recheck")
    BY <1>1, WorkedOutHere DEF Labels, Guarded
<1>3. CASE Goto(p, "unstage")
    <2>1. WorkedOut(p, "unstage")'
        BY DEF WorkedOut
    <2> QED
        BY <1>1, <1>3, <2>1, ReadingContents DEF Labels, Guarded
<1>4. CASE dir.root # None /\ Matches(p, dir.root) /\ Goto(p, "swap-out")
    <2>1. dir.root = dir.last /\ seen[p] = content[dir.last]
        BY <1>4, Live DEF Matches
    <2>2. /\ p \in Applier /\ seen[p] \in Catalog
          /\ content[dir.stage[p]] = Admitted(seen[p], p)
        BY <1>2 DEF WorkedOut
    <2>3. content[dir.stage[p]].decl.edits = content[dir.last].decl.edits
        BY <2>1, <2>2, AdmittedCatalog
    <2>4. Fresh(p)'
        BY <1>1, <2>3 DEF Fresh, NoEntry
    <2>5. WorkedOut(p, "swap-out")'
        BY <1>1, <1>2, <2>2, <2>4, TransactionAssumption
           DEF WorkedOut, Prepared, Whole, Batches, NoEntry
    <2> QED
        BY <1>1, <1>4, <2>5, ReadingContents DEF Labels, Guarded
<1> QED
    BY <1>3, <1>4 DEF RecheckFingerprint

LEMMA SwapOutContents ==
    ASSUME IInv, Names, Contents, NEW p \in Proc, SwapOut(p)
    PROVE  Contents'
<1>1. pc[p] = "swap-out" /\ UNCHANGED <<content, seen, late, reported, edits>>
    BY DEF SwapOut, Works, Fault, budgets
<1>2. WorkedOut(p, "swap-out")
    BY <1>1, WorkedOutHere DEF Labels, Guarded
<1>3. CASE NoEntry /\ Goto(p, "unstage")
    <2>1. WorkedOut(p, "unstage")'
        BY DEF WorkedOut
    <2> QED
        BY <1>1, <1>3, <2>1, ReadingContents DEF Labels, Guarded
<1>4. CASE Becomes([dir EXCEPT !.root = None, !.backup[p] = dir.root])
           /\ Goto(p, "swap-in")
    <2>1. dir \in Entries
        BY DEF Names
    <2>2. /\ dir'.last = dir.last /\ dir'.stage = dir.stage
          /\ survivors' = survivors \cup {dir'}
        BY <1>4, <2>1 DEF Becomes, Entries
    <2>3. WorkedOut(p, "swap-in")'
        BY <1>1, <1>2, <2>2 DEF WorkedOut, Prepared, Whole, Batches, Fresh
    <2> QED
        BY <1>1, <1>4, <2>2, <2>3, RenamingContents DEF Labels, Guarded
<1> QED
    BY <1>3, <1>4 DEF SwapOut

\* The replacement itself, and what it keeps of the catalog it replaces.
LEMMA SwapInContents ==
    ASSUME IInv, Names, Contents, NEW p \in Proc, SwapIn(p)
    PROVE  Contents'
<1> DEFINE tree == dir.stage[p]
<1>1. pc[p] = "swap-in" /\ UNCHANGED <<content, seen, late, reported, edits>>
    BY DEF SwapIn, Works, Fault, budgets
<1>2. WorkedOut(p, "swap-in")
    BY <1>1, WorkedOutHere DEF Labels, Guarded
<1>3. CASE NoEntry /\ Goto(p, "restore")
    <2>1. WorkedOut(p, "restore")'
        BY DEF WorkedOut
    <2> QED
        BY <1>1, <1>3, <2>1, ReadingContents DEF Labels, Guarded
<1>4. CASE Becomes([dir EXCEPT !.root = tree, !.last = tree, !.stage[p] = None])
           /\ Goto(p, "sync")
    <2>1. dir \in Entries /\ dir \in survivors
        BY DEF Names
    <2>2. dir'.last = tree /\ survivors' = survivors \cup {dir'}
        BY <1>4, <2>1 DEF Becomes, Entries
    <2>3. /\ Whole(tree) /\ InSync(content[tree])
          /\ Batches(dir.last) \subseteq Batches(tree)
          /\ p \in Applier => p \in Batches(tree)
        BY <1>2 DEF WorkedOut, Prepared
    <2>4. reported \subseteq Batches(tree)
        BY <2>1, <2>3 DEF Contents, Intact
    <2>5. ASSUME NEW d \in survivors' PROVE Intact(d)'
        <3>1. CASE d \in survivors
            BY <1>1, <3>1, StillIntact
        <3>2. CASE d.last = tree
            BY <1>1, <2>3, <2>4, <3>2 DEF Intact, Whole, Batches, InSync
        <3> QED
            BY <2>2, <3>1, <3>2
    <2>6. WorkedOut(p, "sync")'
        BY <1>1, <2>2, <2>3 DEF WorkedOut, Batches
    <2>7. Typed'
        BY <1>1 DEF Contents, Typed
    <2> QED
        BY <1>1, <1>4, <2>5, <2>6, <2>7, OwnContents DEF Labels, Guarded
<1> QED
    BY <1>3, <1>4 DEF SwapIn

LEMMA RestoreContents ==
    ASSUME IInv, Names, Contents, NEW p \in Proc, Restore(p)
    PROVE  Contents'
<1>1. /\ pc[p] = "restore" /\ Goto(p, "unstage")
      /\ UNCHANGED <<content, seen, late, reported, edits>>
    BY DEF Restore, Works, Fault, budgets
<1>2. dir \in Entries
    BY DEF Names
<1>3. dir'.last = dir.last /\ survivors' \subseteq survivors \cup {dir'}
    BY <1>2 DEF Restore, Becomes, NoEntry, Entries
<1>4. WorkedOut(p, "unstage")'
    BY DEF WorkedOut
<1> QED
    BY <1>1, <1>3, <1>4, RenamingContents DEF Labels, Guarded

LEMMA SyncParentContents ==
    ASSUME IInv, Names, Contents, NEW p \in Proc, SyncParent(p)
    PROVE  Contents'
<1>1. /\ pc[p] = "sync" /\ dir' = dir
      /\ UNCHANGED <<content, seen, late, reported, edits>>
    BY DEF SyncParent, Works, Fault, budgets
<1>2. PICK next \in {"discard", "unstage"} : Goto(p, next)
    BY DEF SyncParent
<1>3. survivors' \subseteq survivors \cup {dir'}
    BY <1>1 DEF SyncParent
<1>4. WorkedOut(p, "sync")
    BY <1>1, WorkedOutHere DEF Labels, Guarded
<1>5. WorkedOut(p, next)'
    BY <1>1, <1>4 DEF WorkedOut, Batches
<1> QED
    BY <1>1, <1>2, <1>3, <1>5, RenamingContents DEF Labels, Guarded

LEMMA DiscardBackupContents ==
    ASSUME IInv, Names, Contents, NEW p \in Proc, DiscardBackup(p)
    PROVE  Contents'
<1> DEFINE tree == dir.backup[p]
<1>1. /\ pc[p] = "discard" /\ Goto(p, "finish")
      /\ content' = [content EXCEPT ![tree] = Partial]
      /\ UNCHANGED <<seen, late, reported, edits>>
    BY DEF DiscardBackup, Works, Fault, budgets
<1>2. LocatedAt(p, "discard") /\ WorkedOut(p, "discard")
    BY <1>1, LocatedHere, WorkedOutHere DEF Labels, Guarded
<1>3. tree \in Tree /\ tree # dir.last /\ Synced
    BY <1>2 DEF LocatedAt
<1>4. dir \in Entries /\ dir \in survivors
    BY DEF Names
<1>5. dir'.last = dir.last /\ survivors' \subseteq survivors \cup {dir'}
    BY <1>4 DEF DiscardBackup, Becomes, NoEntry, Entries
<1>6. \A d \in survivors : d.last # tree
    BY <1>3 DEF Synced
<1>7. content'[dir.last] = content[dir.last]
    BY <1>1, <1>3, <1>4 DEF Contents, Typed
<1>8. WorkedOut(p, "finish")'
    BY <1>2, <1>5, <1>7 DEF WorkedOut, Batches
<1> QED
    BY <1>1, <1>3, <1>5, <1>6, <1>8, WritingContents DEF Labels, Guarded

LEMMA UnstageContents ==
    ASSUME IInv, Names, Contents, NEW p \in Proc, Unstage(p)
    PROVE  Contents'
<1> DEFINE tree == dir.stage[p]
<1>1. /\ pc[p] = "unstage" /\ Goto(p, "unlock")
      /\ UNCHANGED <<seen, late, reported, edits>>
    BY DEF Unstage, Works, budgets
<1>2. WorkedOut(p, "unlock")'
    BY DEF WorkedOut
<1>3. CASE UNCHANGED <<dir, survivors, content>>
    BY <1>1, <1>2, <1>3, ReadingContents DEF NoEntry, Labels, Guarded
<1>4. CASE /\ tree # None /\ content' = [content EXCEPT ![tree] = Partial]
           /\ Becomes([dir EXCEPT !.stage[p] = None])
    <2>1. LocatedAt(p, "unstage")
        BY <1>1, LocatedHere DEF Labels, Guarded
    <2>2. Private(p)
        BY <1>4, <2>1 DEF LocatedAt
    <2>3. tree \in Tree /\ \A d \in survivors : d.last # tree
        BY <2>2 DEF Private
    <2>4. dir \in Entries
        BY DEF Names
    <2>5. dir'.last = dir.last /\ survivors' \subseteq survivors \cup {dir'}
        BY <1>4, <2>4 DEF Becomes, Entries
    <2> QED
        BY <1>1, <1>2, <1>4, <2>3, <2>5, WritingContents DEF Labels, Guarded
<1> QED
    BY <1>3, <1>4 DEF Unstage

\* A report is made once a power loss can leave nothing else.
LEMMA UnlockContents ==
    ASSUME IInv, Names, Contents, NEW p \in Proc, Unlock(p)
    PROVE  Contents'
<1>1. /\ pc[p] \in {"unlock", "finish"} /\ Goto(p, "idle")
      /\ seen' = [seen EXCEPT ![p] = Partial] /\ late' = late \ {p}
      /\ UNCHANGED <<content, edits>>
    BY DEF Unlock, Works, budgets
<1>2. dir \in Entries /\ dir \in survivors
    BY DEF Names
<1>3. dir'.last = dir.last /\ survivors' = survivors \cup {dir'}
    BY <1>2 DEF Unlock, Becomes, Entries
<1>4. \/ reported' = reported
      \/ /\ pc[p] = "finish" /\ p \in Applier
         /\ reported' = reported \cup {p}
    BY DEF Unlock
<1>5. Typed'
    BY <1>1, <1>4 DEF Contents, Typed
<1>6. ASSUME NEW d \in survivors PROVE reported' \subseteq Batches(d.last)
    <2>1. CASE reported' = reported
        BY <2>1 DEF Contents, Intact
    <2>2. CASE pc[p] = "finish" /\ p \in Applier /\ reported' = reported \cup {p}
        <3>1. LocatedAt(p, "finish") /\ WorkedOut(p, "finish")
            BY <2>2, LocatedHere, WorkedOutHere DEF Labels, Guarded
        <3>2. d.last = dir.last /\ p \in Batches(dir.last)
            BY <2>2, <3>1 DEF LocatedAt, WorkedOut, Synced
        <3> QED
            BY <2>2, <3>2 DEF Contents, Intact
    <2> QED
        BY <1>4, <2>1, <2>2
<1>7. ASSUME NEW d \in survivors' PROVE Intact(d)'
    <2>1. PICK e \in survivors : e.last = d.last
        BY <1>2, <1>3
    <2>2. Intact(e)
        BY DEF Contents
    <2> QED
        BY <1>1, <1>6, <2>1, <2>2 DEF Intact, Whole, Batches, InSync
<1>8. WorkedOut(p, "idle")'
    BY DEF WorkedOut
<1> QED
    BY <1>1, <1>5, <1>7, <1>8, OwnContents DEF Labels, Guarded

\* A crash takes what the command had worked out with it.
LEMMA CrashContents ==
    ASSUME IInv, Names, Contents, NEW p \in Proc, Crash(p)
    PROVE  Contents'
<1>1. /\ Goto(p, "idle") /\ seen' = [seen EXCEPT ![p] = Partial]
      /\ late' = late \ {p} /\ UNCHANGED <<content, reported, edits>>
    BY DEF Crash
<1>2. dir \in Entries /\ dir \in survivors
    BY DEF Names
<1>3. /\ dir'.last = dir.last /\ survivors' = survivors \cup {dir'}
      /\ \A q \in Proc \ {p} : dir'.stage[q] = dir.stage[q]
    BY <1>2 DEF Crash, Entries
<1>4. Typed'
    BY <1>1 DEF Contents, Typed
<1>5. ASSUME NEW d \in survivors' PROVE Intact(d)'
    <2>1. \A e \in survivors : Intact(e)'
        BY <1>1, StillIntact
    <2>2. \E e \in survivors : e.last = d.last
        BY <1>2, <1>3
    <2> QED
        BY <2>1, <2>2 DEF Intact
<1>6. ASSUME NEW q \in Proc PROVE WorkedOut(q, pc[q])'
    <2>1. pc \in [Proc -> Labels]
        BY DEF IInv, Shape, Labels
    <2>2. CASE q = p
        BY <1>1, <2>1, <2>2 DEF Goto, WorkedOut
    <2>3. CASE q # p
        <3>1. PICK label \in Labels : pc[q] = label
            BY <2>1
        <3>2. pc'[q] = label /\ WorkedOut(q, label)
            BY <1>1, <2>1, <2>3, <3>1, WorkedOutHere DEF Goto
        <3>3. seen'[q] = seen[q] /\ (q \in late' <=> q \in late)
            BY <1>1, <2>3 DEF Contents, Typed
        <3>4. WorkedOut(q, label)'
            BY <1>1, <1>3, <2>3, <3>2, <3>3
               DEF WorkedOut, Prepared, Whole, Batches, Fresh
        <3> QED
            BY <3>2, <3>4 DEF WorkedOut
    <2> QED
        BY <2>2, <2>3
<1> QED
    BY <1>4, <1>5, <1>6 DEF Contents

\* What is left when no command runs: the named trees, the last catalog's
\* among them.
LEMMA AloneContents ==
    ASSUME Contents, NEW d \in survivors, dir' \in Entries, dir'.last = d.last,
           survivors' = {dir'}, content' = Kept(dir'),
           seen' \in [Proc -> Catalog \cup {Partial}], late' \subseteq Proc,
           UNCHANGED <<reported, edits>>, pc' = [p \in Proc |-> "idle"]
    PROVE  Contents'
<1>1. Intact(d) /\ Typed
    BY DEF Contents
<1>2. content'[d.last] = content[d.last]
    BY <1>1 DEF Kept, Named, Intact, Whole
<1>3. Typed'
    BY <1>1 DEF Typed, Kept
<1>4. ASSUME NEW e \in survivors' PROVE Intact(e)'
    <2>1. e.last = d.last
        OBVIOUS
    <2> QED
        BY <1>1, <1>2, <2>1 DEF Intact, Whole, Batches, InSync
<1>5. \A p \in Proc : WorkedOut(p, pc[p])'
    BY DEF WorkedOut
<1> QED
    BY <1>3, <1>4, <1>5 DEF Contents

LEMMA PowerLossContents ==
    ASSUME IInv, Names, Contents, PowerLoss
    PROVE  Contents'
<1>1. PICK d \in survivors : dir' = Vanish(d)
    BY DEF PowerLoss
<1>2. d \in Entries /\ dir' \in Entries
    BY PowerLossNames DEF Names
<1>3. dir'.last = d.last
    BY <1>1, <1>2 DEF Vanish, Entries
<1>4. seen' \in [Proc -> Catalog \cup {Partial}]
    BY DEF PowerLoss
<1> QED
    BY <1>2, <1>3, <1>4, AloneContents DEF PowerLoss

LEMMA RecoverContents ==
    ASSUME IInv, Names, Contents, Recover
    PROVE  Contents'
<1>1. dir \in survivors /\ dir \in Entries /\ dir' \in Entries
    BY RecoverNames DEF Names
<1>2. dir'.last = dir.last
    BY <1>1 DEF Recover, Entries
<1>3. pc' = [p \in Proc |-> "idle"]
    BY DEF Recover, IInv, Shape
<1>4. seen' \in [Proc -> Catalog \cup {Partial}] /\ late' \subseteq Proc
    BY DEF Recover, Contents, Typed
<1> QED
    BY <1>1, <1>2, <1>3, <1>4, AloneContents DEF Recover, Works, budgets

\* An edit changes the live catalog alone, and overtakes the commands that
\* have looked at it for the last time.
LEMMA EditContents ==
    ASSUME IInv, Names, Contents, Edit
    PROVE  Contents'
<1> DEFINE live == content[dir.root]
           new == [live EXCEPT !.decl.edits = edits + 1]
<1>1. /\ dir.root # None /\ edits < MaxEdits /\ edits' = edits + 1
      /\ content' = [content EXCEPT ![dir.root].decl.edits = edits + 1]
      /\ late' = late \cup Committed
      /\ UNCHANGED <<dir, survivors, pc, seen, reported>>
    BY DEF Edit, NoEntry
<1>2. dir.root = dir.last /\ Whole(dir.root) /\ dir \in survivors
    BY <1>1, Live DEF Names
<1>3. edits \in 0 .. MaxEdits /\ MaxEdits \in Nat
    BY TransactionAssumption DEF Contents, Typed
<1>4. edits + 1 \in 0 .. MaxEdits
    BY <1>1, <1>3
<1>5. /\ new \in Catalog /\ new.lock = live.lock
      /\ new.decl.batches = live.decl.batches
    BY <1>2, <1>4, EditedCatalog DEF Whole
<1>6. content' = [content EXCEPT ![dir.root] = new]
    BY <1>1
<1> HIDE DEF new
<1>7. content \in [Tree -> Catalog \cup {Partial}]
    BY DEF Contents, Typed
<1>8. /\ content' \in [Tree -> Catalog \cup {Partial}]
      /\ content'[dir.root] = new
      /\ \A tree \in Tree \ {dir.root} : content'[tree] = content[tree]
    BY <1>2, <1>5, <1>6, <1>7 DEF Whole
<1>9. Typed'
    BY <1>1, <1>4, <1>8 DEF Contents, Typed, Committed, Proc
<1>10. \A tree \in Tree : Whole(tree) => Whole(tree)' /\ Batches(tree)' = Batches(tree)
    BY <1>2, <1>5, <1>8 DEF Whole, Batches
<1>11. ASSUME NEW d \in survivors' PROVE Intact(d)'
    <2>1. Intact(d)
        BY <1>1 DEF Contents
    <2>2. edits' > 0
        BY <1>1, <1>3
    <2> QED
        BY <1>1, <1>10, <2>1, <2>2 DEF Intact, Whole
<1>12. ASSUME NEW p \in Proc PROVE WorkedOut(p, pc[p])'
    <2>1. PICK label \in Labels : pc[p] = label
        BY DEF IInv, Shape, Labels
    <2>2. WorkedOut(p, label) /\ LocatedAt(p, label)
        BY <2>1, WorkedOutHere, LocatedHere
    <2>3. Batches(dir.last)' = Batches(dir.last)
        BY <1>1, <1>2, <1>10 DEF Whole
    <2>4. CASE label \in {"validate", "recheck", "swap-out"}
        <3>1. Private(p)
            BY <2>2, <2>4 DEF LocatedAt
        <3>2. dir.stage[p] \in Tree /\ dir.stage[p] # dir.root
            BY <1>2, <3>1 DEF Private
        <3>3. content'[dir.stage[p]] = content[dir.stage[p]]
            BY <1>8, <3>2
        <3>4. Prepared(p)'
            BY <1>1, <1>10, <2>2, <2>3, <2>4, <3>2 DEF WorkedOut, Prepared
        <3>5. label = "swap-out" \/ (label = "validate" /\ p \in Reconciler) => Fresh(p)'
            BY <1>1, <2>1 DEF Fresh, Committed, Proc
        <3>6. WorkedOut(p, label)'
            BY <1>1, <2>2, <2>4, <3>3, <3>4, <3>5 DEF WorkedOut, InSync
        <3> QED
            BY <1>1, <2>1, <3>6 DEF WorkedOut
    <2>5. CASE label \notin {"validate", "recheck", "swap-out"}
        <3>1. label # "swap-in"
            BY <1>1, <2>2 DEF LocatedAt
        <3>2. WorkedOut(p, label)'
            BY <1>1, <2>2, <2>3, <2>5, <3>1 DEF WorkedOut
        <3> QED
            BY <1>1, <2>1, <3>2 DEF WorkedOut
    <2> QED
        BY <2>4, <2>5
<1> QED
    BY <1>9, <1>11, <1>12 DEF Contents

LEMMA ContentsStep == IInv /\ Names /\ Contents /\ [Next]_vars => Contents'
<1> SUFFICES ASSUME IInv, Names, Contents, [Next]_vars PROVE Contents'
    OBVIOUS
<1>1. ASSUME NEW p \in Proc, Command(p) PROVE Contents'
    BY <1>1, OutsideContents, LoadContents, MakeStageContents, CopyLiveContents,
       ValidateStagedContents, RecheckContents, SwapOutContents, SwapInContents,
       RestoreContents, SyncParentContents, DiscardBackupContents, UnstageContents,
       UnlockContents DEF Command
<1>2. ASSUME NEW p \in Proc, Crash(p) PROVE Contents'
    BY <1>2, CrashContents
<1>3. CASE Edit
    BY <1>3, EditContents
<1>4. CASE PowerLoss
    BY <1>4, PowerLossContents
<1>5. CASE Recover
    BY <1>5, RecoverContents
<1>6. CASE UNCHANGED vars
    BY <1>6 DEF vars, budgets, Contents, Typed, Intact, WorkedOut, Prepared, Whole,
                Batches, Fresh, InSync
<1> QED
    BY <1>1, <1>2, <1>3, <1>4, <1>5, <1>6 DEF Next

----------------------------------------------------------------------------
(* What has gone wrong so far, and what was only confirmed. *)

Counts ==
    /\ confirmed \subseteq Applier
    /\ faults \in 0 .. MaxFaults
    /\ crashes \in 0 .. MaxCrashes /\ outages \in 0 .. MaxOutages

\* a command takes its first rename back only after the second one failed
Undoing == \A p \in Proc : pc[p] = "restore" => faults > 0

ConfirmedKept == outages = 0 => confirmed \subseteq Batches(dir.last)

Tallies == Counts /\ Undoing /\ MissingIsExplained /\ ConfirmedKept

LEMMA TalliesInit == Init => Tallies
<1> SUFFICES ASSUME Init PROVE Tallies
    OBVIOUS
<1>1. Counts
    BY TransactionAssumption DEF Init, Counts
<1>2. dir.root # None
    <2>1. Some(Tree) \in Tree
        BY TransactionAssumption DEF Some
    <2> QED
        BY <2>1, TransactionAssumption DEF Init
<1> QED
    BY <1>1, <1>2 DEF Init, Tallies, Undoing, MissingIsExplained, ConfirmedKept

LEMMA CountsStep == Counts /\ [Next]_vars => Counts'
<1> SUFFICES ASSUME Counts, [Next]_vars PROVE Counts'
    OBVIOUS
<1>0. {MaxFaults, MaxCrashes, MaxOutages} \subseteq Nat
    BY TransactionAssumption
<1>1. ASSUME NEW p \in Proc, Command(p) PROVE Counts'
    <2>1. confirmed' \subseteq Applier
        BY <1>1 DEF Counts, Command, StartReconcile, RecomputeFacts, AlreadyApplied,
           AcquireGuard, LoadInputs, CheckFingerprint, MakeStage, CopyLive,
           ValidateStaged, RecheckFingerprint, SwapOut, SwapIn, Restore, SyncParent,
           DiscardBackup, Unstage, Unlock
    <2>2. Works \/ Fault
        BY <1>1 DEF Command, StartReconcile, RecomputeFacts, AlreadyApplied,
           AcquireGuard, LoadInputs, CheckFingerprint, MakeStage, CopyLive,
           ValidateStaged, RecheckFingerprint, SwapOut, SwapIn, Restore, SyncParent,
           DiscardBackup, Unstage, Unlock
    <2> QED
        BY <1>0, <2>1, <2>2 DEF Counts, Works, Fault, budgets
<1>2. ASSUME NEW p \in Proc, Crash(p) PROVE Counts'
    BY <1>0, <1>2 DEF Crash, Counts
<1>3. CASE Edit \/ PowerLoss \/ Recover
    BY <1>0, <1>3 DEF Edit, PowerLoss, Recover, Works, budgets, Counts
<1>4. CASE UNCHANGED vars
    BY <1>4 DEF vars, budgets, Counts
<1> QED
    BY <1>1, <1>2, <1>3, <1>4 DEF Next

LEMMA UndoingStep ==
    ASSUME IInv, Counts, Undoing, [Next]_vars
    PROVE  Undoing'
<1>0. pc \in [Proc -> Labels]
    BY DEF IInv, Shape, Labels
<1>1. ASSUME NEW p \in Proc, Command(p) PROVE Undoing'
    <2>1. PICK next \in Labels : \/ Goto(p, next)
                                 \/ UNCHANGED pc
        BY <1>1 DEF Command, StartReconcile, RecomputeFacts, AlreadyApplied,
           AcquireGuard, LoadInputs, GiveUp, CheckFingerprint, MakeStage, CopyLive,
           ValidateStaged, RecheckFingerprint, SwapOut, SwapIn, Restore, SyncParent,
           DiscardBackup, Unstage, Unlock, Labels, Guarded
    <2>2. faults' \in Nat /\ faults' >= faults
        BY <1>1 DEF Command, StartReconcile, RecomputeFacts, AlreadyApplied,
           AcquireGuard, LoadInputs, GiveUp, CheckFingerprint, MakeStage, CopyLive,
           ValidateStaged, RecheckFingerprint, SwapOut, SwapIn, Restore, SyncParent,
           DiscardBackup, Unstage, Unlock, Counts, Works, Fault, budgets
    <2>3. pc'[p] = "restore" => faults' > 0
        BY <1>0, <1>1 DEF Command, StartReconcile, RecomputeFacts, AlreadyApplied,
           AcquireGuard, LoadInputs, GiveUp, CheckFingerprint, MakeStage, CopyLive,
           ValidateStaged, RecheckFingerprint, SwapOut, SwapIn, Restore, SyncParent,
           DiscardBackup, Unstage, Unlock, Counts, Fault, Goto
    <2> QED
        BY <1>0, <2>1, <2>2, <2>3 DEF Undoing, Goto, Counts
<1>2. ASSUME NEW p \in Proc, Crash(p) PROVE Undoing'
    BY <1>0, <1>2 DEF Crash, Undoing, Goto
<1>3. CASE Edit \/ PowerLoss \/ Recover
    BY <1>3 DEF Edit, PowerLoss, Recover, Works, budgets, Undoing
<1>4. CASE UNCHANGED vars
    BY <1>4 DEF vars, budgets, Undoing
<1> QED
    BY <1>1, <1>2, <1>3, <1>4 DEF Next

\* The steps after which no catalog may be in its place.
LEMMA MissingStep ==
    ASSUME IInv, Names, Counts, Undoing, MissingIsExplained, [Next]_vars
    PROVE  MissingIsExplained'
<1> DEFINE Between == {"swap-in", "restore"}
<1>0. pc \in [Proc -> Labels] /\ dir \in Entries /\ {faults, crashes, outages} \subseteq Nat
    BY DEF IInv, Shape, Labels, Names, Counts
<1>1. ASSUME NEW p \in Proc, Command(p) PROVE MissingIsExplained'
    <2>0. faults' \in Nat /\ faults' >= faults /\ crashes' = crashes /\ outages' = outages
        BY <1>0, <1>1 DEF Command, StartReconcile, RecomputeFacts, AlreadyApplied,
           AcquireGuard, LoadInputs, GiveUp, CheckFingerprint, MakeStage, CopyLive,
           ValidateStaged, RecheckFingerprint, SwapOut, SwapIn, Restore, SyncParent,
           DiscardBackup, Unstage, Unlock, Works, Fault, budgets
    <2>1. CASE SwapOut(p)
        <3>1. CASE Goto(p, "swap-in")
            BY <1>0, <3>1 DEF Goto, MissingIsExplained
        <3>2. CASE NoEntry /\ Goto(p, "unstage")
            <4>1. \A q \in Proc : pc[q] \in Between => pc'[q] \in Between
                BY <1>0, <2>1, <3>2 DEF Goto, SwapOut
            <4> QED
                BY <1>0, <2>0, <3>2, <4>1 DEF NoEntry, MissingIsExplained
        <3> QED
            BY <2>1, <3>1, <3>2 DEF SwapOut
    <2>2. CASE SwapIn(p)
        <3>1. CASE Goto(p, "restore")
            BY <1>0, <3>1 DEF Goto, MissingIsExplained
        <3>2. CASE Becomes([dir EXCEPT !.root = dir.stage[p], !.last = dir.stage[p],
                                       !.stage[p] = None])
            <4>1. pc[p] = "swap-in"
                BY <2>2 DEF SwapIn
            <4>2. LocatedAt(p, "swap-in")
                BY <4>1, LocatedHere DEF Labels, Guarded
            <4>3. dir.stage[p] # None
                BY <4>2, TransactionAssumption DEF LocatedAt, Private
            <4> QED
                BY <1>0, <3>2, <4>3 DEF Becomes, Entries, MissingIsExplained
        <3> QED
            BY <2>2, <3>1, <3>2 DEF SwapIn
    <2>3. CASE Restore(p)
        <3>1. CASE Fault
            <4>1. faults > 0
                BY <2>3 DEF Restore, Undoing
            <4>2. faults' > 1
                BY <1>0, <3>1, <4>1 DEF Fault
            <4> QED
                BY <4>2 DEF MissingIsExplained
        <3>2. CASE Becomes([dir EXCEPT !.root = dir.backup[p], !.backup[p] = None])
            <4>1. pc[p] = "restore"
                BY <2>3 DEF Restore
            <4>2. LocatedAt(p, "restore")
                BY <4>1, LocatedHere DEF Labels, Guarded
            <4>3. dir.backup[p] # None
                BY <1>0, <4>2, TransactionAssumption DEF LocatedAt, Entries
            <4> QED
                BY <1>0, <3>2, <4>3 DEF Becomes, Entries, MissingIsExplained
        <3> QED
            BY <2>3, <3>1, <3>2 DEF Restore
    <2>4. CASE ~SwapOut(p) /\ ~SwapIn(p) /\ ~Restore(p)
        <3>1. pc[p] \notin Between /\ \A q \in Proc \ {p} : pc'[q] = pc[q]
            BY <1>0, <1>1, <2>4 DEF Command, StartReconcile, RecomputeFacts,
               AlreadyApplied, AcquireGuard, LoadInputs, GiveUp, CheckFingerprint,
               MakeStage, CopyLive, ValidateStaged, RecheckFingerprint, SyncParent,
               DiscardBackup, Unstage, Unlock, Goto
        <3>2. dir'.root = dir.root
            BY <1>0, <1>1, <2>4 DEF Command, StartReconcile, RecomputeFacts,
               AlreadyApplied, AcquireGuard, LoadInputs, GiveUp, CheckFingerprint,
               MakeStage, CopyLive, ValidateStaged, RecheckFingerprint, SyncParent,
               DiscardBackup, Unstage, Unlock, Becomes, NoEntry, Entries
        <3> QED
            BY <1>0, <2>0, <3>1, <3>2 DEF MissingIsExplained
    <2> QED
        BY <2>1, <2>2, <2>3, <2>4
<1>2. ASSUME NEW p \in Proc, Crash(p) PROVE MissingIsExplained'
    BY <1>0, <1>2 DEF Crash, MissingIsExplained
<1>3. CASE Edit
    BY <1>3 DEF Edit, NoEntry, MissingIsExplained
<1>4. CASE PowerLoss
    BY <1>0, <1>4 DEF PowerLoss, MissingIsExplained
<1>5. CASE Recover
    <2>1. dir'.root # None
        BY <1>0, <1>5, TransactionAssumption DEF Recover, Entries
    <2> QED
        BY <2>1 DEF MissingIsExplained
<1>6. CASE UNCHANGED vars
    BY <1>6 DEF vars, budgets, MissingIsExplained
<1> QED
    BY <1>1, <1>2, <1>3, <1>4, <1>5, <1>6 DEF Next

\* What the live catalog becomes: its locks are those of the catalog before,
\* or it is one that a command has put in its place.
Same == dir'.last = dir.last /\ content'[dir.last].lock = content[dir.last].lock

Replaced ==
    LET old == content[dir.last] new == content'[dir'.last] IN
    /\ InSync(new)
    /\ old.decl.batches \subseteq new.decl.batches
    /\ Batches(dir.last) \subseteq new.lock.batches
    /\ late = {} => old.decl.edits = new.decl.edits

LEMMA LastStep ==
    ASSUME IInv, Names, Contents, Counts, [Next]_vars, outages' = outages
    PROVE  Same \/ Replaced
<1>1. /\ dir \in Entries /\ dir \in survivors
      /\ content \in [Tree -> Catalog \cup {Partial}]
      /\ Whole(dir.last) /\ dir.last \in Tree
    BY DEF Names, Contents, Typed, Intact, Whole
<1>2. ASSUME NEW p \in Proc, SwapIn(p) PROVE Same \/ Replaced
    <2>1. content' = content /\ pc[p] = "swap-in"
        BY <1>2 DEF SwapIn
    <2>2. CASE NoEntry
        BY <2>1, <2>2 DEF NoEntry, Same
    <2>3. CASE Becomes([dir EXCEPT !.root = dir.stage[p], !.last = dir.stage[p],
                                   !.stage[p] = None])
        <3>1. WorkedOut(p, "swap-in")
            BY <2>1, WorkedOutHere DEF Labels, Guarded
        <3>2. dir'.last = dir.stage[p]
            BY <1>1, <2>3 DEF Becomes, Entries
        <3>3. Prepared(p) /\ Fresh(p) /\ InSync(content[dir.stage[p]])
            BY <3>1 DEF WorkedOut
        <3>4. Whole(dir.stage[p]) /\ Batches(dir.last) \subseteq Batches(dir.stage[p])
            BY <3>3 DEF Prepared
        <3>5. late = {} => content[dir.last].decl.edits = content[dir.stage[p]].decl.edits
            BY <3>3 DEF Fresh
        <3> QED
            BY <1>1, <2>1, <3>2, <3>3, <3>4, <3>5 DEF Replaced, Whole, Batches
    <2> QED
        BY <1>2, <2>2, <2>3 DEF SwapIn
<1>3. ASSUME NEW p \in Proc, Command(p), ~SwapIn(p) PROVE Same
    <2>1. dir'.last = dir.last
        BY <1>1, <1>3 DEF Command, StartReconcile, RecomputeFacts, AlreadyApplied,
           AcquireGuard, LoadInputs, CheckFingerprint, MakeStage, CopyLive,
           ValidateStaged, RecheckFingerprint, SwapOut, Restore, SyncParent,
           DiscardBackup, Unstage, Unlock, Becomes, NoEntry, Entries
    <2>2. content'[dir.last] = content[dir.last]
        <3>1. CASE MakeStage(p)
            <4> DEFINE tree == Some(Free)
            <4>1. tree \in Free /\ content' = [content EXCEPT ![tree] = Partial]
                BY <3>1 DEF MakeStage, Some
            <4> HIDE DEF tree
            <4>2. tree \notin Named(dir)
                BY <1>1, <4>1 DEF Free
            <4>3. tree # dir.last
                BY <4>2 DEF Named
            <4> QED
                BY <1>1, <4>1, <4>3
        <3>2. CASE CopyLive(p)
            <4>1. pc[p] = "copy"
                BY <3>2 DEF CopyLive
            <4>2. LocatedAt(p, "copy")
                BY <4>1, LocatedHere DEF Labels, Guarded
            <4>3. dir.stage[p] # dir.last
                BY <1>1, <4>2 DEF LocatedAt, Private
            <4> QED
                BY <1>1, <3>2, <4>3 DEF CopyLive
        <3>3. CASE DiscardBackup(p)
            <4>1. pc[p] = "discard"
                BY <3>3 DEF DiscardBackup
            <4>2. LocatedAt(p, "discard")
                BY <4>1, LocatedHere DEF Labels, Guarded
            <4>3. dir.backup[p] # dir.last
                BY <4>2 DEF LocatedAt
            <4> QED
                BY <1>1, <3>3, <4>3 DEF DiscardBackup
        <3>4. CASE Unstage(p)
            <4>1. pc[p] = "unstage"
                BY <3>4 DEF Unstage
            <4>2. LocatedAt(p, "unstage")
                BY <4>1, LocatedHere DEF Labels, Guarded
            <4>3. dir.stage[p] # None => dir.stage[p] # dir.last
                BY <1>1, <4>2 DEF LocatedAt, Private
            <4> QED
                BY <1>1, <3>4, <4>3 DEF Unstage
        <3>5. CASE ~MakeStage(p) /\ ~CopyLive(p) /\ ~DiscardBackup(p) /\ ~Unstage(p)
            BY <1>3, <3>5 DEF Command, StartReconcile, RecomputeFacts, AlreadyApplied,
               AcquireGuard, LoadInputs, CheckFingerprint, ValidateStaged,
               RecheckFingerprint, SwapOut, Restore, SyncParent, Unlock
        <3> QED
            BY <3>1, <3>2, <3>3, <3>4, <3>5
    <2> QED
        BY <2>1, <2>2 DEF Same
<1>4. ASSUME NEW p \in Proc, Crash(p) PROVE Same
    BY <1>1, <1>4 DEF Crash, Entries, Same
<1>5. CASE Edit
    <2>1. /\ dir.root = dir.last /\ dir' = dir
          /\ content' = [content EXCEPT ![dir.root].decl.edits = edits + 1]
        BY <1>5, Live DEF Edit, NoEntry
    <2>2. edits + 1 \in 0 .. MaxEdits
        BY <1>5, TransactionAssumption DEF Edit, Contents, Typed
    <2> DEFINE new == [content[dir.last] EXCEPT !.decl.edits = edits + 1]
    <2>3. new.lock = content[dir.last].lock
        BY <1>1, <2>2, EditedCatalog DEF Whole
    <2>4. content' = [content EXCEPT ![dir.last] = new]
        BY <2>1
    <2> HIDE DEF new
    <2> QED
        BY <1>1, <2>1, <2>3, <2>4 DEF Same
<1>6. CASE PowerLoss
    BY <1>6 DEF PowerLoss, Counts
<1>7. CASE Recover
    <2>1. dir'.last = dir.last /\ content' = Kept(dir')
        BY <1>1, <1>7 DEF Recover, Entries
    <2>2. dir.last \in Named(dir')
        BY <2>1 DEF Named
    <2> QED
        BY <1>1, <2>1, <2>2 DEF Kept, Same
<1>8. CASE UNCHANGED vars
    BY <1>8 DEF vars, Same
<1> QED
    BY <1>2, <1>3, <1>4, <1>5, <1>6, <1>7, <1>8 DEF Next

LEMMA ConfirmedStep ==
    ASSUME IInv, Names, Contents, Counts, ConfirmedKept, [Next]_vars
    PROVE  ConfirmedKept'
<1> SUFFICES ASSUME outages' = 0
             PROVE  confirmed' \subseteq Batches(dir.last)'
    BY DEF ConfirmedKept
<1>1. outages = 0
    <2>1. outages' = outages \/ outages' = outages + 1
        BY DEF Next, Command, StartReconcile, RecomputeFacts, AlreadyApplied,
           AcquireGuard, LoadInputs, CheckFingerprint, MakeStage, CopyLive,
           ValidateStaged, RecheckFingerprint, SwapOut, SwapIn, Restore, SyncParent,
           DiscardBackup, Unstage, Unlock, Works, Fault, budgets, Crash, Edit,
           PowerLoss, Recover, vars
    <2> QED
        BY <2>1 DEF Counts
<1>2. Batches(dir.last) \subseteq Batches(dir.last)'
    BY <1>1, LastStep DEF Same, Replaced, Batches
<1>3. confirmed \subseteq Batches(dir.last)'
    BY <1>1, <1>2 DEF ConfirmedKept
<1>4. CASE confirmed' = confirmed
    BY <1>3, <1>4
<1>5. ASSUME NEW p \in Proc, AlreadyApplied(p)
      PROVE  confirmed' \subseteq Batches(dir.last)'
    <2>1. dir.root = dir.last /\ Whole(dir.root)
        BY <1>5, Live DEF AlreadyApplied
    <2>2. p \in Batches(dir.last)
        BY <1>5, <2>1 DEF AlreadyApplied, Whole
    <2> QED
        BY <1>2, <1>3, <1>5, <2>2 DEF AlreadyApplied
<1> QED
    BY <1>4, <1>5 DEF Next, Command, StartReconcile, RecomputeFacts,
       AcquireGuard, LoadInputs, CheckFingerprint, MakeStage, CopyLive,
       ValidateStaged, RecheckFingerprint, SwapOut, SwapIn, Restore, SyncParent,
       DiscardBackup, Unstage, Unlock, Crash, Edit, PowerLoss, Recover, vars

----------------------------------------------------------------------------

KeptInv == IInv /\ Names /\ Contents /\ Tallies

LEMMA KeptAlways == Spec => []KeptInv
<1>1. Init => KeptInv
    BY InitOK, NamesInit, ContentsInit, TalliesInit DEF KeptInv
<1>2. KeptInv /\ [Next]_vars => KeptInv'
    BY StepOK, NamesStep, ContentsStep, CountsStep, UndoingStep, MissingStep,
       ConfirmedStep DEF KeptInv, Tallies
<1> QED
    BY <1>1, <1>2, PTL DEF Spec

\* The variables of the catalog transaction (rust/src/lock.rs,
\* rust/src/update/admit.rs) keep their types.
THEOREM TypeCorrect == Spec => []TypeOK
<1>1. KeptInv => TypeOK
    BY DEF KeptInv, IInv, Shape, Names, Contents, Typed, Tallies, Counts, TypeOK
<1> QED
    BY KeptAlways, <1>1, PTL

\* install_staging() of rust/src/lock.rs never leaves a power loss without the
\* catalog installed last: it is there whole and under a name.
THEOREM NeverLost == Spec => []CatalogNeverLost
<1>1. KeptInv => CatalogNeverLost
    BY NotPartial DEF KeptInv, Names, Reachable, Contents, Intact, Whole,
       CatalogNeverLost
<1> QED
    BY KeptAlways, <1>1, PTL

\* The live directory is missing only between the two renames, or after a
\* crash, a power loss or two failures.
THEOREM Explained == Spec => []MissingIsExplained
<1>1. KeptInv => MissingIsExplained
    BY DEF KeptInv, Tallies
<1> QED
    BY KeptAlways, <1>1, PTL

\* A batch that update-apply reports as installed is in every catalog a later
\* command or a power loss may leave.
THEOREM Applied == Spec => []AppliedIsKept
<1>1. KeptInv => AppliedIsKept
    <2> SUFFICES ASSUME KeptInv PROVE AppliedIsKept
        OBVIOUS
    <2>1. \A d \in survivors : Whole(d.last) /\ reported \subseteq Batches(d.last)
        BY DEF KeptInv, Contents, Intact
    <2>2. \A d \in survivors : content[d.last] # Partial
        BY <2>1, NotPartial DEF Whole
    <2>3. dir \in survivors /\ (outages = 0 => confirmed \subseteq Batches(dir.last))
        BY DEF KeptInv, Names, Tallies, ConfirmedKept
    <2> QED
        BY <2>1, <2>2, <2>3 DEF AppliedIsKept, Batches
<1> QED
    BY KeptAlways, <1>1, PTL

\* A replacement is in sync and keeps the batches, and the edits unless one
\* came after the command's last look.
THEOREM Replacement == Spec => ReplacementKeeps
<1>1. KeptInv /\ [Next]_vars =>
        [ dir'.last # dir.last /\ outages' = outages =>
            LET old == content[dir.last] new == content'[dir'.last] IN
            /\ InSync(new)
            /\ old.decl.batches \subseteq new.decl.batches
            /\ late = {} => old.decl.edits = new.decl.edits ]_vars
    BY LastStep DEF KeptInv, Tallies, Same, Replaced
<1> QED
    BY KeptAlways, <1>1, PTL DEF Spec, ReplacementKeeps

=============================================================================
