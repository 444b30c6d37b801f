------------------------ MODULE CatalogTransaction ------------------------
(***************************************************************************)
(* The catalog directory and the commands that replace it: `lock`           *)
(* (reconcile) and `update-apply`.  Either builds a complete copy beside    *)
(* the live directory, moves the live one away and the copy into its place; *)
(* a guard file keeps commands apart, nothing keeps an editor away.         *)
(***************************************************************************)
EXTENDS Naturals

CONSTANTS
    Reconciler,     \* processes that run `lock`
    Applier,        \* processes that run `update-apply`, each with its batch
    Tree,           \* directories that can exist at once
    None,
    MaxEdits, MaxFaults, MaxCrashes, MaxOutages     \* environment's budgets

Proc == Reconciler \cup Applier

ASSUME TransactionAssumption ==
    /\ Reconciler \cap Applier = {}
    /\ None \notin Proc \cup Tree
    /\ Tree # {}
    /\ {MaxEdits, MaxFaults, MaxCrashes, MaxOutages} \subseteq Nat

VARIABLES
    dir,            \* the parent directory as the running system sees it
    survivors,      \* the states of dir a power loss may leave
    content,        \* [Tree -> Catalog \cup {Partial}]
    pc,             \* [Proc -> what the command does next]
    seen,           \* [Proc -> the catalog its result is computed from]
    late,           \* commands an edit has overtaken since their last look
    reported,       \* batches an update-apply has reported as installed
    confirmed,      \* batches one has reported as installed already
    edits, faults, crashes, outages     \* used up so far

budgets == <<edits, faults, crashes, outages>>
vars == <<dir, survivors, content, pc, seen, late, reported, confirmed, budgets>>

(***************************************************************************)
(* The human declarations are a number of edits and the admitted batches;   *)
(* a lock is the declarations it was generated from.                        *)
(***************************************************************************)
Declarations == [edits : 0 .. MaxEdits, batches : SUBSET Applier]
Catalog == [decl : Declarations, lock : Declarations]
Partial == [decl |-> None, lock |-> None]

ASSUME DeclarationsAssumption == None \notin Declarations

\* what strict loading, policy, object and render checks say of a tree
InSync(catalog) == catalog # Partial /\ catalog.lock = catalog.decl

Reconciled(catalog, from) == [catalog EXCEPT !.lock = from.decl]

Admitted(catalog, batch) ==
    LET decl == [catalog.decl EXCEPT !.batches = @ \cup {batch}]
    IN [decl |-> decl, lock |-> decl]

Some(trees) == CHOOSE t \in trees : TRUE

Initially == [edits |-> 0, batches |-> {}]

Init ==
    /\ LET tree == Some(Tree) IN
          /\ dir = [root |-> tree, guard |-> None, stage |-> [p \in Proc |-> None],
                    backup |-> [p \in Proc |-> None], left |-> {}, last |-> tree]
          /\ content = [u \in Tree |->
                IF u = tree THEN [decl |-> Initially, lock |-> Initially]
                ELSE Partial]
    /\ survivors = {dir}
    /\ pc = [p \in Proc |-> "idle"]
    /\ seen = [p \in Proc |-> Partial]
    /\ late = {} /\ reported = {} /\ confirmed = {}
    /\ edits = 0 /\ faults = 0 /\ crashes = 0 /\ outages = 0

----------------------------------------------------------------------------
(* How a step ends. *)

Works == UNCHANGED budgets

Fault ==
    /\ faults < MaxFaults /\ faults' = faults + 1
    /\ UNCHANGED <<edits, crashes, outages>>

Goto(p, next) == pc' = [pc EXCEPT ![p] = next]

\* the parent directory changes, on disk whenever the kernel gets to it
Becomes(entries) == dir' = entries /\ survivors' = survivors \cup {entries}

NoEntry == UNCHANGED <<dir, survivors>>

Named(entries) ==
    {entries.root, entries.last} \cup entries.left
        \cup {entries.stage[p] : p \in Proc}
        \cup {entries.backup[p] : p \in Proc}

\* trees no directory entry names, or may come to name after a power loss
Free == Tree \ UNION {Named(d) : d \in survivors}

\* what is left of the trees when only the named ones can be reached
Kept(entries) ==
    [tree \in Tree |-> IF tree \in Named(entries) THEN content[tree] ELSE Partial]

\* mutant: the fingerprint is not compared
MatchesAlways(p, tree) == TRUE

\* catalog_fingerprint
Matches(p, tree) == content[tree] = seen[p]

----------------------------------------------------------------------------
(* Up to the guard. *)

\* lock starts with the guard; update-apply first recomputes the facts, for a
\* catalog that loads, without the guard
StartReconcile(p) ==
    /\ p \in Reconciler /\ pc[p] = "idle" /\ dir.root # None
    /\ Goto(p, "lock")
    /\ Works /\ NoEntry /\ UNCHANGED <<content, seen, late, reported, confirmed>>

RecomputeFacts(p) ==
    /\ p \in Applier /\ pc[p] = "idle" /\ dir.root # None
    /\ InSync(content[dir.root])
    /\ p \notin content[dir.root].decl.batches
    /\ seen' = [seen EXCEPT ![p] = content[dir.root]]
    /\ Goto(p, "lock")
    /\ Works /\ NoEntry /\ UNCHANGED <<content, late, reported, confirmed>>

\* a batch the live catalog has is not applied again; no guard, no sync
AlreadyApplied(p) ==
    /\ p \in Applier /\ pc[p] = "idle" /\ dir.root # None
    /\ InSync(content[dir.root])
    /\ p \in content[dir.root].decl.batches
    /\ confirmed' = confirmed \cup {p}
    /\ Works /\ NoEntry /\ UNCHANGED <<content, pc, seen, late, reported>>

\* mutant: an existing guard is taken over
AcquireAnyway(p) ==
    /\ pc[p] = "lock" /\ dir.root # None
    /\ Becomes([dir EXCEPT !.guard = p])
    /\ Goto(p, IF p \in Reconciler THEN "load" ELSE "check")
    /\ Works /\ UNCHANGED <<content, seen, late, reported, confirmed>>

\* create_new: an existing guard, or a catalog that is not there, ends it
AcquireGuard(p) ==
    /\ pc[p] = "lock"
    /\ \/ /\ dir.root # None /\ dir.guard = None /\ Works
          /\ Becomes([dir EXCEPT !.guard = p])
          /\ Goto(p, IF p \in Reconciler THEN "load" ELSE "check")
       \/ /\ (dir.root = None \/ dir.guard # None) /\ Works
          /\ Goto(p, "idle") /\ NoEntry
    /\ UNCHANGED <<content, seen, late, reported, confirmed>>

\* an error before there is a staging directory
GiveUp(p) == Goto(p, "unlock") /\ UNCHANGED seen

LoadInputs(p) ==
    /\ pc[p] = "load"
    /\ \/ /\ dir.root # None /\ Works
          /\ seen' = [seen EXCEPT ![p] = content[dir.root]]
          /\ Goto(p, IF InSync(content[dir.root]) THEN "unlock" ELSE "stage")
       \/ /\ Fault \/ (dir.root = None /\ Works)
          /\ GiveUp(p)
    /\ NoEntry /\ UNCHANGED <<content, late, reported, confirmed>>

CheckFingerprint(p) ==
    /\ pc[p] = "check" /\ Works
    /\ \/ /\ dir.root # None /\ Matches(p, dir.root)
          /\ Goto(p, "stage") /\ UNCHANGED seen
       \/ /\ dir.root = None \/ ~Matches(p, dir.root)
          /\ GiveUp(p)
    /\ NoEntry /\ UNCHANGED <<content, late, reported, confirmed>>

----------------------------------------------------------------------------
(* The private copy. *)

MakeStage(p) ==
    /\ pc[p] = "stage"
    /\ Free # {}
    /\ LET tree == Some(Free) IN
          /\ Becomes([dir EXCEPT !.stage[p] = tree])
          /\ content' = [content EXCEPT ![tree] = Partial]
    /\ Goto(p, "copy")
    /\ Works /\ UNCHANGED <<seen, late, reported, confirmed>>

\* The live files are read again.  reconcile writes the locks it computed
\* from the inputs it had loaded; update-apply compares the copy's
\* fingerprint, appends the batch and reconciles the copy.
CopyLive(p) ==
    /\ pc[p] = "copy"
    /\ LET live == content[dir.root] IN
       \/ /\ dir.root # None /\ p \in Reconciler /\ Works
          /\ content' = [content EXCEPT ![dir.stage[p]] =
                            Reconciled(live, seen[p])]
          /\ late' = late \ {p} /\ Goto(p, "validate")
       \/ /\ dir.root # None /\ p \in Applier /\ Matches(p, dir.root) /\ Works
          /\ content' = [content EXCEPT ![dir.stage[p]] = Admitted(live, p)]
          /\ Goto(p, "validate") /\ UNCHANGED late
       \/ /\ \/ Fault
             \/ Works /\ dir.root = None
             \/ Works /\ p \in Applier /\ ~Matches(p, dir.root)
          /\ Goto(p, "unstage") /\ UNCHANGED <<content, late>>
    /\ NoEntry /\ UNCHANGED <<seen, reported, confirmed>>

ValidateStaged(p) ==
    /\ pc[p] = "validate"
    /\ \/ /\ InSync(content[dir.stage[p]]) /\ Works
          /\ Goto(p, IF p \in Reconciler THEN "swap-out" ELSE "recheck")
       \/ Fault /\ Goto(p, "unstage")
       \/ ~InSync(content[dir.stage[p]]) /\ Works /\ Goto(p, "unstage")
    /\ NoEntry /\ UNCHANGED <<content, seen, late, reported, confirmed>>

\* update-apply looks at the live catalog once more
RecheckFingerprint(p) ==
    /\ pc[p] = "recheck" /\ Works
    /\ \/ dir.root # None /\ Matches(p, dir.root) /\ Goto(p, "swap-out")
       \/ /\ dir.root = None \/ ~Matches(p, dir.root)
          /\ Goto(p, "unstage")
    /\ late' = late \ {p}
    /\ NoEntry /\ UNCHANGED <<content, seen, reported, confirmed>>

----------------------------------------------------------------------------
(* install_staging() *)

SwapOut(p) ==
    /\ pc[p] = "swap-out"
    /\ \/ /\ dir.root # None /\ Works
          /\ Becomes([dir EXCEPT !.root = None, !.backup[p] = dir.root])
          /\ Goto(p, "swap-in")
       \/ /\ Fault \/ (dir.root = None /\ Works)
          /\ NoEntry /\ Goto(p, "unstage")
    /\ UNCHANGED <<content, seen, late, reported, confirmed>>

\* mutant: a failed second rename is not undone
SwapInGivesUp(p) ==
    /\ pc[p] = "swap-in"
    /\ \/ /\ Becomes([dir EXCEPT !.root = dir.stage[p], !.last = dir.stage[p],
                                 !.stage[p] = None])
          /\ Works /\ Goto(p, "sync")
       \/ Fault /\ NoEntry /\ Goto(p, "unstage")
    /\ UNCHANGED <<content, seen, late, reported, confirmed>>

SwapIn(p) ==
    /\ pc[p] = "swap-in"
    /\ \/ /\ Becomes([dir EXCEPT !.root = dir.stage[p], !.last = dir.stage[p],
                                 !.stage[p] = None])
          /\ Works /\ Goto(p, "sync")
       \/ Fault /\ NoEntry /\ Goto(p, "restore")
    /\ UNCHANGED <<content, seen, late, reported, confirmed>>

Restore(p) ==
    /\ pc[p] = "restore"
    /\ \/ /\ Becomes([dir EXCEPT !.root = dir.backup[p], !.backup[p] = None])
          /\ Works
       \/ Fault /\ NoEntry
    /\ Goto(p, "unstage")
    /\ UNCHANGED <<content, seen, late, reported, confirmed>>

\* mutant: the parent directory is not synced
NotSynced(p) ==
    /\ pc[p] = "sync" /\ Goto(p, "discard") /\ Works /\ NoEntry
    /\ UNCHANGED <<content, seen, late, reported, confirmed>>

SyncParent(p) ==
    /\ pc[p] = "sync"
    /\ \/ survivors' = {dir} /\ Works /\ Goto(p, "discard")
       \/ Fault /\ UNCHANGED survivors /\ Goto(p, "unstage")
    /\ UNCHANGED <<dir, content, seen, late, reported, confirmed>>

\* a failed removal is only logged
DiscardBackup(p) ==
    /\ pc[p] = "discard"
    /\ content' = [content EXCEPT ![dir.backup[p]] = Partial]
    /\ \/ Becomes([dir EXCEPT !.backup[p] = None]) /\ Works
       \/ Fault /\ NoEntry
    /\ Goto(p, "finish")
    /\ UNCHANGED <<seen, late, reported, confirmed>>

----------------------------------------------------------------------------
(* What is dropped on the way out: the staging directory, then the guard,    *)
(* whoever's it is.  What is left behind stays.                              *)

Unstage(p) ==
    /\ pc[p] = "unstage"
    /\ \/ dir.stage[p] = None /\ Works /\ UNCHANGED <<dir, survivors, content>>
       \/ /\ dir.stage[p] # None /\ Works
          /\ content' = [content EXCEPT ![dir.stage[p]] = Partial]
          /\ Becomes([dir EXCEPT !.stage[p] = None])
    /\ Goto(p, "unlock")
    /\ UNCHANGED <<seen, late, reported, confirmed>>

Leftovers(p) == dir.left \cup ({dir.stage[p], dir.backup[p]} \ {None})

Unlock(p) ==
    /\ pc[p] \in {"unlock", "finish"}
    /\ Becomes([dir EXCEPT !.guard = None, !.left = Leftovers(p),
                           !.stage[p] = None, !.backup[p] = None])
    /\ reported' = IF pc[p] = "finish" /\ p \in Applier
                     THEN reported \cup {p} ELSE reported
    /\ Goto(p, "idle") /\ late' = late \ {p}
    /\ seen' = [seen EXCEPT ![p] = Partial]
    /\ Works /\ UNCHANGED <<content, confirmed>>

----------------------------------------------------------------------------
(* The environment. *)

\* commands that have looked at the live catalog for the last time
Committed ==
    {p \in Proc : pc[p] = "swap-out"}
        \cup {p \in Reconciler : pc[p] = "validate"}

\* somebody edits the declarations in place
Edit ==
    /\ edits < MaxEdits /\ edits' = edits + 1
    /\ dir.root # None
    /\ content' = [content EXCEPT ![dir.root].decl.edits = edits + 1]
    /\ late' = late \cup Committed
    /\ NoEntry
    /\ UNCHANGED <<pc, seen, reported, confirmed, faults, crashes, outages>>

\* A command vanishes; what it had begun to name stays named.
Vanish(entries) ==
    [entries EXCEPT
        !.left = (@ \cup {entries.stage[p] : p \in Proc}
                    \cup {entries.backup[p] : p \in Proc}) \ {None},
        !.stage = [p \in Proc |-> None], !.backup = [p \in Proc |-> None]]

Crash(p) ==
    /\ pc[p] # "idle" /\ crashes < MaxCrashes /\ crashes' = crashes + 1
    /\ dir' = [dir EXCEPT !.left = Leftovers(p), !.stage[p] = None,
                          !.backup[p] = None]
    /\ survivors' = survivors \cup {dir'}
    /\ Goto(p, "idle") /\ late' = late \ {p}
    /\ seen' = [seen EXCEPT ![p] = Partial]
    /\ UNCHANGED <<content, reported, confirmed, edits, faults, outages>>

PowerLoss ==
    /\ outages < MaxOutages /\ outages' = outages + 1
    /\ \E d \in survivors : dir' = Vanish(d)
    /\ survivors' = {dir'} /\ content' = Kept(dir')
    /\ pc' = [p \in Proc |-> "idle"] /\ late' = {}
    /\ seen' = [p \in Proc |-> Partial]
    /\ UNCHANGED <<reported, confirmed, edits, faults, crashes>>

\* The operator, once no command runs: puts the last complete catalog back
\* if there is none, removes a stale guard and what was left behind.
Recover ==
    /\ \A p \in Proc : pc[p] = "idle"
    /\ dir.guard # None \/ dir.root = None \/ dir.left # {}
    /\ dir' = [dir EXCEPT !.root = dir.last, !.guard = None, !.left = {}]
    /\ survivors' = {dir'} /\ content' = Kept(dir')
    /\ Works /\ UNCHANGED <<pc, seen, late, reported, confirmed>>

----------------------------------------------------------------------------

Command(p) ==
    \/ StartReconcile(p) \/ RecomputeFacts(p) \/ AlreadyApplied(p)
    \/ AcquireGuard(p)
    \/ LoadInputs(p) \/ CheckFingerprint(p) \/ MakeStage(p) \/ CopyLive(p)
    \/ ValidateStaged(p) \/ RecheckFingerprint(p)
    \/ SwapOut(p) \/ SwapIn(p) \/ Restore(p) \/ SyncParent(p)
    \/ DiscardBackup(p) \/ Unstage(p) \/ Unlock(p)

Next ==
    \/ \E p \in Proc : Command(p) \/ Crash(p)
    \/ Edit \/ PowerLoss \/ Recover

Spec == Init /\ [][Next]_vars

----------------------------------------------------------------------------
(* What the commands promise. *)

Guarded == {"load", "check", "stage", "copy", "validate", "recheck",
            "swap-out", "swap-in", "restore", "sync", "discard", "finish",
            "unstage", "unlock"}

Entries == [root : Tree \cup {None}, guard : Proc \cup {None},
            stage : [Proc -> Tree \cup {None}],
            backup : [Proc -> Tree \cup {None}],
            left : SUBSET Tree, last : Tree]

TypeOK ==
    /\ dir \in Entries /\ dir \in survivors /\ survivors \subseteq Entries
    /\ content \in [Tree -> Catalog \cup {Partial}]
    /\ pc \in [Proc -> Guarded \cup {"idle", "lock"}]
    /\ seen \in [Proc -> Catalog \cup {Partial}]
    /\ late \subseteq Proc
    /\ reported \subseteq Applier /\ confirmed \subseteq Applier
    /\ edits \in 0 .. MaxEdits /\ faults \in 0 .. MaxFaults
    /\ crashes \in 0 .. MaxCrashes /\ outages \in 0 .. MaxOutages

\* The guard file keeps commands out of each other's guarded section, also
\* after one has crashed holding it and while another's exit removes it.
OneAtATime ==
    \A p, q \in Proc : pc[p] \in Guarded /\ pc[q] \in Guarded => p = q

\* Whatever a power loss leaves, the catalog installed last is there whole:
\* in its place, as a command's backup or as a directory left behind.
CatalogNeverLost ==
    \A d \in survivors :
        /\ InSync(content[d.last]) \/ edits > 0
        /\ content[d.last] # Partial
        /\ d.last \in {d.root} \cup d.left \cup {d.backup[p] : p \in Proc}

\* Only a command between its two renames, a crash there or a failed rename
\* whose undoing failed too leaves no catalog under the catalog's name.
MissingIsExplained ==
    dir.root = None =>
        \/ \E p \in Proc : pc[p] \in {"swap-in", "restore"}
        \/ crashes + outages > 0
        \/ faults > 1

\* A batch reported as installed stays, through every later command, failed
\* or not, and every power loss.  A batch only confirmed by a second
\* update-apply stays too, but may go with the installation it confirms.
AppliedIsKept ==
    LET Has(tree) == IF content[tree] = Partial THEN {}
                     ELSE content[tree].lock.batches
    IN /\ \A d \in survivors : reported \subseteq Has(d.last)
       /\ outages = 0 => confirmed \subseteq Has(dir.last)

\* A replacement installs a catalog in sync that has all the old one's
\* batches, and the old one's edits unless one came after the command had
\* looked at the live directory for the last time.
ReplacementKeeps ==
    [][ dir'.last # dir.last /\ outages' = outages =>
          LET old == content[dir.last] new == content'[dir'.last] IN
          /\ InSync(new)
          /\ old.decl.batches \subseteq new.decl.batches
          /\ late = {} => old.decl.edits = new.decl.edits ]_vars

============================================================================
