----------------------------- MODULE Packaging -----------------------------
(***************************************************************************)
(* One new package, fetched for `lock` or `update-apply`: a Git tag that is  *)
(* fetched once, checked out and packaged twice with the pinned Cargo, or a  *)
(* crates.io release whose row and archive are fetched one after the other.  *)
(* The upstream tag moves whenever it likes, and every command may fail.     *)
(* What comes out, the evidence, is locked for good.                         *)
(***************************************************************************)
EXTENDS Naturals, FiniteSets

CONSTANTS
    Identity,       \* package versions, and tags
    GitIdentity,    \* the identities published from Git tags
    Archive,        \* the contents of .crate files, which stand for their hashes
    Tag, Commit,    \* tag objects and what they peel to
    Peel,           \* [Tag -> Commit]
    Checkout,       \* [Commit -> what the checked-out tree is like]
    Crate,          \* [Commit -> the archives a run of cargo package may make]
    History,        \* [mirrored Identity -> what the sparse index says of it]
    InitialTag,     \* [GitIdentity -> Tag]
    None,
    MaxMoves,       \* bound: times an upstream tag is moved
    MaxJobs         \* bound: packages fetched

Mirrored == Identity \ GitIdentity

\* what the code asks of a checkout before and after it packages
CheckoutFacts ==
    [submodules : BOOLEAN, unsafePath : BOOLEAN, manifest : BOOLEAN,
     matching : 0..2, publish : BOOLEAN, curated : BOOLEAN,
     tagVersion : BOOLEAN, inside : BOOLEAN, repeatsFeature : BOOLEAN,
     dirties : BOOLEAN]

\* the rows of this version, rows of other names among them, the one row
HistoryFacts == [rows : Nat, foreign : BOOLEAN, yanked : BOOLEAN,
                 checksum : Archive]

ASSUME PackagingAssumption ==
    /\ GitIdentity \subseteq Identity
    /\ Peel \in [Tag -> Commit]
    /\ Checkout \in [Commit -> CheckoutFacts]
    /\ Crate \in [Commit -> SUBSET Archive]
    /\ \A c \in Commit : Crate[c] # {}
    /\ History \in [Mirrored -> HistoryFacts]
    /\ InitialTag \in [GitIdentity -> Tag]
    /\ None \notin Identity \cup Archive \cup Tag \cup Commit
    /\ MaxMoves \in Nat /\ MaxJobs \in Nat

VARIABLES
    upstream,       \* the tag object each upstream tag names now
    job,            \* the package being fetched
    moves, jobs

packaging == <<upstream, job, moves, jobs>>

JobPc == {"idle", "fetched", "ready"}

Idle == [pc |-> "idle", id |-> None, tag |-> None, commit |-> None,
         archive |-> None]

PackagingTypeOK ==
    /\ upstream \in [GitIdentity -> Tag]
    /\ job \in [pc : JobPc, id : Identity \cup {None}, tag : Tag \cup {None},
                commit : Commit \cup {None}, archive : Archive \cup {None}]
    /\ moves \in 0..MaxMoves /\ jobs \in 0..MaxJobs

PackagingInit ==
    /\ upstream = InitialTag
    /\ job = Idle
    /\ moves = 0 /\ jobs = 0

----------------------------------------------------------------------------
(* What the code asks of a checkout. *)

\* ensure_safe_checkout_tree, and the gitlinks fetch_tag lists
SafeTree(c) == ~Checkout[c].submodules /\ ~Checkout[c].unsafePath

\* the directory of the manifest lies in the repository
PackagePath(c) == Checkout[c].inside

\* one package of that name, for this registry, with curated dependencies
CargoMetadata(c) ==
    /\ Checkout[c].matching = 1
    /\ PackagePath(c)
    /\ Checkout[c].publish
    /\ Checkout[c].curated

CleanAfter(c) == ~Checkout[c].dirties

IndexRecord(c) == ~Checkout[c].repeatsFeature

----------------------------------------------------------------------------
(* A first-party package. *)

MoveTag(i, t) ==
    /\ moves < MaxMoves /\ t # upstream[i]
    /\ upstream' = [upstream EXCEPT ![i] = t]
    /\ moves' = moves + 1
    /\ UNCHANGED <<job, jobs>>

\* fetch refs/tags/TAG into a repository of its own
FetchTag(i) ==
    /\ job.pc = "idle" /\ jobs < MaxJobs /\ i \in GitIdentity
    /\ job' = [Idle EXCEPT !.pc = "fetched", !.id = i, !.tag = upstream[i]]
    /\ jobs' = jobs + 1
    /\ UNCHANGED <<upstream, moves>>

\* mutant: the commit is asked of the remote
ResolvedUpstream == Peel[upstream[job.id]]

\* rev-parse of what was fetched, and its checkout
Resolved == Peel[job.tag]

\* every demand on the checkout, in the order of the code
Acceptable(c) ==
    /\ SafeTree(c)
    /\ Checkout[c].manifest
    /\ CargoMetadata(c)
    /\ Checkout[c].tagVersion
    /\ CleanAfter(c)
    /\ IndexRecord(c)

\* cargo package runs twice in a directory nobody else knows, and the two
\* archives must be the same
PackageTag ==
    /\ job.pc = "fetched"
    /\ Acceptable(Resolved)
    /\ \E a, again \in Crate[Resolved] :
           /\ a = again
           /\ job' = [job EXCEPT !.pc = "ready", !.commit = Resolved, !.archive = a]
    /\ UNCHANGED <<upstream, moves, jobs>>

----------------------------------------------------------------------------
(* A mirrored package. *)

\* one row a version, all of this name
ParsesHistory(i) == History[i].rows <= 1 /\ ~History[i].foreign

\* a row that is there and not yanked
SelectsRecord(i) == History[i].rows > 0 /\ ~History[i].yanked

\* an archive with another hash than the row's is refused
FetchMirror(i) ==
    /\ job.pc = "idle" /\ jobs < MaxJobs /\ i \in Mirrored
    /\ ParsesHistory(i) /\ SelectsRecord(i)
    /\ job' = [Idle EXCEPT !.pc = "ready", !.id = i,
                           !.archive = History[i].checksum]
    /\ jobs' = jobs + 1
    /\ UNCHANGED <<upstream, moves>>

----------------------------------------------------------------------------

\* a check that fails, or a command; the temporary directory goes with it
JobFails ==
    /\ job.pc # "idle"
    /\ job' = Idle
    /\ UNCHANGED <<upstream, moves, jobs>>

PackagingNext ==
    \/ \E i \in GitIdentity : \E t \in Tag : MoveTag(i, t)
    \/ \E i \in Identity : FetchTag(i) \/ FetchMirror(i)
    \/ PackageTag \/ JobFails

=============================================================================
