-------------------------- MODULE UpdateWorkflow --------------------------
(***************************************************************************)
(* How releases of one reserved mirror name reach an established catalog:   *)
(* `update-plan` and `update-plan-exact` write a template of exact          *)
(* requests, a reviewer makes a manifest of it, `update-apply` computes     *)
(* every fact again at its own time and admits the whole batch or nothing.  *)
(* crates.io publishes and yanks meanwhile, and the curator removes.        *)
(*                                                                         *)
(* What happens between two file operations of a command is the business    *)
(* of CatalogTransaction; a command is one step here.                       *)
(***************************************************************************)
EXTENDS Integers, FiniteSets

CONSTANTS
    Version,        \* releases there can be, numbered in Cargo's order
    LaneOf,         \* [Version -> lane, None for 0.0.z and prereleases]
    Unrouted,       \* versions with a dependency the catalog has no home for
    Forged,         \* versions whose public source is not their archive
    None,
    MinAge,         \* MIN_RELEASE_AGE_DAYS
    DormantGap,     \* DORMANT_RELEASE_GAP_DAYS
    MaxTime,        \* bound of the clock
    MaxYanked       \* bound of the releases yanked at once

ASSUME UpdateAssumption ==
    /\ Version \subseteq Int /\ \E last \in Version : \A v \in Version : v <= last
    /\ None \notin Version \cup (0 .. MaxTime)
    /\ DOMAIN LaneOf = Version
    /\ Unrouted \subseteq Version /\ Forged \subseteq Version
    /\ MinAge \in Nat /\ DormantGap \in Nat \ {0}
    /\ {MaxTime, MaxYanked} \subseteq Nat

VARIABLES
    now,            \* UTC time
    at,             \* [Version -> time of publication, None before it]
    yanked,         \* versions yanked upstream
    locked,         \* [Version -> state of the identity in the lock]
    decided,        \* [Version -> the decision its batch's lock records]
    template,       \* requests of a template, while the lock it was planned
                    \* against has not changed
    mode            \* the command that wrote it

upstream == <<now, at, yanked>>
catalog == <<locked, decided>>
plan == <<template, mode>>
vars == <<upstream, catalog, plan>>

Lane == {LaneOf[v] : v \in Version} \ {None}

Published == {v \in Version : at[v] # None}
Locked == {v \in Version : locked[v] # "absent"}
Active == {v \in Version : locked[v] = "active"}
InLane(lane) == {v \in Version : LaneOf[v] = lane}

ActiveLanes == {LaneOf[v] : v \in Active} \ {None}

\* locked_releases compares the whole row, its yanked field included, and
\* nothing was yanked when it was admitted
RowsUnchanged == Locked \cap yanked = {}

Greatest(S) == CHOOSE v \in S : \A u \in S : u <= v

Init ==
    /\ now = 0
    /\ at = [v \in Version |-> None] /\ yanked = {}
    /\ locked = [v \in Version |-> "absent"]
    /\ decided = [v \in Version |-> None]
    /\ template = {} /\ mode = None

----------------------------------------------------------------------------
(* policy.rs: which candidates, and the base each is reviewed against. *)

\* not yanked and old enough, at the time the command runs
Ripe(v) == v \in Published \ yanked /\ now - at[v] >= MinAge

Prior(v, S) == {u \in S \cap Locked : at[u] <= at[v]}

\* the most recently published of them
Latest(S) ==
    CHOOSE v \in S :
        \A u \in S : at[u] < at[v] \/ (at[u] = at[v] /\ u <= v)

Selection(v, lane, S) ==
    [version |-> v, lane |-> lane,
     base |-> IF Prior(v, S) = {} THEN None ELSE Latest(Prior(v, S))]

\* mutant: greater than some active version, not than all
ImplicitAboveSome(lane) ==
    {v \in InLane(lane) :
        Ripe(v) /\ \E u \in Active \cap InLane(lane) : u < v}

\* select_implicit_candidates, before it takes the highest
Implicit(lane) ==
    {v \in InLane(lane) :
        Ripe(v) /\ \A u \in Active \cap InLane(lane) : u < v}

ImplicitSelections ==
    {Selection(Greatest(Implicit(lane)), lane, InLane(lane)) :
        lane \in {l \in ActiveLanes : Implicit(l) # {}}}

\* one lane without a base fails the plan of every name
ImplicitPlans == \A s \in ImplicitSelections : s.base # None

\* select_exact_candidate
Exact(v) ==
    /\ v \notin Locked /\ Ripe(v)
    /\ Locked # {} => Prior(v, Version) # {}

\* mutant: any version of an active lane will do
ExactAnywhere(v, lane) == Exact(v) /\ Prior(v, InLane(lane)) # {}

\* select_exact_implicit_candidate
ExactInLane(v, lane) ==
    /\ Exact(v)
    /\ \A u \in Active \cap InLane(lane) : u < v
    /\ Prior(v, InLane(lane)) # {}

\* PlanRequest::Revalidate
Routine(v) == LaneOf[v] \in ActiveLanes

Revalidates(v) ==
    IF Routine(v) THEN ExactInLane(v, LaneOf[v]) ELSE Exact(v)

Revalidated(v) ==
    IF Routine(v) THEN Selection(v, LaneOf[v], InLane(LaneOf[v]))
    ELSE Selection(v, None, Version)

----------------------------------------------------------------------------
(* workflow.rs: what the evidence decides.  reach says whether crates.io's  *)
(* API and the public source answer; new dependencies and a changed build   *)
(* surface would promote like a discontinuity does.                         *)

Activity ==
    IF Locked = {} THEN "new" ELSE IF Active = {} THEN "inactive" ELSE "active"

\* mutant: the gap is only looked for before the candidate itself
DormantLast(s) ==
    s.base # None /\
        \A u \in Published \ {s.version} :
            at[u] <= at[s.version] => at[s.version] - at[u] >= DormantGap

\* first_dormant_gap: neighbours among all publications since the base
Dormant(s) ==
    s.base # None /\
        LET Times == {at[u] : u \in Published} \cap (at[s.base] .. at[s.version])
        IN \E t \in Times :
              /\ t # at[s.base]
              /\ \A r \in Times : r < t => t - r >= DormantGap

Promotions(s, reach) ==
    (IF Activity # "active" THEN {Activity} ELSE {})
        \cup (IF Dormant(s) THEN {"dormant-wakeup"} ELSE {})
        \cup (IF s.base # None /\ ~reach THEN {"discontinuity"} ELSE {})

\* only a promoted candidate is compared with its source
Reasons(s, reach) ==
    LET promotions == Promotions(s, reach) IN
    promotions
        \cup (IF s.lane = None THEN {"explicit-candidate"} ELSE {})
        \cup (IF s.version \in Unrouted THEN {"unknown-dependency-home"} ELSE {})
        \cup (IF promotions # {} /\ ~reach THEN {"source-unavailable"} ELSE {})
        \cup (IF promotions # {} /\ reach /\ s.version \in Forged
                THEN {"source-mismatch"} ELSE {})

Decision(s, reach) ==
    LET reasons == Reasons(s, reach) IN
    IF reasons \cap {"unknown-dependency-home", "source-mismatch"} # {}
      THEN "blocked"
    ELSE IF reasons \ {"explicit-candidate"} # {} THEN "review-required"
    ELSE "automatic"

\* plan.rs: the facts an admission lock may record
Valid(s) ==
    /\ (s.base = None) = (Activity = "new")
    /\ s.base # None => s.base # s.version /\ at[s.base] <= at[s.version]
    /\ s.lane # None =>
          /\ Activity = "active" /\ LaneOf[s.base] = s.lane
          /\ s.base < s.version

----------------------------------------------------------------------------
(* The commands. *)

Writes(selections, reach, command) ==
    /\ template' = {s.version : s \in
                       {t \in selections : Decision(t, reach) # "blocked"}}
    /\ mode' = command
    /\ UNCHANGED <<upstream, catalog>>

UpdatePlan ==
    \E reach \in BOOLEAN :
        /\ ActiveLanes # {} => RowsUnchanged
        /\ ImplicitPlans
        /\ Writes(ImplicitSelections, reach, "update-plan")

UpdatePlanExact(v) ==
    \E reach \in BOOLEAN :
        /\ RowsUnchanged /\ Exact(v)
        /\ Writes({Selection(v, None, Version)}, reach, "update-plan-exact")

\* a lock never returns to what it was
Outdated == template' = {} /\ mode' = None

\* recompute_admission_plan, the blocked check, validate_admission_lock
Admissible(v, reach) ==
    /\ Revalidates(v)
    /\ Decision(Revalidated(v), reach) # "blocked"
    /\ Valid(Revalidated(v))

\* the whole batch, which may be written by hand, or nothing
UpdateApply(manifest) ==
    \E reach \in BOOLEAN :
        /\ manifest # {} /\ RowsUnchanged
        /\ \A v \in manifest : Admissible(v, reach)
        /\ locked' = [v \in Version |->
                        IF v \in manifest THEN "active" ELSE locked[v]]
        /\ decided' = [v \in Version |->
                        IF v \in manifest THEN Decision(Revalidated(v), reach)
                        ELSE decided[v]]
        /\ Outdated /\ UNCHANGED upstream

\* the curator drops a version from the declarations, and `lock`
Remove(v) ==
    /\ v \in Active
    /\ locked' = [locked EXCEPT ![v] = "removed"]
    /\ Outdated /\ UNCHANGED <<upstream, decided>>

----------------------------------------------------------------------------
(* crates.io *)

Publish(v) ==
    /\ v \notin Published
    /\ at' = [at EXCEPT ![v] = now]
    /\ UNCHANGED <<now, yanked, catalog, plan>>

\* and unyank
Yank(v) ==
    /\ v \in Published
    /\ yanked' = IF v \in yanked THEN yanked \ {v} ELSE yanked \cup {v}
    /\ Cardinality(yanked') <= MaxYanked
    /\ UNCHANGED <<now, at, catalog, plan>>

Tick ==
    /\ now < MaxTime /\ now' = now + 1
    /\ UNCHANGED <<at, yanked, catalog, plan>>

Next ==
    \/ UpdatePlan \/ Tick
    \/ \E v \in Version :
          UpdatePlanExact(v) \/ Remove(v) \/ Publish(v) \/ Yank(v)
    \/ \E manifest \in SUBSET Version : UpdateApply(manifest)

Spec == Init /\ [][Next]_vars

----------------------------------------------------------------------------
(* Properties. *)

\* The type invariant.
TypeOK ==
    /\ now \in 0 .. MaxTime
    /\ at \in [Version -> (0 .. MaxTime) \cup {None}]
    /\ yanked \subseteq Version
    /\ locked \in [Version -> {"absent", "active", "removed"}]
    /\ decided \in [Version -> {None, "automatic", "review-required"}]
    /\ template \subseteq Version
    /\ mode \in {None, "update-plan", "update-plan-exact"}

\* update-apply would take the request now, as far as selection and the
\* validity of its facts go
Applicable(v) == Revalidates(v) /\ Valid(Revalidated(v))

\* while nothing requested or locked is yanked
Current == (template \cup Locked) \cap yanked = {}

\* a tombstone of its lane that is not older
Overtaken(v) ==
    LaneOf[v] # None /\
        \E u \in InLane(LaneOf[v]) : locked[u] = "removed" /\ u >= v

\* What is planned one way is taken the other way, however much later and
\* whatever was published since: select_implicit_candidates and
\* select_exact_implicit_candidate agree, base included, save where a removed
\* release is not older than the candidate, or an exact plan names a version
\* of an active lane.
TemplateStaysApplicable ==
    Current =>
        \A v \in template :
            \/ Applicable(v)
            \/ Overtaken(v)
            \/ mode = "update-plan-exact" /\ Routine(v)

\* An active lane only moves forward: no admission, also of an exact request
\* planned before the lane became active or by hand, adds a version below the
\* active maximum it finds.
ActiveLaneAdvances ==
    [][ \A v \in Version :
          v \notin Active /\ locked'[v] = "active" /\ Routine(v) =>
              \A u \in Active \cap InLane(LaneOf[v]) : u < v ]_vars

\* No release is admitted as automatic when, since the newest release of the
\* name that was locked before it, the name had been silent for as long as
\* DormantGap at some point.
WakeupIsReviewed ==
    [][ \A v \in Version :
          /\ locked'[v] = "active" /\ v \notin Locked
          /\ Prior(v, Version) # {}
          /\ \E s \in at[Latest(Prior(v, Version))] .. (at[v] - DormantGap) :
                \A u \in Published : at[u] \notin (s + 1) .. (s + DormantGap - 1)
          => decided'[v] = "review-required" ]_vars

(***************************************************************************)
(* What the documentation says and the code does not do: "Every nonblocked  *)
(* generated manifest is directly applyable"; a removed release above the   *)
(* active maximum is planned again, and what its lane has is then blocked.  *)
(***************************************************************************)
TemplateIsApplicable ==
    Current /\ mode = "update-plan" => \A v \in template : Applicable(v)

============================================================================
