----------------------- MODULE UpdateWorkflowProofs -----------------------
(***************************************************************************)
(* What is proved of UpdateWorkflow, for every number of releases, every    *)
(* assignment of lanes and every age and gap.                               *)
(***************************************************************************)
EXTENDS UpdateWorkflow, WellFoundedInduction, TLAPS

\* A set of numbers has a least one.
LEMMA Least ==
    ASSUME NEW T, T \subseteq Nat, T # {}
    PROVE  \E x \in T : \A y \in T : x <= y
<1> DEFINE R == {pair \in Nat \X Nat : pair[1] < pair[2]}
<1>1. IsWellFoundedOn(R, Nat)
    BY NatLessThanWellFounded, Zenon DEF OpToRel
<1>2. \E x \in T : \A y \in T : <<y, x>> \notin R
    <2> HIDE DEF R
    <2> QED BY <1>1, WFMin, Zenon
<1>3. PICK x \in T : \A y \in T : <<y, x>> \notin R
    BY <1>2
<1>4. ASSUME NEW y \in T PROVE x <= y
    <2>1. <<y, x>> \notin R /\ y \in Nat /\ x \in Nat
        BY <1>3
    <2>2. ~(y < x)
        BY <2>1
    <2> QED BY <2>1, <2>2
<1> QED
    BY <1>4

\* Greatest is defined on every set of releases that is not empty.
LEMMA GreatestOf ==
    ASSUME NEW S, S \subseteq Version, S # {}
    PROVE  Greatest(S) \in S /\ \A u \in S : u <= Greatest(S)
<1>1. PICK n \in Version : \A v \in Version : v <= n
    BY UpdateAssumption, Zenon DEF UpdateAssumption
<1> DEFINE T == {n - v : v \in S}
<1>2. n \in Int /\ S \subseteq Int /\ Version \subseteq Int
    BY UpdateAssumption DEF UpdateAssumption
<1>3. T \subseteq Nat /\ T # {}
    <2>1. ASSUME NEW v \in S PROVE n - v \in Nat
        <3>1. v \in Int /\ v <= n
            BY <1>1, <1>2
        <3> QED BY <3>1, <1>2
    <2> QED BY <2>1
<1>4. PICK x \in T : \A y \in T : x <= y
    <2> HIDE DEF T
    <2> QED BY <1>3, Least
<1>5. PICK v \in S : x = n - v
    BY <1>4
<1>6. \A u \in S : u <= v
    <2> TAKE u \in S
    <2>1. x <= n - u
        BY <1>4
    <2> QED BY <2>1, <1>2, <1>5
<1> QED
    BY <1>5, <1>6 DEF Greatest

\* So is Latest, when they all have been published.
LEMMA LatestOf ==
    ASSUME NEW S, S \subseteq Version, S # {},
           \A v \in S : at[v] \in 0 .. MaxTime
    PROVE  Latest(S) \in S /\ \A u \in S : at[u] <= at[Latest(S)]
<1> DEFINE T == {MaxTime - at[v] : v \in S}
<1>1. MaxTime \in Nat /\ S \subseteq Int
    BY UpdateAssumption DEF UpdateAssumption
<1>2. \A v \in S : at[v] \in Int /\ MaxTime - at[v] \in Nat
    BY <1>1
<1>3. T \subseteq Nat /\ T # {}
    BY <1>2
<1>4. PICK x \in T : \A y \in T : x <= y
    <2> HIDE DEF T
    <2> QED BY <1>3, Least
<1> DEFINE newest == {v \in S : MaxTime - at[v] = x}
<1>5. newest \subseteq Version /\ newest # {}
    BY <1>4
<1>6. PICK g \in newest : \A u \in newest : u <= g
    <2> HIDE DEF newest
    <2> QED BY <1>5, GreatestOf
<1>7. ASSUME NEW u \in S PROVE at[u] < at[g] \/ (at[u] = at[g] /\ u <= g)
    <2>1. at[u] \in Int /\ at[g] \in Int /\ MaxTime \in Int
        BY <1>1, <1>2, <1>6
    <2>2. MaxTime - at[g] = x /\ x <= MaxTime - at[u]
        BY <1>4, <1>6
    <2>3. at[u] <= at[g]
        BY <2>1, <2>2
    <2>4. CASE at[u] = at[g]
        BY <2>2, <2>4, <1>6
    <2> QED BY <2>1, <2>3, <2>4
<1>8. \E v \in S : \A u \in S : at[u] < at[v] \/ (at[u] = at[v] /\ u <= v)
    BY <1>6, <1>7
<1>9. /\ Latest(S) \in S
      /\ \A u \in S : at[u] < at[Latest(S)]
                         \/ (at[u] = at[Latest(S)] /\ u <= Latest(S))
    BY <1>8 DEF Latest
<1>10. ASSUME NEW u \in S PROVE at[u] <= at[Latest(S)]
    <2>1. at[u] \in Int /\ at[Latest(S)] \in Int
        BY <1>2, <1>9
    <2> QED BY <2>1, <1>9
<1> QED
    BY <1>9, <1>10

----------------------------------------------------------------------------
(* The inductive invariant. *)

\* What was true of each request when the template was written, and is still:
\* times do not change, and a change of the lock outdates the template.
Planned(v) ==
    /\ v \in Published /\ now - at[v] >= MinAge
    /\ \/ /\ mode = "update-plan"
          /\ LaneOf[v] \in ActiveLanes
          /\ \A u \in Active \cap InLane(LaneOf[v]) : u < v
          /\ Prior(v, InLane(LaneOf[v])) # {}
       \/ /\ mode = "update-plan-exact"
          /\ v \notin Locked
          /\ Locked # {} => Prior(v, Version) # {}

IInv ==
    /\ TypeOK
    /\ Locked \subseteq Published
    /\ \A v \in template : Planned(v)

\* While the lock and the publications of its releases stay, and the clock
\* does not go back, what was planned stays so.
LEMMA PlanKept ==
    ASSUME IInv, locked' = locked, template' = template, mode' = mode,
           TypeOK', now' >= now,
           \A v \in Published : at'[v] = at[v]
    PROVE  IInv'
<1>1. Locked' = Locked /\ Active' = Active /\ ActiveLanes' = ActiveLanes
    BY DEF Locked, Active, ActiveLanes
<1>2. Published \subseteq Published'
    BY DEF Published
<1>3. Locked' \subseteq Published'
    BY <1>1, <1>2 DEF IInv
<1>4. ASSUME NEW v \in template PROVE Planned(v)'
    <2>1. Planned(v) /\ v \in Published
        BY <1>4 DEF IInv, Planned
    <2>2. at'[v] = at[v] /\ v \in Published'
        BY <2>1, <1>2
    <2>3. \A S : Prior(v, S)' = Prior(v, S)
        BY <1>1, <2>2 DEF Prior, IInv
    <2>4. now' - at'[v] >= MinAge
        <3>1. at[v] \in Int /\ now \in Int /\ now' \in Int /\ MinAge \in Int
            BY <2>1, UpdateAssumption DEF IInv, TypeOK, Published, UpdateAssumption
        <3> QED BY <3>1, <2>1, <2>2 DEF Planned
    <2>5. InLane(LaneOf[v])' = InLane(LaneOf[v])
        BY DEF InLane
    <2> QED
        BY <1>1, <2>1, <2>2, <2>3, <2>4, <2>5 DEF Planned
<1> QED
    BY <1>3, <1>4 DEF IInv

\* A command that changes the lock leaves no current template behind.
LEMMA OutdatedOK ==
    ASSUME TypeOK', template' = {}, Locked' \subseteq Published'
    PROVE  IInv'
    BY DEF IInv

\* update-plan writes requests it has just found applicable.
LEMMA UpdatePlanOK ==
    ASSUME IInv, UpdatePlan
    PROVE  IInv'
<1>1. PICK reach \in BOOLEAN :
          ImplicitPlans /\ Writes(ImplicitSelections, reach, "update-plan")
    BY DEF UpdatePlan
<1>2. /\ template' = {s.version : s \in {t \in ImplicitSelections :
                                          Decision(t, reach) # "blocked"}}
      /\ mode' = "update-plan"
      /\ UNCHANGED <<now, at, yanked, locked, decided>>
    BY <1>1 DEF Writes, upstream, catalog
<1>3. ASSUME NEW v \in template'
      PROVE  v \in Version /\ Planned(v)'
    <2>1. PICK s \in ImplicitSelections : v = s.version
        BY <1>2
    <2>2. PICK lane \in {l \in ActiveLanes : Implicit(l) # {}} :
              s = Selection(Greatest(Implicit(lane)), lane, InLane(lane))
        BY <2>1 DEF ImplicitSelections
    <2>3. Implicit(lane) \subseteq Version
        BY DEF Implicit, InLane
    <2>4. v \in Implicit(lane)
        <3>1. v = Greatest(Implicit(lane))
            BY <2>1, <2>2 DEF Selection
        <3> QED BY <3>1, <2>2, <2>3, GreatestOf
    <2>5. /\ v \in Version /\ LaneOf[v] = lane /\ Ripe(v)
          /\ \A u \in Active \cap InLane(lane) : u < v
        BY <2>4 DEF Implicit, InLane
    <2>6. Prior(v, InLane(lane)) # {}
        <3>1. s.base # None
            BY <1>1, <2>1 DEF ImplicitPlans
        <3>2. v = Greatest(Implicit(lane))
            BY <2>1, <2>2 DEF Selection
        <3> QED BY <2>2, <3>1, <3>2 DEF Selection
    <2>7. /\ v \in Published /\ now - at[v] >= MinAge
          /\ mode' = "update-plan" /\ LaneOf[v] \in ActiveLanes
          /\ \A u \in Active \cap InLane(LaneOf[v]) : u < v
          /\ Prior(v, InLane(LaneOf[v])) # {}
        BY <1>2, <2>2, <2>5, <2>6 DEF Ripe
    <2>8. /\ Published' = Published /\ ActiveLanes' = ActiveLanes
          /\ Active' = Active /\ InLane(LaneOf[v])' = InLane(LaneOf[v])
          /\ Prior(v, InLane(LaneOf[v]))' = Prior(v, InLane(LaneOf[v]))
        BY <1>2 DEF Published, ActiveLanes, Active, InLane, Prior, Locked
    <2> QED
        BY <1>2, <2>5, <2>7, <2>8 DEF Planned
<1>4. TypeOK'
    BY <1>2, <1>3 DEF IInv, TypeOK
<1>5. Locked' \subseteq Published'
    BY <1>2 DEF IInv, Locked, Published
<1> QED
    BY <1>3, <1>4, <1>5 DEF IInv

\* So does update-plan-exact.
LEMMA UpdatePlanExactOK ==
    ASSUME IInv, NEW v \in Version, UpdatePlanExact(v)
    PROVE  IInv'
<1>1. PICK reach \in BOOLEAN :
          Exact(v) /\ Writes({Selection(v, None, Version)}, reach,
                             "update-plan-exact")
    BY DEF UpdatePlanExact
<1>2. /\ template' \subseteq {v}
      /\ mode' = "update-plan-exact"
      /\ UNCHANGED <<now, at, yanked, locked, decided>>
    BY <1>1 DEF Writes, upstream, catalog, Selection
<1>3. /\ v \in Published /\ now - at[v] >= MinAge
      /\ v \notin Locked /\ (Locked # {} => Prior(v, Version) # {})
    BY <1>1 DEF Exact, Ripe
<1>4. /\ Published' = Published /\ Locked' = Locked
      /\ Prior(v, Version)' = Prior(v, Version)
    BY <1>2 DEF Published, Prior, Locked
<1>5. Planned(v)'
    BY <1>2, <1>3, <1>4 DEF Planned
<1>6. TypeOK'
    BY <1>2 DEF IInv, TypeOK
<1> QED
    BY <1>2, <1>4, <1>5, <1>6 DEF IInv

\* update-apply admits only what is published, and decides on each.
LEMMA UpdateApplyOK ==
    ASSUME IInv, NEW manifest \in SUBSET Version, UpdateApply(manifest)
    PROVE  IInv'
<1>1. PICK reach \in BOOLEAN :
          /\ \A v \in manifest : Admissible(v, reach)
          /\ locked' = [v \in Version |->
                          IF v \in manifest THEN "active" ELSE locked[v]]
          /\ decided' = [v \in Version |->
                          IF v \in manifest THEN Decision(Revalidated(v), reach)
                          ELSE decided[v]]
    BY DEF UpdateApply
<1>2. template' = {} /\ mode' = None /\ UNCHANGED <<now, at, yanked>>
    BY DEF UpdateApply, Outdated, upstream
<1>3. ASSUME NEW v \in manifest
      PROVE  /\ v \in Published
             /\ Decision(Revalidated(v), reach) \in {"automatic", "review-required"}
    <2>1. Exact(v)
        BY <1>1, <1>3 DEF Admissible, Revalidates, ExactInLane
    <2>2. Decision(Revalidated(v), reach) # "blocked"
        BY <1>1, <1>3 DEF Admissible
    <2> QED
        BY <2>1, <2>2 DEF Exact, Ripe, Decision
<1>4. TypeOK'
    <2>1. locked' \in [Version -> {"absent", "active", "removed"}]
        BY <1>1 DEF IInv, TypeOK
    <2>2. decided' \in [Version -> {None, "automatic", "review-required"}]
        BY <1>1, <1>3 DEF IInv, TypeOK
    <2> QED
        BY <1>2, <2>1, <2>2 DEF IInv, TypeOK
<1>5. Locked' \subseteq Published'
    <2>1. Locked' \subseteq Locked \cup manifest
        BY <1>1 DEF Locked
    <2>2. Published' = Published
        BY <1>2 DEF Published
    <2> QED
        BY <1>3, <2>1, <2>2 DEF IInv
<1> QED
    BY <1>2, <1>4, <1>5, OutdatedOK

\* A tombstone stays locked.
LEMMA RemoveOK ==
    ASSUME IInv, NEW v \in Version, Remove(v)
    PROVE  IInv'
<1>1. /\ locked' = [locked EXCEPT ![v] = "removed"] /\ v \in Active
      /\ template' = {} /\ mode' = None
      /\ UNCHANGED <<now, at, yanked, decided>>
    BY DEF Remove, Outdated, upstream
<1>2. TypeOK'
    BY <1>1 DEF IInv, TypeOK
<1>3. Locked' \subseteq Locked /\ Published' = Published
    BY <1>1 DEF Locked, Active, Published, IInv, TypeOK
<1> QED
    BY <1>1, <1>2, <1>3, OutdatedOK DEF IInv

\* What crates.io does changes no publication that was planned on.
LEMMA UpstreamOK ==
    ASSUME IInv,
           Tick \/ \E v \in Version : Publish(v) \/ Yank(v)
    PROVE  IInv'
<1>1. CASE Tick
    <2>1. now' = now + 1 /\ now < MaxTime
          /\ UNCHANGED <<at, yanked, locked, decided, template, mode>>
        BY <1>1 DEF Tick, catalog, plan
    <2>2. TypeOK' /\ now' >= now
        BY <2>1, UpdateAssumption DEF IInv, TypeOK, UpdateAssumption
    <2> QED BY <2>1, <2>2, PlanKept
<1>2. ASSUME NEW v \in Version, Publish(v) PROVE IInv'
    <2>1. at' = [at EXCEPT ![v] = now] /\ v \notin Published
          /\ UNCHANGED <<now, yanked, locked, decided, template, mode>>
        BY <1>2 DEF Publish, catalog, plan
    <2>2. TypeOK' /\ now' >= now
        BY <2>1, UpdateAssumption DEF IInv, TypeOK, UpdateAssumption
    <2>3. \A u \in Published : at'[u] = at[u]
        BY <2>1 DEF IInv, TypeOK, Published
    <2> QED BY <2>1, <2>2, <2>3, PlanKept
<1>3. ASSUME NEW v \in Version, Yank(v) PROVE IInv'
    <2>1. yanked' = (IF v \in yanked THEN yanked \ {v} ELSE yanked \cup {v})
          /\ UNCHANGED <<now, at, locked, decided, template, mode>>
        BY <1>3 DEF Yank, catalog, plan
    <2>2. TypeOK' /\ now' >= now
        BY <2>1, UpdateAssumption DEF IInv, TypeOK, UpdateAssumption
    <2> QED BY <2>1, <2>2, PlanKept
<1> QED
    BY <1>1, <1>2, <1>3

\* The first state satisfies the invariant.
LEMMA Initially ==
    Init => IInv
    BY UpdateAssumption DEF Init, IInv, TypeOK, Locked, Published, UpdateAssumption

\* Every step keeps it.
LEMMA Inductive ==
    IInv /\ [Next]_vars => IInv'
<1> SUFFICES ASSUME IInv, [Next]_vars PROVE IInv'
    OBVIOUS
<1>1. CASE UpdatePlan
    BY <1>1, UpdatePlanOK
<1>2. ASSUME NEW v \in Version, UpdatePlanExact(v) PROVE IInv'
    BY <1>2, UpdatePlanExactOK
<1>3. ASSUME NEW v \in Version, Remove(v) PROVE IInv'
    BY <1>3, RemoveOK
<1>4. ASSUME NEW manifest \in SUBSET Version, UpdateApply(manifest) PROVE IInv'
    BY <1>4, UpdateApplyOK
<1>5. ASSUME Tick \/ \E v \in Version : Publish(v) \/ Yank(v) PROVE IInv'
    BY <1>5, UpstreamOK
<1>6. CASE UNCHANGED vars
    BY <1>6 DEF vars, upstream, catalog, plan, IInv, TypeOK, Locked, Published,
        Planned, Active, ActiveLanes, InLane, Prior
<1> QED
    BY <1>1, <1>2, <1>3, <1>4, <1>5, <1>6 DEF Next

----------------------------------------------------------------------------
(* What the invariant says of templates. *)

\* The times of locked releases are numbers, so bases exist.
LEMMA BaseOf ==
    ASSUME IInv, NEW v, NEW S, S \subseteq Version, Prior(v, S) # {}
    PROVE  /\ Latest(Prior(v, S)) \in Prior(v, S)
           /\ Latest(Prior(v, S)) \in Version
           /\ \A u \in Prior(v, S) : at[u] <= at[Latest(Prior(v, S))]
<1>1. Prior(v, S) \subseteq Version
    BY DEF Prior
<1>2. \A u \in Prior(v, S) : at[u] \in 0 .. MaxTime
    BY DEF Prior, IInv, TypeOK, Published, Locked
<1> QED
    BY <1>1, <1>2, LatestOf

\* A request planned for an active lane is applicable unless overtaken.
LEMMA PlannedInLane ==
    ASSUME IInv, NEW v \in Version, Planned(v), mode = "update-plan",
           v \notin yanked, ~Overtaken(v)
    PROVE  Applicable(v)
<1> DEFINE lane == LaneOf[v]
           base == Latest(Prior(v, InLane(lane)))
<1>1. /\ lane \in ActiveLanes /\ Prior(v, InLane(lane)) # {}
      /\ \A u \in Active \cap InLane(lane) : u < v
      /\ v \in Published /\ now - at[v] >= MinAge
    BY DEF Planned
<1>2. lane # None /\ v \in InLane(lane) /\ InLane(lane) \subseteq Version
    BY <1>1 DEF ActiveLanes, InLane
<1>3. \A u \in InLane(lane) : locked[u] = "removed" => ~(u >= v)
    BY <1>2 DEF Overtaken
<1>4. Version \subseteq Int
    BY UpdateAssumption DEF UpdateAssumption
<1>5. v \notin Locked
    <2>1. v \notin Active
        BY <1>1, <1>2, <1>4
    <2>2. locked[v] # "removed"
        BY <1>2, <1>3, <1>4
    <2> QED BY <2>1, <2>2 DEF Locked, Active, IInv, TypeOK
<1>6. base \in Prior(v, InLane(lane)) /\ base \in Version
    BY <1>1, <1>2, BaseOf
<1>7. /\ base \in Locked /\ base \in InLane(lane) /\ at[base] <= at[v]
      /\ base # None
    BY <1>6, UpdateAssumption DEF Prior, UpdateAssumption
<1>8. base < v
    <2>1. CASE base \in Active
        BY <2>1, <1>1, <1>7
    <2>2. CASE base \notin Active
        <3>1. locked[base] = "removed"
            BY <2>2, <1>6, <1>7 DEF Locked, Active, IInv, TypeOK
        <3>2. ~(base >= v)
            BY <3>1, <1>3, <1>7
        <3>3. base \in Int /\ v \in Int
            BY <1>4, <1>6
        <3> HIDE DEF base
        <3> QED BY <3>2, <3>3
    <2> QED BY <2>1, <2>2
<1>9. Prior(v, Version) # {}
    BY <1>2, <1>6 DEF Prior
<1>10. Routine(v) /\ Locked # {} /\ Active # {}
    BY <1>1, <1>7 DEF Routine, ActiveLanes
<1>11. ExactInLane(v, lane)
    BY <1>1, <1>5, <1>9 DEF ExactInLane, Exact, Ripe
<1>12. Revalidated(v) = [version |-> v, lane |-> lane, base |-> base]
    BY <1>1, <1>10 DEF Revalidated, Selection
<1>13. Valid(Revalidated(v))
    <2> HIDE DEF base, lane
    <2>1. Activity = "active"
        BY <1>10 DEF Activity
    <2>2. LaneOf[base] = lane
        BY <1>7 DEF InLane
    <2>3. base # v
        BY <1>5, <1>7
    <2> QED
        BY <1>7, <1>8, <1>12, <2>1, <2>2, <2>3 DEF Valid
<1> QED
    BY <1>10, <1>11, <1>13 DEF Applicable, Revalidates

\* So is an exact one whose lane is not active.
LEMMA PlannedExactly ==
    ASSUME IInv, NEW v \in Version, Planned(v), mode = "update-plan-exact",
           v \notin yanked, ~Routine(v)
    PROVE  Applicable(v)
<1> DEFINE base == Latest(Prior(v, Version))
<1>1. /\ v \in Published /\ now - at[v] >= MinAge /\ v \notin Locked
      /\ Locked # {} => Prior(v, Version) # {}
    BY DEF Planned
<1>2. Exact(v)
    BY <1>1 DEF Exact, Ripe
<1>3. Revalidated(v) = [version |-> v, lane |-> None,
                        base |-> IF Prior(v, Version) = {} THEN None ELSE base]
    BY DEF Revalidated, Selection
<1>4. Valid(Revalidated(v))
    <2>1. CASE Prior(v, Version) = {}
        <3>1. Activity = "new"
            BY <2>1, <1>1 DEF Activity
        <3> QED BY <2>1, <3>1, <1>3 DEF Valid
    <2>2. CASE Prior(v, Version) # {}
        <3>1. base \in Prior(v, Version) /\ base \in Version
            BY <2>2, BaseOf
        <3>2. base \in Locked /\ at[base] <= at[v] /\ base # None /\ base # v
            BY <3>1, <1>1, UpdateAssumption DEF Prior, UpdateAssumption
        <3>3. Activity # "new"
            BY <3>2 DEF Activity
        <3> QED BY <2>2, <3>2, <3>3, <1>3 DEF Valid
    <2> QED BY <2>1, <2>2
<1> QED
    BY <1>2, <1>4 DEF Applicable, Revalidates

----------------------------------------------------------------------------
(* What is admitted. *)

\* A release becomes active only through a batch of update-apply.
LEMMA OnlyApplyAdmits ==
    ASSUME IInv, [Next]_vars, NEW v \in Version,
           v \notin Active, locked'[v] = "active"
    PROVE  \E manifest \in SUBSET Version : v \in manifest /\ UpdateApply(manifest)
<1>1. ASSUME NEW w \in Version, Remove(w) PROVE FALSE
    BY <1>1 DEF Remove, Active, IInv, TypeOK
<1>2. ASSUME locked' = locked PROVE FALSE
    BY <1>2 DEF Active
<1>3. ASSUME NEW manifest \in SUBSET Version, UpdateApply(manifest)
      PROVE  v \in manifest
    <2>1. locked'[v] = IF v \in manifest THEN "active" ELSE locked[v]
        BY <1>3 DEF UpdateApply
    <2> QED BY <2>1 DEF Active
<1>4. CASE UpdatePlan \/ \E w \in Version : UpdatePlanExact(w)
    BY <1>2, <1>4 DEF UpdatePlan, UpdatePlanExact, Writes, catalog
<1>5. CASE Tick \/ \E w \in Version : Publish(w) \/ Yank(w)
    BY <1>2, <1>5 DEF Tick, Publish, Yank, catalog
<1>6. CASE UNCHANGED vars
    BY <1>2, <1>6 DEF vars, catalog
<1> QED
    BY <1>1, <1>3, <1>4, <1>5, <1>6 DEF Next

\* Once the name has been silent for the gap after the newest release locked
\* before v, there is a dormant gap in the history since whatever base v is
\* reviewed against: at the first release after the silence.
LEMMA SilenceIsDormant ==
    ASSUME IInv, NEW v \in Version, v \in Published,
           NEW b, b \in Published,
           NEW s \in at[b] .. (at[v] - DormantGap),
           \A u \in Published : at[u] \notin (s + 1) .. (s + DormantGap - 1),
           NEW c, c.version = v, c.base # None, c.base \in Published,
           at[c.base] <= at[b]
    PROVE  Dormant(c)
<1> DEFINE Times == {at[u] : u \in Published} \cap (at[c.base] .. at[c.version])
           later == {t \in Times : t >= s + DormantGap}
<1>1. /\ at[b] \in Nat /\ at[v] \in Nat /\ at[c.base] \in Nat
      /\ DormantGap \in Nat \ {0} /\ s \in Nat
      /\ at[b] <= s /\ s + DormantGap <= at[v]
    <2>1. \A u \in Published : at[u] \in Nat
        BY UpdateAssumption DEF UpdateAssumption, IInv, TypeOK, Published
    <2>2. at[b] \in Nat /\ at[v] \in Nat /\ at[c.base] \in Nat
        BY <2>1
    <2>3. DormantGap \in Nat \ {0}
        BY UpdateAssumption DEF UpdateAssumption
    <2> QED
        BY <2>2, <2>3
<1>2. at[v] \in later
    BY <1>1
<1>3. \A t \in Times : t \in Nat
    BY UpdateAssumption DEF UpdateAssumption, IInv, TypeOK, Published
<1>4. later \subseteq Nat /\ later # {}
    BY <1>2, <1>3
<1>5. PICK t \in later : \A r \in later : t <= r
    <2> HIDE DEF later
    <2> QED BY <1>4, Least
<1>6. t # at[c.base]
    BY <1>1, <1>3, <1>5
<1>7. ASSUME NEW r \in Times, r < t PROVE t - r >= DormantGap
    <2>1. r \in Nat /\ t \in Nat /\ t >= s + DormantGap
        BY <1>3, <1>5
    <2>2. ~(r >= s + DormantGap)
        BY <1>1, <1>5, <1>7, <2>1
    <2>3. r \notin (s + 1) .. (s + DormantGap - 1)
        OBVIOUS
    <2>4. r <= s
        BY <1>1, <2>1, <2>2, <2>3
    <2> QED BY <1>1, <2>1, <2>4
<1> QED
    BY <1>5, <1>6, <1>7 DEF Dormant

\* So the release is not admitted as automatic.
LEMMA WakeupDecision ==
    ASSUME IInv, NEW v \in Version, NEW reach \in BOOLEAN,
           Admissible(v, reach), Prior(v, Version) # {},
           NEW s \in at[Latest(Prior(v, Version))] .. (at[v] - DormantGap),
           \A u \in Published : at[u] \notin (s + 1) .. (s + DormantGap - 1)
    PROVE  Decision(Revalidated(v), reach) = "review-required"
<1> DEFINE c == Revalidated(v)
           b == Latest(Prior(v, Version))
<1>1. Exact(v) /\ v \in Published
    BY DEF Admissible, Revalidates, ExactInLane, Exact, Ripe
<1>2. b \in Prior(v, Version) /\ \A u \in Prior(v, Version) : at[u] <= at[b]
    BY BaseOf
<1>3. b \in Published
    BY <1>2 DEF Prior, IInv
<1>4. /\ c.version = v /\ c.base # None /\ c.base \in Published
      /\ at[c.base] <= at[b]
    <2>1. CASE Routine(v)
        <3> DEFINE S == InLane(LaneOf[v])
        <3>1. Prior(v, S) # {}
            BY <2>1 DEF Admissible, Revalidates, ExactInLane
        <3>2. S \subseteq Version
            BY DEF InLane
        <3>3. c = [version |-> v, lane |-> LaneOf[v], base |-> Latest(Prior(v, S))]
            BY <2>1, <3>1 DEF Revalidated, Selection
        <3>4. /\ Latest(Prior(v, S)) \in Prior(v, S)
              /\ Latest(Prior(v, S)) \in Version
            BY <3>1, <3>2, BaseOf
        <3>5. Prior(v, S) \subseteq Prior(v, Version)
            BY <3>2 DEF Prior
        <3>6. Latest(Prior(v, S)) \in Published /\ Latest(Prior(v, S)) # None
            BY <3>4, UpdateAssumption DEF Prior, IInv, UpdateAssumption
        <3> QED
            BY <1>2, <3>3, <3>4, <3>5, <3>6
    <2>2. CASE ~Routine(v)
        <3>1. c = [version |-> v, lane |-> None, base |-> b]
            BY <2>2 DEF Revalidated, Selection
        <3>2. b \in Version /\ b # None /\ at[b] <= at[b]
            BY <1>2, BaseOf, UpdateAssumption DEF UpdateAssumption
        <3> QED
            BY <1>3, <3>1, <3>2
    <2> QED BY <2>1, <2>2
<1>5. Dormant(c)
    <2> HIDE DEF c
    <2> QED BY <1>1, <1>3, <1>4, SilenceIsDormant
<1>6. "dormant-wakeup" \in Reasons(c, reach)
    BY <1>5 DEF Reasons, Promotions
<1>7. Decision(c, reach) # "blocked"
    BY DEF Admissible
<1> QED
    <2> HIDE DEF c
    <2>1. Decision(c, reach) = "review-required"
        BY <1>6, <1>7 DEF Decision
    <2> QED BY <2>1 DEF c

----------------------------------------------------------------------------
(* Theorems. *)

\* The invariant holds in every reachable state.
THEOREM Invariant == Spec => []IInv
    BY Initially, Inductive, PTL DEF Spec

\* Every reachable state is well typed.
THEOREM TypeCorrect == Spec => []TypeOK
<1>1. IInv => TypeOK
    BY DEF IInv
<1> QED
    BY <1>1, Invariant, PTL

\* What update-plan and update-plan-exact wrote, update-apply takes, whenever
\* it comes and whatever was published since, save for the named exceptions.
THEOREM TemplateStays == Spec => []TemplateStaysApplicable
<1>1. IInv => TemplateStaysApplicable
    <2> SUFFICES ASSUME IInv, Current, NEW v \in template, ~Overtaken(v),
                        ~(mode = "update-plan-exact" /\ Routine(v))
                 PROVE  Applicable(v)
        BY DEF TemplateStaysApplicable
    <2>1. v \in Version /\ Planned(v) /\ v \notin yanked
        BY DEF IInv, TypeOK, Current
    <2>2. CASE mode = "update-plan"
        BY <2>1, <2>2, PlannedInLane
    <2>3. CASE mode = "update-plan-exact"
        BY <2>1, <2>3, PlannedExactly
    <2> QED
        BY <2>1, <2>2, <2>3 DEF Planned
<1> QED
    BY <1>1, Invariant, PTL

\* No admission adds a version below the active maximum of its lane, whatever
\* plan or hand wrote the request.
THEOREM LaneAdvances == Spec => ActiveLaneAdvances
<1> DEFINE Advances ==
        \A v \in Version :
          v \notin Active /\ locked'[v] = "active" /\ Routine(v) =>
              \A u \in Active \cap InLane(LaneOf[v]) : u < v
<1>1. IInv /\ [Next]_vars => Advances
    <2> SUFFICES ASSUME IInv, [Next]_vars, NEW v \in Version,
                        v \notin Active, locked'[v] = "active", Routine(v)
                 PROVE  \A u \in Active \cap InLane(LaneOf[v]) : u < v
        OBVIOUS
    <2>1. PICK manifest \in SUBSET Version :
              v \in manifest /\ UpdateApply(manifest)
        BY OnlyApplyAdmits
    <2>2. \E reach \in BOOLEAN : Admissible(v, reach)
        BY <2>1 DEF UpdateApply
    <2> QED
        BY <2>2 DEF Admissible, Revalidates, ExactInLane
<1>2. IInv /\ [Next]_vars => [Advances]_vars
    BY <1>1
<1> QED
    BY <1>2, Invariant, PTL DEF Spec, ActiveLaneAdvances

\* A release that ends a silence of the gap, or follows one, is admitted only
\* after review.
THEOREM Wakeup == Spec => WakeupIsReviewed
<1> DEFINE Reviewed ==
        \A v \in Version :
          /\ locked'[v] = "active" /\ v \notin Locked
          /\ Prior(v, Version) # {}
          /\ \E s \in at[Latest(Prior(v, Version))] .. (at[v] - DormantGap) :
                \A u \in Published : at[u] \notin (s + 1) .. (s + DormantGap - 1)
          => decided'[v] = "review-required"
<1>1. IInv /\ [Next]_vars => Reviewed
    <2> SUFFICES ASSUME IInv, [Next]_vars, NEW v \in Version,
                        locked'[v] = "active", v \notin Locked,
                        Prior(v, Version) # {},
                        NEW s \in at[Latest(Prior(v, Version))]
                                     .. (at[v] - DormantGap),
                        \A u \in Published :
                            at[u] \notin (s + 1) .. (s + DormantGap - 1)
                 PROVE  decided'[v] = "review-required"
        OBVIOUS
    <2>1. PICK manifest \in SUBSET Version :
              v \in manifest /\ UpdateApply(manifest)
        BY OnlyApplyAdmits DEF Active, Locked
    <2>2. PICK reach \in BOOLEAN :
              /\ Admissible(v, reach)
              /\ decided'[v] = Decision(Revalidated(v), reach)
        BY <2>1 DEF UpdateApply
    <2> QED
        BY <2>2, WakeupDecision
<1>2. IInv /\ [Next]_vars => [Reviewed]_vars
    BY <1>1
<1> QED
    BY <1>2, Invariant, PTL DEF Spec, WakeupIsReviewed

===========================================================================
