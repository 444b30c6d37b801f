-------------------------------- MODULE Rules --------------------------------
(***************************************************************************)
(* The decisions that are taken on their input alone.  A behaviour is one    *)
(* call: the two policy functions evaluate one startup or one reload; a      *)
(* timestamp is read; the evidence for one selected update is collected; or  *)
(* a site goes up the release ladder, as far as it is let.                   *)
(***************************************************************************)
EXTENDS AcceptedRefPolicy, ReleaseLadder, Calendar, UpdateEvidence

CONSTANTS
    StartupInputs,  \* of [state, record, bootstrap, bootstrapObject, localObject]
    ReloadInputs,   \* of [record, candidate]
    Moments,        \* of [civil, offset]
    Selections      \* of what UpdateEvidence's BuildCandidate takes

\* the probes have their enumerated outcomes
Startup(in) ==
    /\ in.bootstrapObject \in ObjectState
    /\ in.localObject \in ObjectState

Reload(in) ==
    /\ in.candidate.ancestry \in Ancestry
    /\ in.candidate.semantic \in SemanticValidity
    /\ in.candidate.persistence \in Persistence

\* digits, and what lies behind a sign
Moment(in) ==
    /\ in.civil = Civil(in.civil.year, in.civil.month, in.civil.day,
                        in.civil.hour, in.civil.minute, in.civil.second)
    /\ {in.civil.year, in.civil.month, in.civil.day,
        in.civil.hour, in.civil.minute, in.civil.second} \subseteq Nat
    /\ in.offset \in Int

\* classify_package and the three ways of selecting: a package with locked
\* releases has a base, and what no lane selects was asked for
Selection(s) ==
    /\ s.activity \in {"new", "inactive", "active"}
    /\ s.explicit \in BOOLEAN /\ s.dormant \in BOOLEAN
    /\ s.activity = "new" <=> s.base = Nothing
    /\ ~s.explicit => s.activity = "active"
    /\ \A release \in {s.candidate} \cup ({s.base} \ {Nothing}) :
           \A e \in Entries(release.archive) :
               e.path \in Seq(STRING) /\ e.mode \in Nat
    /\ s.response # Nothing =>
           \A i \in DOMAIN s.response.versions :
               LET t == s.response.versions[i].trusted IN t # Nothing => t.suffixed \in BOOLEAN
    /\ \A h \in Homes : h.permitted \in BOOLEAN

ASSUME InputAssumption ==
    /\ \A in \in StartupInputs : Startup(in)
    /\ \A in \in ReloadInputs : Reload(in)
    /\ \A in \in Moments : Moment(in)
    /\ \A s \in Selections : Selection(s)

VARIABLES
    call,       \* "startup", "reload", "release", "time" or "evidence"
    input,      \* the argument of the call
    done,       \* whether the call has returned
    rust, js    \* the two outcomes

vars == <<call, input, done, rust, js, ladder>>

NoCall == [none |-> TRUE]

----------------------------------------------------------------------------

Init ==
    /\ done = FALSE /\ rust = Inconsistent /\ js = Inconsistent
    /\ \/ /\ \/ call = "startup" /\ input \in StartupInputs
             \/ call = "reload" /\ input \in ReloadInputs
             \/ call = "time" /\ input \in Moments
             \/ call = "evidence" /\ input \in Selections
          /\ released = NoSite /\ known = {}
       \/ call = "release" /\ input = NoCall /\ LadderInit

Evaluate ==
    /\ call \in {"startup", "reload"}
    /\ ~done /\ done' = TRUE
    /\ rust' = IF call = "startup" THEN EvaluateStartup(input)
               ELSE EvaluateReload(input.record, input.candidate)
    /\ js' = IF call = "startup" THEN JsEvaluateStartup(input)
             ELSE JsEvaluateReload(input.record, input.candidate)
    /\ UNCHANGED <<call, input, ladder>>

Deploy ==
    /\ call = "release"
    /\ ReleaseSite
    /\ UNCHANGED <<call, input, done, rust, js>>

Next == Evaluate \/ Deploy

Spec == Init /\ [][Next]_vars

----------------------------------------------------------------------------

\* The two implementations decide every input alike; where Rust refuses the
\* input as inconsistent, JavaScript refuses it too or fails the startup.
ImplementationsAgree ==
    done => \/ js = rust
            \/ /\ rust = Inconsistent /\ call = "startup"
               /\ js.decision = "fail-startup"

\* UtcTimestamp::parse takes the real times and no other, and both copies of the
\* arithmetic count them as the calendar does, see CountsTheCalendar.  What the
\* copy in migrate.rs makes of a day that its month does not have is left open.
TimesAreReal == call = "time" => CountsTheCalendar(input.civil, input.offset)

\* Every plan that can be made can be read, see PlanReads.
PlansValidate == call = "evidence" => PlanReads(input)

\* Every source that is called public is, see SourceIs.
SourceIsPublic == call = "evidence" => SourceIs(input)

\* Every automatic decision is one, see QuietlyAutomatic.
AutomaticIsQuiet == call = "evidence" => QuietlyAutomatic(input)

=============================================================================
