------------------------- MODULE AcceptedRefPolicy -------------------------
(***************************************************************************)
(* The pure transition policy that the Rust and the JavaScript watcher each *)
(* implement: what a restart may start from, and what one observed          *)
(* candidate does to the accepted ref.  Names (commits, refs, identities)   *)
(* are uninterpreted; a name is well formed when it is in WellFormed.       *)
(***************************************************************************)

CONSTANTS
    WellFormed,             \* names that pass their syntactic check
    RepositoryIdentity,     \* the configured binding
    FullRef,
    NoCommit                \* the null commit of an outcome

ASSUME PolicyAssumption == {RepositoryIdentity, FullRef} \subseteq WellFormed

RecordState == {"absent", "malformed", "present"}
ObjectState == {"corrupt", "malformed", "missing", "not-applicable", "valid"}
Ancestry == {"descendant", "divergent", "equal", "not-evaluated",
             "predecessor", "unknown"}
Persistence == {"interrupted-before-rename", "not-attempted", "success"}
SemanticValidity == {"invalid", "not-evaluated", "valid"}

AcceptedRef(commit) ==
    [commit |-> commit, fullRef |-> FullRef, identity |-> RepositoryIdentity]

ValidRecord(record) ==
    {record.commit, record.fullRef, record.identity} \subseteq WellFormed

Bound(record) ==
    /\ ValidRecord(record)
    /\ record.identity = RepositoryIdentity
    /\ record.fullRef = FullRef

Outcome(decision, reason, accepted, active) ==
    [decision |-> decision, reason |-> reason,
     accepted |-> accepted, active |-> active]

\* anyhow::bail! in Rust, throw in JavaScript
Inconsistent == Outcome("error", "inconsistent-input", NoCommit, NoCommit)

FailStartup(reason, accepted) ==
    Outcome("fail-startup", reason, accepted, NoCommit)

Retain(reason, accepted) ==
    Outcome("retain-accepted", reason, accepted, accepted)

----------------------------------------------------------------------------
(* Rust: startup.  The input carries the record's state, the record when    *)
(* one parsed, the configured bootstrap commit and the two object probes.   *)

EvaluateStartup(in) ==
    LET commit == in.record.commit IN
    IF in.state = "malformed"
      THEN FailStartup("accepted-record-malformed", NoCommit)
    ELSE IF in.state = "absent"
      THEN IF in.bootstrapObject = "valid" /\ in.bootstrap \in WellFormed
             THEN Outcome("bootstrap", "accepted-record-absent",
                          in.bootstrap, in.bootstrap)
           ELSE IF in.bootstrapObject = "missing"
             THEN FailStartup("bootstrap-object-unavailable", NoCommit)
           ELSE IF in.bootstrapObject \in {"corrupt", "malformed", "valid"}
             THEN FailStartup("bootstrap-object-invalid", NoCommit)
           ELSE Inconsistent
    ELSE IF ~ValidRecord(in.record)
      THEN FailStartup("accepted-record-malformed", NoCommit)
    ELSE IF in.record.identity # RepositoryIdentity
      THEN FailStartup("repository-identity-mismatch", NoCommit)
    ELSE IF in.record.fullRef # FullRef
      THEN FailStartup("full-ref-mismatch", NoCommit)
    ELSE IF in.localObject = "valid"
      THEN Outcome("start-accepted", "accepted-record-authority",
                   commit, commit)
    ELSE IF in.localObject = "missing"
      THEN FailStartup("accepted-object-unavailable", commit)
    ELSE IF in.localObject \in {"corrupt", "malformed"}
      THEN FailStartup("accepted-object-invalid", commit)
    ELSE Inconsistent

(* Rust: reload of one candidate against the accepted record.  A candidate  *)
(* with observed = FALSE is the absent one (None).                          *)

EvaluateReload(record, c) ==
    LET accepted == record.commit IN
    IF ~Bound(record) THEN Inconsistent
    ELSE IF ~c.observed THEN Retain("remote-unavailable", accepted)
    ELSE IF c.identity # RepositoryIdentity
      THEN Retain("repository-identity-mismatch", accepted)
    ELSE IF c.fullRef # FullRef THEN Retain("full-ref-mismatch", accepted)
    ELSE IF c.commit \notin WellFormed \/ c.object = "malformed"
      THEN Retain("candidate-commit-malformed", accepted)
    ELSE IF c.suppressed THEN Retain("rejected-hash-suppressed", accepted)
    ELSE IF c.object # "valid"
      THEN Retain("candidate-object-unavailable", accepted)
    ELSE IF c.commit = accepted
      THEN Outcome("unchanged", "candidate-equals-accepted",
                   accepted, accepted)
    ELSE IF c.ancestry \in {"predecessor", "divergent"}
      THEN Retain("candidate-not-descendant", accepted)
    ELSE IF c.ancestry = "unknown"
      THEN Retain("candidate-ancestry-unknown", accepted)
    ELSE IF c.ancestry \in {"equal", "not-evaluated"} THEN Inconsistent
    ELSE IF c.semantic = "invalid"
      THEN Retain("semantic-validation-failed", accepted)
    ELSE IF c.semantic = "not-evaluated" THEN Inconsistent
    ELSE IF c.persistence = "interrupted-before-rename"
      THEN Retain("durable-persistence-failed", accepted)
    ELSE IF c.persistence = "success"
      THEN Outcome("accept-forward", "valid-forward-candidate",
                   c.commit, c.commit)
    ELSE Inconsistent

----------------------------------------------------------------------------
(* JavaScript: the same policy, written the other way round in places       *)
(* (a rejection is whatever is not the one good value).                     *)

JsEvaluateStartup(in) ==
    LET commit == in.record.commit IN
    IF in.state = "malformed"
      THEN FailStartup("accepted-record-malformed", NoCommit)
    ELSE IF in.state = "absent"
      THEN IF in.bootstrapObject = "valid" /\ in.bootstrap \in WellFormed
             THEN Outcome("bootstrap", "accepted-record-absent",
                          in.bootstrap, in.bootstrap)
           ELSE FailStartup(IF in.bootstrapObject = "missing"
                              THEN "bootstrap-object-unavailable"
                              ELSE "bootstrap-object-invalid", NoCommit)
    ELSE IF ~ValidRecord(in.record)
      THEN FailStartup("accepted-record-malformed", NoCommit)
    ELSE IF in.record.identity # RepositoryIdentity
      THEN FailStartup("repository-identity-mismatch", NoCommit)
    ELSE IF in.record.fullRef # FullRef
      THEN FailStartup("full-ref-mismatch", NoCommit)
    ELSE IF in.localObject # "valid"
      THEN FailStartup(IF in.localObject = "missing"
                         THEN "accepted-object-unavailable"
                         ELSE "accepted-object-invalid", commit)
    ELSE Outcome("start-accepted", "accepted-record-authority",
                 commit, commit)

\* mutant: an ancestry that could not be determined passes
JsEvaluateReloadLax(record, c) ==
    EvaluateReload(record, [c EXCEPT !.ancestry =
                               IF @ = "unknown" THEN "descendant" ELSE @])

JsEvaluateReload(record, c) ==
    LET accepted == record.commit IN
    IF ~Bound(record) THEN Inconsistent
    ELSE IF ~c.observed THEN Retain("remote-unavailable", accepted)
    ELSE IF c.identity # RepositoryIdentity
      THEN Retain("repository-identity-mismatch", accepted)
    ELSE IF c.fullRef # FullRef THEN Retain("full-ref-mismatch", accepted)
    ELSE IF c.commit \notin WellFormed \/ c.object = "malformed"
      THEN Retain("candidate-commit-malformed", accepted)
    ELSE IF c.suppressed THEN Retain("rejected-hash-suppressed", accepted)
    ELSE IF c.object # "valid"
      THEN Retain("candidate-object-unavailable", accepted)
    ELSE IF c.commit = accepted
      THEN Outcome("unchanged", "candidate-equals-accepted",
                   accepted, accepted)
    ELSE IF c.ancestry \in {"predecessor", "divergent"}
      THEN Retain("candidate-not-descendant", accepted)
    ELSE IF c.ancestry = "unknown"
      THEN Retain("candidate-ancestry-unknown", accepted)
    ELSE IF c.ancestry # "descendant" THEN Inconsistent
    ELSE IF c.semantic = "invalid"
      THEN Retain("semantic-validation-failed", accepted)
    ELSE IF c.semantic # "valid" THEN Inconsistent
    ELSE IF c.persistence = "interrupted-before-rename"
      THEN Retain("durable-persistence-failed", accepted)
    ELSE IF c.persistence # "success" THEN Inconsistent
    ELSE Outcome("accept-forward", "valid-forward-candidate",
                 c.commit, c.commit)

============================================================================
