------------------------------ MODULE Serving ------------------------------
(***************************************************************************)
(* The two serving processes: startup, the two listeners, public requests   *)
(* that read the installed snapshot and share a bounded number of permits,  *)
(* snapshots that the watcher installs meanwhile, and the stop signal.      *)
(*                                                                          *)
(* Rust's dispatch reads the snapshot and then waits for a permit, and is   *)
(* dropped when its client goes; JavaScript's dispatchPublic reads it when  *)
(* it has the permit, and goes on without its client.  A snapshot is its    *)
(* number in the order of installation, 0 none at all.                      *)
(***************************************************************************)
EXTENDS Naturals, Sequences

CONSTANTS
    Request,        \* clients, each with one request at a time
    Permits,        \* max-concurrency
    MaxInstalls,    \* bound: snapshots installed
    MaxStartFaults  \* bound: startup steps that fail

ASSUME ServingAssumption ==
    /\ Permits \in Nat \ {0} /\ MaxInstalls \in Nat \ {0}
    /\ MaxStartFaults \in Nat

VARIABLES
    service,        \* which of the two processes this is
    process,        \* where its serve() is
    listening,      \* public requests reach the application
    handled,        \* the stop signal has a handler
    snapshot,       \* Shared's snapshot
    phase,          \* where each request is
    seen,           \* the snapshot a Rust request read
    inUse, queue,   \* the semaphore: permits taken, requests waiting
    begun,          \* the snapshot installed when the request arrived
    answer,         \* the snapshot its client's last request was answered
                    \* from, {0} for a 503; {} when none decided it, or yet
    faults

server == <<service, process, listening, handled>>
semaphore == <<inUse, queue>>
vars == <<server, snapshot, phase, seen, semaphore, begun, answer, faults>>

Process == {"starting", "public", "bound", "serving", "failed", "stopping",
            "exited", "killed"}

Gone == process \in {"exited", "killed"}

Phase == {"idle", "arrived", "read", "waiting", "granted"}

Init ==
    /\ service \in {"rust", "js"}
    /\ process = "starting" /\ listening = FALSE
    /\ handled = FALSE /\ snapshot = 0
    /\ phase = [r \in Request |-> "idle"]
    /\ seen = [r \in Request |-> 0]
    /\ inUse = 0 /\ queue = <<>>
    /\ begun = [r \in Request |-> 0]
    /\ answer = [r \in Request |-> {}]
    /\ faults = 0

Busy(r) == phase[r] # "idle"

\* what a request knew ends with it
Forget(r) ==
    /\ seen' = [seen EXCEPT ![r] = 0]
    /\ begun' = [begun EXCEPT ![r] = 0]

----------------------------------------------------------------------------
(* serve() *)

\* watcher.startup publishes the first snapshot
Startup ==
    /\ process = "starting" /\ snapshot = 0
    /\ snapshot' = 1
    /\ UNCHANGED <<server, phase, seen, semaphore, begun, answer, faults>>

\* JavaScript's public listener answers at once, Rust's when both are bound
BindPublic ==
    /\ process = "starting" /\ snapshot # 0
    /\ process' = "public" /\ listening' = (service = "js")
    /\ UNCHANGED <<service, handled, snapshot, phase, seen, semaphore, begun,
                   answer, faults>>

BindAdmin ==
    /\ process = "public"
    /\ process' = "bound" /\ listening' = TRUE
    /\ UNCHANGED <<service, handled, snapshot, phase, seen, semaphore, begun,
                   answer, faults>>

\* stopSignal() and the three shutdown_signal(), after the listeners
HandleSignal ==
    /\ process = "bound"
    /\ process' = "serving" /\ handled' = TRUE
    /\ UNCHANGED <<service, listening, snapshot, phase, seen, semaphore, begun,
                   answer, faults>>

\* Rust's run() returns the error; JavaScript sets an exit code, but after
\* startup its poll timer and the listeners it has keep it alive
StartFails ==
    /\ process \in {"starting", "public"} /\ faults < MaxStartFaults
    /\ faults' = faults + 1
    /\ process' = IF service = "js" /\ snapshot # 0 THEN "failed" ELSE "exited"
    /\ UNCHANGED <<service, listening, handled, snapshot, phase, seen,
                   semaphore, begun, answer>>

\* install_snapshot; Rust polls when it serves, and its select drops a poll at
\* the signal; JavaScript's timer runs from startup on, and a poll outlives it
Install ==
    /\ snapshot \in 1 .. MaxInstalls - 1
    /\ IF service = "rust" THEN process \in {"bound", "serving"} ELSE ~Gone
    /\ snapshot' = snapshot + 1
    /\ UNCHANGED <<server, phase, seen, semaphore, begun, answer, faults>>

\* the signal is handled; process.once() does that one time, tokio for good
Stop ==
    /\ process = "serving" /\ handled
    /\ process' = "stopping" /\ listening' = FALSE
    /\ handled' = (service = "rust")
    /\ UNCHANGED <<service, snapshot, phase, seen, semaphore, begun, answer, faults>>

\* mutant: the process does not wait for the requests under way
ExitsAtOnce == process = "stopping"

\* both graceful shutdowns wait for the requests under way
Drained == process = "stopping" /\ \A r \in Request : ~Busy(r)

Exit ==
    /\ Drained
    /\ process' = "exited"
    /\ UNCHANGED <<service, listening, handled, snapshot, phase, seen,
                   semaphore, begun, answer, faults>>

\* A signal without a handler, at startup or again while JavaScript drains,
\* ends the process and the requests it has.
Killed ==
    /\ ~handled /\ ~Gone
    /\ process' = "killed" /\ listening' = FALSE
    /\ phase' = [r \in Request |-> "idle"]
    /\ inUse' = 0 /\ queue' = <<>>
    /\ seen' = [r \in Request |-> 0] /\ begun' = [r \in Request |-> 0]
    /\ UNCHANGED <<service, handled, snapshot, answer, faults>>

----------------------------------------------------------------------------
(* The semaphore: a released permit goes to the first that waits. *)

\* mutant: the waiting requests are forgotten
ReleaseForgets(ph) ==
    inUse' = inUse - 1 /\ queue' = queue /\ phase' = ph

Acquire(r) ==
    IF inUse < Permits
    THEN /\ inUse' = inUse + 1 /\ queue' = queue
         /\ phase' = [phase EXCEPT ![r] = "granted"]
    ELSE /\ inUse' = inUse /\ queue' = Append(queue, r)
         /\ phase' = [phase EXCEPT ![r] = "waiting"]

\* ph is phase, the releasing request's already changed
Release(ph) ==
    IF queue = <<>> THEN inUse' = inUse - 1 /\ queue' = queue /\ phase' = ph
    ELSE /\ inUse' = inUse /\ queue' = Tail(queue)
         /\ phase' = [ph EXCEPT ![Head(queue)] = "granted"]

\* the queue when the i-th of it gives up
Without(q, i) == SubSeq(q, 1, i - 1) \o SubSeq(q, i + 1, Len(q))

----------------------------------------------------------------------------
(* A public request. *)

Arrive(r) ==
    /\ listening /\ phase[r] = "idle"
    /\ phase' = [phase EXCEPT ![r] = "arrived"]
    /\ begun' = [begun EXCEPT ![r] = snapshot]
    /\ answer' = [answer EXCEPT ![r] = {}]
    /\ UNCHANGED <<server, snapshot, seen, semaphore, faults>>

\* mutant: the snapshot is set once
FirstInstalled == IF snapshot = 0 THEN 0 ELSE 1

\* Shared's snapshot, as a request gets it
Current == snapshot

\* 404 for the target, without a look at the snapshot; 503, or the index page,
\* which takes no permit
AnswerAtOnce(r) ==
    /\ phase[r] = "arrived"
    /\ phase' = [phase EXCEPT ![r] = "idle"]
    /\ \E from \in {{}, {Current}} : answer' = [answer EXCEPT ![r] = from]
    /\ Forget(r)
    /\ UNCHANGED <<server, snapshot, semaphore, faults>>

\* dispatch: the snapshot, which another thread may replace before the permit
Read(r) ==
    /\ service = "rust" /\ phase[r] = "arrived" /\ snapshot # 0
    /\ seen' = [seen EXCEPT ![r] = Current]
    /\ phase' = [phase EXCEPT ![r] = "read"]
    /\ UNCHANGED <<server, snapshot, semaphore, begun, answer, faults>>

AcquireAfterRead(r) ==
    /\ phase[r] = "read"
    /\ Acquire(r)
    /\ UNCHANGED <<server, snapshot, seen, begun, answer, faults>>

\* dispatchPublic up to its await
AcquireWhenReady(r) ==
    /\ service = "js" /\ phase[r] = "arrived" /\ snapshot # 0
    /\ Acquire(r)
    /\ UNCHANGED <<server, snapshot, seen, begun, answer, faults>>

\* evaluate_request and the release
Evaluate(r) ==
    /\ phase[r] = "granted"
    /\ answer' = [answer EXCEPT
                    ![r] = {IF service = "rust" THEN seen[r] ELSE Current}]
    /\ Release([phase EXCEPT ![r] = "idle"])
    /\ Forget(r)
    /\ UNCHANGED <<server, snapshot, faults>>

\* the client goes, and Rust drops the request's future wherever it waits
Disconnect(r) ==
    /\ service = "rust" /\ Busy(r)
    /\ LET ph == [phase EXCEPT ![r] = "idle"] IN
       IF phase[r] = "granted" THEN Release(ph)
       ELSE /\ phase' = ph /\ inUse' = inUse
            /\ IF phase[r] = "waiting"
               THEN \E i \in 1 .. Len(queue) :
                        queue[i] = r /\ queue' = Without(queue, i)
               ELSE queue' = queue
    /\ Forget(r)
    /\ UNCHANGED <<server, snapshot, answer, faults>>

Progress(r) ==
    AnswerAtOnce(r) \/ Read(r) \/ AcquireAfterRead(r) \/ AcquireWhenReady(r) \/ Evaluate(r)

Next ==
    \/ Startup \/ BindPublic \/ BindAdmin \/ HandleSignal \/ StartFails
    \/ Install \/ Stop \/ Exit \/ Killed
    \/ \E r \in Request : Arrive(r) \/ Progress(r) \/ Disconnect(r)

Spec == Init /\ [][Next]_vars

\* both runtimes run every task that is ready, and evaluating is finite
FairSpec == Spec /\ WF_vars(Exit) /\ \A r \in Request : WF_vars(Progress(r))

----------------------------------------------------------------------------
(* Properties. *)

\* The type invariant.
TypeOK ==
    /\ service \in {"rust", "js"} /\ process \in Process
    /\ {listening, handled} \subseteq BOOLEAN /\ snapshot \in 0 .. MaxInstalls
    /\ phase \in [Request -> Phase]
    /\ seen \in [Request -> 0 .. MaxInstalls]
    /\ inUse \in 0 .. Permits /\ queue \in Seq(Request)
    /\ begun \in [Request -> 0 .. MaxInstalls]
    /\ answer \in [Request -> SUBSET (0 .. MaxInstalls)]
    /\ faults \in 0 .. MaxStartFaults

\* However requests end, answered or dropped by their clients, the permits
\* taken are those of the requests that hold one, and none is free while a
\* request waits.
PermitsAreHeld ==
    /\ \E held \in [1 .. inUse -> Request] :
          /\ \A i, j \in 1 .. inUse : held[i] = held[j] => i = j
          /\ {held[i] : i \in 1 .. inUse} = {r \in Request : phase[r] = "granted"}
    /\ \A r \in Request :
          phase[r] = "waiting" <=> \E i \in 1 .. Len(queue) : queue[i] = r
    /\ queue # <<>> => inUse = Permits

\* An answer comes from a snapshot that was installed while its request was
\* under way, although Rust may wait for a permit long after reading it: from
\* none before it, none that was never there, and never from no snapshot.
AnswerWasInstalled ==
    [][ \A r \in Request :
          Busy(r) /\ phase'[r] = "idle" /\ answer'[r] # {} =>
              \E s \in begun[r] .. snapshot : s # 0 /\ answer'[r] = {s} ]_vars

\* Every request is answered or given up by its client, even one that waits
\* for a permit when the signal comes.  Only a signal that finds no handler
\* loses requests: in either service one that comes before the handler is
\* there, and in JavaScript also one that comes while the service drains.
RequestsEnd ==
    \A r \in Request :
        /\ Busy(r) ~> (~Busy(r) /\ ~Gone) \/ process = "killed"
        /\ Busy(r) /\ handled
              ~> (~Busy(r) /\ ~Gone) \/ (process = "killed" /\ service = "js")

============================================================================
