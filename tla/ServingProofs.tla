---------------------------- MODULE ServingProofs ----------------------------
(***************************************************************************)
(* For any number of requests, permits and installations: the semaphore      *)
(* neither loses nor invents a permit, and an answer is from a snapshot that *)
(* was installed while its request was under way.                           *)
(*                                                                          *)
(* The permits need more than their number: that a released permit finds    *)
(* its heir needs that each waiting request is in the queue, once.  The      *)
(* answers need that what a Rust request has read is no older than what was  *)
(* installed when it arrived, and that nothing listens before the first.     *)
(***************************************************************************)
EXTENDS Serving, FiniteSetTheorems, SequenceTheorems, TLAPS

Granted == {r \in Request : phase[r] = "granted"}

Semaphore ==
    /\ IsFiniteSet(Granted) /\ Cardinality(Granted) = inUse
    /\ \A i, j \in 1 .. Len(queue) : queue[i] = queue[j] => i = j
    /\ \A r \in Request :
          phase[r] = "waiting" <=> \E i \in 1 .. Len(queue) : queue[i] = r
    /\ queue # <<>> => inUse = Permits

Snapshots ==
    /\ process \in {"public", "bound"} \/ listening => snapshot # 0
    /\ \A r \in Request :
          /\ begun[r] <= snapshot /\ seen[r] <= snapshot
          /\ phase[r] # "idle" => answer[r] = {}
          /\ phase[r] # "idle" => snapshot # 0
          /\ service = "rust" /\ phase[r] \in {"read", "waiting", "granted"} =>
                 begun[r] <= seen[r] /\ seen[r] # 0

Clients ==
    /\ phase \in [Request -> Phase]
    /\ inUse \in 0 .. Permits /\ queue \in Seq(Request)

IInv == TypeOK /\ Semaphore /\ Snapshots

----------------------------------------------------------------------------
(* The queue. *)

\* Without leaves the others where they are, one place up behind the gap.
LEMMA WithoutProperties ==
    ASSUME NEW q \in Seq(Request), NEW i \in 1 .. Len(q)
    PROVE  /\ Without(q, i) \in Seq(Request)
           /\ Len(Without(q, i)) = Len(q) - 1
           /\ \A j \in 1 .. Len(q) - 1 :
                  Without(q, i)[j] = IF j < i THEN q[j] ELSE q[j + 1]
<1> DEFINE front == SubSeq(q, 1, i - 1)
           rest == SubSeq(q, i + 1, Len(q))
<1>1. Len(q) \in Nat /\ i \in Nat
    OBVIOUS
<1>2. \A j \in 1 .. Len(q) : q[j] \in Request
    BY ElementOfSeq
<1>3. /\ front \in Seq(Request)
      /\ Len(front) = i - 1
      /\ \A j \in 1 .. i - 1 : front[j] = q[j]
    <2>1. \A j \in 1 .. i - 1 : q[j] \in Request
        BY <1>1, <1>2
    <2>2. i - 1 \in Int /\ 1 \in Int
        BY <1>1
    <2> QED
        BY <1>1, <2>1, <2>2, SubSeqProperties
<1>4. /\ rest \in Seq(Request)
      /\ Len(rest) = Len(q) - i
      /\ \A j \in 1 .. Len(q) - i : rest[j] = q[i + j]
    <2>1. \A j \in i + 1 .. Len(q) : q[j] \in Request
        BY <1>1, <1>2
    <2>2. i + 1 \in Int /\ Len(q) \in Int
        BY <1>1
    <2>3. /\ rest \in Seq(Request)
          /\ Len(rest) = IF i + 1 <= Len(q) THEN Len(q) - (i + 1) + 1 ELSE 0
          /\ \A j \in 1 .. Len(q) - (i + 1) + 1 : rest[j] = q[(i + 1) + j - 1]
        BY <2>1, <2>2, SubSeqProperties
    <2> QED
        BY <1>1, <2>3
<1> HIDE DEF front, rest
<1>5. /\ front \o rest \in Seq(Request)
      /\ Len(front \o rest) = Len(front) + Len(rest)
      /\ \A j \in 1 .. Len(front) + Len(rest) :
             (front \o rest)[j] = IF j <= Len(front) THEN front[j]
                                  ELSE rest[j - Len(front)]
    BY <1>3, <1>4, ConcatProperties
<1>6. Without(q, i) = front \o rest
    BY DEF Without, front, rest
<1>7. ASSUME NEW j \in 1 .. Len(q) - 1
      PROVE  (front \o rest)[j] = IF j < i THEN q[j] ELSE q[j + 1]
    <2>1. j \in 1 .. Len(front) + Len(rest) /\ Len(front) = i - 1
        BY <1>1, <1>3, <1>4
    <2>2. CASE j < i
        BY <1>1, <1>3, <1>5, <2>1, <2>2
    <2>3. CASE ~(j < i)
        <3>1. j - (i - 1) \in 1 .. Len(q) - i /\ i + (j - (i - 1)) = j + 1
            BY <1>1, <2>3
        <3>2. (front \o rest)[j] = rest[j - (i - 1)]
            BY <1>1, <1>5, <2>1, <2>3
        <3> QED
            BY <1>4, <2>3, <3>1, <3>2
    <2> QED
        BY <2>2, <2>3
<1>8. Len(front \o rest) = Len(q) - 1
    BY <1>1, <1>3, <1>4, <1>5
<1> QED
    BY <1>5, <1>6, <1>7, <1>8

----------------------------------------------------------------------------
(* The semaphore. *)

\* A request that neither holds nor awaits a permit changes nothing of it.
LEMMA ElsewhereOK ==
    ASSUME Clients, Semaphore, NEW r \in Request,
           NEW p \in Phase \ {"waiting", "granted"},
           phase[r] \notin {"waiting", "granted"},
           phase' = [phase EXCEPT ![r] = p], UNCHANGED semaphore
    PROVE  Clients' /\ Semaphore'
<1>1. Granted' = Granted
    BY DEF Clients, Granted
<1>2. Clients'
    BY DEF Clients, semaphore
<1>3. \A s \in Request : phase'[s] = "waiting" <=> phase[s] = "waiting"
    BY DEF Clients
<1> QED
    BY <1>1, <1>2, <1>3 DEF Semaphore, semaphore

LEMMA AcquireOK ==
    ASSUME Clients, Semaphore, NEW r \in Request,
           phase[r] \notin {"waiting", "granted"}, Acquire(r)
    PROVE  Clients' /\ Semaphore'
<1>0. Permits \in Nat /\ inUse \in Nat /\ queue \in Seq(Request)
    BY ServingAssumption DEF Clients
<1>1. CASE inUse < Permits
    <2>1. /\ inUse' = inUse + 1 /\ queue' = queue /\ queue = <<>>
          /\ phase' = [phase EXCEPT ![r] = "granted"]
        BY <1>0, <1>1 DEF Acquire, Semaphore
    <2>2. Granted' = Granted \cup {r} /\ r \notin Granted
        BY <2>1 DEF Granted, Clients
    <2>3. IsFiniteSet(Granted') /\ Cardinality(Granted') = inUse + 1
        BY <2>2, FS_AddElement DEF Semaphore
    <2>4. Clients'
        BY <1>0, <1>1, <2>1 DEF Clients, Phase
    <2>5. \A s \in Request : phase'[s] = "waiting" <=> phase[s] = "waiting"
        BY <2>1 DEF Clients
    <2> QED
        BY <2>1, <2>3, <2>4, <2>5 DEF Semaphore
<1>2. CASE ~(inUse < Permits)
    <2>1. /\ inUse' = inUse /\ queue' = Append(queue, r)
          /\ phase' = [phase EXCEPT ![r] = "waiting"]
          /\ inUse = Permits
        BY <1>0, <1>2 DEF Acquire, Clients
    <2>2. Granted' = Granted
        BY <2>1 DEF Granted, Clients
    <2>3. /\ queue' \in Seq(Request) /\ Len(queue') = Len(queue) + 1
          /\ \A i \in 1 .. Len(queue) : queue'[i] = queue[i]
          /\ queue'[Len(queue) + 1] = r
        BY <1>0, <2>1, AppendProperties
    <2>4. Clients'
        BY <1>0, <2>1, <2>3 DEF Clients, Phase
    <2>5. \A i \in 1 .. Len(queue) : queue[i] # r
        BY DEF Semaphore
    <2>6. \A i, j \in 1 .. Len(queue') : queue'[i] = queue'[j] => i = j
        <3>1. Len(queue) \in Nat
            BY <1>0
        <3>2. \A i \in 1 .. Len(queue') : i \in 1 .. Len(queue) \/ i = Len(queue) + 1
            BY <2>3, <3>1
        <3> QED
            BY <2>3, <2>5, <3>2 DEF Semaphore
    <2>7. \A s \in Request :
              phase'[s] = "waiting" <=> \E i \in 1 .. Len(queue') : queue'[i] = s
        <3>1. Len(queue) \in Nat
            BY <1>0
        <3>2. \A s \in Request :
                  (\E i \in 1 .. Len(queue') : queue'[i] = s) <=>
                      (s = r \/ \E i \in 1 .. Len(queue) : queue[i] = s)
            BY <2>3, <3>1
        <3>3. \A s \in Request : phase'[s] = "waiting" <=> s = r \/ phase[s] = "waiting"
            BY <2>1 DEF Clients
        <3> QED
            BY <3>2, <3>3 DEF Semaphore
    <2> QED
        BY <2>1, <2>2, <2>4, <2>6, <2>7 DEF Semaphore
<1> QED
    BY <1>1, <1>2

LEMMA ReleaseOK ==
    ASSUME Clients, Semaphore, NEW r \in Request, phase[r] = "granted",
           Release([phase EXCEPT ![r] = "idle"])
    PROVE  Clients' /\ Semaphore'
<1> DEFINE ph == [phase EXCEPT ![r] = "idle"]
<1>0. Permits \in Nat /\ inUse \in Nat /\ queue \in Seq(Request)
    BY ServingAssumption DEF Clients
<1>1. CASE queue = <<>>
    <2>1. inUse' = inUse - 1 /\ queue' = queue /\ phase' = ph
        BY <1>1 DEF Release
    <2>2. Granted' = Granted \ {r} /\ r \in Granted
        BY <2>1 DEF Granted, Clients
    <2>3. IsFiniteSet(Granted') /\ Cardinality(Granted') = inUse - 1
        BY <2>2, FS_RemoveElement DEF Semaphore
    <2>4. inUse - 1 \in Nat
        BY <2>3, FS_CardinalityType
    <2>5. Clients'
        BY <1>0, <2>1, <2>4 DEF Clients, Phase
    <2>6. \A s \in Request : phase'[s] = "waiting" <=> phase[s] = "waiting"
        BY <2>1 DEF Clients
    <2> QED
        BY <1>1, <2>1, <2>3, <2>5, <2>6 DEF Semaphore
<1>2. CASE queue # <<>>
    <2> DEFINE h == Head(queue)
    <2>1. /\ inUse' = inUse /\ queue' = Tail(queue)
          /\ phase' = [ph EXCEPT ![h] = "granted"]
        BY <1>2 DEF Release
    <2>2. /\ h \in Request /\ queue' \in Seq(Request)
          /\ Len(queue') = Len(queue) - 1
          /\ \A i \in 1 .. Len(queue') : queue'[i] = queue[i + 1]
        BY <1>0, <1>2, <2>1, HeadTailProperties
    <2>3. Len(queue) \in Nat \ {0} /\ h = queue[1]
        BY <1>0, <1>2
    <2>4. phase[h] = "waiting" /\ h # r
        BY <2>2, <2>3 DEF Semaphore
    <2> HIDE DEF h
    <2>5. Granted' = (Granted \ {r}) \cup {h} /\ r \in Granted /\ h \notin Granted \ {r}
        BY <2>1, <2>2, <2>4 DEF Granted, Clients
    <2>6. IsFiniteSet(Granted \ {r}) /\ Cardinality(Granted \ {r}) = inUse - 1
        BY <2>5, FS_RemoveElement DEF Semaphore
    <2> DEFINE others == Granted \ {r}
    <2> HIDE DEF others
    <2>12. IsFiniteSet(others \cup {h}) /\ Cardinality(others \cup {h}) = inUse
        <3>1. IsFiniteSet(others) /\ Cardinality(others) = inUse - 1 /\ h \notin others
            BY <2>5, <2>6 DEF others
        <3>2. /\ IsFiniteSet(others \cup {h})
              /\ Cardinality(others \cup {h}) = (inUse - 1) + 1
            BY <3>1, FS_AddElement
        <3> QED
            BY <1>0, <3>2
    <2>7. IsFiniteSet(Granted') /\ Cardinality(Granted') = inUse
        BY <2>5, <2>12 DEF others
    <2>8. Clients'
        BY <2>1, <2>2 DEF Clients, Phase
    <2>9. \A i, j \in 1 .. Len(queue') : queue'[i] = queue'[j] => i = j
        <3>1. \A i \in 1 .. Len(queue') : i + 1 \in 1 .. Len(queue)
            BY <2>2, <2>3
        <3>2. SUFFICES ASSUME NEW i \in 1 .. Len(queue'), NEW j \in 1 .. Len(queue'),
                              queue'[i] = queue'[j]
                       PROVE  i = j
            OBVIOUS
        <3>3. i + 1 = j + 1
            BY <2>2, <3>1, <3>2 DEF Semaphore
        <3> QED
            BY <3>3
    <2>10. ASSUME NEW s \in Request
           PROVE  phase'[s] = "waiting" <=> \E i \in 1 .. Len(queue') : queue'[i] = s
        <3>1. phase'[s] = "waiting" <=> phase[s] = "waiting" /\ s # h
            BY <2>1, <2>2, <2>4 DEF Clients
        <3>2. (\E i \in 1 .. Len(queue') : queue'[i] = s) =>
                  phase[s] = "waiting" /\ s # h
            <4>1. SUFFICES ASSUME NEW i \in 1 .. Len(queue'), queue'[i] = s
                           PROVE  phase[s] = "waiting" /\ s # h
                OBVIOUS
            <4>2. i + 1 \in 1 .. Len(queue) /\ i + 1 # 1 /\ 1 \in 1 .. Len(queue)
                BY <2>2, <2>3
            <4>3. queue[i + 1] = s
                BY <2>2, <4>1
            <4> QED
                BY <2>3, <4>2, <4>3 DEF Semaphore
        <3>3. phase[s] = "waiting" /\ s # h =>
                  \E i \in 1 .. Len(queue') : queue'[i] = s
            <4>1. SUFFICES ASSUME phase[s] = "waiting", s # h
                           PROVE  \E i \in 1 .. Len(queue') : queue'[i] = s
                OBVIOUS
            <4>2. PICK i \in 1 .. Len(queue) : queue[i] = s
                BY <4>1 DEF Semaphore
            <4>3. i # 1
                BY <2>3, <4>1, <4>2
            <4>4. i - 1 \in 1 .. Len(queue') /\ (i - 1) + 1 = i
                BY <2>2, <2>3, <4>3
            <4> QED
                BY <2>2, <4>2, <4>4
        <3> QED
            BY <3>1, <3>2, <3>3
    <2>11. queue' # <<>> => inUse' = Permits
        BY <1>2, <2>1 DEF Semaphore
    <2> QED
        BY <2>1, <2>7, <2>8, <2>9, <2>10, <2>11 DEF Semaphore
<1> QED
    BY <1>1, <1>2

\* Another request changes by a release only when it was waiting.
LEMMA Heir ==
    ASSUME Clients, Semaphore, NEW r \in Request, phase[r] = "granted",
           Release([phase EXCEPT ![r] = "idle"])
    PROVE  /\ phase'[r] = "idle"
           /\ \A q \in Request \ {r} : phase'[q] = phase[q] \/ phase[q] = "waiting"
<1>1. CASE queue = <<>>
    BY <1>1 DEF Release, Clients
<1>2. CASE queue # <<>>
    <2>1. 1 \in 1 .. Len(queue) /\ Head(queue) = queue[1] /\ Head(queue) \in Request
        BY <1>2 DEF Clients
    <2>2. phase[Head(queue)] = "waiting"
        BY <2>1 DEF Semaphore
    <2> QED
        BY <1>2, <2>1, <2>2 DEF Release, Clients
<1> QED
    BY <1>1, <1>2

\* The request that gave up leaves the queue, wherever in it it was.
LEMMA GiveUpOK ==
    ASSUME Clients, Semaphore, NEW r \in Request, phase[r] = "waiting",
           NEW k \in 1 .. Len(queue), queue[k] = r,
           queue' = Without(queue, k), inUse' = inUse,
           phase' = [phase EXCEPT ![r] = "idle"]
    PROVE  Clients' /\ Semaphore'
<1>1. queue \in Seq(Request) /\ Len(queue) \in Nat
    BY DEF Clients
<1>2. /\ queue' \in Seq(Request)
      /\ Len(queue') = Len(queue) - 1
      /\ \A j \in 1 .. Len(queue) - 1 :
             queue'[j] = IF j < k THEN queue[j] ELSE queue[j + 1]
    BY <1>1, WithoutProperties
<1>3. Granted' = Granted
    BY DEF Granted, Clients
<1>4. Clients'
    BY <1>2 DEF Clients, Phase
<1> DEFINE at(j) == IF j < k THEN j ELSE j + 1
<1>5. \A j \in 1 .. Len(queue') :
          at(j) \in 1 .. Len(queue) /\ at(j) # k /\ queue'[j] = queue[at(j)]
    BY <1>1, <1>2
<1>6. \A i, j \in 1 .. Len(queue') : at(i) = at(j) => i = j
    BY <1>1, <1>2
<1>7. \A i \in 1 .. Len(queue) :
          i # k => \E j \in 1 .. Len(queue') : at(j) = i
    <2>1. SUFFICES ASSUME NEW i \in 1 .. Len(queue), i # k
                   PROVE  \E j \in 1 .. Len(queue') : at(j) = i
        OBVIOUS
    <2>2. CASE i < k
        <3>1. i \in 1 .. Len(queue') /\ at(i) = i
            BY <1>1, <1>2, <2>2
        <3> QED
            BY <3>1
    <2>3. CASE ~(i < k)
        <3>1. i - 1 \in 1 .. Len(queue') /\ at(i - 1) = i
            BY <1>1, <1>2, <2>1, <2>3
        <3> QED
            BY <3>1
    <2> QED
        BY <2>2, <2>3
<1> HIDE DEF at
<1>8. \A i, j \in 1 .. Len(queue') : queue'[i] = queue'[j] => i = j
    BY <1>5, <1>6 DEF Semaphore
<1>9. ASSUME NEW s \in Request
      PROVE  phase'[s] = "waiting" <=> \E j \in 1 .. Len(queue') : queue'[j] = s
    <2>1. phase'[s] = "waiting" <=> phase[s] = "waiting" /\ s # r
        BY DEF Clients
    <2>2. (\E j \in 1 .. Len(queue') : queue'[j] = s) =>
              phase[s] = "waiting" /\ s # r
        BY <1>5 DEF Semaphore
    <2>3. phase[s] = "waiting" /\ s # r =>
              \E j \in 1 .. Len(queue') : queue'[j] = s
        BY <1>5, <1>7 DEF Semaphore
    <2> QED
        BY <2>1, <2>2, <2>3
<1>10. queue' # <<>> => inUse' = Permits
    <2>1. queue # <<>>
        BY <1>1
    <2> QED
        BY <2>1 DEF Semaphore
<1> QED
    BY <1>3, <1>4, <1>8, <1>9, <1>10 DEF Semaphore

----------------------------------------------------------------------------
(* Each step. *)

LEMMA InitOK == Init => IInv
<1> SUFFICES ASSUME Init PROVE IInv
    OBVIOUS
<1>1. TypeOK
    <2>1. {listening, handled} \subseteq BOOLEAN
        BY DEF Init
    <2>2. snapshot = 0 /\ faults = 0 /\ inUse = 0 /\ queue = <<>>
        BY DEF Init
    <2>3. 0 \in 0 .. MaxInstalls /\ 1 \in 0 .. MaxInstalls
          /\ 0 \in 0 .. Permits /\ 0 \in 0 .. MaxStartFaults
        BY ServingAssumption
    <2>4. service \in {"rust", "js"} /\ process \in Process
          /\ phase \in [Request -> Phase]
        BY DEF Init, Process, Phase
    <2>5. /\ seen \in [Request -> 0 .. MaxInstalls]
          /\ begun \in [Request -> 0 .. MaxInstalls]
          /\ answer \in [Request -> SUBSET (0 .. MaxInstalls)]
        BY <2>3 DEF Init
    <2> QED
        BY <2>1, <2>2, <2>3, <2>4, <2>5 DEF TypeOK
<1>2. Semaphore
    <2>1. Granted = {} /\ queue = <<>> /\ inUse = 0
        BY DEF Init, Granted
    <2>2. IsFiniteSet(Granted) /\ Cardinality(Granted) = 0
        BY <2>1, FS_EmptySet
    <2>3. Len(queue) = 0
        BY <2>1
    <2> QED
        BY <2>1, <2>2, <2>3 DEF Semaphore, Init
<1>3. Snapshots
    BY DEF Init, Snapshots
<1> QED
    BY <1>1, <1>2, <1>3 DEF IInv

\* What leaves the requests and the semaphore alone.
LEMMA ServerOK ==
    ASSUME IInv, UNCHANGED <<service, phase, seen, semaphore, begun, answer>>,
           process' \in Process, {listening', handled'} \subseteq BOOLEAN,
           snapshot' \in 0 .. MaxInstalls, faults' \in 0 .. MaxStartFaults,
           snapshot <= snapshot',
           process' \in {"public", "bound"} \/ listening' => snapshot' # 0
    PROVE  IInv'
<1>1. TypeOK'
    BY DEF IInv, TypeOK, semaphore
<1>2. Semaphore'
    BY DEF IInv, Semaphore, semaphore, Granted
<1>3. Snapshots'
    <2>1. snapshot \in Nat /\ snapshot' \in Nat
          /\ \A r \in Request : begun[r] \in Nat /\ seen[r] \in Nat
        BY ServingAssumption DEF IInv, TypeOK
    <2> QED
        BY <2>1 DEF IInv, Snapshots
<1> QED
    BY <1>1, <1>2, <1>3 DEF IInv

LEMMA ServeOK ==
    ASSUME IInv,
           \/ Startup \/ BindPublic \/ BindAdmin \/ HandleSignal \/ StartFails
           \/ Install \/ Stop \/ Exit
    PROVE  IInv'
<1>0. /\ service \in {"rust", "js"} /\ process \in Process
      /\ {listening, handled} \subseteq BOOLEAN
      /\ snapshot \in 0 .. MaxInstalls /\ faults \in 0 .. MaxStartFaults
      /\ MaxInstalls \in Nat \ {0} /\ MaxStartFaults \in Nat
      /\ process \in {"public", "bound"} \/ listening => snapshot # 0
    BY ServingAssumption DEF IInv, TypeOK, Snapshots
<1>1. CASE Startup
    BY <1>0, <1>1, ServerOK DEF Startup, server
<1>2. CASE BindPublic
    BY <1>0, <1>2, ServerOK DEF BindPublic, Process
<1>3. CASE BindAdmin
    BY <1>0, <1>3, ServerOK DEF BindAdmin, Process
<1>4. CASE StartFails
    BY <1>0, <1>4, ServerOK DEF StartFails, Process
<1>5. CASE Install
    BY <1>0, <1>5, ServerOK DEF Install, server
<1>6. CASE Stop
    <2>1. /\ {listening', handled'} \subseteq BOOLEAN /\ ~listening'
          /\ process' = "stopping"
        BY <1>6 DEF Stop
    <2>2. /\ UNCHANGED <<service, phase, seen, semaphore, begun, answer>>
          /\ snapshot' = snapshot /\ faults' = faults
        BY <1>6 DEF Stop
    <2> QED
        BY <1>0, <2>1, <2>2, ServerOK DEF Process
<1>7. CASE Exit
    BY <1>0, <1>7, ServerOK DEF Exit, Process
<1>8. CASE HandleSignal
    BY <1>0, <1>8, ServerOK DEF HandleSignal, Process
<1> QED
    BY <1>1, <1>2, <1>3, <1>4, <1>5, <1>6, <1>7, <1>8

LEMMA KilledOK == IInv /\ Killed => IInv'
<1> SUFFICES ASSUME IInv, Killed PROVE IInv'
    OBVIOUS
<1>1. TypeOK'
    <2>1. listening' \in BOOLEAN /\ process' \in Process
        BY DEF Killed, Process
    <2>2. 0 \in 0 .. MaxInstalls /\ 0 \in 0 .. Permits
        BY ServingAssumption
    <2>3. /\ phase' \in [Request -> Phase]
          /\ seen' \in [Request -> 0 .. MaxInstalls]
          /\ begun' \in [Request -> 0 .. MaxInstalls]
          /\ inUse' \in 0 .. Permits /\ queue' \in Seq(Request)
        BY <2>2 DEF Killed, Phase
    <2>4. UNCHANGED <<service, handled, snapshot, answer, faults>>
        BY DEF Killed
    <2> QED
        BY <2>1, <2>3, <2>4 DEF IInv, TypeOK
<1>2. Semaphore'
    <2>1. Granted' = {} /\ queue' = <<>> /\ inUse' = 0
        BY DEF Killed, Granted
    <2>2. IsFiniteSet(Granted') /\ Cardinality(Granted') = 0
        BY <2>1, FS_EmptySet
    <2>3. Len(queue') = 0
        BY <2>1
    <2> QED
        BY <2>1, <2>2, <2>3 DEF Semaphore, Killed
<1>3. Snapshots'
    BY ServingAssumption DEF IInv, TypeOK, Killed, Snapshots
<1> QED
    BY <1>1, <1>2, <1>3 DEF IInv

\* A request's own step keeps the numbers it goes by.
LEMMA RequestOK ==
    ASSUME IInv, NEW r \in Request,
           Arrive(r) \/ Progress(r) \/ Disconnect(r)
    PROVE  IInv'
<1>0. /\ Clients /\ Semaphore
      /\ service \in {"rust", "js"} /\ MaxInstalls \in Nat
      /\ snapshot \in 0 .. MaxInstalls /\ seen \in [Request -> 0 .. MaxInstalls]
      /\ begun \in [Request -> 0 .. MaxInstalls]
      /\ answer \in [Request -> SUBSET (0 .. MaxInstalls)]
    BY ServingAssumption DEF IInv, TypeOK, Clients
<1>1. UNCHANGED <<server, snapshot, faults>>
    BY DEF Arrive, Progress, AnswerAtOnce, Read, AcquireAfterRead,
           AcquireWhenReady, Evaluate, Disconnect
<1>2. SUFFICES /\ Clients' /\ Semaphore' /\ Snapshots'
               /\ seen' \in [Request -> 0 .. MaxInstalls]
               /\ begun' \in [Request -> 0 .. MaxInstalls]
               /\ answer' \in [Request -> SUBSET (0 .. MaxInstalls)]
    BY <1>1 DEF IInv, TypeOK, Clients, server
<1>3. CASE Arrive(r)
    <2>1. Clients' /\ Semaphore'
        BY <1>0, <1>3, ElsewhereOK DEF Arrive, Phase
    <2>2. Snapshots'
        BY <1>0, <1>3 DEF Arrive, IInv, Snapshots, Clients, server
    <2> QED
        BY <1>0, <1>3, <2>1, <2>2 DEF Arrive
<1>4. CASE AnswerAtOnce(r)
    <2>1. Clients' /\ Semaphore'
        BY <1>0, <1>4, ElsewhereOK DEF AnswerAtOnce, Phase
    <2>2. Snapshots'
        BY <1>0, <1>4 DEF AnswerAtOnce, Forget, IInv, Snapshots, Clients, server
    <2> QED
        BY <1>0, <1>4, <2>1, <2>2 DEF AnswerAtOnce, Forget, Current
<1>5. CASE Read(r)
    <2>1. Clients' /\ Semaphore'
        BY <1>0, <1>5, ElsewhereOK DEF Read, Phase
    <2>2. Snapshots'
        BY <1>0, <1>5 DEF Read, Current, IInv, Snapshots, Clients, server
    <2> QED
        BY <1>0, <1>5, <2>1, <2>2 DEF Read, Current
<1>6. CASE AcquireAfterRead(r) \/ AcquireWhenReady(r)
    <2>1. Acquire(r) /\ phase[r] \in {"read", "arrived"}
          /\ (phase[r] = "arrived" => service = "js")
          /\ UNCHANGED <<server, snapshot, seen, begun, answer>>
        BY <1>6 DEF AcquireAfterRead, AcquireWhenReady
    <2>2. Clients' /\ Semaphore'
        BY <1>0, <2>1, AcquireOK
    <2>3. \A q \in Request :
              \/ phase'[q] = phase[q]
              \/ q = r /\ phase[q] # "idle"
        BY <1>0, <2>1 DEF Acquire, Clients
    <2>4. Snapshots'
        BY <2>1, <2>3 DEF IInv, Snapshots, server
    <2> QED
        BY <1>0, <2>1, <2>2, <2>4
<1>7. ASSUME phase[r] # "idle", Forget(r), Clients', Semaphore',
             UNCHANGED <<server, snapshot>>,
             \A q \in Request \ {r} : answer'[q] = answer[q],
             \A q \in Request \ {r} :
                 phase'[q] = phase[q] \/ phase[q] = "waiting",
             phase'[r] = "idle"
      PROVE  Snapshots'
    BY <1>0, <1>7 DEF Forget, IInv, Snapshots, server
<1>8. CASE Evaluate(r)
    <2>1. Clients' /\ Semaphore'
        BY <1>0, <1>8, ReleaseOK DEF Evaluate
    <2>2. /\ phase'[r] = "idle"
          /\ \A q \in Request \ {r} : phase'[q] = phase[q] \/ phase[q] = "waiting"
        BY <1>0, <1>8, Heir DEF Evaluate
    <2>3. Snapshots'
        BY <1>0, <1>7, <1>8, <2>1, <2>2 DEF Evaluate
    <2> QED
        BY <1>0, <1>8, <2>1, <2>3 DEF Evaluate, Forget, Current
<1>9. CASE Disconnect(r)
    <2>1. /\ Clients' /\ Semaphore' /\ phase'[r] = "idle"
          /\ \A q \in Request \ {r} : phase'[q] = phase[q] \/ phase[q] = "waiting"
        <3>1. CASE phase[r] = "granted"
            BY <1>0, <1>9, <3>1, ReleaseOK, Heir DEF Disconnect
        <3>2. CASE phase[r] = "waiting"
            <4>1. PICK k \in 1 .. Len(queue) :
                      queue[k] = r /\ queue' = Without(queue, k)
                BY <1>9, <3>2 DEF Disconnect
            <4>2. inUse' = inUse /\ phase' = [phase EXCEPT ![r] = "idle"]
                BY <1>9, <3>2 DEF Disconnect
            <4> QED
                BY <1>0, <3>2, <4>1, <4>2, GiveUpOK DEF Clients
        <3>3. CASE phase[r] \notin {"waiting", "granted"}
            <4>1. UNCHANGED semaphore /\ phase' = [phase EXCEPT ![r] = "idle"]
                BY <1>9, <3>3 DEF Disconnect, semaphore
            <4> QED
                BY <1>0, <3>3, <4>1, ElsewhereOK DEF Phase, Clients
        <3> QED
            BY <3>1, <3>2, <3>3
    <2>2. Snapshots'
        BY <1>7, <1>9, <2>1 DEF Disconnect, Busy
    <2> QED
        BY <1>0, <1>9, <2>1, <2>2 DEF Disconnect, Forget
<1> QED
    BY <1>3, <1>4, <1>5, <1>6, <1>8, <1>9 DEF Progress

LEMMA StepOK == IInv /\ [Next]_vars => IInv'
<1> SUFFICES ASSUME IInv, [Next]_vars PROVE IInv'
    OBVIOUS
<1>1. CASE UNCHANGED vars
    <2>1. TypeOK'
        BY <1>1 DEF vars, server, semaphore, IInv, TypeOK
    <2>2. Semaphore' /\ Snapshots'
        BY <1>1 DEF vars, server, semaphore, IInv, Semaphore, Snapshots, Granted
    <2> QED
        BY <2>1, <2>2 DEF IInv
<1> QED
    BY <1>1, ServeOK, KilledOK, RequestOK DEF Next

----------------------------------------------------------------------------
(* What both services promise. *)

THEOREM Invariant == Spec => []IInv
BY InitOK, StepOK, PTL DEF Spec

\* Every reachable state of the two services is well typed.
THEOREM TypeCorrect == Spec => []TypeOK
<1>1. IInv => TypeOK
    BY DEF IInv
<1> QED
    BY Invariant, <1>1, PTL

\* The semaphores of rust/serve/src/web.rs and js/src/serve/web.js give each
\* permit to one request, and keep none from a request that waits.
THEOREM Permitted == Spec => []PermitsAreHeld
<1>1. IInv => PermitsAreHeld
    <2> SUFFICES ASSUME IInv PROVE PermitsAreHeld
        OBVIOUS
    <2>1. IsFiniteSet(Granted) /\ Cardinality(Granted) = inUse
        BY DEF IInv, Semaphore
    <2>2. ExistsBijection(1 .. inUse, Granted)
        BY <2>1, FS_CardinalityType
    <2>3. PICK held \in Bijection(1 .. inUse, Granted) : TRUE
        BY <2>2 DEF ExistsBijection
    <2>4. /\ held \in [1 .. inUse -> Granted]
          /\ \A i, j \in 1 .. inUse : held[i] = held[j] => i = j
          /\ \A r \in Granted : \E i \in 1 .. inUse : held[i] = r
        BY <2>3 DEF Bijection, Injection, Surjection, IsInjective
    <2>5. held \in [1 .. inUse -> Request]
        BY <2>4 DEF Granted
    <2>6. {held[i] : i \in 1 .. inUse} = {r \in Request : phase[r] = "granted"}
        BY <2>4 DEF Granted
    <2> QED
        BY <2>4, <2>5, <2>6 DEF PermitsAreHeld, IInv, Semaphore
<1> QED
    BY Invariant, <1>1, PTL

\* Between the snapshot's read and the answer lie a queue and any number of
\* installations, and yet no answer is older than its request or from nothing.
THEOREM Answered == Spec => AnswerWasInstalled
<1> DEFINE Installed ==
        \A r \in Request :
          Busy(r) /\ phase'[r] = "idle" /\ answer'[r] # {} =>
              \E s \in begun[r] .. snapshot : s # 0 /\ answer'[r] = {s}
<1>1. IInv /\ [Next]_vars => [Installed]_vars
    <2> SUFFICES ASSUME IInv, Next, NEW r \in Request,
                        Busy(r), phase'[r] = "idle", answer'[r] # {}
                 PROVE  \E s \in begun[r] .. snapshot : s # 0 /\ answer'[r] = {s}
        BY DEF vars
    <2>1. /\ snapshot \in Nat /\ begun[r] \in Nat /\ seen[r] \in Nat
          /\ begun[r] <= snapshot /\ seen[r] <= snapshot /\ snapshot # 0
          /\ answer[r] = {}
          /\ answer \in [Request -> SUBSET (0 .. MaxInstalls)]
        BY ServingAssumption DEF IInv, TypeOK, Snapshots, Busy
    <2>2. answer' # answer
        BY <2>1
    <2>3. PICK q \in Request : Arrive(q) \/ AnswerAtOnce(q) \/ Evaluate(q)
        BY <2>2 DEF Next, Startup, BindPublic, BindAdmin, HandleSignal,
               StartFails, Install, Stop, Exit, Killed, Progress, Read,
               AcquireAfterRead, AcquireWhenReady, Disconnect
    <2>4. CASE Arrive(q)
        BY <2>1, <2>4 DEF Arrive
    <2>5. CASE AnswerAtOnce(q)
        <3>1. q = r /\ answer'[r] = {snapshot}
            BY <2>1, <2>5 DEF AnswerAtOnce, Current
        <3> QED
            BY <2>1, <3>1
    <2>6. CASE Evaluate(q)
        <3>1. q = r
            BY <2>1, <2>6 DEF Evaluate
        <3>2. answer'[r] = {IF service = "rust" THEN seen[r] ELSE snapshot}
            BY <2>1, <2>6, <3>1 DEF Evaluate, Current
        <3>3. service = "rust" => begun[r] <= seen[r] /\ seen[r] # 0
            BY <2>6, <3>1 DEF Evaluate, IInv, Snapshots
        <3> QED
            BY <2>1, <3>2, <3>3
    <2> QED
        BY <2>3, <2>4, <2>5, <2>6
<1> QED
    BY Invariant, <1>1, PTL DEF Spec, AnswerWasInstalled

=============================================================================
