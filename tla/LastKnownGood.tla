-------------------------- MODULE LastKnownGood --------------------------
(***************************************************************************)
(* What a watched registry promises its clients, without Git, polls or      *)
(* files: the record in the state directory leads what is served by at most *)
(* one legal step, and what is served, over all restarts of the service,    *)
(* moves along legal steps only.                                            *)
(***************************************************************************)
EXTENDS CatalogHistory

VARIABLES
    stored,     \* the commit a restart would serve, None when there is none
    served,     \* the commit being served, None while the service is down
    last        \* the commit served most recently, over all restarts

promise == <<stored, served, last>>

TypeOK ==
    /\ stored \in Commit \cup {None}
    /\ served \in Commit \cup {None}
    /\ last \in Commit \cup {None}

Init ==
    /\ stored \in Commit \cup {None}
    /\ served = None
    /\ last = None

\* A first record is the configured commit; a later one follows the commit
\* being served.
Storable(c) ==
    \/ stored = None /\ c = Bootstrap /\ c \in Buildable
    \/ served # None /\ Forward(served, c)

Store(c) ==
    /\ Storable(c)
    /\ stored' = c
    /\ UNCHANGED <<served, last>>

Serve ==
    /\ stored \in Buildable
    /\ served' = stored
    /\ last' = stored
    /\ UNCHANGED stored

\* both at once, when nothing can come between them
Publish(c) ==
    /\ Storable(c)
    /\ stored' = c /\ served' = c /\ last' = c

Stop ==
    /\ served # None
    /\ served' = None
    /\ UNCHANGED <<stored, last>>

Next == (\E c \in Commit : Store(c) \/ Publish(c)) \/ Serve \/ Stop

Spec == Init /\ [][Next]_promise

============================================================================
