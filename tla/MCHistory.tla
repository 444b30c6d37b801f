------------------------------ MODULE MCHistory ------------------------------
(***************************************************************************)
(* A small catalog history for the model checker.                           *)
(*                                                                          *)
(*     c0 --- c1 --- c2        the catalog's own line; c2 is a legal step    *)
(*                             from c1, but two migrations ahead of c0       *)
(*      |\                                                                  *)
(*      | d1                   a fork that is a legal step from c0          *)
(*      x1                     a child of c0 that drops a package           *)
(*                                                                          *)
(* and an annotated tag t1 of c1.                                           *)
(***************************************************************************)

MCCommit == {"c0", "c1", "c2", "d1", "x1"}
MCObject == MCCommit \cup {"t1"}
MCPeel == [o \in MCObject |-> IF o = "t1" THEN "c1" ELSE o]
MCOlder == {<<"c0", "c1">>, <<"c1", "c2">>, <<"c0", "c2">>,
            <<"c0", "d1">>, <<"c0", "x1">>}
MCSuccessor == {<<"c0", "c1">>, <<"c1", "c2">>, <<"c0", "d1">>}
MCBuildable == MCCommit

\* the same without x1, for the watcher that has no transition check
MCJsCommit == MCCommit \ {"x1"}
MCJsObject == MCObject \ {"x1"}
MCJsPeel == [o \in MCJsObject |-> MCPeel[o]]
MCJsOlder == MCOlder \cap (MCJsCommit \X MCJsCommit)

MCBootstrap == "c0"
MCNone == "none"

MCIdentity == "identity"
MCFullRef == "refs/heads/main"
MCWellFormed == MCObject \cup {MCIdentity, MCFullRef, "other identity",
                               "refs/heads/other"}

MCAbsent == [kind |-> "absent"]
MCMalformed == [kind |-> "malformed"]
MCRecord(commit, fullRef, identity) ==
    [kind |-> "present",
     record |-> [commit |-> commit, fullRef |-> fullRef, identity |-> identity]]

MCRunning == {MCAbsent, MCRecord("c1", MCFullRef, MCIdentity)}
MCForeign == {MCMalformed,
              MCRecord("c0", MCFullRef, "other identity"),
              MCRecord("c0", "refs/heads/other", MCIdentity)}
MCAnyRecord == MCRunning \cup MCForeign

=============================================================================
