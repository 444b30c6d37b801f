------------------------- MODULE MCCatalogLifecycle -------------------------
(***************************************************************************)
(* The registry main mirrors "a", whose row may depend on "b"; the registry *)
(* extra, when it is declared, may mirror a "b", and main may publish one   *)
(* of its own from Git.                                                     *)
(***************************************************************************)
EXTENDS CatalogLifecycle

MCRegistry == {"main", "extra"}
MCKey == {"main/a", "extra/b", "main/b"}
MCCategory == {"main/general", "extra/general"}
MCRegistryOf ==
    [x \in MCKey \cup MCCategory |->
        IF x \in {"extra/b", "extra/general"} THEN "extra" ELSE "main"]
MCName == {"a", "b"}
MCNameOf == [k \in MCKey |-> IF k = "main/a" THEN "a" ELSE "b"]
MCPublishKey == {"main/b"}
MCIdentity == {"a 1", "a 2", "tag b 1"}
MCKeyOf == [i \in MCIdentity |-> IF i = "tag b 1" THEN "main/b" ELSE "main/a"]
MCEvidence == {"plain", "needs b"}
MCDeps == [e \in MCEvidence |-> IF e = "plain" THEN {} ELSE {"b"}]


MCInitialCatalog ==
    [declared |-> {"main"},
     home |-> [k \in MCKey |-> IF k = "main/a" THEN "main/general" ELSE None],
     edges |-> {"main/general"} \X MCCategory,
     desired |-> {"a 1"},
     download |-> [r \in MCRegistry |-> "static"],
     locked |-> {}, anchor |-> [k \in MCKey |-> None],
     lockDownload |-> [r \in MCRegistry |-> "static"],
     package |-> [i \in MCIdentity |-> None], bodies |-> {}]

=============================================================================
