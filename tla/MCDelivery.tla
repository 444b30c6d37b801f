----------------------------- MODULE MCDelivery -----------------------------
EXTENDS Delivery
\* a mirror, a mirror of the same archive in another registry, a Git package
MCIdentity == {"m", "n", "g"}
MCGitIdentity == {"g"}
MCArchive == {"a", "b"}
\* the first tag's checkout is not clean after packaging
MCTag == {"t1", "t2"}
MCPeel == [t1 |-> "dirty", t2 |-> "good"]
MCPaths == <<"r1", "r2">>
MCHome == [m |-> "r1", n |-> "r2", g |-> "r2"]
\* changed, they have no edge that n needs, and another home of what g depends on
MCDeclaration == {"first", "changed"}
MCRow == {"old", "new"}
MCRoute == [m |-> [first |-> "old", changed |-> "old"],
            n |-> [first |-> "old", changed |-> None],
            g |-> [first |-> "old", changed |-> "new"]]
MCCommit == {"good", "dirty"}
Clean == [submodules |-> FALSE, unsafePath |-> FALSE, manifest |-> TRUE,
          matching |-> 1, publish |-> TRUE, curated |-> TRUE,
          tagVersion |-> TRUE, inside |-> TRUE, repeatsFeature |-> FALSE,
          dirties |-> FALSE]
MCCheckout == [good |-> Clean,
               dirty |-> [Clean EXCEPT !.dirties = TRUE]]
MCCrate == [good |-> {"b"}, dirty |-> {"a", "b"}]
MCHistory == [m |-> [rows |-> 1, foreign |-> FALSE, yanked |-> FALSE, checksum |-> "a"],
              n |-> [rows |-> 1, foreign |-> FALSE, yanked |-> FALSE, checksum |-> "a"]]
MCInitialTag == [g |-> "t1"]
\* three valid configurations, and one of each mistake
MCConfigs == {
    [delivery |-> "redirect", archiveStore |-> FALSE, catalog |-> TRUE, watcher |-> "none"],
    [delivery |-> "redirect", archiveStore |-> FALSE, catalog |-> FALSE, watcher |-> "wellformed"],
    [delivery |-> "body", archiveStore |-> TRUE, catalog |-> FALSE, watcher |-> "wellformed"],
    [delivery |-> "body", archiveStore |-> FALSE, catalog |-> TRUE, watcher |-> "none"],
    [delivery |-> "redirect", archiveStore |-> FALSE, catalog |-> FALSE, watcher |-> "none"],
    [delivery |-> "redirect", archiveStore |-> FALSE, catalog |-> FALSE, watcher |-> "malformed"]}
MCInitialConfig ==
    [delivery |-> "redirect", archiveStore |-> FALSE, catalog |-> FALSE, watcher |-> "wellformed"]
MCInitialStore == [a |-> "whole", b |-> "absent"]
MCInitial ==
    [package |-> [m |-> [state |-> "active", sha |-> "a", tag |-> None,
                         commit |-> None, row |-> "old"],
                  n |-> None, g |-> None],
     declared |-> "first", locked |-> "first",
     retained |-> {}, table |-> [m |-> "redirect", n |-> "none", g |-> "none"],
     crates |-> [a |-> "absent", b |-> "absent"], junk |-> FALSE]
============================================================================
