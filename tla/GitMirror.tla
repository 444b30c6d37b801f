----------------------------- MODULE GitMirror -----------------------------
(***************************************************************************)
(* The bare mirror in the state directory, and what each Git command the    *)
(* watchers run may answer.  Git itself is external: an operator gives the  *)
(* set of answers Git may produce for a mirror; a watcher picks one.        *)
(***************************************************************************)
EXTENDS CatalogHistory

Stored == {"missing", "valid", "corrupt"}

Mirrors == [Object -> Stored]

\* all of an object's history can be read
Intact(mirror, o) == \A a \in HistoryOf(o) : mirror[a] = "valid"

\* A fetch brings the missing part of the history; an object that was
\* corrupt may or may not be replaced by the new pack.
Fetched(mirror, o) ==
    { [a \in Object |->
          IF a \notin HistoryOf(o) THEN mirror[a]
          ELSE IF a \in still THEN "corrupt" ELSE "valid"] :
        still \in SUBSET {a \in HistoryOf(o) : mirror[a] = "corrupt"} }

\* nothing but an outside failure makes the fetch of the ref fail
Fetchable(mirror, ref) ==
    ref # None /\ \A a \in HistoryOf(ref) : mirror[a] # "corrupt"

\* mutant: the mirror keeps the tip of the ref without its history
PrunedToTip(mirror, ref) ==
    [a \in Object |->
        IF ref # None /\ a # ref THEN "missing" ELSE mirror[a]]

\* git gc --auto, which git fetch starts: what the local ref no longer
\* reaches is pruned, and no ref names the accepted commit.
Pruned(mirror, ref) ==
    [a \in Object |->
        IF ref # None /\ a \notin HistoryOf(ref) THEN "missing"
        ELSE mirror[a]]

(***************************************************************************)
(* cat-file -e, then cat-file -t.  A command that cannot be run, times out  *)
(* or dies shows as a missing object, a corrupt one, or an error, depending *)
(* on which of the two it was.                                              *)
(***************************************************************************)
ProbedState(mirror, o) ==
    IF mirror[o] = "missing" THEN {"missing"}
    ELSE IF mirror[o] = "corrupt" THEN {"missing", "corrupt"}
    ELSE IF o \in Commit THEN {"valid"} ELSE {"malformed"}

FailedProbe == {"missing", "corrupt", "error"}

ProbeAnswer == {"missing", "corrupt", "valid", "malformed", "error"}

\* mutant: the arguments of merge-base --is-ancestor swapped
RelationSwapped(a, b) ==
    IF <<b, a>> \in Older THEN "descendant"
    ELSE IF <<a, b>> \in Older THEN "predecessor"
    ELSE "divergent"

(***************************************************************************)
(* The two merge-base --is-ancestor calls of one reload, as both watchers   *)
(* combine them.  A history that cannot be read end to end may end a call   *)
(* with another exit code than 0 and 1.                                     *)
(***************************************************************************)
Relation(a, b) ==
    IF <<a, b>> \in Older THEN "descendant"
    ELSE IF <<b, a>> \in Older THEN "predecessor"
    ELSE "divergent"

ProbedAncestry(mirror, a, b) ==
    IF mirror[a] # "valid" \/ mirror[b] # "valid" THEN {"unknown"}
    ELSE IF Intact(mirror, a) /\ Intact(mirror, b) THEN {Relation(a, b)}
    ELSE {Relation(a, b), "unknown"}

============================================================================
