-------------------------- MODULE CatalogHistory --------------------------
(***************************************************************************)
(* The Git history both watchers observe: object names, ancestry, annotated *)
(* tags, and what the watchers' semantic checks say of the trees.  All of   *)
(* it is fixed during a behaviour: Git objects are immutable.               *)
(***************************************************************************)

CONSTANTS
    Object,         \* object names the watched ref may hold
    Commit,         \* those that name commits; the others are annotated tags
    Peel,           \* [Object -> Commit], what name^{commit} resolves to
    Older,          \* {<<a, b>>}: commit a is a strict ancestor of commit b
    Successor,      \* {<<a, b>>}: b's catalog is a legal successor of a's
    Buildable,      \* commits whose catalog yields a serving snapshot
    Bootstrap,      \* the commit the operator configured
    None            \* "no object": an absent ref, nothing served yet

ASSUME HistoryAssumption ==
    /\ Commit \subseteq Object
    /\ Peel \in [Object -> Commit]
    /\ \A c \in Commit : Peel[c] = c
    /\ Older \subseteq Commit \X Commit
    /\ \A a, b \in Commit : <<a, b>> \in Older => <<b, a>> \notin Older
    /\ \A a, b, c \in Commit :
          <<a, b>> \in Older /\ <<b, c>> \in Older => <<a, c>> \in Older
    /\ Successor \subseteq Commit \X Commit
    /\ Buildable \subseteq Commit
    /\ Bootstrap \in Commit
    /\ None \notin Object

(***************************************************************************)
(* The accepted catalog a may be replaced by catalog b: b strictly follows  *)
(* a in history, is a legal successor of it, and can be served.             *)
(***************************************************************************)
Forward(a, b) ==
    /\ <<a, b>> \in Older
    /\ <<a, b>> \in Successor
    /\ b \in Buildable

(***************************************************************************)
(* Everything a fetch of the object brings with it.                         *)
(***************************************************************************)
HistoryOf(o) ==
    {o, Peel[o]} \cup {a \in Commit : <<a, Peel[o]>> \in Older}

============================================================================
