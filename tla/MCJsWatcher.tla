----------------------------- MODULE MCJsWatcher -----------------------------
(* The JavaScript watcher over the history of MCHistory. *)
EXTENDS JsWatcher, MCHistory
=============================================================================
