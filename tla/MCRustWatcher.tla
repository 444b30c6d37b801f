---------------------------- MODULE MCRustWatcher ----------------------------
(* The Rust watcher over the history of MCHistory; the .cfg files choose the *)
(* budgets of the environment.                                               *)
EXTENDS RustWatcher, MCHistory
=============================================================================
