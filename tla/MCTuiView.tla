----------------------------- MODULE MCTuiView -----------------------------
(* Small instances of TuiView for TLC. *)
EXTENDS TuiView
============================================================================
