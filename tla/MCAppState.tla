------------------------------ MODULE MCAppState ------------------------------
(* AppState with a clock of a few seconds and 16 seconds of u64. *)
EXTENDS AppState
=============================================================================
