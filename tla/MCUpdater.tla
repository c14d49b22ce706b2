------------------------------- MODULE MCUpdater -------------------------------
(* The configurations give every constant of Updater its value. *)
EXTENDS Updater
=============================================================================
