------------------------------ MODULE MCResolver ------------------------------
(* Resolver with three configured upstreams. *)
EXTENDS Resolver
=============================================================================
