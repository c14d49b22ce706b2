---------------------------- MODULE MCQueryLogger ----------------------------
(* A few entries of two clients under every wiring of the sinks. *)
EXTENDS QueryLogger

MCKind == [e \in Entries |->
    CASE e = "e1" -> [client |-> "c1", action |-> "Blocked"]
      [] e = "e2" -> [client |-> "c1", action |-> "Cached"]
      [] OTHER    -> [client |-> "c2", action |-> "Blocked"]]

MCConfigs == {<<"console">>, <<"sqlite", "other", "sqlite">>}
=============================================================================
