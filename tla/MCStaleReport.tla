--------------------------- MODULE MCStaleReport ---------------------------
(***************************************************************************)
(* Tool runs alone: a test that kills its mutant and one that does not,    *)
(* both of which pass.                                                     *)
(***************************************************************************)
EXTENDS ToolRuns, TLC

Jacoco(ci) == [ci |-> ci, cb |-> 0, mb |-> 0]

MCTestVersions ==
    {[cover |-> 1 :> Jacoco(1), mutants |-> {[id |-> 1, method |-> "m", status |-> "KILLED"]},
      green |-> TRUE, reproduces |-> TRUE],
     [cover |-> 1 :> Jacoco(1), mutants |-> {[id |-> 1, method |-> "m", status |-> "SURVIVED"]},
      green |-> TRUE, reproduces |-> TRUE]}

MCOldSources == {[a |-> "old"]}
=============================================================================
