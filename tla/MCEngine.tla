------------------------------ MODULE MCEngine ------------------------------
(***************************************************************************)
(* A small instance of Engine for TLC: version v2 retains v1; an           *)
(* unversioned machine and its redeployment without state "B".             *)
(***************************************************************************)
EXTENDS Engine

VersionDef == [v1 |-> "1", v2 |-> "2", u1 |-> None, u2 |-> None]
RetainedDef == [v1 |-> {}, v2 |-> {"v1"}, u1 |-> {}, u2 |-> {}]
StatesDef == [v1 |-> {"A", "B"}, v2 |-> {"A", "C"}, u1 |-> {"A", "B"}, u2 |-> {"A"}]
InitialDef == [v1 |-> "A", v2 |-> "A", u1 |-> "B", u2 |-> "A"]
=============================================================================
