--------------------------- MODULE MCFairCluster ---------------------------
(* Instances of FairCluster for TLC, on the scenarios of MCCluster. *)
EXTENDS FairCluster, MCCluster
=============================================================================
