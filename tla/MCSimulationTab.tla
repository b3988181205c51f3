---------------------------- MODULE MCSimulationTab ----------------------------
(* Instances of SimulationTab for TLC: two portfolios, a few calls. *)
EXTENDS SimulationTab

CONSTANTS p1, p2
================================================================================
