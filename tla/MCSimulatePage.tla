---------------------------- MODULE MCSimulatePage ----------------------------
(* Instances of SimulatePage for TLC. *)
EXTENDS SimulatePage

CONSTANTS run1, w1, w2
================================================================================
