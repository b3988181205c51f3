----------------------------- MODULE MCStrategyRun -----------------------------
(****************************************************************************)
(* Instances of StrategyRun for TLC.  Two runs share the process: they meet *)
(* in _store, in Crash and in domain_events.                                *)
(****************************************************************************)
EXTENDS StrategyRun

CONSTANTS r1, r2
================================================================================
