----------------------------- MODULE MCPortfolioPage -----------------------------
(* An instance of PortfolioPage for TLC: two investors, a file of two rows. *)
EXTENDS PortfolioPage

CONSTANTS u1, u2, r1, r2

FilesDef == {<<r1, r2>>}
================================================================================
