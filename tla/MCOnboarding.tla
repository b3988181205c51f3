------------------------------ MODULE MCOnboarding ------------------------------
(* Instances of Onboarding for TLC: two addresses, one property, two calls. *)
EXTENDS Onboarding

CONSTANTS a, b, prop, draft

RankingDef == [d \in {draft} |-> <<prop>>]
AddressOfDef == [p \in {prop} |-> a]
FilesDef == {<<b>>}
ExtractionsDef == {<<a>>, <<b>>}
================================================================================
