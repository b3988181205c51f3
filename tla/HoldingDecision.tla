----------------------------- MODULE HoldingDecision -----------------------------
(****************************************************************************)
(* What to do with one holding.  Signals of the owner                       *)
(* (domain/actors/profiles.py) and of the market become a reaction vector   *)
(* (domain/reactions), three policies (domain/decisions/policies.py) score  *)
(* investor actions against it, and services/holding_decision.py adds the   *)
(* refinancing candidate and takes the best.                                *)
(*                                                                          *)
(* Numbers are in units of 1/10000, the precision scores are rounded to.    *)
(****************************************************************************)
EXTENDS Integers, SequencesExt

Unit == 10000
Missing == -1       \* None, of a quantity that is never negative

Actions == {"HOLD", "RAISE_RENT", "REFI", "SELL", "IMPROVE"}

ClampUnit(x) == Max({0, Min({Unit, x})})
ClampSigned(x) == Max({-Unit, Min({Unit, x})})
ToUnit(x) == (x + Unit) \div 2    \* a signed reaction on the scale 0..Unit
--------------------------------------------------------------------------------
(****************************************************************************)
(* The owner: a budget, a role, and a timeline that is urgent (30 days or   *)
(* less) or not.  The risk tolerance is no part of it: the table of         *)
(* user_profile_signals is keyed by "conservative" and "aggressive", the    *)
(* values of RiskTolerance are low, moderate and high, so an owner loaded   *)
(* from the database always gets the default optimism.  The signals that    *)
(* are neutral for every owner are left out with it.                        *)
(****************************************************************************)
Optimism == Unit \div 2

Pressure(owner) ==
    LET spread == Max({owner.budget_max - owner.budget_min, 0})
        tightness == IF owner.budget_max > 0
                     THEN ClampUnit(Unit - (spread * Unit) \div owner.budget_max)
                     ELSE Unit \div 2
    IN  IF owner.urgent THEN ClampUnit(tightness + 2000) ELSE tightness

\* infer_actor_type: a role is any text; of the actors it may name, these two
\* differ from the rest.
ActorType(role) ==
    CASE role = "seller" -> "SELLER"
      [] role \in {"buyer", "both"} -> "BUYER"
      [] OTHER -> "UNKNOWN"

Willingness(owner) ==
    CASE ActorType(owner.role) = "SELLER" ->
             ClampUnit(6000 + ((Unit - Pressure(owner)) * 3) \div 10)
      [] ActorType(owner.role) = "BUYER" -> ClampUnit(5000 + (Optimism * 4) \div 10)
      [] OTHER -> Unit \div 2

UserProfileSignals(owner) ==
    [affordability_pressure |-> Pressure(owner),
     displacement_concern |-> Pressure(owner) \div 2,
     willingness_to_transact |-> Willingness(owner)]

\* The mean of the members' signals.
CohortSignals(members) ==
    [v \in DOMAIN Head(members) |->
        FoldLeft(LAMBDA sum, member : sum + member[v], 0, members) \div Len(members)]

\* A cohort of one, the owner.
BuildActorState(owner) == CohortSignals(<<UserProfileSignals(owner)>>)
--------------------------------------------------------------------------------
(****************************************************************************)
(* The reaction.  Owner and market each emit at most one event per          *)
(* variable, the owner first; a delta of 0 changes nothing.                 *)
(****************************************************************************)
\* actor_reaction_events, where a raw 0 counts as an unset field.
ActorDelta(owner, v) ==
    LET signals == BuildActorState(owner)
    IN  IF v \in DOMAIN signals /\ signals[v] # 0 THEN 2 * signals[v] - Unit ELSE 0

\* Mutant: the sign of the safety reading is lost.
Safety_Inverted(market) ==
    IF market.safety_score = Missing THEN 0
    ELSE ClampSigned(Unit - market.safety_score \div 5)

Safety(market) ==
    IF market.safety_score = Missing THEN 0
    ELSE ClampSigned(market.safety_score \div 5 - Unit)

\* market_reaction_events.  The inventory pressure (active over sold listings)
\* may exceed Unit; a rent of 0 is no rent.
Slack(market) ==
    IF market.inventory_pressure = Missing THEN 0
    ELSE ClampSigned(Unit - 2 * market.inventory_pressure)

RentGap(market, rent) ==
    IF market.median_rent \in {Missing, 0} \/ rent \in {Missing, 0} THEN 0
    ELSE ClampSigned(((rent - market.median_rent) * Unit) \div market.median_rent)

ApplyDelta(current, delta) == ClampSigned(current + delta)
ApplyBatch(deltas) == FoldLeft(ApplyDelta, 0, deltas)

ReactionVector(owner, market, rent) ==
    LET fold(v, delta) == ApplyBatch(<<ActorDelta(owner, v), delta>>)
    IN  [affordability_pressure |-> fold("affordability_pressure", RentGap(market, rent)),
         displacement_concern |-> fold("displacement_concern", -Safety(market)),
         willingness_to_transact |-> fold("willingness_to_transact", Slack(market)),
         perceived_safety |-> fold("perceived_safety", Safety(market)),
         investor_optimism |-> fold("investor_optimism", Slack(market))]
--------------------------------------------------------------------------------
(****************************************************************************)
(* The policies: a sequence of at most one candidate, under its investor    *)
(* action (_POLICY_ACTION_MAP).                                             *)
(****************************************************************************)
Candidate(action, score) == [action |-> action, score |-> score]

ListHold(market, r) ==
    LET inventory == market.inventory_pressure
        list == ClampUnit((Unit - inventory + ToUnit(r.investor_optimism)) \div 2)
        hold == ClampUnit((inventory + ToUnit(r.displacement_concern)) \div 2)
    IN  CASE inventory = Missing -> <<>>
          [] inventory # Missing /\ list >= hold -> <<Candidate("SELL", list)>>
          [] OTHER -> <<Candidate("HOLD", hold)>>

\* Mutant: the rent is raised on willing tenants whatever they can afford.
Lease_IgnoresAffordability(market, r) ==
    LET willingness == ToUnit(r.willingness_to_transact)
    IN  CASE market.median_rent = Missing -> <<>>
          [] willingness > 6000 ->
                 <<Candidate("RAISE_RENT",
                             (willingness * ToUnit(r.affordability_pressure)) \div Unit)>>
          [] OTHER -> <<Candidate("HOLD", 4000)>>

Lease(market, r) ==
    LET affordability == ToUnit(r.affordability_pressure)
        willingness == ToUnit(r.willingness_to_transact)
    IN  CASE market.median_rent = Missing -> <<>>
          [] market.median_rent # Missing /\ affordability > 7000 ->
                 <<Candidate("HOLD", affordability)>>
          [] market.median_rent # Missing /\ willingness > 6000 /\ affordability < 5000 ->
                 <<Candidate("RAISE_RENT", (willingness * (Unit - affordability)) \div Unit)>>
          [] OTHER -> <<Candidate("HOLD", 4000)>>

Churn(r) ==
    LET risk == ClampUnit((6 * ToUnit(r.displacement_concern)
                           + 4 * (Unit - ToUnit(r.perceived_safety))) \div 10)
    IN  IF r.displacement_concern = 0 /\ r.perceived_safety = 0 THEN <<>>
        ELSE <<Candidate(IF risk > 6000 THEN "IMPROVE" ELSE "HOLD", risk)>>

\* _refi_candidate: the benchmark is 6%, i.e. 600 units.
Refi(fin) ==
    IF fin.interest_rate > 600 /\ fin.loan_balance > 0
    THEN <<Candidate("REFI", Min({Unit, 3000 + (fin.interest_rate - 600) * 10}))>>
    ELSE <<>>
--------------------------------------------------------------------------------
\* DecisionRuntime.evaluate over the policies of this service, in their order; its
\* sort is part of ComputeHoldingDecision.
Evaluate(market, r) == ListHold(market, r) \o Lease(market, r) \o Churn(r)

\* Without a snapshot no policy runs.
Candidates(snapshot, owner, fin) ==
    (IF snapshot.found
     THEN Evaluate(snapshot.market, ReactionVector(owner, snapshot.market, fin.monthly_rent))
     ELSE <<>>) \o Refi(fin)

\* Sorting is stable, best_by_action keeps the first of equals: the first of the
\* candidates with the highest score.
ComputeHoldingDecision(snapshot, owner, fin) ==
    LET s == Candidates(snapshot, owner, fin)
        best == {i \in DOMAIN s : \A j \in DOMAIN s : s[j].score <= s[i].score}
    IN  IF s = <<>> THEN Candidate("HOLD", 3000) ELSE s[Min(best)]

\* The best score of an action, 0 when it is no candidate.
ScoreOf(action, snapshot, owner, fin) ==
    LET s == Candidates(snapshot, owner, fin)
    IN  Max({0} \cup {s[i].score : i \in {n \in DOMAIN s : s[n].action = action}})
================================================================================
