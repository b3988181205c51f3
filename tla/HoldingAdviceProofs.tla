--------------------------- MODULE HoldingAdviceProofs ---------------------------
(****************************************************************************)
(* Proofs about HoldingAdvice, for any observations, owners and financials: *)
(* the two ways to ask for the advice on a holding agree; an owner whose    *)
(* budget gets tighter is not told more strongly to raise the rent; a safer *)
(* neighborhood is no reason to intervene.                                  *)
(*                                                                          *)
(* The first is about the queries over one table.  The others follow a      *)
(* signal through the reaction and the policies.  Of the states all need    *)
(* only HInv, that rows of a subject and type are ordered by their days.    *)
(****************************************************************************)
EXTENDS HoldingAdvice, WellFoundedInduction, TLAPS

(****************************************************************************)
(* What a decision looks at.                                                *)
(****************************************************************************)
\* Of two snapshots that agree on the decision fields the same is made.
LEMMA DecideIgnoresLandPrice ==
    ASSUME NEW a, NEW b, a.found = b.found,
           \A f \in DecisionFields : a.market[f] = b.market[f]
    PROVE  Decide(a) = Decide(b)
<1>1. /\ a.market.inventory_pressure = b.market.inventory_pressure
      /\ a.market.safety_score = b.market.safety_score
      /\ a.market.median_rent = b.market.median_rent
  BY DEF DecisionFields, Fields
<1>2. ReactionVector(owner, a.market, fin.monthly_rent)
        = ReactionVector(owner, b.market, fin.monthly_rent)
  BY <1>1 DEF ReactionVector, Safety, Slack, RentGap
<1>3. Candidates(a, owner, fin) = Candidates(b, owner, fin)
  BY <1>1, <1>2 DEF Candidates, Evaluate, ListHold, Lease
<1>4. ComputeHoldingDecision(a, owner, fin) = ComputeHoldingDecision(b, owner, fin)
  BY <1>3 DEF ComputeHoldingDecision
<1>5. (\E f \in DecisionFields : a.market[f] # Missing)
         = (\E f \in DecisionFields : b.market[f] # Missing)
  OBVIOUS
<1>6. QED
  BY <1>4, <1>5 DEF Decide

--------------------------------------------------------------------------------
(****************************************************************************)
(* Arithmetic of units, and the two folds of the reaction.                  *)
(****************************************************************************)
LEMMA MaxOfTwo == \A a, b \in Int : Max({a, b}) = IF a >= b THEN a ELSE b
<1>1. SUFFICES ASSUME NEW a \in Int, NEW b \in Int PROVE Max({a, b}) = IF a >= b THEN a ELSE b
  OBVIOUS
<1>2. \E x \in {a, b} : \A y \in {a, b} : x >= y
  OBVIOUS
<1>3. Max({a, b}) \in {a, b} /\ \A y \in {a, b} : Max({a, b}) >= y
  BY <1>2 DEF Max
<1> QED BY <1>3

LEMMA MinOfTwo == \A a, b \in Int : Min({a, b}) = IF a <= b THEN a ELSE b
<1>1. SUFFICES ASSUME NEW a \in Int, NEW b \in Int PROVE Min({a, b}) = IF a <= b THEN a ELSE b
  OBVIOUS
<1>2. \E x \in {a, b} : \A y \in {a, b} : x <= y
  OBVIOUS
<1>3. Min({a, b}) \in {a, b} /\ \A y \in {a, b} : Min({a, b}) <= y
  BY <1>2 DEF Min
<1> QED BY <1>3

LEMMA Clamps ==
    \A x \in Int :
        /\ ClampUnit(x) = IF x < 0 THEN 0 ELSE IF x > Unit THEN Unit ELSE x
        /\ ClampSigned(x) = IF x < -Unit THEN -Unit ELSE IF x > Unit THEN Unit ELSE x
BY MaxOfTwo, MinOfTwo DEF ClampUnit, ClampSigned, Unit

\* The ranges that _clamp_unit and _clamp_signed promise.
LEMMA ClampRanges ==
    /\ \A x \in Int : ClampUnit(x) \in 0..Unit
    /\ \A x \in Int : ClampSigned(x) \in Int /\ -Unit <= ClampSigned(x) /\ ClampSigned(x) <= Unit
<1>1. ASSUME NEW x \in Int PROVE ClampUnit(x) \in 0..Unit
  <2>1. ClampUnit(x) = IF x < 0 THEN 0 ELSE IF x > Unit THEN Unit ELSE x
    BY Clamps
  <2> QED BY <2>1, SMTT(60) DEF Unit
<1>2. ASSUME NEW x \in Int
      PROVE  ClampSigned(x) \in Int /\ -Unit <= ClampSigned(x) /\ ClampSigned(x) <= Unit
  <2>1. ClampSigned(x) = IF x < -Unit THEN -Unit ELSE IF x > Unit THEN Unit ELSE x
    BY Clamps
  <2> QED BY <2>1 DEF Unit
<1> QED BY <1>1, <1>2

LEMMA Complements ==
    \A x, y \in 0..Unit :
       x <= y => Unit - y \in 0..Unit /\ Unit - x \in 0..Unit /\ Unit - y <= Unit - x
<1>1. ASSUME NEW u \in Nat, NEW x \in 0..u, NEW y \in 0..u, x <= y
      PROVE  u - y \in 0..u /\ u - x \in 0..u /\ u - y <= u - x
  <2>1. u \in Int /\ x \in Int /\ y \in Int /\ 0 <= x /\ x <= u /\ 0 <= y /\ y <= u
    BY <1>1
  <2>2. u - y \in Int /\ u - x \in Int /\ 0 <= u - y /\ u - y <= u /\ 0 <= u - x /\ u - x <= u
    BY <2>1
  <2>3. u - y <= u - x
    BY <1>1, <2>1
  <2> QED BY <2>1, <2>2, <2>3
<1>2. Unit \in Nat
  BY DEF Unit
<1> QED BY <1>1, <1>2

LEMMA UnitsAreInts == \A x \in 0..Unit : x \in Int /\ 0 <= x /\ x <= Unit
BY DEF Unit

\* Two deltas, one of the owner and one of the market, are clamped after each.  The
\* fold of the library is a recursive function on sets of indices.
LEMMA BatchOfTwo ==
    ASSUME NEW a \in Int, NEW b \in Int
    PROVE  ApplyBatch(<<a, b>>) = ClampSigned(ClampSigned(a) + b)
<1> DEFINE pair == <<a, b>>
           step(iter) == [s \in SUBSET {1, 2} |->
                            IF s = {} THEN 0
                            ELSE LET x == Max(s) IN ApplyDelta(iter[s \ {x}], pair[x])]
           folded == [s \in SUBSET {1, 2} |->
                        IF s = {} THEN 0
                        ELSE IF s = {1} THEN ApplyDelta(0, a)
                        ELSE IF s = {2} THEN ApplyDelta(0, b)
                        ELSE ApplyDelta(ApplyDelta(0, a), b)]
           fold == CHOOSE iter : iter = step(iter)
<1>1. SUBSET {1, 2} = {{}, {1}, {2}, {1, 2}}
  OBVIOUS
<1>2. Max({1}) = 1 /\ Max({2}) = 2 /\ Max({1, 2}) = 2
  <2>1. {1} = {1, 1} /\ {2} = {2, 2}
    OBVIOUS
  <2> QED BY <2>1, MaxOfTwo
<1>3. folded = step(folded)
  <2>1. ASSUME NEW s \in SUBSET {1, 2} PROVE folded[s] = step(folded)[s]
    <3>1. CASE s = {}
      BY <3>1
    <3>2. CASE s = {1}
      BY <3>2, <1>2
    <3>3. CASE s = {2}
      BY <3>3, <1>2
    <3>4. CASE s = {1, 2}
      BY <3>4, <1>2
    <3> QED BY <1>1, <3>1, <3>2, <3>3, <3>4
  <2> QED BY <2>1
<1>4. fold = step(fold)
  BY <1>3
<1>5. fold[{}] = 0 /\ fold[{1}] = ApplyDelta(fold[{}], a) /\ fold[{1, 2}] = ApplyDelta(fold[{1}], b)
  <2>1. fold[{}] = 0
    BY <1>4
  <2>2. fold[{1}] = ApplyDelta(fold[{}], a)
    <3>1. {1} \in SUBSET {1, 2} /\ {1} # {} /\ {1} \ {1} = {} /\ pair[1] = a
      OBVIOUS
    <3>2. fold[{1}] = ApplyDelta(fold[{1} \ {Max({1})}], pair[Max({1})])
      BY <1>4, <3>1
    <3> QED BY <3>1, <3>2, <1>2
  <2>3. fold[{1, 2}] = ApplyDelta(fold[{1}], b)
    <3>1. {1, 2} \in SUBSET {1, 2} /\ {1, 2} # {} /\ {1, 2} \ {2} = {1} /\ pair[2] = b
      OBVIOUS
    <3>2. fold[{1, 2}] = ApplyDelta(fold[{1, 2} \ {Max({1, 2})}], pair[Max({1, 2})])
      BY <1>4, <3>1
    <3> QED BY <3>1, <3>2, <1>2
  <2> QED BY <2>1, <2>2, <2>3
<1>6. ApplyBatch(pair) = fold[{1, 2}]
  <2>1. DOMAIN pair = {1, 2}
    OBVIOUS
  <2> QED BY <2>1 DEF ApplyBatch, FoldLeft, MapThenFoldSet
<1> QED BY <1>5, <1>6 DEF ApplyDelta

\* cohort_signals of a cohort of one is that one's signals.
LEMMA CohortOfOne ==
    ASSUME NEW member, NEW v \in DOMAIN member, member[v] \in Int
    PROVE  /\ CohortSignals(<<member>>)[v] = member[v]
           /\ DOMAIN CohortSignals(<<member>>) = DOMAIN member
<1> DEFINE one == <<member>>
           step(iter) == [s \in SUBSET {1} |->
                            IF s = {} THEN 0
                            ELSE LET x == Max(s) IN iter[s \ {x}] + one[x][v]]
           folded == [s \in SUBSET {1} |-> IF s = {} THEN 0 ELSE 0 + member[v]]
           fold == CHOOSE iter : iter = step(iter)
<1>1. SUBSET {1} = {{}, {1}} /\ Max({1}) = 1 /\ one[1] = member
  <2>1. {1} = {1, 1}
    OBVIOUS
  <2> QED BY <2>1, MaxOfTwo
<1>2. folded = step(folded)
  <2>1. ASSUME NEW s \in SUBSET {1} PROVE folded[s] = step(folded)[s]
    <3>1. CASE s = {}
      BY <3>1
    <3>2. CASE s = {1}
      BY <3>2, <1>1
    <3> QED BY <1>1, <3>1, <3>2
  <2> QED BY <2>1
<1>3. fold = step(fold)
  BY <1>2
<1>4. fold[{1}] = member[v]
  <2>1. fold[{}] = 0
    BY <1>3
  <2>2. {1} \in SUBSET {1} /\ {1} # {} /\ {1} \ {1} = {}
    OBVIOUS
  <2>3. fold[{1}] = fold[{1} \ {Max({1})}] + one[Max({1})][v]
    BY <1>3, <2>2
  <2>4. {1} \ {Max({1})} = {} /\ one[Max({1})] = member
    BY <1>1
  <2>5. fold[{1}] = fold[{}] + member[v]
    BY <2>3, <2>4
  <2> QED BY <2>1, <2>5
<1>5. FoldLeft(LAMBDA sum, m : sum + m[v], 0, one) = fold[{1}]
  <2>1. DOMAIN one = {1}
    OBVIOUS
  <2> QED BY <2>1 DEF FoldLeft, MapThenFoldSet
<1>6. Head(one) = member /\ Len(one) = 1 /\ member[v] \div 1 = member[v]
  OBVIOUS
<1> QED BY <1>4, <1>5, <1>6 DEF CohortSignals

\* The signals of an owner as the reaction takes them.
LEMMA ActorSignals ==
    ASSUME NEW o \in Owners
    PROVE  /\ Pressure(o) \in 0..Unit /\ Willingness(o) \in 0..Unit
           /\ \A v \in {"affordability_pressure", "displacement_concern",
                        "willingness_to_transact"} :
                 BuildActorState(o)[v] = UserProfileSignals(o)[v]
           /\ DOMAIN BuildActorState(o) =
                 {"affordability_pressure", "displacement_concern", "willingness_to_transact"}
<1>1. o.budget_min \in Nat /\ o.budget_max \in Nat /\ o.urgent \in BOOLEAN
  BY OwnersAssumption
<1>2. Pressure(o) \in 0..Unit
  <2> DEFINE spread == Max({o.budget_max - o.budget_min, 0})
             tightness == IF o.budget_max > 0
                          THEN ClampUnit(Unit - (spread * Unit) \div o.budget_max)
                          ELSE Unit \div 2
  <2>1. spread \in Nat
    BY <1>1, MaxOfTwo
  <2>2. o.budget_max > 0 => Unit - (spread * Unit) \div o.budget_max \in Int
    <3> HIDE DEF spread
    <3> QED BY <1>1, <2>1 DEF Unit
  <2>3. tightness \in 0..Unit
    <3>1. Unit \div 2 \in 0..Unit
      BY DEF Unit
    <3> HIDE DEF spread
    <3> QED BY <2>2, <3>1, ClampRanges
  <2>4. ClampUnit(tightness + 2000) \in 0..Unit
    <3> HIDE DEF tightness
    <3>1. tightness + 2000 \in Int
      BY <2>3 DEF Unit
    <3> QED BY <3>1, ClampRanges
  <2>5. Pressure(o) = IF o.urgent THEN ClampUnit(tightness + 2000) ELSE tightness
    BY DEF Pressure
  <2> QED BY <2>3, <2>4, <2>5
<1>3. Willingness(o) \in 0..Unit
  <2>1. 6000 + ((Unit - Pressure(o)) * 3) \div 10 \in Int
    <3>1. Pressure(o) \in Int
      BY <1>2, UnitsAreInts
    <3> QED BY <3>1 DEF Unit
  <2>2. 5000 + (Optimism * 4) \div 10 \in Int /\ Unit \div 2 \in 0..Unit
    BY DEF Unit, Optimism
  <2> QED BY <2>1, <2>2, ClampRanges DEF Willingness
<1>4. DOMAIN UserProfileSignals(o) =
          {"affordability_pressure", "displacement_concern", "willingness_to_transact"}
  BY DEF UserProfileSignals
<1>5. \A v \in DOMAIN UserProfileSignals(o) : UserProfileSignals(o)[v] \in Int
  <2>0. Pressure(o) \in Int /\ Willingness(o) \in Int
    BY <1>2, <1>3, UnitsAreInts
  <2>1. Pressure(o) \div 2 \in Int
    BY <2>0
  <2> QED BY <2>0, <2>1 DEF UserProfileSignals
<1> QED BY <1>2, <1>3, <1>4, <1>5, CohortOfOne DEF BuildActorState

--------------------------------------------------------------------------------
(****************************************************************************)
(* The reaction vector, variable by variable, and how it follows the owner. *)
(****************************************************************************)
\* What ActorDelta makes of a signal.
Centred(signal) == IF signal # 0 THEN 2 * signal - Unit ELSE 0

\* What a snapshot holds: readings that are not negative, or None.
Readable(market) == \A f \in Fields : market[f] \in Nat \cup {Missing}

\* A reaction to the owner's signal and the market's.
LEMMA ActorDeltas ==
    ASSUME NEW o \in Owners
    PROVE  /\ ActorDelta(o, "affordability_pressure") = Centred(Pressure(o))
           /\ ActorDelta(o, "displacement_concern") = Centred(Pressure(o) \div 2)
           /\ ActorDelta(o, "willingness_to_transact") = Centred(Willingness(o))
           /\ ActorDelta(o, "perceived_safety") = 0
           /\ ActorDelta(o, "investor_optimism") = 0
<1>1. /\ UserProfileSignals(o)["affordability_pressure"] = Pressure(o)
      /\ UserProfileSignals(o)["displacement_concern"] = Pressure(o) \div 2
      /\ UserProfileSignals(o)["willingness_to_transact"] = Willingness(o)
  BY DEF UserProfileSignals
<1> QED BY <1>1, ActorSignals DEF ActorDelta, Centred

LEMMA CentredInt ==
    /\ \A x \in 0..Unit : Centred(x) \in Int
    /\ \A x, y \in 0..Unit : 0 < x /\ x <= y => Centred(x) <= Centred(y)
<1>1. ASSUME NEW x \in 0..Unit PROVE Centred(x) \in Int
  <2>1. x \in Int /\ 2 * x - Unit \in Int
    BY DEF Unit
  <2> QED BY <2>1 DEF Centred
<1>2. ASSUME NEW x \in 0..Unit, NEW y \in 0..Unit, 0 < x, x <= y PROVE Centred(x) <= Centred(y)
  <2>1. x # 0 /\ y # 0 /\ 2 * x - Unit <= 2 * y - Unit
    BY <1>2 DEF Unit
  <2> QED BY <2>1 DEF Centred
<1> QED BY <1>1, <1>2

LEMMA MarketDeltas ==
    ASSUME NEW m, Readable(m), NEW rent \in Nat \cup {Missing}
    PROVE  /\ Safety(m) \in Int /\ -Unit <= Safety(m) /\ Safety(m) <= Unit
           /\ Slack(m) \in Int /\ RentGap(m, rent) \in Int
<1>1. /\ m.safety_score \in Nat \cup {Missing} /\ m.inventory_pressure \in Nat \cup {Missing}
      /\ m.median_rent \in Nat \cup {Missing}
  BY DEF Readable, Fields
<1>2. Safety(m) \in Int /\ -Unit <= Safety(m) /\ Safety(m) <= Unit
  <2>1. CASE m.safety_score = Missing
    BY <2>1 DEF Safety, Unit
  <2>2. CASE m.safety_score # Missing
    <3>1. m.safety_score \div 5 - Unit \in Int
      <4>1. m.safety_score \in Nat
        BY <1>1, <2>2
      <4> QED BY <4>1 DEF Unit
    <3> QED BY <2>2, <3>1, ClampRanges DEF Safety
  <2> QED BY <2>1, <2>2
<1>3. Slack(m) \in Int
  <2>1. CASE m.inventory_pressure = Missing
    BY <2>1 DEF Slack
  <2>2. CASE m.inventory_pressure # Missing
    <3>1. Unit - 2 * m.inventory_pressure \in Int
      <4>1. m.inventory_pressure \in Nat
        BY <1>1, <2>2
      <4> QED BY <4>1 DEF Unit
    <3> QED BY <2>2, <3>1, ClampRanges DEF Slack
  <2> QED BY <2>1, <2>2
<1>4. RentGap(m, rent) \in Int
  <2>1. CASE m.median_rent \in {Missing, 0} \/ rent \in {Missing, 0}
    BY <2>1 DEF RentGap
  <2>2. CASE ~(m.median_rent \in {Missing, 0} \/ rent \in {Missing, 0})
    <3>1. ((rent - m.median_rent) * Unit) \div m.median_rent \in Int
      <4>1. m.median_rent \in Nat /\ m.median_rent > 0 /\ rent \in Nat
        BY <1>1, <2>2
      <4> DEFINE difference == (rent - m.median_rent) * Unit
      <4>2. difference \in Int
        BY <4>1 DEF Unit
      <4>3. difference \div m.median_rent \in Int
        <5> HIDE DEF difference
        <5> QED BY <4>1, <4>2
      <4> QED BY <4>3
    <3> QED BY <2>2, <3>1, ClampRanges DEF RentGap
  <2> QED BY <2>1, <2>2
<1> QED BY <1>2, <1>3, <1>4

\* The vector, variable by variable.
LEMMA Vector ==
    ASSUME NEW o \in Owners, NEW m, Readable(m), NEW rent \in Nat \cup {Missing}
    PROVE  LET r == ReactionVector(o, m, rent)
           IN  /\ r.affordability_pressure
                    = ClampSigned(ClampSigned(Centred(Pressure(o))) + RentGap(m, rent))
               /\ r.displacement_concern
                    = ClampSigned(ClampSigned(Centred(Pressure(o) \div 2)) - Safety(m))
               /\ r.willingness_to_transact
                    = ClampSigned(ClampSigned(Centred(Willingness(o))) + Slack(m))
               /\ r.perceived_safety = Safety(m)
               /\ r.investor_optimism = ClampSigned(Slack(m))
<1>0. /\ Pressure(o) \in 0..Unit /\ Willingness(o) \in 0..Unit /\ Pressure(o) \div 2 \in 0..Unit
  <2>1. Pressure(o) \in 0..Unit /\ Willingness(o) \in 0..Unit
    BY ActorSignals
  <2>2. \A x \in 0..Unit : x \div 2 \in 0..Unit
    BY DEF Unit
  <2> QED BY <2>1, <2>2
<1>1. /\ Centred(Pressure(o)) \in Int /\ Centred(Willingness(o)) \in Int
      /\ Centred(Pressure(o) \div 2) \in Int
  BY <1>0, CentredInt
<1>2. Safety(m) \in Int /\ Slack(m) \in Int /\ RentGap(m, rent) \in Int /\ -Safety(m) \in Int
      /\ -Unit <= Safety(m) /\ Safety(m) <= Unit
  BY MarketDeltas
<1>3. ClampSigned(0) = 0 /\ ClampSigned(0 + Safety(m)) = Safety(m)
      /\ ClampSigned(0 + Slack(m)) = ClampSigned(Slack(m))
  <2>1. 0 + Safety(m) = Safety(m) /\ 0 + Slack(m) = Slack(m)
    BY <1>2
  <2>2. ClampSigned(Safety(m)) = Safety(m) /\ ClampSigned(0) = 0
    BY <1>2, Clamps DEF Unit
  <2> QED BY <2>1, <2>2
<1>4. ReactionVector(o, m, rent).affordability_pressure
        = ClampSigned(ClampSigned(Centred(Pressure(o))) + RentGap(m, rent))
  BY <1>1, <1>2, BatchOfTwo, ActorDeltas DEF ReactionVector
<1>5. ReactionVector(o, m, rent).displacement_concern
        = ClampSigned(ClampSigned(Centred(Pressure(o) \div 2)) - Safety(m))
  <2>1. ClampSigned(Centred(Pressure(o) \div 2)) \in Int
    BY <1>1, ClampRanges
  <2>2. ClampSigned(Centred(Pressure(o) \div 2)) + (-Safety(m))
           = ClampSigned(Centred(Pressure(o) \div 2)) - Safety(m)
    BY <1>2, <2>1
  <2> QED BY <1>1, <1>2, <2>2, BatchOfTwo, ActorDeltas DEF ReactionVector
<1>6. ReactionVector(o, m, rent).willingness_to_transact
        = ClampSigned(ClampSigned(Centred(Willingness(o))) + Slack(m))
  BY <1>1, <1>2, BatchOfTwo, ActorDeltas DEF ReactionVector
<1>7. ReactionVector(o, m, rent).perceived_safety = Safety(m)
  <2>1. ApplyBatch(<<0, Safety(m)>>) = ClampSigned(0 + Safety(m))
    BY <1>2, <1>3, BatchOfTwo
  <2> QED BY <1>3, <2>1, ActorDeltas DEF ReactionVector
<1>8. ReactionVector(o, m, rent).investor_optimism = ClampSigned(Slack(m))
  <2>1. ApplyBatch(<<0, Slack(m)>>) = ClampSigned(0 + Slack(m))
    BY <1>2, <1>3, BatchOfTwo
  <2> QED BY <1>3, <2>1, ActorDeltas DEF ReactionVector
<1> QED BY <1>4, <1>5, <1>6, <1>7, <1>8

\* Clamping keeps the order.
LEMMA ClampsKeepOrder ==
    \A x, y \in Int : x <= y => ClampSigned(x) <= ClampSigned(y) /\ ClampUnit(x) <= ClampUnit(y)
BY Clamps DEF Unit

\* A tighter owner feels rents more and, in the same role, transacts less gladly.
LEMMA TighterOwnerReacts ==
    ASSUME NEW o \in Owners, NEW t \in Owners, NEW m, Readable(m),
           NEW rent \in Nat \cup {Missing},
           t.role = o.role, 0 < Pressure(o), Pressure(o) < Pressure(t)
    PROVE  /\ ReactionVector(o, m, rent).affordability_pressure
                 <= ReactionVector(t, m, rent).affordability_pressure
           /\ ReactionVector(t, m, rent).willingness_to_transact
                 <= ReactionVector(o, m, rent).willingness_to_transact
<1> DEFINE po == Pressure(o)
           pt == Pressure(t)
           wo == Willingness(o)
           wt == Willingness(t)
<1>0. /\ po \in 0..Unit /\ pt \in 0..Unit /\ wo \in 0..Unit /\ wt \in 0..Unit
      /\ RentGap(m, rent) \in Int /\ Slack(m) \in Int
  BY ActorSignals, MarketDeltas
<1>1. \A x, y, d \in Int :
         x <= y => ClampSigned(ClampSigned(x) + d) <= ClampSigned(ClampSigned(y) + d)
  <2>1. SUFFICES ASSUME NEW x \in Int, NEW y \in Int, NEW d \in Int, x <= y
                 PROVE  ClampSigned(ClampSigned(x) + d) <= ClampSigned(ClampSigned(y) + d)
    OBVIOUS
  <2>2. ClampSigned(x) \in Int /\ ClampSigned(y) \in Int /\ ClampSigned(x) <= ClampSigned(y)
    BY <2>1, ClampRanges, ClampsKeepOrder
  <2>3. ClampSigned(x) + d \in Int /\ ClampSigned(y) + d \in Int
        /\ ClampSigned(x) + d <= ClampSigned(y) + d
    BY <2>2
  <2> QED BY <2>3, ClampsKeepOrder
<1>2. Centred(po) \in Int /\ Centred(pt) \in Int /\ Centred(wo) \in Int /\ Centred(wt) \in Int
  BY <1>0, CentredInt
<1>3. Centred(po) <= Centred(pt)
  BY <1>0, CentredInt, UnitsAreInts
<1>4. Centred(wt) <= Centred(wo)
  <2>1. wt <= wo /\ 0 < wt
    <3>1. CASE ActorType(o.role) = "SELLER"
      <4> DEFINE so == 6000 + ((Unit - po) * 3) \div 10
                 st == 6000 + ((Unit - pt) * 3) \div 10
      <4>1. wo = ClampUnit(so) /\ wt = ClampUnit(st)
        BY <3>1 DEF Willingness
      <4>2. so \in Int /\ st \in Int /\ st <= so /\ 0 < st
        <5>1. \A x, y \in 0..Unit : x < y =>
                 /\ 6000 + ((Unit - x) * 3) \div 10 \in Int
                 /\ 6000 + ((Unit - y) * 3) \div 10 \in Int
                 /\ 6000 + ((Unit - y) * 3) \div 10 <= 6000 + ((Unit - x) * 3) \div 10
                 /\ 0 < 6000 + ((Unit - y) * 3) \div 10
          BY SMTT(60) DEF Unit
        <5> HIDE DEF po, pt
        <5>2. po < pt
          BY DEF po, pt
        <5> QED BY <5>1, <5>2, <1>0
      <4> HIDE DEF so, st, wo, wt
      <4>3. wt <= wo
        BY <4>1, <4>2, ClampsKeepOrder
      <4>4. 0 < ClampUnit(st)
        BY <4>2, Clamps DEF Unit
      <4> QED BY <4>1, <4>3, <4>4
    <3>2. CASE ActorType(o.role) = "BUYER"
      <4>1. wo = ClampUnit(5000 + (Optimism * 4) \div 10) /\ wt = wo
        BY <3>2 DEF Willingness
      <4>2. 5000 + (Optimism * 4) \div 10 = 7000
        BY DEF Optimism, Unit
      <4>3. ClampUnit(7000) = 7000
        BY Clamps DEF Unit
      <4> QED BY <4>1, <4>2, <4>3
    <3>3. CASE ActorType(o.role) \notin {"SELLER", "BUYER"}
      <4>1. wo = Unit \div 2 /\ wt = wo
        BY <3>3 DEF Willingness
      <4> QED BY <4>1 DEF Unit
    <3> QED BY <3>1, <3>2, <3>3
  <2> HIDE DEF wo, wt
  <2> QED BY <2>1, <1>0, CentredInt
<1> HIDE DEF po, pt, wo, wt
<1>5. ClampSigned(ClampSigned(Centred(po)) + RentGap(m, rent))
         <= ClampSigned(ClampSigned(Centred(pt)) + RentGap(m, rent))
  BY <1>0, <1>1, <1>2, <1>3
<1>6. ClampSigned(ClampSigned(Centred(wt)) + Slack(m))
         <= ClampSigned(ClampSigned(Centred(wo)) + Slack(m))
  BY <1>0, <1>1, <1>2, <1>4
<1> QED BY <1>5, <1>6, Vector DEF po, pt, wo, wt

--------------------------------------------------------------------------------
(****************************************************************************)
(* The states: what a snapshot holds.                                       *)
(****************************************************************************)
\* Rows have a newest, since a row that is written is either the newest or leaves
\* the newest in place.
HInv ==
    /\ rows \subseteq Observations /\ property \in Keys
    /\ holding \in [linked: BOOLEAN, zip: BOOLEAN]
    /\ owner \in Owners /\ fin \in Financials
    /\ \A r, q \in rows : r.kind = q.kind /\ r.subject = q.subject /\ r.day = q.day => r = q
    /\ \A found \in SUBSET rows :
          found # {} => \E r \in found : \A q \in found : q.day <= r.day

\* Whatever is observed and edited, HInv holds.
THEOREM AdviceInvariance == Spec => []HInv
<1>1. Init => HInv
  BY DEF Init, HInv
<1>2. HInv /\ [Next]_vars => HInv'
  <2> SUFFICES ASSUME HInv, [Next]_vars PROVE HInv'
    OBVIOUS
  <2>1. CASE Observe
    <3>1. PICK o \in Observations : Upsert(o) /\ UNCHANGED <<property, holding, owner, fin>>
      BY <2>1 DEF Observe
    <3>2. rows' \subseteq Observations /\ \A r \in rows' : r \in rows \/ r = o
      BY <3>1 DEF Upsert, HInv
    <3>3. ASSUME NEW found \in SUBSET rows', found # {}
          PROVE  \E r \in found : \A q \in found : q.day <= r.day
      <4>1. \A r \in found : r.day \in Nat
        BY <3>2, ObservationsAssumption
      <4>2. CASE found \ {o} = {}
        <5>1. o \in found /\ \A q \in found : q = o
          BY <3>3, <4>2
        <5> QED BY <4>1, <5>1
      <4>3. CASE found \ {o} # {}
        <5>1. found \ {o} \in SUBSET rows
          BY <3>2
        <5>2. PICK r \in found \ {o} : \A q \in found \ {o} : q.day <= r.day
          BY <4>3, <5>1 DEF HInv
        <5>3. CASE o \in found /\ r.day <= o.day
          <6>1. o.day \in Nat /\ r.day \in Nat
            BY <4>1, <5>2, <5>3
          <6>2. \A q \in found : q.day <= o.day
            BY <4>1, <5>2, <5>3, <6>1
          <6> QED BY <5>3, <6>2
        <5>4. CASE ~(o \in found /\ r.day <= o.day)
          <6>1. \A q \in found : q.day <= r.day
            BY <4>1, <5>2, <5>4
          <6> QED BY <5>2, <6>1
        <5> QED BY <5>3, <5>4
      <4> QED BY <4>2, <4>3
    <3>4. \A r, q \in rows' : r.kind = q.kind /\ r.subject = q.subject /\ r.day = q.day => r = q
      BY <3>1 DEF Upsert, HInv
    <3> QED BY <3>1, <3>2, <3>3, <3>4 DEF HInv
  <2>2. CASE EditOwner \/ EditFinancials
    BY <2>2 DEF EditOwner, EditFinancials, HInv
  <2>5. CASE LinkProperty
    <3>1. holding' \in [linked: BOOLEAN, zip: BOOLEAN]
      BY <2>5 DEF LinkProperty, HInv
    <3> QED BY <2>5, <3>1 DEF LinkProperty, HInv
  <2>3. CASE EditProperty
    BY <2>3 DEF EditProperty, HInv
  <2>4. CASE UNCHANGED vars
    BY <2>4 DEF vars, HInv
  <2> QED BY <2>1, <2>2, <2>3, <2>4, <2>5 DEF Next
<1> QED BY <1>1, <1>2, PTL DEF Spec

\* What signals say of a type, if they are rows of the table.
LEMMA ReadingInRange ==
    ASSUME HInv, NEW signals \in SUBSET rows, NEW f
    PROVE  Reading(signals, f) \in Nat \cup {Missing}
<1>1. CASE \E r \in signals : r.kind = f
  <2>1. (CHOOSE r \in signals : r.kind = f) \in Observations
    BY <1>1 DEF HInv
  <2> QED BY <1>1, <2>1, ObservationsAssumption DEF Reading
<1>2. CASE ~\E r \in signals : r.kind = f
  BY <1>2 DEF Reading
<1> QED BY <1>1, <1>2

\* The fields of a market.
LEMMA ComposedField ==
    ASSUME NEW byKey, NEW f \in Fields
    PROVE  LET known == {i \in DOMAIN property :
                            Reading(SignalsOf(byKey, property[i]), f) # Missing}
           IN  Compose(byKey)[f] = IF known = {} THEN Missing
                                   ELSE Reading(SignalsOf(byKey, property[Min(known)]), f)
<1>1. CASE f = "inventory_pressure"
  BY <1>1 DEF Compose, Market
<1>2. CASE f = "safety_score"
  BY <1>2 DEF Compose, Market
<1>3. CASE f = "median_rent"
  BY <1>3 DEF Compose, Market
<1>4. CASE f = "median_sale_price"
  BY <1>4 DEF Compose, Market
<1>5. CASE f = "land_price_psm"
  BY <1>5 DEF Compose, Market
<1> QED BY <1>1, <1>2, <1>3, <1>4, <1>5 DEF Fields

LEMMA FirstOfTwo == \A known \in SUBSET {1, 2} : known # {} => Min(known) \in known
<1>1. SUFFICES ASSUME NEW known \in SUBSET {1, 2}, known # {} PROVE Min(known) \in known
  OBVIOUS
<1>2. known = {1, 1} \/ known = {2, 2} \/ known = {1, 2}
  BY <1>1
<1>3. Min({1, 1}) = 1 /\ Min({2, 2}) = 2 /\ Min({1, 2}) = 1
  BY MinOfTwo
<1>4. 1 \in {1, 1} /\ 2 \in {2, 2} /\ 1 \in {1, 2}
  OBVIOUS
<1>5. CASE known = {1, 1}
  BY <1>3, <1>4, <1>5
<1>6. CASE known = {2, 2}
  BY <1>3, <1>4, <1>6
<1>7. CASE known = {1, 2}
  BY <1>3, <1>4, <1>7
<1> QED BY <1>2, <1>5, <1>6, <1>7

\* The rows of the zip that _snapshot_from_zip considers for a field.
KnownOfZip(f) == {r \in rows : r.subject = "zip" /\ r.kind = f /\ r.value # Missing}
NewestRow(found) == CHOOSE r \in found : \A q \in found : q.day <= r.day

LEMMA NewestRowIsThere ==
    ASSUME HInv, NEW found \in SUBSET rows, found # {}
    PROVE  NewestRow(found) \in found /\ \A q \in found : q.day <= NewestRow(found).day
BY DEF HInv, NewestRow

LEMMA ZipSnapshot ==
    /\ SnapshotFromZip(rows).found = TRUE
    /\ DOMAIN SnapshotFromZip(rows).market = Fields
    /\ \A f \in Fields :
          SnapshotFromZip(rows).market[f] =
             IF f \in DecisionFields /\ KnownOfZip(f) # {}
             THEN NewestRow(KnownOfZip(f)).value ELSE Missing
BY DEF SnapshotFromZip, Found, Market, KnownOfZip, NewestRow, Fields

\* So a snapshot is Readable, whichever way it is composed.
LEMMA SnapshotReadable ==
    ASSUME HInv
    PROVE  Readable(ResolveSnapshot(rows).market)
<1>1. CASE holding.linked
  <2> DEFINE byKey == [k \in KeySet |-> LatestSignalsFor(rows, k)]
  <2>2. \A k : SignalsOf(byKey, k) \in SUBSET rows
    BY DEF SignalsOf, LatestSignalsFor
  <2>4. ASSUME NEW f \in Fields PROVE Compose(byKey)[f] \in Nat \cup {Missing}
    <3> HIDE DEF byKey
    <3>1. \A k : Reading(SignalsOf(byKey, k), f) \in Nat \cup {Missing}
      BY <2>2, ReadingInRange
    <3> QED BY <3>1, ComposedField
  <2>5. ResolveSnapshot(rows).market = Compose(byKey)
    BY <1>1 DEF ResolveSnapshot, BuildSnapshot, Found
  <2> HIDE DEF byKey
  <2> QED BY <2>4, <2>5 DEF Readable
<1>2. CASE ~holding.linked /\ holding.zip
  <2>1. ResolveSnapshot(rows) = SnapshotFromZip(rows)
    BY <1>2 DEF ResolveSnapshot
  <2>2. ASSUME NEW f \in Fields, KnownOfZip(f) # {}
        PROVE  NewestRow(KnownOfZip(f)).value \in Nat
    <3>1. KnownOfZip(f) \in SUBSET rows
      BY DEF KnownOfZip
    <3>2. NewestRow(KnownOfZip(f)) \in KnownOfZip(f)
      BY <2>2, <3>1, NewestRowIsThere
    <3>3. NewestRow(KnownOfZip(f)) \in Observations /\ NewestRow(KnownOfZip(f)).value # Missing
      BY <3>2 DEF KnownOfZip, HInv
    <3> QED BY <3>3, ObservationsAssumption
  <2> QED BY <2>1, <2>2, ZipSnapshot DEF Readable
<1>3. CASE ~holding.linked /\ ~holding.zip
  <2>1. ResolveSnapshot(rows).market = Unknown
    BY <1>3 DEF ResolveSnapshot, NotFound
  <2> QED BY <2>1 DEF Unknown, Market, Readable, Fields
<1> QED BY <1>1, <1>2, <1>3

--------------------------------------------------------------------------------
(****************************************************************************)
(* The two ways to ask.                                                     *)
(****************************************************************************)
\* The query over all keys files for each what the query of that key keeps.
LEMMA QueriesAgree ==
    ASSUME NEW keys, NEW k \in keys
    PROVE  SignalsOf(LatestSignalsBulk(rows, keys), k) = LatestSignalsFor(rows, k)
<1> DEFINE found == {r \in rows : r.subject \in keys}
           bulk == LatestSignalsBulk(rows, keys)
<1>1. bulk = [s \in {r.subject : r \in found} |->
                 {r \in found :
                     /\ r.subject = s
                     /\ \A q \in found : q.subject = s /\ q.kind = r.kind => q.day <= r.day}]
  BY DEF LatestSignalsBulk
<1>2. CASE k \in {r.subject : r \in found}
  <2>1. SignalsOf(bulk, k) =
           {r \in found : /\ r.subject = k
                          /\ \A q \in found : q.subject = k /\ q.kind = r.kind => q.day <= r.day}
    BY <1>1, <1>2 DEF SignalsOf
  <2> QED BY <2>1 DEF LatestSignalsFor
<1>3. CASE k \notin {r.subject : r \in found}
  <2>1. SignalsOf(bulk, k) = {}
    BY <1>1, <1>3 DEF SignalsOf
  <2>2. \A r \in rows : r.subject # k
    BY <1>3
  <2> QED BY <2>1, <2>2 DEF LatestSignalsFor
<1> QED BY <1>2, <1>3

\* Of the newest signals of a subject, the one of a type says what the newest row
\* says, if that row is the newest of those with a value.
LEMMA NewestReading ==
    ASSUME HInv, NEW f,
           \A r, q \in rows : ~(/\ r.subject = "zip" /\ q.subject = "zip" /\ r.kind = q.kind
                               /\ r.value = Missing /\ q.value # Missing /\ q.day < r.day)
    PROVE  Reading(LatestSignalsFor(rows, "zip"), f) =
              IF KnownOfZip(f) # {} THEN NewestRow(KnownOfZip(f)).value ELSE Missing
<1> DEFINE all == {r \in rows : r.subject = "zip" /\ r.kind = f}
           signals == LatestSignalsFor(rows, "zip")
           top == NewestRow(all)
<1>0. \A r \in rows : r.day \in Nat
  BY ObservationsAssumption DEF HInv
<1>1. CASE all = {}
  <2>1. KnownOfZip(f) = {}
    BY <1>1 DEF KnownOfZip
  <2>2. ~\E r \in signals : r.kind = f
    BY <1>1 DEF LatestSignalsFor
  <2> QED BY <2>1, <2>2 DEF Reading
<1>2. CASE all # {}
  <2>1. top \in all /\ \A q \in all : q.day <= top.day
    <3>1. all \in SUBSET rows
      OBVIOUS
    <3> HIDE DEF all
    <3> QED BY <1>2, <3>1, NewestRowIsThere
  <2> HIDE DEF top
  <2>2. \A r \in signals : r.kind = f => r = top
    <3>1. ASSUME NEW r \in signals, r.kind = f PROVE r = top
      <4>1. r \in all /\ top.day <= r.day
        BY <2>1, <3>1 DEF LatestSignalsFor
      <4>2. r.day = top.day
        <5>1. r.day <= top.day /\ r.day \in Nat /\ top.day \in Nat
          BY <1>0, <2>1, <4>1
        <5> QED BY <4>1, <5>1
      <4> QED BY <2>1, <4>1, <4>2 DEF HInv
    <3> QED BY <3>1
  <2>3. top \in signals /\ top.kind = f
    BY <2>1 DEF LatestSignalsFor
  <2>4. Reading(signals, f) = top.value
    <3>1. (CHOOSE r \in signals : r.kind = f) \in signals
          /\ (CHOOSE r \in signals : r.kind = f).kind = f
      BY <2>3
    <3>2. (CHOOSE r \in signals : r.kind = f) = top
      BY <2>2, <3>1
    <3> QED BY <2>3, <3>2 DEF Reading
  <2>5. CASE KnownOfZip(f) = {}
    <3>1. top.value = Missing
      BY <2>1, <2>5 DEF KnownOfZip
    <3> QED BY <2>4, <2>5, <3>1
  <2>6. CASE KnownOfZip(f) # {}
    <3>1. /\ NewestRow(KnownOfZip(f)) \in KnownOfZip(f)
          /\ \A q \in KnownOfZip(f) : q.day <= NewestRow(KnownOfZip(f)).day
      <4>1. KnownOfZip(f) \in SUBSET rows
        BY DEF KnownOfZip
      <4> QED BY <2>6, <4>1, NewestRowIsThere
    <3> DEFINE best == NewestRow(KnownOfZip(f))
    <3>2. best \in all /\ best.value # Missing /\ best.day \in Nat /\ top.day \in Nat
      BY <1>0, <2>1, <3>1 DEF KnownOfZip
    <3> HIDE DEF best
    <3>3. ~(best.day < top.day) \/ top.value # Missing
      BY <2>1, <3>2
    <3>4. best.day <= top.day
      BY <2>1, <3>2
    <3>5. CASE best.day = top.day
      <4>1. best = top
        BY <2>1, <3>2, <3>5 DEF HInv
      <4> QED BY <2>4, <2>6, <4>1 DEF best
    <3>6. CASE top.value # Missing
      <4>1. top \in KnownOfZip(f)
        BY <2>1, <3>6 DEF KnownOfZip
      <4>2. top.day <= best.day
        BY <3>1, <4>1 DEF best
      <4>3. best.day = top.day
        BY <3>2, <3>4, <4>2
      <4> QED BY <3>5, <4>3
    <3>7. best.day = top.day \/ top.value # Missing
      BY <3>2, <3>3, <3>4
    <3> QED BY <3>5, <3>6, <3>7
  <2> QED BY <2>5, <2>6
<1> QED BY <1>1, <1>2

\* The snapshot that each way reads is the same in what a decision looks at.
LEMMA SnapshotsAgree ==
    ASSUME HInv,
           holding.linked \/
           \A r, q \in rows : ~(/\ r.subject = "zip" /\ q.subject = "zip" /\ r.kind = q.kind
                               /\ r.value = Missing /\ q.value # Missing /\ q.day < r.day)
    PROVE  LET one == ResolveSnapshot(rows)
               bulk == ResolveSnapshotBulk(rows)
           IN  /\ one.found = bulk.found
               /\ \A f \in DecisionFields : one.market[f] = bulk.market[f]
<1>1. CASE holding.linked
  <2> DEFINE one == [k \in KeySet |-> LatestSignalsFor(rows, k)]
             bulk == LatestSignalsBulk(rows, KeySet)
  <2>1. \A i \in DOMAIN property : SignalsOf(one, property[i]) = SignalsOf(bulk, property[i])
    <3>1. ASSUME NEW k \in KeySet PROVE SignalsOf(one, k) = SignalsOf(bulk, k)
      <4>1. SignalsOf(one, k) = LatestSignalsFor(rows, k)
        BY DEF SignalsOf
      <4> QED BY <4>1, QueriesAgree
    <3>2. \A i \in DOMAIN property : property[i] \in KeySet
      BY DEF KeySet
    <3> HIDE DEF one, bulk
    <3> QED BY <3>1, <3>2
  <2>2. ResolveSnapshot(rows) = Found(Compose(one))
    BY <1>1 DEF ResolveSnapshot, BuildSnapshot
  <2>3. ResolveSnapshotBulk(rows) = Found(Compose(bulk))
    BY <1>1 DEF ResolveSnapshotBulk, BuildSnapshots
  <2> HIDE DEF one, bulk
  <2>4. ASSUME NEW f \in Fields PROVE Compose(one)[f] = Compose(bulk)[f]
    <3> DEFINE known(byKey) == {i \in DOMAIN property :
                                  Reading(SignalsOf(byKey, property[i]), f) # Missing}
    <3>1. known(one) = known(bulk) /\ known(one) \subseteq DOMAIN property
      BY <2>1
    <3>2. known(one) # {} => Min(known(one)) \in DOMAIN property
      <4>1. DOMAIN property \subseteq {1, 2}
        BY DEF HInv, Keys
      <4>2. known(one) \in SUBSET {1, 2}
        BY <3>1, <4>1
      <4> HIDE DEF known
      <4> QED BY <3>1, <4>2, FirstOfTwo
    <3>3. /\ Compose(one)[f] = IF known(one) = {} THEN Missing
                               ELSE Reading(SignalsOf(one, property[Min(known(one))]), f)
          /\ Compose(bulk)[f] = IF known(bulk) = {} THEN Missing
                                ELSE Reading(SignalsOf(bulk, property[Min(known(bulk))]), f)
      BY ComposedField
    <3> HIDE DEF known
    <3> QED BY <2>1, <3>1, <3>2, <3>3
  <2> QED BY <2>2, <2>3, <2>4 DEF Found, DecisionFields
<1>2. CASE ~holding.linked /\ holding.zip
  <2>1. ResolveSnapshot(rows) = SnapshotFromZip(rows)
        /\ ResolveSnapshotBulk(rows) = NeighborhoodSnapshots(rows)
    BY <1>2 DEF ResolveSnapshot, ResolveSnapshotBulk
  <2> DEFINE signals == SignalsOf(LatestSignalsBulk(rows, {"zip"}), "zip")
  <2>2. signals = LatestSignalsFor(rows, "zip")
    BY QueriesAgree
  <2>3. NeighborhoodSnapshots(rows).found = TRUE
        /\ \A f \in DecisionFields : NeighborhoodSnapshots(rows).market[f] = Reading(signals, f)
    <3> HIDE DEF signals
    <3>1. NeighborhoodSnapshots(rows) = Found(Market(LAMBDA f : Reading(signals, f)))
      BY DEF NeighborhoodSnapshots, signals
    <3> QED BY <3>1 DEF Found, Market, DecisionFields, Fields
  <2>4. \A f \in DecisionFields : SnapshotFromZip(rows).market[f] = Reading(signals, f)
    BY <1>2, <2>2, NewestReading, ZipSnapshot DEF DecisionFields
  <2> QED BY <2>1, <2>3, <2>4, ZipSnapshot
<1>3. CASE ~holding.linked /\ ~holding.zip
  BY <1>3 DEF ResolveSnapshot, ResolveSnapshotBulk
<1>4. QED
  BY <1>1, <1>2, <1>3

\* holding_decision.py:208, "Identical logic to compute_holding_decision": in every
\* state the endpoint and the summary give the same advice on the same rows, unless
\* a reading of the zip without a value hides an older one from the summary.
THEOREM PathsAgreeHolds == Spec => []PathsAgree
<1>1. HInv => PathsAgree
  <2> SUFFICES ASSUME HInv,
                      holding.linked \/
                      \A r, q \in rows :
                         ~(/\ r.subject = "zip" /\ q.subject = "zip" /\ r.kind = q.kind
                           /\ r.value = Missing /\ q.value # Missing /\ q.day < r.day)
               PROVE  HoldingDecisionAnswer(rows) = SummaryEntry(rows)
    BY DEF PathsAgree
  <2>1. /\ ResolveSnapshot(rows).found = ResolveSnapshotBulk(rows).found
        /\ \A f \in DecisionFields :
              ResolveSnapshot(rows).market[f] = ResolveSnapshotBulk(rows).market[f]
    BY SnapshotsAgree
  <2>2. Decide(ResolveSnapshot(rows)) = Decide(ResolveSnapshotBulk(rows))
    BY <2>1, DecideIgnoresLandPrice
  <2> QED BY <2>2 DEF HoldingDecisionAnswer, SummaryEntry
<1>2. QED
  BY <1>1, AdviceInvariance, PTL
--------------------------------------------------------------------------------
(****************************************************************************)
(* The candidates and their scores.                                         *)
(****************************************************************************)
\* What a policy proposes.
Scored == [action: Actions, score: 0..Unit]

LEMMA ProductKeepsOrder ==
    \A a, b, c, d \in Nat : a <= b /\ c <= d => a * c <= b * d
<1>1. SUFFICES ASSUME NEW a \in Nat, NEW b \in Nat, NEW c \in Nat, NEW d \in Nat, a <= b, c <= d
               PROVE  a * c <= b * d
  OBVIOUS
<1>2. PICK e \in Nat : b = a + e
  <2>1. b - a \in Nat /\ b = a + (b - a)
    BY <1>1
  <2> QED BY <2>1
<1>3. PICK g \in Nat : d = c + g
  <2>1. d - c \in Nat /\ d = c + (d - c)
    BY <1>1
  <2> QED BY <2>1
<1>4. b * d = a * c + (a * g + e * d)
  BY <1>2, <1>3
<1>5. a * c \in Nat /\ a * g \in Nat /\ e * d \in Nat
  OBVIOUS
<1>6. \A x, y, z \in Nat : x <= x + (y + z)
  OBVIOUS
<1> QED BY <1>4, <1>5, <1>6

\* The share of a score that another leaves.
LEMMA Shares ==
    /\ \A w, v \in 0..Unit : (w * v) \div Unit \in 0..Unit
    /\ \A w, v, x, y \in 0..Unit : w <= x /\ v <= y => (w * v) \div Unit <= (x * y) \div Unit
<1>1. \A p, q \in Nat :
         p <= q => p \div Unit \in Nat /\ q \div Unit \in Nat /\ p \div Unit <= q \div Unit
  BY DEF Unit
<1>2. (Unit * Unit) \div Unit = Unit /\ Unit \in Nat
  BY DEF Unit
<1>3. \A x \in 0..Unit : x \in Nat /\ x <= Unit
  BY DEF Unit
<1>4. ASSUME NEW w \in 0..Unit, NEW v \in 0..Unit PROVE (w * v) \div Unit \in 0..Unit
  <2>1. w * v <= Unit * Unit /\ w * v \in Nat /\ Unit * Unit \in Nat
    <3>1. w * v <= Unit * Unit
      BY <1>2, <1>3, ProductKeepsOrder
    <3>2. \A x, y \in Nat : x * y \in Nat
      OBVIOUS
    <3> QED BY <3>1, <3>2, <1>2, <1>3
  <2>2. (w * v) \div Unit \in Nat /\ (w * v) \div Unit <= (Unit * Unit) \div Unit
    BY <1>1, <2>1
  <2>3. \A x \in Nat : x <= Unit => x \in 0..Unit
    BY <1>2
  <2> QED BY <1>2, <2>2, <2>3
<1>5. ASSUME NEW w \in 0..Unit, NEW v \in 0..Unit, NEW x \in 0..Unit, NEW y \in 0..Unit,
             w <= x, v <= y
      PROVE  (w * v) \div Unit <= (x * y) \div Unit
  <2>1. w * v <= x * y
    BY <1>3, <1>5, ProductKeepsOrder
  <2>2. w * v \in Nat /\ x * y \in Nat
    <3>1. \A p, q \in Nat : p * q \in Nat
      OBVIOUS
    <3> QED BY <3>1, <1>3
  <2> QED BY <1>1, <2>1, <2>2
<1> QED BY <1>4, <1>5

LEMMA ToUnits ==
    /\ \A x \in Int : -Unit <= x /\ x <= Unit => ToUnit(x) \in 0..Unit
    /\ \A x, y \in Int : x <= y => ToUnit(x) <= ToUnit(y)
BY DEF ToUnit, Unit

\* A reaction variable after a batch.
Signed(x) == x \in Int /\ -Unit <= x /\ x <= Unit

LEMMA VectorSigned ==
    ASSUME NEW o \in Owners, NEW m, Readable(m), NEW rent \in Nat \cup {Missing}
    PROVE  LET r == ReactionVector(o, m, rent)
           IN  /\ Signed(r.affordability_pressure) /\ Signed(r.displacement_concern)
               /\ Signed(r.willingness_to_transact) /\ Signed(r.perceived_safety)
               /\ Signed(r.investor_optimism)
<1>0. /\ Pressure(o) \in 0..Unit /\ Willingness(o) \in 0..Unit /\ Pressure(o) \div 2 \in 0..Unit
  <2>1. Pressure(o) \in 0..Unit /\ Willingness(o) \in 0..Unit
    BY ActorSignals
  <2>2. \A x \in 0..Unit : x \div 2 \in 0..Unit
    BY DEF Unit
  <2> QED BY <2>1, <2>2
<1>1. /\ Centred(Pressure(o)) \in Int /\ Centred(Willingness(o)) \in Int
      /\ Centred(Pressure(o) \div 2) \in Int
  BY <1>0, CentredInt
<1>2. Safety(m) \in Int /\ Slack(m) \in Int /\ RentGap(m, rent) \in Int
      /\ -Unit <= Safety(m) /\ Safety(m) <= Unit
  BY MarketDeltas
<1>3. /\ ClampSigned(Centred(Pressure(o))) + RentGap(m, rent) \in Int
      /\ ClampSigned(Centred(Pressure(o) \div 2)) - Safety(m) \in Int
      /\ ClampSigned(Centred(Willingness(o))) + Slack(m) \in Int
  <2>1. /\ ClampSigned(Centred(Pressure(o))) \in Int /\ ClampSigned(Centred(Willingness(o))) \in Int
        /\ ClampSigned(Centred(Pressure(o) \div 2)) \in Int
    BY <1>1, ClampRanges
  <2> QED BY <1>2, <2>1
<1> QED BY <1>2, <1>3, ClampRanges, Vector DEF Signed

\* A policy proposes at most one candidate.
LEMMA Policies ==
    ASSUME NEW m, Readable(m), NEW r,
           Signed(r.affordability_pressure), Signed(r.displacement_concern),
           Signed(r.willingness_to_transact), Signed(r.perceived_safety),
           Signed(r.investor_optimism)
    PROVE  ListHold(m, r) \in Seq(Scored) /\ Lease(m, r) \in Seq(Scored)
           /\ Churn(r) \in Seq(Scored)
<1>0. /\ ToUnit(r.affordability_pressure) \in 0..Unit /\ ToUnit(r.displacement_concern) \in 0..Unit
      /\ ToUnit(r.willingness_to_transact) \in 0..Unit /\ ToUnit(r.perceived_safety) \in 0..Unit
      /\ ToUnit(r.investor_optimism) \in 0..Unit
  BY ToUnits DEF Signed
<1>1. \A a \in Actions, x \in 0..Unit : <<Candidate(a, x)>> \in Seq(Scored)
  BY DEF Candidate, Scored
<1>2. <<>> \in Seq(Scored)
  OBVIOUS
<1>3. {"HOLD", "SELL", "RAISE_RENT", "IMPROVE"} \subseteq Actions
  BY DEF Actions
<1>4. ListHold(m, r) \in Seq(Scored)
  <2> DEFINE inventory == m.inventory_pressure
             list == ClampUnit((Unit - inventory + ToUnit(r.investor_optimism)) \div 2)
             hold == ClampUnit((inventory + ToUnit(r.displacement_concern)) \div 2)
  <2>1. inventory \in Int
    BY DEF Readable, Fields, Missing
  <2>2. (Unit - inventory + ToUnit(r.investor_optimism)) \div 2 \in Int
        /\ (inventory + ToUnit(r.displacement_concern)) \div 2 \in Int
    <3> HIDE DEF inventory
    <3>1. \A x \in 0..Unit : (Unit - inventory + x) \div 2 \in Int /\ (inventory + x) \div 2 \in Int
      BY <2>1 DEF Unit
    <3> QED BY <1>0, <3>1
  <2>3. list \in 0..Unit /\ hold \in 0..Unit
    BY <2>2, ClampRanges
  <2>4. ListHold(m, r) \in {<<>>, <<Candidate("SELL", list)>>, <<Candidate("HOLD", hold)>>}
    <3>1. CASE inventory = Missing
      BY <3>1 DEF ListHold
    <3>2. CASE inventory # Missing /\ list >= hold
      BY <3>2 DEF ListHold
    <3>3. CASE inventory # Missing /\ ~(list >= hold)
      BY <3>3 DEF ListHold
    <3> QED BY <3>1, <3>2, <3>3
  <2> HIDE DEF list, hold
  <2> QED BY <1>1, <1>2, <1>3, <2>3, <2>4
<1>5. Lease(m, r) \in Seq(Scored)
  <2> DEFINE aff == ToUnit(r.affordability_pressure)
             will == ToUnit(r.willingness_to_transact)
             score == (will * (Unit - aff)) \div Unit
  <2>1. score \in 0..Unit
    <3>1. \A x \in 0..Unit : Unit - x \in 0..Unit
      <4>1. \A x \in 0..Unit : x <= x
        BY UnitsAreInts
      <4> QED BY <4>1, Complements, Zenon
    <3> QED BY <1>0, <3>1, Shares
  <2>2. 4000 \in 0..Unit
    BY DEF Unit
  <2>3. \/ Lease(m, r) = <<>>
        \/ Lease(m, r) = <<Candidate("HOLD", aff)>>
        \/ Lease(m, r) = <<Candidate("HOLD", 4000)>>
        \/ Lease(m, r) = <<Candidate("RAISE_RENT", score)>>
    <3>1. CASE m.median_rent = Missing
      BY <3>1 DEF Lease
    <3>2. CASE m.median_rent # Missing /\ aff > 7000
      BY <3>2 DEF Lease
    <3>3. CASE m.median_rent # Missing /\ ~(aff > 7000) /\ will > 6000 /\ aff < 5000
      BY <3>3 DEF Lease
    <3>4. CASE m.median_rent # Missing /\ ~(aff > 7000) /\ ~(will > 6000 /\ aff < 5000)
      BY <3>4 DEF Lease
    <3> QED BY <3>1, <3>2, <3>3, <3>4
  <2>4. aff \in 0..Unit
    BY <1>0
  <2> HIDE DEF aff, will, score
  <2>5. /\ <<Candidate("HOLD", aff)>> \in Seq(Scored)
        /\ <<Candidate("HOLD", 4000)>> \in Seq(Scored)
        /\ <<Candidate("RAISE_RENT", score)>> \in Seq(Scored)
    <3>1. "HOLD" \in Actions /\ "RAISE_RENT" \in Actions
      BY <1>3
    <3> QED BY <1>1, <2>1, <2>2, <2>4, <3>1
  <2>6. CASE Lease(m, r) = <<>>
    BY <1>2, <2>6
  <2>7. CASE Lease(m, r) = <<Candidate("HOLD", aff)>>
    BY <2>5, <2>7
  <2>8. CASE Lease(m, r) = <<Candidate("HOLD", 4000)>>
    BY <2>5, <2>8
  <2>9. CASE Lease(m, r) = <<Candidate("RAISE_RENT", score)>>
    BY <2>5, <2>9
  <2> QED BY <2>3, <2>6, <2>7, <2>8, <2>9
<1>6. Churn(r) \in Seq(Scored)
  <2> DEFINE risk == ClampUnit((6 * ToUnit(r.displacement_concern)
                           + 4 * (Unit - ToUnit(r.perceived_safety))) \div 10)
  <2>1. risk \in 0..Unit
    <3>1. \A x, y \in 0..Unit : (6 * x + 4 * (Unit - y)) \div 10 \in Int
      BY DEF Unit
    <3> QED BY <1>0, <3>1, ClampRanges
  <2>2. Churn(r) \in {<<>>, <<Candidate("IMPROVE", risk)>>, <<Candidate("HOLD", risk)>>}
    <3>1. CASE r.displacement_concern = 0 /\ r.perceived_safety = 0
      BY <3>1 DEF Churn
    <3>2. CASE ~(r.displacement_concern = 0 /\ r.perceived_safety = 0) /\ risk > 6000
      BY <3>2 DEF Churn
    <3>3. CASE ~(r.displacement_concern = 0 /\ r.perceived_safety = 0) /\ ~(risk > 6000)
      BY <3>3 DEF Churn
    <3> QED BY <3>1, <3>2, <3>3
  <2> HIDE DEF risk
  <2> QED BY <1>1, <1>2, <1>3, <2>1, <2>2
<1> QED BY <1>4, <1>5, <1>6

LEMMA RefiCandidate ==
    ASSUME NEW f \in Financials
    PROVE  Refi(f) \in Seq(Scored) /\ \A c \in ToSet(Refi(f)) : c.action = "REFI"
<1>1. f.interest_rate \in Nat
  BY FinancialsAssumption
<1>2. f.interest_rate > 600 => Min({Unit, 3000 + (f.interest_rate - 600) * 10}) \in 0..Unit
  <2> DEFINE score == 3000 + (f.interest_rate - 600) * 10
  <2>1. f.interest_rate > 600 => score \in Nat
    BY <1>1
  <2> HIDE DEF score
  <2>2. f.interest_rate > 600 => Min({Unit, score}) \in 0..Unit
    <3>1. \A x \in Nat : Min({Unit, x}) \in 0..Unit
      <4>1. \A x \in Nat : Min({Unit, x}) = IF Unit <= x THEN Unit ELSE x
        BY MinOfTwo DEF Unit
      <4> QED BY <4>1 DEF Unit
    <3> QED BY <2>1, <3>1
  <2> QED BY <2>2 DEF score
<1>3. \A x \in 0..Unit : <<Candidate("REFI", x)>> \in Seq(Scored)
  BY DEF Candidate, Scored, Actions
<1>4. CASE f.interest_rate > 600 /\ f.loan_balance > 0
  <2>1. Refi(f) = <<Candidate("REFI", Min({Unit, 3000 + (f.interest_rate - 600) * 10}))>>
    BY <1>4 DEF Refi
  <2> QED BY <1>2, <1>3, <1>4, <2>1 DEF ToSet, Candidate
<1>5. CASE ~(f.interest_rate > 600 /\ f.loan_balance > 0)
  BY <1>5 DEF Refi, ToSet
<1> QED BY <1>4, <1>5

\* Candidates are told apart by what they are, not by where they stand.
LEMMA ConcatItems ==
    ASSUME NEW C, NEW a \in Seq(C), NEW b \in Seq(C)
    PROVE  a \o b \in Seq(C) /\ ToSet(a \o b) = ToSet(a) \cup ToSet(b)
<1>1. a \o b \in Seq(C) /\ Len(a \o b) = Len(a) + Len(b)
      /\ \A i \in 1..Len(a) + Len(b) : (a \o b)[i] = IF i <= Len(a) THEN a[i] ELSE b[i - Len(a)]
  OBVIOUS
<1>2. ASSUME NEW c \in ToSet(a \o b) PROVE c \in ToSet(a) \cup ToSet(b)
  <2>1. PICK i \in 1..Len(a) + Len(b) : c = (a \o b)[i]
    BY <1>1 DEF ToSet
  <2>2. CASE i <= Len(a)
    BY <1>1, <2>1, <2>2 DEF ToSet
  <2>3. CASE ~(i <= Len(a))
    <3>1. i - Len(a) \in 1..Len(b)
      BY <2>3
    <3> QED BY <1>1, <2>1, <2>3, <3>1 DEF ToSet
  <2> QED BY <2>2, <2>3
<1>3. ASSUME NEW c \in ToSet(a) PROVE c \in ToSet(a \o b)
  <2>1. PICK i \in 1..Len(a) : c = a[i]
    BY DEF ToSet
  <2>2. i \in 1..Len(a) + Len(b)
    OBVIOUS
  <2> QED BY <1>1, <2>1, <2>2, SMTT(60) DEF ToSet
<1>4. ASSUME NEW c \in ToSet(b) PROVE c \in ToSet(a \o b)
  <2>1. PICK i \in 1..Len(b) : c = b[i]
    BY DEF ToSet
  <2>2. Len(a) + i \in 1..Len(a) + Len(b) /\ (Len(a) + i) - Len(a) = i /\ ~(Len(a) + i <= Len(a))
    OBVIOUS
  <2> QED BY <1>1, <2>1, <2>2, SMTT(60) DEF ToSet
<1> QED BY <1>1, <1>2, <1>3, <1>4

\* A set of naturals has a least element, and scores have a greatest.
LEMMA LeastElement ==
    ASSUME NEW T \in SUBSET Nat, T # {}
    PROVE  Min(T) \in T /\ \A y \in T : Min(T) <= y
<1>1. \E x \in T : \A y \in T : ~ (<<y, x>> \in OpToRel(<, Nat))
  BY NatLessThanWellFounded, WFMin
<1>2. PICK x \in T : \A y \in T : ~ (y < x)
  BY <1>1 DEF OpToRel
<1>3. \A y \in T : x <= y
  BY <1>2
<1> QED BY <1>3 DEF Min

LEMMA GreatestElement ==
    ASSUME NEW T \in SUBSET (0..Unit), T # {}
    PROVE  Max(T) \in T /\ \A y \in T : y <= Max(T)
<1> DEFINE rest == {Unit - x : x \in T}
<1>1. \A x \in T : x \in Int /\ Unit - x \in Nat
  BY SMTT(60) DEF Unit
<1>2. rest \in SUBSET Nat /\ rest # {}
  BY <1>1
<1>3. PICK x \in T : \A y \in T : Unit - x <= Unit - y
  <2>1. Min(rest) \in rest /\ \A y \in rest : Min(rest) <= y
    <3> HIDE DEF rest
    <3> QED BY <1>2, LeastElement
  <2>2. PICK x \in T : Min(rest) = Unit - x
    BY <2>1
  <2>3. \A y \in T : Unit - x <= Unit - y
    BY <2>1, <2>2
  <2> QED BY <2>3
<1>4. \A y \in T : y <= x
  <2>1. Unit \in Int
    BY DEF Unit
  <2> QED BY <1>1, <1>3, <2>1
<1>5. \E z \in T : \A y \in T : z >= y
  BY <1>1, <1>4
<1>6. Max(T) \in T /\ \A y \in T : Max(T) >= y
  BY <1>5 DEF Max
<1> QED BY <1>1, <1>6

LEMMA CandidateItems ==
    ASSUME NEW o \in Owners, NEW f \in Financials, NEW snapshot, Readable(snapshot.market)
    PROVE  LET m == snapshot.market
               r == ReactionVector(o, m, f.monthly_rent)
               s == Candidates(snapshot, o, f)
           IN  /\ s \in Seq(Scored)
               /\ ToSet(s) = (IF snapshot.found
                              THEN ToSet(ListHold(m, r)) \cup ToSet(Lease(m, r))
                                   \cup ToSet(Churn(r))
                              ELSE {}) \cup ToSet(Refi(f))
<1> DEFINE m == snapshot.market
           r == ReactionVector(o, m, f.monthly_rent)
           s == Candidates(snapshot, o, f)
<1>1. f.monthly_rent \in Nat \cup {Missing}
  BY FinancialsAssumption
<1>2. /\ ListHold(m, r) \in Seq(Scored) /\ Lease(m, r) \in Seq(Scored)
      /\ Churn(r) \in Seq(Scored) /\ Refi(f) \in Seq(Scored)
  BY <1>1, VectorSigned, Policies, RefiCandidate
<1> HIDE DEF m, r
<1>3. /\ Evaluate(m, r) \in Seq(Scored)
      /\ ToSet(Evaluate(m, r)) = ToSet(ListHold(m, r)) \cup ToSet(Lease(m, r)) \cup ToSet(Churn(r))
  <2> DEFINE front == ListHold(m, r) \o Lease(m, r)
  <2>1. front \in Seq(Scored) /\ ToSet(front) = ToSet(ListHold(m, r)) \cup ToSet(Lease(m, r))
    BY <1>2, ConcatItems
  <2>2. Evaluate(m, r) = front \o Churn(r)
    BY DEF Evaluate
  <2> HIDE DEF front
  <2> QED BY <1>2, <2>1, <2>2, ConcatItems
<1>4. CASE snapshot.found
  <2>1. s = Evaluate(m, r) \o Refi(f)
    BY <1>4 DEF Candidates, m, r
  <2> QED BY <1>2, <1>3, <1>4, <2>1, ConcatItems DEF m, r
<1>5. CASE ~snapshot.found
  <2>1. s = <<>> \o Refi(f)
    BY <1>5 DEF Candidates
  <2>2. <<>> \in Seq(Scored) /\ ToSet(<<>>) = {}
    BY DEF ToSet
  <2> QED BY <1>2, <1>5, <2>1, <2>2, ConcatItems
<1> QED BY <1>4, <1>5

LEMMA ScoreOfBest ==
    ASSUME NEW o \in Owners, NEW f \in Financials, NEW snapshot, Readable(snapshot.market),
           NEW action
    PROVE  LET score == ScoreOf(action, snapshot, o, f)
               items == ToSet(Candidates(snapshot, o, f))
           IN  /\ score \in 0..Unit
               /\ \A c \in items : c.action = action => c.score <= score
               /\ score # 0 => \E c \in items : c.action = action /\ c.score = score
<1> DEFINE s == Candidates(snapshot, o, f)
           scores == {0} \cup {s[i].score : i \in {n \in DOMAIN s : s[n].action = action}}
<1>1. s \in Seq(Scored)
  BY CandidateItems
<1>2. ScoreOf(action, snapshot, o, f) = Max(scores)
  BY DEF ScoreOf
<1> HIDE DEF s
<1>3. scores \in SUBSET (0..Unit)
  <2>1. \A i \in DOMAIN s : s[i].score \in 0..Unit
    <3>1. \A i \in DOMAIN s : s[i] \in Scored
      BY <1>1
    <3> QED BY <3>1 DEF Scored
  <2>2. 0 \in 0..Unit
    BY DEF Unit
  <2> QED BY <2>1, <2>2
<1>4. Max(scores) \in scores /\ \A y \in scores : y <= Max(scores)
  <2>1. scores # {}
    OBVIOUS
  <2> HIDE DEF scores
  <2> QED BY <1>3, <2>1, GreatestElement
<1>5. \A c \in ToSet(s) : c.action = action => c.score \in scores
  BY DEF ToSet
<1>6. \A x \in scores : x # 0 => \E c \in ToSet(s) : c.action = action /\ c.score = x
  BY DEF ToSet
<1> HIDE DEF scores
<1> QED BY <1>2, <1>3, <1>4, <1>5, <1>6 DEF s

LEMMA ActionsOfPolicies ==
    ASSUME NEW m, NEW r
    PROVE  /\ \A c \in ToSet(ListHold(m, r)) : c.action \in {"SELL", "HOLD"}
           /\ \A c \in ToSet(Lease(m, r)) : c.action \in {"RAISE_RENT", "HOLD"}
           /\ \A c \in ToSet(Churn(r)) : c.action \in {"IMPROVE", "HOLD"}
<1>1. \A c \in ToSet(ListHold(m, r)) : c.action \in {"SELL", "HOLD"}
  BY DEF ToSet, ListHold, Candidate
<1>2. \A c \in ToSet(Lease(m, r)) : c.action \in {"RAISE_RENT", "HOLD"}
  BY DEF ToSet, Lease, Candidate
<1>3. \A c \in ToSet(Churn(r)) : c.action \in {"IMPROVE", "HOLD"}
  BY DEF ToSet, Churn, Candidate
<1> QED BY <1>1, <1>2, <1>3

RaiseShare(r) ==
    (ToUnit(r.willingness_to_transact) * (Unit - ToUnit(r.affordability_pressure))) \div Unit

\* When and with what score the rent is to be raised.
LEMMA RaiseCondition ==
    ASSUME NEW m, NEW r,
           ToUnit(r.affordability_pressure) \in Int, ToUnit(r.willingness_to_transact) \in Int
    PROVE  LET aff == ToUnit(r.affordability_pressure)
               will == ToUnit(r.willingness_to_transact)
           IN  \A x : (\E c \in ToSet(Lease(m, r)) : c.action = "RAISE_RENT" /\ c.score = x)
                 <=> /\ m.median_rent # Missing /\ ~(aff > 7000) /\ will > 6000 /\ aff < 5000
                     /\ x = RaiseShare(r)
<1> DEFINE aff == ToUnit(r.affordability_pressure)
           will == ToUnit(r.willingness_to_transact)
           share == RaiseShare(r)
<1>0. Lease(m, r) = CASE m.median_rent = Missing -> <<>>
          [] m.median_rent # Missing /\ aff > 7000 -> <<Candidate("HOLD", aff)>>
          [] m.median_rent # Missing /\ will > 6000 /\ aff < 5000 ->
                <<Candidate("RAISE_RENT", share)>>
          [] OTHER -> <<Candidate("HOLD", 4000)>>
  BY DEF Lease, RaiseShare
<1>a. aff \in Int /\ will \in Int
  OBVIOUS
<1> HIDE DEF aff, will, share
<1>1. \A a, x : ToSet(<<Candidate(a, x)>>) = {Candidate(a, x)}
  BY DEF ToSet
<1>2. ToSet(<<>>) = {}
  BY DEF ToSet
<1>3. CASE m.median_rent # Missing /\ ~(aff > 7000) /\ will > 6000 /\ aff < 5000
  <2>1. Lease(m, r) = <<Candidate("RAISE_RENT", share)>>
    BY <1>0, <1>a, <1>3
  <2>2. ToSet(Lease(m, r)) = {Candidate("RAISE_RENT", share)}
    BY <1>1, <2>1
  <2>3. /\ Candidate("RAISE_RENT", share).action = "RAISE_RENT"
        /\ Candidate("RAISE_RENT", share).score = share
    BY DEF Candidate
  <2> QED BY <1>3, <2>2, <2>3 DEF aff, will, share
<1>4. CASE ~(m.median_rent # Missing /\ ~(aff > 7000) /\ will > 6000 /\ aff < 5000)
  <2>1. ToSet(Lease(m, r)) \in {{}, {Candidate("HOLD", aff)}, {Candidate("HOLD", 4000)}}
    <3>1. CASE m.median_rent = Missing
      BY <1>0, <1>2, <3>1
    <3>2. CASE m.median_rent # Missing /\ aff > 7000
      <4>1. Lease(m, r) = <<Candidate("HOLD", aff)>>
        BY <1>0, <1>a, <3>2
      <4> QED BY <1>1, <4>1
    <3>3. CASE m.median_rent # Missing /\ ~(aff > 7000)
      <4>1. Lease(m, r) = <<Candidate("HOLD", 4000)>>
        BY <1>0, <1>a, <1>4, <3>3
      <4> QED BY <1>1, <4>1
    <3> QED BY <3>1, <3>2, <3>3
  <2>2. \A x : Candidate("HOLD", x).action = "HOLD"
    BY DEF Candidate
  <2>3. \A c \in ToSet(Lease(m, r)) : c.action = "HOLD"
    BY <2>1, <2>2
  <2> QED BY <1>4, <2>3 DEF aff, will
<1> QED BY <1>3, <1>4

LEMMA TighterOwnerRaisesLess ==
    ASSUME HInv, NEW t \in Owners, t.role = owner.role,
           0 < Pressure(owner), Pressure(owner) < Pressure(t)
    PROVE  ScoreOf("RAISE_RENT", ResolveSnapshot(rows), t, fin)
              <= ScoreOf("RAISE_RENT", ResolveSnapshot(rows), owner, fin)
<1> DEFINE snapshot == ResolveSnapshot(rows)
           m == snapshot.market
           ro == ReactionVector(owner, m, fin.monthly_rent)
           rt == ReactionVector(t, m, fin.monthly_rent)
           so == ScoreOf("RAISE_RENT", snapshot, owner, fin)
           st == ScoreOf("RAISE_RENT", snapshot, t, fin)
<1>0. /\ owner \in Owners /\ fin \in Financials /\ Readable(m)
      /\ fin.monthly_rent \in Nat \cup {Missing}
  BY SnapshotReadable, FinancialsAssumption DEF HInv
<1>1. so \in Int /\ st \in Int /\ 0 <= so
  <2>1. so \in 0..Unit /\ st \in 0..Unit
    BY <1>0, ScoreOfBest
  <2> QED BY <2>1, UnitsAreInts
<1>2. CASE st = 0
  BY <1>1, <1>2
<1>3. CASE st # 0
  <2>1. PICK c \in ToSet(Candidates(snapshot, t, fin)) : c.action = "RAISE_RENT" /\ c.score = st
    BY <1>0, <1>3, ScoreOfBest
  <2>2. snapshot.found /\ c \in ToSet(Lease(m, rt))
    BY <1>0, <2>1, CandidateItems, ActionsOfPolicies, RefiCandidate, SMTT(60)
  <2> HIDE DEF m, ro, rt, snapshot
  <2>4. /\ ToUnit(ro.affordability_pressure) \in 0..Unit
        /\ ToUnit(ro.willingness_to_transact) \in 0..Unit
        /\ ToUnit(rt.affordability_pressure) \in 0..Unit
        /\ ToUnit(rt.willingness_to_transact) \in 0..Unit
        /\ ToUnit(ro.affordability_pressure) <= ToUnit(rt.affordability_pressure)
        /\ ToUnit(rt.willingness_to_transact) <= ToUnit(ro.willingness_to_transact)
    <3>1. /\ Signed(ro.affordability_pressure) /\ Signed(ro.willingness_to_transact)
          /\ Signed(rt.affordability_pressure) /\ Signed(rt.willingness_to_transact)
      BY <1>0, VectorSigned DEF ro, rt
    <3>2. /\ ro.affordability_pressure <= rt.affordability_pressure
          /\ rt.willingness_to_transact <= ro.willingness_to_transact
      BY <1>0, TighterOwnerReacts DEF ro, rt
    <3> QED BY <3>1, <3>2, ToUnits DEF Signed
  <2>a. /\ ToUnit(ro.affordability_pressure) \in Int /\ ToUnit(ro.willingness_to_transact) \in Int
        /\ ToUnit(rt.affordability_pressure) \in Int /\ ToUnit(rt.willingness_to_transact) \in Int
    BY <2>4, UnitsAreInts
  <2>3. /\ m.median_rent # Missing /\ ToUnit(rt.willingness_to_transact) > 6000
        /\ ToUnit(rt.affordability_pressure) < 5000 /\ st = RaiseShare(rt)
    BY <2>1, <2>2, <2>a, RaiseCondition
  <2>5. \A x, y \in 0..Unit :
           x <= y => Unit - y \in 0..Unit /\ Unit - x \in 0..Unit /\ Unit - y <= Unit - x
    BY Complements, Zenon
  <2>6. RaiseShare(rt) <= RaiseShare(ro)
    BY <2>4, <2>5, Shares DEF RaiseShare
  <2>7. /\ ToUnit(ro.willingness_to_transact) > 6000 /\ ToUnit(ro.affordability_pressure) < 5000
        /\ ~(ToUnit(ro.affordability_pressure) > 7000)
    BY <2>3, <2>4, UnitsAreInts
  <2>8. PICK d \in ToSet(Lease(m, ro)) : d.action = "RAISE_RENT" /\ d.score = RaiseShare(ro)
    BY <2>3, <2>7, <2>a, RaiseCondition
  <2>9. d \in ToSet(Candidates(snapshot, owner, fin))
    BY <1>0, <2>2, <2>8, CandidateItems DEF m, ro
  <2>10. RaiseShare(ro) <= so
    BY <1>0, <2>8, <2>9, ScoreOfBest DEF m
  <2>11. RaiseShare(ro) \in Int
    BY <2>4, <2>5, Shares, UnitsAreInts DEF RaiseShare
  <2>12. \A x, y, z, w \in Int : x = y /\ y <= z /\ z <= w => x <= w
    OBVIOUS
  <2>13. RaiseShare(rt) \in Int
    BY <1>1, <2>3
  <2>14. st <= so
    <3> HIDE DEF so, st
    <3> QED BY <1>1, <2>3, <2>6, <2>10, <2>11, <2>12, <2>13
  <2> QED BY <2>14 DEF snapshot
<1> QED BY <1>2, <1>3

\* policies.py, LeasePolicy: in every state an owner under more pressure, in the same
\* role, has no higher score for raising the rent.
THEOREM TighterOwnerNeverRaisesRentHolds == Spec => []TighterOwnerNeverRaisesRent
<1>1. HInv => TighterOwnerNeverRaisesRent
  BY TighterOwnerRaisesLess DEF TighterOwnerNeverRaisesRent
<1> QED BY <1>1, AdviceInvariance, PTL

\* The advice is one of the candidates.
LEMMA AdviceIsScored ==
    ASSUME NEW o \in Owners, NEW f \in Financials, NEW snapshot, Readable(snapshot.market)
    PROVE  ComputeHoldingDecision(snapshot, o, f) \in Scored
<1> DEFINE s == Candidates(snapshot, o, f)
           best == {i \in DOMAIN s : \A j \in DOMAIN s : s[j].score <= s[i].score}
           scores == {s[i].score : i \in DOMAIN s}
<1>1. s \in Seq(Scored)
  BY CandidateItems
<1>2. ComputeHoldingDecision(snapshot, o, f)
        = IF s = <<>> THEN Candidate("HOLD", 3000) ELSE s[Min(best)]
  BY DEF ComputeHoldingDecision
<1>3. Candidate("HOLD", 3000) \in Scored
  <2>1. "HOLD" \in Actions /\ 3000 \in 0..Unit
    BY DEF Actions, Unit
  <2> QED BY <2>1 DEF Candidate, Scored
<1> HIDE DEF s
<1>4. \A i \in DOMAIN s : s[i] \in Scored /\ s[i].score \in 0..Unit
  <2>1. \A i \in DOMAIN s : s[i] \in Scored
    BY <1>1
  <2> QED BY <2>1 DEF Scored
<1>5. CASE s = <<>>
  BY <1>2, <1>3, <1>5
<1>6. CASE s # <<>>
  <2>1. scores \in SUBSET (0..Unit) /\ scores # {}
    BY <1>1, <1>4, <1>6
  <2>2. Max(scores) \in scores /\ \A y \in scores : y <= Max(scores)
    <3> HIDE DEF scores
    <3> QED BY <2>1, GreatestElement
  <2>3. best # {} /\ best \in SUBSET Nat
    <3>1. PICK k \in DOMAIN s : s[k].score = Max(scores)
      BY <2>2
    <3>2. k \in best
      BY <2>2, <3>1
    <3> QED BY <1>1, <3>2
  <2>4. Min(best) \in best
    <3> HIDE DEF best
    <3> QED BY <2>3, LeastElement
  <2> QED BY <1>2, <1>4, <1>6, <2>4
<1> QED BY <1>5, <1>6

\* holding_decision.py: in every state the advice is one of the five actions, with
\* a score from 0 to 1, and a key and day have one row.
THEOREM AdviceTypeCorrect == Spec => []TypeOK
<1>1. HInv => TypeOK
  <2>1. SUFFICES ASSUME HInv PROVE HoldingDecisionAnswer(rows).decision \in Scored
    BY DEF HInv, TypeOK, Scored
  <2>2. owner \in Owners /\ fin \in Financials /\ Readable(ResolveSnapshot(rows).market)
    BY <2>1, SnapshotReadable DEF HInv
  <2>3. ComputeHoldingDecision(ResolveSnapshot(rows), owner, fin) \in Scored
    BY <2>2, AdviceIsScored
  <2> QED BY <2>3 DEF HoldingDecisionAnswer, Decide
<1> QED BY <1>1, AdviceInvariance, PTL

--------------------------------------------------------------------------------
(****************************************************************************)
(* A safer neighborhood.                                                    *)
(****************************************************************************)
\* The action of a candidate that beats those of every other action is taken.
LEMMA LeaderIsTaken ==
    ASSUME NEW o \in Owners, NEW f \in Financials, NEW snapshot, Readable(snapshot.market),
           NEW c \in ToSet(Candidates(snapshot, o, f)),
           \A d \in ToSet(Candidates(snapshot, o, f)) :
              IF d.action = c.action THEN d.score <= c.score ELSE d.score < c.score
    PROVE  ComputeHoldingDecision(snapshot, o, f).action = c.action
<1> DEFINE s == Candidates(snapshot, o, f)
           best == {i \in DOMAIN s : \A j \in DOMAIN s : s[j].score <= s[i].score}
<1>1. s \in Seq(Scored)
  BY CandidateItems
<1>2. ComputeHoldingDecision(snapshot, o, f)
        = IF s = <<>> THEN Candidate("HOLD", 3000) ELSE s[Min(best)]
  BY DEF ComputeHoldingDecision
<1>3. PICK k \in DOMAIN s : c = s[k]
  BY DEF ToSet
<1>4. \A i \in DOMAIN s : s[i] \in ToSet(s)
  BY DEF ToSet
<1> HIDE DEF s
<1>5. \A i \in DOMAIN s : s[i].score \in Int
  <2>1. \A i \in DOMAIN s : s[i] \in Scored
    BY <1>1
  <2> QED BY <2>1, UnitsAreInts DEF Scored
<1>6. \A j \in DOMAIN s : s[j].score <= s[k].score
  <2>1. ASSUME NEW j \in DOMAIN s PROVE s[j].score <= s[k].score
    <3>1. IF s[j].action = c.action THEN s[j].score <= c.score ELSE s[j].score < c.score
      BY <1>4 DEF s
    <3> QED BY <1>3, <1>5, <3>1
  <2> QED BY <2>1
<1>7. k \in best /\ s # <<>> /\ best \in SUBSET Nat
  BY <1>1, <1>3, <1>6
<1>8. Min(best) \in best
  <2> HIDE DEF best
  <2> QED BY <1>7, LeastElement
<1>9. s[k].score <= s[Min(best)].score /\ Min(best) \in DOMAIN s
  BY <1>3, <1>8
<1>10. s[Min(best)].action = c.action
  <2>1. ~(s[Min(best)].score < c.score)
    BY <1>3, <1>5, <1>9
  <2>2. IF s[Min(best)].action = c.action
        THEN s[Min(best)].score <= c.score ELSE s[Min(best)].score < c.score
    BY <1>4, <1>9 DEF s
  <2> QED BY <2>1, <2>2
<1> HIDE DEF best
<1> QED BY <1>2, <1>7, <1>10

LEMMA SnapshotShape ==
    /\ DOMAIN ResolveSnapshot(rows) = {"found", "market"}
    /\ DOMAIN ResolveSnapshot(rows).market = Fields
    /\ ResolveSnapshot(rows).market.safety_score # Missing => ResolveSnapshot(rows).found = TRUE
<1>1. CASE holding.linked
  <2> DEFINE byKey == [k \in KeySet |-> LatestSignalsFor(rows, k)]
  <2>1. ResolveSnapshot(rows) = [found |-> TRUE, market |-> Compose(byKey)]
    BY <1>1 DEF ResolveSnapshot, BuildSnapshot, Found
  <2> HIDE DEF byKey
  <2>2. DOMAIN Compose(byKey) = Fields
    BY DEF Compose, Market, Fields
  <2> QED BY <2>1, <2>2
<1>2. CASE ~holding.linked /\ holding.zip
  <2>1. ResolveSnapshot(rows) = SnapshotFromZip(rows)
    BY <1>2 DEF ResolveSnapshot
  <2>2. DOMAIN SnapshotFromZip(rows) = {"found", "market"}
    BY DEF SnapshotFromZip, Found
  <2> QED BY <2>1, <2>2, ZipSnapshot
<1>3. CASE ~holding.linked /\ ~holding.zip
  <2>1. ResolveSnapshot(rows) = [found |-> FALSE, market |-> Unknown]
    BY <1>3 DEF ResolveSnapshot, NotFound
  <2>2. DOMAIN Unknown = Fields /\ Unknown.safety_score = Missing
    BY DEF Unknown, Market, Fields
  <2> QED BY <2>1, <2>2
<1> QED BY <1>1, <1>2, <1>3

\* The snapshot after a reading of the safety only.
LEMMA OtherReadingsStay ==
    ASSUME HInv, NEW value \in Nat
    PROVE  LET now == ResolveSnapshot(rows)
               safer == [now EXCEPT !.market.safety_score = value]
           IN  /\ safer.found = now.found /\ safer.market.safety_score = value
               /\ safer.market.inventory_pressure = now.market.inventory_pressure
               /\ safer.market.median_rent = now.market.median_rent
               /\ Readable(safer.market)
<1> DEFINE now == ResolveSnapshot(rows)
           safer == [now EXCEPT !.market.safety_score = value]
<1>1. DOMAIN now = {"found", "market"} /\ DOMAIN now.market = Fields /\ Readable(now.market)
  BY SnapshotShape, SnapshotReadable
<1> HIDE DEF now
<1>2. safer.found = now.found
  BY <1>1
<1>3. safer.market = [now.market EXCEPT !.safety_score = value]
  BY <1>1
<1> HIDE DEF safer
<1>4. safer.market.safety_score = value
      /\ \A f \in Fields \ {"safety_score"} : safer.market[f] = now.market[f]
  BY <1>1, <1>3 DEF Fields
<1>5. safer.market.inventory_pressure = now.market.inventory_pressure
      /\ safer.market.median_rent = now.market.median_rent
  BY <1>4 DEF Fields
<1>6. Readable(safer.market)
  BY <1>1, <1>4 DEF Readable
<1> QED BY <1>2, <1>4, <1>5, <1>6 DEF now, safer

\* What a safer neighborhood does to the reactions: displacement falls by no more
\* than perceived safety rises, and nothing else moves.
LEMMA SaferReactions ==
    ASSUME NEW o \in Owners, NEW m, Readable(m), NEW n, Readable(n),
           NEW rent \in Nat \cup {Missing},
           m.inventory_pressure = n.inventory_pressure, m.median_rent = n.median_rent,
           m.safety_score # Missing, m.safety_score <= n.safety_score
    PROVE  LET r == ReactionVector(o, m, rent)
               q == ReactionVector(o, n, rent)
           IN  /\ q.affordability_pressure = r.affordability_pressure
               /\ q.willingness_to_transact = r.willingness_to_transact
               /\ q.investor_optimism = r.investor_optimism
               /\ ToUnit(q.displacement_concern) <= ToUnit(r.displacement_concern)
               /\ ToUnit(r.perceived_safety) <= ToUnit(q.perceived_safety)
               /\ ToUnit(r.displacement_concern) - ToUnit(q.displacement_concern)
                     <= ToUnit(q.perceived_safety) - ToUnit(r.perceived_safety) + 1
<1> DEFINE r == ReactionVector(o, m, rent)
           q == ReactionVector(o, n, rent)
           base == ClampSigned(Centred(Pressure(o) \div 2))
<1>1. Slack(m) = Slack(n) /\ RentGap(m, rent) = RentGap(n, rent)
  BY DEF Slack, RentGap
<1>2. /\ q.affordability_pressure = r.affordability_pressure
      /\ q.willingness_to_transact = r.willingness_to_transact
      /\ q.investor_optimism = r.investor_optimism
  BY <1>1, Vector
<1>3. /\ r.displacement_concern = ClampSigned(base - Safety(m)) /\ r.perceived_safety = Safety(m)
      /\ q.displacement_concern = ClampSigned(base - Safety(n)) /\ q.perceived_safety = Safety(n)
  BY Vector
<1>4. base \in Int /\ Safety(m) \in Int /\ Safety(n) \in Int
  <2>1. Pressure(o) \div 2 \in 0..Unit
    <3>1. \A x \in 0..Unit : x \div 2 \in 0..Unit
      BY DEF Unit
    <3> QED BY <3>1, ActorSignals
  <2>2. Centred(Pressure(o) \div 2) \in Int
    BY <2>1, CentredInt
  <2> QED BY <2>2, ClampRanges, MarketDeltas
<1>5. Safety(m) <= Safety(n)
  <2>1. m.safety_score \in Nat /\ n.safety_score \in Nat /\ n.safety_score # Missing
    <3>1. m.safety_score \in Nat \cup {Missing} /\ n.safety_score \in Nat \cup {Missing}
      BY DEF Readable, Fields
    <3> QED BY <3>1 DEF Missing
  <2>2. m.safety_score \div 5 - Unit \in Int /\ n.safety_score \div 5 - Unit \in Int
        /\ m.safety_score \div 5 - Unit <= n.safety_score \div 5 - Unit
    <3>1. \A x, y \in Nat : x <= y => x \div 5 - Unit \in Int /\ y \div 5 - Unit \in Int
                                      /\ x \div 5 - Unit <= y \div 5 - Unit
      BY DEF Unit
    <3> QED BY <2>1, <3>1
  <2> QED BY <2>1, <2>2, ClampsKeepOrder DEF Safety
<1>6. \A b, s, t \in Int : s <= t =>
         /\ ToUnit(ClampSigned(b - t)) <= ToUnit(ClampSigned(b - s)) /\ ToUnit(s) <= ToUnit(t)
         /\ ToUnit(ClampSigned(b - s)) - ToUnit(ClampSigned(b - t)) <= ToUnit(t) - ToUnit(s) + 1
  <2>1. SUFFICES ASSUME NEW b \in Int, NEW s \in Int, NEW t \in Int, s <= t
                 PROVE  /\ ToUnit(ClampSigned(b - t)) <= ToUnit(ClampSigned(b - s))
                        /\ ToUnit(s) <= ToUnit(t)
                        /\ ToUnit(ClampSigned(b - s)) - ToUnit(ClampSigned(b - t))
                              <= ToUnit(t) - ToUnit(s) + 1
    OBVIOUS
  <2>2. PICK x \in Int, y \in Int : x = ClampSigned(b - s) /\ y = ClampSigned(b - t)
    BY ClampRanges
  <2>3. y <= x /\ x - y <= t - s
    <3>1. x = IF b - s < -Unit THEN -Unit ELSE IF b - s > Unit THEN Unit ELSE b - s
      BY <2>2, Clamps
    <3>2. y = IF b - t < -Unit THEN -Unit ELSE IF b - t > Unit THEN Unit ELSE b - t
      BY <2>2, Clamps
    <3> QED BY <2>1, <3>1, <3>2 DEF Unit
  <2>4. /\ (y + Unit) \div 2 <= (x + Unit) \div 2 /\ (s + Unit) \div 2 <= (t + Unit) \div 2
        /\ (x + Unit) \div 2 - (y + Unit) \div 2 <= (t + Unit) \div 2 - (s + Unit) \div 2 + 1
    BY <2>1, <2>3 DEF Unit
  <2> QED BY <2>2, <2>4 DEF ToUnit
<1> HIDE DEF r, q, base
<1>7. /\ ToUnit(q.displacement_concern) <= ToUnit(r.displacement_concern)
      /\ ToUnit(r.perceived_safety) <= ToUnit(q.perceived_safety)
      /\ ToUnit(r.displacement_concern) - ToUnit(q.displacement_concern)
            <= ToUnit(q.perceived_safety) - ToUnit(r.perceived_safety) + 1
  BY <1>3, <1>4, <1>5, <1>6
<1> QED BY <1>2, <1>7 DEF r, q

ListScore(m, r) == ClampUnit((Unit - m.inventory_pressure + ToUnit(r.investor_optimism)) \div 2)
HoldScore(m, r) == ClampUnit((m.inventory_pressure + ToUnit(r.displacement_concern)) \div 2)
Risk(r) ==
    ClampUnit((6 * ToUnit(r.displacement_concern)
               + 4 * (Unit - ToUnit(r.perceived_safety))) \div 10)

LEMMA SingleItem ==
    /\ \A a, x : ToSet(<<Candidate(a, x)>>) = {Candidate(a, x)}
    /\ \A a, x : Candidate(a, x).action = a /\ Candidate(a, x).score = x
    /\ ToSet(<<>>) = {}
BY DEF ToSet, Candidate

LEMMA ListHoldItems ==
    ASSUME NEW m, NEW r
    PROVE  ToSet(ListHold(m, r)) =
              IF m.inventory_pressure = Missing THEN {}
              ELSE IF ListScore(m, r) >= HoldScore(m, r) THEN {Candidate("SELL", ListScore(m, r))}
              ELSE {Candidate("HOLD", HoldScore(m, r))}
<1>1. CASE m.inventory_pressure = Missing
  BY <1>1, SingleItem DEF ListHold
<1>2. CASE m.inventory_pressure # Missing /\ ListScore(m, r) >= HoldScore(m, r)
  <2>1. ListHold(m, r) = <<Candidate("SELL", ListScore(m, r))>>
    BY <1>2 DEF ListHold, ListScore, HoldScore
  <2> QED BY <1>2, <2>1, SingleItem
<1>3. CASE m.inventory_pressure # Missing /\ ~(ListScore(m, r) >= HoldScore(m, r))
  <2>1. ListHold(m, r) = <<Candidate("HOLD", HoldScore(m, r))>>
    BY <1>3 DEF ListHold, ListScore, HoldScore
  <2> QED BY <1>3, <2>1, SingleItem
<1> QED BY <1>1, <1>2, <1>3

LEMMA ChurnItems ==
    ASSUME NEW r
    PROVE  LET calm == r.displacement_concern = 0 /\ r.perceived_safety = 0
           IN  /\ calm => ToSet(Churn(r)) = {}
               /\ ~calm /\ Risk(r) > 6000 => ToSet(Churn(r)) = {Candidate("IMPROVE", Risk(r))}
               /\ ~calm /\ ~(Risk(r) > 6000) => ToSet(Churn(r)) = {Candidate("HOLD", Risk(r))}
<1> DEFINE calm == r.displacement_concern = 0 /\ r.perceived_safety = 0
<1>1. ASSUME calm PROVE ToSet(Churn(r)) = {}
  BY <1>1, SingleItem DEF Churn
<1>2. ASSUME ~calm, Risk(r) > 6000 PROVE ToSet(Churn(r)) = {Candidate("IMPROVE", Risk(r))}
  <2>1. Churn(r) = <<Candidate("IMPROVE", Risk(r))>>
    BY <1>2 DEF Churn, Risk
  <2> QED BY <2>1, SingleItem
<1>3. ASSUME ~calm, ~(Risk(r) > 6000) PROVE ToSet(Churn(r)) = {Candidate("HOLD", Risk(r))}
  <2>1. Churn(r) = <<Candidate("HOLD", Risk(r))>>
    BY <1>3 DEF Churn, Risk
  <2> QED BY <2>1, SingleItem
<1> QED BY <1>1, <1>2, <1>3

LEMMA RiskArithmetic ==
    ASSUME NEW u \in Int, NEW i \in Int, NEW D \in Int, NEW E \in Int, NEW P \in Int, NEW Q \in Int,
           0 <= E, E <= D, D <= u, 0 <= P, P <= Q, Q <= u, D - E <= Q - P + 1,
           NEW p \in Int, NEW q \in Int, NEW h \in Int, NEW g \in Int,
           p = (6 * D + 4 * (u - P)) \div 10, q = (6 * E + 4 * (u - Q)) \div 10,
           h = (i + D) \div 2, g = (i + E) \div 2
    PROVE  0 <= q /\ q <= p /\ p <= u /\ g <= h /\ h - g <= p - q + 1
<1>1. 10 * p <= 6 * D + 4 * (u - P) /\ 6 * D + 4 * (u - P) < 10 * p + 10
  OBVIOUS
<1>2. 10 * q <= 6 * E + 4 * (u - Q) /\ 6 * E + 4 * (u - Q) < 10 * q + 10
  OBVIOUS
<1>3. 2 * h <= i + D /\ i + D < 2 * h + 2 /\ 2 * g <= i + E /\ i + E < 2 * g + 2
  OBVIOUS
<1> QED BY <1>1, <1>2, <1>3

\* The churn risk rises by at least as much as the score of holding, to a unit.
LEMMA RiskOutgrowsHold ==
    ASSUME NEW i \in Int, NEW D \in 0..Unit, NEW E \in 0..Unit,
           NEW P \in 0..Unit, NEW Q \in 0..Unit,
           E <= D, P <= Q, D - E <= Q - P + 1
    PROVE  LET high == ClampUnit((6 * D + 4 * (Unit - P)) \div 10)
               low == ClampUnit((6 * E + 4 * (Unit - Q)) \div 10)
               hold == ClampUnit((i + D) \div 2)
               held == ClampUnit((i + E) \div 2)
           IN  /\ high \in Int /\ low \in Int /\ hold \in Int /\ held \in Int
               /\ low <= high /\ hold - held <= high - low + 1
<1>0. Unit \in Int
  BY DEF Unit
<1>1. /\ D \in Int /\ E \in Int /\ P \in Int /\ Q \in Int
      /\ 0 <= E /\ D <= Unit /\ 0 <= P /\ Q <= Unit
  BY UnitsAreInts, Zenon
<1> DEFINE p == (6 * D + 4 * (Unit - P)) \div 10
           q == (6 * E + 4 * (Unit - Q)) \div 10
           h == (i + D) \div 2
           g == (i + E) \div 2
<1>2. p \in Int /\ q \in Int /\ h \in Int /\ g \in Int
  BY <1>0, <1>1
<1>3. 0 <= q /\ q <= p /\ p <= Unit /\ g <= h /\ h - g <= p - q + 1
  BY <1>0, <1>1, <1>2, RiskArithmetic
<1> HIDE DEF p, q, h, g
<1>4. ClampUnit(p) = p /\ ClampUnit(q) = q
  <2>1. ASSUME NEW x \in Int, 0 <= x, x <= Unit PROVE ClampUnit(x) = x
    <3>1. ClampUnit(x) = IF x < 0 THEN 0 ELSE IF x > Unit THEN Unit ELSE x
      BY Clamps
    <3> QED BY <1>0, <2>1, <3>1
  <2>2. 0 <= p /\ q <= Unit
    BY <1>0, <1>2, <1>3
  <2> QED BY <1>2, <1>3, <2>1, <2>2
<1>5. ClampUnit(h) \in Int /\ ClampUnit(g) \in Int /\ ClampUnit(h) - ClampUnit(g) <= h - g
  <2>1. ClampUnit(h) = IF h < 0 THEN 0 ELSE IF h > Unit THEN Unit ELSE h
    BY <1>2, Clamps
  <2>2. ClampUnit(g) = IF g < 0 THEN 0 ELSE IF g > Unit THEN Unit ELSE g
    BY <1>2, Clamps
  <2>3. 0 <= Unit /\ g <= h /\ g \in Int /\ h \in Int
    BY <1>0, <1>1, <1>2, <1>3
  <2> QED BY <1>0, <2>1, <2>2, <2>3
<1>6. ClampUnit(h) - ClampUnit(g) <= p - q + 1
  BY <1>2, <1>3, <1>5
<1>7. /\ ClampUnit(p) \in Int /\ ClampUnit(q) \in Int
      /\ ClampUnit(h) \in Int /\ ClampUnit(g) \in Int
      /\ ClampUnit(q) <= ClampUnit(p)
      /\ ClampUnit(h) - ClampUnit(g) <= ClampUnit(p) - ClampUnit(q) + 1
  BY <1>2, <1>3, <1>4, <1>5, <1>6
<1> QED BY <1>7, Zenon DEF p, q, h, g

LEMMA SaferHoldsImprove ==
    ASSUME HInv, NEW value \in Nat,
           ResolveSnapshot(rows).market.safety_score # Missing,
           value > ResolveSnapshot(rows).market.safety_score,
           \A a \in Actions \ {"IMPROVE"} :
              ScoreOf(a, [ResolveSnapshot(rows) EXCEPT !.market.safety_score = value],
                      owner, fin) + 2
                <= ScoreOf("IMPROVE", [ResolveSnapshot(rows) EXCEPT !.market.safety_score = value],
                           owner, fin)
    PROVE  ComputeHoldingDecision(ResolveSnapshot(rows), owner, fin).action = "IMPROVE"
<1> DEFINE now == ResolveSnapshot(rows)
           safer == [now EXCEPT !.market.safety_score = value]
           m == now.market
           n == safer.market
           r == ReactionVector(owner, m, fin.monthly_rent)
           q == ReactionVector(owner, n, fin.monthly_rent)
           lead == ScoreOf("IMPROVE", safer, owner, fin)
           items == ToSet(Candidates(now, owner, fin))
           later == ToSet(Candidates(safer, owner, fin))
<1>0. /\ owner \in Owners /\ fin \in Financials /\ fin.monthly_rent \in Nat \cup {Missing}
      /\ Readable(m) /\ Readable(n) /\ now.found = TRUE /\ safer.found = TRUE
      /\ n.safety_score = value
      /\ m.inventory_pressure = n.inventory_pressure /\ m.median_rent = n.median_rent
  BY SnapshotReadable, SnapshotShape, OtherReadingsStay, FinancialsAssumption DEF HInv
<1>a. m.safety_score \in Nat /\ m.safety_score <= n.safety_score /\ m.inventory_pressure \in Int
  BY <1>0 DEF Readable, Fields, Missing
<1>b. m.safety_score # Missing
  OBVIOUS
<1>c. \A a \in Actions \ {"IMPROVE"} : ScoreOf(a, safer, owner, fin) + 2 <= lead
  OBVIOUS
<1> HIDE DEF now, safer
<1>1. /\ items \subseteq Scored /\ later \subseteq Scored
      /\ items = ToSet(ListHold(m, r)) \cup ToSet(Lease(m, r))
                  \cup ToSet(Churn(r)) \cup ToSet(Refi(fin))
      /\ later = ToSet(ListHold(n, q)) \cup ToSet(Lease(n, q))
                  \cup ToSet(Churn(q)) \cup ToSet(Refi(fin))
  <2>1. Candidates(now, owner, fin) \in Seq(Scored) /\ Candidates(safer, owner, fin) \in Seq(Scored)
    BY <1>0, CandidateItems
  <2>2. \A s \in Seq(Scored) : ToSet(s) \subseteq Scored
    BY DEF ToSet
  <2> QED BY <1>0, <2>1, <2>2, CandidateItems
<1> HIDE DEF m, n
<1>2. /\ q.affordability_pressure = r.affordability_pressure
      /\ q.willingness_to_transact = r.willingness_to_transact
      /\ q.investor_optimism = r.investor_optimism
      /\ ToUnit(q.displacement_concern) <= ToUnit(r.displacement_concern)
      /\ ToUnit(r.perceived_safety) <= ToUnit(q.perceived_safety)
      /\ ToUnit(r.displacement_concern) - ToUnit(q.displacement_concern)
            <= ToUnit(q.perceived_safety) - ToUnit(r.perceived_safety) + 1
  BY <1>0, <1>a, <1>b, SaferReactions
<1>3. /\ ToUnit(q.displacement_concern) \in 0..Unit /\ ToUnit(r.displacement_concern) \in 0..Unit
      /\ ToUnit(q.perceived_safety) \in 0..Unit /\ ToUnit(r.perceived_safety) \in 0..Unit
  BY <1>0, VectorSigned, ToUnits DEF Signed
<1> HIDE DEF r, q, lead, items, later
<1>4. /\ Risk(r) \in Int /\ Risk(q) \in Int /\ HoldScore(m, r) \in Int /\ HoldScore(n, q) \in Int
      /\ Risk(q) <= Risk(r) /\ HoldScore(m, r) - HoldScore(n, q) <= Risk(r) - Risk(q) + 1
  BY <1>0, <1>a, <1>2, <1>3, RiskOutgrowsHold DEF Risk, HoldScore
<1>5. Lease(m, r) = Lease(n, q) /\ ListScore(m, r) = ListScore(n, q)
  BY <1>0, <1>2 DEF Lease, ListScore
<1>6. \A c \in later : c.action # "IMPROVE" => c.score + 2 <= lead
  <2>1. ASSUME NEW c \in later, c.action # "IMPROVE" PROVE c.score + 2 <= lead
    <3>1. c.action \in Actions \ {"IMPROVE"} /\ c.score \in Int
      BY <1>1, <2>1, UnitsAreInts DEF Scored
    <3>2. /\ c.score <= ScoreOf(c.action, safer, owner, fin)
          /\ ScoreOf(c.action, safer, owner, fin) \in Int
          /\ lead \in Int
      BY <1>0, <2>1, ScoreOfBest, UnitsAreInts DEF later, n, lead
    <3>3. ScoreOf(c.action, safer, owner, fin) + 2 <= lead
      BY <1>c, <3>1
    <3> QED BY <3>1, <3>2, <3>3
  <2> QED BY <2>1
<1>7. Candidate("IMPROVE", Risk(q)) \in later /\ lead = Risk(q) /\ Risk(q) > 6000
  <2>1. lead # 0
    <3>1. ScoreOf("HOLD", safer, owner, fin) \in 0..Unit /\ lead \in 0..Unit
      BY <1>0, ScoreOfBest DEF lead, n
    <3>2. ScoreOf("HOLD", safer, owner, fin) + 2 <= lead
      BY <1>c DEF Actions
    <3> QED BY <3>1, <3>2, UnitsAreInts
  <2>2. PICK c \in later : c.action = "IMPROVE" /\ c.score = lead
    BY <1>0, <2>1, ScoreOfBest DEF lead, later, n
  <2>3. c \in ToSet(Churn(q))
    BY <1>0, <1>1, <2>2, ActionsOfPolicies, RefiCandidate
  <2>4. Risk(q) > 6000 /\ c = Candidate("IMPROVE", Risk(q))
    BY <2>2, <2>3, ChurnItems, SingleItem
  <2> QED BY <2>2, <2>4, SingleItem
<1>8. Risk(r) > 6000
  BY <1>4, <1>7
<1>9. ToSet(Churn(r)) = {Candidate("IMPROVE", Risk(r))}
  <2>1. ~(r.displacement_concern = 0 /\ r.perceived_safety = 0)
    <3>1. SUFFICES ASSUME r.displacement_concern = 0, r.perceived_safety = 0 PROVE FALSE
      OBVIOUS
    <3>2. ToUnit(0) = 5000
      BY DEF ToUnit, Unit
    <3>3. Risk(r) = ClampUnit((6 * 5000 + 4 * (Unit - 5000)) \div 10)
      BY <3>1, <3>2 DEF Risk
    <3>4. (6 * 5000 + 4 * (Unit - 5000)) \div 10 = 5000
      BY DEF Unit
    <3>5. ClampUnit(5000) = 5000
      BY Clamps DEF Unit
    <3> QED BY <1>8, <3>3, <3>4, <3>5
  <2> QED BY <1>8, <2>1, ChurnItems
<1>10. ASSUME NEW c \in items, c.action # "IMPROVE" PROVE c.score < Risk(r)
  <2>0. c.score \in Int
    BY <1>1, UnitsAreInts DEF Scored
  <2>1. CASE c \in later
    <3>1. c.score + 2 <= Risk(q)
      BY <1>6, <1>7, <1>10, <2>1
    <3> QED BY <1>4, <2>0, <3>1
  <2>2. CASE c \notin later
    <3>1. c \in ToSet(ListHold(m, r))
      BY <1>1, <1>5, <1>9, <1>10, <2>2, SingleItem
    <3>2. m.inventory_pressure # Missing /\ n.inventory_pressure # Missing
      BY <1>0, <3>1, ListHoldItems
    <3>3. CASE ListScore(n, q) >= HoldScore(n, q)
      <4>1. Candidate("SELL", ListScore(n, q)) \in later
        BY <1>1, <3>2, <3>3, ListHoldItems
      <4>2. ListScore(n, q) + 2 <= Risk(q)
        BY <1>6, <1>7, <4>1, SingleItem
      <4>3. c # Candidate("SELL", ListScore(m, r))
        BY <1>5, <2>2, <4>1
      <4>4. c = Candidate("HOLD", HoldScore(m, r))
        BY <3>1, <3>2, <4>3, ListHoldItems
      <4>5. c.score = HoldScore(m, r) /\ ListScore(n, q) \in Int
        <5>1. Candidate("SELL", ListScore(n, q)) \in Scored
          BY <1>1, <4>1
        <5>2. ListScore(n, q) \in 0..Unit
          BY <5>1, SingleItem DEF Scored
        <5> QED BY <4>4, <5>2, SingleItem, UnitsAreInts
      <4> QED BY <1>4, <3>3, <4>2, <4>5
    <3>4. CASE ~(ListScore(n, q) >= HoldScore(n, q))
      <4>1. Candidate("HOLD", HoldScore(n, q)) \in later
        BY <1>1, <3>2, <3>4, ListHoldItems
      <4>2. HoldScore(n, q) + 2 <= Risk(q)
        BY <1>6, <1>7, <4>1, SingleItem
      <4>3. CASE c = Candidate("HOLD", HoldScore(m, r))
        <5>1. c.score = HoldScore(m, r)
          BY <4>3, SingleItem
        <5> QED BY <1>4, <4>2, <5>1
      <4>4. CASE c # Candidate("HOLD", HoldScore(m, r))
        <5>1. ListScore(m, r) >= HoldScore(m, r) /\ c = Candidate("SELL", ListScore(m, r))
          BY <3>1, <3>2, <4>4, ListHoldItems
        <5>2. HoldScore(n, q) <= HoldScore(m, r)
          <6>1. \A i \in Int, x, y \in 0..Unit : x <= y =>
                   /\ (i + x) \div 2 \in Int /\ (i + y) \div 2 \in Int
                   /\ (i + x) \div 2 <= (i + y) \div 2
            <7>1. \A x \in 0..Unit : x \in Int
              BY UnitsAreInts
            <7>2. \A i, x, y \in Int : x <= y =>
                     /\ (i + x) \div 2 \in Int /\ (i + y) \div 2 \in Int
                     /\ (i + x) \div 2 <= (i + y) \div 2
              OBVIOUS
            <7> QED BY <7>1, <7>2
          <6> QED BY <1>0, <1>a, <1>2, <1>3, <6>1, ClampsKeepOrder DEF HoldScore
        <5>3. ListScore(m, r) \in Int
          BY <2>0, <5>1, SingleItem
        <5> QED BY <1>4, <1>5, <3>4, <5>1, <5>2, <5>3
      <4> QED BY <4>3, <4>4
    <3> QED BY <3>3, <3>4
  <2> QED BY <2>1, <2>2
<1>11. \A c \in items : c.action = "IMPROVE" => c.score = Risk(r)
  <2>1. ASSUME NEW c \in items, c.action = "IMPROVE" PROVE c.score = Risk(r)
    <3>1. c \in ToSet(Churn(r))
      BY <1>0, <1>1, <2>1, ActionsOfPolicies, RefiCandidate
    <3> QED BY <1>9, <3>1, SingleItem
  <2> QED BY <2>1
<1>12. Candidate("IMPROVE", Risk(r)) \in items
  BY <1>1, <1>9
<1>13. \A d \in items :
          IF d.action = "IMPROVE" THEN d.score <= Risk(r) ELSE d.score < Risk(r)
  BY <1>4, <1>10, <1>11
<1>14. /\ Candidate("IMPROVE", Risk(r)).action = "IMPROVE"
       /\ Candidate("IMPROVE", Risk(r)).score = Risk(r)
  BY SingleItem
<1>15. ComputeHoldingDecision(now, owner, fin).action = "IMPROVE"
  BY <1>0, <1>12, <1>13, <1>14, LeaderIsTaken DEF items, m
<1> QED BY <1>15 DEF now

\* policies.py, ChurnPolicy: in every state, if intervening would lead all else
\* by two units after the neighborhood got safer, it is the advice before.
THEOREM SaferNeverNeedsInterventionHolds == Spec => []SaferNeverNeedsIntervention
<1>1. HInv => SaferNeverNeedsIntervention
  <2>1. SUFFICES ASSUME HInv, NEW o \in Observations, o.kind = "safety_score",
                        ResolveSnapshot(rows).market.safety_score # Missing,
                        o.value > ResolveSnapshot(rows).market.safety_score,
                        \A a \in Actions \ {"IMPROVE"} :
                           ScoreOf(a, [ResolveSnapshot(rows) EXCEPT
                                          !.market.safety_score = o.value], owner, fin) + 2
                             <= ScoreOf("IMPROVE", [ResolveSnapshot(rows) EXCEPT
                                                       !.market.safety_score = o.value], owner, fin)
                 PROVE  ComputeHoldingDecision(ResolveSnapshot(rows), owner, fin).action = "IMPROVE"
    BY DEF SaferNeverNeedsIntervention
  <2>2. o.value \in Nat
    <3>1. ResolveSnapshot(rows).market.safety_score \in Nat
      <4>1. ResolveSnapshot(rows).market.safety_score \in Nat \cup {Missing}
        BY <2>1, SnapshotReadable DEF Readable, Fields
      <4> QED BY <2>1, <4>1
    <3>2. o.value \in Nat \cup {Missing}
      BY ObservationsAssumption
    <3> QED BY <2>1, <3>1, <3>2 DEF Missing
  <2> QED BY <2>1, <2>2, SaferHoldsImprove
<1> QED BY <1>1, AdviceInvariance, PTL
================================================================================
