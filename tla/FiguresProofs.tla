----------------------------- MODULE FiguresProofs -----------------------------
(****************************************************************************)
(* Proofs about the figures the program puts before an investor: the report *)
(* of a run (StrategyPipeline), then the replies of the deal desk           *)
(* (DealDesk), for every portfolio, deal, set of listings, text and number  *)
(* of iterations.  An invariant says what each reply was made of; what it   *)
(* then promises is a fact about the operators, which the sections between  *)
(* prove, with the lemmas of SeriesProofs for sums, sorts and divisions.    *)
(****************************************************************************)
EXTENDS StrategyPipeline, DealDesk, SeriesProofs

(****************************************************************************)
(* The report of a run: what is worked out twice agrees.                    *)
(****************************************************************************)
\* A year's factor is an integer, and no year leaves the figure as it is.
LEMMA CompoundFacts ==
    ASSUME NEW rate \in Int, NEW years \in Nat
    PROVE  Compound(rate, years) \in Int /\ (years = 0 => Compound(rate, years) = Whole)
<1> DEFINE step == [n \in 1..years |-> [x \in Int |-> (x * rate) \div Whole]]
           Eq(f) == f = [n \in 0..years |-> IF n = 0 THEN Whole ELSE (f[n - 1] * rate) \div Whole]
           c == CHOOSE g : Eq(g)
<1>1. \A x \in Int : (x * rate) \div Whole \in Int
  BY DEF Whole
<1>2. Whole \in Int /\ step \in [1..years -> [Int -> Int]]
  BY <1>1 DEF Whole
<1>3. \A n \in 1..years, x \in Int : step[n][x] = (x * rate) \div Whole
  OBVIOUS
<1>4. Compound(rate, years) = c[years]
  BY DEF Compound
<1> HIDE DEF step
<1>5. PICK f : Follows(f, years, Int, Whole, step)
  BY <1>2, RecursionExists
<1>6. Eq(f)
  <2>1. f \in [0..years -> Int] /\ f[0] = Whole
    BY <1>5 DEF Follows
  <2>2. \A n \in 1..years : f[n] = (f[n - 1] * rate) \div Whole
    <3>1. \A n \in 1..years : f[n] = step[n][f[n - 1]]
      BY <1>5 DEF Follows
    <3>2. \A n \in 1..years : f[n - 1] \in Int
      BY <2>1
    <3>3. QED
      BY <1>3, <3>1, <3>2
  <2>3. QED
    BY <2>1, <2>2
<1>7. Eq(c)
  BY <1>6
<1> HIDE DEF c
<1>8. c[0] = Whole /\ \A n \in 1..years : c[n] = (c[n - 1] * rate) \div Whole
  BY <1>7
<1> DEFINE S == {n \in 0..years : c[n] \in Int}
<1>9. 0 \in S
  BY <1>2, <1>8
<1>10. \A n \in 1..years : n - 1 \in S => n \in S
  BY <1>1, <1>8
<1> HIDE DEF S
<1>11. years \in S
  BY <1>9, <1>10, UpTo
<1>12. QED
  BY <1>4, <1>8, <1>11 DEF S

\* The growth of income and of value over a number of years; over none, none.
LEMMA FactorsAreIntegers ==
    ASSUME NEW p \in Profiles, NEW years \in Nat
    PROVE  /\ NoiGrowth(p, years) \in Int /\ Appreciation(p, years) \in Int
           /\ NoiGrowth(p, 0) = Whole /\ Appreciation(p, 0) = Whole
<1>1. /\ p.rent_growth \in Int /\ p.expense_growth \in Int
      /\ p.outlook \in {"bullish", "neutral", "bearish"}
  <2>1. p \in [rent_growth: -500..500, expense_growth: -500..500, horizon: 1..50,
               exit_cap: 1..500, tax: 0..Whole, outlook: {"bullish", "neutral", "bearish"},
               refi: BOOLEAN, protection: BOOLEAN, raise: BOOLEAN]
    BY ProfilesAssumption
  <2>2. p.rent_growth \in -500..500 /\ p.expense_growth \in -500..500
    BY <2>1, SMTT(60)
  <2>3. QED
    BY <2>1, <2>2, SMTT(60)
<1>2. Whole + p.rent_growth - p.expense_growth \in Int
  BY <1>1 DEF Whole
<1>3. Whole + 30 + OutlookTilt[p.outlook] \in Int
  <2>1. OutlookTilt[p.outlook] \in Int
    BY <1>1 DEF OutlookTilt
  <2>2. QED
    BY <2>1 DEF Whole
<1>4. QED
  BY <1>2, <1>3, CompoundFacts DEF NoiGrowth, Appreciation

\* A holding's figures, and the NOI worked out from them, are integers.
LEMMA NoiIsInteger ==
    ASSUME NEW h \in Holdings
    PROVE  /\ NOI(h) \in Int /\ h.known \in BOOLEAN
           /\ h.value \in Nat /\ h.debt \in Int /\ h.loan \in Int
<1>1. /\ h.known \in BOOLEAN /\ h.value \in Nat /\ h.debt \in Nat /\ h.loan \in Nat
      /\ h.rent \in Nat /\ h.vacancy \in 0..Whole /\ h.costs \in Nat
  BY HoldingsAssumption
<1>2. h.rent * (Whole - h.vacancy) \in Int
  <2>1. h.rent \in Int /\ h.vacancy \in Int /\ Whole \in Int
    BY <1>1, SMTT(60) DEF Whole
  <2>2. Whole - h.vacancy \in Int
    BY <2>1
  <2>3. QED
    BY <2>1, <2>2
<1>3. (h.rent * (Whole - h.vacancy)) \div Whole \in Int
  BY <1>2 DEF Whole
<1>4. QED
  BY <1>1, <1>3 DEF NOI

\* A row's figures are integers, and a row without a positive value has value 0.
LEMMA RowFacts ==
    ASSUME NEW h \in Holdings
    PROVE  LET row == SummaryRow(h)
           IN  /\ row.value = IfKnown(h, h.value) /\ row.value \in Nat
               /\ row.noi = IfKnown(h, NOI(h)) /\ row.noi \in Int
               /\ row.cash_flow = row.noi - IfKnown(h, h.debt) /\ row.cash_flow \in Int
               /\ IfKnown(h, h.debt) \in Int /\ IfKnown(h, h.loan) \in Int
               /\ ~Valued(row) => row.value = 0
BY NoiIsInteger DEF SummaryRow, IfKnown, Valued

\* The two ways of adding up a portfolio, holding by holding.
LEMMA SummaryMatchesAggregate ==
    ASSUME NEW holdings \in Seq(Holdings)
    PROVE  LET tab == PortfolioAggregate(holdings)
               an == BuildPortfolioSummary(holdings)
           IN  /\ DOMAIN tab = {"value", "equity", "noi", "cash_flow", "coverage"}
               /\ an.value = tab.value /\ an.equity = tab.equity /\ an.noi = tab.noi
               /\ an.cash_flow = tab.cash_flow /\ an.coverage = tab.coverage
<1> DEFINE tab == PortfolioAggregate(holdings)
           an == BuildPortfolioSummary(holdings)
           rows == [i \in DOMAIN holdings |-> SummaryRow(holdings[i])]
           values == [i \in DOMAIN holdings |-> IfKnown(holdings[i], holdings[i].value)]
           nois == [i \in DOMAIN holdings |-> IfKnown(holdings[i], NOI(holdings[i]))]
           debts == [i \in DOMAIN holdings |-> IfKnown(holdings[i], holdings[i].debt)]
           flows == [i \in DOMAIN holdings |-> SummaryRow(holdings[i]).cash_flow]
<1>1. \A i \in DOMAIN holdings : holdings[i] \in Holdings
  OBVIOUS
<1>2. an.value = SumOf([i \in DOMAIN rows |-> rows[i].value]) /\ tab.value = SumOf(values)
  BY DEF BuildPortfolioSummary, PortfolioAggregate, Total
<1>3. an.noi = SumOf([i \in DOMAIN rows |-> rows[i].noi]) /\ tab.noi = SumOf(nois)
  BY DEF BuildPortfolioSummary, PortfolioAggregate, Total
<1>4. /\ an.cash_flow = SumOf([i \in DOMAIN rows |-> rows[i].cash_flow])
      /\ tab.cash_flow = SumOf(nois) - SumOf(debts)
  BY DEF BuildPortfolioSummary, PortfolioAggregate, Total
<1>5. [i \in DOMAIN rows |-> rows[i].value] = values
  BY <1>1, RowFacts
<1>6. [i \in DOMAIN rows |-> rows[i].noi] = nois
  BY <1>1, RowFacts
<1>7. [i \in DOMAIN rows |-> rows[i].cash_flow] = flows
  OBVIOUS
<1>8. SumOf(flows) = SumOf(nois) - SumOf(debts)
  <2>1. \A i \in DOMAIN holdings :
            nois[i] \in Int /\ debts[i] \in Int /\ flows[i] \in Int /\ nois[i] = flows[i] + debts[i]
    <3>1. TAKE i \in DOMAIN holdings
    <3>2. /\ nois[i] \in Int /\ debts[i] \in Int /\ flows[i] \in Int
          /\ flows[i] = nois[i] - debts[i]
      BY <1>1, RowFacts
    <3>3. QED
      BY <3>2
  <2>2. /\ DOMAIN holdings = 1..Len(holdings) /\ Len(holdings) \in Nat
        /\ nois = [i \in DOMAIN holdings |-> nois[i]]
        /\ debts = [i \in DOMAIN holdings |-> debts[i]]
        /\ flows = [i \in DOMAIN holdings |-> flows[i]]
    OBVIOUS
  <2> HIDE DEF nois, debts, flows
  <2>3. /\ nois \in Seq(Int) /\ debts \in Seq(Int) /\ flows \in Seq(Int)
        /\ Len(nois) = Len(holdings) /\ Len(debts) = Len(holdings)
        /\ Len(flows) = Len(holdings)
    BY <2>1, <2>2, IntSequence
  <2>4. \A i \in 1..Len(nois) : nois[i] = flows[i] + debts[i]
    BY <2>1, <2>2, <2>3
  <2>5. SumOf(nois) = SumOf(flows) + SumOf(debts)
    BY <2>3, <2>4, SumAdds
  <2>6. SumOf(flows) \in Int /\ SumOf(debts) \in Int
    BY <2>3, SumIsInt
  <2>7. QED
    BY <2>5, <2>6
<1>9. an.coverage = tab.coverage
  <2> DEFINE paying(h) == h.known /\ h.debt > 0
             theirs == [i \in DOMAIN holdings |->
                           IF paying(holdings[i]) THEN SummaryRow(holdings[i]).noi ELSE 0]
             ours == [i \in DOMAIN holdings |->
                         IF paying(holdings[i]) THEN NOI(holdings[i]) ELSE 0]
  <2>1. theirs = ours
    BY <1>1, RowFacts DEF IfKnown
  <2>2. an.coverage.noi = SumOf(theirs) /\ tab.coverage.noi = SumOf(ours)
    BY DEF BuildPortfolioSummary, PortfolioAggregate, Coverage, Total
  <2>3. an.coverage = [noi |-> an.coverage.noi, debt |-> tab.coverage.debt]
    BY DEF BuildPortfolioSummary, PortfolioAggregate, Coverage
  <2>4. tab.coverage = [noi |-> tab.coverage.noi, debt |-> tab.coverage.debt]
    BY DEF PortfolioAggregate, Coverage
  <2> HIDE DEF an, tab, theirs, ours
  <2>5. QED
    BY <2>1, <2>2, <2>3, <2>4
<1>10. an.equity = tab.equity
  BY <1>2, <1>5 DEF BuildPortfolioSummary, PortfolioAggregate
<1>11. DOMAIN tab = {"value", "equity", "noi", "cash_flow", "coverage"}
  BY DEF PortfolioAggregate
<1> HIDE DEF an, tab, values, nois, flows, debts, rows
<1>12. an.value = tab.value /\ an.noi = tab.noi /\ an.cash_flow = tab.cash_flow
  BY <1>2, <1>3, <1>4, <1>5, <1>6, <1>7, <1>8
<1>13. QED
  BY <1>9, <1>10, <1>11, <1>12 DEF an, tab

\* The figures of the curve's ends, over the rows of a summary.
LEMMA CurveMeetsEnds ==
    ASSUME NEW holdings \in Seq(Holdings), NEW p \in Profiles
    PROVE  LET an == BuildPortfolioSummary(holdings)
               sim == ProjectSimulation(an.rows, p)
           IN  /\ sim.per_year[0].value = Whole * an.value
               /\ sim.per_year[0].cash_flow = Whole * an.cash_flow
               /\ sim.per_year[p.horizon].value = sim.value
               /\ sim.per_year[p.horizon].noi = sim.noi
<1>1. p.horizon \in Nat /\ 0 \in 0..p.horizon /\ p.horizon \in 0..p.horizon
  <2>1. p.horizon \in 1..50
    BY ProfilesAssumption
  <2>2. \A n \in 1..50 : n \in Nat /\ 0 \in 0..n /\ n \in 0..n
    OBVIOUS
  <2>3. QED
    BY <2>1, <2>2
<1>2. 0 \in Nat
  OBVIOUS
<1> DEFINE an == BuildPortfolioSummary(holdings)
           rows == an.rows
           sim == ProjectSimulation(rows, p)
           last == p.horizon
           values == [i \in DOMAIN rows |-> rows[i].value]
           flows == [i \in DOMAIN rows |-> rows[i].cash_flow]
<1>3. rows = [i \in DOMAIN holdings |-> SummaryRow(holdings[i])]
  BY DEF BuildPortfolioSummary
<1>4. DOMAIN rows = 1..Len(holdings) /\ Len(holdings) \in Nat
  BY <1>3
<1>5. \A i \in DOMAIN rows : /\ rows[i].value \in Int /\ rows[i].cash_flow \in Int
                             /\ ~Valued(rows[i]) => rows[i].value = 0
  <2>1. \A i \in DOMAIN rows : holdings[i] \in Holdings /\ rows[i] = SummaryRow(holdings[i])
    BY <1>3
  <2>2. QED
    BY <2>1, RowFacts
<1>6. /\ NoiGrowth(p, last) \in Int /\ Appreciation(p, last) \in Int
      /\ NoiGrowth(p, 0) = Whole /\ Appreciation(p, 0) = Whole
  BY <1>2, <1>1, FactorsAreIntegers
<1>7. an.value = SumOf(values) /\ an.cash_flow = SumOf(flows)
  BY <1>3 DEF BuildPortfolioSummary, Total
<1>8. /\ sim.per_year[0].value = SumOf([i \in DOMAIN rows |-> rows[i].value * Appreciation(p, 0)])
      /\ sim.per_year[0].cash_flow
            = SumOf([i \in DOMAIN rows |-> rows[i].cash_flow * NoiGrowth(p, 0)])
  <2>1. 0 \in 0..p.horizon
    BY <1>1
  <2>2. QED
    BY <2>1 DEF ProjectSimulation, ProjectYearSeries, Total
<1>9. /\ sim.per_year[last].value
            = SumOf([i \in DOMAIN rows |-> rows[i].value * Appreciation(p, last)])
      /\ sim.per_year[last].noi
            = SumOf([i \in DOMAIN rows |-> IF Valued(rows[i]) THEN rows[i].noi * NoiGrowth(p, last)
                                           ELSE 0])
  <2>1. last \in 0..p.horizon
    BY <1>1
  <2>2. QED
    BY <2>1 DEF ProjectSimulation, ProjectYearSeries, Total
<1>10. /\ sim.value = SumOf([i \in DOMAIN rows |-> ProjectHolding(rows[i], p).value])
      /\ sim.noi = SumOf([i \in DOMAIN rows |-> ProjectHolding(rows[i], p).noi])
  <2> DEFINE projections == [i \in DOMAIN rows |-> ProjectHolding(rows[i], p)]
  <2>1. /\ sim.value = SumOf([i \in DOMAIN projections |-> projections[i].value])
        /\ sim.noi = SumOf([i \in DOMAIN projections |-> projections[i].noi])
    BY DEF ProjectSimulation, Total
  <2>2. /\ [i \in DOMAIN projections |-> projections[i].value]
             = [i \in DOMAIN rows |-> ProjectHolding(rows[i], p).value]
        /\ [i \in DOMAIN projections |-> projections[i].noi]
             = [i \in DOMAIN rows |-> ProjectHolding(rows[i], p).noi]
    OBVIOUS
  <2>3. QED
    BY <2>1, <2>2
<1> HIDE DEF an, sim, rows
<1>11. [i \in DOMAIN rows |-> ProjectHolding(rows[i], p).noi]
          = [i \in DOMAIN rows |-> IF Valued(rows[i]) THEN rows[i].noi * NoiGrowth(p, last) ELSE 0]
  BY DEF ProjectHolding
<1>12. [i \in DOMAIN rows |-> ProjectHolding(rows[i], p).value]
          = [i \in DOMAIN rows |-> rows[i].value * Appreciation(p, last)]
  <2>1. ASSUME NEW i \in DOMAIN rows
        PROVE  ProjectHolding(rows[i], p).value = rows[i].value * Appreciation(p, last)
    <3>1. CASE Valued(rows[i])
      BY <3>1 DEF ProjectHolding
    <3>2. CASE ~Valued(rows[i])
      <4>1. rows[i].value = 0 /\ 0 * Appreciation(p, last) = 0
        BY <1>5, <1>6, <3>2
      <4>2. QED
        BY <3>2, <4>1 DEF ProjectHolding
    <3>3. QED
      BY <3>1, <3>2
  <2>2. QED
    BY <2>1
<1>13. ASSUME NEW f, f = [i \in DOMAIN rows |-> f[i]], \A i \in DOMAIN rows : f[i] \in Int
       PROVE  SumOf([i \in DOMAIN rows |-> f[i] * Whole]) = Whole * SumOf(f)
  <2> DEFINE scaled == [i \in DOMAIN rows |-> f[i] * Whole]
  <2>1. f \in Seq(Int) /\ Len(f) = Len(holdings)
    BY <1>4, <1>13, IntSequence
  <2>2. scaled \in Seq(Int) /\ Len(scaled) = Len(holdings)
    <3>1. scaled = [i \in 1..Len(holdings) |-> scaled[i]]
      BY <1>4
    <3>2. \A i \in 1..Len(holdings) : scaled[i] \in Int
      BY <1>4, <1>13 DEF Whole
    <3> HIDE DEF scaled
    <3>3. QED
      BY <1>4, <3>1, <3>2, IntSequence
  <2>3. \A i \in 1..Len(scaled) : scaled[i] = f[i] * Whole
    BY <1>4, <2>2
  <2>4. Whole \in Int
    BY DEF Whole
  <2> HIDE DEF scaled
  <2>5. SumOf(scaled) = SumOf(f) * Whole
    BY <2>1, <2>2, <2>3, <2>4, SumScales
  <2>6. SumOf(f) \in Int
    BY <2>1, SumIsInt
  <2>7. QED
    BY <2>4, <2>5, <2>6 DEF scaled
<1>14. SumOf([i \in DOMAIN rows |-> values[i] * Whole]) = Whole * SumOf(values)
  BY <1>5, <1>13
<1>15. SumOf([i \in DOMAIN rows |-> flows[i] * Whole]) = Whole * SumOf(flows)
  BY <1>5, <1>13
<1>16. /\ [i \in DOMAIN rows |-> rows[i].value * Appreciation(p, 0)]
            = [i \in DOMAIN rows |-> values[i] * Whole]
       /\ [i \in DOMAIN rows |-> rows[i].cash_flow * NoiGrowth(p, 0)]
            = [i \in DOMAIN rows |-> flows[i] * Whole]
  BY <1>6
<1> HIDE DEF values, flows, last
<1>17. /\ sim.per_year[0].value = Whole * an.value
       /\ sim.per_year[0].cash_flow = Whole * an.cash_flow
  BY <1>7, <1>8, <1>14, <1>15, <1>16
<1>18. /\ sim.per_year[last].value = sim.value
       /\ sim.per_year[last].noi = sim.noi
  BY <1>9, <1>10, <1>11, <1>12
<1>19. QED
  BY <1>17, <1>18 DEF an, sim, rows, last

\* What each stage of a run has kept from the one before.
Staged ==
    /\ portfolio \in Seq(Holdings) /\ profile \in Profiles
    /\ stage \in {"editing", "submitted", "analysed", "simulated", "reported"}
    /\ Analysed => analysis = BuildPortfolioSummary(portfolio)
    /\ Simulated => simulation = ProjectSimulation(analysis.rows, profile)
    /\ Reported => report = ReconcileUnifiedReport(analysis, simulation)

\* A later stage works on exactly what an earlier one left.
LEMMA StagedHolds == Spec => []Staged
<1>1. Init => Staged
  BY DEF Init, Staged, Analysed, Simulated, Reported
<1>2. Staged /\ [Next]_vars => Staged'
  <2>1. SUFFICES ASSUME Staged, [Next]_vars
                 PROVE  Staged'
    OBVIOUS
  <2>2. CASE AddHolding
    <3>1. portfolio' \in Seq(Holdings)
      BY <2>1, <2>2 DEF Staged, AddHolding
    <3>2. QED
      BY <2>1, <2>2, <3>1 DEF Staged, Analysed, Simulated, Reported, AddHolding
  <2>3. CASE Submit
    BY <2>1, <2>3 DEF Staged, Analysed, Simulated, Reported, Submit
  <2>4. CASE Analyse
    BY <2>1, <2>4 DEF Staged, Analysed, Simulated, Reported, Analyse
  <2>5. CASE Simulate
    BY <2>1, <2>5 DEF Staged, Analysed, Simulated, Reported, Simulate
  <2>6. CASE Reconcile
    BY <2>1, <2>6 DEF Staged, Analysed, Simulated, Reported, Reconcile
  <2>7. CASE UNCHANGED vars
    BY <2>1, <2>7 DEF Staged, Analysed, Simulated, Reported, vars
  <2>8. QED
    BY <2>1, <2>2, <2>3, <2>4, <2>5, <2>6, <2>7 DEF Next
<1>3. QED
  BY <1>1, <1>2, PTL DEF Spec

\* portfolio_summary.py, api/portfolio.py and strategy_runner.py work out the
\* same figures separately, and they agree: the summary's totals with those of
\* the portfolio tab, the two ends of the yearly curve with the totals of the
\* projection.
THEOREM FiguresAgreeHolds == Spec => []FiguresAgree
<1>1. Staged => FiguresAgree
  <2>1. SUFFICES ASSUME Staged
                 PROVE  FiguresAgree
    OBVIOUS
  <2>2. ASSUME Analysed
        PROVE  LET tab == PortfolioAggregate(portfolio)
               IN  \A figure \in DOMAIN tab : analysis[figure] = tab[figure]
    <3>1. portfolio \in Seq(Holdings) /\ analysis = BuildPortfolioSummary(portfolio)
      BY <2>1, <2>2 DEF Staged
    <3>2. QED
      BY <3>1, SummaryMatchesAggregate
  <2>3. ASSUME Simulated
        PROVE  LET first == simulation.per_year[0]
                   last == simulation.per_year[profile.horizon]
               IN  /\ first.value = Whole * analysis.value
                   /\ first.cash_flow = Whole * analysis.cash_flow
                   /\ last.value = simulation.value /\ last.noi = simulation.noi
    <3>1. /\ portfolio \in Seq(Holdings) /\ profile \in Profiles
          /\ analysis = BuildPortfolioSummary(portfolio)
          /\ simulation = ProjectSimulation(analysis.rows, profile)
      BY <2>1, <2>3 DEF Staged, Analysed
    <3>2. QED
      BY <3>1, CurveMeetsEnds
  <2>4. QED
    BY <2>2, <2>3 DEF FiguresAgree
<1>2. QED
  BY <1>1, StagedHolds, PTL

\* A projection exists for every row and carries its recommendation.
LEMMA ProjectionOfRow ==
    ASSUME NEW rows, NEW p, NEW i \in DOMAIN rows
    PROVE  /\ DOMAIN ProjectSimulation(rows, p).projections = DOMAIN rows
           /\ ProjectSimulation(rows, p).projections[i].action
                  = ProjectRecommendation(rows[i], p)
BY DEF ProjectSimulation, ProjectHolding

\* With tenant protection on, no holding is projected to raise the rent, in
\* whatever state the run is and whatever the other settings say.
THEOREM ProtectionHonoredHolds == Spec => []ProtectionHonored
<1>1. Staged => ProtectionHonored
  <2>1. SUFFICES ASSUME Staged, Simulated, profile.protection,
                        NEW i \in DOMAIN simulation.projections
                 PROVE  simulation.projections[i].action # "RAISE_RENT"
    BY DEF ProtectionHonored
  <2>2. simulation = ProjectSimulation(analysis.rows, profile)
    BY <2>1 DEF Staged
  <2>3. i \in DOMAIN analysis.rows
    BY <2>1, <2>2 DEF ProjectSimulation
  <2>4. simulation.projections[i].action = ProjectRecommendation(analysis.rows[i], profile)
    BY <2>2, <2>3, ProjectionOfRow
  <2>5. QED
    BY <2>1, <2>4 DEF ProjectRecommendation
<1>2. QED
  BY <1>1, StagedHolds, PTL

(****************************************************************************)
(* Depreciation: how the residual life of a used building behaves for every *)
(* statutory life and every age, where two formulas meet at its end.        *)
(****************************************************************************)

\* A building has two years at least, and never more than its statutory life.
THEOREM ResidualLifeBounded ==
    ASSUME NEW life \in StatutoryLives, NEW age \in Nat
    PROVE  /\ ResidualLifeUsed(life, age) \in Nat
           /\ 2 <= ResidualLifeUsed(life, age) /\ ResidualLifeUsed(life, age) <= life
<1>1. CASE age >= life
  BY <1>1 DEF StatutoryLives, ResidualLifeUsed
<1>2. CASE ~(age >= life)
  <2>1. 5 * (life - age) + age >= life /\ 5 * (life - age) + age <= 5 * life
    BY <1>2 DEF StatutoryLives
  <2>2. (5 * (life - age) + age) \div 5 \in Nat /\ (5 * (life - age) + age) \div 5 <= life
    BY <1>2, <2>1 DEF StatutoryLives
  <2>3. QED
    BY <1>2, <2>2 DEF StatutoryLives, ResidualLifeUsed
<1>3. QED
  BY <1>1, <1>2

\* The older of two buildings of a kind is never written off over more years,
\* also when only the older one is past its statutory life.
THEOREM ResidualLifeShrinks ==
    ASSUME NEW life \in StatutoryLives, NEW young \in Nat, NEW old \in Nat, young <= old
    PROVE  ResidualLifeUsed(life, old) <= ResidualLifeUsed(life, young)
<1>1. CASE young >= life
  BY <1>1 DEF StatutoryLives, ResidualLifeUsed
<1>2. CASE young < life /\ life <= old
  <2>1. life \div 5 <= (5 * (life - young) + young) \div 5
    BY <1>2 DEF StatutoryLives
  <2>2. QED
    BY <1>2, <2>1 DEF StatutoryLives, ResidualLifeUsed
<1>3. CASE old < life
  <2>1. (5 * (life - old) + old) \div 5 <= (5 * (life - young) + young) \div 5
    BY <1>3 DEF StatutoryLives
  <2>2. QED
    BY <1>3, <2>1 DEF StatutoryLives, ResidualLifeUsed
<1>4. QED
  BY <1>1, <1>2, <1>3 DEF StatutoryLives

\* A shield that has expired within the horizon was in force for the whole of the
\* residual life, and an unexpired one for the whole horizon: the years that
\* project_depreciation writes off are never more than either.
THEOREM ShieldNeverOutlives ==
    ASSUME NEW life \in StatutoryLives, NEW age \in Nat, NEW horizon \in Nat
    PROVE  LET residual == ResidualLifeUsed(life, age)
               years == ShieldedYears(residual, horizon)
           IN  /\ years <= residual /\ years <= horizon
               /\ residual <= horizon <=> years = residual
BY ResidualLifeBounded DEF ShieldedYears

(****************************************************************************)
(* What a report hides.                                                     *)
(****************************************************************************)
\* The projected flow of a row is a number, with the shield of whatever building.
LEMMA FlowIsInteger ==
    ASSUME NEW h \in Holdings, NEW p \in Profiles
    PROVE  ProjectedCashFlow(SummaryRow(h), p) \in Int
<1> DEFINE row == SummaryRow(h)
<1>1. p.horizon \in 1..50 /\ p.tax \in 0..Whole
  BY ProfilesAssumption
<1>2. NoiGrowth(p, p.horizon) \in Int
  BY <1>1, FactorsAreIntegers
<1>3. row.cash_flow \in Int
  BY RowFacts
<1>4. row.building.life \in StatutoryLives \cup {0} /\ row.building.age \in Nat
      /\ row.building.basis \in Nat
  <2>1. h.building \in [life: StatutoryLives \cup {0}, age: Nat, basis: Nat]
    BY HoldingsAssumption
  <2>2. row.building = IF h.known THEN h.building ELSE [h.building EXCEPT !.basis = 0]
    BY DEF SummaryRow
  <2> HIDE DEF row
  <2>3. row.building \in [life: StatutoryLives \cup {0}, age: Nat, basis: Nat]
    BY <2>1, <2>2
  <2> QED BY <2>3
<1> HIDE DEF row
<1>5. ASSUME Shielded(row) PROVE ShieldInHorizon(row, p) \in Int
  <2>1. row.building.life \in StatutoryLives
    BY <1>4, <1>5 DEF Shielded
  <2>2. Residual(row) \in Nat /\ 2 <= Residual(row)
    BY <1>4, <2>1, ResidualLifeBounded DEF Residual
  <2>3. ShieldedYears(Residual(row), p.horizon) \in Int
    BY <1>1, <2>2 DEF ShieldedYears
  <2>4. row.building.basis * p.tax \in Int
    <3>1. row.building.basis \in Int /\ p.tax \in Int
      BY <1>1, <1>4, SMTT(60) DEF Whole
    <3> QED BY <3>1
  <2>5. Whole * Residual(row) \in Nat /\ Whole * Residual(row) > 0
    BY <2>2 DEF Whole
  <2>6. (row.building.basis * p.tax) \div (Whole * Residual(row)) \in Int
    BY <2>4, <2>5
  <2> QED BY <1>5, <2>3, <2>6 DEF ShieldInHorizon
<1>6. CASE Shielded(row)
  <2>1. (ShieldInHorizon(row, p) * Whole) \div p.horizon \in Int
    <3>1. ShieldInHorizon(row, p) * Whole \in Int /\ p.horizon \in Nat /\ p.horizon > 0
      BY <1>1, <1>5, <1>6 DEF Whole
    <3> QED BY <3>1
  <2>2. row.cash_flow * NoiGrowth(p, p.horizon) \in Int
    BY <1>2, <1>3
  <2>3. ProjectedCashFlow(row, p)
          = row.cash_flow * NoiGrowth(p, p.horizon)
              + (ShieldInHorizon(row, p) * Whole) \div p.horizon
    BY <1>6 DEF ProjectedCashFlow
  <2> QED BY <2>1, <2>2, <2>3 DEF row
<1>7. CASE ~Shielded(row)
  <2>1. row.cash_flow * NoiGrowth(p, p.horizon) \in Int
    BY <1>2, <1>3
  <2>2. ProjectedCashFlow(row, p) = row.cash_flow * NoiGrowth(p, p.horizon) + 0
    BY <1>7 DEF ProjectedCashFlow
  <2> QED BY <2>1, <2>2 DEF row
<1> QED BY <1>6, <1>7

\* If the income keeps nine tenths, so does the growth; the debt service that the
\* projection leaves out with it is a tenth at most.
LEMMA FlatDebtIsBounded ==
    ASSUME NEW flow \in Int, flow >= 0, NEW noi \in Int, noi > 0, NEW debt \in Nat,
           NEW growth \in Int, 10 * noi * growth >= 9 * noi * Whole
    PROVE  10 * (flow - debt * (Whole - growth)) >= -debt * Whole
<1>1. 10 * growth >= 9 * Whole
  <2>1. SUFFICES ASSUME 10 * growth < 9 * Whole PROVE FALSE
    BY DEF Whole
  <2>2. noi * (9 * Whole - 10 * growth) > 0
    <3>1. \A x, y \in Int : x > 0 /\ y > 0 => x * y > 0
      OBVIOUS
    <3>2. 9 * Whole - 10 * growth \in Int /\ 9 * Whole - 10 * growth > 0
      BY <2>1 DEF Whole
    <3> QED BY <3>1, <3>2
  <2>3. noi * (9 * Whole - 10 * growth) = 9 * noi * Whole - 10 * noi * growth
    BY DEF Whole
  <2> QED BY <2>2, <2>3 DEF Whole
<1>2. debt * (10 * growth - 9 * Whole) >= 0
  <2>1. \A x, y \in Nat : x * y >= 0
    OBVIOUS
  <2>2. 10 * growth - 9 * Whole \in Nat
    BY <1>1 DEF Whole
  <2> QED BY <2>1, <2>2
<1>3. 10 * (flow - debt * (Whole - growth))
         = 10 * flow - debt * Whole + debt * (10 * growth - 9 * Whole)
  BY DEF Whole
<1> QED BY <1>2, <1>3 DEF Whole

\* strategy_runner.py:153, the debt service "approximately flat": a strategy
\* reported to survive hides no projected loss of a holding that is not for sale,
\* no fall of its income by more than a tenth, and with a debt service that really
\* is flat no more than a tenth of it.
THEOREM NoSilentLossHolds == Spec => []NoSilentLoss
<1>1. Staged => NoSilentLoss
  <2> SUFFICES ASSUME Staged, Reported, report.survives, NEW i \in DOMAIN analysis.rows,
                      analysis.rows[i].today # "SELL"
               PROVE  LET row == analysis.rows[i]
                          debt == row.noi - row.cash_flow
                          growth == NoiGrowth(profile, profile.horizon)
                          flat == ProjectedCashFlow(row, profile) - debt * (Whole - growth)
                      IN  /\ row.known => ProjectedCashFlow(row, profile) >= 0
                          /\ Valued(row) => 10 * row.noi * growth >= 9 * row.noi * Whole
                          /\ Valued(row) /\ row.noi > 0 => 10 * flat >= -debt * Whole
    BY DEF NoSilentLoss
  <2> DEFINE row == analysis.rows[i]
             debt == row.noi - row.cash_flow
             growth == NoiGrowth(profile, profile.horizon)
             flow == ProjectedCashFlow(row, profile)
  <2>1. Simulated /\ Analysed /\ profile \in Profiles
    BY DEF Staged, Simulated, Analysed
  <2>2. simulation = ProjectSimulation(analysis.rows, profile)
        /\ report = ReconcileUnifiedReport(analysis, simulation)
        /\ analysis.rows = [j \in DOMAIN portfolio |-> SummaryRow(portfolio[j])]
    BY <2>1 DEF Staged, BuildPortfolioSummary
  <2>3. simulation.projections[i].action # "SELL"
    <3>1. \A j \in DOMAIN analysis.rows :
             analysis.rows[j].today # simulation.projections[j].action
                 => simulation.projections[j].action # "SELL"
      BY <2>2 DEF ReconcileUnifiedReport
    <3> QED BY <3>1
  <2>4. ProjectRecommendation(row, profile) # "SELL"
    BY <2>2, <2>3, ProjectionOfRow
  <2>5. ~Shortfall(row, profile) /\ ~Declines(row, profile)
    BY <2>4 DEF ProjectRecommendation
  <2>6. PICK h \in Holdings : row = SummaryRow(h)
    <3>1. i \in DOMAIN portfolio /\ portfolio \in Seq(Holdings)
      BY <2>2 DEF Staged
    <3>2. portfolio[i] \in Holdings /\ row = SummaryRow(portfolio[i])
      BY <2>2, <3>1
    <3> QED BY <3>2
  <2>7. row.noi \in Int /\ row.cash_flow \in Int
    BY <2>6, RowFacts
  <2>8. growth \in Int
    <3>1. profile.horizon \in Nat
      BY <2>1, ProfilesAssumption
    <3> QED BY <2>1, <3>1, FactorsAreIntegers
  <2>9. flow \in Int
    BY <2>1, <2>6, FlowIsInteger
  <2>10. row.known => flow >= 0
    BY <2>5, <2>9 DEF Shortfall
  <2>11. Valued(row) => 10 * row.noi * growth >= 9 * row.noi * Whole
    <3>1. 10 * row.noi * growth \in Int /\ 9 * row.noi * Whole \in Int
      BY <2>7, <2>8 DEF Whole
    <3>2. Valued(row) => ~(10 * row.noi * growth < 9 * row.noi * Whole)
      BY <2>5 DEF Declines
    <3> QED BY <3>1, <3>2
  <2>12. ASSUME Valued(row), row.noi > 0
         PROVE  10 * (flow - debt * (Whole - growth)) >= -debt * Whole
    <3>1. debt \in Nat
      <4>1. h.debt \in Nat /\ IfKnown(h, h.debt) \in Nat
        BY HoldingsAssumption DEF IfKnown
      <4>2. row.cash_flow = row.noi - IfKnown(h, h.debt)
        BY <2>6, RowFacts
      <4> QED BY <2>7, <4>1, <4>2
    <3>2. flow >= 0
      BY <2>10, <2>12 DEF Valued
    <3> HIDE DEF row, debt, growth, flow
    <3> QED BY <2>7, <2>8, <2>9, <2>11, <2>12, <3>1, <3>2, FlatDebtIsBounded
  <2> QED BY <2>10, <2>11, <2>12
<1>2. QED
  BY <1>1, StagedHolds, PTL

--------------------------------------------------------------------------------
(****************************************************************************)
(* The deal desk.  DeskInv says, for each kind of request, what was asked,  *)
(* what has been worked out for it, and that the reply is made of that.     *)
(****************************************************************************)
\* What is known of a request and its reply, by the kind of the request.
Consulted ==
    /\ request = [kind |-> "analyze"] /\ runs = <<>>
    /\ verdicts \in Seq(UNION {Verdicts(p) : p \in Personas})
    /\ \A i, j \in DOMAIN verdicts : verdicts[i].persona = verdicts[j].persona => i = j
    /\ \/ reply \in {Waiting, Error}
       \/ /\ Outstanding = {} /\ ~Unreadable(Gathered)
          /\ reply = [status |-> "ok", verdicts |-> Gathered,
                      overall |-> BlendOverallScore(Gathered), errors |-> Mentioned(Gathered)]

\* A request for recommendations is answered from the rows it read.
Recommended ==
    \E investor \in InvestorProfiles, set \in Listings :
    \E snapshots \in [{p.id : p \in set} -> Snapshots], candidates \in Orders(set) :
        /\ request = [kind |-> "recommend", profile |-> investor, candidates |-> candidates,
                      snapshots |-> snapshots]
        /\ reply = [status |-> "ok",
                    ranked |-> RankProperties(investor, candidates, snapshots, TopN)]

\* An underwriting request is answered from its own inputs.
Underwritten ==
    \E deal \in Deals :
        /\ request = [kind |-> "underwrite", deal |-> deal]
        /\ reply = [status |-> "ok", result |-> Underwrite(deal)]

\* The inputs a stress test of a deal may run.
Sampled(deal, config) ==
    {WithSliders(deal, [s \in Sliders |-> config[s][ends[s]]]) : ends \in [Sliders -> {"low", "high"}]}

\* A stress test has run sampled inputs only, and replies with their
\* statistics.
Stressed ==
    \E deal \in Deals, config \in Configs :
        /\ request = [kind |-> "stress", deal |-> deal, config |-> config]
        /\ runs \in Seq(Sampled(deal, config)) /\ Len(runs) <= Iterations
        /\ \/ reply \in {Waiting, Error}
           \/ /\ Len(runs) = Iterations
              /\ reply = [status |-> "ok", statistics |-> Statistics(runs),
                          tornado |-> Tornado(deal, config)]
        /\ reply # Error => InOrder(config)

\* An extraction is answered from its own text.
Extracted ==
    \E text \in Texts :
        /\ request = [kind |-> "extract", text |-> text]
        /\ reply = [status |-> "ok", profile |-> ExtractStrategyProfile(text)]

\* A chat is answered from the blocks the model replied with.
Chatted ==
    \/ /\ \E messages : request = [kind |-> "chat", messages |-> messages]
       /\ reply \in {Waiting, Error}
    \/ \E messages, blocks : blocks \in ModelReplies /\
        /\ request = [kind |-> "chat", messages |-> messages, blocks |-> blocks]
        /\ \/ ExtractionRaises(blocks) /\ reply = Error
           \/ reply = [status |-> "ok", holdings |-> ExtractHoldings(blocks)]

\* Nothing was asked.
Fresh == request = Idle /\ verdicts = <<>> /\ runs = <<>> /\ reply = Waiting

\* Every state of a request: what was asked, and what was made of it so far.
DeskInv ==
    \/ Fresh \/ Consulted \/ Recommended \/ Underwritten \/ Stressed \/ Extracted \/ Chatted

\* The replies tell waiting, an error and success apart.
LEMMA WaitingIsNoReply ==
    Waiting # Error /\ Waiting.status # "ok" /\ Error.status # "ok"
BY DEF Waiting, Error

\* The kind of the request tells the phases apart.
LEMMA KindsOfPhases ==
    /\ Fresh => request.kind = "idle"
    /\ Consulted => request.kind = "analyze"
    /\ Recommended => request.kind = "recommend"
    /\ Underwritten => request.kind = "underwrite"
    /\ Stressed => request.kind = "stress"
    /\ Extracted => request.kind = "extract"
    /\ Chatted => request.kind = "chat"
<1>1. Fresh => request.kind = "idle"
  BY DEF Fresh, Idle
<1>2. Consulted => request.kind = "analyze"
  BY DEF Consulted
<1>3. Recommended => request.kind = "recommend"
  BY DEF Recommended
<1>4. Underwritten => request.kind = "underwrite"
  BY DEF Underwritten
<1>5. Stressed => request.kind = "stress"
  BY DEF Stressed
<1>6. Extracted => request.kind = "extract"
  BY DEF Extracted
<1>7. Chatted => request.kind = "chat"
  BY DEF Chatted
<1>8. QED
  BY <1>1, <1>2, <1>3, <1>4, <1>5, <1>6, <1>7

\* A council waits for those of whom it has no verdict.
LEMMA VerdictsAreTheirs ==
    ASSUME NEW persona, NEW v \in Verdicts(persona)
    PROVE  v.persona = persona
BY DEF Verdicts, Verdict

\* Every step of a handler keeps it.
LEMMA DeskInvStep == DeskInv /\ [DeskNext]_deskVars => DeskInv'
<1> SUFFICES ASSUME DeskInv, [DeskNext]_deskVars PROVE DeskInv'
  OBVIOUS
<1> USE WaitingIsNoReply
<1>1. CASE Analyze
  <2>1. Fresh
    <3>1. request.kind = "idle"
      BY <1>1 DEF Analyze, Idle
    <3>2. QED
      BY <3>1, KindsOfPhases DEF DeskInv
  <2>2. Consulted'
    BY <2>1, <1>1 DEF Analyze, Fresh, Consulted
  <2>3. QED
    BY <2>2 DEF DeskInv
<1>2. ASSUME Handles("analyze") PROVE Consulted /\ reply = Waiting
  <2>1. request.kind = "analyze" /\ reply = Waiting
    BY <1>2 DEF Handles
  <2>2. QED
    BY <2>1, KindsOfPhases DEF DeskInv
<1>3. CASE PersonaAnswers
  <2>1. Consulted /\ reply = Waiting
    BY <1>2, <1>3 DEF PersonaAnswers
  <2>2. PICK persona \in Outstanding : \E v \in Verdicts(persona) : verdicts' = Append(verdicts, v)
    BY <1>3 DEF PersonaAnswers
  <2>3. PICK v \in Verdicts(persona) : verdicts' = Append(verdicts, v)
    BY <2>2
  <2>4. v.persona = persona
    BY VerdictsAreTheirs
  <2>5. persona \in Personas /\ \A k \in DOMAIN verdicts : verdicts[k].persona # persona
    BY DEF Outstanding
  <2> DEFINE All == UNION {Verdicts(p) : p \in Personas}
  <2>6. v \in All
    BY <2>5
  <2>7. verdicts \in Seq(All)
    BY <2>1 DEF Consulted
  <2> HIDE DEF All
  <2>8. verdicts' \in Seq(All)
    BY <2>3, <2>6, <2>7
  <2>9. \A i, j \in DOMAIN verdicts' : verdicts'[i].persona = verdicts'[j].persona => i = j
    <3>1. DOMAIN verdicts = 1..Len(verdicts) /\ DOMAIN verdicts' = 1..(Len(verdicts) + 1)
          /\ Len(verdicts) \in Nat
      BY <2>3, <2>6, <2>7
    <3>2. \A i \in DOMAIN verdicts : verdicts'[i] = verdicts[i]
      BY <2>3, <2>6, <2>7
    <3>3. verdicts'[Len(verdicts) + 1] = v
      BY <2>3, <2>6, <2>7
    <3>4. \A i, j \in DOMAIN verdicts : verdicts[i].persona = verdicts[j].persona => i = j
      BY <2>1 DEF Consulted
    <3>5. TAKE i, j \in DOMAIN verdicts'
    <3>6. i \in DOMAIN verdicts \/ i = Len(verdicts) + 1
      BY <3>1
    <3>7. j \in DOMAIN verdicts \/ j = Len(verdicts) + 1
      BY <3>1
    <3>8. QED
      BY <3>2, <3>3, <3>4, <3>6, <3>7, <2>4, <2>5
  <2>10. Consulted'
    <3>1. request' = [kind |-> "analyze"] /\ runs' = <<>> /\ reply' = Waiting
      BY <2>1, <1>3 DEF PersonaAnswers, Consulted
    <3>2. QED
      BY <3>1, <2>8, <2>9 DEF Consulted, All
  <2>11. QED
    BY <2>10 DEF DeskInv
<1>4. CASE PersonaRaises
  <2>1. Consulted /\ reply = Waiting
    BY <1>2, <1>4 DEF PersonaRaises
  <2>2. Consulted'
    BY <2>1, <1>4 DEF PersonaRaises, Consulted
  <2>3. QED
    BY <2>2 DEF DeskInv
<1>5. CASE Review
  <2>1. Consulted /\ reply = Waiting
    BY <1>2, <1>5 DEF Review
  <2>2. /\ Outstanding' = Outstanding /\ Gathered' = Gathered
    BY <1>5 DEF Review, Outstanding, Gathered
  <2>3. Consulted'
    BY <2>1, <2>2, <1>5 DEF Review, Consulted
  <2>4. QED
    BY <2>3 DEF DeskInv
<1>6. CASE Recommend
  <2>1. Recommended'
    BY <1>6 DEF Recommend, Recommended
  <2>2. QED
    BY <2>1 DEF DeskInv
<1>7. CASE UnderwriteDeal
  <2>1. Underwritten'
    BY <1>7 DEF UnderwriteDeal, Underwritten
  <2>2. QED
    BY <2>1 DEF DeskInv
<1>8. CASE StressTest
  <2>1. PICK deal \in Deals, config \in Configs :
              /\ request' = [kind |-> "stress", deal |-> deal, config |-> config]
              /\ reply' = IF InOrder(config) THEN Waiting ELSE Error
    BY <1>8 DEF StressTest
  <2>2. Fresh
    <3>1. request.kind = "idle"
      BY <1>8 DEF StressTest, Idle
    <3>2. QED
      BY <3>1, KindsOfPhases DEF DeskInv
  <2>3. runs' = <<>> /\ Iterations \in Nat
    BY <2>2, <1>8, IterationsAssumption DEF StressTest, Fresh
  <2>4. runs' \in Seq(Sampled(deal, config)) /\ Len(runs') <= Iterations
    BY <2>3
  <2>5. Stressed'
    BY <2>1, <2>4 DEF Stressed
  <2>6. QED
    BY <2>5 DEF DeskInv
<1>9. ASSUME Handles("stress") PROVE Stressed /\ reply = Waiting
  <2>1. request.kind = "stress" /\ reply = Waiting
    BY <1>9 DEF Handles
  <2>2. QED
    BY <2>1, KindsOfPhases DEF DeskInv
<1>10. CASE Sample
  <2>1. Stressed /\ reply = Waiting
    BY <1>9, <1>10 DEF Sample
  <2>2. PICK deal \in Deals, config \in Configs :
            /\ request = [kind |-> "stress", deal |-> deal, config |-> config]
            /\ runs \in Seq(Sampled(deal, config)) /\ InOrder(config)
    BY <2>1 DEF Stressed
  <2>3. PICK ends \in [Sliders -> {"low", "high"}] :
            runs' = Append(runs, WithSliders(deal, [s \in Sliders |-> config[s][ends[s]]]))
    BY <2>2, <1>10 DEF Sample
  <2> DEFINE run == WithSliders(deal, [s \in Sliders |-> config[s][ends[s]]])
  <2>4. run \in Sampled(deal, config)
    BY DEF Sampled
  <2>5. runs' = Append(runs, run) /\ Len(runs) < Iterations
    BY <2>3, <1>10 DEF Sample
  <2> HIDE DEF run
  <2>6. runs' \in Seq(Sampled(deal, config)) /\ Len(runs') = Len(runs) + 1 /\ Len(runs) \in Nat
    BY <2>2, <2>4, <2>5
  <2>7. Len(runs') <= Iterations
    BY <2>5, <2>6, IterationsAssumption
  <2>8. request' = request /\ reply' = Waiting
    BY <2>1, <1>10 DEF Sample
  <2>9. Stressed'
    BY <2>2, <2>6, <2>7, <2>8 DEF Stressed
  <2>10. QED
    BY <2>9 DEF DeskInv
<1>11. CASE Summarise
  <2>1. Stressed /\ reply = Waiting
    BY <1>9, <1>11 DEF Summarise
  <2>2. PICK deal \in Deals, config \in Configs :
            /\ request = [kind |-> "stress", deal |-> deal, config |-> config]
            /\ runs \in Seq(Sampled(deal, config)) /\ InOrder(config)
    BY <2>1 DEF Stressed
  <2>3. /\ Len(runs) = Iterations
        /\ reply' = [status |-> "ok", statistics |-> Statistics(runs),
                     tornado |-> Tornado(deal, config)]
        /\ request' = request /\ runs' = runs
    BY <2>2, <1>11 DEF Summarise
  <2>4. Len(runs') <= Iterations
    BY <2>3, IterationsAssumption
  <2>5. Stressed'
    BY <2>2, <2>3, <2>4 DEF Stressed
  <2>6. QED
    BY <2>5 DEF DeskInv
<1>12. CASE ExtractProfile
  <2>1. Extracted'
    BY <1>12 DEF ExtractProfile, Extracted
  <2>2. QED
    BY <2>1 DEF DeskInv
<1>13. CASE ChatExtract
  <2>1. Chatted'
    BY <1>13 DEF ChatExtract, Chatted
  <2>2. QED
    BY <2>1 DEF DeskInv
<1>14. CASE ModelAnswers
  <2>1. Handles("chat")
    BY <1>14 DEF ModelAnswers
  <2>2. request.kind = "chat" /\ reply = Waiting
    BY <2>1 DEF Handles
  <2>3. Chatted'
    <3>1. CASE reply' = Error /\ UNCHANGED request
      <4>1. Chatted
        BY <2>2, KindsOfPhases DEF DeskInv
      <4>2. \E messages : request = [kind |-> "chat", messages |-> messages]
        BY <2>2, <4>1, WaitingIsNoReply DEF Chatted
      <4>3. QED
        BY <3>1, <4>2 DEF Chatted
    <3>2. CASE ~(reply' = Error /\ UNCHANGED request)
      <4>1. PICK blocks \in ModelReplies :
                /\ request' = [kind |-> "chat", messages |-> request.messages, blocks |-> blocks]
                /\ reply' = IF ExtractionRaises(blocks) THEN Error
                            ELSE [status |-> "ok", holdings |-> ExtractHoldings(blocks)]
        BY <3>2, <1>14 DEF ModelAnswers
      <4>2. QED
        BY <4>1 DEF Chatted
    <3>3. QED
      BY <3>1, <3>2
  <2>4. QED
    BY <2>3 DEF DeskInv
<1>15. CASE UNCHANGED deskVars
  <2>1. Gathered' = Gathered /\ Outstanding' = Outstanding
    BY <1>15 DEF deskVars, Gathered, Outstanding
  <2>2. QED
    BY <1>15, <2>1 DEF deskVars, DeskInv, Fresh, Consulted, Recommended, Underwritten, Stressed, Extracted,
                Chatted
<1>16. QED
  BY <1>1, <1>3, <1>4, <1>5, <1>6, <1>7, <1>8, <1>10, <1>11, <1>12, <1>13, <1>14, <1>15 DEF DeskNext

\* Whatever is asked and however the model calls end, a reply is made of the
\* inputs of its own request.
THEOREM DeskInvHolds == DeskSpec => []DeskInv
<1>1. DeskInit => DeskInv
  BY DEF DeskInit, DeskInv, Fresh
<1>2. QED
  BY <1>1, DeskInvStep, PTL DEF DeskSpec

--------------------------------------------------------------------------------
(****************************************************************************)
(* Underwriting: the metrics of solvency.                                   *)
(****************************************************************************)
\* The members of an interval.
LEMMA InRange == \A a, b \in Int : \A n \in a..b : n \in Int /\ a <= n /\ n <= b
OBVIOUS

\* The constants of the rates.
LEMMA Constants ==
    /\ 0 \in Int /\ 1 \in Int /\ 2000 \in Int /\ One \in Int /\ One \in Nat /\ One > 0
    /\ One \div 2 \in Int /\ -(One \div 2) \in Int
BY DEF One

\* The types of the inputs of a deal.
LEMMA InputsAreNumbers ==
    ASSUME NEW d \in Inputs
    PROVE  /\ d.price \in Nat \ {0} /\ d.down \in Nat /\ d.closing \in Nat
           /\ d.rent \in Nat /\ d.opex \in Nat
           /\ d.price \in Int /\ d.down \in Int /\ d.closing \in Int /\ d.rent \in Int
           /\ d.opex \in Int /\ d.vacancy \in Int /\ d.vacancy <= One
           /\ d.exit_cap \in Nat /\ d.exit_cap > 0 /\ d.selling \in Int
           /\ d.rent_growth \in Int /\ d.expense_growth \in Int
           /\ d.rate \in DOMAIN YearlyPayment
<1>1. /\ d.price \in Nat \ {0} /\ d.down \in Nat /\ d.closing \in Nat
      /\ d.rent \in Nat /\ d.opex \in Nat /\ d.rate \in DOMAIN YearlyPayment
  BY DEF Inputs
<1>2. d.vacancy \in 0..One /\ d.exit_cap \in 1..(One \div 2) /\ d.selling \in 0..2000
  BY DEF Inputs
<1>3. d.rent_growth \in Growth /\ d.expense_growth \in Growth
  BY DEF Inputs
<1>4. d.vacancy \in Int /\ d.vacancy <= One
  BY <1>2, InRange, Constants
<1>5. d.selling \in Int
  <2> DEFINE top == 2000
  <2>1. d.selling \in 0..top /\ top \in Int /\ 0 \in Int
    BY <1>2
  <2> HIDE DEF top
  <2>2. QED
    BY <2>1, InRange
<1>6. d.exit_cap \in Nat /\ d.exit_cap > 0
  <2>1. d.exit_cap \in Int /\ 1 <= d.exit_cap
    BY <1>2, InRange, Constants
  <2>2. QED
    BY <2>1
<1>7. d.rent_growth \in Int /\ d.expense_growth \in Int
  BY <1>3, InRange, Constants DEF Growth
<1>8. d.price \in Int /\ d.down \in Int /\ d.closing \in Int /\ d.rent \in Int /\ d.opex \in Int
  BY <1>1
<1>9. QED
  BY <1>1, <1>4, <1>6, <1>7, <1>8, <1>5

\* The money of a deal: what is lent, owed a year, put in and collected.
LEMMA MoneyIsInteger ==
    ASSUME NEW d, d.price \in Int, d.down \in Int, d.closing \in Int, d.rent \in Int,
           d.opex \in Int, d.vacancy \in Int, d.rate \in DOMAIN YearlyPayment
    PROVE  /\ Loan(d) \in Nat /\ YearlyPayment[d.rate] \in Nat \ {0}
           /\ DebtService(d) \in Int /\ InitialCash(d) \in Int /\ GrossRent(d) \in Int
           /\ \A gross \in Int : Collected(d, gross) \in Int
           /\ Noi(d) \in Int
<1>1. Loan(d) \in Nat
  BY DEF Loan
<1>2. YearlyPayment[d.rate] \in Nat \ {0}
  BY PaymentAssumption
<1>3. DebtService(d) \in Int
  <2> DEFINE L == Loan(d)
             Y == YearlyPayment[d.rate]
  <2>1. -(L * Y) \in Int
    BY <1>1, <1>2
  <2> HIDE DEF L, Y
  <2>2. (-(L * Y)) \div One \in Int
    BY <2>1, Division DEF One
  <2>3. QED
    BY <2>2 DEF DebtService, L, Y
<1>4. InitialCash(d) \in Int /\ GrossRent(d) \in Int
  BY DEF InitialCash, GrossRent
<1>5. \A gross \in Int : Collected(d, gross) \in Int
  <2>1. TAKE gross \in Int
  <2>2. gross * (One - d.vacancy) \in Int
    BY DEF One
  <2>3. QED
    BY <2>2, Division DEF One, Collected
<1>6. Noi(d) \in Int
  BY <1>4, <1>5 DEF Noi
<1>7. QED
  BY <1>1, <1>2, <1>3, <1>4, <1>5, <1>6

\* The cash flow is not negative exactly when the income covers the debt service.
LEMMA CashFlowCovers ==
    ASSUME NEW noi \in Int, NEW service \in Int, NEW cash \in Nat, cash > 0
    PROVE  ((noi - service) * One) \div cash >= 0 <=> noi >= service
<1>1. (noi - service) * One \in Int /\ cash * 0 = 0
  BY DEF One
<1>2. ((noi - service) * One) \div cash >= 0 <=> (noi - service) * One >= 0
  BY <1>1, DivAtLeast
<1>3. QED
  BY <1>2 DEF One

\* A coverage of one or more means that the income covers the service.
LEMMA CoverageCovers ==
    ASSUME NEW noi \in Int, NEW service \in Nat, service > 0
    PROVE  (noi * One) \div service >= One <=> noi >= service
<1>1. noi * One \in Int /\ One \in Int
  BY DEF One
<1>2. (noi * One) \div service >= One <=> noi * One >= service * One
  BY <1>1, DivAtLeast
<1>3. QED
  BY <1>2 DEF One

\* Rounded up, the break-even occupancy is reached exactly when the rent collected,
\* rounded down, pays for everything.
LEMMA OccupancyCovers ==
    ASSUME NEW gross \in Nat, gross > 0, NEW kept \in Int, NEW cost \in Int
    PROVE  -((-(cost * One)) \div gross) <= kept <=> (gross * kept) \div One >= cost
<1>1. -(cost * One) \in Int /\ -kept \in Int /\ gross * kept \in Int /\ One \in Nat /\ One > 0
  BY DEF One
<1>2. (-(cost * One)) \div gross >= -kept <=> -(cost * One) >= gross * (-kept)
  BY <1>1, DivAtLeast
<1>3. (gross * kept) \div One >= cost <=> gross * kept >= One * cost
  BY <1>1, DivAtLeast
<1>4. (-(cost * One)) \div gross \in Int
  BY <1>1, Division
<1>5. -((-(cost * One)) \div gross) <= kept <=> (-(cost * One)) \div gross >= -kept
  BY <1>4
<1>6. gross * (-kept) = -(gross * kept) /\ One * cost = cost * One
  BY DEF One
<1>7. cost * One \in Int
  BY DEF One
<1>8. -(cost * One) >= -(gross * kept) <=> gross * kept >= cost * One
  BY <1>1, <1>7
<1>9. QED
  BY <1>2, <1>3, <1>5, <1>6, <1>8

\* The three metrics of a deal that is financed and let.
LEMMA MetricsOfDeal ==
    ASSUME NEW d \in Inputs, DebtService(d) > 0, InitialCash(d) > 0, d.rent > 0
    PROVE  /\ Underwrite(d).dscr >= One <=> Underwrite(d).cash_on_cash >= 0
           /\ Underwrite(d).dscr >= One <=>
                  Underwrite(d).breakeven_occupancy <= One - d.vacancy
<1> DEFINE noi == Noi(d)
           service == DebtService(d)
           gross == GrossRent(d)
           cash == InitialCash(d)
           kept == One - d.vacancy
           cost == d.opex + service
<1>1. noi \in Int /\ service \in Nat /\ cash \in Nat /\ gross \in Nat /\ gross > 0
      /\ kept \in Int /\ cost \in Int
  <2>1. /\ d.rent \in Nat /\ d.rent \in Int
        /\ d.opex \in Int /\ d.vacancy \in Int
    BY InputsAreNumbers
  <2>2. noi \in Int /\ service \in Int /\ cash \in Int
    BY InputsAreNumbers, MoneyIsInteger
  <2>3. gross \in Nat /\ gross > 0 /\ kept \in Int
    BY <2>1 DEF One, GrossRent
  <2>4. QED
    BY <2>1, <2>2, <2>3
<1>2. /\ Underwrite(d).dscr = (noi * One) \div service
      /\ Underwrite(d).cash_on_cash = ((noi - service) * One) \div cash
      /\ Underwrite(d).breakeven_occupancy = -((-(cost * One)) \div gross)
  BY <1>1 DEF Underwrite, Dscr, CashOnCash, BreakevenOccupancy
<1>3. noi = (gross * kept) \div One - d.opex
  BY DEF Noi, Collected
<1>4. (gross * kept) \div One \in Int /\ d.opex \in Int
  <2>1. gross * kept \in Int
    BY <1>1
  <2>2. QED
    BY <2>1, Division, InputsAreNumbers DEF One
<1> HIDE DEF noi, service, gross, cash, kept
<1>5. noi >= service <=> (gross * kept) \div One >= cost
  BY <1>1, <1>3, <1>4
<1> HIDE DEF cost
<1>6. (noi * One) \div service >= One <=> noi >= service
  BY <1>1, CoverageCovers DEF service
<1>7. ((noi - service) * One) \div cash >= 0 <=> noi >= service
  BY <1>1, CashFlowCovers DEF cash
<1>8. -((-(cost * One)) \div gross) <= kept <=> (gross * kept) \div One >= cost
  BY <1>1, OccupancyCovers
<1>9. QED
  BY <1>2, <1>5, <1>6, <1>7, <1>8 DEF kept

\* underwriting.py: the cash on cash, the coverage and the break-even occupancy
\* of a reply never disagree on whether the deal carries its debt, though each
\* is worked out and rounded on its own.
THEOREM SolvencyMetricsAgreeHolds == DeskSpec => []SolvencyMetricsAgree
<1>1. DeskInv => SolvencyMetricsAgree
  <2>1. SUFFICES ASSUME DeskInv, request.kind = "underwrite", reply.status = "ok"
                 PROVE  LET d == request.deal  r == reply.result
                        IN  DebtService(d) > 0 /\ InitialCash(d) > 0 /\ d.rent > 0 =>
                              /\ r.dscr >= One <=> r.cash_on_cash >= 0
                              /\ r.dscr >= One <=> r.breakeven_occupancy <= One - d.vacancy
    BY DEF SolvencyMetricsAgree, Replied
  <2>2. Underwritten
    BY <2>1, KindsOfPhases DEF DeskInv
  <2>3. PICK deal \in Deals :
            /\ request = [kind |-> "underwrite", deal |-> deal]
            /\ reply = [status |-> "ok", result |-> Underwrite(deal)]
    BY <2>2 DEF Underwritten
  <2>4. deal \in Inputs /\ request.deal = deal /\ reply.result = Underwrite(deal)
    BY <2>3, DealsAssumption
  <2>5. QED
    BY <2>4, MetricsOfDeal
<1>2. QED
  BY <1>1, DeskInvHolds, PTL

--------------------------------------------------------------------------------
(****************************************************************************)
(* Recommendations.  Scores are integers and ids are distinct, so the order *)
(* of the ranking is total and the sort has one outcome.                    *)
(****************************************************************************)
\* A clipped score is between nothing and full.
LEMMA ClipIsInRange ==
    ASSUME NEW score \in Int
    PROVE  Clip(score) \in Int /\ 0 <= Clip(score) /\ Clip(score) <= Full
<1> DEFINE low == Min({Full, score})
<1>1. IsFiniteSet({Full, score}) /\ Full \in Int /\ {Full, score} \in SUBSET Int
  <2>1. IsFiniteSet({Full, score})
    BY PairIsFinite
  <2>2. QED
    BY <2>1 DEF Full
<1>2. low \in {Full, score} /\ low <= Full
  BY <1>1, Extremes
<1> HIDE DEF low
<1>3. low \in Int
  BY <1>1, <1>2
<1>4. IsFiniteSet({0, low}) /\ {0, low} \in SUBSET Int
  <2>1. IsFiniteSet({0, low})
    BY PairIsFinite
  <2>2. QED
    BY <2>1, <1>3
<1>5. Max({0, low}) \in {0, low} /\ 0 <= Max({0, low})
  BY <1>4, Extremes
<1>6. QED
  BY <1>2, <1>3, <1>5 DEF Clip, low, Full

\* Every component of a score, and the score, is an integer.
LEMMA PropertyFields ==
    ASSUME NEW prop \in Properties
    PROVE  prop.id \in Int /\ prop.price \in Nat /\ prop.price > 0 /\ prop.price \in Int
BY DEF Properties

\* The types of a market snapshot.
LEMMA SnapshotFields ==
    ASSUME NEW snap \in MarketSnapshots
    PROVE  /\ snap.median_rent \in Int /\ snap.median_sale_price \in Int
           /\ snap.inventory \in Int /\ snap.safety \in Int
BY DEF MarketSnapshots

\* The types of an investor profile.
LEMMA InvestorFields ==
    ASSUME NEW investor \in Investors
    PROVE  /\ investor.strategy \in Strategies /\ investor.budget \in Int
           /\ investor.target_cap_rate \in Int /\ investor.geo \in [GeoKeys -> PlaceNames \cup {Blank}]
BY DEF Investors

\* A quotient is an integer.
LEMMA Quotient ==
    ASSUME NEW a \in Int, NEW d \in Nat, d > 0
    PROVE  a \div d \in Int
BY Division

\* The constants of the scores.
LEMMA Hundreds ==
    /\ Full \in Int /\ Full \in Nat /\ Full > 0 /\ Full \div 2 \in Int
    /\ \A a \in Int : a \div 600 \in Int /\ a \div 10 \in Int /\ a \div 2 \in Int
                      /\ a \div 55 \in Int /\ a \div 35 \in Int /\ a \div 100 \in Int
BY DEF Full

\* The score of a yield.
LEMMA YieldIsInteger ==
    ASSUME NEW prop \in Properties, NEW snap \in MarketSnapshots
    PROVE  GrossYield(prop, snap) \in Int /\ YieldScore(prop, snap) \in Int
<1>1. snap.median_rent * 12 * Full \in Int
  BY SnapshotFields DEF Full
<1>2. GrossYield(prop, snap) \in Int
  BY <1>1, PropertyFields, Quotient DEF GrossYield
<1>3. (GrossYield(prop, snap) - 400) * Full \in Int
  BY <1>2 DEF Full
<1>4. ((GrossYield(prop, snap) - 400) * Full) \div 600 \in Int
  BY <1>3, Hundreds
<1>5. QED
  BY <1>2, <1>4, ClipIsInRange DEF YieldScore

\* The score of a strategy.
LEMMA StrategyScoreIsInteger ==
    ASSUME NEW investor, NEW prop \in Properties, NEW snap \in MarketSnapshots
    PROVE  StrategyScore(investor, prop, snap) \in Int
<1>1. BuyAndHold(prop, snap) \in Int
  BY YieldIsInteger DEF BuyAndHold
<1>2. Flip(prop, snap) \in Int
  <2>1. CASE ~Known(snap, "median_sale_price") \/ snap.median_sale_price <= 0
    BY <2>1 DEF Flip
  <2>2. CASE ~(~Known(snap, "median_sale_price") \/ snap.median_sale_price <= 0)
    <3> DEFINE sale == snap.median_sale_price
               spread == ((sale - prop.price) * Full) \div sale
    <3>1. sale \in Nat /\ sale > 0
      BY <2>2, SnapshotFields
    <3>2. (sale - prop.price) * Full \in Int
      BY <3>1, PropertyFields DEF Full
    <3>3. spread \in Int
      BY <3>1, <3>2, Quotient
    <3> HIDE DEF spread
    <3>4. (spread + 1000) * 100 \in Int
      BY <3>3
    <3>5. Clip(((spread + 1000) * 100) \div 35) \in Int
      BY <3>4, Hundreds, ClipIsInRange
    <3>6. QED
      BY <2>2, <3>5 DEF Flip, spread
  <2>3. QED
    BY <2>1, <2>2
<1>3. Lease(prop, snap) \in Int
  <2> DEFINE room == IF Known(snap, "inventory") THEN Clip(Full - snap.inventory) ELSE Full
  <2>1. Full - snap.inventory \in Int
    BY SnapshotFields DEF Full
  <2>2. room \in Int
    BY <2>1, ClipIsInRange, Hundreds
  <2> HIDE DEF room
  <2>3. YieldScore(prop, snap) * 7 + room * 3 \in Int
    BY <2>2, YieldIsInteger
  <2>4. (YieldScore(prop, snap) * 7 + room * 3) \div 10 \in Int
    BY <2>3, Hundreds
  <2>5. QED
    BY <2>4 DEF Lease, room
<1>4. QED
  BY <1>1, <1>2, <1>3 DEF StrategyScore

\* The score of a risk tolerance.
LEMMA RiskScoreIsInteger ==
    ASSUME NEW investor \in Investors, NEW prop \in Properties, NEW snap \in MarketSnapshots
    PROVE  RiskScore(investor, prop, snap) \in Int
<1> DEFINE target == investor.target_cap_rate
           miss == GrossYield(prop, snap) - target
           off == IF miss < 0 THEN -miss ELSE miss
<1>1. target \in Int
  BY InvestorFields
<1>2. off \in Int
  BY <1>1, YieldIsInteger
<1>3. CASE target <= 0 \/ ~Known(snap, "median_rent") \/ target = Missing
  BY <1>3, Hundreds DEF RiskScore
<1>4. CASE target > 0 /\ Known(snap, "median_rent") /\ target # Missing
  <2> HIDE DEF off
  <2>1. off * Full \in Int /\ target \in Nat
    BY <1>1, <1>2, <1>4 DEF Full
  <2>2. (off * Full) \div target \in Int
    BY <2>1, <1>4, Quotient
  <2>3. Full - (off * Full) \div target \in Int
    BY <2>2, Hundreds
  <2>4. Clip(Full - (off * Full) \div target) \in Int
    BY <2>3, ClipIsInRange
  <2>5. RiskScore(investor, prop, snap) = Clip(Full - (off * Full) \div target)
    <3>1. ~(target <= 0)
      BY <1>1, <1>4
    <3>2. QED
      BY <1>4, <3>1 DEF RiskScore, off
  <2>6. QED
    BY <2>4, <2>5
<1>5. QED
  BY <1>1, <1>3, <1>4

\* The score of the signals.
LEMMA SignalScoreIsInteger ==
    ASSUME NEW snap \in MarketSnapshots
    PROVE  SignalScore(snap) \in Int
<1> DEFINE safety == Clip(snap.safety * 100)
           hazard == HazardPenalty(snap)
<1>1. hazard \in {8000, 4000, 1000, 0}
  BY DEF HazardPenalty
<1>2. snap.safety * 100 \in Int /\ Full - hazard \in Int
  BY <1>1, SnapshotFields DEF Full
<1>3. safety \in Int /\ Clip(Full - hazard) \in Int
  BY <1>2, ClipIsInRange
<1>4. (safety + Clip(Full - hazard)) \div 2 \in Int
  BY <1>3, Hundreds
<1>5. hazard > 0 \/ hazard = 0
  BY <1>1
<1> HIDE DEF safety, hazard
<1>6. QED
  BY <1>3, <1>4, <1>5, Hundreds DEF SignalScore, safety, hazard

\* The score of the underwriting.
LEMMA UnderwritingScoreIsInteger ==
    ASSUME NEW prop \in Properties, NEW snap \in MarketSnapshots
    PROVE  UnderwritingScore(prop, snap) \in Int
<1> DEFINE dscr == (snap.median_rent * 1202461) \div prop.price
<1>1. snap.median_rent * 1202461 \in Int
  BY SnapshotFields
<1>2. dscr \in Int
  BY <1>1, PropertyFields, Quotient
<1> HIDE DEF dscr
<1>3. (dscr - 7000) * 100 \in Int
  BY <1>2
<1>4. Clip(((dscr - 7000) * 100) \div 55) \in Int
  BY <1>3, Hundreds, ClipIsInRange
<1>5. QED
  BY <1>4, Hundreds DEF UnderwritingScore, dscr

\* The score of the momentum.
LEMMA MomentumScoreIsInteger ==
    ASSUME NEW snap \in MarketSnapshots
    PROVE  MomentumScore(snap) \in Int
<1> DEFINE off == snap.inventory - Full \div 2
           far == IF off < 0 THEN -off ELSE off
<1>1. off \in Int
  BY SnapshotFields, Hundreds
<1>2. Full - 2 * far \in Int
  BY <1>1, Hundreds
<1>3. Clip(Full - 2 * far) \in Int
  BY <1>2, ClipIsInRange
<1>4. QED
  BY <1>3, Hundreds DEF MomentumScore

\* The geographic checks, each with its score, cover every filter.
LEMMA ChecksAreOrdered ==
    /\ DOMAIN Checks = 1..7 /\ IsFiniteSet(1..7) /\ 1..7 \in SUBSET Int
    /\ \A i \in 1..7 : Checks[i].score \in Int /\ Checks[i].score > NoMatch
    /\ \A key \in FilterKeys : \E i \in 1..7 : Checks[i].key = key
<1>1. DOMAIN Checks = 1..7 /\ IsFiniteSet(1..7) /\ 1..7 \in SUBSET Int
  <2>1. DOMAIN Checks = 1..7
    BY DEF Checks
  <2>2. 7 \in Nat /\ 1..7 \in SUBSET Int
    OBVIOUS
  <2>3. IsFiniteSet(1..7)
    BY <2>2, CountUpTo
  <2>4. QED
    BY <2>1, <2>2, <2>3
<1>2. \A i \in 1..7 : i = 1 \/ i = 2 \/ i = 3 \/ i = 4 \/ i = 5 \/ i = 6 \/ i = 7
  OBVIOUS
<1>3. \A i \in 1..7 : Checks[i].score \in Int /\ Checks[i].score > NoMatch
  BY <1>2 DEF Checks, NoMatch
<1>4. \A key \in FilterKeys : \E i \in 1..7 : Checks[i].key = key
  <2>1. /\ Checks[2].key = "municipality" /\ Checks[3].key = "ward"
        /\ Checks[4].key = "neighborhood" /\ Checks[5].key = "prefecture"
        /\ Checks[6].key = "city" /\ Checks[7].key = "state"
    BY DEF Checks
  <2>2. 2 \in 1..7 /\ 3 \in 1..7 /\ 4 \in 1..7 /\ 5 \in 1..7 /\ 6 \in 1..7 /\ 7 \in 1..7
    OBVIOUS
  <2>3. QED
    BY <2>1, <2>2, Zenon DEF FilterKeys
<1>5. QED
  BY <1>1, <1>3, <1>4

\* The score of the geography.
LEMMA GeoScoreIsInteger ==
    ASSUME NEW investor, NEW prop
    PROVE  GeoScore(investor, prop) \in Int
<1> DEFINE met == {i \in DOMAIN Checks : Satisfies(prop, investor.geo, Checks[i].key)}
<1>1. CASE met # {}
  <2>1. met \in SUBSET (1..7) /\ met \in SUBSET Int /\ IsFiniteSet(met)
    BY ChecksAreOrdered, FS_Subset
  <2>2. Min(met) \in 1..7
    BY <1>1, <2>1, Extremes
  <2>3. Checks[Min(met)].score \in Int
    BY <2>2, ChecksAreOrdered
  <2>4. QED
    BY <2>3, Hundreds DEF GeoScore, NoMatch
<1>2. CASE met = {}
  BY <1>2, Hundreds DEF GeoScore, NoMatch
<1>3. QED
  BY <1>1, <1>2

\* The weights of a strategy.
LEMMA WeightsAreIntegers ==
    ASSUME NEW strategy
    PROVE  /\ Weights(strategy).strategy \in Int /\ Weights(strategy).risk \in Int
           /\ Weights(strategy).signal \in Int /\ Weights(strategy).underwriting \in Int
           /\ Weights(strategy).geo \in Int /\ Weights(strategy).momentum \in Int
<1>1. CASE strategy = "flip"
  BY <1>1 DEF Weights
<1>2. CASE strategy = "lease"
  BY <1>2 DEF Weights
<1>3. CASE strategy # "flip" /\ strategy # "lease"
  BY <1>3 DEF Weights
<1>4. QED
  BY <1>1, <1>2, <1>3

\* A weighted sum of six integers.
LEMMA WeightedSum ==
    ASSUME NEW a \in Int, NEW b \in Int, NEW c \in Int, NEW d \in Int, NEW e \in Int, NEW f \in Int,
           NEW u \in Int, NEW v \in Int, NEW w \in Int, NEW x \in Int, NEW y \in Int, NEW z \in Int
    PROVE  a * u + b * v + c * w + d * x + e * y + f * z \in Int
OBVIOUS

\* The score of a property.
LEMMA ScoreIsInteger ==
    ASSUME NEW investor \in Investors, NEW prop \in Properties, NEW snap \in MarketSnapshots
    PROVE  ScoreProperty(investor, prop, snap) \in Int
<1> DEFINE weight == Weights(investor.strategy)
           total == weight.strategy * StrategyScore(investor, prop, snap)
                  + weight.risk * RiskScore(investor, prop, snap)
                  + weight.signal * SignalScore(snap)
                  + weight.underwriting * UnderwritingScore(prop, snap)
                  + weight.geo * GeoScore(investor, prop)
                  + weight.momentum * MomentumScore(snap)
<1>1. total \in Int
  BY WeightsAreIntegers, WeightedSum, StrategyScoreIsInteger, RiskScoreIsInteger, SignalScoreIsInteger,
     UnderwritingScoreIsInteger, GeoScoreIsInteger, MomentumScoreIsInteger
<1>2. ScoreProperty(investor, prop, snap) = Clip(total \div 100)
  BY DEF ScoreProperty
<1> HIDE DEF total
<1>3. total \div 100 \in Int
  BY <1>1, Hundreds
<1>4. QED
  BY <1>2, <1>3, ClipIsInRange

\* A candidate with its score.
Assessed(investor, p, snapshots) ==
    [prop |-> p, score |-> ScoreProperty(investor, p, snapshots[p.id])]

\* What a ranking ranks: the listings that pass, each with its score.
Candidates(investor, set, snapshots) ==
    {Assessed(investor, p, snapshots) : p \in {q \in set : PassesHardFilters(investor, q)}}

\* The order of the ranking, as a relation.
Precedence(elements) == {p \in elements \X elements : Before(p[1], p[2])}

\* The candidates in the order of the ranking.
Ranking(investor, set, snapshots) ==
    LET elements == Candidates(investor, set, snapshots)
    IN  Ordered(elements, Precedence(elements))

\* The first n.
Cut(s, n) == SubSeq(s, 1, Min({n, Len(s)}))

\* Because ids are distinct, the order of the ranking leaves no ties.
LEMMA BeforeOrders ==
    ASSUME NEW investor \in Investors, NEW set \in SUBSET Properties,
           \A p, q \in set : p.id = q.id => p = q,
           NEW snapshots \in [{p.id : p \in set} -> MarketSnapshots]
    PROVE  LET elements == Candidates(investor, set, snapshots)
           IN  /\ IsOrder(Precedence(elements), elements)
               /\ \A a, b \in elements : a # b => Before(a, b) \/ Before(b, a)
               /\ \A a \in elements : ~Before(a, a)
<1> DEFINE E == Candidates(investor, set, snapshots)
           B == Precedence(E)
<1>1. \A a \in E : a.prop \in set /\ a = Assessed(investor, a.prop, snapshots)
  BY DEF Candidates, Assessed
<1>2. \A a \in E : a.prop.id \in Int /\ a.prop.price \in Int /\ a.score \in Int
  <2>1. TAKE a \in E
  <2>2. a.prop \in Properties /\ a.score = ScoreProperty(investor, a.prop, snapshots[a.prop.id])
    BY <1>1 DEF Assessed
  <2>3. snapshots[a.prop.id] \in MarketSnapshots
    BY <1>1
  <2>4. QED
    BY <2>2, <2>3, ScoreIsInteger, PropertyFields
<1>3. \A a, b \in E : a.prop.id = b.prop.id => a = b
  BY <1>1
<1>4. \A a, b \in E : <<a, b>> \in B <=> Before(a, b)
  BY DEF Precedence
<1>5. B \subseteq E \X E
  BY DEF Precedence
<1> HIDE DEF E, B
<1>6. \A a, b \in E : a # b => Before(a, b) \/ Before(b, a)
  <2>1. TAKE a, b \in E
  <2>2. HAVE a # b
  <2>3. a.prop.id # b.prop.id
    BY <1>3, <2>2
  <2>4. a.prop.id < b.prop.id \/ b.prop.id < a.prop.id
    BY <1>2, <2>3, Trichotomy
  <2>5. a.prop.price = b.prop.price \/ a.prop.price > b.prop.price \/ b.prop.price > a.prop.price
    BY <1>2
  <2>6. a.score = b.score \/ a.score > b.score \/ b.score > a.score
    BY <1>2
  <2>7. QED
    BY <2>4, <2>5, <2>6 DEF Before
<1>7. \A a \in E : ~Before(a, a)
  BY <1>2 DEF Before
<1>8. \A a, b, c \in E : Before(a, b) /\ Before(b, c) => Before(a, c)
  <2>1. TAKE a, b, c \in E
  <2>2. /\ a.score \in Int /\ b.score \in Int /\ c.score \in Int
        /\ a.prop.price \in Int /\ b.prop.price \in Int /\ c.prop.price \in Int
        /\ a.prop.id \in Int /\ b.prop.id \in Int /\ c.prop.id \in Int
    BY <1>2
  <2>3. QED
    BY <2>2 DEF Before
<1>9. IsOrder(B, E)
  BY <1>4, <1>5, <1>6, <1>7, <1>8 DEF IsOrder
<1>10. QED
  BY <1>6, <1>7, <1>9 DEF E, B

\* Whatever the order of the query, the sorted list is the ranking of the set.
LEMMA SortedIsRanking ==
    ASSUME NEW investor \in Investors, NEW set \in SUBSET Properties,
           \A p, q \in set : p.id = q.id => p = q,
           NEW snapshots, snapshots \in [{p.id : p \in set} -> MarketSnapshots],
           NEW s \in Seq(set), \A p \in set : \E i \in DOMAIN s : s[i] = p,
           \A i, j \in DOMAIN s : s[i] = s[j] => i = j, NEW top_n \in Nat
    PROVE  LET ranking == Ranking(investor, set, snapshots)
           IN  /\ RankProperties(investor, s, snapshots, top_n) = Cut(ranking, top_n)
               /\ ranking \in Seq(Candidates(investor, set, snapshots))
<1> DEFINE E == Candidates(investor, set, snapshots)
           K == {i \in DOMAIN s : PassesHardFilters(investor, s[i])}
           passing == Picked(s, K)
           scored == [k \in DOMAIN passing |-> Assessed(investor, passing[k], snapshots)]
           B == Precedence(E)
           D == DOMAIN scored
           R == {p \in D \X D :
                    \/ Before(scored[p[1]], scored[p[2]])
                    \/ ~Before(scored[p[2]], scored[p[1]]) /\ p[1] < p[2]}
           sorted == Arranged(scored, R)
           ranking == Ranking(investor, set, snapshots)
<1>1. RankProperties(investor, s, snapshots, top_n) = SubSeq(sorted, 1, Min({top_n, Len(sorted)}))
  BY DEF RankProperties, Where, SortedBy, Assessed
<1>2. /\ IsOrder(B, E)
      /\ \A a, b \in E : a # b => Before(a, b) \/ Before(b, a)
      /\ \A a \in E : ~Before(a, a)
  BY BeforeOrders
<1>3. K \in SUBSET DOMAIN s /\ \A i \in DOMAIN s : i \in K <=> PassesHardFilters(investor, s[i])
  OBVIOUS
<1> HIDE DEF K
<1>4. /\ passing \in Seq(set) /\ DOMAIN passing = 1..Len(passing) /\ Len(passing) \in Nat
      /\ \A n \in DOMAIN passing : \E i \in K : passing[n] = s[i]
      /\ \A i \in K : \E n \in DOMAIN passing : passing[n] = s[i]
      /\ \A m, n \in DOMAIN passing : passing[m] = passing[n] => m = n
  BY <1>3, PickedFacts
<1> HIDE DEF passing
<1>5. \A n \in DOMAIN passing : passing[n] \in set /\ PassesHardFilters(investor, passing[n])
  <2>1. TAKE n \in DOMAIN passing
  <2>2. PICK i \in K : passing[n] = s[i]
    BY <1>4
  <2>3. i \in DOMAIN s /\ PassesHardFilters(investor, s[i])
    BY <1>3
  <2>4. QED
    BY <2>2, <2>3
<1>6. \A n \in DOMAIN passing : scored[n] \in E /\ scored[n].prop = passing[n]
                                /\ scored[n] = Assessed(investor, passing[n], snapshots)
  BY <1>5 DEF Candidates, Assessed
<1>7. DOMAIN scored = DOMAIN passing
  OBVIOUS
<1>8. scored = [n \in 1..Len(passing) |-> scored[n]]
  BY <1>4
<1>9. \A a \in E : \E n \in D : scored[n] = a
  <2>1. TAKE a \in E
  <2>2. PICK p \in set : PassesHardFilters(investor, p) /\ a = Assessed(investor, p, snapshots)
    BY DEF Candidates
  <2>3. PICK i \in DOMAIN s : s[i] = p
    OBVIOUS
  <2>4. i \in K
    BY <1>3, <2>2, <2>3
  <2>5. PICK n \in DOMAIN passing : passing[n] = s[i]
    BY <1>4, <2>4
  <2>6. QED
    BY <1>6, <1>7, <2>2, <2>3, <2>5
<1> HIDE DEF scored, E, B
<1>10. scored \in Seq(E) /\ D = 1..Len(scored) /\ Len(scored) \in Nat
  <2>1. \A n \in 1..Len(passing) : scored[n] \in E
    BY <1>4, <1>6
  <2>2. QED
    BY <1>4, <1>8, <2>1
<1>11. \A m, n \in D : scored[m] = scored[n] => m = n
  <2>1. TAKE m, n \in D
  <2>2. HAVE scored[m] = scored[n]
  <2>3. m \in DOMAIN passing /\ n \in DOMAIN passing
    BY <1>7
  <2>4. scored[m].prop = passing[m] /\ scored[n].prop = passing[n]
    BY <1>6, <2>3
  <2>5. passing[m] = passing[n]
    BY <2>2, <2>4
  <2>6. QED
    BY <1>4, <2>3, <2>5
<1>12. R = {p \in D \X D : <<scored[p[1]], scored[p[2]]>> \in B}
  <2>1. \A a, b \in E : <<a, b>> \in B <=> Before(a, b)
    BY DEF B, Precedence
  <2>2. \A i, j \in D : (Before(scored[i], scored[j]) \/ (~Before(scored[j], scored[i]) /\ i < j))
                            <=> <<scored[i], scored[j]>> \in B
    <3>1. TAKE i, j \in D
    <3>2. scored[i] \in E /\ scored[j] \in E
      BY <1>6, <1>7
    <3>3. i < j => i # j
      BY <1>10
    <3>4. QED
      BY <1>2, <1>11, <2>1, <3>2, <3>3
  <2>3. \A p \in D \X D : (Before(scored[p[1]], scored[p[2]])
                              \/ (~Before(scored[p[2]], scored[p[1]]) /\ p[1] < p[2]))
                          <=> <<scored[p[1]], scored[p[2]]>> \in B
    BY <2>2
  <2>4. QED
    BY <2>3
<1> HIDE DEF R
<1>13. sorted = Ordered(E, B)
  <2>1. IsOrder(B, E) /\ scored \in Seq(E)
    BY <1>2, <1>10
  <2>2. \A a \in E : \E n \in DOMAIN scored : scored[n] = a
    BY <1>9
  <2>3. \A m, n \in DOMAIN scored : scored[m] = scored[n] => m = n
    BY <1>11
  <2>4. R = {p \in (DOMAIN scored) \X (DOMAIN scored) : <<scored[p[1]], scored[p[2]]>> \in B}
    BY <1>12
  <2> DEFINE S == {p \in (DOMAIN scored) \X (DOMAIN scored) : <<scored[p[1]], scored[p[2]]>> \in B}
  <2>5. Arranged(scored, S) = Ordered(E, B)
    BY <2>1, <2>2, <2>3, ArrangedIsOfTheSet
  <2>6. R = S
    BY <2>4
  <2> HIDE DEF S
  <2>7. QED
    BY <2>5, <2>6
<1>14. ranking = Ordered(E, B)
  BY DEF ranking, Ranking, E, B
<1>15. IsFiniteSet(E)
  <2>1. D = DOMAIN scored /\ IsFiniteSet(D)
    BY <1>10, CountUpTo
  <2>2. scored \in [D -> E]
    BY <1>10
  <2>3. scored \in Surjection(D, E)
    BY <1>9, <2>2 DEF Surjection
  <2>4. QED
    BY <2>1, <2>3, FS_Surjection
<1>16. Ordered(E, B) \in Seq(E)
  <2>1. /\ Cardinality(E) \in Nat
        /\ \A n \in 1..Cardinality(E) : Ordered(E, B)[n] \in E
    BY <1>2, <1>15, OrderedFacts
  <2>2. Ordered(E, B) = [n \in 1..Cardinality(E) |-> Ordered(E, B)[n]]
    BY OrderedIsFunction
  <2>3. QED
    BY <2>1, <2>2, SequenceOf
<1>17. QED
  BY <1>1, <1>13, <1>14, <1>16 DEF E, Cut

\* Every order of a finite set has each of its members once.
LEMMA OrdersArePermutations ==
    ASSUME NEW set, IsFiniteSet(set), NEW s \in Orders(set)
    PROVE  /\ s \in Seq(set) /\ \A p \in set : \E i \in DOMAIN s : s[i] = p
           /\ \A i, j \in DOMAIN s : s[i] = s[j] => i = j
           /\ Range(s) = set
<1> DEFINE D == 1..Cardinality(set)
<1>1. Cardinality(set) \in Nat
  BY FS_CardinalityType
<1>2. s \in [D -> set] /\ \A i, j \in D : i # j => s[i] # s[j]
  BY DEF Orders, SetToSeqs
<1>3. IsFiniteSet(D) /\ Cardinality(D) = Cardinality(set)
  BY <1>1, CountUpTo
<1>4. s \in Injection(D, set)
  BY <1>2 DEF Injection, IsInjective
<1>5. s \in Surjection(D, set)
  BY <1>3, <1>4, FS_Injection
<1>6. \A p \in set : \E i \in D : s[i] = p
  BY <1>5 DEF Surjection
<1>7. DOMAIN s = D /\ s \in Seq(set)
  BY <1>1, <1>2
<1>8. Range(s) = set
  BY <1>2, <1>6, <1>7 DEF Range
<1>9. QED
  BY <1>2, <1>6, <1>7, <1>8

\* A cut keeps elements and places.
LEMMA CutIsPrefix ==
    ASSUME NEW T, NEW s \in Seq(T), NEW n \in Nat
    PROVE  /\ Cut(s, n) \in Seq(T)
           /\ \A k \in DOMAIN Cut(s, n) : k \in DOMAIN s /\ Cut(s, n)[k] = s[k]
<1> DEFINE m == Min({n, Len(s)})
<1>1. IsFiniteSet({n, Len(s)}) /\ {n, Len(s)} \in SUBSET Int
  <2>1. Len(s) \in Nat
    OBVIOUS
  <2>2. IsFiniteSet({n, Len(s)})
    BY PairIsFinite
  <2>3. QED
    BY <2>1, <2>2
<1>2. m \in {n, Len(s)} /\ m <= Len(s)
  BY <1>1, Extremes
<1> HIDE DEF m
<1>3. m \in Nat /\ m <= Len(s)
  BY <1>2
<1>4. SubSeq(s, 1, m) \in Seq(T) /\ DOMAIN SubSeq(s, 1, m) = 1..m
      /\ \A k \in 1..m : k \in DOMAIN s /\ SubSeq(s, 1, m)[k] = s[k]
  BY <1>3
<1>5. QED
  BY <1>4 DEF m, Cut

\* What the desk is asked to recommend from.
LEMMA RecommendInputs ==
    ASSUME NEW set \in Listings, NEW snapshots \in [{p.id : p \in set} -> Snapshots],
           NEW s \in Orders(set)
    PROVE  /\ set \in SUBSET Properties /\ IsFiniteSet(set)
           /\ \A p, q \in set : p.id = q.id => p = q
           /\ snapshots \in [{p.id : p \in set} -> MarketSnapshots]
           /\ s \in Seq(set) /\ \A p \in set : \E i \in DOMAIN s : s[i] = p
           /\ \A i, j \in DOMAIN s : s[i] = s[j] => i = j
           /\ Range(s) = set
<1>1. set \in SUBSET Properties /\ IsFiniteSet(set) /\ \A p, q \in set : p.id = q.id => p = q
  BY ListingsAssumption
<1>2. snapshots \in [{p.id : p \in set} -> MarketSnapshots]
  BY SnapshotsAssumption
<1>3. QED
  BY <1>1, <1>2, OrdersArePermutations

\* Whatever order the query returns its rows in, what is ranked is the first of
\* the one ranking.
LEMMA RecommendedIsCut ==
    ASSUME NEW investor \in InvestorProfiles, NEW set \in Listings,
           NEW snapshots \in [{p.id : p \in set} -> Snapshots], NEW s \in Orders(set)
    PROVE  LET ranking == Ranking(investor, set, snapshots)
           IN  /\ RankProperties(investor, s, snapshots, TopN) = Cut(ranking, TopN)
               /\ ranking \in Seq(Candidates(investor, set, snapshots))
<1>1. investor \in Investors /\ TopN \in Nat
  BY InvestorsAssumption, IterationsAssumption
<1>2. /\ set \in SUBSET Properties /\ \A p, q \in set : p.id = q.id => p = q
      /\ snapshots \in [{p.id : p \in set} -> MarketSnapshots]
      /\ s \in Seq(set) /\ \A p \in set : \E i \in DOMAIN s : s[i] = p
      /\ \A i, j \in DOMAIN s : s[i] = s[j] => i = j
  <2>1. set \in SUBSET Properties /\ \A p, q \in set : p.id = q.id => p = q
    BY RecommendInputs
  <2>2. snapshots \in [{p.id : p \in set} -> MarketSnapshots]
    BY RecommendInputs
  <2>3. IsFiniteSet(set)
    BY RecommendInputs
  <2>4. s \in Seq(set)
    BY <2>3, OrdersArePermutations, Zenon
  <2>5. \A p \in set : \E i \in DOMAIN s : s[i] = p
    BY <2>3, OrdersArePermutations, Zenon
  <2>6. \A i, j \in DOMAIN s : s[i] = s[j] => i = j
    BY <2>3, OrdersArePermutations, Zenon
  <2>7. QED
    BY <2>1, <2>2, <2>4, <2>5, <2>6
<1> DEFINE n == TopN
           ids == {p.id : p \in set}
<1>3. snapshots \in [ids -> MarketSnapshots]
  BY <1>2
<1> HIDE DEF n
<1>4. n \in Nat
  BY <1>1 DEF n
<1>5. RankProperties(investor, s, snapshots, n) = Cut(Ranking(investor, set, snapshots), n)
  BY <1>1, <1>2, <1>3, <1>4, SortedIsRanking
<1>6. Ranking(investor, set, snapshots) \in Seq(Candidates(investor, set, snapshots))
  BY <1>1, <1>2, <1>3, <1>4, SortedIsRanking
<1>7. QED
  BY <1>5, <1>6 DEF n

\* property_recommender.py: the candidates come from a query without ORDER BY,
\* and the reply is the same for every order of them.
THEOREM RankingIgnoresQueryOrderHolds == DeskSpec => []RankingIgnoresQueryOrder
<1>1. DeskInv => RankingIgnoresQueryOrder
  <2>1. SUFFICES ASSUME DeskInv, request.kind = "recommend", reply.status = "ok",
                        NEW order \in Orders(Range(request.candidates))
                 PROVE  RankProperties(request.profile, order, request.snapshots, TopN) = reply.ranked
    BY DEF RankingIgnoresQueryOrder, Replied
  <2>2. Recommended
    BY <2>1, KindsOfPhases DEF DeskInv
  <2>3. PICK investor \in InvestorProfiles, set \in Listings :
             \E snapshots \in [{p.id : p \in set} -> Snapshots], candidates \in Orders(set) :
                /\ request = [kind |-> "recommend", profile |-> investor,
                              candidates |-> candidates, snapshots |-> snapshots]
                /\ reply = [status |-> "ok",
                            ranked |-> RankProperties(investor, candidates, snapshots, TopN)]
    BY <2>2 DEF Recommended
  <2>4. PICK snapshots \in [{p.id : p \in set} -> Snapshots], candidates \in Orders(set) :
                /\ request = [kind |-> "recommend", profile |-> investor,
                              candidates |-> candidates, snapshots |-> snapshots]
                /\ reply = [status |-> "ok",
                            ranked |-> RankProperties(investor, candidates, snapshots, TopN)]
    BY <2>3
  <2>5. Range(candidates) = set
    BY RecommendInputs
  <2>6. order \in Orders(set)
    BY <2>1, <2>4, <2>5
  <2>7. RankProperties(investor, order, snapshots, TopN) =
            RankProperties(investor, candidates, snapshots, TopN)
    BY <2>6, RecommendedIsCut
  <2>8. QED
    BY <2>4, <2>7
<1>2. QED
  BY <1>1, DeskInvHolds, PTL

\* A listing that was let through for a place is scored for that place.
LEMMA PlaceIsScored ==
    ASSUME NEW investor \in Investors, NEW prop, NEW key \in FilterKeys,
           Asks(investor.geo, key), PassesHardFilters(investor, prop)
    PROVE  GeoScore(investor, prop) > NoMatch
<1> DEFINE geo == investor.geo
           met == {i \in DOMAIN Checks : Satisfies(prop, geo, Checks[i].key)}
<1>1. LocationMatches(geo[key], PlaceOf(prop, key))
  <2>1. CASE PlaceOf(prop, key) = Unknown
    BY <2>1 DEF LocationMatches
  <2>2. CASE PlaceOf(prop, key) # Unknown
    BY <2>2 DEF PassesHardFilters
  <2>3. QED
    BY <2>1, <2>2
<1>2. key # "station"
  BY DEF FilterKeys
<1>3. Satisfies(prop, geo, key)
  BY <1>1, <1>2 DEF Satisfies
<1>4. met # {}
  BY <1>3, ChecksAreOrdered
<1>5. met \in SUBSET (1..7) /\ met \in SUBSET Int /\ IsFiniteSet(met)
  BY ChecksAreOrdered, FS_Subset
<1>6. Min(met) \in 1..7
  BY <1>4, <1>5, Extremes
<1>7. Checks[Min(met)].score > NoMatch
  BY <1>6, ChecksAreOrdered
<1>8. key \in DOMAIN geo
  <2>1. geo \in [GeoKeys -> PlaceNames \cup {Blank}]
    BY InvestorFields
  <2>2. QED
    BY <2>1 DEF GeoKeys
<1>9. ~NoGeography(geo)
  BY <1>8 DEF NoGeography, Asks
<1>10. GeoScore(investor, prop) = Full \/ GeoScore(investor, prop) = Checks[Min(met)].score
  BY <1>4, <1>9 DEF GeoScore
<1>11. QED
  BY <1>7, <1>10 DEF Full, NoMatch

\* A listing of a known zip that was let through for the investor's has that one.
LEMMA ZipIsScored ==
    ASSUME NEW investor \in Investors, NEW prop, Asks(investor.geo, "zip"),
           prop.zip # Unknown, PassesHardFilters(investor, prop)
    PROVE  GeoScore(investor, prop) > NoMatch
<1>1. prop.zip = investor.geo.zip
  BY DEF PassesHardFilters, ZipDiffers
<1>2. investor.geo \in [GeoKeys -> PlaceNames \cup {Blank}] /\ "zip" \in GeoKeys
  BY InvestorFields DEF GeoKeys
<1>3. ~NoGeography(investor.geo)
  BY <1>2 DEF NoGeography, Asks
<1>4. GeoScore(investor, prop) = Full
  BY <1>1, <1>3 DEF GeoScore
<1>5. QED
  BY <1>4 DEF Full, NoMatch

\* property_recommender.py: no listing that was let through the geographic
\* filters for a named prefecture, municipality or neighborhood, or with a known
\* zip for a named one, is scored as being outside the area asked for.
THEOREM FilteredInIsNotElsewhereHolds == DeskSpec => []FilteredInIsNotElsewhere
<1>1. DeskInv => FilteredInIsNotElsewhere
  <2>1. SUFFICES ASSUME DeskInv, request.kind = "recommend", reply.status = "ok",
                        NEW k \in DOMAIN reply.ranked,
                        \/ \E key \in FilterKeys : Asks(request.profile.geo, key)
                        \/ /\ Asks(request.profile.geo, "zip")
                           /\ reply.ranked[k].prop.zip # Unknown
                 PROVE  GeoScore(request.profile, reply.ranked[k].prop) > NoMatch
    BY DEF FilteredInIsNotElsewhere, Replied
  <2>2. Recommended
    BY <2>1, KindsOfPhases DEF DeskInv
  <2>3. PICK investor \in InvestorProfiles, set \in Listings :
             \E snapshots \in [{p.id : p \in set} -> Snapshots], candidates \in Orders(set) :
                /\ request = [kind |-> "recommend", profile |-> investor,
                              candidates |-> candidates, snapshots |-> snapshots]
                /\ reply = [status |-> "ok",
                            ranked |-> RankProperties(investor, candidates, snapshots, TopN)]
    BY <2>2 DEF Recommended
  <2>4. PICK snapshots \in [{p.id : p \in set} -> Snapshots], candidates \in Orders(set) :
                /\ request = [kind |-> "recommend", profile |-> investor,
                              candidates |-> candidates, snapshots |-> snapshots]
                /\ reply = [status |-> "ok",
                            ranked |-> RankProperties(investor, candidates, snapshots, TopN)]
    BY <2>3
  <2> DEFINE E == Candidates(investor, set, snapshots)
             ranking == Ranking(investor, set, snapshots)
             ranked == RankProperties(investor, candidates, snapshots, TopN)
  <2>5. ranked = Cut(ranking, TopN) /\ ranking \in Seq(E)
    BY RecommendedIsCut
  <2>6. TopN \in Nat
    BY IterationsAssumption
  <2>7. request.profile = investor /\ reply.ranked = ranked
    BY <2>4
  <2>8. k \in DOMAIN ranked
    BY <2>1, <2>7
  <2> HIDE DEF E, ranking, ranked
  <2>9. ranked \in Seq(E)
    BY <2>5, <2>6, CutIsPrefix
  <2>10. ranked[k] \in E
    BY <2>8, <2>9
  <2>11. PassesHardFilters(investor, ranked[k].prop)
    BY <2>10 DEF E, Candidates, Assessed
  <2>12. investor \in Investors
    BY InvestorsAssumption
  <2>13. GeoScore(investor, ranked[k].prop) > NoMatch
    BY <2>1, <2>7, <2>11, <2>12, PlaceIsScored, ZipIsScored
  <2>14. QED
    BY <2>7, <2>13
<1>2. QED
  BY <1>1, DeskInvHolds, PTL

--------------------------------------------------------------------------------
(****************************************************************************)
(* The council.                                                             *)
(****************************************************************************)
\* No number of a series without negative ones exceeds its sum.
LEMMA SumIsAtLeast ==
    ASSUME NEW s \in Seq(Int), \A i \in 1..Len(s) : s[i] >= 0, NEW k \in 1..Len(s)
    PROVE  SumOf(s) >= s[k]
<1> DEFINE L == Len(s)
<1>1. PICK sum : PartialSums(sum, s) /\ SumOf(s) = sum[L]
  BY SumByParts
<1> DEFINE S == {n \in 0..L : sum[n] >= 0 /\ (n >= k => sum[n] >= s[k])}
<1>2. L \in Nat /\ k \in 1..L
  OBVIOUS
<1>3. sum[0] = 0 /\ \A n \in 0..L : sum[n] \in Int
  BY <1>1 DEF PartialSums
<1>4. \A n \in 1..L : s[n] \in Int /\ s[n] >= 0
  OBVIOUS
<1>5. \A n \in 1..L : sum[n] = sum[n - 1] + s[n]
  BY <1>1 DEF PartialSums
<1>6. 0 \in S
  BY <1>2, <1>3
<1>7. \A n \in 1..L : n - 1 \in S => n \in S
  <2>1. TAKE n \in 1..L
  <2>2. HAVE n - 1 \in S
  <2>3. n - 1 \in 0..L /\ n \in 0..L
    BY <1>2
  <2>4. sum[n - 1] \in Int /\ s[n] \in Int /\ s[n] >= 0 /\ s[k] \in Int /\ s[k] >= 0
    BY <1>2, <1>3, <1>4, <2>3
  <2>5. sum[n - 1] >= 0 /\ (n - 1 >= k => sum[n - 1] >= s[k])
    BY <2>2
  <2>6. sum[n] = sum[n - 1] + s[n]
    BY <1>5
  <2> HIDE DEF L
  <2>7. sum[n] >= 0
    BY <2>4, <2>5, <2>6
  <2>8. n >= k => sum[n] >= s[k]
    <3>1. n >= k => n - 1 >= k \/ n = k
      BY <1>2
    <3>2. QED
      BY <2>4, <2>5, <2>6, <3>1
  <2>9. QED
    BY <2>3, <2>7, <2>8
<1> HIDE DEF S
<1>8. L \in S
  BY <1>2, <1>6, <1>7, UpTo
<1>9. sum[L] >= s[k]
  BY <1>2, <1>8 DEF S
<1>10. QED
  BY <1>1, <1>9

\* The council has four personas, each of them once.
LEMMA CouncilOfFour ==
    /\ DOMAIN Council = 1..4 /\ Council \in Seq(Personas) /\ Len(Council) = 4
    /\ \A k \in 1..4 : Council[k] \in Personas
    /\ \A p \in Personas : \E k \in 1..4 : Council[k] = p
    /\ \A p \in Personas : p \in {"risk_finder", "location_advantage", "depreciation_strategist",
                                 "vacancy_demand"}
<1>1. DOMAIN Council = 1..4 /\ Len(Council) = 4
  BY DEF Council
<1>2. \A k \in 1..4 : k = 1 \/ k = 2 \/ k = 3 \/ k = 4
  OBVIOUS
<1>3. /\ Council[1] = "risk_finder" /\ Council[2] = "location_advantage"
      /\ Council[3] = "depreciation_strategist" /\ Council[4] = "vacancy_demand"
  BY DEF Council
<1>4. \A p : p \in Personas <=> \E k \in 1..4 : p = Council[k]
  BY <1>1 DEF Personas, Range
<1>5. \A p \in Personas : p \in {"risk_finder", "location_advantage", "depreciation_strategist",
                                "vacancy_demand"}
  BY <1>2, <1>3, <1>4
<1>6. Council = [k \in 1..4 |-> Council[k]]
  BY DEF Council
<1>7. \A k \in 1..4 : Council[k] \in Personas
  BY <1>4
<1>8. 4 \in Nat
  OBVIOUS
<1>9. Council \in Seq(Personas)
  BY <1>6, <1>7, <1>8, SequenceOf
<1>10. QED
  BY <1>1, <1>4, <1>5, <1>7, <1>9

\* Every persona has a weight.
LEMMA WeightsArePositive ==
    \A p \in Personas : Weight(p) \in Nat /\ Weight(p) >= 1 /\ Weight(p) \in Int
<1>1. \A p \in Personas : p = "risk_finder" \/ p = "location_advantage"
                            \/ p = "depreciation_strategist" \/ p = "vacancy_demand"
  BY CouncilOfFour
<1>2. QED
  BY <1>1 DEF Weight

\* A mean lies between its bounds, rounded to tenths.
LEMMA MeanIsBetween ==
    ASSUME NEW sum \in Int, NEW weight \in Nat, weight >= 1, NEW a \in Int, NEW b \in Int,
           a * weight <= sum, sum <= b * weight
    PROVE  (20 * sum + weight) \div (2 * weight) \in (10 * a)..(10 * b)
<1> DEFINE num == 20 * sum + weight
           den == 2 * weight
           q == num \div den
<1>1. num \in Int /\ den \in Nat /\ den > 0
  OBVIOUS
<1>2. num >= den * (10 * a)
  <2>1. den * (10 * a) = 20 * (a * weight)
    OBVIOUS
  <2>2. a * weight \in Int
    OBVIOUS
  <2>3. QED
    BY <2>1, <2>2
<1>3. ~(num >= den * (10 * b + 1))
  <2>1. den * (10 * b + 1) = 20 * (b * weight) + 2 * weight
    OBVIOUS
  <2>2. b * weight \in Int
    OBVIOUS
  <2>3. QED
    BY <2>1, <2>2
<1> HIDE DEF num, den
<1>4. q \in Int
  BY <1>1, Division
<1>5. q >= 10 * a
  BY <1>1, <1>2, DivAtLeast
<1>6. ~(q >= 10 * b + 1)
  BY <1>1, <1>3, DivAtLeast
<1>7. QED
  BY <1>4, <1>5, <1>6 DEF num, den

\* The blend of those who gave a score.
LEMMA BlendIsBetween ==
    ASSUME NEW V, NEW g \in Seq(V), \A v \in V : v.persona \in Personas /\ v.reading \in Int
    PROVE  LET readings == {10 * v.reading : v \in Usable(g)}
           IN  IF readings = {} THEN BlendOverallScore(g) = 0
               ELSE BlendOverallScore(g) \in Min(readings)..Max(readings)
<1> DEFINE L == Len(g)
           w == [i \in DOMAIN g |-> IF GivesScore(g[i]) THEN Weight(g[i].persona) ELSE 0]
           s == [i \in DOMAIN g |-> IF GivesScore(g[i]) THEN g[i].reading * Weight(g[i].persona)
                                    ELSE 0]
           readings == {10 * v.reading : v \in Usable(g)}
<1>1. L \in Nat /\ DOMAIN g = 1..L /\ \A i \in 1..L : g[i] \in V
  OBVIOUS
<1>2. \A i \in 1..L : /\ g[i].reading \in Int /\ Weight(g[i].persona) \in Nat
                      /\ Weight(g[i].persona) >= 1 /\ Weight(g[i].persona) \in Int
  BY <1>1, WeightsArePositive
<1>3. \A i \in 1..L : w[i] = (IF GivesScore(g[i]) THEN Weight(g[i].persona) ELSE 0)
                      /\ s[i] = (IF GivesScore(g[i]) THEN g[i].reading * Weight(g[i].persona) ELSE 0)
  BY <1>1
<1>4. \A i \in 1..L : w[i] \in Int /\ w[i] >= 0 /\ s[i] \in Int
  <2>1. TAKE i \in 1..L
  <2>2. g[i].reading * Weight(g[i].persona) \in Int /\ 0 \in Int
    BY <1>2
  <2>3. QED
    BY <1>2, <1>3, <2>2
<1>5. w = [i \in 1..L |-> w[i]] /\ s = [i \in 1..L |-> s[i]]
  BY <1>1
<1>6. BlendOverallScore(g) =
          IF SumOf(w) = 0 THEN 0 ELSE (20 * SumOf(s) + SumOf(w)) \div (2 * SumOf(w))
  BY DEF BlendOverallScore, Total
<1>7. \A r \in readings : \E i \in 1..L : GivesScore(g[i]) /\ r = 10 * g[i].reading
  BY <1>1 DEF Usable, Range
<1>8. \A i \in 1..L : GivesScore(g[i]) => 10 * g[i].reading \in readings
  BY <1>1 DEF Usable, Range
<1> HIDE DEF w, s, readings, L
<1>9. w \in Seq(Int) /\ Len(w) = L /\ s \in Seq(Int) /\ Len(s) = L
  BY <1>1, <1>4, <1>5, IntSequence
<1>10. SumOf(w) \in Int /\ SumOf(s) \in Int
  BY <1>9, SumIsInt
<1>11. CASE readings = {}
  <2>1. \A i \in 1..L : ~GivesScore(g[i])
    BY <1>8, <1>11
  <2>2. \A i \in 1..Len(w) : w[i] = w[i] * 0
    BY <1>3, <1>9, <2>1
  <2>3. SumOf(w) = SumOf(w) * 0
    BY <1>9, <2>2, SumScales
  <2>4. SumOf(w) = 0
    BY <1>10, <2>3
  <2>5. QED
    BY <1>6, <1>11, <2>4 DEF readings
<1>12. CASE readings # {}
  <2>1. readings \in SUBSET Int
    <3>1. \A r \in readings : r \in Int
      BY <1>2, <1>7
    <3>2. QED
      BY <3>1
  <2>2. IsFiniteSet(readings)
    <3> DEFINE K == {i \in 1..L : GivesScore(g[i])}
               f == [i \in K |-> 10 * g[i].reading]
    <3>1. IsFiniteSet(K)
      BY <1>1, CountUpTo, FS_Subset
    <3>2. f \in [K -> readings]
      BY <1>8
    <3>3. \A r \in readings : \E i \in K : f[i] = r
      BY <1>7
    <3> HIDE DEF f, K
    <3>4. f \in Surjection(K, readings)
      BY <3>2, <3>3 DEF Surjection
    <3>5. QED
      BY <3>1, <3>4, FS_Surjection
  <2>3. /\ Min(readings) \in readings /\ \A r \in readings : Min(readings) <= r
        /\ Max(readings) \in readings /\ \A r \in readings : r <= Max(readings)
    BY <1>12, <2>1, <2>2, Extremes
  <2>4. PICK j \in 1..L : GivesScore(g[j]) /\ Min(readings) = 10 * g[j].reading
    BY <1>7, <2>3
  <2>5. PICK k \in 1..L : GivesScore(g[k]) /\ Max(readings) = 10 * g[k].reading
    BY <1>7, <2>3
  <2> DEFINE a == g[j].reading
             b == g[k].reading
  <2>6. a \in Int /\ b \in Int
    BY <1>2
  <2>7. \A i \in 1..L : GivesScore(g[i]) => a <= g[i].reading /\ g[i].reading <= b
    <3>1. TAKE i \in 1..L
    <3>2. HAVE GivesScore(g[i])
    <3>3. 10 * g[i].reading \in readings /\ g[i].reading \in Int
      BY <1>2, <1>8, <3>2
    <3>4. 10 * a <= 10 * g[i].reading /\ 10 * g[i].reading <= 10 * b
      BY <2>3, <2>4, <2>5, <3>3
    <3>5. QED
      BY <2>6, <3>3, <3>4, SMTT(60)
  <2> HIDE DEF a, b
  <2> DEFINE low == [i \in 1..L |-> w[i] * a]
             high == [i \in 1..L |-> w[i] * b]
  <2>8. \A i \in 1..L : /\ low[i] = w[i] * a /\ high[i] = w[i] * b
                        /\ low[i] \in Int /\ high[i] \in Int
    BY <1>4, <2>6
  <2>9. low = [i \in 1..L |-> low[i]] /\ high = [i \in 1..L |-> high[i]]
    OBVIOUS
  <2>10. \A i \in 1..L : low[i] <= s[i] /\ s[i] <= high[i]
    <3>1. TAKE i \in 1..L
    <3>2. CASE ~GivesScore(g[i])
      <4>1. w[i] = 0 /\ s[i] = 0
        BY <1>3, <3>2
      <4>2. low[i] = 0 /\ high[i] = 0
        BY <2>6, <4>1
      <4>3. QED
        BY <4>1, <4>2
    <3>3. CASE GivesScore(g[i])
      <4> DEFINE x == Weight(g[i].persona)
                 r == g[i].reading
      <4>1. w[i] = x /\ s[i] = r * x
        BY <1>3, <3>3
      <4>2. x \in Nat /\ r \in Int /\ a <= r /\ r <= b
        BY <1>2, <2>7, <3>3
      <4>3. low[i] = x * a /\ high[i] = x * b
        BY <4>1
      <4> HIDE DEF x, r
      <4>4. x * a <= r * x /\ r * x <= x * b
        BY <2>6, <4>2
      <4>5. QED
        BY <4>1, <4>3, <4>4
    <3>4. QED
      BY <3>2, <3>3
  <2> HIDE DEF low, high
  <2>11. low \in Seq(Int) /\ Len(low) = L /\ high \in Seq(Int) /\ Len(high) = L
    BY <1>1, <2>8, <2>9, IntSequence
  <2>12. SumOf(low) = SumOf(w) * a
    BY <1>9, <2>6, <2>8, <2>11, SumScales, ZenonT(60)
  <2>13. SumOf(high) = SumOf(w) * b
    BY <1>9, <2>6, <2>8, <2>11, SumScales, ZenonT(60)
  <2>14. SumOf(low) <= SumOf(s) /\ SumOf(s) <= SumOf(high)
    BY <1>9, <2>10, <2>11, SumMonotone
  <2>15. SumOf(w) >= 1
    <3>1. w[j] >= 1 /\ w[j] \in Int
      BY <1>2, <1>3, <2>4
    <3>2. \A i \in 1..Len(w) : w[i] >= 0
      BY <1>4, <1>9
    <3>3. SumOf(w) >= w[j]
      BY <1>9, <3>2, SumIsAtLeast
    <3>4. QED
      BY <1>10, <3>1, <3>3
  <2>16. SumOf(w) \in Nat /\ SumOf(w) # 0
    BY <1>10, <2>15
  <2>17. a * SumOf(w) <= SumOf(s) /\ SumOf(s) <= b * SumOf(w)
    <3>1. SumOf(w) * a = a * SumOf(w) /\ SumOf(w) * b = b * SumOf(w)
      BY <2>6, <2>16
    <3>2. QED
      BY <2>12, <2>13, <2>14, <3>1
  <2>18. (20 * SumOf(s) + SumOf(w)) \div (2 * SumOf(w)) \in (10 * a)..(10 * b)
    BY <1>10, <2>6, <2>15, <2>16, <2>17, MeanIsBetween
  <2>19. Min(readings) = 10 * a /\ Max(readings) = 10 * b
    BY <2>4, <2>5 DEF a, b
  <2>20. BlendOverallScore(g) \in Min(readings)..Max(readings)
    BY <1>6, <2>16, <2>18, <2>19
  <2>21. QED
    BY <1>12, <2>20 DEF readings
<1>13. QED
  BY <1>11, <1>12

\* What a verdict on hand says, and that the council has one of each persona.
LEMMA VerdictFields ==
    ASSUME NEW v \in UNION {Verdicts(p) : p \in Personas}
    PROVE  v.persona \in Personas /\ v.reading \in Int
<1>1. PICK p \in Personas : v \in Verdicts(p)
  OBVIOUS
<1>2. v.persona = p
  BY <1>1, VerdictsAreTheirs
<1>3. NoScore \in Int /\ Unhashable \in Int /\ Readings[p] \subseteq Int
  BY <1>1, ReadingsAssumption DEF NoScore, Unhashable
<1>4. v.reading \in Readings[p] \cup {NoScore, Unhashable}
  BY <1>1 DEF Verdicts, Verdict
<1>5. QED
  BY <1>1, <1>2, <1>3, <1>4

\* When every call has returned, gather has one verdict of each persona, in the
\* order of the council.
LEMMA GatheredFacts ==
    ASSUME Consulted, Outstanding = {}
    PROVE  /\ DOMAIN Gathered = 1..4 /\ Gathered \in Seq(UNION {Verdicts(p) : p \in Personas})
           /\ \A k \in 1..4 : Gathered[k] \in Range(verdicts) /\ Gathered[k].persona = Council[k]
<1> DEFINE All == UNION {Verdicts(p) : p \in Personas}
           of(persona) == CHOOSE v \in Range(verdicts) : v.persona = persona
<1>1. verdicts \in Seq(All)
  BY DEF Consulted
<1>2. Gathered = [k \in 1..4 |-> of(Council[k])]
  BY CouncilOfFour DEF Gathered
<1>3. \A p \in Personas : \E v \in Range(verdicts) : v.persona = p
  BY DEF Outstanding, Range
<1>4. \A k \in 1..4 : of(Council[k]) \in Range(verdicts) /\ of(Council[k]).persona = Council[k]
  <2>1. TAKE k \in 1..4
  <2>2. \E v \in Range(verdicts) : v.persona = Council[k]
    BY <1>3, CouncilOfFour
  <2>3. QED
    BY <2>2
<1> HIDE DEF of, All
<1>5. \A v \in Range(verdicts) : v \in All
  BY <1>1 DEF Range
<1>6. \A k \in 1..4 : Gathered[k] = of(Council[k])
  BY <1>2
<1>7. \A k \in 1..4 : Gathered[k] \in All
  BY <1>4, <1>5, <1>6
<1>8. Gathered = [k \in 1..4 |-> Gathered[k]] /\ 4 \in Nat
  BY <1>2
<1>9. Gathered \in Seq(All)
  BY <1>7, <1>8, SequenceOf
<1>10. DOMAIN Gathered = 1..4
  BY <1>2
<1>11. QED
  BY <1>4, <1>6, <1>9, <1>10 DEF All

\* The verdicts mentioned as errors are those with one.
LEMMA MentionedAreErrors ==
    ASSUME NEW V, NEW g \in Seq(V), NEW v \in Range(g)
    PROVE  v \in Range(Mentioned(g)) <=> v.error # "none"
<1> DEFINE K == {i \in DOMAIN g : g[i].error # "none"}
           picked == Picked(g, K)
<1>1. Mentioned(g) = picked
  BY DEF Mentioned, Where
<1>2. K \in SUBSET DOMAIN g /\ \A i \in DOMAIN g : i \in K <=> g[i].error # "none"
  OBVIOUS
<1> HIDE DEF K
<1>3. /\ \A n \in DOMAIN picked : \E i \in K : picked[n] = g[i]
      /\ \A i \in K : \E n \in DOMAIN picked : picked[n] = g[i]
  BY <1>2, PickedFacts
<1> HIDE DEF picked
<1>4. ASSUME v \in Range(picked) PROVE v.error # "none"
  <2>1. PICK n \in DOMAIN picked : v = picked[n]
    BY <1>4 DEF Range
  <2>2. PICK i \in K : picked[n] = g[i]
    BY <1>3
  <2>3. QED
    BY <1>2, <2>1, <2>2
<1>5. ASSUME v.error # "none" PROVE v \in Range(picked)
  <2>1. PICK i \in DOMAIN g : v = g[i]
    BY DEF Range
  <2>2. i \in K
    BY <1>2, <1>5, <2>1
  <2>3. PICK n \in DOMAIN picked : picked[n] = g[i]
    BY <1>3, <2>2
  <2>4. QED
    BY <2>1, <2>3 DEF Range
<1>6. QED
  BY <1>1, <1>4, <1>5

\* analyst_council.py: whatever order the verdicts arrive in and whichever
\* calls fail, the overall score lies between the least and the greatest score
\* given, and every failed persona is mentioned.
THEOREM ReviewIsOfThoseWhoAnsweredHolds == DeskSpec => []ReviewIsOfThoseWhoAnswered
<1>1. DeskInv => ReviewIsOfThoseWhoAnswered
  <2> DEFINE readings == {10 * v.reading : v \in Usable(reply.verdicts)}
  <2>1. SUFFICES ASSUME DeskInv, request.kind = "analyze", reply.status = "ok"
        PROVE  /\ [k \in DOMAIN reply.verdicts |-> reply.verdicts[k].persona] = Council
               /\ \A v \in Range(reply.verdicts) :
                     v \in Range(verdicts) /\ (v \in Range(reply.errors) <=> v.error # "none")
               /\ IF readings = {} THEN reply.overall = 0
                  ELSE reply.overall \in Min(readings)..Max(readings)
    BY DEF ReviewIsOfThoseWhoAnswered, Replied
  <2>2. Consulted
    BY <2>1, KindsOfPhases DEF DeskInv
  <2>3. /\ Outstanding = {}
        /\ reply = [status |-> "ok", verdicts |-> Gathered,
                    overall |-> BlendOverallScore(Gathered), errors |-> Mentioned(Gathered)]
    BY <2>1, <2>2, WaitingIsNoReply DEF Consulted
  <2> DEFINE All == UNION {Verdicts(p) : p \in Personas}
             g == Gathered
  <2>4. /\ DOMAIN g = 1..4 /\ g \in Seq(All)
        /\ \A k \in 1..4 : g[k] \in Range(verdicts) /\ g[k].persona = Council[k]
    BY <2>2, <2>3, GatheredFacts
  <2>5. \A v \in All : v.persona \in Personas /\ v.reading \in Int
    BY VerdictFields
  <2>6. reply.verdicts = g /\ reply.overall = BlendOverallScore(g) /\ reply.errors = Mentioned(g)
    BY <2>3
  <2> HIDE DEF All, g
  <2>7. [k \in DOMAIN g |-> g[k].persona] = Council
    <3>1. [k \in DOMAIN g |-> g[k].persona] = [k \in 1..4 |-> Council[k]]
      BY <2>4
    <3>2. Council = [k \in 1..4 |-> Council[k]]
      BY DEF Council
    <3>3. QED
      BY <3>1, <3>2
  <2>8. \A v \in Range(g) : v \in Range(verdicts) /\ (v \in Range(Mentioned(g)) <=> v.error # "none")
    <3>1. \A v \in Range(g) : v \in Range(verdicts)
      BY <2>4 DEF Range
    <3>2. \A v \in Range(g) : v \in Range(Mentioned(g)) <=> v.error # "none"
      BY <2>4, MentionedAreErrors
    <3>3. QED
      BY <3>1, <3>2
  <2>9. LET r == {10 * v.reading : v \in Usable(g)}
        IN  IF r = {} THEN BlendOverallScore(g) = 0
            ELSE BlendOverallScore(g) \in Min(r)..Max(r)
    BY <2>4, <2>5, BlendIsBetween
  <2>10. QED
    BY <2>6, <2>7, <2>8, <2>9
<1>2. QED
  BY <1>1, DeskInvHolds, PTL

--------------------------------------------------------------------------------
(****************************************************************************)
(* The stress test: percentiles, the runs and the tornado.                  *)
(****************************************************************************)
\* Python's round: the nearest integer, and monotone.
LEMMA RoundIsNearest ==
    ASSUME NEW num \in Nat
    PROVE  /\ Round(num, 100) \in Int
           /\ 100 * Round(num, 100) <= num + 50 /\ 100 * Round(num, 100) >= num - 50
<1> DEFINE down == num \div 100
           rest == num % 100
<1>1. down \in Int /\ rest \in 0..99 /\ num = 100 * down + rest
  OBVIOUS
<1>2. Round(num, 100) = IF 2 * rest > 100 \/ (2 * rest = 100 /\ down % 2 = 1) THEN down + 1 ELSE down
  BY DEF Round
<1> HIDE DEF down, rest
<1>3. CASE 2 * rest > 100 \/ (2 * rest = 100 /\ down % 2 = 1)
  <2>1. Round(num, 100) = down + 1 /\ 2 * rest >= 100
    BY <1>1, <1>2, <1>3
  <2>2. QED
    BY <1>1, <2>1
<1>4. CASE ~(2 * rest > 100 \/ (2 * rest = 100 /\ down % 2 = 1))
  <2>1. Round(num, 100) = down /\ 2 * rest <= 100
    BY <1>1, <1>2, <1>4
  <2>2. QED
    BY <1>1, <2>1
<1>5. QED
  BY <1>3, <1>4

\* Rounding keeps the order.
LEMMA RoundIsMonotone ==
    ASSUME NEW m \in Nat, NEW n \in Nat, m <= n
    PROVE  Round(m, 100) <= Round(n, 100)
<1> DEFINE dm == m \div 100
           rm == m % 100
           dn == n \div 100
           rn == n % 100
           Up(d, r) == 2 * r > 100 \/ (2 * r = 100 /\ d % 2 = 1)
<1>1. /\ dm \in Int /\ rm \in 0..99 /\ m = 100 * dm + rm
      /\ dn \in Int /\ rn \in 0..99 /\ n = 100 * dn + rn
  OBVIOUS
<1>2. /\ Round(m, 100) = IF Up(dm, rm) THEN dm + 1 ELSE dm
      /\ Round(n, 100) = IF Up(dn, rn) THEN dn + 1 ELSE dn
  BY DEF Round
<1> HIDE DEF dm, rm, dn, rn
<1>3. dm < dn \/ (dm = dn /\ rm <= rn)
  BY <1>1
<1>4. CASE dm < dn
  <2>1. dm + 1 <= dn
    BY <1>1, <1>4
  <2>2. Round(m, 100) \in Int /\ Round(m, 100) <= dm + 1 /\ Round(n, 100) >= dn /\ Round(n, 100) \in Int
    <3> HIDE DEF Up
    <3>1. QED
      BY <1>1, <1>2
  <2>3. QED
    BY <1>1, <2>1, <2>2
<1>5. CASE dm = dn /\ rm <= rn
  <2>1. Up(dm, rm) => Up(dn, rn)
    BY <1>1, <1>5
  <2> HIDE DEF Up
  <2>2. QED
    BY <1>1, <1>2, <1>5, <2>1
<1>6. QED
  BY <1>3, <1>4, <1>5

\* The sort of a series of integers.
LEMMA SortedFacts ==
    ASSUME NEW values \in Seq(Int)
    PROVE  /\ Sorted(values) \in Seq(Int) /\ Len(Sorted(values)) = Len(values)
           /\ \A m, n \in DOMAIN values : m <= n => Sorted(values)[m] <= Sorted(values)[n]
           /\ \E place \in [DOMAIN values -> DOMAIN values] :
                 /\ \A n \in DOMAIN values : Sorted(values)[n] = values[place[n]]
                 /\ \A i \in DOMAIN values : \E n \in DOMAIN values : place[n] = i
                 /\ \A m, n \in DOMAIN values : place[m] = place[n] => m = n
<1> DEFINE L == Len(values)
           P == {p \in (1..L) \X (1..L) : values[p[1]] < values[p[2]]}
           R == {p \in (1..L) \X (1..L) :
                    \/ values[p[1]] < values[p[2]]
                    \/ ~(values[p[2]] < values[p[1]]) /\ p[1] < p[2]}
           sorted == Arranged(values, R)
<1>1. L \in Nat /\ DOMAIN values = 1..L /\ \A i \in 1..L : values[i] \in Int
  OBVIOUS
<1>2. Sorted(values) = sorted
  BY <1>1 DEF Sorted, SortedBy
<1>3. \A i, j \in 1..L : <<i, j>> \in P <=> values[i] < values[j]
  OBVIOUS
<1>4. R = {p \in (1..L) \X (1..L) :
               \/ <<p[1], p[2]>> \in P
               \/ <<p[2], p[1]>> \notin P /\ p[1] < p[2]}
  <2>1. \A p \in (1..L) \X (1..L) :
            (values[p[1]] < values[p[2]] \/ (~(values[p[2]] < values[p[1]]) /\ p[1] < p[2]))
            <=> (<<p[1], p[2]>> \in P \/ (<<p[2], p[1]>> \notin P /\ p[1] < p[2]))
    BY <1>3
  <2>2. QED
    BY <2>1
<1>5. \A i, j \in 1..L : <<i, j>> \in R => ~(values[j] < values[i])
  BY <1>1
<1> HIDE DEF P, R, L
<1>6. \A i, j \in 1..L : <<i, j>> \in P => <<j, i>> \notin P
  BY <1>1, <1>3
<1>7. \A i, j, k \in 1..L : <<i, k>> \in P => <<i, j>> \in P \/ <<j, k>> \in P
  BY <1>1, <1>3
<1>8. IsOrder(R, 1..L)
  <2>1. IsOrder(Stably(P, 1..L), 1..L)
    BY <1>1, <1>6, <1>7, StableOrder
  <2>2. R = Stably(P, 1..L)
    BY <1>4 DEF Stably
  <2>3. QED
    BY <2>1, <2>2
<1>9. IsOrder(R, DOMAIN values)
  BY <1>1, <1>8
<1>10. /\ sorted \in Seq(Int) /\ Len(sorted) = Len(values)
       /\ \E place \in [DOMAIN values -> DOMAIN values] :
             /\ \A n \in DOMAIN values : sorted[n] = values[place[n]]
             /\ \A i \in DOMAIN values : \E n \in DOMAIN values : place[n] = i
             /\ \A m, n \in DOMAIN values : m < n => <<place[m], place[n]>> \in R
  BY <1>9, ArrangedFacts
<1> HIDE DEF sorted
<1>11. PICK place \in [1..L -> 1..L] :
             /\ \A n \in 1..L : sorted[n] = values[place[n]]
             /\ \A i \in 1..L : \E n \in 1..L : place[n] = i
             /\ \A m, n \in 1..L : m < n => <<place[m], place[n]>> \in R
  BY <1>1, <1>10
<1>12. \A n \in 1..L : place[n] \in 1..L
  OBVIOUS
<1>13. \A m, n \in 1..L : m <= n => sorted[m] <= sorted[n]
  <2>1. TAKE m, n \in 1..L
  <2>2. HAVE m <= n
  <2>3. /\ sorted[m] = values[place[m]] /\ sorted[n] = values[place[n]]
        /\ sorted[m] \in Int /\ sorted[n] \in Int
    BY <1>1, <1>11, <1>12
  <2>4. CASE m = n
    BY <2>3, <2>4
  <2>5. CASE m < n
    <3>1. <<place[m], place[n]>> \in R
      BY <1>11, <2>5
    <3>2. ~(values[place[n]] < values[place[m]])
      BY <1>5, <1>12, <3>1
    <3>3. QED
      BY <2>3, <3>2
  <2>6. QED
    BY <1>1, <2>2, <2>4, <2>5
<1>14. \A m, n \in 1..L : place[m] = place[n] => m = n
  <2>1. TAKE m, n \in 1..L
  <2>2. HAVE place[m] = place[n]
  <2>3. \A i \in 1..L : <<i, i>> \notin R
    BY <1>8 DEF IsOrder
  <2>4. ~(m < n) /\ ~(n < m)
    BY <1>11, <1>12, <2>2, <2>3
  <2>5. QED
    BY <1>1, <2>4
<1>15. place \in [DOMAIN values -> DOMAIN values]
  BY <1>1
<1>16. /\ \A n \in DOMAIN values : sorted[n] = values[place[n]]
       /\ \A i \in DOMAIN values : \E n \in DOMAIN values : place[n] = i
       /\ \A m, n \in DOMAIN values : place[m] = place[n] => m = n
       /\ \A m, n \in DOMAIN values : m <= n => sorted[m] <= sorted[n]
  BY <1>1, <1>11, <1>13, <1>14
<1>17. QED
  BY <1>2, <1>10, <1>15, <1>16

\* The rank of a percentile: within the series, monotone, and in the middle for 50.
LEMMA RankFacts ==
    ASSUME NEW n \in Nat, n >= 1
    PROVE  LET k(q) == Round((n - 1) * q, 100)
           IN  /\ \A q \in {10, 50, 90} : k(q) \in 0..(n - 1)
               /\ k(10) <= k(50) /\ k(50) <= k(90)
               /\ 2 * k(50) <= n /\ 2 * (k(50) + 1) >= n
<1> DEFINE k(q) == Round((n - 1) * q, 100)
<1>1. (n - 1) * 10 \in Nat /\ (n - 1) * 50 \in Nat /\ (n - 1) * 90 \in Nat
  OBVIOUS
<1>2. (n - 1) * 10 <= (n - 1) * 50 /\ (n - 1) * 50 <= (n - 1) * 90
  OBVIOUS
<1>3. k(10) \in Int /\ 100 * k(10) <= (n - 1) * 10 + 50 /\ 100 * k(10) >= (n - 1) * 10 - 50
  BY <1>1, RoundIsNearest
<1>4. k(50) \in Int /\ 100 * k(50) <= (n - 1) * 50 + 50 /\ 100 * k(50) >= (n - 1) * 50 - 50
  BY <1>1, RoundIsNearest
<1>5. k(90) \in Int /\ 100 * k(90) <= (n - 1) * 90 + 50 /\ 100 * k(90) >= (n - 1) * 90 - 50
  BY <1>1, RoundIsNearest
<1>6. k(10) <= k(50) /\ k(50) <= k(90)
  BY <1>1, <1>2, RoundIsMonotone
<1> HIDE DEF k
<1>7. k(10) >= 0 /\ k(90) <= n - 1
  BY <1>3, <1>5
<1>8. k(10) \in 0..(n - 1) /\ k(50) \in 0..(n - 1) /\ k(90) \in 0..(n - 1)
  BY <1>3, <1>4, <1>5, <1>6, <1>7
<1>9. 2 * k(50) <= n /\ 2 * (k(50) + 1) >= n
  BY <1>4
<1>10. QED
  BY <1>6, <1>8, <1>9 DEF k

\* The three percentiles of a series are in order.
LEMMA PercentilesAreOrdered ==
    ASSUME NEW values \in Seq(Int), Len(values) >= 1
    PROVE  /\ Percentile(values, 10) <= Percentile(values, 50)
           /\ Percentile(values, 50) <= Percentile(values, 90)
<1> DEFINE n == Len(values)
           k(q) == Round((n - 1) * q, 100)
<1>1. n \in Nat /\ n >= 1 /\ DOMAIN values = 1..n /\ values # <<>>
  OBVIOUS
<1>2. /\ k(10) \in 0..(n - 1) /\ k(50) \in 0..(n - 1) /\ k(90) \in 0..(n - 1)
      /\ k(10) <= k(50) /\ k(50) <= k(90)
  BY <1>1, RankFacts
<1>3. /\ Percentile(values, 10) = Sorted(values)[k(10) + 1]
      /\ Percentile(values, 50) = Sorted(values)[k(50) + 1]
      /\ Percentile(values, 90) = Sorted(values)[k(90) + 1]
  BY <1>1 DEF Percentile
<1>4. \A i, j \in DOMAIN values : i <= j => Sorted(values)[i] <= Sorted(values)[j]
  BY SortedFacts
<1> HIDE DEF n, k
<1>5. k(10) + 1 \in 1..n /\ k(50) + 1 \in 1..n /\ k(90) + 1 \in 1..n
  BY <1>1, <1>2, SMTT(60)
<1>6. k(10) + 1 <= k(50) + 1 /\ k(50) + 1 <= k(90) + 1
  BY <1>2
<1>7. QED
  BY <1>1, <1>3, <1>4, <1>5, <1>6

\* How many are below a bound, from the rank of one that is or is not.
LEMMA CountByRank ==
    ASSUME NEW values \in Seq(Int), NEW bound \in Int, NEW m \in 1..Len(values)
    PROVE  /\ CountBelow(values, bound) \in Nat
           /\ IF Sorted(values)[m] < bound THEN CountBelow(values, bound) >= m
              ELSE CountBelow(values, bound) <= m - 1
<1> DEFINE n == Len(values)
           D == 1..n
           K == {i \in D : values[i] < bound}
           sorted == Sorted(values)
           J == {i \in D : sorted[i] < bound}
<1>1. n \in Nat /\ DOMAIN values = D /\ m \in D /\ m \in Nat /\ 1 <= m /\ m <= n
  OBVIOUS
<1>2. CountBelow(values, bound) = Cardinality(K)
  BY <1>1 DEF CountBelow
<1>3. /\ \A i, j \in DOMAIN values : i <= j => Sorted(values)[i] <= Sorted(values)[j]
      /\ Sorted(values) \in Seq(Int) /\ Len(Sorted(values)) = Len(values)
      /\ \E place \in [DOMAIN values -> DOMAIN values] :
             /\ \A i \in DOMAIN values : Sorted(values)[i] = values[place[i]]
             /\ \A i \in DOMAIN values : \E j \in DOMAIN values : place[j] = i
             /\ \A i, j \in DOMAIN values : place[i] = place[j] => i = j
  BY SortedFacts
<1>4. PICK place \in [DOMAIN values -> DOMAIN values] :
             /\ \A i \in DOMAIN values : Sorted(values)[i] = values[place[i]]
             /\ \A i \in DOMAIN values : \E j \in DOMAIN values : place[j] = i
             /\ \A i, j \in DOMAIN values : place[i] = place[j] => i = j
  BY <1>3, Zenon
<1>5. place \in [D -> D]
  BY <1>1
<1>6. \A i \in D : sorted[i] = values[place[i]]
  BY <1>1, <1>4, Zenon
<1>7. \A i \in D : \E j \in D : place[j] = i
  BY <1>1, <1>4, Zenon
<1>8. \A i, j \in D : place[i] = place[j] => i = j
  BY <1>1, <1>4, Zenon
<1>9. IsFiniteSet(D) /\ \A i \in D : i \in Nat /\ 1 <= i /\ i <= n
  BY <1>1, CountUpTo
<1>10. \A i \in D : sorted[i] \in Int
  BY <1>1, <1>3
<1>11. \A i, j \in D : i <= j => sorted[i] <= sorted[j]
  BY <1>1, <1>3
<1>12. J \in SUBSET D /\ \A i \in D : i \in J <=> sorted[i] < bound
  OBVIOUS
<1>13. K \in SUBSET D /\ \A i \in D : i \in K <=> values[i] < bound
  OBVIOUS
<1> HIDE DEF n, D, K, J, sorted
<1>14. IsFiniteSet(J) /\ IsFiniteSet(K)
  BY <1>9, <1>12, <1>13, FS_Subset
<1>15. Cardinality(J) = Cardinality(K)
  <2> DEFINE f == [i \in J |-> place[i]]
  <2>1. \A i \in J : place[i] \in K
    BY <1>5, <1>6, <1>7, <1>8, <1>12, <1>13
  <2>2. \A k \in K : \E i \in J : place[i] = k
    <3>1. TAKE k \in K
    <3>2. PICK i \in D : place[i] = k
      BY <1>5, <1>6, <1>7, <1>8, <1>13
    <3>3. i \in J
      BY <1>5, <1>6, <1>7, <1>8, <1>12, <1>13, <3>2
    <3>4. QED
      BY <3>2, <3>3
  <2>3. f \in [J -> K] /\ \A i \in J : f[i] = place[i]
    BY <2>1
  <2>4. \A i, j \in J : f[i] = f[j] => i = j
    BY <1>5, <1>6, <1>7, <1>8, <1>12, <2>3
  <2> HIDE DEF f
  <2>5. f \in Surjection(J, K)
    BY <2>2, <2>3 DEF Surjection
  <2>6. f \in Injection(J, K)
    BY <2>3, <2>4 DEF Injection, IsInjective
  <2>7. QED
    BY <1>14, <2>5, <2>6, FS_Surjection
<1>16. Cardinality(J) \in Nat
  BY <1>14, FS_CardinalityType
<1>17. ASSUME sorted[m] < bound PROVE Cardinality(J) >= m
  <2>1. 1..m \in SUBSET J
    <3>1. SUFFICES ASSUME NEW i \in 1..m PROVE i \in J
      OBVIOUS
    <3>2. i \in D /\ i <= m
      BY <1>1 DEF D
    <3>3. sorted[i] <= sorted[m] /\ sorted[i] \in Int /\ sorted[m] \in Int
      BY <1>1, <1>10, <1>11, <3>2
    <3>4. sorted[i] < bound
      BY <1>17, <3>3
    <3>5. QED
      BY <1>12, <3>2, <3>4
  <2>2. Cardinality(1..m) = m
    BY <1>1, CountUpTo
  <2>3. Cardinality(1..m) <= Cardinality(J)
    BY <1>14, <2>1, FS_Subset
  <2>4. QED
    BY <1>1, <1>16, <2>2, <2>3
<1>18. ASSUME ~(sorted[m] < bound) PROVE Cardinality(J) <= m - 1
  <2>1. m - 1 \in Nat
    BY <1>1
  <2>2. J \in SUBSET (1..(m - 1))
    <3>1. SUFFICES ASSUME NEW i \in J PROVE i \in 1..(m - 1)
      OBVIOUS
    <3>2. i \in D /\ sorted[i] < bound
      BY <1>12
    <3>3. sorted[i] \in Int /\ sorted[m] \in Int
      BY <1>1, <1>10, <3>2
    <3>4. ~(m <= i)
      <4>1. m <= i => sorted[m] <= sorted[i]
        BY <1>1, <1>11, <3>2
      <4>2. ~(sorted[m] <= sorted[i])
        BY <1>18, <3>2, <3>3
      <4>3. QED
        BY <4>1, <4>2
    <3>5. i \in Nat /\ 1 <= i /\ m \in Nat
      BY <1>1, <1>9, <3>2
    <3>6. i <= m - 1
      BY <3>4, <3>5
    <3>7. m - 1 \in Nat
      BY <2>1
    <3>8. QED
      BY <3>5, <3>6, <3>7
  <2>3. IsFiniteSet(1..(m - 1)) /\ Cardinality(1..(m - 1)) = m - 1
    BY <2>1, CountUpTo
  <2>4. QED
    BY <2>2, <2>3, FS_Subset, ZenonT(60)
<1>19. QED
  BY <1>2, <1>15, <1>16, <1>17, <1>18 DEF sorted

\* A median tells on which side of a bound at least half of a series is.
LEMMA MedianLeans ==
    ASSUME NEW values \in Seq(Int), NEW n \in Nat, n >= 1, Len(values) = n, NEW bound \in Int
    PROVE  IF Percentile(values, 50) < bound THEN 2 * CountBelow(values, bound) >= n
           ELSE 2 * CountBelow(values, bound) <= n
<1> DEFINE k == Round((n - 1) * 50, 100)
           count == CountBelow(values, bound)
<1>1. k \in 0..(n - 1) /\ 2 * k <= n /\ 2 * (k + 1) >= n
  BY RankFacts
<1>2. Percentile(values, 50) = Sorted(values)[k + 1]
  <2>1. values # <<>>
    OBVIOUS
  <2>2. QED
    BY <2>1 DEF Percentile
<1> HIDE DEF k
<1>3. k + 1 \in 1..Len(values) /\ k \in Int
  BY <1>1
<1>4. /\ count \in Nat
      /\ IF Sorted(values)[k + 1] < bound THEN count >= k + 1 ELSE count <= (k + 1) - 1
  BY <1>3, CountByRank
<1> HIDE DEF count
<1>5. CASE Percentile(values, 50) < bound
  <2>1. count >= k + 1
    BY <1>2, <1>4, <1>5
  <2>2. 2 * count >= n
    BY <1>1, <1>3, <1>4, <2>1
  <2>3. QED
    BY <1>5, <2>2 DEF count
<1>6. CASE ~(Percentile(values, 50) < bound)
  <2>1. count <= k
    BY <1>2, <1>3, <1>4, <1>6
  <2>2. 2 * count <= n
    BY <1>1, <1>3, <1>4, <2>1
  <2>3. QED
    BY <1>6, <2>2 DEF count
<1>7. QED
  BY <1>5, <1>6

\* The sliders replace the vacancy and the rate, and nothing else that the first
\* year's figures are made of.
LEMMA SlidersReplace ==
    ASSUME NEW deal \in Inputs, NEW values
    PROVE  LET run == WithSliders(deal, values)
           IN  /\ run.price = deal.price /\ run.down = deal.down /\ run.closing = deal.closing
               /\ run.rent = deal.rent /\ run.opex = deal.opex
               /\ run.vacancy = values["vacancy"] /\ run.rate = values["rate"]
<1> DEFINE fields == {"price", "down", "closing", "rent", "opex", "rate", "vacancy", "exit_cap",
                      "selling", "rent_growth", "expense_growth"}
<1>1. DOMAIN deal = fields
  BY DEF Inputs
<1>2. WithSliders(deal, values) = [f \in fields |-> IF f \in Sliders THEN values[f] ELSE deal[f]]
  BY <1>1 DEF WithSliders
<1>3. {"price", "down", "closing", "rent", "opex"} \cap Sliders = {}
  BY DEF Sliders
<1>4. "vacancy" \in Sliders /\ "rate" \in Sliders
  BY DEF Sliders
<1>5. QED
  BY <1>2, <1>3, <1>4

\* A deal with the sliders somewhere.
Adjusted(run, deal) ==
    /\ run.price = deal.price /\ run.down = deal.down /\ run.closing = deal.closing
    /\ run.rent = deal.rent /\ run.opex = deal.opex
    /\ run.vacancy \in Int /\ run.rate \in DOMAIN YearlyPayment

\* Every sampled run is the deal with its sliders moved.
LEMMA SampledIsAdjusted ==
    ASSUME NEW deal \in Inputs, NEW config \in Configs, NEW run \in Sampled(deal, config)
    PROVE  Adjusted(run, deal)
<1>1. PICK ends \in [Sliders -> {"low", "high"}] :
          run = WithSliders(deal, [s \in Sliders |-> config[s][ends[s]]])
  BY DEF Sampled
<1> DEFINE values == [s \in Sliders |-> config[s][ends[s]]]
<1>2. config \in [Sliders -> [low : Int, high : Int]]
      /\ {config.rate.low, config.rate.high} \subseteq DOMAIN YearlyPayment
  BY ConfigsAssumption
<1>3. "vacancy" \in Sliders /\ "rate" \in Sliders
  BY DEF Sliders
<1>4. values["vacancy"] \in Int
  <2>1. config["vacancy"] \in [low : Int, high : Int] /\ ends["vacancy"] \in {"low", "high"}
    BY <1>2, <1>3
  <2>2. values["vacancy"] = config["vacancy"][ends["vacancy"]]
    BY <1>3
  <2>3. config["vacancy"].low \in Int /\ config["vacancy"].high \in Int
    BY <2>1
  <2>4. QED
    BY <2>1, <2>2, <2>3
<1>5. values["rate"] \in DOMAIN YearlyPayment
  <2>1. ends["rate"] \in {"low", "high"} /\ values["rate"] = config["rate"][ends["rate"]]
    BY <1>3
  <2>2. QED
    BY <1>2, <2>1
<1> HIDE DEF values
<1>6. QED
  BY <1>1, <1>4, <1>5, SlidersReplace DEF Adjusted, values

\* What the sliders leave as it was.
LEMMA AdjustedMoney ==
    ASSUME NEW deal \in Inputs, NEW run, Adjusted(run, deal)
    PROVE  /\ Loan(run) = Loan(deal) /\ InitialCash(run) = InitialCash(deal)
           /\ GrossRent(run) = GrossRent(deal)
           /\ Loan(run) \in Nat /\ InitialCash(run) \in Nat /\ GrossRent(run) \in Nat
           /\ YearlyPayment[run.rate] \in Nat \ {0}
           /\ DebtService(run) \in Int /\ Noi(run) \in Int
           /\ run.vacancy \in Int /\ run.opex \in Int
           /\ run.price \in Nat /\ run.price > 0
<1>1. /\ deal.price \in Nat \ {0} /\ deal.down \in Nat /\ deal.closing \in Nat
      /\ deal.rent \in Nat /\ deal.opex \in Nat
  BY InputsAreNumbers
<1>2. /\ run.price \in Nat \ {0} /\ run.down \in Nat /\ run.closing \in Nat
      /\ run.rent \in Nat /\ run.opex \in Nat
      /\ run.vacancy \in Int /\ run.rate \in DOMAIN YearlyPayment
  BY <1>1 DEF Adjusted
<1>3. /\ run.price \in Int /\ run.down \in Int /\ run.closing \in Int
      /\ run.rent \in Int /\ run.opex \in Int
  BY <1>2
<1>4. /\ Loan(run) = Loan(deal) /\ InitialCash(run) = InitialCash(deal)
      /\ GrossRent(run) = GrossRent(deal)
  BY DEF Adjusted, Loan, InitialCash, GrossRent
<1>5. InitialCash(run) \in Nat /\ GrossRent(run) \in Nat
  BY <1>2 DEF InitialCash, GrossRent
<1>6. /\ Loan(run) \in Nat /\ YearlyPayment[run.rate] \in Nat \ {0}
      /\ DebtService(run) \in Int /\ Noi(run) \in Int
  BY <1>2, <1>3, MoneyIsInteger
<1>7. QED
  BY <1>2, <1>3, <1>4, <1>5, <1>6

\* A product of positive numbers.
LEMMA ProductIsPositive == \A a, b \in Nat : a > 0 /\ b > 0 => a * b > 0 /\ a * b \in Int
OBVIOUS

\* A loan costs something every year, however little: the service is rounded up.
LEMMA LoanIsServiced ==
    ASSUME NEW deal \in Inputs, NEW run, Adjusted(run, deal), Loan(deal) > 0
    PROVE  DebtService(run) > 0
<1> DEFINE owed == Loan(run) * YearlyPayment[run.rate]
<1>1. owed > 0 /\ owed \in Int
  BY AdjustedMoney, ProductIsPositive
<1>2. DebtService(run) = -((-owed) \div One)
  BY DEF DebtService
<1> HIDE DEF owed
<1>3. (-owed) \div One >= 0 <=> -owed >= One * 0
  <2>1. -owed \in Int /\ One \in Nat /\ One > 0 /\ 0 \in Int
    BY <1>1, Constants
  <2>2. QED
    BY <2>1, DivAtLeast
<1>4. (-owed) \div One \in Int
  <2>1. -owed \in Int /\ One \in Nat /\ One > 0
    BY <1>1, Constants
  <2>2. QED
    BY <2>1, Division
<1>5. ~(-owed >= One * 0)
  BY <1>1 DEF One
<1>6. QED
  BY <1>2, <1>3, <1>4, <1>5

\* The three ratios of a run are numbers.
LEMMA RatiosAreNumbers ==
    ASSUME NEW deal \in Inputs, NEW run, Adjusted(run, deal)
    PROVE  /\ Underwrite(run).cash_on_cash \in Int /\ Underwrite(run).dscr \in Int
           /\ Underwrite(run).cap_rate \in Int
<1>1. /\ Underwrite(run).cash_on_cash = CashOnCash(run)
      /\ Underwrite(run).dscr = Dscr(run)
      /\ Underwrite(run).cap_rate = (Noi(run) * One) \div run.price
  BY DEF Underwrite
<1>2. CashOnCash(run) \in Int
  <2> DEFINE flow == Noi(run) - DebtService(run)
             cash == InitialCash(run)
  <2>1. flow * One \in Int /\ cash \in Nat
    BY AdjustedMoney DEF One
  <2>2. CashOnCash(run) = IF cash > 0 THEN (flow * One) \div cash ELSE 0
    BY DEF CashOnCash
  <2> HIDE DEF flow, cash
  <2>3. QED
    BY <2>1, <2>2, Division
<1>3. Dscr(run) \in Int
  <2> DEFINE noi == Noi(run)
             service == DebtService(run)
  <2>1. noi * One \in Int /\ service \in Int /\ Infinite \in Int
    BY AdjustedMoney DEF One, Infinite
  <2>2. Dscr(run) = IF service > 0 THEN (noi * One) \div service ELSE Infinite
    BY DEF Dscr
  <2> HIDE DEF noi, service
  <2>3. service > 0 => service \in Nat
    BY <2>1
  <2>4. QED
    BY <2>1, <2>2, <2>3, Division
<1>4. (Noi(run) * One) \div run.price \in Int
  <2>1. Noi(run) * One \in Int /\ run.price \in Nat /\ run.price > 0
    BY AdjustedMoney DEF One
  <2>2. QED
    BY <2>1, Division
<1>5. QED
  BY <1>1, <1>2, <1>3, <1>4

\* With a loan and cash, a run loses money exactly when its income does not cover
\* its debt service.
LEMMA LosesIffUncovered ==
    ASSUME NEW deal \in Inputs, NEW run, Adjusted(run, deal), Loan(deal) > 0, InitialCash(deal) > 0
    PROVE  Underwrite(run).cash_on_cash < 0 <=> Underwrite(run).dscr < One
<1> DEFINE noi == Noi(run)
           service == DebtService(run)
           cash == InitialCash(run)
<1>1. noi \in Int /\ service \in Nat /\ service > 0 /\ cash \in Nat /\ cash > 0
  <2>1. noi \in Int /\ service \in Int /\ cash \in Nat /\ cash > 0
    BY AdjustedMoney
  <2>2. service > 0
    BY LoanIsServiced
  <2>3. QED
    BY <2>1, <2>2
<1>2. /\ Underwrite(run).cash_on_cash = ((noi - service) * One) \div cash
      /\ Underwrite(run).dscr = (noi * One) \div service
  BY <1>1 DEF Underwrite, CashOnCash, Dscr
<1>3. Underwrite(run).cash_on_cash \in Int /\ Underwrite(run).dscr \in Int /\ One \in Int
  BY RatiosAreNumbers, Constants
<1> HIDE DEF noi, service, cash
<1>4. ((noi - service) * One) \div cash >= 0 <=> noi >= service
  <2>1. service \in Int
    BY <1>1
  <2>2. QED
    BY <1>1, <2>1, CashFlowCovers
<1>5. (noi * One) \div service >= One <=> noi >= service
  BY <1>1, CoverageCovers
<1>6. QED
  BY <1>2, <1>3, <1>4, <1>5

\* Less income or more debt service, no more cash on cash.
LEMMA CashOnCashIsMonotone ==
    ASSUME NEW deal \in Inputs, NEW more, Adjusted(more, deal), NEW less, Adjusted(less, deal),
           Noi(less) <= Noi(more), DebtService(more) <= DebtService(less)
    PROVE  CashOnCash(more) >= CashOnCash(less)
<1> DEFINE high == Noi(more) - DebtService(more)
           low == Noi(less) - DebtService(less)
           cash == InitialCash(deal)
<1>1. high \in Int /\ low \in Int /\ low <= high /\ cash \in Nat
  <2>1. /\ Noi(more) \in Int /\ DebtService(more) \in Int
        /\ Noi(less) \in Int /\ DebtService(less) \in Int
    BY AdjustedMoney
  <2>2. cash \in Nat
    BY AdjustedMoney
  <2>3. QED
    BY <2>1, <2>2
<1>2. /\ CashOnCash(more) = IF cash > 0 THEN (high * One) \div cash ELSE 0
      /\ CashOnCash(less) = IF cash > 0 THEN (low * One) \div cash ELSE 0
  BY AdjustedMoney DEF CashOnCash
<1> HIDE DEF high, low, cash
<1>3. low * One <= high * One /\ low * One \in Int /\ high * One \in Int
  BY <1>1 DEF One
<1>4. cash > 0 => (low * One) \div cash <= (high * One) \div cash
  BY <1>1, <1>3, DivMonotone
<1>5. cash > 0 => (low * One) \div cash \in Int /\ (high * One) \div cash \in Int
  BY <1>1, <1>3, Division
<1>6. QED
  BY <1>2, <1>4, <1>5

\* A product by a number that is not negative.
LEMMA ProductsAreMonotone == \A g \in Nat, a, b \in Int : a <= b => g * a <= g * b /\ g * a \in Int /\ g * b \in Int
OBVIOUS

\* More vacancy is no more income.
LEMMA NoiFallsWithVacancy ==
    ASSUME NEW deal \in Inputs, NEW more, Adjusted(more, deal), NEW less, Adjusted(less, deal),
           more.vacancy <= less.vacancy
    PROVE  Noi(less) <= Noi(more)
<1> DEFINE gross == GrossRent(deal)
           high == One - more.vacancy
           low == One - less.vacancy
<1>1. gross \in Nat /\ high \in Int /\ low \in Int /\ low <= high
  BY AdjustedMoney, Constants
<1>2. /\ Noi(more) = (gross * high) \div One - deal.opex
      /\ Noi(less) = (gross * low) \div One - deal.opex
  BY AdjustedMoney DEF Noi, Collected, Adjusted
<1> HIDE DEF gross, high, low
<1>3. gross * low <= gross * high /\ gross * low \in Int /\ gross * high \in Int
  BY <1>1, ProductsAreMonotone
<1>4. (gross * low) \div One <= (gross * high) \div One
  BY <1>3, DivMonotone, Constants
<1>5. (gross * low) \div One \in Int /\ (gross * high) \div One \in Int
  BY <1>3, Division, Constants
<1>6. deal.opex \in Int
  BY InputsAreNumbers
<1>7. QED
  BY <1>2, <1>4, <1>5, <1>6

\* A higher rate is no less service.
LEMMA ServiceRisesWithRate ==
    ASSUME NEW deal \in Inputs, NEW more, Adjusted(more, deal), NEW less, Adjusted(less, deal),
           more.rate <= less.rate
    PROVE  DebtService(more) <= DebtService(less)
<1> DEFINE loan == Loan(deal)
           small == YearlyPayment[more.rate]
           large == YearlyPayment[less.rate]
<1>1. more.rate \in DOMAIN YearlyPayment /\ less.rate \in DOMAIN YearlyPayment
  BY DEF Adjusted
<1>2. loan \in Nat /\ small \in Int /\ large \in Int /\ small <= large
  <2>1. small <= large
    BY <1>1, PaymentAssumption
  <2>2. QED
    BY <2>1, AdjustedMoney
<1>3. /\ DebtService(more) = -((-(loan * small)) \div One)
      /\ DebtService(less) = -((-(loan * large)) \div One)
  BY AdjustedMoney DEF DebtService
<1> HIDE DEF loan, small, large
<1>4. loan * small <= loan * large /\ loan * small \in Int /\ loan * large \in Int
  BY <1>2, ProductsAreMonotone
<1>5. -(loan * large) <= -(loan * small) /\ -(loan * small) \in Int /\ -(loan * large) \in Int
  BY <1>4
<1>6. (-(loan * large)) \div One <= (-(loan * small)) \div One
  BY <1>5, DivMonotone, Constants
<1>7. (-(loan * large)) \div One \in Int /\ (-(loan * small)) \div One \in Int
  BY <1>5, Division, Constants
<1>8. QED
  BY <1>3, <1>6, <1>7

\* A series computed from the runs.
LEMMA MetricIsSeries ==
    ASSUME NEW S, NEW sampled \in Seq(S), NEW name, \A run \in S : Underwrite(run)[name] \in Int
    PROVE  /\ Metric(name, sampled) \in Seq(Int) /\ Len(Metric(name, sampled)) = Len(sampled)
           /\ DOMAIN Metric(name, sampled) = DOMAIN sampled
           /\ \A k \in DOMAIN sampled : Metric(name, sampled)[k] = Underwrite(sampled[k])[name]
<1> DEFINE n == Len(sampled)
           f == Metric(name, sampled)
<1>1. n \in Nat /\ DOMAIN sampled = 1..n /\ \A k \in 1..n : sampled[k] \in S
  OBVIOUS
<1>2. f = [k \in 1..n |-> Underwrite(sampled[k])[name]]
  BY <1>1 DEF Metric
<1> HIDE DEF f, n
<1>3. f = [k \in 1..n |-> f[k]] /\ \A k \in 1..n : f[k] = Underwrite(sampled[k])[name]
  BY <1>2
<1>4. \A k \in 1..n : f[k] \in Int
  BY <1>1, <1>3
<1>5. f \in Seq(Int) /\ Len(f) = n
  BY <1>1, <1>3, <1>4, IntSequence
<1>6. DOMAIN f = 1..n
  BY <1>3
<1>7. QED
  BY <1>1, <1>3, <1>5, <1>6 DEF f, n

\* Capping keeps the number of runs.
LEMMA CappedIsSeries ==
    ASSUME NEW ratios \in Seq(Int)
    PROVE  Capped(ratios) \in Seq(Int) /\ Len(Capped(ratios)) = Len(ratios)
<1> DEFINE n == Len(ratios)
           f == Capped(ratios)
<1>1. n \in Nat /\ DOMAIN ratios = 1..n /\ \A k \in 1..n : ratios[k] \in Int
  OBVIOUS
<1>2. f = [k \in 1..n |-> IF ratios[k] > 99 * One THEN 99 * One ELSE ratios[k]] /\ 99 * One \in Int
  BY <1>1 DEF Capped, One
<1> HIDE DEF f, n
<1>3. f = [k \in 1..n |-> f[k]]
      /\ \A k \in 1..n : f[k] = IF ratios[k] > 99 * One THEN 99 * One ELSE ratios[k]
  BY <1>2
<1>4. \A k \in 1..n : f[k] \in Int
  BY <1>1, <1>2, <1>3
<1>5. QED
  BY <1>1, <1>3, <1>4, IntSequence DEF f, n

\* A slider at an end and the others in the middle is a deal with sliders too.
LEMMA CornerIsAdjusted ==
    ASSUME NEW deal \in Inputs, NEW config \in Configs, NEW slider \in {"vacancy", "rate"},
           NEW end \in {"low", "high"}
    PROVE  LET run == WithSliders(deal, [Midpoints(config) EXCEPT ![slider] = config[slider][end]])
           IN  /\ Adjusted(run, deal)
               /\ run.vacancy = IF slider = "vacancy" THEN config.vacancy[end]
                                ELSE Midpoints(config)["vacancy"]
               /\ run.rate = IF slider = "rate" THEN config.rate[end] ELSE Midpoints(config)["rate"]
<1> DEFINE values == [Midpoints(config) EXCEPT ![slider] = config[slider][end]]
<1>1. config \in [Sliders -> [low : Int, high : Int]]
      /\ {config.rate.low, config.rate.high, Midpoints(config).rate} \subseteq DOMAIN YearlyPayment
  BY ConfigsAssumption
<1>2. "vacancy" \in Sliders /\ "rate" \in Sliders
  BY DEF Sliders
<1>3. Midpoints(config) = [s \in Sliders |-> (config[s].low + config[s].high) \div 2]
  BY DEF Midpoints
<1>4. config["vacancy"].low \in Int /\ config["vacancy"].high \in Int
  BY <1>1, <1>2
<1>5. Midpoints(config)["vacancy"] \in Int
  BY <1>2, <1>3, <1>4
<1>6. /\ values["vacancy"] = IF slider = "vacancy" THEN config["vacancy"][end]
                             ELSE Midpoints(config)["vacancy"]
      /\ values["rate"] = IF slider = "rate" THEN config["rate"][end] ELSE Midpoints(config)["rate"]
  BY <1>2, <1>3
<1>7. values["vacancy"] \in Int
  BY <1>4, <1>5, <1>6
<1>8. values["rate"] \in DOMAIN YearlyPayment
  BY <1>1, <1>6
<1> HIDE DEF values
<1> DEFINE run == WithSliders(deal, values)
<1>9. /\ run.price = deal.price /\ run.down = deal.down /\ run.closing = deal.closing
      /\ run.rent = deal.rent /\ run.opex = deal.opex
      /\ run.vacancy = values["vacancy"] /\ run.rate = values["rate"]
  BY SlidersReplace
<1> HIDE DEF run
<1>10. Adjusted(run, deal)
  BY <1>7, <1>8, <1>9 DEF Adjusted
<1>11. QED
  BY <1>6, <1>9, <1>10 DEF run, values

\* Cash on cash does not rise with the vacancy or the rate.
LEMMA TornadoLeans ==
    ASSUME NEW deal \in Inputs, NEW config \in Configs, InOrder(config),
           NEW slider \in {"vacancy", "rate"}
    PROVE  Tornado(deal, config)[slider].low_coc >= Tornado(deal, config)[slider].high_coc
<1> DEFINE at(end) == WithSliders(deal, [Midpoints(config) EXCEPT ![slider] = config[slider][end]])
           more == at("low")
           less == at("high")
<1>1. slider \in Sliders
  BY DEF Sliders
<1>2. /\ Tornado(deal, config)[slider].low_coc = CashOnCash(more)
      /\ Tornado(deal, config)[slider].high_coc = CashOnCash(less)
  BY <1>1 DEF Tornado
<1>3. /\ Adjusted(more, deal)
      /\ more.vacancy = IF slider = "vacancy" THEN config.vacancy["low"] ELSE Midpoints(config)["vacancy"]
      /\ more.rate = IF slider = "rate" THEN config.rate["low"] ELSE Midpoints(config)["rate"]
  BY CornerIsAdjusted
<1>4. /\ Adjusted(less, deal)
      /\ less.vacancy = IF slider = "vacancy" THEN config.vacancy["high"] ELSE Midpoints(config)["vacancy"]
      /\ less.rate = IF slider = "rate" THEN config.rate["high"] ELSE Midpoints(config)["rate"]
  BY CornerIsAdjusted
<1>5. config.vacancy.low <= config.vacancy.high /\ config.rate.low <= config.rate.high
  BY DEF InOrder, Sliders
<1> HIDE DEF more, less
<1>6. more.vacancy \in Int /\ less.vacancy \in Int /\ more.rate \in Int /\ less.rate \in Int
  BY <1>3, <1>4, PaymentAssumption DEF Adjusted
<1>7. more.vacancy <= less.vacancy
  BY <1>3, <1>4, <1>5, <1>6
<1>8. more.rate <= less.rate
  BY <1>3, <1>4, <1>5, <1>6
<1>9. Noi(less) <= Noi(more)
  BY <1>3, <1>4, <1>7, NoiFallsWithVacancy
<1>10. DebtService(more) <= DebtService(less)
  BY <1>3, <1>4, <1>8, ServiceRisesWithRate
<1>11. CashOnCash(more) >= CashOnCash(less)
  BY <1>3, <1>4, <1>9, <1>10, CashOnCashIsMonotone
<1>12. QED
  BY <1>2, <1>11

\* The statistics of a set of runs.
LEMMA StatisticsAgree ==
    ASSUME NEW deal \in Inputs, NEW config \in Configs, NEW sampled \in Seq(Sampled(deal, config)),
           NEW n \in Nat, n >= 1, Len(sampled) = n
    PROVE  LET s == Statistics(sampled)
           IN  /\ \A part \in {"cash_on_cash", "dscr", "cap_rate"} :
                     s[part][10] <= s[part][50] /\ s[part][50] <= s[part][90]
               /\ IF s.cash_on_cash[50] < 0 THEN 2 * s.negative >= n ELSE 2 * s.negative <= n
               /\ Loan(deal) > 0 /\ InitialCash(deal) > 0 => s.negative = s.under_1
<1> DEFINE S == Sampled(deal, config)
           cocs == Metric("cash_on_cash", sampled)
           dscrs == Metric("dscr", sampled)
           rates == Metric("cap_rate", sampled)
           s == Statistics(sampled)
<1>1. \A run \in S : Adjusted(run, deal)
  BY SampledIsAdjusted
<1>2. \A run \in S : /\ Underwrite(run)["cash_on_cash"] \in Int
                     /\ Underwrite(run)["dscr"] \in Int /\ Underwrite(run)["cap_rate"] \in Int
  <2>1. TAKE run \in S
  <2>2. Adjusted(run, deal)
    BY <1>1
  <2>3. QED
    BY <2>2, RatiosAreNumbers
<1>3. /\ s["cash_on_cash"] = [q \in {10, 50, 90} |-> Percentile(cocs, q)]
      /\ s["dscr"] = [q \in {10, 50, 90} |-> Percentile(Capped(dscrs), q)]
      /\ s["cap_rate"] = [q \in {10, 50, 90} |-> Percentile(rates, q)]
      /\ s.negative = CountBelow(cocs, 0) /\ s.under_1 = CountBelow(dscrs, One)
  BY DEF Statistics
<1> HIDE DEF s, S, cocs, dscrs, rates
<1>4. /\ cocs \in Seq(Int) /\ Len(cocs) = n /\ DOMAIN cocs = DOMAIN sampled
      /\ \A k \in DOMAIN sampled : cocs[k] = Underwrite(sampled[k])["cash_on_cash"]
  BY <1>2, MetricIsSeries DEF cocs, S
<1>5. /\ dscrs \in Seq(Int) /\ Len(dscrs) = n /\ DOMAIN dscrs = DOMAIN sampled
      /\ \A k \in DOMAIN sampled : dscrs[k] = Underwrite(sampled[k])["dscr"]
  BY <1>2, MetricIsSeries DEF dscrs, S
<1>6. rates \in Seq(Int) /\ Len(rates) = n
  BY <1>2, MetricIsSeries DEF rates, S
<1>7. Capped(dscrs) \in Seq(Int) /\ Len(Capped(dscrs)) = n
  BY <1>5, CappedIsSeries
<1>8. \A part \in {"cash_on_cash", "dscr", "cap_rate"} :
          s[part][10] <= s[part][50] /\ s[part][50] <= s[part][90]
  <2>1. s["cash_on_cash"][10] <= s["cash_on_cash"][50] /\ s["cash_on_cash"][50] <= s["cash_on_cash"][90]
    BY <1>3, <1>4, PercentilesAreOrdered
  <2>2. s["dscr"][10] <= s["dscr"][50] /\ s["dscr"][50] <= s["dscr"][90]
    BY <1>3, <1>7, PercentilesAreOrdered
  <2>3. s["cap_rate"][10] <= s["cap_rate"][50] /\ s["cap_rate"][50] <= s["cap_rate"][90]
    BY <1>3, <1>6, PercentilesAreOrdered
  <2>4. QED
    BY <2>1, <2>2, <2>3
<1>9. IF s["cash_on_cash"][50] < 0 THEN 2 * s.negative >= n ELSE 2 * s.negative <= n
  <2>1. s["cash_on_cash"][50] = Percentile(cocs, 50)
    BY <1>3
  <2>2. IF Percentile(cocs, 50) < 0 THEN 2 * CountBelow(cocs, 0) >= n
        ELSE 2 * CountBelow(cocs, 0) <= n
    BY <1>4, MedianLeans
  <2>3. QED
    BY <1>3, <2>1, <2>2
<1>10. Loan(deal) > 0 /\ InitialCash(deal) > 0 => s.negative = s.under_1
  <2>1. HAVE Loan(deal) > 0 /\ InitialCash(deal) > 0
  <2>2. \A k \in DOMAIN sampled : cocs[k] < 0 <=> dscrs[k] < One
    <3>1. TAKE k \in DOMAIN sampled
    <3>2. sampled[k] \in S
      BY DEF S
    <3>3. Adjusted(sampled[k], deal)
      BY <1>1, <3>2
    <3>4. Underwrite(sampled[k]).cash_on_cash < 0 <=> Underwrite(sampled[k]).dscr < One
      BY <2>1, <3>3, LosesIffUncovered
    <3>5. QED
      BY <1>4, <1>5, <3>4
  <2>3. {k \in DOMAIN cocs : cocs[k] < 0} = {k \in DOMAIN dscrs : dscrs[k] < One}
    BY <1>4, <1>5, <2>2
  <2>4. QED
    BY <1>3, <2>3 DEF CountBelow
<1>11. QED
  BY <1>8, <1>9, <1>10 DEF s

\* stress_test.py: the percentiles, the probabilities and the tornado of a
\* reply, computed apart from the same runs, tell the same story.
THEOREM StressPartsAgreeHolds == DeskSpec => []StressPartsAgree
<1>1. DeskInv => StressPartsAgree
  <2>1. SUFFICES ASSUME DeskInv, request.kind = "stress", reply.status = "ok"
                 PROVE  StressPartsAgree
    BY DEF StressPartsAgree, Replied
  <2>2. Stressed
    BY <2>1, KindsOfPhases DEF DeskInv
  <2>3. PICK deal \in Deals, config \in Configs :
            /\ request = [kind |-> "stress", deal |-> deal, config |-> config]
            /\ runs \in Seq(Sampled(deal, config))
            /\ \/ reply \in {Waiting, Error}
               \/ /\ Len(runs) = Iterations
                  /\ reply = [status |-> "ok", statistics |-> Statistics(runs),
                              tornado |-> Tornado(deal, config)]
            /\ reply # Error => InOrder(config)
    BY <2>2 DEF Stressed
  <2>4. /\ deal \in Inputs /\ request.deal = deal
        /\ Len(runs) = Iterations /\ InOrder(config)
        /\ reply.statistics = Statistics(runs) /\ reply.tornado = Tornado(deal, config)
    BY <2>1, <2>3, DealsAssumption, WaitingIsNoReply
  <2>5. Iterations \in Nat /\ Iterations >= 1
    BY IterationsAssumption
  <2> DEFINE s == Statistics(runs)
  <2>6. /\ \A part \in {"cash_on_cash", "dscr", "cap_rate"} :
              s[part][10] <= s[part][50] /\ s[part][50] <= s[part][90]
        /\ IF s.cash_on_cash[50] < 0 THEN 2 * s.negative >= Iterations
           ELSE 2 * s.negative <= Iterations
        /\ Loan(deal) > 0 /\ InitialCash(deal) > 0 => s.negative = s.under_1
    BY <2>3, <2>4, <2>5, StatisticsAgree
  <2>7. /\ Tornado(deal, config)["vacancy"].low_coc >= Tornado(deal, config)["vacancy"].high_coc
        /\ Tornado(deal, config)["rate"].low_coc >= Tornado(deal, config)["rate"].high_coc
    BY <2>4, TornadoLeans
  <2> HIDE DEF s
  <2>8. QED
    BY <2>4, <2>6, <2>7 DEF StressPartsAgree, s
<1>2. QED
  BY <1>1, DeskInvHolds, PTL

--------------------------------------------------------------------------------
(****************************************************************************)
(* The internal rate of return: the present value falls as the rate rises   *)
(* on the side where it is looked for, so a bracket with a root is halved   *)
(* into one.                                                                *)
(****************************************************************************)
\* The present value, year by year.
Discounted(year, flows, point) ==
    /\ year[0] = [sum |-> 0, scale |-> 1]
    /\ \A n \in 0..Len(flows) : year[n] \in [sum : Int, scale : Nat \ {0}]
    /\ \A n \in 1..Len(flows) :
           /\ year[n].sum = year[n - 1].sum * (point + 1) + flows[n] * year[n - 1].scale
           /\ year[n].scale = 4 * year[n - 1].scale

\* A present value is the last of the sums by year.
LEMMA PresentValueByYears ==
    ASSUME NEW flows \in Seq(Int), NEW point \in Nat
    PROVE  \E year : /\ Discounted(year, flows, point)
                     /\ NetPresentValue(flows, point) = year[Len(flows)].sum
<1> DEFINE L == Len(flows)
           V == [sum : Int, scale : Nat \ {0}]
           base == [sum |-> 0, scale |-> 1]
           next(n, r) == [sum |-> r.sum * (point + 1) + flows[n] * r.scale, scale |-> 4 * r.scale]
           step == [n \in 1..L |-> [r \in V |-> next(n, r)]]
           Eq(f) == f = [n \in 0..L |-> IF n = 0 THEN base ELSE next(n, f[n - 1])]
           c == CHOOSE g : Eq(g)
<1>1. L \in Nat /\ \A n \in 1..L : flows[n] \in Int
  OBVIOUS
<1>2. base \in V
  OBVIOUS
<1>3. ASSUME NEW n \in 1..L, NEW r \in V
      PROVE  next(n, r) \in V
  <2>1. r.sum \in Int /\ r.scale \in Nat \ {0} /\ flows[n] \in Int
    BY <1>1
  <2>2. r.sum * (point + 1) + flows[n] * r.scale \in Int
    BY <2>1
  <2>3. 4 * r.scale \in Nat \ {0}
    BY <2>1
  <2>4. QED
    BY <2>2, <2>3
<1>4. step \in [1..L -> [V -> V]]
  <2> HIDE DEF next, V
  <2>1. QED
    BY <1>3
<1>5. \A n \in 1..L, r \in V : step[n][r] = next(n, r)
  <2> HIDE DEF next, V
  <2>1. QED
    OBVIOUS
<1>6. NetPresentValue(flows, point) = c[L].sum
  BY DEF NetPresentValue
<1>7. \A f : Eq(f) => /\ f = [n \in 0..L |-> f[n]] /\ f[0] = base
                      /\ \A n \in 1..L : f[n] = next(n, f[n - 1])
  <2> HIDE DEF base, next, L
  <2>1. TAKE f
  <2>2. HAVE Eq(f)
  <2>3. f = [n \in 0..L |-> IF n = 0 THEN base ELSE next(n, f[n - 1])]
    BY <2>2
  <2>4. \A n \in 0..L : f[n] = IF n = 0 THEN base ELSE next(n, f[n - 1])
    BY <2>3
  <2>5. f[0] = base
    BY <1>1, <2>4
  <2>6. \A n \in 1..L : f[n] = next(n, f[n - 1])
    BY <1>1, <2>4
  <2>7. f = [n \in 0..L |-> f[n]]
    BY <2>3
  <2>8. QED
    BY <2>5, <2>6, <2>7
<1> HIDE DEF step, next, V, base
<1>8. PICK f : Follows(f, L, V, base, step)
  <2> HIDE DEF L
  <2>1. QED
    BY <1>1, <1>2, <1>4, RecursionExists
<1>9. Eq(f)
  <2>1. f \in [0..L -> V] /\ f[0] = base
    BY <1>8 DEF Follows
  <2>2. \A n \in 1..L : f[n] = next(n, f[n - 1])
    <3>1. \A n \in 1..L : f[n] = step[n][f[n - 1]]
      BY <1>8 DEF Follows
    <3>2. \A n \in 1..L : f[n - 1] \in V
      BY <1>1, <2>1, SMTT(60)
    <3>3. QED
      BY <1>5, <3>1, <3>2
  <2>3. QED
    BY <1>1, <2>1, <2>2
<1>10. Eq(c)
  BY <1>9
<1> HIDE DEF c, Eq
<1>11. c = [n \in 0..L |-> c[n]] /\ c[0] = base /\ \A n \in 1..L : c[n] = next(n, c[n - 1])
  BY <1>7, <1>10
<1> HIDE DEF L
<1>12. \A n \in 0..L : c[n] \in V
  <2> DEFINE S == {n \in 0..L : c[n] \in V}
  <2>1. 0 \in S
    BY <1>1, <1>2, <1>11
  <2>2. \A n \in 1..L : n - 1 \in S => n \in S
    <3>1. TAKE n \in 1..L
    <3>2. n \in 0..L
      BY <1>1
    <3>3. c[n - 1] \in V => next(n, c[n - 1]) \in V
      BY <1>3
    <3>4. QED
      BY <1>11, <3>2, <3>3
  <2> HIDE DEF S
  <2>3. 0..L \subseteq S
    BY <1>1, <2>1, <2>2, UpTo
  <2>4. QED
    BY <2>3 DEF S
<1>13. \A n \in 1..L : /\ c[n].sum = c[n - 1].sum * (point + 1) + flows[n] * c[n - 1].scale
                       /\ c[n].scale = 4 * c[n - 1].scale
  <2>1. TAKE n \in 1..L
  <2>2. c[n] = next(n, c[n - 1])
    BY <1>11
  <2> DEFINE r == c[n - 1]
  <2> HIDE DEF r
  <2>3. c[n] = next(n, r)
    BY <2>2 DEF r
  <2>4. next(n, r).sum = r.sum * (point + 1) + flows[n] * r.scale /\ next(n, r).scale = 4 * r.scale
    BY DEF next
  <2>5. QED
    BY <2>3, <2>4, Zenon DEF r
<1>14. Discounted(c, flows, point)
  BY <1>11, <1>12, <1>13 DEF Discounted, V, base, L
<1>15. QED
  BY <1>6, <1>14 DEF L

\* The sign of a present value.
LEMMA SignFacts ==
    ASSUME NEW flows \in Seq(Int), NEW point \in Nat
    PROVE  /\ NetPresentValue(flows, point) \in Int
           /\ NpvSign(flows, point) \in {-1, 0, 1}
           /\ NpvSign(flows, point) > 0 <=> NetPresentValue(flows, point) > 0
           /\ NpvSign(flows, point) < 0 <=> NetPresentValue(flows, point) < 0
<1>1. PICK year : /\ Discounted(year, flows, point)
                  /\ NetPresentValue(flows, point) = year[Len(flows)].sum
  BY PresentValueByYears
<1>2. Len(flows) \in 0..Len(flows)
  OBVIOUS
<1>3. NetPresentValue(flows, point) \in Int
  BY <1>1, <1>2 DEF Discounted
<1> DEFINE value == NetPresentValue(flows, point)
<1>4. NpvSign(flows, point) = IF value > 0 THEN 1 ELSE IF value < 0 THEN -1 ELSE 0
  BY DEF NpvSign
<1> HIDE DEF value
<1>5. QED
  BY <1>3, <1>4 DEF value

\* One year more, at a lower and at a higher rate: the sums of an outlay that what
\* came in has not made up for.
LEMMA YearWidensTheGap ==
    ASSUME NEW a \in Int, NEW b \in Int, NEW P \in Nat, NEW Q \in Nat, P > 0, P < Q,
           NEW c \in Int, c >= 0, a * P + c <= 0, b <= a
    PROVE  /\ a <= 0
           /\ b * Q + c <= a * P + c
           /\ (a < 0 \/ b < a) => b * Q + c < a * P + c
<1>1. a <= 0
  <2>1. SUFFICES ASSUME a > 0 PROVE FALSE
    OBVIOUS
  <2>2. a \in Nat /\ a * P > 0 /\ a * P \in Int
    <3>1. a \in Nat
      BY <2>1
    <3>2. QED
      BY <2>1, <3>1, ProductIsPositive
  <2>3. QED
    BY <2>2
<1> DEFINE m == -a
           k == -b
<1>2. m \in Nat /\ k \in Nat /\ m <= k
  BY <1>1
<1>3. m * P <= m * Q /\ m * P \in Int /\ m * Q \in Int
  <2>1. P \in Int /\ Q \in Int /\ P <= Q
    OBVIOUS
  <2> HIDE DEF m
  <2>2. QED
    BY <1>2, <2>1, ProductsAreMonotone
<1>4. Q * m <= Q * k /\ Q * m \in Int /\ Q * k \in Int
  <2>1. m \in Int /\ k \in Int
    BY <1>2
  <2> HIDE DEF m, k
  <2>2. QED
    BY <1>2, <2>1, ProductsAreMonotone
<1>5. Q * m = m * Q /\ a * P = -(m * P) /\ b * Q = -(Q * k)
  OBVIOUS
<1>6. b * Q <= a * P /\ b * Q \in Int /\ a * P \in Int
  <2> HIDE DEF m, k
  <2>1. QED
    BY <1>3, <1>4, <1>5
<1>7. ASSUME a < 0 PROVE m * P < m * Q
  <2>1. m \in Nat /\ m > 0 /\ Q - P \in Nat /\ Q - P > 0
    BY <1>2, <1>7
  <2>2. m * (Q - P) > 0 /\ m * (Q - P) \in Int
    <3> HIDE DEF m
    <3>1. QED
      BY <2>1, ProductIsPositive
  <2>3. m * (Q - P) = m * Q - m * P
    OBVIOUS
  <2> HIDE DEF m
  <2>4. QED
    BY <1>3, <2>2, <2>3
<1>8. ASSUME b < a PROVE Q * m < Q * k
  <2>1. k - m \in Nat /\ k - m > 0 /\ Q > 0
    BY <1>2, <1>8
  <2>2. Q * (k - m) > 0 /\ Q * (k - m) \in Int
    <3> HIDE DEF m, k
    <3>1. QED
      BY <2>1, ProductIsPositive
  <2>3. Q * (k - m) = Q * k - Q * m
    OBVIOUS
  <2> HIDE DEF m, k
  <2>4. QED
    BY <1>4, <2>2, <2>3
<1>9. (a < 0 \/ b < a) => b * Q < a * P
  <2> HIDE DEF m, k
  <2>1. QED
    BY <1>3, <1>4, <1>5, <1>7, <1>8
<1>10. QED
  BY <1>1, <1>6, <1>9

\* What is still owing after a year is owing before it.
LEMMA StillOwing ==
    ASSUME NEW a \in Int, NEW P \in Nat, P > 0, NEW c \in Int, c >= 0, a * P + c <= 0
    PROVE  a <= 0
<1>1. SUFFICES ASSUME a > 0 PROVE FALSE
  OBVIOUS
<1>2. a \in Nat
  BY <1>1
<1>3. a * P > 0 /\ a * P \in Int
  BY <1>1, <1>2, ProductIsPositive
<1>4. QED
  BY <1>3

\* The first year is not discounted.
LEMMA FirstYear == \A f, P \in Int : 0 * P + f * 1 = f
OBVIOUS

\* A product of numbers that are not negative.
LEMMA ProductIsNatural == \A a, b \in Int : a >= 0 /\ b >= 0 => a * b >= 0 /\ a * b \in Int
OBVIOUS

\* An outlay that no further one follows: where the present value is not positive,
\* it is negative at every higher rate.
LEMMA ValueFallsWithRate ==
    ASSUME NEW flows \in Seq(Int), Len(flows) >= 1, flows[1] < 0,
           \A t \in DOMAIN flows : t > 1 => flows[t] >= 0,
           NEW p \in Nat, NEW q \in Nat, p < q, NetPresentValue(flows, p) <= 0
    PROVE  NetPresentValue(flows, q) < 0
<1> DEFINE L == Len(flows)
           P == p + 1
           Q == q + 1
<1>1. L \in Nat /\ L >= 1 /\ DOMAIN flows = 1..L /\ \A n \in 1..L : flows[n] \in Int
  OBVIOUS
<1>2. P \in Nat /\ Q \in Nat /\ P > 0 /\ P < Q /\ P \in Int /\ Q \in Int
  OBVIOUS
<1>3. PICK x : /\ Discounted(x, flows, p)
               /\ NetPresentValue(flows, p) = x[L].sum
  BY PresentValueByYears
<1>4. PICK y : /\ Discounted(y, flows, q)
               /\ NetPresentValue(flows, q) = y[L].sum
  BY PresentValueByYears
<1>5. /\ x[0].sum = 0 /\ x[0].scale = 1
      /\ \A n \in 0..L : x[n].sum \in Int /\ x[n].scale \in Int /\ x[n].scale > 0
      /\ \A n \in 1..L : /\ x[n].sum = x[n - 1].sum * P + flows[n] * x[n - 1].scale
                         /\ x[n].scale = 4 * x[n - 1].scale
  BY <1>3 DEF Discounted
<1>6. /\ y[0].sum = 0 /\ y[0].scale = 1
      /\ \A n \in 0..L : y[n].sum \in Int /\ y[n].scale \in Int
      /\ \A n \in 1..L : /\ y[n].sum = y[n - 1].sum * Q + flows[n] * y[n - 1].scale
                         /\ y[n].scale = 4 * y[n - 1].scale
  BY <1>4 DEF Discounted
<1> DEFINE Falls(a, b) == a <= 0 => b <= a /\ (a < 0 \/ b < a)
           S == {n \in 0..L : /\ x[n].scale = y[n].scale
                              /\ n > 0 => Falls(x[n].sum, y[n].sum)}
<1> HIDE DEF L, P, Q
<1>7. 0 \in S
  BY <1>1, <1>5, <1>6
<1>8. \A n \in 1..L : n - 1 \in S => n \in S
  <2>1. TAKE n \in 1..L
  <2>2. HAVE n - 1 \in S
  <2>3. n \in 0..L /\ n - 1 \in 0..L /\ n \in Nat /\ n >= 1
    BY <1>1
  <2>4. x[n - 1].scale = y[n - 1].scale
    BY <2>2
  <2>5. x[n].scale = y[n].scale
    BY <1>5, <1>6, <2>4, Zenon
  <2> DEFINE a == x[n - 1].sum
             b == y[n - 1].sum
             c == flows[n] * x[n - 1].scale
  <2>6. x[n].sum = a * P + c /\ y[n].sum = b * Q + c
    BY <1>5, <1>6, <2>4, Zenon
  <2>7. a \in Int /\ b \in Int /\ x[n - 1].scale \in Int /\ x[n - 1].scale > 0 /\ flows[n] \in Int
    BY <1>1, <1>5, <1>6, <2>3
  <2>8. CASE n = 1
    <3>1. a = 0 /\ b = 0 /\ c = flows[1] * 1
      BY <1>5, <1>6, <2>8
    <3>2. x[n].sum = flows[1] /\ y[n].sum = flows[1]
      <4>1. x[n].sum = 0 * P + flows[1] * 1 /\ y[n].sum = 0 * Q + flows[1] * 1
        BY <2>6, <3>1, Zenon
      <4>2. flows[1] \in Int
        BY <2>7, <2>8
      <4> HIDE DEF a, b, c
      <4>3. QED
        BY <1>2, <4>1, <4>2, FirstYear
    <3>3. QED
      BY <2>3, <2>5, <3>2, <2>7, <2>8
  <2>9. CASE n > 1
    <3>1. flows[n] >= 0
      BY <1>1, <2>9
    <3>2. c \in Int /\ c >= 0
      <4>1. x[n - 1].scale >= 0
        BY <2>7
      <4>2. QED
        BY <2>7, <3>1, <4>1, ProductIsNatural
    <3>3. Falls(a, b)
      <4>1. n - 1 > 0
        BY <2>3, <2>9
      <4>2. QED
        BY <2>2, <4>1
    <3> HIDE DEF a, b, c
    <3>4. ASSUME a * P + c <= 0
          PROVE  b * Q + c < a * P + c
      <4>1. a <= 0
        BY <1>2, <2>7, <3>2, <3>4, StillOwing
      <4>2. b <= a /\ (a < 0 \/ b < a)
        BY <3>3, <4>1
      <4>3. (a < 0 \/ b < a) => b * Q + c < a * P + c
        BY <1>2, <2>7, <3>2, <3>4, <4>2, YearWidensTheGap
      <4>4. QED
        BY <4>2, <4>3
    <3>5. a * P + c \in Int /\ b * Q + c \in Int
      BY <1>2, <2>7, <3>2
    <3>6. Falls(x[n].sum, y[n].sum)
      <4> DEFINE u == a * P + c
                 v == b * Q + c
      <4>1. u \in Int /\ v \in Int /\ (u <= 0 => v < u)
        BY <3>4, <3>5
      <4>2. x[n].sum = u /\ y[n].sum = v
        BY <2>6
      <4> HIDE DEF u, v
      <4>3. QED
        BY <4>1, <4>2
    <3>7. QED
      BY <2>3, <2>5, <3>6
  <2>10. QED
    BY <2>3, <2>8, <2>9
<1>9. L \in S
  <2> HIDE DEF S
  <2>1. QED
    BY <1>1, <1>7, <1>8, UpTo
<1>10. x[L].sum \in Int /\ y[L].sum \in Int /\ Falls(x[L].sum, y[L].sum) /\ x[L].sum <= 0
  <2>1. L \in 0..L /\ L > 0
    BY <1>1
  <2>2. QED
    BY <1>3, <1>5, <1>6, <1>9, <2>1
<1>11. y[L].sum < 0
  BY <1>10
<1>12. QED
  BY <1>4, <1>11

\* A cell of the grid on whose ends the present value changes sign, or a root.
Encloses(flows, low, high) ==
    /\ low \in Nat /\ high \in Nat /\ low <= high
    /\ \/ NpvSign(flows, low) * NpvSign(flows, high) < 0
       \/ low = high /\ NpvSign(flows, low) = 0

\* Signs that differ.
LEMMA SignProducts ==
    \A a, b, c \in {-1, 0, 1} : a * b < 0 =>
        /\ a # 0 /\ b # 0 /\ b * a < 0
        /\ (~(c * a < 0) /\ c # 0 => c * b < 0)
        /\ (c * a < 0 => a * c < 0)
OBVIOUS

\* One halving keeps a root in the bracket.
LEMMA HalveEncloses ==
    ASSUME NEW flows \in Seq(Int), NEW low, NEW high, Encloses(flows, low, high)
    PROVE  /\ Encloses(flows, Halve(flows, <<low, high>>)[1], Halve(flows, <<low, high>>)[2])
           /\ Halve(flows, <<low, high>>) \in Nat \X Nat
<1> DEFINE mid == (low + high) \div 2
           h == Halve(flows, <<low, high>>)
           sm == NpvSign(flows, mid)
           sl == NpvSign(flows, low)
           sh == NpvSign(flows, high)
<1>1. low \in Nat /\ high \in Nat /\ low <= high
  BY DEF Encloses
<1>2. h = IF high - low <= 1 THEN <<low, high>>
          ELSE IF sm = 0 THEN <<mid, mid>>
          ELSE IF sm * sl < 0 THEN <<low, mid>>
          ELSE <<mid, high>>
  BY DEF Halve
<1>3. mid \in Nat /\ low <= mid /\ mid <= high
  BY <1>1
<1> HIDE DEF mid, h
<1>4. CASE high - low <= 1
  <2>1. h = <<low, high>>
    BY <1>2, <1>4
  <2>2. QED
    BY <1>1, <2>1 DEF h
<1>5. CASE ~(high - low <= 1)
  <2>1. low # high
    BY <1>1, <1>5
  <2>2. sl * sh < 0
    BY <2>1 DEF Encloses
  <2>3. sm \in {-1, 0, 1} /\ sl \in {-1, 0, 1} /\ sh \in {-1, 0, 1}
    BY <1>1, <1>3, SignFacts
  <2> HIDE DEF sm, sl, sh
  <2>4. CASE sm = 0
    <3>1. h = <<mid, mid>>
      BY <1>2, <1>5, <2>4
    <3>2. Encloses(flows, mid, mid)
      BY <1>3, <2>4 DEF Encloses, sm
    <3>3. QED
      BY <1>3, <3>1, <3>2 DEF h
  <2>5. CASE sm # 0 /\ sm * sl < 0
    <3>1. h = <<low, mid>>
      BY <1>2, <1>5, <2>5
    <3>2. sl * sm < 0
      BY <2>2, <2>3, <2>5, SignProducts
    <3>3. Encloses(flows, low, mid)
      BY <1>1, <1>3, <3>2 DEF Encloses, sm, sl
    <3>4. QED
      BY <1>1, <1>3, <3>1, <3>3 DEF h
  <2>6. CASE sm # 0 /\ ~(sm * sl < 0)
    <3>1. h = <<mid, high>>
      BY <1>2, <1>5, <2>6
    <3>2. sm * sh < 0
      BY <2>2, <2>3, <2>6, SignProducts
    <3>3. Encloses(flows, mid, high)
      BY <1>1, <1>3, <3>2 DEF Encloses, sm, sh
    <3>4. QED
      BY <1>1, <1>3, <3>1, <3>3 DEF h
  <2>7. QED
    BY <2>4, <2>5, <2>6
<1>6. QED
  BY <1>4, <1>5

\* The brackets that enclose a root.
Brackets(flows) == {b \in Nat \X Nat : Encloses(flows, b[1], b[2])}

\* One halving makes a bracket of a bracket.
LEMMA HalveKeepsBrackets ==
    ASSUME NEW flows \in Seq(Int), NEW b \in Brackets(flows)
    PROVE  Halve(flows, b) \in Brackets(flows)
<1> DEFINE low == b[1]
           high == b[2]
<1>1. b = <<low, high>> /\ Encloses(flows, low, high)
  BY DEF Brackets
<1> HIDE DEF low, high
<1>2. /\ Encloses(flows, Halve(flows, <<low, high>>)[1], Halve(flows, <<low, high>>)[2])
      /\ Halve(flows, <<low, high>>) \in Nat \X Nat
  BY <1>1, HalveEncloses
<1>3. Halve(flows, b) = Halve(flows, <<low, high>>)
  BY <1>1
<1>4. QED
  BY <1>2, <1>3 DEF Brackets

\* However many rounds, a bisection keeps a root enclosed.
LEMMA BisectEncloses ==
    ASSUME NEW flows \in Seq(Int), NEW low, NEW high, Encloses(flows, low, high)
    PROVE  Bisect(flows, low, high) \in Brackets(flows)
<1> DEFINE V == Brackets(flows)
           base == <<low, high>>
           step == [n \in 1..Rounds |-> [b \in V |-> Halve(flows, b)]]
           Eq(f) == f = [n \in 0..Rounds |-> IF n = 0 THEN base ELSE Halve(flows, f[n - 1])]
           c == CHOOSE g : Eq(g)
<1>1. Rounds \in Nat
  BY GridAssumption
<1>2. base \in V
  BY DEF Brackets, Encloses
<1>3. \A b \in V : Halve(flows, b) \in V
  BY HalveKeepsBrackets
<1>4. Bisect(flows, low, high) = c[Rounds]
  BY DEF Bisect
<1> HIDE DEF V, base
<1>5. step \in [1..Rounds -> [V -> V]] /\ \A n \in 1..Rounds, b \in V : step[n][b] = Halve(flows, b)
  BY <1>3
<1> HIDE DEF step
<1>6. PICK f : Follows(f, Rounds, V, base, step)
  BY <1>1, <1>2, <1>5, RecursionExists
<1>7. Eq(f)
  <2>1. f \in [0..Rounds -> V] /\ f[0] = base
    BY <1>6 DEF Follows
  <2>2. \A n \in 1..Rounds : f[n] = Halve(flows, f[n - 1])
    <3>1. \A n \in 1..Rounds : f[n] = step[n][f[n - 1]]
      BY <1>6 DEF Follows
    <3>2. \A n \in 1..Rounds : f[n - 1] \in V
      BY <1>1, <2>1
    <3>3. QED
      BY <1>5, <3>1, <3>2
  <2>3. QED
    BY <1>1, <2>1, <2>2
<1>8. Eq(c)
  BY <1>7
<1> HIDE DEF c
<1>9. c[0] = base /\ \A n \in 1..Rounds : c[n] = Halve(flows, c[n - 1])
  <2>1. \A n \in 0..Rounds : c[n] = IF n = 0 THEN base ELSE Halve(flows, c[n - 1])
    BY <1>8
  <2>2. QED
    BY <1>1, <2>1
<1> DEFINE S == {n \in 0..Rounds : c[n] \in V}
<1>10. 0 \in S
  BY <1>1, <1>2, <1>9
<1>11. \A n \in 1..Rounds : n - 1 \in S => n \in S
  <2>1. TAKE n \in 1..Rounds
  <2>2. n \in 0..Rounds
    BY <1>1
  <2>3. QED
    BY <1>3, <1>9, <2>2
<1> HIDE DEF S
<1>12. Rounds \in S
  BY <1>1, <1>10, <1>11, UpTo
<1>13. QED
  BY <1>4, <1>12 DEF S, V

\* Whatever the flows, a rate of return encloses a root.
LEMMA IrrEncloses ==
    ASSUME NEW flows \in Seq(Int), Irr(flows) # NoIrr
    PROVE  Irr(flows) \in Brackets(flows)
<1> DEFINE sign(p) == NpvSign(flows, p)
           turns == {p \in 1..Cells : sign(p) = 0 \/ sign(p) * sign(p - 1) < 0}
           first == Min(turns)
           mixed == ~(~(\E t \in DOMAIN flows : flows[t] > 0) \/ ~(\E t \in DOMAIN flows : flows[t] < 0))
<1>1. Cells \in Nat /\ 0 \in Nat /\ 0 <= Cells
  BY GridAssumption
<1>2. Irr(flows) = IF ~mixed THEN NoIrr
                   ELSE IF sign(0) = 0 THEN <<0, 0>>
                   ELSE IF sign(Cells) = 0 THEN <<Cells, Cells>>
                   ELSE IF sign(0) * sign(Cells) < 0 THEN Bisect(flows, 0, Cells)
                   ELSE IF turns = {} THEN NoIrr
                   ELSE IF sign(first) = 0 THEN <<first, first>>
                   ELSE Bisect(flows, first - 1, first)
  BY DEF Irr
<1>3. turns # {} => first \in turns
  <2>1. turns \subseteq Int /\ IsFiniteSet(turns)
    <3>1. turns \subseteq 1..Cells
      OBVIOUS
    <3>2. IsFiniteSet(1..Cells) /\ 1..Cells \subseteq Int
      BY <1>1, FS_Interval
    <3> HIDE DEF turns
    <3>3. QED
      BY <3>1, <3>2, FS_Subset
  <2> HIDE DEF turns
  <2>2. QED
    BY <2>1, Extremes
<1>4. \A p \in Nat : sign(p) \in {-1, 0, 1}
  BY SignFacts
<1>5. ASSUME NEW p \in Nat, sign(p) = 0 PROVE <<p, p>> \in Brackets(flows)
  BY <1>5 DEF Brackets, Encloses
<1>6. ASSUME turns # {}
      PROVE  /\ first \in Nat /\ first - 1 \in Nat
             /\ sign(first) = 0 \/ Encloses(flows, first - 1, first)
  <2>1. first \in 1..Cells /\ (sign(first) = 0 \/ sign(first) * sign(first - 1) < 0)
    BY <1>3, <1>6
  <2> HIDE DEF first
  <2>2. first \in Nat /\ first - 1 \in Nat /\ first - 1 <= first
    BY <1>1, <2>1
  <2>3. sign(first) \in {-1, 0, 1} /\ sign(first - 1) \in {-1, 0, 1}
    BY <1>4, <2>2
  <2> HIDE DEF sign
  <2>4. sign(first) * sign(first - 1) < 0 => sign(first - 1) * sign(first) < 0
    BY <2>3, SignProducts
  <2>5. QED
    BY <2>1, <2>2, <2>4 DEF Encloses, sign
<1> HIDE DEF turns, first, mixed
<1>7. sign(0) * sign(Cells) < 0 => Encloses(flows, 0, Cells)
  BY <1>1 DEF Encloses
<1> HIDE DEF sign
<1>8. CASE mixed /\ sign(0) = 0
  BY <1>1, <1>2, <1>5, <1>8
<1>9. CASE mixed /\ sign(0) # 0 /\ sign(Cells) = 0
  BY <1>1, <1>2, <1>5, <1>9
<1>10. CASE mixed /\ sign(0) # 0 /\ sign(Cells) # 0 /\ sign(0) * sign(Cells) < 0
  BY <1>2, <1>7, <1>10, BisectEncloses
<1>11. CASE /\ mixed /\ sign(0) # 0 /\ sign(Cells) # 0 /\ ~(sign(0) * sign(Cells) < 0)
            /\ turns # {} /\ sign(first) = 0
  BY <1>2, <1>5, <1>6, <1>11
<1>12. CASE /\ mixed /\ sign(0) # 0 /\ sign(Cells) # 0 /\ ~(sign(0) * sign(Cells) < 0)
            /\ turns # {} /\ sign(first) # 0
  <2>1. Encloses(flows, first - 1, first)
    BY <1>6, <1>12
  <2>2. Irr(flows) = Bisect(flows, first - 1, first)
    BY <1>2, <1>12
  <2>3. QED
    BY <2>1, <2>2, BisectEncloses
<1>13. QED
  BY <1>2, <1>8, <1>9, <1>10, <1>11, <1>12

\* The sum of what came in, growing every year, is an integer.
LEMMA GrownIsInteger ==
    ASSUME NEW sum \in Int, NEW growth \in Int, NEW years \in Nat
    PROVE  Grown(sum, growth, years) \in Int
<1> DEFINE next(x) == (x * (One + growth)) \div One
           step == [n \in 1..years |-> [x \in Int |-> next(x)]]
           Eq(f) == f = [y \in 0..years |-> IF y = 0 THEN sum ELSE next(f[y - 1])]
           c == CHOOSE g : Eq(g)
<1>1. \A x \in Int : next(x) \in Int
  <2>1. TAKE x \in Int
  <2>2. x * (One + growth) \in Int
    BY DEF One
  <2>3. QED
    BY <2>2, Division, Constants
<1>2. Grown(sum, growth, years) = c[years]
  BY DEF Grown
<1> HIDE DEF next
<1>3. step \in [1..years -> [Int -> Int]] /\ \A n \in 1..years, x \in Int : step[n][x] = next(x)
  BY <1>1
<1> HIDE DEF step
<1>4. PICK f : Follows(f, years, Int, sum, step)
  BY <1>3, RecursionExists
<1>5. Eq(f)
  <2>1. f \in [0..years -> Int] /\ f[0] = sum
    BY <1>4 DEF Follows
  <2>2. \A n \in 1..years : f[n] = next(f[n - 1])
    <3>1. \A n \in 1..years : f[n] = step[n][f[n - 1]]
      BY <1>4 DEF Follows
    <3>2. \A n \in 1..years : f[n - 1] \in Int
      BY <2>1
    <3>3. QED
      BY <1>3, <3>1, <3>2
  <2>3. QED
    BY <2>1, <2>2
<1>6. Eq(c)
  BY <1>5
<1> HIDE DEF c
<1>7. c[0] = sum /\ \A n \in 1..years : c[n] = next(c[n - 1])
  BY <1>6
<1> DEFINE S == {n \in 0..years : c[n] \in Int}
<1>8. 0 \in S
  BY <1>7
<1>9. \A n \in 1..years : n - 1 \in S => n \in S
  BY <1>1, <1>7
<1> HIDE DEF S
<1>10. years \in S
  BY <1>8, <1>9, UpTo
<1>11. QED
  BY <1>2, <1>10 DEF S

\* The NOI of a year.
LEMMA NoiOfIsInteger ==
    ASSUME NEW d \in Inputs, NEW year \in Nat \ {0}
    PROVE  NoiOf(d, year) \in Int
<1>1. /\ d.price \in Int /\ d.down \in Int /\ d.closing \in Int /\ d.rent \in Int
      /\ d.opex \in Int /\ d.vacancy \in Int /\ d.rate \in DOMAIN YearlyPayment
      /\ d.rent_growth \in Int /\ d.expense_growth \in Int
  BY InputsAreNumbers
<1>2. GrossRent(d) \in Int /\ \A gross \in Int : Collected(d, gross) \in Int
  BY <1>1, MoneyIsInteger
<1>3. year - 1 \in Nat
  OBVIOUS
<1>4. /\ Grown(GrossRent(d), d.rent_growth, year - 1) \in Int
      /\ Grown(d.opex, d.expense_growth, year - 1) \in Int
  BY <1>1, <1>2, <1>3, GrownIsInteger
<1>5. QED
  BY <1>2, <1>4 DEF NoiOf

\* What the sale leaves.
LEMMA NetSaleIsInteger ==
    ASSUME NEW d \in Inputs
    PROVE  NetSale(d) \in Int
<1> DEFINE noi == NoiOf(d, HoldYears + 1)
           value == (noi * One) \div d.exit_cap
           cost == (value * d.selling) \div One
<1>1. noi \in Int
  <2>1. HoldYears + 1 \in Nat \ {0}
    BY GridAssumption
  <2>2. QED
    BY <2>1, NoiOfIsInteger
<1>2. d.exit_cap \in Nat /\ d.exit_cap > 0 /\ d.selling \in Int
  BY InputsAreNumbers
<1>3. NetSale(d) = value - cost - Loan(d)
  BY DEF NetSale
<1> HIDE DEF noi
<1>4. value \in Int
  <2>1. noi * One \in Int
    BY <1>1 DEF One
  <2>2. QED
    BY <1>2, <2>1, Division
<1> HIDE DEF value
<1>5. cost \in Int
  <2>1. value * d.selling \in Int
    BY <1>2, <1>4
  <2>2. QED
    BY <2>1, Division, Constants
<1> HIDE DEF cost
<1>6. Loan(d) \in Int
  <2>1. /\ d.price \in Int /\ d.down \in Int /\ d.closing \in Int /\ d.rent \in Int
        /\ d.opex \in Int /\ d.vacancy \in Int /\ d.rate \in DOMAIN YearlyPayment
    BY InputsAreNumbers
  <2>2. Loan(d) \in Nat
    BY <2>1, MoneyIsInteger
  <2>3. QED
    BY <2>2
<1>7. QED
  BY <1>3, <1>4, <1>5, <1>6

\* The flows of a deal: the outlay, then one integer a year.
LEMMA FlowsOfDeal ==
    ASSUME NEW d \in Inputs
    PROVE  /\ CashFlows(d) \in Seq(Int) /\ Len(CashFlows(d)) = HoldYears + 1
           /\ CashFlows(d)[1] = -InitialCash(d)
<1> DEFINE n == HoldYears + 1
           f == CashFlows(d)
           later(t) == NoiOf(d, t - 1) - DebtService(d) + (IF t = n THEN NetSale(d) ELSE 0)
<1>1. n \in Nat /\ n >= 1 /\ HoldYears \in Nat
  BY GridAssumption
<1>2. f = [t \in 1..n |-> IF t = 1 THEN -InitialCash(d) ELSE later(t)]
  BY DEF CashFlows
<1>3. InitialCash(d) \in Int /\ DebtService(d) \in Int
  <2>1. /\ d.price \in Int /\ d.down \in Int /\ d.closing \in Int /\ d.rent \in Int
        /\ d.opex \in Int /\ d.vacancy \in Int /\ d.rate \in DOMAIN YearlyPayment
    BY InputsAreNumbers
  <2>2. QED
    BY <2>1, MoneyIsInteger
<1>4. NetSale(d) \in Int
  BY NetSaleIsInteger
<1>5. \A t \in 1..n : t # 1 => later(t) \in Int
  <2>1. TAKE t \in 1..n
  <2>2. HAVE t # 1
  <2>3. t - 1 \in Nat \ {0}
    BY <1>1, <2>2
  <2>4. NoiOf(d, t - 1) \in Int
    BY <2>3, NoiOfIsInteger
  <2>5. QED
    BY <1>3, <1>4, <2>4
<1> HIDE DEF later, f, n
<1>6. f = [t \in 1..n |-> f[t]] /\ \A t \in 1..n : f[t] = IF t = 1 THEN -InitialCash(d) ELSE later(t)
  BY <1>2
<1>7. \A t \in 1..n : f[t] \in Int
  BY <1>3, <1>5, <1>6
<1>8. f[1] = -InitialCash(d)
  BY <1>1, <1>6
<1>9. f \in Seq(Int) /\ Len(f) = n
  BY <1>1, <1>6, <1>7, IntSequence
<1>10. QED
  BY <1>8, <1>9 DEF f, n

\* A product of signs is negative only when they differ.
LEMMA SignsDisagree == \A a, b \in {-1, 0, 1} : a * b < 0 => a * b <= 0 /\ ~(a < 0 /\ b < 0) /\ ~(a > 0 /\ b > 0)
OBVIOUS

\* Where an outlay is followed by no further one, the side of any rate on which a
\* bracket lies is told by the present value there.
LEMMA BracketIsOnItsSide ==
    ASSUME NEW flows \in Seq(Int), Len(flows) >= 1, flows[1] < 0,
           \A t \in DOMAIN flows : t > 1 => flows[t] >= 0,
           NEW b \in Brackets(flows), NEW zero \in Nat
    PROVE  /\ NpvSign(flows, b[1]) * NpvSign(flows, b[2]) <= 0
           /\ IF NpvSign(flows, zero) >= 0 THEN b[2] >= zero ELSE b[1] < zero
<1> DEFINE low == b[1]
           high == b[2]
           value(p) == NetPresentValue(flows, p)
           sl == NpvSign(flows, low)
           sh == NpvSign(flows, high)
           sz == NpvSign(flows, zero)
<1>1. low \in Nat /\ high \in Nat /\ low <= high /\ (sl * sh < 0 \/ (low = high /\ sl = 0))
  BY DEF Brackets, Encloses
<1>2. \A p, q \in Nat : p < q /\ value(p) <= 0 => value(q) < 0
  BY ValueFallsWithRate
<1>3. \A p \in Nat : /\ value(p) \in Int /\ NpvSign(flows, p) \in {-1, 0, 1}
                     /\ NpvSign(flows, p) > 0 <=> value(p) > 0
                     /\ NpvSign(flows, p) < 0 <=> value(p) < 0
  BY SignFacts
<1> HIDE DEF value
<1>4. /\ sl \in {-1, 0, 1} /\ sh \in {-1, 0, 1} /\ sz \in {-1, 0, 1}
      /\ value(low) \in Int /\ value(high) \in Int /\ value(zero) \in Int
      /\ (sl > 0 <=> value(low) > 0) /\ (sl < 0 <=> value(low) < 0)
      /\ (sh > 0 <=> value(high) > 0) /\ (sh < 0 <=> value(high) < 0)
      /\ (sz > 0 <=> value(zero) > 0) /\ (sz < 0 <=> value(zero) < 0)
  BY <1>1, <1>3
<1>5. /\ low < high /\ value(low) <= 0 => value(high) < 0
      /\ high < zero /\ value(high) <= 0 => value(zero) < 0
      /\ zero < low /\ value(zero) <= 0 => value(low) < 0
  BY <1>1, <1>2
<1>6. low = high => sl = sh
  OBVIOUS
<1> HIDE DEF low, high, sl, sh, sz
<1>7. sl * sh < 0 => ~(sl < 0 /\ sh < 0) /\ ~(sl > 0 /\ sh > 0) /\ sl * sh <= 0
  BY <1>4, SignsDisagree
<1>8. sl * sh <= 0
  <2>1. CASE sl = 0
    BY <1>4, <2>1
  <2>2. CASE sl # 0
    BY <1>1, <1>7, <2>2
  <2>3. QED
    BY <2>1, <2>2
<1>9. value(low) >= 0 /\ value(high) <= 0
  <2>1. CASE low = high /\ sl = 0
    <3>1. sl = 0 /\ sh = 0
      BY <1>6, <2>1
    <3>2. QED
      BY <1>4, <3>1
  <2>2. CASE sl * sh < 0
    <3>1. ~(sl < 0 /\ sh < 0) /\ ~(sl > 0 /\ sh > 0) /\ sl # 0 /\ sh # 0
      BY <1>4, <1>7, <2>2
    <3>2. low # high
      BY <1>4, <1>6, <3>1
    <3>3. ~(sl < 0)
      BY <1>1, <1>4, <1>5, <3>1, <3>2
    <3>4. QED
      BY <1>4, <3>1, <3>3
  <2>3. QED
    BY <1>1, <2>1, <2>2
<1>10. CASE sz >= 0
  <2>1. ~(high < zero)
    BY <1>4, <1>5, <1>9, <1>10
  <2>2. high >= zero
    BY <1>1, <2>1
  <2>3. QED
    BY <1>8, <1>10, <2>2 DEF high, sl, sh, sz, low
<1>11. CASE ~(sz >= 0)
  <2>1. value(zero) < 0
    BY <1>4, <1>11
  <2>2. low # zero
    BY <1>4, <1>9, <2>1
  <2>3. ~(zero < low)
    BY <1>4, <1>5, <1>9, <2>1
  <2>4. low < zero
    BY <1>1, <2>2, <2>3
  <2>5. QED
    BY <1>8, <1>11, <2>4 DEF low, sl, sh, sz, high
<1>12. QED
  BY <1>10, <1>11

\* underwriting.py: where an outlay is followed by no further one, the present
\* value changes its sign between the two ends of the reported rate of return,
\* on the side of zero that the sum of the flows says.
THEOREM IrrEnclosesRootHolds == DeskSpec => []IrrEnclosesRoot
<1>1. DeskInv => IrrEnclosesRoot
  <2>1. SUFFICES ASSUME DeskInv, request.kind = "underwrite", reply.status = "ok"
                 PROVE  IrrEnclosesRoot
    BY DEF IrrEnclosesRoot, Replied
  <2>2. Underwritten
    BY <2>1, KindsOfPhases DEF DeskInv
  <2>3. PICK deal \in Deals :
            /\ request = [kind |-> "underwrite", deal |-> deal]
            /\ reply = [status |-> "ok", result |-> Underwrite(deal)]
    BY <2>2 DEF Underwritten
  <2>4. deal \in Inputs /\ request.deal = deal /\ reply.result.irr = ProjectIrr(deal)
    BY <2>3, DealsAssumption DEF Underwrite
  <2> DEFINE flows == CashFlows(deal)
             irr == ProjectIrr(deal)
  <2>5. SUFFICES ASSUME irr # NoIrr, \A t \in DOMAIN flows : t > 1 => flows[t] >= 0
                 PROVE  /\ NpvSign(flows, irr[1]) * NpvSign(flows, irr[2]) <= 0
                        /\ IF NpvSign(flows, 3) >= 0 THEN irr[2] >= 3 ELSE irr[1] < 3
    <3> HIDE DEF flows, irr
    <3>1. QED
      BY <2>4 DEF IrrEnclosesRoot, flows, irr
  <2>6. InitialCash(deal) > 0 /\ irr = Irr(flows)
    BY <2>5 DEF ProjectIrr
  <2>7. flows \in Seq(Int) /\ Len(flows) = HoldYears + 1 /\ flows[1] = -InitialCash(deal)
    BY <2>4, FlowsOfDeal
  <2>8. Len(flows) >= 1 /\ flows[1] < 0
    <3>1. InitialCash(deal) \in Int
      <4>1. /\ deal.price \in Int /\ deal.down \in Int /\ deal.closing \in Int /\ deal.rent \in Int
            /\ deal.opex \in Int /\ deal.vacancy \in Int /\ deal.rate \in DOMAIN YearlyPayment
        BY <2>4, InputsAreNumbers
      <4>2. QED
        BY <4>1, MoneyIsInteger
    <3> HIDE DEF flows
    <3>2. QED
      BY <2>6, <2>7, <3>1, GridAssumption
  <2> HIDE DEF flows, irr
  <2>9. irr \in Brackets(flows)
    BY <2>5, <2>6, <2>7, IrrEncloses
  <2>10. 3 \in Nat
    OBVIOUS
  <2>11. QED
    BY <2>5, <2>7, <2>8, <2>9, <2>10, BracketIsOnItsSide
<1>2. QED
  BY <1>1, DeskInvHolds, PTL

--------------------------------------------------------------------------------
(****************************************************************************)
(* What is read out of text.                                                *)
(****************************************************************************)
\* Where a keyword is found, if it is.
LEMMA KeywordPositions ==
    ASSUME NEW text \in Seq(Tokens), NEW keyword
    PROVE  /\ FindKeyword(text, keyword) \in 0..Len(text)
           /\ FindKeyword(text, keyword) # 0 <=>
                 \E i \in DOMAIN text : text[i].kind = "phrase" /\ keyword \in KeywordsOf[text[i].phrase]
<1> DEFINE n == Len(text)
           I == {i \in 1..n : text[i].kind = "phrase" /\ keyword \in KeywordsOf[text[i].phrase]}
           first == IF I # {} THEN Min(I) ELSE 0
<1>1. n \in Nat /\ DOMAIN text = 1..n
  OBVIOUS
<1>2. FindKeyword(text, keyword) = first
  BY DEF FindKeyword, SelectInSeq
<1>3. I \in SUBSET (1..n)
  OBVIOUS
<1>4. I # {} <=> \E i \in 1..n : text[i].kind = "phrase" /\ keyword \in KeywordsOf[text[i].phrase]
  OBVIOUS
<1> HIDE DEF I, n
<1>5. first \in 0..n /\ (first # 0 <=> I # {})
  BY <1>1, <1>3, FirstPosition
<1> HIDE DEF first
<1>6. QED
  BY <1>1, <1>2, <1>4, <1>5 DEF n

\* A figure is one of a token of its kind.
StandsIn(figure, kind, text) == \E t \in Range(text) : t.kind = kind /\ t.figure = figure

\* Every figure of a list stands in the text.
AllStandIn(figures, kind, text) ==
    /\ \A k \in DOMAIN figures : StandsIn(figures[k], kind, text)
    /\ \E m \in Nat : DOMAIN figures = 1..m /\ figures = [k \in 1..m |-> figures[k]]

\* The figures found in a window of the text are of the text.
LEMMA FiguresStandInText ==
    ASSUME NEW text \in Seq(Tokens), NEW kind, NEW from \in Int, NEW to \in Int
    PROVE  AllStandIn(Figures(text, kind, from, to), kind, text)
<1> DEFINE low == IF from < 1 THEN 1 ELSE from
           high == IF to > Len(text) THEN Len(text) ELSE to
           part == SubSeq(text, low, high)
           K == {i \in DOMAIN part : part[i].kind = kind}
           tokens == Picked(part, K)
           figures == Figures(text, kind, from, to)
<1>1. low \in Int /\ high \in Int /\ low >= 1 /\ high <= Len(text) /\ Len(text) \in Nat
      /\ DOMAIN text = 1..Len(text)
  OBVIOUS
<1>2. figures = [k \in DOMAIN tokens |-> tokens[k].figure]
  BY DEF Figures, Where
<1> HIDE DEF low, high
<1>3. \A i \in low..high : i \in DOMAIN text /\ text[i] \in Tokens
  BY <1>1
<1>4. /\ part \in Seq(Tokens)
      /\ Len(part) = IF low <= high THEN high - low + 1 ELSE 0
      /\ \A i \in 1..(high - low + 1) : part[i] = text[low + i - 1]
  BY <1>1, <1>3, SubSeqProperties
<1> HIDE DEF part
<1>5. \A i \in DOMAIN part : part[i] \in Range(text)
  <2>1. TAKE i \in DOMAIN part
  <2>2. i \in 1..Len(part)
    BY <1>4
  <2>3. i \in 1..(high - low + 1) /\ low + i - 1 \in low..high
    BY <1>1, <1>4, <2>2
  <2>4. part[i] = text[low + i - 1] /\ low + i - 1 \in DOMAIN text
    BY <1>3, <1>4, <2>3
  <2>5. QED
    BY <2>4 DEF Range
<1>6. K \in SUBSET DOMAIN part /\ \A i \in K : i \in DOMAIN part /\ part[i].kind = kind
  OBVIOUS
<1> HIDE DEF K
<1>7. /\ Cardinality(K) \in Nat /\ DOMAIN tokens = 1..Cardinality(K)
      /\ \A n \in DOMAIN tokens : \E i \in K : tokens[n] = part[i]
  BY <1>4, <1>6, PickedFacts
<1> HIDE DEF tokens, figures
<1>8. ASSUME NEW k \in DOMAIN figures PROVE StandsIn(figures[k], kind, text)
  <2>1. k \in DOMAIN tokens /\ figures[k] = tokens[k].figure
    BY <1>2
  <2>2. PICK i \in K : tokens[k] = part[i]
    BY <1>7, <2>1
  <2>3. part[i] \in Range(text) /\ part[i].kind = kind /\ figures[k] = part[i].figure
    BY <1>5, <1>6, <2>1, <2>2
  <2>4. QED
    BY <2>3 DEF StandsIn
<1>9. DOMAIN figures = 1..Cardinality(K) /\ figures = [k \in 1..Cardinality(K) |-> figures[k]]
  <2>1. figures = [k \in 1..Cardinality(K) |-> tokens[k].figure]
    BY <1>2, <1>7
  <2>2. QED
    BY <2>1
<1>10. QED
  BY <1>7, <1>8, <1>9 DEF figures, AllStandIn

\* The figure near a keyword, or the mark that there is none.
NoneOrStanding(figure, kind, text) == figure = NoFigure \/ StandsIn(figure, kind, text)

\* The first keyword that finds a figure finds one of the text.
LEMMA FirstFoundIsFound ==
    ASSUME NEW keywords, Len(keywords) \in Nat, DOMAIN keywords = 1..Len(keywords), NEW kind, NEW text, NEW found,
           \A kw \in Range(keywords) : NoneOrStanding(found[kw], kind, text)
    PROVE  NoneOrStanding(FirstFound(keywords, found), kind, text)
<1> DEFINE n == Len(keywords)
           I == {i \in 1..n : found[keywords[i]] # NoFigure}
           first == IF I # {} THEN Min(I) ELSE 0
<1>1. n \in Nat /\ DOMAIN keywords = 1..n
  OBVIOUS
<1>2. FirstFound(keywords, found) = IF first = 0 THEN NoFigure ELSE found[keywords[first]]
  BY DEF FirstFound, SelectInSeq
<1>3. I \in SUBSET (1..n)
  OBVIOUS
<1> HIDE DEF I, n
<1>4. first \in 0..n
  BY <1>1, <1>3, FirstPosition
<1> HIDE DEF first
<1>5. CASE first = 0
  BY <1>2, <1>5 DEF NoneOrStanding
<1>6. CASE first # 0
  <2>1. first \in DOMAIN keywords
    BY <1>1, <1>4, <1>6
  <2>2. keywords[first] \in Range(keywords)
    BY <2>1 DEF Range
  <2>3. QED
    BY <1>2, <1>6, <2>2
<1>7. QED
  BY <1>5, <1>6

\* Head and last of figures, one list or two.
LEMMA EndsOfLists ==
    ASSUME NEW m \in Nat, NEW n \in Nat, NEW s, NEW t,
           DOMAIN s = 1..m, s = [k \in 1..m |-> s[k]], DOMAIN t = 1..n, t = [k \in 1..n |-> t[k]]
    PROVE  /\ s # <<>> => Head(s) = s[1] /\ 1 \in DOMAIN s
           /\ t # <<>> => Last(t) = t[n] /\ n \in DOMAIN t
           /\ s \o t # <<>> => s # <<>> \/ t # <<>>
<1>1. s \in Seq(Range(s)) /\ Len(s) = m
  BY SequenceOf DEF Range
<1>2. t \in Seq(Range(t)) /\ Len(t) = n
  BY SequenceOf DEF Range
<1>3. s # <<>> => Head(s) = s[1] /\ 1 \in DOMAIN s
  BY <1>1
<1>4. t # <<>> => Last(t) = t[n] /\ n \in DOMAIN t
  BY <1>2 DEF Last
<1>5. s = <<>> /\ t = <<>> => s \o t = <<>>
  BY ConcatEmptySeq
<1>6. QED
  BY <1>3, <1>4, <1>5

\* A percentage read after a keyword is one of the text.
LEMMA PctStandsInText ==
    ASSUME NEW text \in Seq(Tokens), NEW keywords, Len(keywords) \in Nat,
           DOMAIN keywords = 1..Len(keywords)
    PROVE  NoneOrStanding(FindPctAfter(text, keywords), "percent", text)
<1> DEFINE post(i) == Figures(text, "percent", i + 1, i + Window)
           pre(i) == Figures(text, "percent", i - Window, i - 1)
           near(i) == IF i = 0 \/ post(i) \o pre(i) = <<>> THEN NoFigure
                      ELSE IF post(i) # <<>> THEN Head(post(i)) ELSE Last(pre(i))
           found == [kw \in Range(keywords) |-> near(FindKeyword(text, kw))]
<1>1. FindPctAfter(text, keywords) = FirstFound(keywords, found)
  BY DEF FindPctAfter
<1>2. ASSUME NEW i \in Int
      PROVE  NoneOrStanding(near(i), "percent", text)
  <2> DEFINE s == post(i)
             t == pre(i)
  <2>1. i + 1 \in Int /\ i + Window \in Int /\ i - Window \in Int /\ i - 1 \in Int
    BY WindowAssumption
  <2>2. AllStandIn(s, "percent", text)
    BY <2>1, FiguresStandInText
  <2>3. AllStandIn(t, "percent", text)
    BY <2>1, FiguresStandInText
  <2>4. near(i) = IF i = 0 \/ s \o t = <<>> THEN NoFigure
                  ELSE IF s # <<>> THEN Head(s) ELSE Last(t)
    OBVIOUS
  <2> HIDE DEF s, t, near
  <2>5. PICK m \in Nat : DOMAIN s = 1..m /\ s = [k \in 1..m |-> s[k]]
    BY <2>2 DEF AllStandIn
  <2>6. PICK n \in Nat : DOMAIN t = 1..n /\ t = [k \in 1..n |-> t[k]]
    BY <2>3 DEF AllStandIn
  <2>7. /\ s # <<>> => Head(s) = s[1] /\ 1 \in DOMAIN s
        /\ t # <<>> => Last(t) = t[n] /\ n \in DOMAIN t
        /\ s \o t # <<>> => s # <<>> \/ t # <<>>
    BY <2>5, <2>6, EndsOfLists
  <2>8. CASE i = 0 \/ s \o t = <<>>
    BY <2>4, <2>8 DEF NoneOrStanding
  <2>9. CASE ~(i = 0 \/ s \o t = <<>>) /\ s # <<>>
    BY <2>2, <2>4, <2>7, <2>9 DEF NoneOrStanding, AllStandIn
  <2>10. CASE ~(i = 0 \/ s \o t = <<>>) /\ ~(s # <<>>)
    BY <2>3, <2>4, <2>7, <2>10 DEF NoneOrStanding, AllStandIn
  <2>11. QED
    BY <2>8, <2>9, <2>10
<1> HIDE DEF near
<1>3. \A kw \in Range(keywords) : NoneOrStanding(found[kw], "percent", text)
  <2>1. TAKE kw \in Range(keywords)
  <2>2. FindKeyword(text, kw) \in Int
    <3>1. FindKeyword(text, kw) \in 0..Len(text)
      BY KeywordPositions
    <3>2. QED
      BY <3>1
  <2>3. QED
    BY <1>2, <2>2
<1> HIDE DEF found
<1>4. QED
  BY <1>1, <1>3, FirstFoundIsFound

\* The first figure of a window is one of the text.
LEMMA HeadStandsInText ==
    ASSUME NEW text \in Seq(Tokens), NEW from \in Int, NEW to \in Int
    PROVE  LET years == Figures(text, "years", from, to)
           IN  years # <<>> => StandsIn(Head(years), "years", text)
<1> DEFINE s == Figures(text, "years", from, to)
<1>1. AllStandIn(s, "years", text)
  BY FiguresStandInText
<1> HIDE DEF s
<1>2. PICK m \in Nat : DOMAIN s = 1..m /\ s = [k \in 1..m |-> s[k]]
  BY <1>1 DEF AllStandIn
<1>3. s # <<>> => Head(s) = s[1] /\ 1 \in DOMAIN s
  BY <1>2, EndsOfLists
<1>4. QED
  BY <1>1, <1>3 DEF s, AllStandIn

\* A number of years read near a keyword is one of the text.
LEMMA YearsStandInText ==
    ASSUME NEW text \in Seq(Tokens), NEW keywords, Len(keywords) \in Nat,
           DOMAIN keywords = 1..Len(keywords)
    PROVE  NoneOrStanding(FindYearCount(text, keywords), "years", text)
<1> DEFINE years(i) == Figures(text, "years", i - Window, i + Window)
           near(i) == IF i = 0 \/ years(i) = <<>> THEN NoFigure ELSE Head(years(i))
           found == [kw \in Range(keywords) |-> near(FindKeyword(text, kw))]
<1>1. FindYearCount(text, keywords) = FirstFound(keywords, found)
  BY DEF FindYearCount
<1>2. ASSUME NEW i \in Int
      PROVE  NoneOrStanding(near(i), "years", text)
  <2>1. i - Window \in Int /\ i + Window \in Int
    BY WindowAssumption
  <2>2. years(i) # <<>> => StandsIn(Head(years(i)), "years", text)
    BY <2>1, HeadStandsInText
  <2> HIDE DEF years
  <2>3. QED
    BY <2>2 DEF NoneOrStanding
<1> HIDE DEF near
<1>3. \A kw \in Range(keywords) : NoneOrStanding(found[kw], "years", text)
  <2>1. TAKE kw \in Range(keywords)
  <2>2. FindKeyword(text, kw) \in Int
    <3>1. FindKeyword(text, kw) \in 0..Len(text)
      BY KeywordPositions
    <3>2. QED
      BY <3>1
  <2>3. QED
    BY <1>2, <2>2
<1> HIDE DEF found
<1>4. QED
  BY <1>1, <1>3, FirstFoundIsFound

\* The years to hold are of the text, or none.
LEMMA HoldYearsStandInText ==
    ASSUME NEW text \in Seq(Tokens)
    PROVE  NoneOrStanding(FindHoldYears(text), "years", text)
<1> DEFINE close == FindYearCount(text, <<"hold", "horizon", "flip">>)
           years == Figures(text, "years", 1, Len(text))
           mentioned == Mentions(text, <<"flip", "hold", "exit", "sell">>)
<1>1. NoneOrStanding(close, "years", text)
  <2> DEFINE keywords == <<"hold", "horizon", "flip">>
  <2>1. Len(keywords) \in Nat /\ DOMAIN keywords = 1..Len(keywords)
    OBVIOUS
  <2>2. QED
    BY <2>1, YearsStandInText
<1>2. years # <<>> => StandsIn(Head(years), "years", text)
  <2>1. 1 \in Int /\ Len(text) \in Int
    OBVIOUS
  <2>2. QED
    BY <2>1, HeadStandsInText
<1>3. FindHoldYears(text) = IF close # NoFigure THEN close
                            ELSE IF mentioned /\ years # <<>> THEN Head(years) ELSE NoFigure
  BY DEF FindHoldYears
<1> HIDE DEF close, years, mentioned
<1>4. QED
  BY <1>1, <1>2, <1>3 DEF NoneOrStanding

\* In no text nothing stands.
LEMMA NothingStandsInNoText ==
    ASSUME NEW figure, NEW kind, NoneOrStanding(figure, kind, <<>>)
    PROVE  figure = NoFigure
BY DEF NoneOrStanding, StandsIn, Range

\* The figures of a text, and those that stand for what it leaves out.
LEMMA StatedFigures ==
    ASSUME NEW text \in Seq(Tokens)
    PROVE  LET a == StatedAssumptions(text)
           IN  /\ a.rent_growth = 30 \/ StandsIn(a.rent_growth, "percent", text)
               /\ a.expense_growth = 25 \/ StandsIn(a.expense_growth, "percent", text)
               /\ a.vacancy_rate = 50 \/ StandsIn(a.vacancy_rate, "percent", text)
               /\ a.exit_cap_rate = 70 \/ StandsIn(a.exit_cap_rate, "percent", text)
               /\ a.loan_rate_outlook = NoFigure \/ StandsIn(a.loan_rate_outlook, "percent", text)
               /\ a.hold_period_years = 10 \/ StandsIn(a.hold_period_years, "years", text)
<1> DEFINE a == StatedAssumptions(text)
           rents == <<"rent growth", "rents grow", "rents rise">>
           expenses == <<"expense growth", "opex growth", "expenses grow">>
           caps == <<"exit cap", "cap rate">>
           rates == <<"loan rate", "mortgage rate", "rates rise to", "rates at">>
           pct(keywords) == FindPctAfter(text, keywords)
           years == FindHoldYears(text)
           vacancy == <<"vacancy">>
           Listed(keywords) == Len(keywords) \in Nat /\ DOMAIN keywords = 1..Len(keywords)
<1>1. Listed(rents) /\ Listed(expenses) /\ Listed(vacancy) /\ Listed(caps) /\ Listed(rates)
  OBVIOUS
<1>2. /\ a.rent_growth = Or(pct(rents), 30)
      /\ a.expense_growth = Or(pct(expenses), 25)
      /\ a.vacancy_rate = Or(pct(vacancy), 50)
      /\ a.exit_cap_rate = Or(pct(caps), 70)
      /\ a.loan_rate_outlook = pct(rates)
      /\ a.hold_period_years = IF years > 0 THEN years ELSE 10
  BY DEF StatedAssumptions
<1>3. \A keywords : Listed(keywords) => NoneOrStanding(pct(keywords), "percent", text)
  BY PctStandsInText
<1>4. NoneOrStanding(years, "years", text)
  BY HoldYearsStandInText
<1> HIDE DEF a, rents, expenses, vacancy, caps, rates, pct, years, Listed
<1>5. \A default, figure : NoneOrStanding(figure, "percent", text) =>
          Or(figure, default) = default \/ StandsIn(Or(figure, default), "percent", text)
  BY DEF NoneOrStanding, Or
<1>6. a.rent_growth = 30 \/ StandsIn(a.rent_growth, "percent", text)
  BY <1>1, <1>2, <1>3, <1>5
<1>7. a.expense_growth = 25 \/ StandsIn(a.expense_growth, "percent", text)
  BY <1>1, <1>2, <1>3, <1>5
<1>8. a.vacancy_rate = 50 \/ StandsIn(a.vacancy_rate, "percent", text)
  BY <1>1, <1>2, <1>3, <1>5
<1>9. a.exit_cap_rate = 70 \/ StandsIn(a.exit_cap_rate, "percent", text)
  BY <1>1, <1>2, <1>3, <1>5
<1>10. a.loan_rate_outlook = NoFigure \/ StandsIn(a.loan_rate_outlook, "percent", text)
  BY <1>1, <1>2, <1>3 DEF NoneOrStanding
<1>11. a.hold_period_years = 10 \/ StandsIn(a.hold_period_years, "years", text)
  <2>1. years = NoFigure => ~(years > 0)
    BY DEF NoFigure
  <2>2. QED
    BY <1>2, <1>4, <2>1 DEF NoneOrStanding
<1>12. QED
  BY <1>6, <1>7, <1>8, <1>9, <1>10, <1>11 DEF a

\* The figures of the default profile.
LEMMA DefaultFigures ==
    LET a == DefaultStrategyProfile.assumptions
    IN  /\ a = StatedAssumptions(<<>>)
        /\ a.rent_growth = 30 /\ a.expense_growth = 25 /\ a.vacancy_rate = 50
        /\ a.exit_cap_rate = 70 /\ a.loan_rate_outlook = NoFigure /\ a.hold_period_years = 10
<1> DEFINE a == StatedAssumptions(<<>>)
<1>1. DefaultStrategyProfile.assumptions = a
  BY DEF DefaultStrategyProfile, StatedProfile
<1>2. <<>> \in Seq(Tokens)
  OBVIOUS
<1>3. \A figure, kind : ~StandsIn(figure, kind, <<>>)
  BY DEF StandsIn, Range
<1>4. /\ a.rent_growth = 30 /\ a.expense_growth = 25 /\ a.vacancy_rate = 50
      /\ a.exit_cap_rate = 70 /\ a.loan_rate_outlook = NoFigure /\ a.hold_period_years = 10
  BY <1>2, <1>3, StatedFigures
<1>5. QED
  BY <1>1, <1>4

\* The entries of the blocks are those of every tool call.
LEMMA EntriesOfBlocks ==
    ASSUME NEW blocks \in Seq(Blocks)
    PROVE  /\ Entries(blocks) \in Seq(ChatEntries)
           /\ \A block \in Range(blocks) : block.kind = "tool" =>
                 \A entry \in Range(block.entries) : entry \in Range(Entries(blocks))
           /\ \A entry \in Range(Entries(blocks)) :
                 \E block \in Range(blocks) : block.kind = "tool" /\ entry \in Range(block.entries)
<1> DEFINE n == Len(blocks)
           lists == [k \in DOMAIN blocks |->
                        IF blocks[k].kind = "tool" THEN blocks[k].entries ELSE <<>>]
<1>1. n \in Nat /\ DOMAIN blocks = 1..n /\ \A k \in 1..n : blocks[k] \in Blocks
  OBVIOUS
<1>2. Entries(blocks) = Joined(lists)
  BY DEF Entries
<1> HIDE DEF n
<1>3. /\ lists = [k \in 1..n |-> lists[k]]
      /\ \A k \in 1..n : lists[k] = IF blocks[k].kind = "tool" THEN blocks[k].entries ELSE <<>>
  BY <1>1
<1>4. \A k \in 1..n : blocks[k].entries \in Seq(ChatEntries)
  BY <1>1 DEF Blocks
<1>5. <<>> \in Seq(ChatEntries)
  OBVIOUS
<1> HIDE DEF lists
<1>6. \A k \in 1..n : lists[k] \in Seq(ChatEntries)
  BY <1>3, <1>4, <1>5
<1>7. lists \in Seq(Seq(ChatEntries))
  <2> DEFINE T == Seq(ChatEntries)
  <2>1. \A k \in 1..n : lists[k] \in T
    BY <1>6
  <2> HIDE DEF T
  <2>2. lists \in Seq(T)
    BY <1>1, <1>3, <2>1, SequenceOf
  <2>3. QED
    BY <2>2 DEF T
<1>8. DOMAIN lists = 1..n
  BY <1>3
<1>9. /\ Joined(lists) \in Seq(ChatEntries)
      /\ \A x : x \in Range(Joined(lists)) <=> \E k \in DOMAIN lists : x \in Range(lists[k])
  BY <1>7, JoinedRange
<1>10. ASSUME NEW block \in Range(blocks), block.kind = "tool", NEW entry \in Range(block.entries)
       PROVE  entry \in Range(Joined(lists))
  <2>1. PICK k \in 1..n : block = blocks[k]
    BY <1>1 DEF Range
  <2>2. lists[k] = block.entries /\ k \in DOMAIN lists
    BY <1>3, <1>8, <1>10, <2>1
  <2>3. entry \in Range(lists[k])
    BY <1>10, <2>2
  <2>4. QED
    BY <1>9, <2>2, <2>3
<1>11. ASSUME NEW entry \in Range(Joined(lists))
       PROVE  \E block \in Range(blocks) : block.kind = "tool" /\ entry \in Range(block.entries)
  <2>1. PICK k \in 1..n : entry \in Range(lists[k])
    BY <1>8, <1>9
  <2>2. Range(<<>>) = {}
    BY DEF Range
  <2>3. blocks[k].kind = "tool" /\ lists[k] = blocks[k].entries
    BY <1>3, <2>1, <2>2
  <2>4. blocks[k] \in Range(blocks)
    BY <1>1 DEF Range
  <2>5. QED
    BY <2>1, <2>3, <2>4
<1>12. QED
  BY <1>2, <1>9, <1>10, <1>11

\* What fails an extraction.
LEMMA RaisingEntry ==
    ASSUME NEW blocks \in Seq(Blocks), ExtractionRaises(blocks)
    PROVE  \E block \in Range(blocks) :
               \/ block.kind = "null_tool"
               \/ /\ block.kind = "tool"
                  /\ \E entry \in Range(block.entries) :
                        /\ entry.object
                        /\ ~entry.text \/ (entry.address # "" /\ entry.financials = "refused")
<1>1. CASE \E block \in Range(blocks) : block.kind = "null_tool"
  BY <1>1
<1>2. CASE \E entry \in Range(Entries(blocks)) : RaisesInCoercion(entry)
  <2>1. PICK entry \in Range(Entries(blocks)) : RaisesInCoercion(entry)
    BY <1>2
  <2>2. /\ entry.object
        /\ ~entry.text \/ (entry.address # "" /\ entry.financials = "refused")
    BY <2>1 DEF RaisesInCoercion, CoercibleAddress
  <2>3. PICK block \in Range(blocks) : block.kind = "tool" /\ entry \in Range(block.entries)
    BY EntriesOfBlocks
  <2>4. QED
    BY <2>2, <2>3
<1>3. QED
  BY <1>1, <1>2 DEF ExtractionRaises

\* No entry that the import takes is lost.
LEMMA HoldingsAreOfAllCalls ==
    ASSUME NEW blocks \in Seq(Blocks), NEW block \in Range(blocks), block.kind = "tool",
           NEW entry \in Range(block.entries), entry.object, entry.text, entry.address # "",
           entry.zip = "text"
    PROVE  entry \in Range(ExtractHoldings(blocks))
<1> DEFINE all == Entries(blocks)
           K == {i \in DOMAIN all : CoercibleAddress(all[i]) /\ all[i].zip = "text"}
           picked == Picked(all, K)
           T == ChatEntries
<1>1. ExtractHoldings(blocks) = picked
  BY DEF ExtractHoldings, Where
<1>2. all \in Seq(T) /\ entry \in Range(all)
  BY EntriesOfBlocks
<1> HIDE DEF all, T
<1>3. PICK i \in DOMAIN all : entry = all[i]
  BY <1>2 DEF Range
<1>4. i \in K
  BY <1>3 DEF CoercibleAddress
<1>5. K \in SUBSET DOMAIN all
  OBVIOUS
<1> HIDE DEF K
<1>6. all[i] \in Range(picked)
  BY <1>2, <1>4, <1>5, PickedRange
<1>7. QED
  BY <1>1, <1>3, <1>6

\* Protection is mentioned when one of its words is.
LEMMA ProtectionIsSaid ==
    ASSUME NEW text \in Seq(Tokens)
    PROVE  Mentions(text, ProtectionWords) <=>
               \E t \in Range(text) : t.kind = "phrase" /\
                   KeywordsOf[t.phrase] \cap Range(ProtectionWords) # {}
<1>1. \A keyword : FindKeyword(text, keyword) # 0 <=>
          \E i \in DOMAIN text : text[i].kind = "phrase" /\ keyword \in KeywordsOf[text[i].phrase]
  BY KeywordPositions
<1>2. Mentions(text, ProtectionWords) <=>
          \E kw \in Range(ProtectionWords) : FindKeyword(text, kw) # 0
  BY DEF Mentions
<1> DEFINE words == Range(ProtectionWords)
<1> HIDE DEF words
<1>3. (\E kw \in words : FindKeyword(text, kw) # 0) <=>
          \E i \in DOMAIN text : text[i].kind = "phrase" /\ KeywordsOf[text[i].phrase] \cap words # {}
  BY <1>1
<1>4. (\E i \in DOMAIN text : text[i].kind = "phrase" /\ KeywordsOf[text[i].phrase] \cap words # {})
        <=> \E t \in Range(text) : t.kind = "phrase" /\ KeywordsOf[t.phrase] \cap words # {}
  BY DEF Range
<1>5. QED
  BY <1>2, <1>3, <1>4 DEF words

\* What a text is read as.
ReadWhole(text, investor) ==
    LET stated == investor.assumptions
        default == DefaultStrategyProfile.assumptions
        said(name, kind) ==
            \/ stated[name] = default[name]
            \/ \E t \in Range(text) : t.kind = kind /\ t.figure = stated[name]
    IN  /\ stated.hold_period_years \in 1..50 /\ stated.exit_cap_rate \in 1..500
        /\ stated.vacancy_rate \in 0..1000
        /\ stated.rent_growth \in -500..500 /\ stated.expense_growth \in -500..500
        /\ \/ investor = DefaultStrategyProfile
           \/ /\ said("hold_period_years", "years")
              /\ \A name \in DOMAIN stated \ {"hold_period_years"} : said(name, "percent")
              /\ investor.policy_config.tenant_protection <=>
                    \E t \in Range(text) : t.kind = "phrase" /\
                        KeywordsOf[t.phrase] \cap Range(ProtectionWords) # {}

\* A profile is valid, and its figures are of the text or the default.
LEMMA TextIsReadWhole ==
    ASSUME NEW text \in Seq(Tokens)
    PROVE  ReadWhole(text, ExtractStrategyProfile(text))
<1> DEFINE investor == ExtractStrategyProfile(text)
           stated == investor.assumptions
           default == DefaultStrategyProfile.assumptions
           said(name, kind) ==
               \/ stated[name] = default[name]
               \/ \E t \in Range(text) : t.kind = kind /\ t.figure = stated[name]
<1>1. /\ default.rent_growth = 30 /\ default.expense_growth = 25 /\ default.vacancy_rate = 50
      /\ default.exit_cap_rate = 70 /\ default.loan_rate_outlook = NoFigure
      /\ default.hold_period_years = 10
  BY DefaultFigures, SMTT(60)
<1>2. CASE text # <<>> /\ ValidAssumptions(StatedAssumptions(text))
  <2>1. investor = StatedProfile(text)
    BY <1>2 DEF ExtractStrategyProfile
  <2>2. stated = StatedAssumptions(text)
        /\ investor.policy_config.tenant_protection = Mentions(text, ProtectionWords)
    BY <2>1 DEF StatedProfile
  <2> HIDE DEF investor, default
  <2>3. /\ stated.hold_period_years \in 1..50 /\ stated.exit_cap_rate \in 1..500
        /\ stated.vacancy_rate \in 0..1000
        /\ stated.rent_growth \in -500..500 /\ stated.expense_growth \in -500..500
    BY <1>2, <2>2 DEF ValidAssumptions
  <2>4. /\ stated.rent_growth = 30 \/ StandsIn(stated.rent_growth, "percent", text)
        /\ stated.expense_growth = 25 \/ StandsIn(stated.expense_growth, "percent", text)
        /\ stated.vacancy_rate = 50 \/ StandsIn(stated.vacancy_rate, "percent", text)
        /\ stated.exit_cap_rate = 70 \/ StandsIn(stated.exit_cap_rate, "percent", text)
        /\ stated.loan_rate_outlook = NoFigure
             \/ StandsIn(stated.loan_rate_outlook, "percent", text)
        /\ stated.hold_period_years = 10 \/ StandsIn(stated.hold_period_years, "years", text)
    BY <2>2, StatedFigures
  <2>5. DOMAIN stated = {"rent_growth", "expense_growth", "vacancy_rate", "hold_period_years",
                         "exit_cap_rate", "loan_rate_outlook"}
    BY <2>2 DEF StatedAssumptions
  <2> HIDE DEF stated
  <2>6. said("hold_period_years", "years")
    BY <1>1, <2>4 DEF StandsIn
  <2>7. \A name \in DOMAIN stated \ {"hold_period_years"} : said(name, "percent")
    <3>1. /\ said("rent_growth", "percent") /\ said("expense_growth", "percent")
          /\ said("vacancy_rate", "percent")
      BY <1>1, <2>4 DEF StandsIn
    <3>2. said("exit_cap_rate", "percent") /\ said("loan_rate_outlook", "percent")
      BY <1>1, <2>4 DEF StandsIn
    <3> HIDE DEF said
    <3>3. QED
      BY <2>5, <3>1, <3>2
  <2>8. investor.policy_config.tenant_protection <=>
            \E t \in Range(text) : t.kind = "phrase" /\
                KeywordsOf[t.phrase] \cap Range(ProtectionWords) # {}
    BY <2>2, ProtectionIsSaid
  <2> HIDE DEF said
  <2>9. QED
    BY <2>3, <2>6, <2>7, <2>8, ZenonT(60) DEF ReadWhole, said, investor, stated, default
<1>3. CASE ~(text # <<>> /\ ValidAssumptions(StatedAssumptions(text)))
  <2>1. investor = DefaultStrategyProfile
    BY <1>3 DEF ExtractStrategyProfile
  <2>2. stated = default
    BY <2>1
  <2> HIDE DEF investor, default, stated
  <2>3. /\ stated.hold_period_years \in 1..50 /\ stated.exit_cap_rate \in 1..500
        /\ stated.vacancy_rate \in 0..1000
        /\ stated.rent_growth \in -500..500 /\ stated.expense_growth \in -500..500
    BY <1>1, <2>2, SMTT(60)
  <2>4. QED
    BY <2>1, <2>3 DEF ReadWhole, investor, stated, default
<1>4. QED
  BY <1>2, <1>3

\* strategy_profile.py and portfolio_chat_extractor.py: a profile is the
\* default as a whole or has every figure from the text and the protection it
\* asks for, and the holdings of a chat are those of all its tool calls, unless a
\* list is null or an entry's figures or address fail the whole chat.
THEOREM TextsAreReadWholeOrNotAtAllHolds == DeskSpec => []TextsAreReadWholeOrNotAtAll
<1>1. DeskInv => TextsAreReadWholeOrNotAtAll
  <2>1. ASSUME DeskInv, request.kind = "extract"
        PROVE  \E text \in Seq(Tokens) :
                   request.text = text /\ reply.profile = ExtractStrategyProfile(text)
    <3>1. Extracted
      BY <2>1, KindsOfPhases DEF DeskInv
    <3>2. PICK text \in Texts :
              /\ request = [kind |-> "extract", text |-> text]
              /\ reply = [status |-> "ok", profile |-> ExtractStrategyProfile(text)]
      BY <3>1 DEF Extracted
    <3>3. QED
      BY <3>2, TextsAssumption
  <2>2. ASSUME DeskInv, request.kind = "chat", reply.status = "ok"
        PROVE  \E blocks \in Seq(Blocks) :
                   request.blocks = blocks /\ reply.holdings = ExtractHoldings(blocks)
    <3>1. Chatted
      BY <2>2, KindsOfPhases DEF DeskInv
    <3>2. PICK messages, blocks :
              /\ blocks \in ModelReplies
              /\ request = [kind |-> "chat", messages |-> messages, blocks |-> blocks]
              /\ reply = [status |-> "ok", holdings |-> ExtractHoldings(blocks)]
      BY <2>2, <3>1, WaitingIsNoReply DEF Chatted
    <3>3. QED
      BY <3>2, RepliesAssumption
  <2>3. ASSUME DeskInv, request.kind = "chat", reply = Error, "blocks" \in DOMAIN request
        PROVE  \E blocks \in Seq(Blocks) : request.blocks = blocks /\ ExtractionRaises(blocks)
    <3>1. Chatted
      BY <2>3, KindsOfPhases DEF DeskInv
    <3>2. PICK messages, blocks :
              /\ blocks \in ModelReplies
              /\ request = [kind |-> "chat", messages |-> messages, blocks |-> blocks]
              /\ ExtractionRaises(blocks)
      BY <2>3, <3>1, WaitingIsNoReply, SMTT(60) DEF Chatted
    <3>3. QED
      BY <3>2, RepliesAssumption
  <2>4. SUFFICES ASSUME DeskInv, reply.status = "ok" \/ reply = Error
                 PROVE  TextsAreReadWholeOrNotAtAll
    BY ZenonT(60) DEF TextsAreReadWholeOrNotAtAll, Replied
  <2>5. CASE reply = Error
    <3>1. reply.status # "ok"
      BY <2>5, WaitingIsNoReply, SMTT(60)
    <3>2. CASE request.kind = "chat" /\ "blocks" \in DOMAIN request
      <4>1. PICK blocks \in Seq(Blocks) : request.blocks = blocks /\ ExtractionRaises(blocks)
        BY <2>4, <2>3, <2>5, <3>2
      <4>2. \E block \in Range(blocks) :
               \/ block.kind = "null_tool"
               \/ /\ block.kind = "tool"
                  /\ \E entry \in Range(block.entries) :
                        /\ entry.object
                        /\ ~entry.text \/ (entry.address # "" /\ entry.financials = "refused")
        BY <4>1, RaisingEntry, ZenonT(60)
      <4>3. QED
        BY <3>1, <4>1, <4>2 DEF TextsAreReadWholeOrNotAtAll, Replied
    <3>3. QED
      BY <3>1, <3>2 DEF TextsAreReadWholeOrNotAtAll, Replied
  <2>6. CASE request.kind = "extract" /\ reply.status = "ok"
    <3>1. PICK text \in Seq(Tokens) :
              request.text = text /\ reply.profile = ExtractStrategyProfile(text)
      BY <2>1, <2>4, <2>6
    <3>2. request.kind # "chat"
      BY <2>6
    <3>3. ReadWhole(request.text, reply.profile)
      BY <3>1, TextIsReadWhole
    <3>4. QED
      BY <3>2, <3>3, ZenonT(60) DEF TextsAreReadWholeOrNotAtAll, Replied, ReadWhole
  <2>7. CASE request.kind = "chat" /\ reply.status = "ok"
    <3>0. reply # Error
      BY <2>7, WaitingIsNoReply
    <3>1. PICK blocks \in Seq(Blocks) :
              request.blocks = blocks /\ reply.holdings = ExtractHoldings(blocks)
      BY <2>2, <2>4, <2>7
    <3>2. request.kind # "extract"
      BY <2>7
    <3>3. \A block \in Range(blocks) : block.kind = "tool" =>
              \A entry \in Range(block.entries) :
                  entry.object /\ entry.text /\ entry.address # "" /\ entry.zip = "text" =>
                      entry \in Range(ExtractHoldings(blocks))
      BY HoldingsAreOfAllCalls
    <3>4. QED
      BY <3>0, <3>1, <3>2, <3>3 DEF TextsAreReadWholeOrNotAtAll, Replied
  <2>8. QED
    BY <2>4, <2>6, <2>7, <2>5, WaitingIsNoReply DEF TextsAreReadWholeOrNotAtAll, Replied
<1>2. QED
  BY <1>1, DeskInvHolds, PTL
================================================================================
