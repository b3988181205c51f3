---------------------------- MODULE StrategyPipeline ----------------------------
(****************************************************************************)
(* What the stages of a strategy run compute: the portfolio summary         *)
(* (services/portfolio_summary.py), its projection under the user's profile *)
(* (services/strategy_runner.py) and the reconciliation of the two          *)
(* (services/unified_report.py).  StrategyRun has their order and failures; *)
(* the recommendation of today is HoldingAdvice's.                          *)
(*                                                                          *)
(* Money is in units of 100,000 yen, flows per year; factors are in         *)
(* thousandths and compound with rounding.                                  *)
(****************************************************************************)
EXTENDS Depreciation, Series

CONSTANTS
    Holdings,     \* what the user may hold, each with its advice of today
    Profiles,     \* what the profile may be
    MaxHoldings   \* bound on the size of the portfolio

ASSUME MaxHoldingsAssumption == MaxHoldings \in Nat

Actions == {"HOLD", "RAISE_RENT", "REFI", "SELL", "IMPROVE"}
Whole == 1000

ASSUME HoldingsAssumption ==
    Holdings \subseteq [known: BOOLEAN, value: Nat, rent: Nat, vacancy: 0..Whole, costs: Nat,
                        debt: Nat, loan: Nat, today: Actions,
                        building: [life: StatutoryLives \cup {0}, age: Nat, basis: Nat]]

ASSUME ProfilesAssumption ==
    Profiles \subseteq [rent_growth: -500..500, expense_growth: -500..500, horizon: 1..50,
                        exit_cap: 1..500, tax: 0..Whole, outlook: {"bullish", "neutral", "bearish"},
                        refi: BOOLEAN, protection: BOOLEAN, raise: BOOLEAN]

VARIABLES
    portfolio,    \* the holdings, oldest first
    profile,      \* the profile of the run
    stage,        \* how far the run is
    analysis, simulation, report    \* what the stages returned

vars == <<portfolio, profile, stage, analysis, simulation, report>>

Reported == stage = "reported"
Simulated == stage = "simulated" \/ Reported
Analysed == stage = "analysed" \/ Simulated

Init ==
    /\ portfolio = <<>> /\ profile \in Profiles /\ stage = "editing"
    /\ analysis = <<>> /\ simulation = <<>> /\ report = <<>>
--------------------------------------------------------------------------------
(****************************************************************************)
(* Summary.  A holding that is not known has no financials row; a value of  *)
(* 0 stands for none as well.                                               *)
(****************************************************************************)
NOI(h) == (h.rent * (Whole - h.vacancy)) \div Whole - h.costs

\* _per_holding_metrics and _derive_depreciation_inputs (life 0: no building; the
\* basis comes from the financials).
SummaryRow(h) ==
    [known |-> h.known, value |-> IF h.known THEN h.value ELSE 0,
     noi |-> IF h.known THEN NOI(h) ELSE 0,
     cash_flow |-> IF h.known THEN NOI(h) - h.debt ELSE 0,
     today |-> h.today,
     building |-> IF h.known THEN h.building ELSE [h.building EXCEPT !.basis = 0]]

\* What a holding adds to a sum over those that have a financials row.
IfKnown(h, amount) == IF h.known THEN amount ELSE 0

\* weighted_dscr over the holdings that pay a debt, as a pair of sums.
Coverage(holdings, noi(_)) ==
    LET paying(h) == h.known /\ h.debt > 0
    IN  [noi |-> Total(holdings, LAMBDA h : IF paying(h) THEN noi(h) ELSE 0),
         debt |-> Total(holdings, LAMBDA h : IF paying(h) THEN h.debt ELSE 0)]

\* A row with a cap rate: its value is there and positive.
Valued(row) == row.known /\ row.value > 0

BuildPortfolioSummary(holdings) ==
    LET rows == [i \in DOMAIN holdings |-> SummaryRow(holdings[i])]
        value == Total(rows, LAMBDA row : row.value)
    IN  [rows |-> rows,
         value |-> value,
         equity |-> value - Total(holdings, LAMBDA h : IfKnown(h, h.loan)),
         noi |-> Total(rows, LAMBDA row : row.noi),
         cash_flow |-> Total(rows, LAMBDA row : row.cash_flow),
         coverage |-> Coverage(holdings, LAMBDA h : SummaryRow(h).noi)]

\* Mutant: a holding without a value is taken for one without financials.
PortfolioAggregate_SkipsUnvalued(holdings) ==
    LET known(h, amount) == IF h.known /\ h.value > 0 THEN amount ELSE 0
        value == Total(holdings, LAMBDA h : known(h, h.value))
        noi == Total(holdings, LAMBDA h : known(h, NOI(h)))
    IN  [value |-> value,
         equity |-> value - Total(holdings, LAMBDA h : known(h, h.loan)),
         noi |-> noi,
         cash_flow |-> noi - Total(holdings, LAMBDA h : known(h, h.debt)),
         coverage |-> Coverage(holdings, NOI)]

\* portfolio_aggregate (api/portfolio.py), the same figures for the holdings tab:
\* the debt service is taken from the sum, not from each holding.
PortfolioAggregate(holdings) ==
    LET value == Total(holdings, LAMBDA h : IfKnown(h, h.value))
        noi == Total(holdings, LAMBDA h : IfKnown(h, NOI(h)))
    IN  [value |-> value,
         equity |-> value - Total(holdings, LAMBDA h : IfKnown(h, h.loan)),
         noi |-> noi,
         cash_flow |-> noi - Total(holdings, LAMBDA h : IfKnown(h, h.debt)),
         coverage |-> Coverage(holdings, NOI)]
--------------------------------------------------------------------------------
(****************************************************************************)
(* Projection of one holding to the horizon.                                *)
(****************************************************************************)
Compound(rate, years) ==
    LET f[n \in 0..years] == IF n = 0 THEN Whole ELSE (f[n - 1] * rate) \div Whole
    IN  f[years]

OutlookTilt == [bullish |-> 20, neutral |-> 0, bearish |-> -15]

NoiGrowth(p, years) == Compound(Whole + p.rent_growth - p.expense_growth, years)
Appreciation(p, years) == Compound(Whole + 30 + OutlookTilt[p.outlook], years)

\* _project_depreciation_shield, summed over the horizon.
Shielded(row) == row.building.life > 0 /\ row.building.basis > 0
Residual(row) == ResidualLifeUsed(row.building.life, row.building.age)
ShieldInHorizon(row, p) ==
    IF Shielded(row)
    THEN ShieldedYears(Residual(row), p.horizon)
             * ((row.building.basis * p.tax) \div (Whole * Residual(row)))
    ELSE 0
ShieldExpires(row, p) == Shielded(row) /\ Residual(row) <= p.horizon

\* The flow of the last year, in thousandths of the unit: the whole cash flow
\* grows with the NOI, and the shield is averaged over the horizon.
ProjectedCashFlow(row, p) ==
    row.cash_flow * NoiGrowth(p, p.horizon)
        + (IF Shielded(row) THEN (ShieldInHorizon(row, p) * Whole) \div p.horizon ELSE 0)

Shortfall(row, p) == row.known /\ ProjectedCashFlow(row, p) < 0
Declines(row, p) ==
    Valued(row) /\ 10 * row.noi * NoiGrowth(p, p.horizon) < 9 * row.noi * Whole
\* 50,000 yen a month are 6 units a year.
ThinAfterShield(row, p) ==
    ShieldExpires(row, p) /\ (row.known => ProjectedCashFlow(row, p) < 6 * Whole)
CapRises(row, p) ==
    Valued(row) /\ row.noi * NoiGrowth(p, p.horizon) > row.noi * Appreciation(p, p.horizon)
CapCollapses(row, p) ==
    Valued(row) /\ 10 * Whole * ((row.noi * NoiGrowth(p, p.horizon)) \div row.value)
                       < 4 * p.exit_cap * Appreciation(p, p.horizon)

\* Mutant: the rent bias is looked at before tenant protection.
ProjectRecommendation_BiasFirst(row, p) ==
    IF Shortfall(row, p) \/ Declines(row, p) \/ ThinAfterShield(row, p) THEN "SELL"
    ELSE IF p.refi THEN "REFI"
    ELSE IF p.raise THEN "RAISE_RENT"
    ELSE IF p.protection /\ CapRises(row, p) THEN "IMPROVE"
    ELSE "HOLD"

\* _project_recommendation: the first rule that applies.
ProjectRecommendation(row, p) ==
    IF Shortfall(row, p) \/ Declines(row, p) \/ ThinAfterShield(row, p) THEN "SELL"
    ELSE IF p.refi THEN "REFI"
    ELSE IF p.protection THEN (IF CapRises(row, p) THEN "IMPROVE" ELSE "HOLD")
    ELSE IF p.raise THEN "RAISE_RENT"
    ELSE IF CapCollapses(row, p) THEN "SELL"
    ELSE "HOLD"

\* _project_holding.
ProjectHolding(row, p) ==
    [value |-> IF Valued(row) THEN row.value * Appreciation(p, p.horizon) ELSE 0,
     noi |-> IF Valued(row) THEN row.noi * NoiGrowth(p, p.horizon) ELSE 0,
     action |-> ProjectRecommendation(row, p)]
--------------------------------------------------------------------------------
(****************************************************************************)
(* The simulation of the portfolio, and the report.                         *)
(****************************************************************************)
\* Mutant: the income of a holding without a value is counted.
ProjectYearSeries_CountsUnvalued(rows, p) ==
    [year \in 0..p.horizon |->
        [value |-> Total(rows, LAMBDA row : row.value * Appreciation(p, year)),
         noi |-> Total(rows, LAMBDA row : row.noi * NoiGrowth(p, year)),
         cash_flow |-> Total(rows, LAMBDA row : row.cash_flow * NoiGrowth(p, year))]]

\* project_year_series: a holding without a value adds nothing but its cash flow.
ProjectYearSeries(rows, p) ==
    [year \in 0..p.horizon |->
        [value |-> Total(rows, LAMBDA row : row.value * Appreciation(p, year)),
         noi |-> Total(rows, LAMBDA row : IF Valued(row) THEN row.noi * NoiGrowth(p, year)
                                          ELSE 0),
         cash_flow |-> Total(rows, LAMBDA row : row.cash_flow * NoiGrowth(p, year))]]

ProjectSimulation(rows, p) ==
    LET projections == [i \in DOMAIN rows |-> ProjectHolding(rows[i], p)]
    IN  [projections |-> projections,
         value |-> Total(projections, LAMBDA x : x.value),
         noi |-> Total(projections, LAMBDA x : x.noi),
         per_year |-> ProjectYearSeries(rows, p)]

\* agg_proj < blended_cap_rate * 0.85, looked at when blended_cap_rate > 0.
Compresses(an, sim) ==
    /\ an.value > 0 /\ an.noi > 0
    /\ 100 * (sim.noi \div 10) * an.value < 85 * an.noi * (sim.value \div 10)

\* Mutant: a new sale does not end the strategy.
ReconcileUnifiedReport_SalesSurvive(an, sim) ==
    [flips |-> {}, survives |-> TRUE, compresses |-> Compresses(an, sim)]

ReconcileUnifiedReport(an, sim) ==
    LET flips == {i \in DOMAIN an.rows : an.rows[i].today # sim.projections[i].action}
        Largest(a, b) == IF a < b THEN b ELSE a
    IN  [flips |-> flips,
         survives |-> /\ Cardinality(flips) <= Largest(1, Len(an.rows) \div 3)
                      /\ \A i \in flips : sim.projections[i].action # "SELL",
         compresses |-> Compresses(an, sim)]
--------------------------------------------------------------------------------
\* The portfolio is read by the first stage only, so it is edited before a run.
AddHolding ==
    /\ stage = "editing" /\ Len(portfolio) < MaxHoldings
    /\ \E h \in Holdings : portfolio' = Append(portfolio, h)
    /\ UNCHANGED <<profile, stage, analysis, simulation, report>>

Submit ==
    /\ stage = "editing" /\ stage' = "submitted"
    /\ UNCHANGED <<portfolio, profile, analysis, simulation, report>>

Analyse ==
    /\ stage = "submitted" /\ stage' = "analysed"
    /\ analysis' = BuildPortfolioSummary(portfolio)
    /\ UNCHANGED <<portfolio, profile, simulation, report>>

Simulate ==
    /\ stage = "analysed" /\ stage' = "simulated"
    /\ simulation' = ProjectSimulation(analysis.rows, profile)
    /\ UNCHANGED <<portfolio, profile, analysis, report>>

Reconcile ==
    /\ stage = "simulated" /\ stage' = "reported"
    /\ report' = ReconcileUnifiedReport(analysis, simulation)
    /\ UNCHANGED <<portfolio, profile, analysis, simulation>>

Next == AddHolding \/ Submit \/ Analyse \/ Simulate \/ Reconcile

Spec == Init /\ [][Next]_vars
--------------------------------------------------------------------------------
\* The state has its shape: one row and one projection per holding, a point for
\* every year, and a value that is never negative.
TypeOK ==
    /\ portfolio \in Seq(Holdings) /\ profile \in Profiles
    /\ stage \in {"editing", "submitted", "analysed", "simulated", "reported"}
    /\ Analysed => DOMAIN analysis.rows = DOMAIN portfolio /\ analysis.value \in Nat
    /\ Simulated =>
           /\ simulation.projections \in Seq([value: Nat, noi: Int, action: Actions])
           /\ Len(simulation.projections) = Len(portfolio)
           /\ DOMAIN simulation.per_year = 0..profile.horizon
    /\ Reported => report.flips \subseteq DOMAIN portfolio

\* Figures that different code computes for different tabs agree.  The summary
\* "mirrors the math in api/portfolio.py::portfolio_aggregate so the holdings tab
\* and the overview tab agree" (portfolio_summary.py:61), missing rows and values
\* included; the yearly curve starts at the summary and meets the projection's
\* aggregates at the horizon (api/schemas.py:891: "Its final point equals the
\* aggregate_* endpoints above by construction"), but for the income of holdings
\* without a value, which the curve leaves out.
FiguresAgree ==
    /\ Analysed =>
           LET tab == PortfolioAggregate(portfolio)
           IN  \A figure \in DOMAIN tab : analysis[figure] = tab[figure]
    /\ Simulated =>
           LET first == simulation.per_year[0]
               last == simulation.per_year[profile.horizon]
           IN  /\ first.value = Whole * analysis.value
               /\ first.cash_flow = Whole * analysis.cash_flow
               /\ last.value = simulation.value /\ last.noi = simulation.noi

\* The report says that tenant protection is honored; whatever the other
\* settings, no holding is then projected to raise the rent.
ProtectionHonored ==
    Simulated /\ profile.protection =>
        \A i \in DOMAIN simulation.projections :
            simulation.projections[i].action # "RAISE_RENT"

\* A strategy that survives hides no loss of a holding, unless it is for sale
\* already: none is projected to run short, or to earn less than nine tenths of its
\* income, which of a holding without a value is not looked at.  The projection
\* grows the debt service with the NOI, where its comment has it "approximately
\* flat" (strategy_runner.py:153); with a flat one a holding of a surviving strategy
\* can run short, but by no more than a tenth of its debt service.
NoSilentLoss ==
    Reported /\ report.survives =>
        \A i \in DOMAIN analysis.rows :
            LET row == analysis.rows[i]
                debt == row.noi - row.cash_flow
                growth == NoiGrowth(profile, profile.horizon)
                flat == ProjectedCashFlow(row, profile) - debt * (Whole - growth)
            IN  row.today # "SELL" =>
                    /\ row.known => ProjectedCashFlow(row, profile) >= 0
                    /\ Valued(row) => 10 * row.noi * growth >= 9 * row.noi * Whole
                    /\ Valued(row) /\ row.noi > 0 => 10 * flat >= -debt * Whole
================================================================================
