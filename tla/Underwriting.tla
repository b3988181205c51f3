------------------------------- MODULE Underwriting -------------------------------
(****************************************************************************)
(* The underwriting engine (intelligence/underwriting.py), the statistics   *)
(* of the Monte Carlo stress test (intelligence/stress_test.py) and what    *)
(* their endpoints accept.                                                  *)
(*                                                                          *)
(* Fixed point: money in a currency unit, rates and ratios in basis points, *)
(* money collected and ratios rounded down, debt service and the break-even *)
(* occupancy up, so that the comparisons between them are those of the      *)
(* unrounded numbers.  Operating expenses, property tax and insurance are   *)
(* one yearly sum.  The payment of a loan is looked up by its rate: the     *)
(* term is fixed.  A discount rate is a point of the grid 0..Cells, point i *)
(* being (i + 1) / 4 - 1, so that a present value has the exact sign of an  *)
(* integer.                                                                 *)
(****************************************************************************)
EXTENDS Series, SequencesExt, FiniteSetsExt

CONSTANTS
    YearlyPayment,  \* for each loan rate, the debt service of a loan of 10000
    HoldYears,      \* the hold of irr_5yr, or of irr_10yr
    Cells,          \* the grid of discount rates
    Rounds          \* rounds of a bisection, 200 in the code

\* A loan costs something, and no less at a higher rate.
ASSUME PaymentAssumption ==
    /\ YearlyPayment \in [DOMAIN YearlyPayment -> Nat \ {0}] /\ DOMAIN YearlyPayment \subseteq Int
    /\ \A p, r \in DOMAIN YearlyPayment : p <= r => YearlyPayment[p] <= YearlyPayment[r]
ASSUME GridAssumption == HoldYears \in Nat \ {0} /\ Cells \in Nat \ {0} /\ Rounds \in Nat

One == 10000
Infinite == 999 * One
NoIrr == <<>>

\* UnderwriteRequest: what the schema lets through.
Growth == -(One \div 2)..(One \div 2)
Inputs ==
    [price : Nat \ {0}, down : Nat, closing : Nat, rent : Nat, opex : Nat,
     rate : DOMAIN YearlyPayment, vacancy : 0..One, exit_cap : 1..(One \div 2),
     selling : 0..2000, rent_growth : Growth, expense_growth : Growth]
--------------------------------------------------------------------------------
Loan(i) == IF i.down < i.price THEN i.price - i.down ELSE 0

DebtService(i) == -((-(Loan(i) * YearlyPayment[i.rate])) \div One)

InitialCash(i) == i.down + i.closing

GrossRent(i) == 12 * i.rent

Collected(i, gross) == (gross * (One - i.vacancy)) \div One

Noi(i) == Collected(i, GrossRent(i)) - i.opex

CashOnCash(i) ==
    IF InitialCash(i) > 0 THEN ((Noi(i) - DebtService(i)) * One) \div InitialCash(i) ELSE 0

Dscr(i) == IF DebtService(i) > 0 THEN (Noi(i) * One) \div DebtService(i) ELSE Infinite

\* Mutant: the debt service is left out.
BreakevenOccupancy_OpexOnly(i) ==
    IF GrossRent(i) > 0 THEN -((-(i.opex * One)) \div GrossRent(i)) ELSE 0

BreakevenOccupancy(i) ==
    IF GrossRent(i) > 0
    THEN -((-((i.opex + DebtService(i)) * One)) \div GrossRent(i))
    ELSE 0
--------------------------------------------------------------------------------
(****************************************************************************)
(* The internal rate of return.                                             *)
(****************************************************************************)
Grown(sum, growth, years) ==
    LET g[y \in 0..years] == IF y = 0 THEN sum ELSE (g[y - 1] * (One + growth)) \div One
    IN  g[years]

NoiOf(i, year) ==
    Collected(i, Grown(GrossRent(i), i.rent_growth, year - 1))
        - Grown(i.opex, i.expense_growth, year - 1)

\* The sale at the end: next year's NOI at the exit cap, less selling costs and
\* the whole loan, as if it were interest-only.
NetSale(i) ==
    LET value == (NoiOf(i, HoldYears + 1) * One) \div i.exit_cap
    IN  value - (value * i.selling) \div One - Loan(i)

CashFlows(i) ==
    [t \in 1..(HoldYears + 1) |->
        IF t = 1 THEN -InitialCash(i)
        ELSE NoiOf(i, t - 1) - DebtService(i) + (IF t = HoldYears + 1 THEN NetSale(i) ELSE 0)]

\* _npv at a grid point, times a power of point + 1: a sum that each year is
\* discounted by (point + 1) / 4, kept whole by a growing scale.
NetPresentValue(flows, point) ==
    LET year[t \in 0..Len(flows)] ==
            IF t = 0 THEN [sum |-> 0, scale |-> 1]
            ELSE [sum   |-> year[t - 1].sum * (point + 1) + flows[t] * year[t - 1].scale,
                  scale |-> 4 * year[t - 1].scale]
    IN  year[Len(flows)].sum

NpvSign(flows, point) ==
    LET value == NetPresentValue(flows, point)
    IN  IF value > 0 THEN 1 ELSE IF value < 0 THEN -1 ELSE 0

\* Mutant: the half with the root is thrown away.
Halve_OtherHalf(flows, bracket) ==
    LET low == bracket[1]  high == bracket[2]  mid == (low + high) \div 2
    IN  IF high - low <= 1 THEN bracket
        ELSE IF NpvSign(flows, mid) = 0 THEN <<mid, mid>>
        ELSE IF NpvSign(flows, mid) * NpvSign(flows, low) < 0 THEN <<mid, high>>
        ELSE <<low, mid>>

\* One round of the bisection: the bracket is left alone once it is one cell
\* wide or its middle is a root.
Halve(flows, bracket) ==
    LET low == bracket[1]  high == bracket[2]  mid == (low + high) \div 2
    IN  IF high - low <= 1 THEN bracket
        ELSE IF NpvSign(flows, mid) = 0 THEN <<mid, mid>>
        ELSE IF NpvSign(flows, mid) * NpvSign(flows, low) < 0 THEN <<low, mid>>
        ELSE <<mid, high>>

Bisect(flows, low, high) ==
    LET bracket[n \in 0..Rounds] ==
            IF n = 0 THEN <<low, high>> ELSE Halve(flows, bracket[n - 1])
    IN  bracket[Rounds]

\* _irr: the cell that holds a root; NoIrr without flows of both signs or
\* without a change of sign anywhere on the grid.
Irr(flows) ==
    LET sign(p) == NpvSign(flows, p)
        turns == {p \in 1..Cells : sign(p) = 0 \/ sign(p) * sign(p - 1) < 0}
    IN  IF ~(\E t \in DOMAIN flows : flows[t] > 0) \/ ~(\E t \in DOMAIN flows : flows[t] < 0)
        THEN NoIrr
        ELSE IF sign(0) = 0 THEN <<0, 0>>
        ELSE IF sign(Cells) = 0 THEN <<Cells, Cells>>
        ELSE IF sign(0) * sign(Cells) < 0 THEN Bisect(flows, 0, Cells)
        ELSE IF turns = {} THEN NoIrr
        ELSE IF sign(Min(turns)) = 0 THEN <<Min(turns), Min(turns)>>
        ELSE Bisect(flows, Min(turns) - 1, Min(turns))

ProjectIrr(i) == IF InitialCash(i) > 0 THEN Irr(CashFlows(i)) ELSE NoIrr

\* underwrite, as the endpoint returns it
Underwrite(i) ==
    [cash_on_cash |-> CashOnCash(i), dscr |-> Dscr(i), irr |-> ProjectIrr(i),
     breakeven_occupancy |-> BreakevenOccupancy(i), noi |-> Noi(i),
     cap_rate |-> (Noi(i) * One) \div i.price]
--------------------------------------------------------------------------------
(****************************************************************************)
(* The stress test.                                                         *)
(****************************************************************************)
Sliders == {"vacancy", "rent_growth", "expense_growth", "rate", "exit_cap"}

\* SliderRange refuses an inverted range; the schema does not.
InOrder(config) == \A s \in Sliders : config[s].low <= config[s].high

WithSliders(base, values) ==
    [f \in DOMAIN base |-> IF f \in Sliders THEN values[f] ELSE base[f]]

\* Python's round: halves go to the even neighbour.
Round(num, den) ==
    LET down == num \div den
        rest == 2 * (num % den)
    IN  IF rest > den \/ (rest = den /\ down % 2 = 1) THEN down + 1 ELSE down

Sorted(values) == SortedBy(values, LAMBDA a, b : a < b)

\* Mutant: the index is the next one up.
Percentile_OffByOne(values, q) ==
    LET k == Round((Len(values) - 1) * q, 100) + 2
    IN  IF values = <<>> THEN 0 ELSE Sorted(values)[IF k > Len(values) THEN Len(values) ELSE k]

\* _percentile, q in percent
Percentile(values, q) ==
    IF values = <<>> THEN 0
    ELSE Sorted(values)[Round((Len(values) - 1) * q, 100) + 1]

Metric(name, runs) == [k \in DOMAIN runs |-> Underwrite(runs[k])[name]]

\* Infinite ratios and those above 99 are one value for the percentiles.
Capped(ratios) == [k \in DOMAIN ratios |-> IF ratios[k] > 99 * One THEN 99 * One ELSE ratios[k]]

CountBelow(values, bound) == Cardinality({k \in DOMAIN values : values[k] < bound})

\* monte_carlo_stress_test over the inputs it sampled
Statistics(runs) ==
    LET cocs  == Metric("cash_on_cash", runs)
        dscrs == Metric("dscr", runs)
        spread(values) == [q \in {10, 50, 90} |-> Percentile(values, q)]
    IN  [cash_on_cash |-> spread(cocs), dscr |-> spread(Capped(dscrs)),
         cap_rate |-> spread(Metric("cap_rate", runs)),
         negative |-> CountBelow(cocs, 0),
         under_1 |-> CountBelow(dscrs, One)]

Midpoints(config) == [s \in Sliders |-> (config[s].low + config[s].high) \div 2]

\* _tornado: one slider at its ends, the others at their midpoints.  It looks at
\* the first year's cash on cash only, which three of the sliders do not enter.
Tornado(base, config) ==
    [s \in Sliders |->
        LET at(v) == CashOnCash(WithSliders(base, [Midpoints(config) EXCEPT ![s] = v]))
        IN  [low_coc |-> at(config[s].low), high_coc |-> at(config[s].high)]]
================================================================================
