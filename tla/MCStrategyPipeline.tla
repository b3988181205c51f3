--------------------------- MODULE MCStrategyPipeline ---------------------------
EXTENDS StrategyPipeline

None == [life |-> 0, age |-> 0, basis |-> 0]
OldWood == [life |-> 22, age |-> 25, basis |-> 80]    \* four years left
NewConcrete == [life |-> 47, age |-> 2, basis |-> 90]

Holding(value, rent, debt, today, building) ==
    [known |-> TRUE, value |-> value, rent |-> rent, vacancy |-> 100, costs |-> 3,
     debt |-> debt, loan |-> 8 * debt, today |-> today, building |-> building]

MCHoldings ==
    {Holding(200, 20, debt, today, building) :
        debt \in {5, 15, 16}, today \in {"HOLD", "SELL"}, building \in {None, OldWood}}
    \cup {Holding(0, 20, 5, "REFI", None), Holding(200, 0, 0, "IMPROVE", NewConcrete),
          [Holding(0, 0, 0, "HOLD", None) EXCEPT !.known = FALSE],
          [Holding(0, 0, 0, "HOLD", OldWood) EXCEPT !.known = FALSE]}

Profile(growth, horizon, outlook, refi, protection, raise) ==
    [rent_growth |-> growth, expense_growth |-> 25, horizon |-> horizon, exit_cap |-> 70,
     tax |-> 400, outlook |-> outlook, refi |-> refi, protection |-> protection,
     raise |-> raise]

MCProfiles ==
    {Profile(g, h, o, FALSE, p, r) :
        g \in {-10, 30, 100}, h \in {1, 10}, o \in {"bullish", "bearish"},
        p \in BOOLEAN, r \in BOOLEAN}
    \cup {Profile(30, 10, "neutral", TRUE, TRUE, FALSE)}
================================================================================
