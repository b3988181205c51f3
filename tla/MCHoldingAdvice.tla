---------------------------- MODULE MCHoldingAdvice ----------------------------
EXTENDS HoldingAdvice

Obs(kind, subject, days, values) ==
    [kind: {kind}, subject: {subject}, day: days, value: values]

\* Slack and glutted listings markets, in two places, and a reading without a
\* value; neighborhoods on the two sides of the risk at which to intervene.
MCObservations ==
    Obs("inventory_pressure", "zip", {1, 2}, {2000, 20000})
    \cup Obs("inventory_pressure", "zip", {2}, {Missing})
    \cup Obs("inventory_pressure", "ward", {2}, {20000})
    \cup Obs("safety_score", "zip", {1}, {30000, 36000, 40000, 90000})
    \cup Obs("median_rent", "zip", {1}, {100})
    \cup Obs("median_sale_price", "ward", {1}, {1})
    \cup Obs("land_price_psm", "point", {1}, {1})

Owner(min, role, urgent) ==
    [budget_min |-> min, budget_max |-> 10, role |-> role, urgent |-> urgent]

\* Pressures 0, 1000, 5000 and 9000, and 3000 for an urgent owner.
MCOwners ==
    {Owner(min, "investor", FALSE) : min \in {0, 1, 5, 9}}
    \cup {Owner(1, "investor", TRUE), Owner(1, "seller", FALSE), Owner(5, "seller", FALSE),
         Owner(1, "both", FALSE), Owner(9, "both", FALSE)}

Fin(rent, rate) == [monthly_rent |-> rent, interest_rate |-> rate, loan_balance |-> 1]

MCFinancials == {Fin(Missing, 800), Fin(80, 400), Fin(150, 400)}
================================================================================
