------------------------------ MODULE HoldingAdvice ------------------------------
(****************************************************************************)
(* The advice on one holding, asked for in two ways: by itself              *)
(* (api/decisions.py, one read after the other) and as a row of the         *)
(* portfolio summary (services/portfolio_summary.py, bulk reads), while     *)
(* observations of the market arrive and the owner, the property and the    *)
(* holding are edited.  services/market_state.py folds the observations     *)
(* into a snapshot.                                                         *)
(****************************************************************************)
EXTENDS HoldingDecision

CONSTANTS
    Observations,   \* [kind, subject, day, value]: what the providers emit
    Owners,         \* [budget_min, budget_max, role, urgent]
    Financials,     \* [monthly_rent, interest_rate, loan_balance]
    MaxRows         \* bound on the rows of market_signals

ASSUME MaxRowsAssumption == MaxRows \in Nat
ASSUME OwnersAssumption ==
    \A o \in Owners : {o.budget_min, o.budget_max} \subseteq Nat /\ o.urgent \in BOOLEAN
ASSUME FinancialsAssumption ==
    \A f \in Financials :
        f.monthly_rent \in Nat \cup {Missing} /\ {f.interest_rate, f.loan_balance} \subseteq Nat

VARIABLES
    rows,       \* the rows of market_signals, of subject_type "neighborhood"
    property,   \* the keys of the linked property, in order (_neighborhood_keys)
    holding,    \* whether it is linked to the property and whether it has a zip
    owner, fin  \* the owner's profile and the holding's financials

vars == <<rows, property, holding, owner, fin>>

\* The scalars of a snapshot, and those of them that count as context.
Fields == {"inventory_pressure", "safety_score", "median_rent", "median_sale_price",
           "land_price_psm"}
DecisionFields == Fields \ {"land_price_psm"}

ASSUME ObservationsAssumption ==
    Observations \subseteq [kind: Fields, subject: {"zip", "ward", "point"}, day: Nat,
                            value: Nat \cup {Missing}]

\* A snapshot whose fields are what `value` gives for their names.
Market(value(_)) ==
    [inventory_pressure |-> value("inventory_pressure"),
     safety_score |-> value("safety_score"),
     median_rent |-> value("median_rent"),
     median_sale_price |-> value("median_sale_price"),
     land_price_psm |-> value("land_price_psm")]

Unknown == Market(LAMBDA f : Missing)
Keys == {<<>>, <<"zip">>, <<"ward">>, <<"zip", "ward">>}

Init ==
    /\ rows = {} /\ property \in Keys
    /\ holding \in [linked: BOOLEAN, zip: BOOLEAN]
    /\ owner \in Owners /\ fin \in Financials
--------------------------------------------------------------------------------
(****************************************************************************)
(* Reads of market_signals (`table`), each a query whose rows come newest   *)
(* first and are then folded; rows of one subject, type and day do not      *)
(* repeat.  A row may have no value: the column is nullable, upsert_signal  *)
(* defaults it to None.  Every provider emits one for these types.          *)
(****************************************************************************)
\* The rows of one subject, of which the first of each type is kept.
LatestSignalsFor(table, subject) ==
    LET found == {r \in table : r.subject = subject}
    IN  {r \in found : \A q \in found : q.kind = r.kind => q.day <= r.day}

\* Mutant: one set of seen types for all the subjects of the query.
LatestSignalsBulk_SeenAcross(table, subjects) ==
    LET found == {r \in table : r.subject \in subjects}
    IN  [s \in {r.subject : r \in found} |->
            {r \in found : r.subject = s /\ \A q \in found : q.kind = r.kind => q.day <= r.day}]

\* The rows of all subjects in one query, filed by subject; a subject without rows
\* is not in the map.
LatestSignalsBulk(table, subjects) ==
    LET found == {r \in table : r.subject \in subjects}
    IN  [s \in {r.subject : r \in found} |->
            {r \in found :
                /\ r.subject = s
                /\ \A q \in found : q.subject = s /\ q.kind = r.kind => q.day <= r.day}]

SignalsOf(map, key) == IF key \in DOMAIN map THEN map[key] ELSE {}

\* The value of type f among signals of which each type has one.
Reading(signals, f) ==
    IF \E r \in signals : r.kind = f
    THEN (CHOOSE r \in signals : r.kind = f).value ELSE Missing

\* _compose_snapshot: the first key with a value for the field decides.
Compose(byKey) ==
    Market(LAMBDA f :
        LET known == {i \in DOMAIN property : Reading(SignalsOf(byKey, property[i]), f) # Missing}
        IN  IF known = {} THEN Missing ELSE Reading(SignalsOf(byKey, property[Min(known)]), f))

KeySet == {property[i] : i \in DOMAIN property}
Found(market) == [found |-> TRUE, market |-> market]
NotFound == [found |-> FALSE, market |-> Unknown]

BuildSnapshot(table) == Found(Compose([k \in KeySet |-> LatestSignalsFor(table, k)]))
BuildSnapshots(table) == Found(Compose(LatestSignalsBulk(table, KeySet)))

\* The newest row of each type, with its value or without.
NeighborhoodSnapshots(table) ==
    LET signals == SignalsOf(LatestSignalsBulk(table, {"zip"}), "zip")
    IN  Found(Market(LAMBDA f : Reading(signals, f)))

\* The newest row with a value, of the decision fields only.
SnapshotFromZip(table) ==
    LET known(f) ==
            {r \in table : r.subject = "zip" /\ r.kind = f /\ r.value # Missing}
        newest(found) == CHOOSE r \in found : \A q \in found : q.day <= r.day
    IN  Found(Market(LAMBDA f : IF f \in DecisionFields /\ known(f) # {}
                                THEN newest(known(f)).value ELSE Missing))

ResolveSnapshot(table) ==
    CASE holding.linked -> BuildSnapshot(table)
      [] ~holding.linked /\ holding.zip -> SnapshotFromZip(table)
      [] OTHER -> NotFound

\* The same choice in portfolio_summary.py.
ResolveSnapshotBulk(table) ==
    CASE holding.linked -> BuildSnapshots(table)
      [] ~holding.linked /\ holding.zip -> NeighborhoodSnapshots(table)
      [] OTHER -> NotFound

Decide(snapshot) ==
    [decision |-> ComputeHoldingDecision(snapshot, owner, fin),
     market_context_available |-> \E f \in DecisionFields : snapshot.market[f] # Missing]

HoldingDecisionAnswer(table) == Decide(ResolveSnapshot(table))
SummaryEntry(table) == Decide(ResolveSnapshotBulk(table))

TypeOK ==
    /\ rows \subseteq Observations
    /\ \A r, q \in rows : r.kind = q.kind /\ r.subject = q.subject /\ r.day = q.day => r = q
    /\ property \in Keys /\ holding \in [linked: BOOLEAN, zip: BOOLEAN]
    /\ owner \in Owners /\ fin \in Financials
    /\ HoldingDecisionAnswer(rows).decision \in [action: Actions, score: 0..Unit]
--------------------------------------------------------------------------------
\* upsert_signal, as SignalWriter has it for jobs that do not overlap.
Upsert(o) ==
    rows' = {r \in rows : <<r.kind, r.subject, r.day>> # <<o.kind, o.subject, o.day>>} \cup {o}

Observe ==
    \E o \in Observations :
        /\ Upsert(o)
        /\ Cardinality(rows') <= MaxRows
        /\ UNCHANGED <<property, holding, owner, fin>>

\* api/users.py; api/properties.py, which cannot change the ward; and the imports
\* of api/portfolio.py, which keep a link once it is there.
EditOwner == owner' \in Owners /\ UNCHANGED <<rows, property, holding, fin>>
EditProperty ==
    /\ property' \in {keys \in Keys : Contains(keys, "ward") <=> Contains(property, "ward")}
    /\ UNCHANGED <<rows, holding, owner, fin>>
EditFinancials == fin' \in Financials /\ UNCHANGED <<rows, property, holding, owner>>
LinkProperty ==
    /\ ~holding.linked /\ holding' = [holding EXCEPT !.linked = TRUE]
    /\ UNCHANGED <<rows, property, owner, fin>>

Next == Observe \/ EditOwner \/ EditProperty \/ EditFinancials \/ LinkProperty

Spec == Init /\ [][Next]_vars
--------------------------------------------------------------------------------
\* The holding's own endpoint and its row in the summary give the same advice on
\* the same data, although they read it by different queries ("Identical logic to
\* compute_holding_decision", services/holding_decision.py:208).  One case is
\* excepted, in which the code does differ: of a zip whose newest reading has no
\* value, holding_decision.py:102 takes an older reading and market_state.py:320
\* takes none.
PathsAgree ==
    LET hides(r, q) == /\ r.subject = "zip" /\ q.subject = "zip" /\ r.kind = q.kind
                       /\ r.value = Missing /\ q.value # Missing /\ q.day < r.day
    IN  holding.linked \/ (\A r, q \in rows : ~hides(r, q))
        => HoldingDecisionAnswer(rows) = SummaryEntry(rows)

\* A neighborhood that is observed to be safer is no reason to intervene in the
\* building: displacement and safety both enter the churn risk.  Scores are whole
\* units here, so only an intervention that leads by more than one is held to it:
\* the score of holding rises too, and could catch up by rounding.
SaferNeverNeedsIntervention ==
    LET now == ResolveSnapshot(rows)
        action(snapshot) == ComputeHoldingDecision(snapshot, owner, fin).action
        score(a, snapshot) == ScoreOf(a, snapshot, owner, fin)
    IN  \A o \in Observations :
           LET safer == [now EXCEPT !.market.safety_score = o.value]
           IN  (/\ o.kind = "safety_score"
                /\ now.market.safety_score # Missing /\ o.value > now.market.safety_score
                /\ \A a \in Actions \ {"IMPROVE"} : score(a, safer) + 2 <= score("IMPROVE", safer))
               => action(now) = "IMPROVE"

\* An owner whose budget gets tighter is not advised more strongly to raise the
\* rent.  The exception is a pressure of exactly 0, which actor_reaction_events
\* takes for an unset field: that owner counts as neutral, and as tighter than
\* one just above.
TighterOwnerNeverRaisesRent ==
    LET raise(o) == ScoreOf("RAISE_RENT", ResolveSnapshot(rows), o, fin)
    IN  \A tighter \in Owners :
           (/\ tighter.role = owner.role
            /\ 0 < Pressure(owner) /\ Pressure(owner) < Pressure(tighter))
           => raise(tighter) <= raise(owner)
================================================================================
