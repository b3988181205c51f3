------------------------------- MODULE Recommender -------------------------------
(****************************************************************************)
(* The ranking of listings for an investor profile                          *)
(* (services/property_recommender.py), behind GET /api/properties/recommend. *)
(*                                                                          *)
(* Scores are in ten-thousandths, rounded down.  A place name is a value;   *)
(* PartOf says which names are contained in which once normalised, so that  *)
(* `in` on strings is a pair of that relation.  The rationale is left out.  *)
(****************************************************************************)
EXTENDS Series, SequencesExt, FiniteSetsExt

CONSTANTS
    Names,   \* normalised place and station names, and postal codes
    PartOf   \* pairs of different names, the first contained in the second

ASSUME PartOfAssumption == PartOf \subseteq Names \X Names

Unknown == "unknown"   \* a name nobody filled in
Blank == "blank"       \* a preference with nothing in it: "", or no postal code
Missing == -1          \* a number nobody filled in
Full == 10000

\* A listing has the three parts of its place, the names of its stations (joined
\* into one string) and those its address contains.
PlaceNames == Names \cup {Unknown}
Properties ==
    [id : Int, price : Nat \ {0}, zip : PlaceNames, prefecture : PlaceNames,
     municipality : PlaceNames, neighborhood : PlaceNames, stations : SUBSET Names, address : SUBSET Names]

\* A snapshot's numbers may be Missing: rents are in the unit of prices, the
\* inventory pressure out of Full, the safety score out of 100.  A listing without
\* a snapshot is scored as one whose snapshot has no value.
MarketSnapshots ==
    [median_rent : Int, median_sale_price : Int, inventory : Int, safety : Int,
     hazards : SUBSET STRING]

NoSnapshot == [median_rent |-> Missing, median_sale_price |-> Missing, inventory |-> Missing,
               safety |-> Missing, hazards |-> {}]

Clip(score) == Max({0, Min({Full, score})})

Strategies == {"buy_and_hold", "flip", "lease"}

Weights(strategy) ==
    CASE strategy = "flip" ->
            [strategy |-> 40, risk |-> 10, signal |-> 15, underwriting |-> 15, geo |-> 10, momentum |-> 10]
      [] strategy = "lease" ->
            [strategy |-> 30, risk |-> 20, signal |-> 15, underwriting |-> 20, geo |-> 5, momentum |-> 10]
      [] OTHER ->
            [strategy |-> 30, risk |-> 25, signal |-> 15, underwriting |-> 20, geo |-> 5, momentum |-> 5]
--------------------------------------------------------------------------------
(****************************************************************************)
(* Places.                                                                  *)
(****************************************************************************)
In(name, text) == name = text \/ <<name, text>> \in PartOf

\* Mutant: a name nobody filled in matches no preference.
LocationMatches_KnownOnly(token, value) ==
    value # Unknown /\ (In(token, value) \/ In(value, token))

\* _location_matches: an unknown value matches anything.
LocationMatches(token, value) == value = Unknown \/ In(token, value) \/ In(value, token)

StationMatches(token, prop) ==
    \/ prop.stations = {}
    \/ \E name \in prop.stations : In(token, name)
    \/ \E name \in prop.stations : prop.stations = {name} /\ In(name, token)

AddressContains(token, prop) == \E name \in prop.address : In(token, name)

\* The preferences in the order the filter looks at them, with the field of a
\* listing each is compared to.
FilterKeys == {"prefecture", "state", "municipality", "city", "ward", "neighborhood"}

GeoKeys == FilterKeys \cup {"zip", "station"}

FieldOf(key) ==
    CASE key \in {"prefecture", "state"} -> "prefecture"
      [] key \in {"municipality", "city", "ward"} -> "municipality"
      [] key = "neighborhood" -> "neighborhood"

PlaceOf(prop, key) == prop[FieldOf(key)]

\* A budget and a target may be Missing.  A preference that is left out is
\* Unknown; one that is there and Blank makes the geography an object all the same.
Investors ==
    [strategy : Strategies, budget : Int, target_cap_rate : Int,
     geo : [GeoKeys -> PlaceNames \cup {Blank}]]

Asks(geo, key) == geo[key] \notin {Unknown, Blank}

NoGeography(geo) == \A key \in DOMAIN geo : geo[key] = Unknown

ZipDiffers(geo, prop) == Asks(geo, "zip") /\ prop.zip \notin {Unknown, geo.zip}

OverBudget(profile, prop) ==
    profile.budget # Missing /\ prop.price * 100 > profile.budget * 105

\* passes_hard_filters
PassesHardFilters(profile, prop) ==
    /\ ~OverBudget(profile, prop)
    /\ ~ZipDiffers(profile.geo, prop)
    /\ \A key \in {k \in FilterKeys : Asks(profile.geo, k)} :
          IF PlaceOf(prop, key) = Unknown
          THEN AddressContains(profile.geo[key], prop)
          ELSE LocationMatches(profile.geo[key], PlaceOf(prop, key))
--------------------------------------------------------------------------------
(****************************************************************************)
(* The components of a score.                                               *)
(****************************************************************************)
Known(snap, field) == snap[field] # Missing

\* Rent of a year over the price, out of Full.
GrossYield(prop, snap) == (snap.median_rent * 12 * Full) \div prop.price

YieldScore(prop, snap) == Clip(((GrossYield(prop, snap) - 400) * Full) \div 600)

BuyAndHold(prop, snap) == IF Known(snap, "median_rent") THEN YieldScore(prop, snap) ELSE 0

Flip(prop, snap) ==
    IF ~Known(snap, "median_sale_price") \/ snap.median_sale_price <= 0 THEN 0
    ELSE LET spread == ((snap.median_sale_price - prop.price) * Full) \div snap.median_sale_price
         IN  Clip(((spread + 1000) * 100) \div 35)

Lease(prop, snap) ==
    LET room == IF Known(snap, "inventory") THEN Clip(Full - snap.inventory) ELSE Full
    IN  IF Known(snap, "median_rent") THEN (YieldScore(prop, snap) * 7 + room * 3) \div 10 ELSE 0

StrategyScore(profile, prop, snap) ==
    CASE profile.strategy = "flip" -> Flip(prop, snap)
      [] profile.strategy = "lease" -> Lease(prop, snap)
      [] OTHER -> BuyAndHold(prop, snap)

\* target_cap_rate is a percentage; here it is out of Full.
RiskScore(profile, prop, snap) ==
    IF profile.target_cap_rate = Missing THEN Full \div 2
    ELSE IF ~Known(snap, "median_rent") THEN 0
    ELSE IF profile.target_cap_rate <= 0 THEN Full \div 2
    ELSE LET miss == GrossYield(prop, snap) - profile.target_cap_rate
         IN  Clip(Full - ((IF miss < 0 THEN -miss ELSE miss) * Full) \div profile.target_cap_rate)

HazardPenalty(snap) ==
    CASE "high" \in snap.hazards -> 8000
      [] "high" \notin snap.hazards /\ "moderate" \in snap.hazards -> 4000
      [] snap.hazards \cap {"high", "moderate"} = {} /\ "low" \in snap.hazards -> 1000
      [] OTHER -> 0

SignalScore(snap) ==
    LET safety == Clip(snap.safety * 100)
        hazard == HazardPenalty(snap)
    IN  CASE Known(snap, "safety") /\ hazard > 0 -> (safety + Clip(Full - hazard)) \div 2
          [] Known(snap, "safety") /\ hazard = 0 -> safety
          [] ~Known(snap, "safety") /\ hazard > 0 -> Clip(Full - hazard)
          [] OTHER -> Full \div 2

\* 60% of the rent over the payment of a loan of 75% at 7% for 30 years, which
\* is a 200.41th of the price.
UnderwritingScore(prop, snap) ==
    IF ~Known(snap, "median_rent") THEN Full \div 2
    ELSE LET dscr == (snap.median_rent * 1202461) \div prop.price
         IN  Clip(((dscr - 7000) * 100) \div 55)

\* location_checks: the first preference that matches decides.
Checks == <<[key |-> "station", score |-> 9500], [key |-> "municipality", score |-> 9200],
            [key |-> "ward", score |-> 9200], [key |-> "neighborhood", score |-> 8800],
            [key |-> "prefecture", score |-> 8200], [key |-> "city", score |-> 7200],
            [key |-> "state", score |-> 7200]>>

Satisfies(prop, geo, key) ==
    /\ Asks(geo, key)
    /\ IF key = "station" THEN StationMatches(geo[key], prop)
       ELSE LocationMatches(geo[key], PlaceOf(prop, key))

NoMatch == 2000

GeoScore(profile, prop) ==
    LET geo == profile.geo
        met == {i \in DOMAIN Checks : Satisfies(prop, geo, Checks[i].key)}
    IN  IF NoGeography(geo) THEN Full \div 2
        ELSE IF Asks(geo, "zip") /\ prop.zip = geo.zip THEN Full
        ELSE IF met # {} THEN Checks[Min(met)].score
        ELSE IF \E key \in FilterKeys \ {"prefecture"} :
                    Asks(geo, key) /\ AddressContains(geo[key], prop) THEN 6500
        ELSE NoMatch

MomentumScore(snap) ==
    IF ~Known(snap, "inventory") THEN Full \div 2
    ELSE LET off == snap.inventory - Full \div 2
         IN  Clip(Full - 2 * (IF off < 0 THEN -off ELSE off))
--------------------------------------------------------------------------------
(****************************************************************************)
(* The ranking.  Prices are positive here: seeds and imports store no free  *)
(* listing.                                                                 *)
(****************************************************************************)
ScoreProperty(profile, prop, snap) ==
    LET weight == Weights(profile.strategy)
        total == weight.strategy * StrategyScore(profile, prop, snap)
               + weight.risk * RiskScore(profile, prop, snap)
               + weight.signal * SignalScore(snap)
               + weight.underwriting * UnderwritingScore(prop, snap)
               + weight.geo * GeoScore(profile, prop)
               + weight.momentum * MomentumScore(snap)
    IN  Clip(total \div 100)

\* Mutant: equal scores and prices are left in the order of the query.
Before_NoId(a, b) ==
    \/ a.score > b.score
    \/ a.score = b.score /\ a.prop.price > b.prop.price

\* The sort key: score and price descending, then the id.
Before(a, b) ==
    \/ a.score > b.score
    \/ a.score = b.score /\ a.prop.price > b.prop.price
    \/ a.score = b.score /\ a.prop.price = b.prop.price /\ a.prop.id < b.prop.id

\* rank_properties, of the candidates in the order the query returned them
RankProperties(profile, candidates, snapshots, top_n) ==
    LET passing == Where(candidates, LAMBDA p : PassesHardFilters(profile, p))
        scored == [k \in DOMAIN passing |->
                      [prop |-> passing[k],
                       score |-> ScoreProperty(profile, passing[k], snapshots[passing[k].id])]]
        sorted == SortedBy(scored, Before)
    IN  SubSeq(sorted, 1, Min({top_n, Len(sorted)}))
================================================================================
