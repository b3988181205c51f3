--------------------------- MODULE SignalProviders ---------------------------
(****************************************************************************)
(* What each provider of services/signal_providers/ makes of the answers of *)
(* its service: the signals of one fetch(), in the order it emits them, and *)
(* what scripts/backfill_market_signals.py makes of the properties table.   *)
(* A request holds the arguments of the fetch, the moment it stamps and the *)
(* service's answers, each a sequence of records; REINFOLIB's 404 is <<>>   *)
(* where the provider treats it as an empty body.  A value is an integer of *)
(* a hundredth, twice it for a median.                                      *)
(****************************************************************************)
EXTENDS Series, SequencesExt, FiniteSetsExt

CONSTANTS
    Absent,      \* None, a blank, or what float() refuses
    TileX,       \* lat_lng_to_tile: longitudes to columns,
    TileY,       \* and latitudes to rows, which are counted from the north
    MaxTiles,    \* tiles a land price fetch reads: 50 in the code
    Lookback     \* quarters a transaction fetch looks back: 8 in the code

ASSUME TileAssumption ==
    /\ \A lng \in DOMAIN TileX : TileX[lng] \in Int
    /\ \A lat \in DOMAIN TileY : TileY[lat] \in Int
    /\ \A a, b \in DOMAIN TileX : a <= b => TileX[a] <= TileX[b]
    /\ \A a, b \in DOMAIN TileY : a <= b => TileY[a] >= TileY[b]
ASSUME LimitAssumption == MaxTiles \in Nat \ {0} /\ Lookback \in Nat \ {0}

NoPeriod == <<0, 0>>

\* The type settles the subject type: "hazard" is of a property,
\* "mortgage_rate_30yr" of a jurisdiction, the others of a neighbourhood.
ExternalSignal(type, subject, r, value) ==
    [key |-> <<type, subject>>, stamp |-> r.observed_at, value |-> value, period |-> NoPeriod]

\* for x in s: results.extend(emit[x])
Extend(s, emit) == Joined([i \in DOMAIN s |-> emit[s[i]]])

\* What an answer holds under a name: nothing is an empty body.
Answer(answers, name) == IF name \in DOMAIN answers THEN answers[name] ELSE <<>>

Numeric(values) == Where(values, LAMBDA v : v # Absent)

\* Twice statistics.median of a non-empty sequence.
TwiceMedian(values) ==
    LET sorted == SortSeq(values, <)  n == Len(values)
    IN  sorted[(n + 1) \div 2] + sorted[(n + 2) \div 2]
--------------------------------------------------------------------------------
(****************************************************************************)
(* REINFOLIB transaction prices, by city and quarter.                       *)
(****************************************************************************)
CurrentQuarter(date) == <<date[1], ((date[2] - 1) \div 3) + 1>>

\* Mutant: the year boundary is missed.
PreviousQuarter_SameYear(period) ==
    IF period[2] = 1 THEN <<period[1], 4>> ELSE <<period[1], period[2] - 1>>

PreviousQuarter(period) ==
    IF period[2] = 1 THEN <<period[1] - 1, 4>> ELSE <<period[1], period[2] - 1>>

Probed(date) ==
    LET back[n \in 1..Lookback] ==
            IF n = 1 THEN CurrentQuarter(date) ELSE PreviousQuarter(back[n - 1])
    IN  back

\* The newest quarter with data for the first city; NoPeriod if there is none.
ResolvePublishedQuarter(r) ==
    LET probed == Probed(r.date)
        found == SelectInSeq(probed, LAMBDA p : Answer(r.trades, <<r.codes[1], p>>) # <<>>)
    IN  IF found = 0 THEN NoPeriod ELSE probed[found]

Explicit(r) == r.year # Absent /\ r.quarter # Absent

Median(type, r, code, period, values) ==
    IF values = <<>> THEN <<>>
    ELSE <<[ExternalSignal(type, code, r, TwiceMedian(values)) EXCEPT !.period = period]>>

Prices(records) == Numeric([k \in DOMAIN records |-> records[k].price])
UnitPrices(records) == Numeric([k \in DOMAIN records |-> records[k].unit])

FetchCity(r, code, period) ==
    LET records == Answer(r.trades, <<code, period>>)
    IN  Median("median_sale_price", r, code, period, Prices(records))
        \o Median("median_unit_price", r, code, period, UnitPrices(records))

Transactions(r) ==
    LET period == IF Explicit(r) THEN <<r.year, r.quarter>> ELSE ResolvePublishedQuarter(r)
    IN  IF period = NoPeriod THEN <<>>
        ELSE Extend(r.codes, [code \in Range(r.codes) |-> FetchCity(r, code, period)])
--------------------------------------------------------------------------------
(****************************************************************************)
(* REINFOLIB tiles: hazards around a point, land prices over a box.         *)
(****************************************************************************)

\* The tiles of a rectangle, column by column.
Tiles(x_min, x_max, y_min, y_max) ==
    LET rows == y_max - y_min + 1
    IN  [i \in 1..((x_max - x_min + 1) * rows) |->
            <<x_min + ((i - 1) \div rows), y_min + ((i - 1) % rows)>>]

TilesAround(lat, lng, radius) ==
    Tiles(TileX[lng] - radius, TileX[lng] + radius, TileY[lat] - radius, TileY[lat] + radius)

TilesCoveringBbox(box) ==
    Tiles(TileX[box.min_lng], TileX[box.max_lng], TileY[box.max_lat], TileY[box.min_lat])

\* The level is the first character of its text.
LiquefactionScore(level) ==
    IF level \in 1..6 THEN <<100, 300, 500, 700, 800, 1000>>[level] ELSE 0

FetchLiquefaction(r, tile) ==
    LET features == Where(Answer(r.liquefaction, tile), LAMBDA f : f.mesh # Absent)
    IN  [k \in DOMAIN features |->
            ExternalSignal("hazard_liquefaction", features[k].mesh, r,
                           LiquefactionScore(features[k].level))]

FloodDepths == <<"under_0.5m", "0.5m_3m", "3m_5m", "5m_10m", "over_10m">>

\* A depth category of no known name scores 0.
FloodScore(depth) == 200 * SelectInSeq(FloodDepths, LAMBDA d : d = depth)

\* Every feature of a tile is a signal of the tile.
FetchFlood(r, tile) ==
    LET depths == Answer(r.flood, tile)
    IN  [k \in DOMAIN depths |->
            ExternalSignal("hazard_flood", tile, r, FloodScore(depths[k]))]

\* Only here a body without features (0) differs from no body.
FetchLandslide(r, tile) ==
    IF tile \notin DOMAIN r.landslide THEN <<>>
    ELSE LET zones == r.landslide[tile]
         IN  [k \in 1..Max({1, zones}) |->
                 ExternalSignal("hazard_landslide", tile, r, IF zones = 0 THEN 0 ELSE 800)]

Hazards(r) ==
    LET tiles == TilesAround(r.lat, r.lng, r.radius)
    IN  Extend(tiles, [t \in Range(tiles) |->
            FetchLiquefaction(r, t) \o FetchFlood(r, t) \o FetchLandslide(r, t)])

\* The tiles beyond the limit are not read.
LandPrices(r) ==
    LET covering == TilesCoveringBbox(r.bbox)
        tiles == SubSeq(covering, 1, Min({MaxTiles, Len(covering)}))
        points(tile) == Where(Answer(r.points, tile),
                                  LAMBDA p : p.price # Absent /\ p.point # Absent)
    IN  Extend(tiles, [t \in Range(tiles) |->
            [k \in DOMAIN points(t) |->
                ExternalSignal("land_price_psm", points(t)[k].point, r, points(t)[k].price)]])

\* The land uses of a prefecture are asked for one by one; a record is known by
\* its address, or its coordinates, whatever its use.
SubjectIdFrom(record) == IF record.address # Absent THEN record.address ELSE record.point

Appraisals(r) ==
    LET usable(division) ==
            Where(Answer(r.appraisals, division),
                      LAMBDA a : a.price # Absent /\ SubjectIdFrom(a) # Absent)
    IN  Extend(r.divisions, [d \in Range(r.divisions) |->
            [k \in DOMAIN usable(d) |->
                ExternalSignal("appraised_value_psm", SubjectIdFrom(usable(d)[k]), r,
                               usable(d)[k].price)]])
--------------------------------------------------------------------------------
(****************************************************************************)
(* The providers of the United States.                                      *)
(****************************************************************************)
MortgageRate(r) ==
    IF r.observations = <<>> \/ Head(r.observations) = Absent THEN <<>>
    ELSE <<ExternalSignal("mortgage_rate_30yr", "US", r, Head(r.observations))>>

\* The first row of a zip code, if it has a two-bedroom rent.
FairMarketRents(r) ==
    LET rents(zip) == Answer(r.fmr, zip)
    IN  Extend(r.zips, [zip \in Range(r.zips) |->
            IF rents(zip) = <<>> \/ Head(rents(zip)) = Absent THEN <<>>
            ELSE <<ExternalSignal("median_rent", zip, r, Head(rents(zip)))>>])

\* Census codes what it withholds as a negative number.
CensusAcs(r) ==
    LET signal(type, zip, value) ==
            IF value = Absent \/ value < 0 THEN <<>> ELSE <<ExternalSignal(type, zip, r, value)>>
    IN  IF r.zips = <<>> THEN <<>>
        ELSE Joined([k \in DOMAIN r.acs |->
                signal("median_rent", r.acs[k].zip, r.acs[k].rent)
                \o signal("median_home_value", r.acs[k].zip, r.acs[k].home_value)])

SfhaZones == {"A", "AE", "AH", "AO", "AR", "A99", "V", "VE"}

\* No feature at a point is zone X.
FloodZones(r) ==
    LET located == Where(r.properties, LAMBDA p : p.id # Absent /\ p.zone # Absent)
        score(zone) == IF zone \in SfhaZones THEN 700 ELSE IF zone = "X" THEN 300 ELSE 50
    IN  [k \in DOMAIN located |->
            ExternalSignal("hazard", located[k].id, r, score(located[k].zone))]

\* Incidents per thousand residents, of which 25 are as unsafe as any more.
SafetyScore(incidents, population) ==
    IF population <= 0 THEN 0
    ELSE 1000 - Min({1000, (incidents * 40000) \div population})

ChicagoCrime(r) ==
    LET known == Where(r.zips, LAMBDA zip : zip \in DOMAIN r.population)
    IN  [k \in DOMAIN known |->
            ExternalSignal("safety_score", known[k], r,
                SafetyScore(IF known[k] \in DOMAIN r.incidents THEN r.incidents[known[k]] ELSE 0,
                            r.population[known[k]]))]

Mock(r) ==
    [k \in DOMAIN r.fixture |->
        ExternalSignal(r.fixture[k].type, r.fixture[k].zip, r, r.fixture[k].score)]
--------------------------------------------------------------------------------
(****************************************************************************)
(* The backfill: medians and pressure by zip code, in the order the         *)
(* properties come, then the hazard flags.                                  *)
(****************************************************************************)
Zips(properties) ==
    LET firsts == Where([k \in DOMAIN properties |-> k], LAMBDA k :
            properties[k].zip # Absent /\ \A h \in 1..(k - 1) : properties[h].zip # properties[k].zip)
    IN  [n \in DOMAIN firsts |-> properties[firsts[n]].zip]

Backfill(r) ==
    LET zips == Zips(r.properties)
        of(zip) == Where(r.properties, LAMBDA p : p.zip = zip)
        prices(zip) == Numeric([k \in DOMAIN of(zip) |-> of(zip)[k].price])
        count(zip, status) == Len(Where(of(zip), LAMBDA p : p.status = status))
        flagged == Where(r.properties, LAMBDA p : p.flagged)
    IN  Extend(zips, [zip \in Range(zips) |->
            IF prices(zip) = <<>> THEN <<>>
            ELSE <<ExternalSignal("median_sale_price", zip, r, TwiceMedian(prices(zip)))>>])
        \o Extend(zips, [zip \in Range(zips) |->
            IF count(zip, "active") = 0 THEN <<>>
            ELSE <<ExternalSignal("inventory_pressure", zip, r,
                       (100 * count(zip, "active")) \div Max({1, count(zip, "sold")}))>>])
        \o [k \in DOMAIN flagged |-> ExternalSignal("hazard", flagged[k].id, r, Absent)]
--------------------------------------------------------------------------------
Keyed == {"reinfolib_transaction", "reinfolib_hazard", "reinfolib_land_price",
          "reinfolib_appraisal", "fred_mortgage_rate", "hud_fmr", "census_acs"}
Sources == Keyed \cup {"fema_nfhl", "chicago_crime", "mock", "backfill"}

\* get_provider raises without the key a provider needs.
HasProvider(r) == r.source \in Keyed => r.api_key

FetchSignals(r) ==
    CASE r.source = "reinfolib_transaction" -> Transactions(r)
      [] r.source = "reinfolib_hazard" -> Hazards(r)
      [] r.source = "reinfolib_land_price" -> LandPrices(r)
      [] r.source = "reinfolib_appraisal" -> Appraisals(r)
      [] r.source = "fred_mortgage_rate" -> MortgageRate(r)
      [] r.source = "hud_fmr" -> FairMarketRents(r)
      [] r.source = "census_acs" -> CensusAcs(r)
      [] r.source = "fema_nfhl" -> FloodZones(r)
      [] r.source = "chicago_crime" -> ChicagoCrime(r)
      [] r.source = "mock" -> Mock(r)
      [] r.source = "backfill" -> Backfill(r)
================================================================================
