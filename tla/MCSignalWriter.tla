----------------------------- MODULE MCSignalWriter -----------------------------
(****************************************************************************)
(* Instances of SignalWriter for TLC: a request of every provider, over few *)
(* subjects that several of them write, stamped with one evening in UTC, in *)
(* JST (the next JST day) and naively, or with the next day.                *)
(****************************************************************************)
EXTENDS SignalWriter

Utc(h) == [aware |-> TRUE, offset |-> 0, hour |-> h]
Jst(h) == [aware |-> TRUE, offset |-> 9, hour |-> h + 9]
Naive(h) == [aware |-> FALSE, offset |-> 0, hour |-> h]

TileXDef == 1 :> 5 @@ 2 :> 6
TileYDef == 1 :> 9 @@ 2 :> 8

Request(source, stamp) == [source |-> source, observed_at |-> stamp, api_key |-> TRUE]

Loop == "60601"
Trade(price, unit) == <<[price |-> price, unit |-> unit]>>

\* February 2026; the first city was last published for the third quarter of 2025.
Sales(year, quarter) ==
    Request("reinfolib_transaction", Utc(18)) @@
    [year |-> year, quarter |-> quarter, date |-> <<2026, 2>>, codes |-> <<"13101", "13102">>,
     trades |-> <<"13101", <<2025, 3>>>> :> Trade(50, Absent)
             @@ <<"13101", <<2025, 2>>>> :> Trade(40, 7)
             @@ <<"13102", <<2025, 4>>>> :> Trade(90, Absent)
             @@ <<"13102", <<2025, 3>>>> :> Trade(70, Absent) \o Trade(80, Absent)]

RequestsDef ==
    [hud |-> Request("hud_fmr", Naive(18)) @@ [zips |-> <<Loop>>, fmr |-> Loop :> <<2000>>],
     hud_late |-> Request("hud_fmr", Naive(20)) @@ [zips |-> <<Loop>>, fmr |-> Loop :> <<2000>>],
     census |-> Request("census_acs", Jst(18)) @@
        [zips |-> <<Loop>>, acs |-> <<[zip |-> Loop, rent |-> 1900, home_value |-> -666]>>],
     mock |-> Request("mock", Naive(25)) @@
        [fixture |-> <<[type |-> "safety_score", zip |-> Loop, score |-> 620],
                       [type |-> "median_rent", zip |-> Loop, score |-> 2250]>>],
     crime |-> Request("chicago_crime", Naive(18)) @@
        [zips |-> <<"99999", Loop>>, population |-> Loop :> 14000, incidents |-> Loop :> 100],
     fred |-> [Request("fred_mortgage_rate", Naive(18)) EXCEPT !.api_key = FALSE]
        @@ [observations |-> <<650>>],
     rate |-> Request("fred_mortgage_rate", Naive(18)) @@ [observations |-> <<650>>],
     sales |-> Sales(2025, Absent),
     past_sales |-> Sales(2025, 2),
     no_sales |-> [Sales(Absent, Absent) EXCEPT !.date = <<2027, 8>>],
     hazard |-> Request("reinfolib_hazard", Utc(18)) @@
        [lat |-> 1, lng |-> 1, radius |-> 1,
         liquefaction |-> <<4, 9>> :> <<[mesh |-> Absent, level |-> 2]>>,
         flood |-> <<5, 10>> :> <<"over_10m", "0.5m_3m">>, landslide |-> <<6, 8>> :> 0],
     land |-> Request("reinfolib_land_price", Utc(18)) @@
        [bbox |-> [min_lat |-> 1, max_lat |-> 2, min_lng |-> 1, max_lng |-> 2],
         points |-> [tile \in {<<5, 9>>, <<6, 9>>} |-> <<[price |-> tile[1], point |-> "pt"]>>]],
     appraisal |-> Request("reinfolib_appraisal", Utc(18)) @@
        [divisions |-> <<"00", "05">>,
         appraisals |-> "00" :> <<[price |-> 300, address |-> "pt", point |-> Absent]>>
                     @@ "05" :> <<[price |-> 900, address |-> "pt", point |-> Absent]>>],
     fema |-> Request("fema_nfhl", Naive(18)) @@
        [properties |-> <<[id |-> "p1", zone |-> "AE"], [id |-> "p2", zone |-> Absent]>>],
     backfill |-> Request("backfill", Naive(20)) @@
        [properties |->
            <<[id |-> "p1", zip |-> Loop, price |-> 300, status |-> "active", flagged |-> TRUE],
              [id |-> "p3", zip |-> Absent, price |-> 200, status |-> "sold", flagged |-> FALSE]>>]]

ScheduleDef ==
    [j1 |-> DOMAIN RequestsDef, j2 |-> {"hud", "hud_late", "mock", "hazard", "sales", "backfill"},
     j3 |-> {"census", "mock"}]
================================================================================
