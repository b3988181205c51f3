------------------------------- MODULE MCDealDesk -------------------------------
(****************************************************************************)
(* Instances of DealDesk for TLC: readings at the ends and a usual one,     *)
(* three listings of which two tie, deals around the point where they pay   *)
(* for themselves, and sliders on both sides of it.                         *)
(****************************************************************************)
EXTENDS DealDesk

ReadingsDef ==
    [risk_finder |-> {0, 60}, location_advantage |-> {80},
     depreciation_strategist |-> {ThesisScore("aparuto_shield"), ThesisScore("weak")},
     vacancy_demand |-> {95}]

PartOfDef == {<<"Shinjuku", "Shinjuku-ku">>}

Listing(id, price, prefecture, municipality, stations, address) ==
    [id |-> id, price |-> price, zip |-> Unknown, prefecture |-> prefecture,
     municipality |-> municipality, neighborhood |-> Unknown, stations |-> stations,
     address |-> address]

ListingsDef ==
    {{Listing(1, 30000, "Tokyo", "Shinjuku-ku", {"Yotsuya"}, {"Tokyo"}),
      Listing(2, 30000, "Tokyo", "Shinjuku-ku", {"Yotsuya"}, {"Tokyo"}),
      Listing(3, 20000, Unknown, Unknown, {"Ueno"}, {"Tokyo", "Shinjuku-ku"})},
     {Listing(1, 30000, Unknown, "Taito-ku", {"Ueno"}, {}),
      [Listing(2, 20000, Unknown, Unknown, {}, {"Taito-ku"}) EXCEPT !.zip = "160-0004"]}}

Geo(asked) == [key \in GeoKeys |-> IF key \in DOMAIN asked THEN asked[key] ELSE Unknown]

Profile(strategy, budget, cap, geo) ==
    [strategy |-> strategy, budget |-> budget, target_cap_rate |-> cap, geo |-> geo]

ProfilesDef ==
    {Profile(s, 28600, 600, Geo([municipality |-> "Shinjuku"])) : s \in Strategies}
    \cup {Profile("flip", Missing, Missing, Geo(asked)) :
              asked \in {[prefecture |-> "Tokyo"], [station |-> "Ueno"], [zip |-> Unknown],
                         [zip |-> Blank], [zip |-> "160-0004"], [city |-> Blank, zip |-> "160-0004"],
                         [ward |-> "Taito-ku", zip |-> "160-0004"],
                         [city |-> "Taito-ku", state |-> "Osaka"]}}

SnapshotsDef ==
    {NoSnapshot,
     [median_rent |-> 150, median_sale_price |-> 28000, inventory |-> 4000, safety |-> 70,
      hazards |-> {"low", "high"}],
     [NoSnapshot EXCEPT !.median_sale_price = 30000, !.hazards = {"moderate"}]}

Deal(down, closing, rent, vacancy, rate, opex) ==
    [price |-> 3000, down |-> down, closing |-> closing, rent |-> rent, vacancy |-> vacancy,
     rate |-> rate, opex |-> opex, rent_growth |-> 300, expense_growth |-> 200,
     exit_cap |-> 700, selling |-> 600]

DealsDef ==
    {Deal(down, closing, rent, 500, 700, 40) :
        down \in {0, 600, 3000}, closing \in {0, 90}, rent \in {0, 20, 23, 24, 30}}

YearlyPaymentDef == 0 :> 333 @@ 500 :> 644 @@ 650 :> 758 @@ 700 :> 798 @@ 800 :> 881

Span(low, high) == [low |-> low, high |-> high]

ConfigsDef ==
    {[vacancy |-> Span(0, 1200), rent_growth |-> Span(0, 0), expense_growth |-> Span(200, 200),
      rate |-> rates, exit_cap |-> Span(600, 850)] : rates \in {Span(500, 800), Span(800, 500)}}

KeywordsOfDef ==
    "rent growth" :> {"rent growth", "growth"} @@ "vacancy" :> {"vacancy"}
    @@ "exit cap" :> {"exit cap", "exit"} @@ "buy and hold" :> {"buy and hold", "hold"}
    @@ "flip" :> {"flip"} @@ "mortgage rate" :> {"mortgage rate"}
    @@ "tenant protection" :> {"tenant protection", "tenant protect"}
    @@ "raise rents, risk-averse, gentrifying" :> {"raise rent", "risk-averse", "gentrif"}

TokensDef ==
    {Phrase(p) : p \in DOMAIN KeywordsOfDef} \cup {Percent(60), Percent(800), Years(0), Years(60), Years(5)}

TextsDef == UNION {[1..n -> TokensDef] : n \in 0..3}

Entry(address, financials, zip) ==
    [object |-> TRUE, text |-> TRUE, address |-> address, financials |-> financials, zip |-> zip]

EntriesDef ==
    {Entry("a1", "none", "text"), Entry("a2", "valid", "number"), Entry("", "refused", "text"),
     Entry("a3", "refused", "text"), [Entry("a4", "valid", "text") EXCEPT !.object = FALSE],
     [Entry("", "none", "text") EXCEPT !.text = FALSE]}

ModelRepliesDef ==
    LET tools == {[kind |-> "tool", entries |-> e] : e \in UNION {[1..n -> EntriesDef] : n \in 0..2}}
        blocks == tools \cup {[kind |-> "text", entries |-> <<>>], [kind |-> "null_tool", entries |-> <<>>]}
    IN  UNION {[1..n -> blocks] : n \in 0..2}
================================================================================
