------------------------------ MODULE StrategyText ------------------------------
(****************************************************************************)
(* What the desk reads out of text: a strategy profile, by keywords and the *)
(* figures near them (services/strategy_profile.py), and holdings, out of a *)
(* model's reply to a chat (services/portfolio_chat_extractor.py).  A text  *)
(* is a sequence of tokens: a phrase, "N%" or "N years".  Percentages are   *)
(* in tenths of a percent.                                                  *)
(****************************************************************************)
EXTENDS Series, SequencesExt

CONSTANTS
    KeywordsOf,    \* the keywords that occur in each phrase
    Window         \* how many tokens the 40 characters around a keyword hold

ASSUME WindowAssumption == Window \in Nat

NoFigure == -1

Phrase(p) == [kind |-> "phrase", phrase |-> p, figure |-> NoFigure]
Percent(n) == [kind |-> "percent", phrase |-> "", figure |-> n]
Years(n) == [kind |-> "years", phrase |-> "", figure |-> n]

Tokens ==
    [kind : {"phrase"}, phrase : DOMAIN KeywordsOf, figure : {NoFigure}]
    \cup [kind : {"percent", "years"}, phrase : {""}, figure : Nat]

\* lower.find(keyword): 0 where it does not occur.
FindKeyword(text, keyword) ==
    SelectInSeq(text, LAMBDA t : t.kind = "phrase" /\ keyword \in KeywordsOf[t.phrase])

Mentions(text, keywords) == \E kw \in Range(keywords) : FindKeyword(text, kw) # 0

Figures(text, kind, from, to) ==
    LET tokens == Where(SubSeq(text, IF from < 1 THEN 1 ELSE from,
                               IF to > Len(text) THEN Len(text) ELSE to),
                        LAMBDA t : t.kind = kind)
    IN  [k \in DOMAIN tokens |-> tokens[k].figure]

\* What the first of the keywords that occurs with a figure near it finds.
FirstFound(keywords, found) ==
    LET k == SelectInSeq(keywords, LAMBDA kw : found[kw] # NoFigure)
    IN  IF k = 0 THEN NoFigure ELSE found[keywords[k]]

\* The first figure after the keyword, or else the last before it.
FindPctAfter(text, keywords) ==
    LET near(i) ==
            LET post == Figures(text, "percent", i + 1, i + Window)
                pre == Figures(text, "percent", i - Window, i - 1)
            IN  IF i = 0 \/ post \o pre = <<>> THEN NoFigure
                ELSE IF post # <<>> THEN Head(post) ELSE Last(pre)
    IN  FirstFound(keywords, [kw \in Range(keywords) |-> near(FindKeyword(text, kw))])

FindYearCount(text, keywords) ==
    LET near(i) ==
            LET years == Figures(text, "years", i - Window, i + Window)
            IN  IF i = 0 \/ years = <<>> THEN NoFigure ELSE Head(years)
    IN  FirstFound(keywords, [kw \in Range(keywords) |-> near(FindKeyword(text, kw))])

FindHoldYears(text) ==
    LET close == FindYearCount(text, <<"hold", "horizon", "flip">>)
        years == Figures(text, "years", 1, Len(text))
    IN  IF close # NoFigure THEN close
        ELSE IF Mentions(text, <<"flip", "hold", "exit", "sell">>) /\ years # <<>> THEN Head(years)
        ELSE NoFigure

DetectRiskTolerance(text) ==
    IF Mentions(text, <<"low risk", "conservative", "cautious", "risk-averse">>) THEN "low"
    ELSE IF Mentions(text, <<"high risk", "aggressive", "opportunistic", "high-risk">>) THEN "high"
    ELSE "medium"

DetectOutlook(text) ==
    IF Mentions(text, <<"bullish", "rising", "gentrif", "growth">>) THEN "bullish"
    ELSE IF Mentions(text, <<"bearish", "downturn", "soft", "decline">>) THEN "bearish"
    ELSE "neutral"

DetectTrajectory(text) ==
    IF Mentions(text, <<"displacement", "evict", "rent burden", "rent-burdened">>)
    THEN "displacement_pressure"
    ELSE IF Mentions(text, <<"gentrif", "neighborhood trajectory", "upzon", "trending up">>)
    THEN "neighborhood_trajectory"
    ELSE "none"

TopicKeywords ==
    [market_prices |-> <<"price", "value", "appreciation">>,
     eviction_policy |-> <<"evict", "tenant protection", "displacement">>,
     voucher_program |-> <<"voucher", "section 8">>,
     neighborhood_safety |-> <<"safety", "crime", "secure">>]

DetectTopics(text) == {topic \in DOMAIN TopicKeywords : Mentions(text, TopicKeywords[topic])}

Or(figure, default) == IF figure = NoFigure THEN default ELSE figure

\* The assumptions a text states; no years, and zero years, are ten.
StatedAssumptions(text) ==
    [rent_growth |-> Or(FindPctAfter(text, <<"rent growth", "rents grow", "rents rise">>), 30),
     expense_growth |->
        Or(FindPctAfter(text, <<"expense growth", "opex growth", "expenses grow">>), 25),
     vacancy_rate |-> Or(FindPctAfter(text, <<"vacancy">>), 50),
     hold_period_years |-> LET years == FindHoldYears(text) IN IF years > 0 THEN years ELSE 10,
     exit_cap_rate |-> Or(FindPctAfter(text, <<"exit cap", "cap rate">>), 70),
     loan_rate_outlook |->
        FindPctAfter(text, <<"loan rate", "mortgage rate", "rates rise to", "rates at">>)]

\* Each pair of biases: the wish that is looked for last prevails.
SellBias(text) ==
    IF Mentions(text, <<"buy and hold", "buy-and-hold", "long term", "long-term">>) THEN -40
    ELSE IF Mentions(text, <<"flip", "sell", "exit quickly", "short hold">>) THEN 40 ELSE 0

RaiseRentBias(text) ==
    IF Mentions(text, <<"hold rent", "freeze rent", "tenant protection">>) THEN -40
    ELSE IF Mentions(text, <<"raise rent", "push rent", "market rent">>) THEN 40 ELSE 0

ProtectionWords == <<"tenant protect", "protect tenant", "no displacement">>

\* HeuristicStrategyExtractor.extract, before validation.
StatedProfile(text) ==
    [assumptions |-> StatedAssumptions(text),
     policy_config |-> [risk_tolerance |-> DetectRiskTolerance(text), sell_bias |-> SellBias(text),
                        raise_rent_bias |-> RaiseRentBias(text),
                        tenant_protection |-> Mentions(text, ProtectionWords)],
     thesis |-> [trajectory |-> DetectTrajectory(text), market_outlook |-> DetectOutlook(text),
                 sentiment_topics |-> DetectTopics(text)]]

DefaultStrategyProfile == StatedProfile(<<>>)

\* Mutant: the schema takes any number of years.
ValidAssumptions_AnyYears(a) ==
    /\ {a.rent_growth, a.expense_growth} \subseteq -500..500
    /\ a.vacancy_rate \in 0..1000
    /\ a.exit_cap_rate \in 1..500

\* The ranges of the schema.
ValidAssumptions(a) ==
    /\ {a.rent_growth, a.expense_growth} \subseteq -500..500
    /\ a.vacancy_rate \in 0..1000
    /\ a.hold_period_years \in 1..50
    /\ a.exit_cap_rate \in 1..500

\* A profile that is refused by the schema is dropped as a whole.
ExtractStrategyProfile(text) ==
    IF text # <<>> /\ ValidAssumptions(StatedAssumptions(text)) THEN StatedProfile(text)
    ELSE DefaultStrategyProfile
--------------------------------------------------------------------------------
(****************************************************************************)
(* A reply of the model is a sequence of blocks; a tool call's holdings are *)
(* a list of entries.  An entry that is no object, has no address or has a  *)
(* zip code the schema refuses is left out; financials the schema refuses   *)
(* raise, and so do an address that is no text (an empty one aside) and a   *)
(* list that is null.                                                       *)
(****************************************************************************)
ChatEntries ==
    [object : BOOLEAN, text : BOOLEAN, address : STRING,
     financials : {"none", "valid", "refused"}, zip : {"text", "number"}]

Blocks == [kind : {"text", "tool", "null_tool"}, entries : Seq(ChatEntries)]

Entries(blocks) ==
    Joined([k \in DOMAIN blocks |-> IF blocks[k].kind = "tool" THEN blocks[k].entries ELSE <<>>])

CoercibleAddress(entry) == entry.object /\ entry.text /\ entry.address # ""

RaisesInCoercion(entry) ==
    \/ entry.object /\ ~entry.text
    \/ CoercibleAddress(entry) /\ entry.financials = "refused"

ExtractionRaises(blocks) ==
    \/ \E block \in Range(blocks) : block.kind = "null_tool"
    \/ \E entry \in Range(Entries(blocks)) : RaisesInCoercion(entry)

ExtractHoldings(blocks) ==
    Where(Entries(blocks), LAMBDA entry : CoercibleAddress(entry) /\ entry.zip = "text")
================================================================================
