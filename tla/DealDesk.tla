--------------------------------- MODULE DealDesk ---------------------------------
(****************************************************************************)
(* The desk that looks at a deal: POST /api/listings/{id}/analyze, with its *)
(* four model calls in flight at once, GET /api/properties/recommend, POST  *)
(* /api/underwrite and /api/underwrite/stress-test; and the two that read   *)
(* text, POST /api/strategy/extract and /api/portfolio/import/chat.  A      *)
(* request is followed to its reply; requests share nothing but the rows    *)
(* they read.                                                               *)
(****************************************************************************)
EXTENDS AnalystCouncil, Recommender, Underwriting, StrategyText

CONSTANTS
    Readings,      \* the readings a payload of each persona may have
    InvestorProfiles, \* investor profiles
    Listings,      \* sets of active listings
    Snapshots,     \* the market snapshots build_snapshots may find for an id
    TopN,          \* the length of a list of recommendations
    Deals,         \* underwriting inputs
    Configs,       \* slider ranges
    Texts,         \* descriptions of a strategy
    Conversations, \* the messages of a chat, by number
    ModelReplies,  \* the blocks the model may answer a chat with
    Iterations     \* iterations of a stress test, at least 10 in the code

ASSUME ReadingsAssumption == \A p \in Personas : Readings[p] \subseteq Int \ {NoScore, Unhashable}
ASSUME InvestorsAssumption == InvestorProfiles \subseteq Investors
\* The id is the primary key.
ASSUME ListingsAssumption ==
    \A set \in Listings :
        /\ set \subseteq Properties /\ IsFiniteSet(set)
        /\ \A p, q \in set : p.id = q.id => p = q
ASSUME SnapshotsAssumption == Snapshots \subseteq MarketSnapshots
ASSUME DealsAssumption == Deals \subseteq Inputs
ASSUME ConfigsAssumption ==
    /\ Configs \subseteq [Sliders -> [low : Int, high : Int]]
    /\ \A c \in Configs : {c.rate.low, c.rate.high, Midpoints(c).rate} \subseteq DOMAIN YearlyPayment
ASSUME TextsAssumption == Texts \subseteq Seq(Tokens)
ASSUME RepliesAssumption == ModelReplies \subseteq Seq(Blocks)
ASSUME IterationsAssumption == Iterations \in Nat \ {0} /\ TopN \in Nat \ {0}

VARIABLES
    request,   \* what was asked, with its inputs
    verdicts,  \* the personas that answered, in order of arrival
    runs,      \* the inputs the stress test has sampled
    reply      \* the response

deskVars == <<request, verdicts, runs, reply>>

Waiting == [status |-> "waiting"]
Error == [status |-> "error"]
Idle == [kind |-> "idle"]

DeskInit == request = Idle /\ verdicts = <<>> /\ runs = <<>> /\ reply = Waiting

Handles(kind) == request.kind = kind /\ reply = Waiting
--------------------------------------------------------------------------------
(****************************************************************************)
(* The council.                                                             *)
(****************************************************************************)
Analyze ==
    /\ request = Idle
    /\ request' = [kind |-> "analyze"]
    /\ UNCHANGED <<verdicts, runs, reply>>

Verdicts(persona) ==
    {Verdict(persona, "none", TRUE, r) : r \in Readings[persona] \cup {NoScore}}
    \cup {Verdict(persona, "none", TRUE, Unhashable) : p \in {persona} \cap {"depreciation_strategist"}}
    \cup {Verdict(persona, "none", FALSE, NoScore)}
    \cup {Verdict(persona, error, TRUE, NoScore) : error \in {"malformed_json", "api_error"}}

Outstanding == Personas \ {verdicts[k].persona : k \in DOMAIN verdicts}

\* A model call of _invoke_persona returns.
PersonaAnswers ==
    /\ Handles("analyze")
    /\ \E persona \in Outstanding : \E v \in Verdicts(persona) : verdicts' = Append(verdicts, v)
    /\ UNCHANGED <<request, runs, reply>>

\* Any other exception of a call reaches gather, which raises it at once.
PersonaRaises ==
    /\ Handles("analyze") /\ Outstanding # {}
    /\ reply' = Error
    /\ UNCHANGED <<request, verdicts, runs>>

\* gather returns the results in the order of COUNCIL.
Gathered ==
    LET of(persona) == CHOOSE v \in Range(verdicts) : v.persona = persona
    IN  [k \in DOMAIN Council |-> of(Council[k])]

Review ==
    /\ Handles("analyze") /\ Outstanding = {}
    /\ reply' = IF Unreadable(Gathered) THEN Error
                ELSE [status |-> "ok", verdicts |-> Gathered,
                      overall |-> BlendOverallScore(Gathered), errors |-> Mentioned(Gathered)]
    /\ UNCHANGED <<request, verdicts, runs>>
--------------------------------------------------------------------------------
(****************************************************************************)
(* Recommendations.                                                         *)
(****************************************************************************)

\* The query has no ORDER BY: the candidates come in any order.
Orders(set) == SetToSeqs(set)

Recommend ==
    /\ request = Idle
    /\ \E profile \in InvestorProfiles, set \in Listings :
       \E snapshots \in [{p.id : p \in set} -> Snapshots], candidates \in Orders(set) :
          /\ request' = [kind |-> "recommend", profile |-> profile, candidates |-> candidates,
                         snapshots |-> snapshots]
          /\ reply' = [status |-> "ok",
                       ranked |-> RankProperties(profile, candidates, snapshots, TopN)]
    /\ UNCHANGED <<verdicts, runs>>
--------------------------------------------------------------------------------
(****************************************************************************)
(* Underwriting.                                                            *)
(****************************************************************************)
UnderwriteDeal ==
    /\ request = Idle
    /\ \E deal \in Deals :
          /\ request' = [kind |-> "underwrite", deal |-> deal]
          /\ reply' = [status |-> "ok", result |-> Underwrite(deal)]
    /\ UNCHANGED <<verdicts, runs>>

StressTest ==
    /\ request = Idle
    /\ \E deal \in Deals, config \in Configs :
          /\ request' = [kind |-> "stress", deal |-> deal, config |-> config]
          /\ reply' = IF InOrder(config) THEN Waiting ELSE Error
    /\ UNCHANGED <<verdicts, runs>>

\* One iteration; a slider is sampled at an end of its range.
Sample ==
    /\ Handles("stress") /\ Len(runs) < Iterations
    /\ \E ends \in [Sliders -> {"low", "high"}] :
          runs' = Append(runs, WithSliders(request.deal,
                                   [s \in Sliders |-> request.config[s][ends[s]]]))
    /\ UNCHANGED <<request, verdicts, reply>>

Summarise ==
    /\ Handles("stress") /\ Len(runs) = Iterations
    /\ reply' = [status |-> "ok", statistics |-> Statistics(runs),
                 tornado |-> Tornado(request.deal, request.config)]
    /\ UNCHANGED <<request, verdicts, runs>>

--------------------------------------------------------------------------------
(****************************************************************************)
(* Text.                                                                    *)
(****************************************************************************)
ExtractProfile ==
    /\ request = Idle
    /\ \E text \in Texts :
          /\ request' = [kind |-> "extract", text |-> text]
          /\ reply' = [status |-> "ok", profile |-> ExtractStrategyProfile(text)]
    /\ UNCHANGED <<verdicts, runs>>

\* A chat without a message is refused.
ChatExtract ==
    /\ request = Idle
    /\ \E messages \in Conversations :
          /\ request' = [kind |-> "chat", messages |-> messages]
          /\ reply' = IF messages = 0 THEN Error ELSE Waiting
    /\ UNCHANGED <<verdicts, runs>>

\* The model answers, or its call fails.
ModelAnswers ==
    /\ Handles("chat")
    /\ \/ \E blocks \in ModelReplies :
             /\ request' = [kind |-> "chat", messages |-> request.messages, blocks |-> blocks]
             /\ reply' = IF ExtractionRaises(blocks) THEN Error
                         ELSE [status |-> "ok", holdings |-> ExtractHoldings(blocks)]
       \/ reply' = Error /\ UNCHANGED request
    /\ UNCHANGED <<verdicts, runs>>

DeskNext ==
    \/ Analyze \/ PersonaAnswers \/ PersonaRaises \/ Review
    \/ Recommend
    \/ UnderwriteDeal \/ StressTest \/ Sample \/ Summarise
    \/ ExtractProfile \/ ChatExtract \/ ModelAnswers

DeskSpec == DeskInit /\ [][DeskNext]_deskVars
--------------------------------------------------------------------------------
(****************************************************************************)
(* Properties.                                                              *)
(****************************************************************************)
Replied(kind) == request.kind = kind /\ reply.status = "ok"

\* However the four calls interleave and whichever of them fail, a review lists
\* the personas in the council's order, names exactly those that failed, and
\* blends the others alone: the overall score lies between their scores
\* (analyst_council.py:167-190, 256), and is 0 without any.
ReviewIsOfThoseWhoAnswered ==
    Replied("analyze") =>
        LET readings == {10 * v.reading : v \in Usable(reply.verdicts)}
        IN  /\ [k \in DOMAIN reply.verdicts |-> reply.verdicts[k].persona] = Council
            /\ \A v \in Range(reply.verdicts) :
                  v \in Range(verdicts) /\ (v \in Range(reply.errors) <=> v.error # "none")
            /\ IF readings = {} THEN reply.overall = 0
               ELSE reply.overall \in Min(readings)..Max(readings)

\* "Stable tie-break" (property_recommender.py:455): the recommendations do not
\* depend on the order in which the database returned the candidates, even
\* where scores and prices are equal and the list is cut.
RankingIgnoresQueryOrder ==
    Replied("recommend") =>
        \A order \in Orders(Range(request.candidates)) :
            RankProperties(request.profile, order, request.snapshots, TopN) = reply.ranked

\* The filter (property_recommender.py:98-134) and the geography score (369-403)
\* read the same preferences separately: a listing that the filter let through is
\* not scored as being elsewhere, if the investor named a prefecture, a
\* municipality or a neighborhood, or a zip and the listing's is known.  Two cases
\* are left out, because there the code does score it as elsewhere: a station
\* alone, which the filter does not read, and a zip alone for a listing of unknown
\* zip, which passes at 108-112 and gets 0.2 at 403.
FilteredInIsNotElsewhere ==
    Replied("recommend") =>
        LET geo == request.profile.geo
        IN  \A k \in DOMAIN reply.ranked :
                LET prop == reply.ranked[k].prop
                    named == \/ \E key \in FilterKeys : Asks(geo, key)
                             \/ Asks(geo, "zip") /\ prop.zip # Unknown
                IN  named => GeoScore(request.profile, prop) > NoMatch

\* Three numbers of an underwriting say whether the deal pays for itself
\* (underwriting.py:175-190), each by its own formula: with a loan, cash in and
\* rent, the coverage is at least one exactly when the cash flow is not
\* negative, exactly when the occupancy assumed reaches the break-even.
SolvencyMetricsAgree ==
    Replied("underwrite") =>
        LET d == request.deal  r == reply.result
        IN  DebtService(d) > 0 /\ InitialCash(d) > 0 /\ d.rent > 0 =>
              /\ r.dscr >= One <=> r.cash_on_cash >= 0
              /\ r.dscr >= One <=> r.breakeven_occupancy <= One - d.vacancy

\* Where the flows are an outlay followed by no further one, the reported rate
\* of return encloses a root of the present value (underwriting.py:94-144), on
\* the side of zero that the sum of the flows says.
IrrEnclosesRoot ==
    Replied("underwrite") =>
        LET flows == CashFlows(request.deal)  irr == reply.result.irr  zero == 3
        IN  irr # NoIrr /\ (\A t \in DOMAIN flows : t > 1 => flows[t] >= 0) =>
              /\ NpvSign(flows, irr[1]) * NpvSign(flows, irr[2]) <= 0
              /\ IF NpvSign(flows, zero) >= 0 THEN irr[2] >= zero ELSE irr[1] < zero

\* The parts of a stress test come from the same samples by different routes
\* (stress_test.py:117-152): percentiles are in order, a negative median means at
\* least half of the runs lose money and any other at most half, a loan and cash
\* make the two probabilities equal, and the tornado never shows cash on cash
\* rising with vacancy or with the loan rate.
StressPartsAgree ==
    Replied("stress") =>
        LET s == reply.statistics
            lean(slider) == reply.tornado[slider].low_coc >= reply.tornado[slider].high_coc
        IN  /\ \A part \in {"cash_on_cash", "dscr", "cap_rate"} :
                  s[part][10] <= s[part][50] /\ s[part][50] <= s[part][90]
            /\ IF s.cash_on_cash[50] < 0 THEN 2 * s.negative >= Iterations
               ELSE 2 * s.negative <= Iterations
            /\ Loan(request.deal) > 0 /\ InitialCash(request.deal) > 0 =>
                  s.negative = s.under_1
            /\ lean("vacancy") /\ lean("rate")

\* "Always returns a fully-defaulted StrategyProfile"
\* (strategy_profile.py:229): the profile read out of a text is one a run takes,
\* and is either the default as a whole or has every figure from the text and
\* protects the tenants exactly if the text says so.  The holdings read out of a
\* chat, too, are all or none.  A reply has every entry with an address and a zip
\* that can be read, of all the tool calls; and all of them are lost only where a
\* list is null or an entry has figures the schema refuses or an address that is no
\* text.  That one such entry fails the others is what the code does
\* (portfolio_chat_extractor.py:113, 118, outside the try), although its docstring
\* says "lenient on errors" (112); it is lenient on a missing address and a bad zip.
TextsAreReadWholeOrNotAtAll ==
    /\ Replied("extract") =>
        LET stated == reply.profile.assumptions
            default == DefaultStrategyProfile.assumptions
            said(name, kind) ==
                \/ stated[name] = default[name]
                \/ \E t \in Range(request.text) : t.kind = kind /\ t.figure = stated[name]
        IN  /\ stated.hold_period_years \in 1..50 /\ stated.exit_cap_rate \in 1..500
            /\ stated.vacancy_rate \in 0..1000
            /\ stated.rent_growth \in -500..500 /\ stated.expense_growth \in -500..500
            /\ \/ reply.profile = DefaultStrategyProfile
               \/ /\ said("hold_period_years", "years")
                  /\ \A name \in DOMAIN stated \ {"hold_period_years"} : said(name, "percent")
                  /\ reply.profile.policy_config.tenant_protection <=>
                        \E t \in Range(request.text) : t.kind = "phrase" /\
                            KeywordsOf[t.phrase] \cap Range(ProtectionWords) # {}
    /\ Replied("chat") =>
        \A block \in Range(request.blocks) : block.kind = "tool" =>
            \A entry \in Range(block.entries) :
                entry.object /\ entry.text /\ entry.address # "" /\ entry.zip = "text" =>
                    entry \in Range(reply.holdings)
    /\ request.kind = "chat" /\ reply = Error /\ "blocks" \in DOMAIN request =>
        \E block \in Range(request.blocks) :
            \/ block.kind = "null_tool"
            \/ /\ block.kind = "tool"
               /\ \E entry \in Range(block.entries) :
                     /\ entry.object
                     /\ ~entry.text \/ (entry.address # "" /\ entry.financials = "refused")
================================================================================
