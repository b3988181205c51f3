------------------------------- MODULE Onboarding -------------------------------
(****************************************************************************)
(* The guided start of a new investor: HomeGate, OnboardingWizard and its   *)
(* steps (chat and CSV import, investor profile, recommendations, confirm), *)
(* with the calls they have in flight and the endpoints that answer them.   *)
(*                                                                          *)
(* The browser is single threaded: an action is one event handler or one    *)
(* continuation of an await, with the renders and mount effects it causes.  *)
(* Every change of the wizard's state is written to sessionStorage, so wiz  *)
(* also is what a later mount of the wizard finds there.                    *)
(*                                                                          *)
(* The endpoints are atomic here: Portfolio has the interleavings of their  *)
(* transactions.  Portfolios are not deleted meanwhile.  Error messages and *)
(* importSummary are only shown; the conversation only reaches the model,   *)
(* whose extraction may return any holdings.                                *)
(****************************************************************************)
EXTENDS Naturals, FiniteSets, SequencesExt

CONSTANTS
    Drafts,       \* complete investment conditions, as the form accepts them
    Ranking,      \* the properties recommended to each, best first
    Properties,   \* rows of the properties table
    AddressOf,    \* the address of each
    Addresses,    \* addresses up to trim and case
    Files,        \* what parseHoldingsCsv makes of the files at hand
    Extractions,  \* the holdings an extraction may return
    MaxInFlight   \* bound on the calls in flight at once

ASSUME RankingAssumption == Ranking \in [Drafts -> Seq(Properties)]
ASSUME AddressAssumption == AddressOf \in [Properties -> Addresses]
ASSUME RowsAssumption == Files \cup Extractions \subseteq Seq(Addresses)

None == "none"
NoPortfolio == 0       \* portfolios are numbered as they are made
Blank == "blank"      \* an incomplete draft
ASSUME NoneAssumption == {None, Blank} \cap (Drafts \cup Properties \cup Addresses) = {}

VARIABLES
    identity,   \* whom useAuth names: nobody, user_profiles.id, or a Supabase
                \* id that resolve_user_id links to a profile
    page,       \* the page on screen: the gate while it decides, the wizard, or
                \* elsewhere (dashboard, portfolio, a run)
    wiz,        \* the wizard's reducer state, persisted
    screen,     \* the local state of the component on screen
    calls,      \* the HTTP calls in flight, twins of one component as one
    stored,     \* the user's investor_profiles row
    portfolios, \* the user's portfolios
    holdings    \* and what they hold

browser == <<identity, page, wiz, screen>>
server == <<stored, portfolios, holdings>>
vars == <<browser, calls, server>>

\* An answer reaches the component that asked as long as it is mounted: the
\* step, else the wizard around it, else only the page; after a reload nothing.
Owners == {"step", "wizard", "page", "nobody"}
OnStep(call, kind) == call.kind = kind /\ call.owner = "step"
InWizard(call) == call.owner \in {"step", "wizard"}

FirstState == [step |-> "fork", has |-> None, method |-> None, draft |-> Blank,
               selected |-> None, portfolio |-> NoPortfolio]

\* owed is history: what extractions have put in the chat step's table and the
\* user has not changed or removed since.
EmptyScreen == [rows |-> <<>>, owed |-> {}, pending |-> FALSE, committing |-> FALSE,
                launching |-> FALSE, list |-> None, ranked |-> <<>>]

Init ==
    /\ identity \in {None, "internal", "linked"}
    /\ page = "elsewhere" /\ wiz = FirstState /\ screen = EmptyScreen
    /\ calls = {}
    /\ stored = None /\ portfolios = {} /\ holdings = {}
--------------------------------------------------------------------------------
(****************************************************************************)
(* Calls and mounted components.                                            *)
(****************************************************************************)
AskBeside(cs, kind, data) ==
    /\ Cardinality(cs) < MaxInFlight
    /\ calls' = cs \cup {[kind |-> kind, data |-> data, at |-> "asked", result |-> None,
                          owner |-> "step"]}

Ask(kind, data) == AskBeside(calls, kind, data)

Effectless == {"extract", "list", "gate"}

\* Nothing listens to the answer any more.
Unheard(call) ==
    \/ call.owner = "nobody"
    \/ call.owner = "page" /\ call.kind # "launch"
    \/ call.owner = "wizard" /\ call.kind \in Effectless

\* What is left of a call: an unheard one only matters until it is served.
Rest(call) ==
    IF ~Unheard(call) THEN {call}
    ELSE IF call.at = "answered" \/ call.kind \in Effectless THEN {}
    ELSE {[call EXCEPT !.owner = "nobody"]}

\* The components that made the calls of these owners are unmounted.
Orphan(cs, owners, to) ==
    UNION {IF call.owner \in owners THEN Rest([call EXCEPT !.owner = to]) ELSE {call} :
           call \in cs}

\* A step comes on screen; RecommendationList asks for its list at once.
MountStep(step, cs) ==
    IF step = "recommendations" /\ identity # None
    THEN /\ screen' = [EmptyScreen EXCEPT !.list = "loading"]
         /\ AskBeside(cs, "list", None)
    ELSE /\ screen' = [EmptyScreen EXCEPT !.list = IF step = "recommendations"
                                                   THEN "refused" ELSE None]
         /\ calls' = cs

\* dispatch and the render that follows: another step replaces the component,
\* the same step keeps it and its local state.
Render(w, cs, local) ==
    /\ wiz' = w
    /\ IF w.step # wiz.step THEN MountStep(w.step, Orphan(cs, {"step"}, "wizard"))
       ELSE calls' = cs /\ screen' = local

Navigate(to, cs) ==
    /\ page' = to
    /\ calls' = Orphan(cs, {"step", "wizard"}, "page")
    /\ screen' = EmptyScreen
--------------------------------------------------------------------------------
(****************************************************************************)
(* The user in the wizard.                                                  *)
(****************************************************************************)
At(step) == page = "wizard" /\ wiz.step = step

AnswerFork ==
    /\ At("fork")
    /\ \E answer \in {"yes", "no"} :
          Render([wiz EXCEPT !.has = answer,
                             !.step = IF answer = "yes" THEN "import_method"
                                      ELSE "profile_form"], calls, screen)
    /\ UNCHANGED <<identity, page, server>>

PickMethod ==
    /\ At("import_method")
    /\ \E method \in {"csv_import", "chat_import"} :
          Render([wiz EXCEPT !.method = method, !.step = method], calls, screen)
    /\ UNCHANGED <<identity, page, server>>

\* backMap; has and method still hold what the other branch left there.
Before(w) ==
    CASE w.step \in {"import_method", "profile_form"} -> "fork"
      [] w.step \in {"csv_import", "chat_import"} -> "import_method"
      [] w.step = "recommendations" -> "profile_form"
      [] w.step = "confirm" /\ w.has # "yes" -> "recommendations"
      [] w.step = "confirm" /\ w.has = "yes" ->
             IF w.method = None THEN "import_method" ELSE w.method

Back ==
    /\ page = "wizard" /\ wiz.step # "fork"
    /\ Render([wiz EXCEPT !.step = Before(wiz)], calls, screen)
    /\ UNCHANGED <<identity, page, server>>

\* A burst of field changes ends in a complete draft or an incomplete one.
EditProfile ==
    /\ At("profile_form")
    /\ \E draft \in Drafts \cup {Blank} : wiz' = [wiz EXCEPT !.draft = draft]
    /\ UNCHANGED <<identity, page, screen, calls, server>>

SubmitProfile ==
    /\ At("profile_form") /\ wiz.draft # Blank /\ identity # None
    /\ Ask("upsert", wiz.draft)
    /\ UNCHANGED <<browser, server>>

\* Mutant: a second message may be sent while the first is answered.
Send_WhilePending ==
    /\ At("chat_import")
    /\ Ask("extract", screen.rows)
    /\ screen' = [screen EXCEPT !.pending = TRUE]
    /\ UNCHANGED <<identity, page, wiz, server>>

\* The continuation will merge with the rows of this moment.
Send ==
    /\ At("chat_import") /\ ~screen.pending
    /\ Ask("extract", screen.rows)
    /\ screen' = [screen EXCEPT !.pending = TRUE]
    /\ UNCHANGED <<identity, page, wiz, server>>

EditRow ==
    /\ At("chat_import")
    /\ \E i \in DOMAIN screen.rows, address \in Addresses :
          screen' = [screen EXCEPT !.rows[i] = address, !.owed = @ \ {screen.rows[i]}]
    /\ UNCHANGED <<identity, page, wiz, calls, server>>

RemoveRow ==
    /\ At("chat_import")
    /\ \E i \in DOMAIN screen.rows :
          screen' = [screen EXCEPT !.rows = RemoveAt(@, i), !.owed = @ \ {screen.rows[i]}]
    /\ UNCHANGED <<identity, page, wiz, calls, server>>

CommitChat ==
    /\ At("chat_import") /\ screen.rows # <<>> /\ ~screen.committing /\ identity # None
    /\ Ask("import", screen.rows)
    /\ screen' = [screen EXCEPT !.committing = TRUE]
    /\ UNCHANGED <<identity, page, wiz, server>>

ImportCsv ==
    /\ At("csv_import") /\ ~screen.committing /\ identity # None
    /\ \E file \in Files : file # <<>> /\ Ask("import", file)
    /\ screen' = [screen EXCEPT !.committing = TRUE]
    /\ UNCHANGED <<identity, page, wiz, server>>

\* Mutant: the choice is dispatched before the portfolio is made.
SelectProperty_BeforeAnswer ==
    /\ At("recommendations") /\ identity # None
    /\ \E p \in Range(screen.ranked) :
          Ask("select", p) /\ wiz' = [wiz EXCEPT !.selected = p]
    /\ UNCHANGED <<identity, page, screen, server>>

SelectProperty ==
    /\ At("recommendations") /\ identity # None
    /\ \E p \in Range(screen.ranked) : Ask("select", p)
    /\ UNCHANGED <<browser, server>>

Launch ==
    /\ At("confirm") /\ wiz.portfolio # NoPortfolio /\ ~screen.launching
    /\ Ask("launch", wiz.portfolio)
    /\ screen' = [screen EXCEPT !.launching = TRUE]
    /\ UNCHANGED <<identity, page, wiz, server>>

Skip ==
    /\ At("confirm")
    /\ wiz' = FirstState
    /\ Navigate("elsewhere", calls)
    /\ UNCHANGED <<identity, server>>
--------------------------------------------------------------------------------
(****************************************************************************)
(* The user between the pages.                                              *)
(****************************************************************************)
Leave ==
    /\ page # "elsewhere"
    /\ Navigate("elsewhere", calls)
    /\ UNCHANGED <<identity, wiz, server>>

Reload ==
    /\ page' = "elsewhere" /\ screen' = EmptyScreen
    /\ calls' = Orphan(calls, Owners, "nobody")
    /\ UNCHANGED <<identity, wiz, server>>

OpenWizard(cs) ==
    /\ page' = "wizard"
    /\ MountStep(wiz.step, Orphan(cs, {"step", "wizard"}, "page"))

VisitWizard ==
    /\ page = "elsewhere"
    /\ OpenWizard(calls)
    /\ UNCHANGED <<identity, wiz, server>>

\* HomeGate, once useAuth has loaded; without a user it shows the dashboard.
VisitHome ==
    /\ page = "elsewhere" /\ identity # None
    /\ page' = "home"
    /\ Ask("gate", None)
    /\ UNCHANGED <<identity, wiz, screen, server>>
--------------------------------------------------------------------------------
(****************************************************************************)
(* The endpoints.                                                           *)
(****************************************************************************)
Asked(call, kind) == call.kind = kind /\ call.at = "asked"

Done(call) == calls \ {call}

Reply(call, result) ==
    calls' = Done(call) \cup Rest([call EXCEPT !.at = "answered", !.result = result])

\* upsert_investor_profile
ServeUpsert(call) ==
    /\ Asked(call, "upsert")
    /\ stored' = call.data
    /\ Reply(call, "ok")
    /\ UNCHANGED <<browser, portfolios, holdings>>

\* recommend_properties looks the row up by the id it is given, unresolved;
\* without one it answers 404.
ProfileFound == identity = "internal" /\ stored # None

ServeList(call) ==
    /\ Asked(call, "list") /\ ProfileFound
    /\ Reply(call, Ranking[stored])
    /\ UNCHANGED <<browser, server>>

Hold(id, address, property) == [portfolio |-> id, address |-> address, property |-> property]

\* _bulk_import_holdings: the first portfolio found, or a new one; rows whose
\* address some portfolio of the user holds only update that holding.
ServeImport(call) ==
    /\ Asked(call, "import")
    /\ \E id \in IF portfolios = {} THEN {1} ELSE portfolios :
          LET new == Range(call.data) \ {h.address : h \in holdings}
          IN  /\ portfolios' = portfolios \cup {id}
              /\ holdings' = holdings \cup {Hold(id, address, None) : address \in new}
              /\ Reply(call, id)
    /\ UNCHANGED <<browser, stored>>

\* portfolio_from_property
ServeSelect(call) ==
    /\ Asked(call, "select")
    /\ \/ \E h \in holdings :
             /\ h.property = call.data
             /\ Reply(call, h.portfolio)
             /\ UNCHANGED <<portfolios, holdings>>
       \/ /\ \A h \in holdings : h.property # call.data
          /\ LET id == Cardinality(portfolios) + 1
             IN  /\ portfolios' = portfolios \cup {id}
                 /\ holdings' = holdings \cup {Hold(id, AddressOf[call.data],
                                                    call.data)}
                 /\ Reply(call, id)
    /\ UNCHANGED <<browser, stored>>

\* get_onboarding_state
ServeGate(call) ==
    /\ Asked(call, "gate")
    /\ Reply(call, holdings # {})
    /\ UNCHANGED <<browser, server>>

\* A call whose caller is gone may also never arrive.
Drop(call) ==
    /\ call.owner = "nobody"
    /\ calls' = Done(call)
    /\ UNCHANGED <<browser, server>>

Serve(call) ==
    \/ ServeUpsert(call) \/ ServeList(call) \/ ServeImport(call) \/ ServeSelect(call)
    \/ ServeGate(call) \/ Drop(call)
--------------------------------------------------------------------------------
(****************************************************************************)
(* Answers.  Neither the extraction nor, here, the launch of a run changes  *)
(* what another call reads: their service is part of the answer.            *)
(****************************************************************************)
Answered(call, kind) == call.kind = kind /\ call.at = "answered"

\* later turns override earlier ones: one row per address, whatever their order
MergeRows(old, new) == SetToSeq(Range(old) \cup Range(new))

AnswerExtract(call) ==
    /\ Asked(call, "extract")
    /\ \E found \in Extractions :
          screen' = [screen EXCEPT
              !.pending = FALSE,
              !.rows = IF found = <<>> THEN @ ELSE MergeRows(call.data, found),
              !.owed = @ \cup Range(found)]
    /\ calls' = Done(call)
    /\ UNCHANGED <<identity, page, wiz, server>>

\* Mutant: the portfolio is taken from the state the step was rendered with.
AnswerImport_KeepsPortfolio(call) ==
    /\ Answered(call, "import")
    /\ Render([wiz EXCEPT !.step = "confirm"], Done(call),
              [screen EXCEPT !.committing = @ /\ ~OnStep(call, "import")])
    /\ UNCHANGED <<identity, page, server>>

\* onImported dispatches to the wizard, whatever step it shows by now.
AnswerImport(call) ==
    /\ Answered(call, "import")
    /\ Render([wiz EXCEPT !.portfolio = call.result, !.step = "confirm"], Done(call),
              [screen EXCEPT !.committing = @ /\ ~OnStep(call, "import")])
    /\ UNCHANGED <<identity, page, server>>

AnswerUpsert(call) ==
    /\ Answered(call, "upsert")
    /\ Render([wiz EXCEPT !.step = "recommendations"], Done(call), screen)
    /\ UNCHANGED <<identity, page, server>>

AnswerList(call) ==
    /\ Answered(call, "list")
    /\ screen' = [screen EXCEPT !.list = "shown", !.ranked = call.result]
    /\ calls' = Done(call)
    /\ UNCHANGED <<identity, page, wiz, server>>

AnswerSelect(call) ==
    /\ Answered(call, "select")
    /\ Render([wiz EXCEPT !.selected = call.data, !.portfolio = call.result,
                          !.step = "confirm"], Done(call), screen)
    /\ UNCHANGED <<identity, page, server>>

\* navigate works after an unmount, dispatch does not.
AnswerLaunch(call) ==
    /\ Asked(call, "launch") /\ ~Unheard(call)
    /\ wiz' = IF InWizard(call) THEN FirstState ELSE wiz
    /\ Navigate("elsewhere", Done(call))
    /\ UNCHANGED <<identity, server>>

AnswerGate(call) ==
    /\ Answered(call, "gate")
    /\ IF call.result
       THEN Navigate("elsewhere", Done(call))
       ELSE OpenWizard(Done(call))
    /\ UNCHANGED <<identity, wiz, server>>

\* Mutant: without the finally block a failed call leaves its spinner on.
AnswerFailure_NoFinally(call) ==
    /\ ~Unheard(call)
    /\ calls' = Done(call)
    /\ UNCHANGED <<browser, server>>

\* catch and finally of the handler that asked, if it is still there: the call
\* was refused, its answer was lost, or it may still arrive.
AnswerFailure(call) ==
    /\ ~Unheard(call)
    /\ calls' \in {Done(call), Done(call) \cup Rest([call EXCEPT !.owner = "nobody"])}
    /\ screen' = [screen EXCEPT
           !.pending = @ /\ ~OnStep(call, "extract"),
           !.committing = @ /\ ~OnStep(call, "import"),
           !.launching = @ /\ ~OnStep(call, "launch"),
           !.list = IF OnStep(call, "list") THEN "refused" ELSE @]
    /\ page' = IF OnStep(call, "gate") THEN "elsewhere" ELSE page
    /\ UNCHANGED <<identity, wiz, server>>

Answer(call) ==
    \/ AnswerExtract(call) \/ AnswerImport(call) \/ AnswerUpsert(call) \/ AnswerList(call)
    \/ AnswerSelect(call) \/ AnswerLaunch(call) \/ AnswerGate(call) \/ AnswerFailure(call)

User ==
    \/ AnswerFork \/ PickMethod \/ Back \/ EditProfile \/ SubmitProfile
    \/ Send \/ EditRow \/ RemoveRow \/ CommitChat \/ ImportCsv
    \/ SelectProperty \/ Launch \/ Skip
    \/ Leave \/ Reload \/ VisitWizard \/ VisitHome

Next == User \/ \E call \in calls : Serve(call) \/ Answer(call)

Spec == Init /\ [][Next]_vars
--------------------------------------------------------------------------------
(****************************************************************************)
(* Properties.                                                              *)
(****************************************************************************)

\* Whatever order imports, choices, Back and reloads happen in
\* (OnboardingWizard.tsx: csv_imported may come from a step already left), the
\* confirm step has a portfolio to launch, and it is one the server has stored.
ConfirmIsBacked ==
    /\ page = "wizard" /\ wiz.step = "confirm" => wiz.portfolio # NoPortfolio
    /\ wiz.portfolio # NoPortfolio => wiz.portfolio \in portfolios

\* The property the wizard remembers as chosen is held in a portfolio of the
\* user: select_property is dispatched only after from-property has answered,
\* and a failed or lost answer leaves the choice as it was.
SelectedIsHeld ==
    wiz.selected # None => \E h \in holdings : h.property = wiz.selected

\* "The extracted rows accumulate in an editable preview table"
\* (ChatImportStep.tsx:30): an address that a turn extracted stays in the table
\* until the user changes or removes that row.
ExtractionsAccumulate ==
    page = "wizard" /\ wiz.step = "chat_import" =>
        screen.owed \subseteq Range(screen.rows)

\* A button disabled by a pending call, a loading list and a closed gate wait
\* for a call of this very component that is still to be answered.
SpinnerHasCall ==
    LET waits(kind) == \E call \in calls : OnStep(call, kind)
    IN  /\ screen.pending => waits("extract")
        /\ screen.committing => waits("import")
        /\ screen.launching => waits("launch")
        /\ screen.list = "loading" => waits("list")
        /\ page = "home" => waits("gate")

\* "The user must have an InvestorProfile row (created by the onboarding
\* wizard's no portfolio branch)" (api/properties.py:100-102): with that row stored
\* no list is refused for want of it.
StoredProfileIsFound ==
    \A call \in calls : Asked(call, "list") /\ stored # None => ProfileFound
================================================================================
