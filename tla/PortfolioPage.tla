------------------------------ MODULE PortfolioPage ------------------------------
(****************************************************************************)
(* The portfolio page: the investor and portfolio selectors of              *)
(* PortfolioPage.tsx over the overview, holdings and decisions tabs, with   *)
(* the CSV panel inside the holdings tab.                                   *)
(*                                                                          *)
(* A tab is not keyed by the portfolio: when the selection changes it stays *)
(* mounted, keeps its local state and reruns its effects.  The overview and *)
(* the list of the decisions tab ignore answers of an earlier effect        *)
(* (`active`); the holdings tab and evaluate do not.                        *)
(*                                                                          *)
(* The page is not left meanwhile; SimulationTab has the simulation tab and *)
(* DealDesk what the underwriting tabs compute.  Messages inside a tab, the *)
(* decision on show, the holdings tab's loading line and the text of forms  *)
(* are left out.  So is removing a holding: the DELETE answers 204 without  *)
(* a body, fetchJSON fails to parse it, and the page does nothing with it   *)
(* (HoldingsTab.tsx:90, utils/api.ts:21).                                   *)
(****************************************************************************)
EXTENDS Naturals, FiniteSets, SequencesExt

CONSTANTS
    Users,          \* rows of user_profiles, as the selector lists them
    FirstUser,      \* the first of them
    Rows,           \* holdings the form or a CSV row describes
    Drafts,         \* those of the form
    Files,          \* what parseHoldingsCsv and the user's edits make of the files
                    \* at hand
    MaxPortfolios,  \* bounds on what is stored
    MaxHoldings,
    MaxInFlight     \* bound on the calls in flight at once

ASSUME FirstUserAssumption == FirstUser \in Users
ASSUME RowsAssumption == Drafts \subseteq Rows /\ Files \subseteq Seq(Rows)

None == "none"
Nothing == 0   \* no portfolio, no holding: both are numbered as they are made
ASSUME NoneAssumption == None \notin Users \cup Rows

VARIABLES
    owner,      \* the user of each portfolio
    holdings,   \* each holding's portfolio and row
    user,       \* selectedUserId
    listed,     \* portfolios
    selected,   \* selectedPortfolioId
    failed,     \* whether error is shown
    tab,        \* activeTab
    view,       \* the local state of the tab on screen
    calls,      \* HTTP calls whose answer something waits for, or that still write
    missing     \* history: rows of an import that was reported done that were not
                \* stored by then in the portfolio on screen when it was started

server == <<owner, holdings>>
page == <<user, listed, selected, failed>>
vars == <<server, page, tab, view, calls, missing>>

Tabs == {"analysis", "holdings", "decisions", "other"}

EmptyView == [loading |-> FALSE, report |-> Nothing, items |-> {}, choice |-> Nothing,
              rows |-> <<>>, importing |-> FALSE]

\* rows are those left to send, file those of the whole import, item a holding
\* or a created portfolio; the answer of a read is set aside in result, a set:
\* lists are in the order of creation.
NewCall == [kind |-> None, at |-> "asked", owner |-> "tab", user |-> None,
            portfolio |-> Nothing, item |-> Nothing, rows |-> <<>>, file |-> <<>>,
            result |-> {}]

UsersCall == [NewCall EXCEPT !.kind = "users", !.owner = "page"]
ListCall(u, created) ==
    [NewCall EXCEPT !.kind = "list", !.owner = "page", !.user = u, !.item = created]

Init ==
    /\ owner = <<>> /\ holdings = <<>>
    /\ user \in Users \cup {None}
    /\ listed = {} /\ selected = Nothing /\ failed = FALSE
    /\ tab = "analysis" /\ view = EmptyView
    /\ calls = {UsersCall} \cup IF user = None THEN {} ELSE {ListCall(user, Nothing)}
    /\ missing = {}
--------------------------------------------------------------------------------
(****************************************************************************)
(* Rendering.                                                               *)
(****************************************************************************)
Shows(t, p) == t # "other" /\ p # Nothing

\* The effect of a tab for its portfolio.
Effect(t, p) ==
    {[NewCall EXCEPT !.kind = CASE t = "analysis" -> "summary"
                                [] t = "holdings" -> "refresh"
                                [] t = "decisions" -> "items", !.portfolio = p]}

\* What an effect sets before its call answers.
AtEffect(t, v) ==
    IF t = "analysis" THEN [v EXCEPT !.loading = TRUE, !.report = Nothing] ELSE v

Reads == {"summary", "refresh", "items", "evaluate"}

\* The tab is unmounted: nothing waits for its reads, its writes go on.
Unmounted(cs) ==
    {call \in cs : call.owner # "tab"}
    \cup {[call EXCEPT !.owner = "gone"] :
              call \in {c \in cs : c.owner = "tab" /\ c.kind \notin Reads}}

\* Mutant: the effects have no cleanup.
Inactive_Never(cs) == cs

\* The cleanup of the effects that have one sets `active` to false.
Inactive(cs) == {call \in cs : call.kind \notin {"summary", "items"}}

\* The render after tab t and portfolio p were set, with calls cs left.
Render(t, p, v, cs) ==
    /\ tab' = t /\ selected' = p
    /\ IF t = tab /\ p = selected
       THEN view' = v /\ calls' = cs
       ELSE LET stays == t = tab /\ Shows(t, p) /\ Shows(tab, selected)
                rest  == IF stays THEN Inactive(cs) ELSE Unmounted(cs)
            IN  IF Shows(t, p)
                THEN /\ view' = AtEffect(t, IF stays THEN v ELSE EmptyView)
                     /\ calls' = rest \cup Effect(t, p)
                ELSE /\ view' = EmptyView
                     /\ calls' = rest
    /\ Cardinality(calls') <= MaxInFlight

Ask(cs, call) ==
    /\ calls' = cs \cup {call}
    /\ Cardinality(calls') <= MaxInFlight
--------------------------------------------------------------------------------
(****************************************************************************)
(* The user.                                                                *)
(****************************************************************************)
LoadPortfolios(u, created, cs) ==
    IF u = None THEN calls' = cs ELSE Ask(cs, ListCall(u, created))

\* The options are there once the users have loaded.
SelectUser ==
    /\ UsersCall \notin calls
    /\ \E u \in (Users \cup {None}) \ {user} :
          user' = u /\ LoadPortfolios(u, Nothing, calls)
    /\ UNCHANGED <<server, listed, selected, failed, tab, view, missing>>

SelectPortfolio ==
    /\ \E p \in listed \cup {Nothing} : Render(tab, p, view, calls)
    /\ UNCHANGED <<server, user, listed, failed, missing>>

SwitchTab ==
    /\ \E t \in Tabs : Render(t, selected, view, calls)
    /\ UNCHANGED <<server, user, listed, failed, missing>>

Create ==
    /\ user # None
    /\ Ask(calls, [NewCall EXCEPT !.kind = "create", !.owner = "page", !.user = user])
    /\ UNCHANGED <<server, page, tab, view, missing>>

In(t) == tab = t /\ Shows(t, selected)

AddHolding ==
    /\ In("holdings")
    /\ \E row \in Drafts :
          Ask(calls, [NewCall EXCEPT !.kind = "add", !.portfolio = selected, !.rows = <<row>>])
    /\ UNCHANGED <<server, page, tab, view, missing>>

\* handleFile and a burst of updateRow, both possible while an import runs.
ChooseFile ==
    /\ In("holdings")
    /\ \E file \in Files : view' = [view EXCEPT !.rows = file]
    /\ UNCHANGED <<server, page, tab, calls, missing>>

\* handleImport and importCsv: one POST after another, with the rows and the
\* portfolio of this moment.
ImportCsv ==
    /\ In("holdings") /\ view.rows # <<>> /\ ~view.importing
    /\ Ask(calls, [NewCall EXCEPT !.kind = "import", !.portfolio = selected,
                                  !.rows = view.rows, !.file = view.rows])
    /\ view' = [view EXCEPT !.importing = TRUE]
    /\ UNCHANGED <<server, page, tab, missing>>

ChooseHolding ==
    /\ In("decisions")
    /\ \E h \in view.items \cup {Nothing} : view' = [view EXCEPT !.choice = h]
    /\ UNCHANGED <<server, page, tab, calls, missing>>

Evaluate ==
    /\ In("decisions") /\ view.choice # Nothing /\ ~view.loading
    /\ Ask(calls, [NewCall EXCEPT !.kind = "evaluate", !.item = view.choice])
    /\ view' = [view EXCEPT !.loading = TRUE]
    /\ UNCHANGED <<server, page, tab, missing>>
--------------------------------------------------------------------------------
(****************************************************************************)
(* The endpoints.                                                           *)
(****************************************************************************)
Asked(call, kind) == call.kind = kind /\ call.at = "asked"

Done(call) == calls \ {call}

Served(call, result) ==
    Done(call) \cup {[call EXCEPT !.at = "answered", !.result = result]}

ServeList(call) ==
    /\ Asked(call, "list")
    /\ calls' = Served(call, {p \in DOMAIN owner : owner[p] = call.user})
    /\ UNCHANGED server

ServeCreate(call) ==
    /\ Asked(call, "create") /\ Len(owner) < MaxPortfolios
    /\ owner' = Append(owner, call.user)
    /\ calls' = Served(call, {Len(owner) + 1})
    /\ UNCHANGED holdings

ServeHoldings(call) ==
    /\ Asked(call, "refresh") \/ Asked(call, "items")
    /\ calls' = Served(call, {h \in DOMAIN holdings : holdings[h].portfolio = call.portfolio})
    /\ UNCHANGED server

ServeAdd(call) ==
    /\ Asked(call, "add") \/ Asked(call, "import")
    /\ Len(holdings) < MaxHoldings
    /\ holdings' = Append(holdings, [portfolio |-> call.portfolio, row |-> Head(call.rows)])
    /\ calls' = Served(call, {})
    /\ UNCHANGED owner

Serve(call) ==
    /\ ServeList(call) \/ ServeCreate(call) \/ ServeHoldings(call) \/ ServeAdd(call)
    /\ UNCHANGED <<page, tab, view, missing>>
--------------------------------------------------------------------------------
(****************************************************************************)
(* Answers.                                                                 *)
(****************************************************************************)
Answered(call, kind) == call.kind = kind /\ call.at = "answered"

AnswerUsers(call) ==
    /\ Asked(call, "users")
    /\ IF user = None
       THEN user' = FirstUser /\ LoadPortfolios(FirstUser, Nothing, Done(call))
       ELSE user' = user /\ calls' = Done(call)
    /\ UNCHANGED <<server, listed, selected, failed, tab, view, missing>>

\* Mutant: a selection is kept without looking for it in the new list.
KeepOrFirst_Keep(list) ==
    IF selected # Nothing THEN selected ELSE IF list = {} THEN Nothing ELSE Min(list)

KeepOrFirst(list) ==
    IF selected \in list THEN selected
    ELSE IF list = {} THEN Nothing ELSE Min(list)

\* loadPortfolios, and createPortfolio's selection after it.
AnswerList(call) ==
    /\ Answered(call, "list")
    /\ listed' = call.result /\ failed' = FALSE
    /\ Render(tab, IF call.item # Nothing THEN call.item ELSE KeepOrFirst(call.result),
              view, Done(call))
    /\ UNCHANGED <<server, user, missing>>

FailList(call) ==
    /\ call.kind = "list"
    /\ failed' = TRUE
    /\ Render(tab, IF call.item # Nothing THEN call.item ELSE selected, view, Done(call))
    /\ UNCHANGED <<server, user, listed, missing>>

AnswerCreate(call) ==
    /\ Answered(call, "create")
    /\ \E p \in call.result : LoadPortfolios(call.user, p, Done(call))
    /\ UNCHANGED <<server, page, tab, view, missing>>

AnswerSummary(call) ==
    /\ Asked(call, "summary")
    /\ view' = [view EXCEPT !.loading = FALSE, !.report = call.portfolio]
    /\ calls' = Done(call)
    /\ UNCHANGED <<server, page, tab, missing>>

Stored(p, row) == \E h \in Range(holdings) : h.portfolio = p /\ h.row = row

\* A refresh that ends an import is followed by handleImport's last lines.
EndRefresh(call, items) ==
    /\ view' = [view EXCEPT !.items = items,
                            !.rows = IF call.file # <<>> THEN <<>> ELSE @,
                            !.importing = @ /\ call.file = <<>>]
    /\ missing' = missing \cup {row \in Range(call.file) : ~Stored(call.portfolio, row)}
    /\ calls' = Done(call)
    /\ UNCHANGED <<server, page, tab>>

AnswerRefresh(call) == Answered(call, "refresh") /\ EndRefresh(call, call.result)

FailRefresh(call) == call.kind = "refresh" /\ EndRefresh(call, view.items)

AnswerItems(call) ==
    /\ Answered(call, "items")
    /\ view' = [view EXCEPT !.items = call.result,
                            !.choice = IF call.result = {} THEN @ ELSE Min(call.result)]
    /\ calls' = Done(call)
    /\ UNCHANGED <<server, page, tab, missing>>

AnswerEvaluate(call) ==
    /\ Asked(call, "evaluate")
    /\ view' = [view EXCEPT !.loading = FALSE]
    /\ calls' = Done(call)
    /\ UNCHANGED <<server, page, tab, missing>>

\* The rest of addHolding and importCsv: the refresh is of the portfolio the
\* write was for, and importCsv's loop outlives its tab.
AnswerAdd(call) ==
    /\ Answered(call, "add") \/ Answered(call, "import")
    /\ IF Len(call.rows) > 1
       THEN /\ Ask(Done(call), [call EXCEPT !.at = "asked", !.rows = Tail(@)])
            /\ view' = view
       ELSE IF call.owner = "gone"
       THEN calls' = Done(call) /\ view' = view
       ELSE /\ Ask(Done(call), [NewCall EXCEPT !.kind = "refresh", !.file = call.file,
                                               !.portfolio = call.portfolio])
            /\ view' = view
    /\ UNCHANGED <<server, page, tab, missing>>

\* Mutant: a row that fails is skipped, the loop goes on.
FailOther_SkipsRow(call) ==
    /\ call.kind = "import"
    /\ IF Len(call.rows) > 1
       THEN calls' = Done(call) \cup {[call EXCEPT !.at = "asked", !.rows = Tail(@)]}
       ELSE calls' = Done(call) \cup
                {[NewCall EXCEPT !.kind = "refresh", !.file = call.file,
                                 !.portfolio = call.portfolio]}
    /\ UNCHANGED <<server, page, tab, view, missing>>

\* Any other call is refused, or served and its answer lost.
FailOther(call) ==
    /\ call.kind \notin {"list", "refresh"}
    /\ failed' = (failed \/ call.kind \in {"users", "create"})
    /\ view' = IF call.owner # "tab" THEN view ELSE
               [view EXCEPT !.loading = @ /\ call.kind \notin {"summary", "evaluate"},
                            !.importing = @ /\ call.kind # "import"]
    /\ calls' = Done(call)
    /\ UNCHANGED <<server, user, listed, selected, tab, missing>>

Answer(call) ==
    \/ AnswerUsers(call) \/ AnswerList(call) \/ AnswerCreate(call) \/ AnswerSummary(call)
    \/ AnswerRefresh(call) \/ AnswerItems(call) \/ AnswerEvaluate(call) \/ AnswerAdd(call)
    \/ FailList(call) \/ FailRefresh(call) \/ FailOther(call)

User ==
    \/ SelectUser \/ SelectPortfolio \/ SwitchTab \/ Create
    \/ AddHolding \/ ChooseFile \/ ImportCsv
    \/ ChooseHolding \/ Evaluate

Next == User \/ \E call \in calls : Serve(call) \/ Answer(call)

Spec == Init /\ [][Next]_vars
--------------------------------------------------------------------------------
(****************************************************************************)
(* Properties.                                                              *)
(****************************************************************************)

\* Whatever order the lists of two users and of a creation arrive in
\* (PortfolioPage.tsx:57-88), the selected portfolio is one the selector lists,
\* or an error is on screen.
SelectedIsListed == selected # Nothing => selected \in listed \/ failed

\* The overview never shows the report of a portfolio that was selected before
\* (AnalysisTab.tsx:33-52), however late its answer.
ReportIsOfSelection == view.report \in {Nothing, selected}

\* When the CSV panel reports an import done by clearing its rows, every row
\* it was started with is stored, in the portfolio on screen when it was
\* started, although the selection may have changed and a row may have failed
\* and been retried (HoldingsTab.tsx:83-88, CsvImportPanel.tsx:60-71).
ImportedRowsAreStored == missing = {}
================================================================================
