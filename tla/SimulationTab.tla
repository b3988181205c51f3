------------------------------ MODULE SimulationTab ------------------------------
(****************************************************************************)
(* The tab that extracts a strategy from text, launches runs for the        *)
(* selected portfolio and follows them                                      *)
(* (frontend/src/components/portfolio/SimulationTab.tsx), with the calls it *)
(* has in flight and the runs on the server.                                *)
(*                                                                          *)
(* The tab is single threaded: an action is one event handler, one          *)
(* continuation of an await, or one effect with the render that caused it.  *)
(* Only the polling effect whose dependencies are the current (runId, phase)*)
(* is active; answers to an inactive one change nothing and are left out,   *)
(* so one variable, poll, stands for the active effect.                     *)
(****************************************************************************)
EXTENDS Naturals, FiniteSets

CONSTANTS Portfolios,    \* portfolios the page can select
          MaxRequests,   \* bound on the extract and run calls of a behaviour
          MayFail,       \* whether a call may fail
          MayCrash       \* whether the server may restart and forget its runs

ASSUME BoundAssumption == MaxRequests \in Nat
ASSUME FlagsAssumption == MayFail \in BOOLEAN /\ MayCrash \in BOOLEAN

VARIABLES
    portfolio,  \* the prop portfolioId
    phase,      \* phase
    profile,    \* the extract call that gave the profile, 0 when null
    runId,      \* the run call whose run is followed, 0 when null
    record,     \* the run whose record is held, 0 when null
    poll,       \* the active polling effect: none, a status call sent, or asleep
    requests,   \* the extract and run calls made, in order
    sent,       \* how many
    runs,       \* what the server says of the run each run call created
    reused,     \* history: a run was launched while runId still named another
    late        \* history: an answer was applied that was no longer awaited

tab == <<portfolio, phase, profile, runId, record, poll>>
tabVars == <<portfolio, phase, profile, runId, record, poll, requests, sent, runs,
             reused, late>>

Ids == 1..MaxRequests
Phases == {"idle", "extracting", "review", "running", "done", "error"}
RunStatuses == {"none", "running", "completed", "failed", "lost"}
NoRequest == [kind |-> "none"]
Requests == [kind : {"extract", "run"}, portfolio : Portfolios, profile : 0..MaxRequests,
             at : {"sent", "answered", "dropped"}, stale : BOOLEAN]

TabTypeOK ==
    /\ portfolio \in Portfolios /\ phase \in Phases
    /\ profile \in 0..MaxRequests /\ runId \in 0..MaxRequests /\ record \in 0..MaxRequests
    /\ poll \in {"none", "sent", "asleep"}
    /\ requests \in [Ids -> Requests \cup {NoRequest}] /\ sent \in 0..MaxRequests
    /\ runs \in [Ids -> RunStatuses]
    /\ reused \in BOOLEAN /\ late \in BOOLEAN

TabInit ==
    /\ portfolio \in Portfolios
    /\ phase = "idle" /\ profile = 0 /\ runId = 0 /\ record = 0 /\ poll = "none"
    /\ requests = [q \in Ids |-> NoRequest] /\ sent = 0
    /\ runs = [q \in Ids |-> "none"]
    /\ reused = FALSE /\ late = FALSE

InFlight(q) == q <= sent /\ requests[q].at = "sent"
--------------------------------------------------------------------------------
(****************************************************************************)
(* The user.                                                                *)
(****************************************************************************)
Send(kind) ==
    /\ sent < MaxRequests
    /\ sent' = sent + 1
    /\ requests' = [requests EXCEPT ![sent + 1] =
                        [kind |-> kind, portfolio |-> portfolio,
                         profile |-> IF kind = "run" THEN profile ELSE 0,
                         at |-> "sent", stale |-> FALSE]]

\* onExtract, once some text is typed: enabled but while extracting or running.
OnExtract ==
    /\ phase \notin {"extracting", "running"}
    /\ Send("extract")
    /\ phase' = "extracting"
    /\ UNCHANGED <<portfolio, profile, runId, record, poll, runs, reused, late>>

\* onRun keeps runId: if it still names an earlier run, the polling effect
\* starts on that one at once.
OnRun ==
    /\ phase = "review" /\ profile # 0
    /\ Send("run")
    /\ phase' = "running"
    /\ poll' = IF runId = 0 THEN "none" ELSE "sent"
    /\ reused' = (reused \/ runId # 0)
    /\ UNCHANGED <<portfolio, profile, runId, record, runs, late>>

Clear ==
    /\ phase' = "idle" /\ profile' = 0 /\ runId' = 0 /\ record' = 0 /\ poll' = "none"

OnReset ==
    /\ phase = "done" /\ record # 0
    /\ Clear
    /\ UNCHANGED <<portfolio, requests, sent, runs, reused, late>>

\* Mutant: without the effect on portfolioId the state of the old one stays.
SelectPortfolio_KeepsState(p) ==
    /\ p # portfolio
    /\ portfolio' = p
    /\ requests' = [q \in Ids |-> IF InFlight(q) THEN [requests[q] EXCEPT !.stale = TRUE]
                                  ELSE requests[q]]
    /\ UNCHANGED <<phase, profile, runId, record, poll, sent, runs, reused, late>>

\* The page selects another portfolio: the effect on portfolioId clears the
\* state, the calls in flight go on.
SelectPortfolio(p) ==
    /\ p # portfolio
    /\ portfolio' = p
    /\ Clear
    /\ requests' = [q \in Ids |-> IF InFlight(q) THEN [requests[q] EXCEPT !.stale = TRUE]
                                  ELSE requests[q]]
    /\ UNCHANGED <<sent, runs, reused, late>>

\* The tab is closed and opened again: the calls in flight go on without it.
Reopen ==
    /\ Clear
    /\ requests' = [q \in Ids |-> IF InFlight(q) THEN [requests[q] EXCEPT !.at = "dropped", !.stale = FALSE]
                                  ELSE requests[q]]
    /\ UNCHANGED <<portfolio, sent, runs, reused, late>>
--------------------------------------------------------------------------------
(****************************************************************************)
(* The continuations.  Neither onExtract nor onRun looks at the portfolio   *)
(* or the phase it resumes in.                                              *)
(****************************************************************************)
Answered(q, kind) ==
    /\ InFlight(q) /\ requests[q].kind = kind
    /\ requests' = [requests EXCEPT ![q].at = "answered", ![q].stale = FALSE]
    /\ late' = (late \/ requests[q].stale \/ q # sent)
    /\ UNCHANGED <<portfolio, sent, reused>>

Extracted(q) ==
    /\ Answered(q, "extract")
    /\ profile' = q /\ phase' = "review" /\ poll' = "none"
    /\ UNCHANGED <<runId, record, runs>>

\* The run exists on the server and its id arrives: the effect restarts on it
\* while the phase is running.
Started(q) ==
    /\ Answered(q, "run")
    /\ runs[q] # "none"
    /\ runId' = q
    /\ poll' = IF phase = "running" THEN "sent" ELSE "none"
    /\ UNCHANGED <<phase, profile, record, runs>>

\* Mutant: the error is shown and the spinner stays.
Refused_KeepsPhase(q) ==
    /\ MayFail
    /\ \E kind \in {"extract", "run"} : Answered(q, kind)
    /\ UNCHANGED <<phase, poll, profile, runId, record, runs>>

\* Either call fails, for the run call possibly after the run was created.
Refused(q) ==
    /\ MayFail
    /\ \E kind \in {"extract", "run"} : Answered(q, kind)
    /\ phase' = "error" /\ poll' = "none"
    /\ UNCHANGED <<profile, runId, record, runs>>

\* GET /status answers, or fails: 404 after a restart, or the call itself.
StatusArrives ==
    /\ poll = "sent"
    /\ \/ /\ runs[runId] \in {"completed", "failed"}
          /\ record' = runId
          /\ phase' = IF runs[runId] = "completed" THEN "done" ELSE "error"
          /\ poll' = "none"
       \/ /\ runs[runId] = "running"
          /\ poll' = "asleep"
          /\ UNCHANGED <<phase, record>>
       \/ /\ MayFail \/ runs[runId] = "lost"
          /\ phase' = "error" /\ poll' = "none"
          /\ UNCHANGED record
    /\ UNCHANGED <<portfolio, profile, runId, requests, sent, runs, reused, late>>

\* setTimeout(tick, POLL_INTERVAL_MS)
Tick ==
    /\ poll = "asleep"
    /\ poll' = "sent"
    /\ UNCHANGED <<portfolio, phase, profile, runId, record, requests, sent, runs,
                   reused, late>>
--------------------------------------------------------------------------------
(****************************************************************************)
(* The server: POST /run registers a run, which ends (RunLifecycle); a      *)
(* restart forgets every run.                                               *)
(****************************************************************************)
Accept(q) ==
    /\ q <= sent /\ requests[q].kind = "run" /\ requests[q].at \in {"sent", "dropped"}
    /\ runs[q] = "none"
    /\ runs' = [runs EXCEPT ![q] = "running"]
    /\ UNCHANGED <<tab, requests, sent, reused, late>>

Finish(q) ==
    /\ runs[q] = "running"
    /\ \E status \in {"completed", "failed"} : runs' = [runs EXCEPT ![q] = status]
    /\ UNCHANGED <<tab, requests, sent, reused, late>>

Restart ==
    /\ MayCrash
    /\ \E q \in Ids : runs[q] \in {"running", "completed", "failed"}
    /\ runs' = [q \in Ids |-> IF runs[q] = "none" THEN "none" ELSE "lost"]
    /\ UNCHANGED <<tab, requests, sent, reused, late>>

Continue(q) == Extracted(q) \/ Started(q) \/ Refused(q)

TabNext ==
    \/ OnExtract \/ OnRun \/ OnReset \/ Reopen
    \/ \E p \in Portfolios : SelectPortfolio(p)
    \/ \E q \in Ids : Continue(q) \/ Accept(q) \/ Finish(q)
    \/ StatusArrives \/ Tick \/ Restart

TabSpec == TabInit /\ [][TabNext]_tabVars

\* Calls are answered or fail, timers fire, the server handles what it
\* received and ends its runs.  Nothing is assumed of the user.
TabFairness ==
    /\ \A q \in Ids : WF_tabVars(Continue(q)) /\ WF_tabVars(Accept(q)) /\ WF_tabVars(Finish(q))
    /\ WF_tabVars(StatusArrives) /\ WF_tabVars(Tick)

TabFairSpec == TabSpec /\ TabFairness
--------------------------------------------------------------------------------
(****************************************************************************)
(* Properties                                                               *)
(****************************************************************************)

\* frontend/src/components/portfolio/SimulationTab.test.tsx:106 "runs the
\* strategy and surfaces the unified report when complete": the report shown is
\* that of the latest launch, made for the selected portfolio with the profile
\* on the screen.
ReportIsOfLatestLaunch ==
    phase = "done" =>
        /\ record = sent
        /\ requests[record].portfolio = portfolio
        /\ requests[record].profile = profile

\* It is whenever every launch started from a cleared runId and no answer came
\* after the portfolio or the call it was meant for.
ReportIsOfLaunch == ~reused /\ ~late => ReportIsOfLatestLaunch

\* No spinner turns for ever.
SpinnerStops == (phase \in {"extracting", "running"}) ~> (phase \notin {"extracting", "running"})
================================================================================
