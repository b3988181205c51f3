------------------------------ MODULE StrategyRun ------------------------------
(****************************************************************************)
(* One application process executing strategy runs                          *)
(* (services/strategy_runner.py, api/strategy.py) against the shared        *)
(* database (services/event_store.py) and the Redis channel of the run      *)
(* (services/pubsub.py).                                                    *)
(*                                                                          *)
(* The process is one asyncio event loop: a handler runs without            *)
(* interruption from one await that really suspends (a Redis or database    *)
(* round trip) to the next, so an action below is the code between two such *)
(* awaits.  `async with _lock` never suspends: no holder of _lock awaits.   *)
(*                                                                          *)
(* Faults names the failures the environment may inject:                    *)
(*   "broker"   a publish raises, or no event sink could be built           *)
(*   "compute"  build_portfolio_summary, project_simulation or              *)
(*              reconcile_unified_report raises                             *)
(*   "db_start" the run_started append or its commit raises                 *)
(*   "db"       any later append, commit or rollback raises                 *)
(*   "lost_ack" a commit takes effect although the caller sees it raise     *)
(*   "crash"    the process dies; a new one starts with an empty _store     *)
(****************************************************************************)
EXTENDS Naturals, Sequences, FiniteSetsExt, SequencesExt

CONSTANTS Runs,      \* run ids; uuid4, never reused
          Faults,    \* the failures that may happen
          Stuck      \* runs one of whose awaits may never return or raise

FaultKinds == {"broker", "compute", "db_start", "db", "lost_ack", "crash"}

ASSUME FaultsAssumption == Faults \subseteq FaultKinds
ASSUME StuckAssumption == Stuck \subseteq Runs

VARIABLES
    store,     \* _store: run id -> StrategyRunRecord, in memory
    task,      \* where execute_strategy_run stands for each run
    steps,     \* the local list `steps` of each execution
    tx,        \* rows the run's session has flushed and not yet committed
    log,       \* committed domain_events rows of aggregate strategy_run/run
    channel    \* events delivered on Redis channel strategy:{run_id}

vars == <<store, task, steps, tx, log, channel>>

Statuses == {"pending", "running", "completed", "failed"}
Parts == {"analysis", "simulation", "unified"}
StepTypes == {"run.started", "step.analysis_built", "step.simulation_projected",
              "step.unified_reconciled", "run.completed", "run.failed"}
EventTypes == {"run_started", "run_completed", "run_failed"}

(****************************************************************************)
(* A StrategyRunRecord.  model_copy is shallow: a record built with         *)
(* update={"steps": steps} shares the execution's list (`live`), one built  *)
(* with list(steps) keeps the copy it was given.                            *)
(****************************************************************************)
Records == [status: Statuses, parts: SUBSET Parts, live: BOOLEAN, copy: Seq(StepTypes)]
NoRecord == [status |-> "none", parts |-> {}, live |-> FALSE, copy |-> <<>>]

\* What GET /status and GET /result show of run r's trace.
TraceOf(r) == IF store[r].live THEN steps[r] ELSE store[r].copy

(****************************************************************************)
(* The stages of execute_strategy_run that call _emit_step, with the step   *)
(* each emits and, for the audited ones, the event each appends.            *)
(****************************************************************************)
Stages == {"started", "analysis", "simulation", "unified", "completed",
           "not_found", "failed"}

StepOf == [started |-> "run.started", analysis |-> "step.analysis_built",
           simulation |-> "step.simulation_projected",
           unified |-> "step.unified_reconciled", completed |-> "run.completed",
           not_found |-> "run.failed", failed |-> "run.failed"]

\* Mutant: a failed run is audited under the type of a completed one.
EventOf_FailedAsCompleted ==
    [started |-> "run_started", completed |-> "run_completed",
     not_found |-> "run_failed", failed |-> "run_completed"]

EventOf == [started |-> "run_started", completed |-> "run_completed",
            not_found |-> "run_failed", failed |-> "run_failed"]

\* idle: never called; scheduled: background task queued; publish, append,
\* commit, rollback: suspended in that call of `stage`; analyse: suspended in
\* build_portfolio_summary; done: returned; dead: an exception left the task;
\* crashed: the process died.
Points == {"idle", "scheduled", "publish", "append", "commit", "analyse",
           "rollback", "done", "dead", "crashed"}

Tasks == [at: Points, stage: Stages]

DomainEvents == [type: EventTypes, sequence: Nat \ {0}]

TypeOK ==
    /\ store \in [Runs -> Records \cup {NoRecord}]
    /\ task \in [Runs -> Tasks]
    /\ steps \in [Runs -> Seq(StepTypes)]
    /\ tx \in [Runs -> Seq(DomainEvents)]
    /\ log \in [Runs -> Seq(DomainEvents)]
    /\ channel \in [Runs -> Seq(StepTypes)]

Init ==
    /\ store = [r \in Runs |-> NoRecord]
    /\ task = [r \in Runs |-> [at |-> "idle", stage |-> "started"]]
    /\ steps = [r \in Runs |-> <<>>]
    /\ tx = [r \in Runs |-> <<>>]
    /\ log = [r \in Runs |-> <<>>]
    /\ channel = [r \in Runs |-> <<>>]
--------------------------------------------------------------------------------
(****************************************************************************)
(* The pieces of code the handlers share.                                   *)
(****************************************************************************)
At(r, point, stage) == task[r] = [at |-> point, stage |-> stage]
Goto(r, point, stage) == task' = [task EXCEPT ![r] = [at |-> point, stage |-> stage]]

\* _emit_step up to its await: append to the local list, call publish.
EmitStep(r, stage) ==
    /\ steps' = [steps EXCEPT ![r] = Append(@, StepOf[stage])]
    /\ Goto(r, "publish", stage)

\* The rest of _emit_step: the publish delivered, or its failure is swallowed.
Published(r, stage) ==
    /\ At(r, "publish", stage)
    /\ \/ channel' = [channel EXCEPT ![r] = Append(@, StepOf[stage])]
       \/ "broker" \in Faults /\ UNCHANGED channel

SetRecord(r, state, ready, live, copy) ==
    store' = [store EXCEPT ![r] = [status |-> state, parts |-> ready,
                                   live |-> live, copy |-> copy]]

\* `except Exception`: emit run.failed; the session keeps what it flushed.
Raise(r) == EmitStep(r, "failed")

\* EventStore.append: coalesce(max(sequence), 0) + 1 over the rows this
\* session sees, then INSERT and flush.
Visible(r) == log[r] \o tx[r]
\* Mutant: the + 1 is forgotten.
NextSequence_NoIncrement(r) == Max({0} \cup {Visible(r)[i].sequence : i \in 1..Len(Visible(r))})

NextSequence(r) ==
    1 + Max({0} \cup {Visible(r)[i].sequence : i \in 1..Len(Visible(r))})

Flush(r, stage) ==
    tx' = [tx EXCEPT ![r] = Append(@, [type |-> EventOf[stage],
                                       sequence |-> NextSequence(r)])]

\* db.commit(): the session's rows become visible to everyone.
Commit(r) ==
    /\ log' = [log EXCEPT ![r] = @ \o tx[r]]
    /\ tx' = [tx EXCEPT ![r] = <<>>]
--------------------------------------------------------------------------------
(****************************************************************************)
(* POST /api/strategy/run and the execution, one action per suspension.     *)
(****************************************************************************)

\* POST /run: start_strategy_run registers the pending record, the handler
\* queues _execute and answers 202.
StartStrategyRun(r) ==
    /\ task[r].at = "idle"
    /\ SetRecord(r, "pending", {}, FALSE, <<>>)
    /\ Goto(r, "scheduled", "started")
    /\ UNCHANGED <<steps, tx, log, channel>>

\* A synchronous caller of execute_strategy_run with an unregistered run id.
CallDirectly(r) ==
    /\ task[r].at = "idle"
    /\ Goto(r, "scheduled", "started")
    /\ UNCHANGED <<store, steps, tx, log, channel>>

\* The record, or _make_pending when there is none: either way `steps` starts
\* as a copy of its trace.  Then the first _emit_step.
Begin(r) ==
    /\ task[r].at = "scheduled"
    /\ steps' = [steps EXCEPT ![r] = Append(TraceOf(r), StepOf["started"])]
    /\ Goto(r, "publish", "started")
    /\ UNCHANGED <<store, tx, log, channel>>

MarkRunning(r) ==
    /\ Published(r, "started")
    /\ SetRecord(r, "running", {}, TRUE, <<>>)
    /\ Goto(r, "append", "started")
    /\ UNCHANGED <<steps, tx, log>>

\* Before `try`: a failure leaves execute_strategy_run and the background task,
\* the session closes without a commit, and the record stays as it is.
AppendStarted(r) ==
    /\ At(r, "append", "started")
    /\ \/ Flush(r, "started") /\ Goto(r, "commit", "started")
       \/ "db_start" \in Faults /\ Goto(r, "dead", "started") /\ UNCHANGED tx
    /\ UNCHANGED <<store, steps, log, channel>>

CommitStarted(r) ==
    /\ At(r, "commit", "started")
    /\ \/ Commit(r) /\ Goto(r, "analyse", "started")
       \/ "db_start" \in Faults /\ "lost_ack" \in Faults /\ Commit(r) /\ Goto(r, "dead", "started")
       \/ /\ "db_start" \in Faults
          /\ tx' = [tx EXCEPT ![r] = <<>>]
          /\ Goto(r, "dead", "started")
          /\ UNCHANGED log
    /\ UNCHANGED <<store, steps, channel>>

\* Mutant: the early return for an unknown portfolio forgets to record it.
Analyse_SilentReturn(r) ==
    /\ At(r, "analyse", "started")
    /\ \/ EmitStep(r, "analysis")
       \/ Goto(r, "done", "not_found") /\ UNCHANGED steps
    /\ UNCHANGED <<store, tx, log, channel>>

\* build_portfolio_summary: a report, None, or an exception.
Analyse(r) ==
    /\ At(r, "analyse", "started")
    /\ \/ EmitStep(r, "analysis")
       \/ EmitStep(r, "not_found")
       \/ "compute" \in Faults /\ Raise(r)
    /\ UNCHANGED <<store, tx, log, channel>>

\* Store the analysis, then project_simulation, which may raise.
Simulate(r) ==
    /\ Published(r, "analysis")
    /\ SetRecord(r, "running", {"analysis"}, FALSE, steps[r])
    /\ \/ EmitStep(r, "simulation")
       \/ "compute" \in Faults /\ Raise(r)
    /\ UNCHANGED <<tx, log>>

\* Store the simulation, then reconcile_unified_report, which may raise.
Reconcile(r) ==
    /\ Published(r, "simulation")
    /\ SetRecord(r, "running", {"analysis", "simulation"}, FALSE, steps[r])
    /\ \/ EmitStep(r, "unified")
       \/ "compute" \in Faults /\ Raise(r)
    /\ UNCHANGED <<tx, log>>

EmitCompleted(r) ==
    /\ Published(r, "unified")
    /\ EmitStep(r, "completed")
    /\ UNCHANGED <<store, tx, log>>

\* Mutant: the completed record is updated without its steps.
MarkCompleted_StaleTrace(r) ==
    /\ Published(r, "completed")
    /\ SetRecord(r, "completed", Parts, FALSE, TraceOf(r))
    /\ Goto(r, "append", "completed")
    /\ UNCHANGED <<steps, tx, log>>

MarkCompleted(r) ==
    /\ Published(r, "completed")
    /\ SetRecord(r, "completed", Parts, TRUE, <<>>)
    /\ Goto(r, "append", "completed")
    /\ UNCHANGED <<steps, tx, log>>

MarkNotFound(r) ==
    /\ Published(r, "not_found")
    /\ SetRecord(r, "failed", {}, TRUE, <<>>)
    /\ Goto(r, "append", "not_found")
    /\ UNCHANGED <<steps, tx, log>>

\* The terminal append and commit inside `try`, of either outcome.
AppendTerminal(r, stage) ==
    /\ At(r, "append", stage)
    /\ \/ Flush(r, stage) /\ Goto(r, "commit", stage) /\ UNCHANGED steps
       \/ "db" \in Faults /\ Raise(r) /\ UNCHANGED tx
    /\ UNCHANGED <<store, log, channel>>

\* Mutant: something that may raise runs between the commit and the return.
CommitTerminal_ThenRefresh(r, stage) ==
    /\ At(r, "commit", stage)
    /\ Commit(r)
    /\ \/ Goto(r, "done", stage) /\ UNCHANGED steps
       \/ "db" \in Faults /\ Raise(r)
    /\ UNCHANGED <<store, channel>>

CommitTerminal(r, stage) ==
    /\ At(r, "commit", stage)
    /\ \/ Commit(r) /\ Goto(r, "done", stage) /\ UNCHANGED steps
       \/ "db" \in Faults /\ Raise(r) /\ UNCHANGED <<tx, log>>
       \/ "db" \in Faults /\ "lost_ack" \in Faults /\ Commit(r) /\ Raise(r)
    /\ UNCHANGED <<store, channel>>

\* Mutant: the handler copies the latest record and changes its status only.
MarkFailed_StatusOnly(r) ==
    /\ Published(r, "failed")
    /\ SetRecord(r, "failed", store[r].parts, store[r].live, store[r].copy)
    /\ Goto(r, "rollback", "failed")
    /\ UNCHANGED <<steps, tx, log>>

\* The handler: failed = running.model_copy(...) drops the analysis, the
\* simulation and the unified report stored so far.
MarkFailed(r) ==
    /\ Published(r, "failed")
    /\ SetRecord(r, "failed", {}, TRUE, <<>>)
    /\ Goto(r, "rollback", "failed")
    /\ UNCHANGED <<steps, tx, log>>

\* Mutant: the handler appends its event without a rollback first.
Rollback_Forgotten(r) ==
    /\ At(r, "rollback", "failed")
    /\ Goto(r, "append", "failed")
    /\ UNCHANGED <<store, steps, tx, log, channel>>

\* rollback, append, commit under `except Exception: pass`.
Rollback(r) ==
    /\ At(r, "rollback", "failed")
    /\ tx' = [tx EXCEPT ![r] = <<>>]
    /\ \/ Goto(r, "append", "failed")
       \/ "db" \in Faults /\ Goto(r, "done", "failed")
    /\ UNCHANGED <<store, steps, log, channel>>

AppendFailed(r) ==
    /\ At(r, "append", "failed")
    /\ \/ Flush(r, "failed") /\ Goto(r, "commit", "failed")
       \/ "db" \in Faults /\ Goto(r, "done", "failed") /\ UNCHANGED tx
    /\ UNCHANGED <<store, steps, log, channel>>

CommitFailed(r) ==
    /\ At(r, "commit", "failed")
    /\ Goto(r, "done", "failed")
    /\ \/ Commit(r)
       \/ "db" \in Faults /\ tx' = [tx EXCEPT ![r] = <<>>] /\ UNCHANGED log
    /\ UNCHANGED <<store, steps, channel>>

\* The process dies: _store, the tasks, their lists and open transactions are
\* gone; domain_events stays.
Crash ==
    /\ "crash" \in Faults
    /\ \E r \in Runs : task[r].at \notin {"idle", "crashed"}
    /\ store' = [r \in Runs |-> NoRecord]
    /\ task' = [r \in Runs |-> IF task[r].at = "idle" THEN task[r]
                               ELSE [at |-> "crashed", stage |-> "started"]]
    /\ steps' = [r \in Runs |-> <<>>]
    /\ tx' = [r \in Runs |-> <<>>]
    /\ UNCHANGED <<log, channel>>

\* Everything execute_strategy_run does for run r once it is scheduled.
Execute(r) ==
    \/ Begin(r) \/ MarkRunning(r) \/ AppendStarted(r) \/ CommitStarted(r)
    \/ Analyse(r) \/ Simulate(r) \/ Reconcile(r)
    \/ EmitCompleted(r) \/ MarkCompleted(r) \/ MarkNotFound(r)
    \/ \E stage \in {"completed", "not_found"} :
          AppendTerminal(r, stage) \/ CommitTerminal(r, stage)
    \/ MarkFailed(r) \/ Rollback(r) \/ AppendFailed(r) \/ CommitFailed(r)

Next ==
    \/ \E r \in Runs : StartStrategyRun(r) \/ CallDirectly(r) \/ Execute(r)
    \/ Crash

Spec == Init /\ [][Next]_vars

\* The event loop resumes every task whose await has returned.  Whether an await
\* returns is another matter: neither the engine (db/database.py:8) nor the Redis
\* client (services/redis.py:14) is given a timeout, so nothing is asked of the
\* runs that are Stuck: they may stop at any await for good.
Fairness == \A r \in Runs \ Stuck : WF_vars(Execute(r))

FairSpec == Spec /\ Fairness
--------------------------------------------------------------------------------
(****************************************************************************)
(* Properties                                                               *)
(****************************************************************************)
Terminal == {"completed", "failed"}
HasRecord(r) == store[r] # NoRecord
TerminalEvents(r) == {i \in 1..Len(log[r]) : log[r][i].type # "run_started"}
OutcomeOf(event) == IF event.type = "run_completed" THEN "completed" ELSE "failed"

\* A poller never sees half an outcome: a completed record carries all three
\* reports and a failed one carries none, whichever await the failure hit; a
\* running record shows the reports in the order the stages produce them.
ResultsMatchStatus ==
    \A r \in Runs : HasRecord(r) =>
        /\ store[r].status = "completed" => store[r].parts = Parts
        /\ store[r].status \in {"pending", "failed"} => store[r].parts = {}
        /\ store[r].status = "running" =>
              store[r].parts \in {{}, {"analysis"}, {"analysis", "simulation"}}

\* The audit rows of a run are numbered 1, 2, ... without a gap or a repeat and
\* only the first is run_started, through rollbacks, failed commits, commits
\* whose acknowledgement is lost, and crashes (EventStore.append derives each
\* number from what its session sees).
AuditSequence ==
    \A r \in Runs : \A i \in 1..Len(log[r]) :
        /\ log[r][i].sequence = i
        /\ (log[r][i].type = "run_started") <=> (i = 1)

\* While commits are acknowledged reliably, a committed terminal event says the
\* outcome the record says, even though the record is published before the
\* audit write and the handler may overwrite it: the rollback in the handler
\* keeps a flushed run_completed out of the log of a run that ends failed.
AuditAgreesWithRecord ==
    "lost_ack" \notin Faults =>
        \A r \in Runs : HasRecord(r) =>
            \A i \in TerminalEvents(r) : OutcomeOf(log[r][i]) = store[r].status

\* A run has at most one terminal event; when acknowledgements can be lost it
\* can have a second, and that one is run_failed.
TerminalEventsBounded ==
    \A r \in Runs :
        /\ Cardinality(TerminalEvents(r)) <= (IF "lost_ack" \in Faults THEN 2 ELSE 1)
        /\ \A i, j \in TerminalEvents(r) : i < j => log[r][j].type = "run_failed"

\* The elements of s are those of t at the places of some set, in order.
IsSubsequence(s, t) ==
    \E places \in kSubset(Len(s), DOMAIN t) :
        \A p \in places : s[Cardinality({q \in places : q <= p})] = t[p]

\* api/schemas.py:935 "forwarded over WebSocket + persisted on the final
\* ``StrategyRunRecord`` so HTTP-only clients can recover the trace": when an
\* execution has returned, what live subscribers received is, in that order,
\* part of the trace its record shows.
PublishedIsRecoverable ==
    \A r \in Runs : task[r].at = "done" => IsSubsequence(channel[r], TraceOf(r))

\* Once a terminal event is committed the record's status never changes while
\* the process lives (acknowledgements being reliable): a completed record is
\* withdrawn only by a failure that happens before its audit row is durable.
AuditedOutcomeIsFinal ==
    [][\A r \in Runs :
          /\ "lost_ack" \notin Faults
          /\ TerminalEvents(r) # {} /\ HasRecord(r) /\ HasRecord(r)'
          => store'[r].status = store[r].status]_vars

\* The task ended with an exception before anything was computed.
DiedOpening(r) ==
    task[r] = [at |-> "dead", stage |-> "started"] /\ store[r].parts = {} /\ TerminalEvents(r) = {}

\* A run the API accepted ends, whatever fails and however other runs hang: its
\* record becomes completed or failed (or the process dies and the record with it).
\* The one exception is the audit of run_started, outside the try block
\* (strategy_runner.py:451-459): where that fails the task is gone and the record
\* says running for good, with no report and no outcome audited.
RunSettles ==
    \A r \in Runs \ Stuck :
        (store[r].status \in {"pending", "running"})
            ~> (store[r].status \in Terminal \cup {"none"} \/ DiedOpening(r))

(****************************************************************************)
(* Refinement: what a poller and an auditor together can observe of a run.  *)
(****************************************************************************)
Lifecycle == INSTANCE RunLifecycle WITH
    status <- [r \in Runs |-> IF task[r].at = "crashed" THEN "lost" ELSE store[r].status],
    parts <- [r \in Runs |-> store[r].parts],
    audited <- [r \in Runs |-> {OutcomeOf(log[r][i]) : i \in TerminalEvents(r)}],
    Reliable <- "lost_ack" \notin Faults

\* Every step of the execution is a step of the abstract life of a run, or
\* changes nothing a client or an auditor sees.
ImplementsLifecycle == Lifecycle!Spec
================================================================================
