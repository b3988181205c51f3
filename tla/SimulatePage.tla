------------------------------ MODULE SimulatePage ------------------------------
(****************************************************************************)
(* The page that follows one strategy run                                   *)
(* (frontend/src/pages/SimulatePage.tsx) together with the deployment it    *)
(* polls: several worker processes, each with its own in-memory _store      *)
(* (docker-compose.prod.yml starts `--workers 4` in 2 replicas), of which   *)
(* only the one that accepted POST /run knows the run.                      *)
(*                                                                          *)
(* The run itself follows RunLifecycle, the specification StrategyRun       *)
(* implements.  The page is single threaded: an action is one callback.     *)
(****************************************************************************)
EXTENDS Naturals, FiniteSets

CONSTANTS Run,          \* the run the page shows
          Workers,      \* server processes behind one address
          Slots,        \* status polls that may be outstanding at once
          WsModes,      \* whether a server may or must accept the WebSocket; main.py
                        \* mounts none, so TRUE stands for what the page is written for
          MayDie        \* whether the worker holding the run may die

ASSUME WorkersAssumption == Workers # {}
ASSUME SlotsAssumption == Slots # {}
ASSUME DeploymentAssumption == WsModes \subseteq BOOLEAN /\ MayDie \in BOOLEAN

VARIABLES
    status, parts, audited,  \* the run, as RunLifecycle has it
    served,      \* whether this deployment accepts the WebSocket
    host,        \* the worker whose _store holds the run
    ui,          \* the StreamStatus shown
    ws,          \* the WebSocket: connecting, open, failed (error fired), closed
    polling,     \* usingPolling
    interval,    \* pollingRef.current # null
    terminal,    \* the flag of the same name
    cancelled,   \* the effect was cleaned up (the user left the page)
    polls,       \* outstanding GET /status calls and their answers
    refused      \* whether the page has caught a refused status call

server == <<status, parts, audited, served>>
page == <<ui, ws, polling, interval, terminal, cancelled>>
pageVars == <<status, parts, audited, served, host, ui, ws, polling, interval, terminal,
              cancelled, polls, refused>>

Server == INSTANCE RunLifecycle WITH Runs <- {Run}, Reliable <- TRUE

Answers == {"pending", "running", "completed", "failed", "not_found", "refused"}

PageTypeOK ==
    /\ status \in [{Run} -> {"none", "pending", "running", "completed", "failed", "lost"}]
    /\ host \in Workers /\ served \in BOOLEAN
    /\ ui \in {"connecting", "streaming", "closed", "error"}
    /\ ws \in {"connecting", "open", "failed", "closed"}
    /\ polling \in BOOLEAN /\ interval \in BOOLEAN
    /\ terminal \in BOOLEAN /\ cancelled \in BOOLEAN
    /\ polls \in [Slots -> {"free", "sent"} \cup Answers]
    /\ refused \in BOOLEAN

\* The effect runs after POST /run answered 202: the record exists on the
\* worker that answered, and the WebSocket is being opened.
PageInit ==
    /\ status = [r \in {Run} |-> "pending"]
    /\ parts = [r \in {Run} |-> {}]
    /\ audited = [r \in {Run} |-> {}]
    /\ host \in Workers /\ served \in WsModes
    /\ ui = "connecting" /\ ws = "connecting"
    /\ polling = FALSE /\ interval = FALSE
    /\ terminal = FALSE /\ cancelled = FALSE
    /\ polls = [s \in Slots |-> "free"] /\ refused = FALSE
--------------------------------------------------------------------------------
(****************************************************************************)
(* The server side                                                          *)
(****************************************************************************)
RunStep ==
    /\ Server!Next
    /\ MayDie \/ status'[Run] # "lost"
    /\ UNCHANGED <<served, host, page, polls, refused>>

\* GET /status/{run_id}, load balanced to worker w: its own _store or a 404.
Answer(s, w) ==
    /\ polls[s] = "sent"
    /\ polls' = [polls EXCEPT ![s] =
          IF w = host /\ status[Run] # "lost" THEN status[Run] ELSE "not_found"]
    /\ UNCHANGED <<server, host, page, refused>>

\* The call fails otherwise, whatever the run does: the network, the proxy, a 5xx
\* or a token that has expired.
Refuse(s) ==
    /\ polls[s] = "sent"
    /\ polls' = [polls EXCEPT ![s] = "refused"]
    /\ UNCHANGED <<server, host, page, refused>>
--------------------------------------------------------------------------------
(****************************************************************************)
(* The callbacks of the page                                                *)
(****************************************************************************)
SendPoll(s) == polls[s] = "free" /\ polls' = [polls EXCEPT ![s] = "sent"]

\* startPolling: idempotent, and polls at once.
StartPolling ==
    IF polling \/ cancelled
    THEN UNCHANGED <<ui, polling, interval, polls>>
    ELSE /\ polling' = TRUE /\ interval' = TRUE /\ ui' = "streaming"
         /\ \E s \in Slots : SendPoll(s)

\* ws.onerror
WsError ==
    /\ ws \in {"connecting", "open"}
    /\ ws' = "failed"
    /\ StartPolling
    /\ UNCHANGED <<server, host, terminal, cancelled, refused>>

\* ws.onclose: falls back to polling unless it already polls or is done.
WsClose ==
    /\ ws \in {"open", "failed"}
    /\ ws' = "closed"
    /\ IF terminal THEN UNCHANGED <<ui, polling, interval, polls>> ELSE StartPolling
    /\ UNCHANGED <<server, host, terminal, cancelled, refused>>

\* ws.onopen
WsOpen ==
    /\ served /\ ws = "connecting"
    /\ ws' = "open"
    /\ ui' = IF cancelled THEN ui ELSE "streaming"
    /\ UNCHANGED <<server, host, polling, interval, terminal, cancelled, polls, refused>>

\* ws.onmessage; a step or stream.degraded changes no state modelled here.
WsMessage ==
    /\ ws = "open" /\ ~cancelled
    /\ terminal' = TRUE
    /\ \/ ui' = "error" /\ UNCHANGED interval
       \/ /\ status[Run] \in Server!Outcomes
          /\ ui' = "closed" /\ interval' = FALSE
    /\ UNCHANGED <<server, host, ws, polling, cancelled, polls, refused>>

\* setInterval: every 1500 ms, whether or not earlier polls were answered.
PollTick ==
    /\ interval
    /\ \E s \in Slots : SendPoll(s)
    /\ UNCHANGED <<server, host, page, refused>>

\* Mutant: everything but a running record ends the page.
ApplyRecord_PendingIsOver(s) ==
    /\ polls[s] \in Answers \ {"not_found", "refused"}
    /\ polls' = [polls EXCEPT ![s] = "free"]
    /\ ui' = CASE polls[s] = "running" -> "streaming"
               [] polls[s] = "completed" -> "closed"
               [] OTHER -> "error"
    /\ interval' = (interval /\ polls[s] = "running")
    /\ UNCHANGED <<server, host, ws, polling, terminal, cancelled, refused>>

\* applyRecord, for the record of an answered request.
ApplyRecord(s) ==
    /\ polls[s] \in Answers \ {"not_found", "refused"}
    /\ polls' = [polls EXCEPT ![s] = "free"]
    /\ IF cancelled
       THEN UNCHANGED <<ui, interval, terminal>>
       ELSE LET over == polls[s] \in Server!Outcomes
            IN  /\ ui' = CASE polls[s] = "failed" -> "error"
                           [] polls[s] = "completed" -> "closed"
                           [] OTHER -> "streaming"
                /\ interval' = (interval /\ ~over)
                /\ terminal' = (terminal \/ over)
    /\ UNCHANGED <<server, host, ws, polling, cancelled, refused>>


\* The catch of pollStatus: any failed request ends the polling, whether the run
\* is gone or only this call was refused.
PollFailed(s) ==
    /\ polls[s] \in {"not_found", "refused"}
    /\ polls' = [polls EXCEPT ![s] = "free"]
    /\ IF cancelled THEN UNCHANGED <<ui, interval, refused>>
       ELSE /\ ui' = "error" /\ interval' = FALSE
            /\ refused' = (refused \/ polls[s] = "refused")
    /\ UNCHANGED <<server, host, ws, polling, terminal, cancelled>>

\* The effect's cleanup: the user leaves the page.
Leave ==
    /\ ~cancelled
    /\ cancelled' = TRUE /\ interval' = FALSE /\ ws' = "closed"
    /\ UNCHANGED <<server, host, ui, polling, terminal, polls, refused>>

Callback ==
    \/ WsError \/ WsClose \/ WsOpen \/ WsMessage
    \/ \E s \in Slots : ApplyRecord(s) \/ PollFailed(s)

PageNext ==
    \/ RunStep
    \/ \E s \in Slots : Refuse(s) \/ \E w \in Workers : Answer(s, w)
    \/ Callback \/ PollTick \/ Leave

PageSpec == PageInit /\ [][PageNext]_pageVars

\* The browser fires pending callbacks and the interval, and every request is
\* answered or refused.  Nothing is asked of the run.
PageFairness ==
    /\ WF_pageVars(Callback) /\ WF_pageVars(PollTick)
    /\ \A s \in Slots :
          /\ WF_pageVars(Refuse(s) \/ \E w \in Workers : Answer(s, w))
          /\ WF_pageVars(ApplyRecord(s) \/ PollFailed(s))

PageFairSpec == PageSpec /\ PageFairness
--------------------------------------------------------------------------------
(****************************************************************************)
(* Properties                                                               *)
(****************************************************************************)

\* Without a WebSocket, where one worker serves, the page closes only on a run
\* that completed, which may since have been withdrawn or lost, and shows an error
\* only for one that failed or was lost, or because a status call of its own was
\* refused: then the run may go on, and complete, behind the error
\* (SimulatePage.tsx:95-100 has one catch for both).
OutcomeShownHappened ==
    ~served /\ Workers = {host} =>
        /\ ui = "error" => refused \/ status[Run] \in {"failed", "lost"}
        /\ ui = "closed" => status[Run] \in {"completed", "failed", "lost"}

================================================================================
