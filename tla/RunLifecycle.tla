------------------------------ MODULE RunLifecycle ------------------------------
(****************************************************************************)
(* What services/strategy_runner.py promises about a strategy run to a      *)
(* client that polls it and to whoever reads the audit log: the statuses a  *)
(* run goes through, the reports visible in each, and how the audited       *)
(* outcome relates to them.  Reliable says that a commit the service sees   *)
(* fail did not take effect.                                                *)
(****************************************************************************)
EXTENDS FiniteSets

CONSTANTS Runs, Reliable

VARIABLES status,    \* what GET /status says; "none" before, "lost" after a crash
          parts,     \* the reports the record carries
          audited    \* the outcomes that are durable in domain_events

vars == <<status, parts, audited>>

Reports == {"analysis", "simulation", "unified"}
Outcomes == {"completed", "failed"}

Init ==
    /\ status = [r \in Runs |-> "none"]
    /\ parts = [r \in Runs |-> {}]
    /\ audited = [r \in Runs |-> {}]

Move(r, s, p) ==
    /\ status' = [status EXCEPT ![r] = s]
    /\ parts' = [parts EXCEPT ![r] = p]
    /\ UNCHANGED audited

Register(r) == status[r] = "none" /\ Move(r, "pending", {})

Start(r) == status[r] \in {"none", "pending"} /\ Move(r, "running", {})

\* One more report becomes visible; none is taken away.
Reveal(r) ==
    /\ status[r] = "running"
    /\ \E report \in Reports \ parts[r] : Move(r, "running", parts[r] \cup {report})

Complete(r) == status[r] = "running" /\ audited[r] = {} /\ Move(r, "completed", Reports)

Fail(r) == status[r] = "running" /\ audited[r] = {} /\ Move(r, "failed", {})

\* A completed run may still be withdrawn, but only until its outcome is audited.
Retract(r) ==
    /\ status[r] = "completed"
    /\ Reliable => audited[r] = {}
    /\ Move(r, "failed", {})

\* The outcome becomes durable: the one the record shows, and it is the first
\* unless an earlier commit took effect unnoticed.
Audit(r) ==
    /\ status[r] \in Outcomes
    /\ Reliable => audited[r] = {}
    /\ audited' = [audited EXCEPT ![r] = @ \cup {status[r]}]
    /\ UNCHANGED <<status, parts>>

\* The process dies: every record it held is gone, the audit is not.
Vanish ==
    \E gone \in SUBSET Runs :
        /\ \A r \in Runs \ gone : status[r] \in {"none", "lost"}
        /\ status' = [r \in Runs |-> IF r \in gone THEN "lost" ELSE status[r]]
        /\ parts' = [r \in Runs |-> {}]
        /\ UNCHANGED audited

Next ==
    \/ \E r \in Runs : \/ Register(r) \/ Start(r) \/ Reveal(r) \/ Complete(r)
                       \/ Fail(r) \/ Retract(r) \/ Audit(r)
    \/ Vanish

Spec == Init /\ [][Next]_vars
================================================================================
