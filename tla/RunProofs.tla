------------------------------- MODULE RunProofs -------------------------------
(****************************************************************************)
(* Proofs about strategy runs and the two pages that follow one.            *)
(*                                                                          *)
(* StrategyRun, for every set of runs and every set of failures:            *)
(*   IInv   the types and the numbering of the audit log;                   *)
(*   OInv   what the record shows and what the audit has at each await: the *)
(*          agreement of the two, and the refinement of RunLifecycle;       *)
(*   DInv   the list of steps and what the channel delivered of it.         *)
(* SimulationTab and SimulatePage follow, each with its own invariant.      *)
(****************************************************************************)
EXTENDS StrategyRun, SimulationTab, SimulatePage, SequenceTheorems, FiniteSetTheorems, TLAPS

(****************************************************************************)
(* The number a new audit row gets is right because the rows its session    *)
(* sees, committed or not, are already numbered 1..n, and only the first    *)
(* execution step that appends appends run_started.                         *)
(****************************************************************************)
Numbered(r) ==
    \A i \in 1..Len(Visible(r)) :
        /\ Visible(r)[i].sequence = i
        /\ (Visible(r)[i].type = "run_started") <=> (i = 1)

\* The execution has not appended anything.
Fresh(r) ==
    \/ task[r].at \in {"idle", "scheduled"}
    \/ task[r].at \in {"publish", "append"} /\ task[r].stage = "started"

\* The execution is past the commit of run_started and may still append.
Opened(r) ==
    \/ task[r].at \in {"analyse", "rollback"}
    \/ task[r].at \in {"publish", "append", "commit"} /\ task[r].stage # "started"

\* Where the execution stands and what it has written.
Control(r) ==
    /\ Fresh(r) => log[r] = <<>> /\ tx[r] = <<>>
    /\ At(r, "commit", "started") => log[r] = <<>> /\ tx[r] # <<>>
    /\ Opened(r) => log[r] # <<>>

IInv == TypeOK /\ \A r \in Runs : Numbered(r) /\ Control(r)
--------------------------------------------------------------------------------
\* The largest of 0..n is n: coalesce(max(sequence), 0) of a numbered log.
LEMMA MaxUpTo ==
    ASSUME NEW n \in Nat
    PROVE  Max({0} \cup 1..n) = n
<1> DEFINE S == {0} \cup 1..n
<1>1. n \in S /\ \A y \in S : n >= y
  OBVIOUS
<1>2. \A x \in S : (\A y \in S : x >= y) => x = n
  OBVIOUS
<1> HIDE DEF S
<1>3. Max(S) = n
  BY <1>1, <1>2, Zenon DEF Max
<1> QED BY <1>3 DEF S

\* Appending to a concatenation appends to its second part.
LEMMA AppendToConcat ==
    ASSUME NEW S, NEW s \in Seq(S), NEW t \in Seq(S), NEW e \in S
    PROVE  s \o Append(t, e) = Append(s \o t, e)
<1>1. Append(t, e) = t \o <<e>>
  BY AppendIsConcat
<1>2. s \o t \in Seq(S)
  BY ConcatProperties
<1>3. Append(s \o t, e) = (s \o t) \o <<e>>
  BY <1>2, AppendIsConcat
<1>4. <<e>> \in Seq(S)
  OBVIOUS
<1>5. \A u \in Seq(S) : (s \o t) \o u = s \o (t \o u)
  BY ConcatAssociative
<1>6. (s \o t) \o <<e>> = s \o (t \o <<e>>)
  BY <1>4, <1>5
<1> QED BY <1>1, <1>3, <1>6

\* The first part of a concatenation is a prefix of it.
LEMMA PrefixOfConcat ==
    ASSUME NEW S, NEW s \in Seq(S), NEW t \in Seq(S)
    PROVE  \A i \in 1..Len(s) : i \in 1..Len(s \o t) /\ (s \o t)[i] = s[i]
<1>1. Len(s) \in Nat /\ Len(t) \in Nat
  BY LenProperties
<1>2. Len(s \o t) = Len(s) + Len(t)
  BY ConcatProperties
<1> QED BY <1>1, <1>2

\* The rows a session sees are the committed ones followed by its own.
LEMMA VisibleType ==
    ASSUME TypeOK, NEW r \in Runs
    PROVE  Visible(r) \in Seq(DomainEvents)
BY ConcatProperties DEF Visible, TypeOK

\* EventStore.append numbers the next row after the last one it sees.
LEMMA NextSequenceIsNext ==
    ASSUME TypeOK, NEW r \in Runs, Numbered(r)
    PROVE  NextSequence(r) = Len(Visible(r)) + 1
<1> DEFINE n == Len(Visible(r))
<1>1. n \in Nat
  BY VisibleType, LenProperties
<1>2. {Visible(r)[i].sequence : i \in 1..n} = 1..n
  BY DEF Numbered
<1>3. Max({0} \cup {Visible(r)[i].sequence : i \in 1..n}) = n
  BY <1>1, <1>2, MaxUpTo, SMTT(60)
<1>4. NextSequence(r) = 1 + n
  BY <1>3 DEF NextSequence
<1> QED BY <1>1, <1>4

(****************************************************************************)
(* What the three ways of touching a run's rows do to the numbering.        *)
(****************************************************************************)

\* EventStore.append extends a numbered log by the next row.
LEMMA FlushNumbers ==
    ASSUME TypeOK, NEW r \in Runs, NEW stage \in DOMAIN EventOf,
           Numbered(r), Flush(r, stage), UNCHANGED log,
           stage = "started" <=> Visible(r) = <<>>
    PROVE  /\ tx' \in [Runs -> Seq(DomainEvents)]
           /\ tx'[r] # <<>>
           /\ \A q \in Runs \ {r} : tx'[q] = tx[q]
           /\ Numbered(r)'
<1> DEFINE n == Len(Visible(r))
           row == [type |-> EventOf[stage], sequence |-> n + 1]
<1>1. n \in Nat /\ Visible(r) \in Seq(DomainEvents)
  BY VisibleType, LenProperties
<1>2. row \in DomainEvents /\ (row.type = "run_started" <=> stage = "started")
  BY <1>1 DEF DomainEvents, EventOf, EventTypes
<1>3. tx' = [tx EXCEPT ![r] = Append(@, row)]
  BY NextSequenceIsNext DEF Flush
<1> HIDE DEF row
<1>4. tx[r] \in Seq(DomainEvents) /\ log[r] \in Seq(DomainEvents)
  BY DEF TypeOK
<1>5. tx'[r] = Append(tx[r], row)
  BY <1>3 DEF TypeOK
<1>6. tx'[r] \in Seq(DomainEvents) /\ tx'[r] # <<>>
  BY <1>2, <1>4, <1>5, AppendProperties, EmptySeq
<1>7. Visible(r)' = Append(Visible(r), row)
  <2>1. \A s, t \in Seq(DomainEvents), d \in DomainEvents :
           s \o Append(t, d) = Append(s \o t, d)
    BY AppendToConcat
  <2>2. log[r] \o Append(tx[r], row) = Append(log[r] \o tx[r], row)
    BY <1>2, <1>4, <2>1, Zenon
  <2> QED BY <2>2, <1>5 DEF Visible
<1>8. \A i \in 1..n : Visible(r)'[i] = Visible(r)[i]
  BY <1>1, <1>2, <1>7, AppendProperties
<1>9. Visible(r)'[n + 1] = row /\ Len(Visible(r)') = n + 1
  BY <1>1, <1>2, <1>7, AppendProperties
<1>10. row.sequence = n + 1 /\ (row.type = "run_started" <=> n + 1 = 1)
  BY <1>1, <1>2, EmptySeq DEF row
<1>11. Numbered(r)'
  <2> SUFFICES ASSUME NEW i \in 1..(n + 1)
               PROVE  /\ Visible(r)'[i].sequence = i
                      /\ (Visible(r)'[i].type = "run_started") <=> (i = 1)
    BY <1>9 DEF Numbered
  <2>1. CASE i \in 1..n
    BY <2>1, <1>8 DEF Numbered
  <2>2. CASE i = n + 1
    BY <2>2, <1>9, <1>10
  <2> QED BY <2>1, <2>2, <1>1
<1> QED BY <1>3, <1>6, <1>11 DEF TypeOK

\* A commit moves the session's rows behind the committed ones.
LEMMA CommitNumbers ==
    ASSUME TypeOK, NEW r \in Runs, Numbered(r), Commit(r)
    PROVE  /\ tx' \in [Runs -> Seq(DomainEvents)]
           /\ log' \in [Runs -> Seq(DomainEvents)]
           /\ tx'[r] = <<>>
           /\ log'[r] = log[r] \o tx[r]
           /\ \A q \in Runs \ {r} : tx'[q] = tx[q] /\ log'[q] = log[q]
           /\ Numbered(r)'
<1>1. tx[r] \in Seq(DomainEvents) /\ log[r] \in Seq(DomainEvents)
  BY DEF TypeOK
<1>2. tx'[r] = <<>> /\ log'[r] = log[r] \o tx[r]
  BY DEF Commit, TypeOK
<1>3. log'[r] \in Seq(DomainEvents)
  BY <1>1, <1>2, ConcatProperties
<1>4. Visible(r)' = Visible(r)
  BY <1>2, <1>3, ConcatEmptySeq DEF Visible
<1>5. Numbered(r)'
  BY <1>4 DEF Numbered
<1> QED BY <1>2, <1>3, <1>5, EmptySeq DEF Commit, TypeOK

\* A rollback, a failed commit or a crash leaves the committed rows, which
\* are a prefix of what the session saw.
LEMMA DropNumbers ==
    ASSUME TypeOK, NEW r \in Runs, Numbered(r), tx'[r] = <<>>, UNCHANGED log
    PROVE  Numbered(r)'
<1>1. tx[r] \in Seq(DomainEvents) /\ log[r] \in Seq(DomainEvents)
  BY DEF TypeOK
<1>2. Visible(r)' = log[r]
  BY <1>1, ConcatEmptySeq DEF Visible
<1>3. \A i \in 1..Len(log[r]) : i \in 1..Len(Visible(r)) /\ Visible(r)[i] = log[r][i]
  BY <1>1, PrefixOfConcat DEF Visible
<1> QED BY <1>2, <1>3 DEF Numbered

\* A run whose rows and position a step leaves alone keeps its invariant.
LEMMA Frame ==
    ASSUME NEW q \in Runs, Numbered(q), Control(q),
           task'[q] = task[q], tx'[q] = tx[q], log'[q] = log[q]
    PROVE  Numbered(q)' /\ Control(q)'
<1>1. Visible(q)' = Visible(q)
  BY DEF Visible
<1>2. Numbered(q)'
  BY <1>1 DEF Numbered
<1>3. Control(q)'
  BY DEF Control, Fresh, Opened, At
<1> QED BY <1>2, <1>3
--------------------------------------------------------------------------------
(****************************************************************************)
(* The pieces the handlers share.                                           *)
(****************************************************************************)

\* What a step of run r leaves alone: the position and the rows of the others.
Local(r) ==
    \A q \in Runs \ {r} : task'[q] = task[q] /\ tx'[q] = tx[q] /\ log'[q] = log[q]

LEMMA GotoEffect ==
    ASSUME TypeOK, NEW r \in Runs, NEW point \in Points, NEW stage \in Stages,
           Goto(r, point, stage)
    PROVE  /\ task' \in [Runs -> Tasks]
           /\ task'[r] = [at |-> point, stage |-> stage]
           /\ \A q \in Runs \ {r} : task'[q] = task[q]
BY DEF Goto, TypeOK, Tasks

LEMMA EmitEffect ==
    ASSUME TypeOK, NEW r \in Runs, NEW stage \in Stages, EmitStep(r, stage)
    PROVE  /\ steps' \in [Runs -> Seq(StepTypes)]
           /\ task' \in [Runs -> Tasks]
           /\ task'[r] = [at |-> "publish", stage |-> stage]
           /\ \A q \in Runs \ {r} : task'[q] = task[q]
<1>1. StepOf[stage] \in StepTypes
  BY DEF StepOf, StepTypes, Stages
<1>2. steps[r] \in Seq(StepTypes)
  BY DEF TypeOK
<1>3. Append(steps[r], StepOf[stage]) \in Seq(StepTypes)
  BY <1>1, <1>2, AppendProperties
<1>4. steps' \in [Runs -> Seq(StepTypes)]
  BY <1>3 DEF EmitStep, TypeOK
<1>5. "publish" \in Points
  BY DEF Points
<1> QED BY <1>4, <1>5, GotoEffect DEF EmitStep

LEMMA PublishEffect ==
    ASSUME TypeOK, NEW r \in Runs, NEW stage \in Stages, Published(r, stage)
    PROVE  channel' \in [Runs -> Seq(StepTypes)]
<1>1. StepOf[stage] \in StepTypes
  BY DEF StepOf, StepTypes, Stages
<1>2. channel[r] \in Seq(StepTypes)
  BY DEF TypeOK
<1>3. Append(channel[r], StepOf[stage]) \in Seq(StepTypes)
  BY <1>1, <1>2, AppendProperties
<1> QED BY <1>3 DEF Published, TypeOK

LEMMA RecordEffect ==
    ASSUME TypeOK, NEW r \in Runs, NEW state \in Statuses, NEW ready \in SUBSET Parts,
           NEW live \in BOOLEAN, NEW copy \in Seq(StepTypes),
           SetRecord(r, state, ready, live, copy)
    PROVE  store' \in [Runs -> Records \cup {NoRecord}]
BY DEF SetRecord, TypeOK, Records

LEMMA TraceType ==
    ASSUME TypeOK, NEW r \in Runs
    PROVE  TraceOf(r) \in Seq(StepTypes)
<1>1. store[r] \in Records \cup {NoRecord} /\ steps[r] \in Seq(StepTypes)
  BY DEF TypeOK
<1>2. CASE store[r] \in Records
  BY <1>1, <1>2 DEF TraceOf, Records
<1>3. CASE store[r] = NoRecord
  BY <1>1, <1>3, EmptySeq DEF TraceOf, NoRecord
<1> QED BY <1>1, <1>2, <1>3

\* A step that leaves the rows alone and moves within the same phase, or out
\* of the execution, keeps the run's invariant.
LEMMA MoveKeeps ==
    ASSUME TypeOK, NEW r \in Runs, Numbered(r), Control(r), UNCHANGED <<tx, log>>,
           \/ Fresh(r) /\ Fresh(r)'
           \/ Opened(r) /\ Opened(r)'
           \/ task'[r].at \in {"done", "dead"}
    PROVE  Numbered(r)' /\ Control(r)'
<1>1. Numbered(r)'
  BY DEF Numbered, Visible
<1>2. Control(r)'
  BY DEF Control, Fresh, Opened, At
<1> QED BY <1>1, <1>2
--------------------------------------------------------------------------------
(****************************************************************************)
(* One lemma per action: it keeps the types, the acting run's part of the   *)
(* invariant, and everything the invariant says of the other runs.          *)
(****************************************************************************)
Keeps(r) == TypeOK' /\ Numbered(r)' /\ Control(r)' /\ Local(r)

LEMMA StartKeeps ==
    ASSUME IInv, NEW r \in Runs, StartStrategyRun(r) PROVE Keeps(r)
<1> USE DEF StartStrategyRun, IInv
<1>1. "scheduled" \in Points /\ "started" \in Stages /\ "pending" \in Statuses
  BY DEF Points, Stages, Statuses
<1>2. store' \in [Runs -> Records \cup {NoRecord}]
  BY <1>1, RecordEffect, EmptySeq
<1>3. /\ task' \in [Runs -> Tasks]
      /\ task'[r] = [at |-> "scheduled", stage |-> "started"]
      /\ \A q \in Runs \ {r} : task'[q] = task[q]
  BY <1>1, GotoEffect
<1>4. TypeOK'
  BY <1>2, <1>3 DEF TypeOK
<1>5. Numbered(r)' /\ Control(r)'
  BY <1>3, MoveKeeps DEF Fresh
<1> QED BY <1>3, <1>4, <1>5 DEF Keeps, Local

LEMMA CallKeeps ==
    ASSUME IInv, NEW r \in Runs, CallDirectly(r) PROVE Keeps(r)
<1> USE DEF CallDirectly, IInv
<1>1. "scheduled" \in Points /\ "started" \in Stages
  BY DEF Points, Stages
<1>2. /\ task' \in [Runs -> Tasks]
      /\ task'[r] = [at |-> "scheduled", stage |-> "started"]
      /\ \A q \in Runs \ {r} : task'[q] = task[q]
  BY <1>1, GotoEffect
<1>3. TypeOK'
  BY <1>2 DEF TypeOK
<1>4. Numbered(r)' /\ Control(r)'
  BY <1>2, MoveKeeps DEF Fresh
<1> QED BY <1>2, <1>3, <1>4 DEF Keeps, Local

LEMMA BeginKeeps ==
    ASSUME IInv, NEW r \in Runs, Begin(r) PROVE Keeps(r)
<1> USE DEF Begin, IInv
<1>1. "publish" \in Points /\ "started" \in Stages /\ StepOf["started"] \in StepTypes
  BY DEF Points, Stages, StepOf, StepTypes
<1>2. /\ task' \in [Runs -> Tasks]
      /\ task'[r] = [at |-> "publish", stage |-> "started"]
      /\ \A q \in Runs \ {r} : task'[q] = task[q]
  BY <1>1, GotoEffect
<1>3. Append(TraceOf(r), StepOf["started"]) \in Seq(StepTypes)
  BY <1>1, TraceType, AppendProperties
<1>4. TypeOK'
  BY <1>2, <1>3 DEF TypeOK
<1>5. Numbered(r)' /\ Control(r)'
  BY <1>2, MoveKeeps DEF Fresh
<1> QED BY <1>2, <1>4, <1>5 DEF Keeps, Local

LEMMA MarkRunningKeeps ==
    ASSUME IInv, NEW r \in Runs, MarkRunning(r) PROVE Keeps(r)
<1> USE DEF MarkRunning, IInv
<1>1. "append" \in Points /\ "started" \in Stages /\ "running" \in Statuses
  BY DEF Points, Stages, Statuses
<1>2. store' \in [Runs -> Records \cup {NoRecord}]
  BY <1>1, RecordEffect, EmptySeq
<1>3. channel' \in [Runs -> Seq(StepTypes)]
  BY <1>1, PublishEffect
<1>4. /\ task' \in [Runs -> Tasks]
      /\ task'[r] = [at |-> "append", stage |-> "started"]
      /\ \A q \in Runs \ {r} : task'[q] = task[q]
  BY <1>1, GotoEffect
<1>5. TypeOK'
  BY <1>2, <1>3, <1>4 DEF TypeOK
<1>6. Numbered(r)' /\ Control(r)'
  BY <1>4, MoveKeeps DEF Fresh, Published, At
<1> QED BY <1>4, <1>5, <1>6 DEF Keeps, Local

LEMMA AppendStartedKeeps ==
    ASSUME IInv, NEW r \in Runs, AppendStarted(r) PROVE Keeps(r)
<1> USE DEF AppendStarted, IInv
<1>1. /\ "commit" \in Points /\ "dead" \in Points
      /\ "started" \in Stages /\ "started" \in DOMAIN EventOf
  BY DEF Points, Stages, EventOf
<1>2. log[r] = <<>> /\ tx[r] = <<>>
  BY DEF Control, Fresh, At
<1>3. Visible(r) = <<>>
  BY <1>2 DEF Visible
<1>4. CASE Flush(r, "started") /\ Goto(r, "commit", "started")
  <2>1. /\ task' \in [Runs -> Tasks]
        /\ task'[r] = [at |-> "commit", stage |-> "started"]
        /\ \A q \in Runs \ {r} : task'[q] = task[q]
    BY <1>1, <1>4, GotoEffect
  <2>2. /\ tx' \in [Runs -> Seq(DomainEvents)]
        /\ tx'[r] # <<>>
        /\ \A q \in Runs \ {r} : tx'[q] = tx[q]
        /\ Numbered(r)'
    BY <1>1, <1>3, <1>4, FlushNumbers
  <2>3. TypeOK'
    BY <2>1, <2>2 DEF TypeOK
  <2>4. Control(r)'
    BY <1>2, <2>1, <2>2 DEF Control, Fresh, Opened, At
  <2> QED BY <2>1, <2>2, <2>3, <2>4 DEF Keeps, Local
<1>5. CASE Goto(r, "dead", "started") /\ UNCHANGED tx
  <2>1. /\ task' \in [Runs -> Tasks]
        /\ task'[r] = [at |-> "dead", stage |-> "started"]
        /\ \A q \in Runs \ {r} : task'[q] = task[q]
    BY <1>1, <1>5, GotoEffect
  <2>2. TypeOK'
    BY <1>5, <2>1 DEF TypeOK
  <2>3. Numbered(r)' /\ Control(r)'
    BY <1>5, <2>1, MoveKeeps
  <2> QED BY <1>5, <2>1, <2>2, <2>3 DEF Keeps, Local
<1> QED BY <1>4, <1>5

LEMMA CommitStartedKeeps ==
    ASSUME IInv, NEW r \in Runs, CommitStarted(r) PROVE Keeps(r)
<1> USE DEF CommitStarted, IInv
<1>1. /\ "analyse" \in Points /\ "dead" \in Points /\ "started" \in Stages
  BY DEF Points, Stages
<1>2. log[r] = <<>> /\ tx[r] # <<>>
  BY DEF Control
<1>3. \E point \in {"analyse", "dead"} :
          Goto(r, point, "started") /\ (point = "analyse" => Commit(r))
  OBVIOUS
<1>4. PICK point \in {"analyse", "dead"} :
          Goto(r, point, "started") /\ (point = "analyse" => Commit(r))
  BY <1>3
<1>5. /\ task' \in [Runs -> Tasks]
      /\ task'[r] = [at |-> point, stage |-> "started"]
      /\ \A q \in Runs \ {r} : task'[q] = task[q]
  BY <1>1, <1>4, GotoEffect
<1>6. CASE Commit(r)
  <2>1. /\ tx' \in [Runs -> Seq(DomainEvents)]
        /\ log' \in [Runs -> Seq(DomainEvents)]
        /\ tx'[r] = <<>>
        /\ log'[r] = log[r] \o tx[r]
        /\ \A q \in Runs \ {r} : tx'[q] = tx[q] /\ log'[q] = log[q]
        /\ Numbered(r)'
    BY <1>6, CommitNumbers
  <2>2. log'[r] # <<>>
    BY <1>2, <2>1, ConcatEmptySeq DEF TypeOK
  <2>3. TypeOK'
    BY <1>5, <2>1 DEF TypeOK
  <2>4. Control(r)'
    BY <1>5, <2>1, <2>2 DEF Control, Fresh, Opened, At
  <2> QED BY <1>5, <2>1, <2>3, <2>4 DEF Keeps, Local
<1>7. CASE ~Commit(r)
  <2>1. point = "dead" /\ tx' = [tx EXCEPT ![r] = <<>>] /\ UNCHANGED log
    BY <1>4, <1>7
  <2>2. tx' \in [Runs -> Seq(DomainEvents)] /\ tx'[r] = <<>>
    BY <2>1, EmptySeq DEF TypeOK
  <2>3. TypeOK'
    BY <1>5, <2>1, <2>2 DEF TypeOK
  <2>4. Numbered(r)'
    BY <2>1, <2>2, DropNumbers
  <2>5. Control(r)'
    BY <1>5, <2>1 DEF Control, Fresh, Opened, At
  <2> QED BY <1>5, <2>1, <2>3, <2>4, <2>5 DEF Keeps, Local, TypeOK
<1> QED BY <1>6, <1>7

\* A step inside `try` or the handler that writes no row: it emits the next
\* step of the trace ...
LEMMA EmitKeeps ==
    ASSUME IInv, NEW r \in Runs, Opened(r), UNCHANGED <<tx, log>>,
           store' \in [Runs -> Records \cup {NoRecord}],
           channel' \in [Runs -> Seq(StepTypes)],
           NEW stage \in Stages \ {"started"}, EmitStep(r, stage)
    PROVE  Keeps(r)
<1>1. /\ steps' \in [Runs -> Seq(StepTypes)]
      /\ task' \in [Runs -> Tasks]
      /\ task'[r] = [at |-> "publish", stage |-> stage]
      /\ \A q \in Runs \ {r} : task'[q] = task[q]
  BY EmitEffect DEF IInv
<1>2. TypeOK'
  BY <1>1 DEF TypeOK, IInv
<1>3. Numbered(r)' /\ Control(r)'
  BY <1>1, MoveKeeps DEF Opened, IInv
<1> QED BY <1>1, <1>2, <1>3 DEF Keeps, Local

\* ... or goes on to another call.
LEMMA GoKeeps ==
    ASSUME IInv, NEW r \in Runs, Opened(r), UNCHANGED <<steps, tx, log>>,
           store' \in [Runs -> Records \cup {NoRecord}],
           channel' \in [Runs -> Seq(StepTypes)],
           NEW point \in {"append", "rollback", "done"},
           NEW stage \in Stages \ {"started"}, Goto(r, point, stage)
    PROVE  Keeps(r)
<1>1. point \in Points
  BY DEF Points
<1>2. /\ task' \in [Runs -> Tasks]
      /\ task'[r] = [at |-> point, stage |-> stage]
      /\ \A q \in Runs \ {r} : task'[q] = task[q]
  BY <1>1, GotoEffect DEF IInv
<1>3. TypeOK'
  BY <1>2 DEF TypeOK, IInv
<1>4. Numbered(r)' /\ Control(r)'
  BY <1>2, MoveKeeps DEF Opened, IInv
<1> QED BY <1>2, <1>3, <1>4 DEF Keeps, Local

LEMMA AnalyseKeeps ==
    ASSUME IInv, NEW r \in Runs, Analyse(r) PROVE Keeps(r)
<1>1. Opened(r)
  BY DEF Analyse, At, Opened
<1>2. /\ store' \in [Runs -> Records \cup {NoRecord}]
      /\ channel' \in [Runs -> Seq(StepTypes)]
  BY DEF Analyse, IInv, TypeOK
<1>3. PICK stage \in {"analysis", "not_found", "failed"} : EmitStep(r, stage)
  BY DEF Analyse, Raise
<1>4. stage \in Stages \ {"started"}
  BY DEF Stages
<1> QED BY <1>1, <1>2, <1>3, <1>4, EmitKeeps DEF Analyse

LEMMA SimulateKeeps ==
    ASSUME IInv, NEW r \in Runs, Simulate(r) PROVE Keeps(r)
<1>1. Opened(r)
  BY DEF Simulate, Published, At, Opened
<1>2. /\ "analysis" \in Stages /\ "running" \in Statuses
      /\ {"analysis"} \in SUBSET Parts /\ steps[r] \in Seq(StepTypes)
  BY DEF Stages, Statuses, Parts, IInv, TypeOK
<1>3. /\ store' \in [Runs -> Records \cup {NoRecord}]
      /\ channel' \in [Runs -> Seq(StepTypes)]
  BY <1>2, RecordEffect, PublishEffect DEF Simulate, IInv
<1>4. PICK stage \in {"simulation", "failed"} : EmitStep(r, stage)
  BY DEF Simulate, Raise
<1>5. stage \in Stages \ {"started"}
  BY DEF Stages
<1> QED BY <1>1, <1>3, <1>4, <1>5, EmitKeeps DEF Simulate

LEMMA ReconcileKeeps ==
    ASSUME IInv, NEW r \in Runs, Reconcile(r) PROVE Keeps(r)
<1>1. Opened(r)
  BY DEF Reconcile, Published, At, Opened
<1>2. /\ "simulation" \in Stages /\ "running" \in Statuses
      /\ {"analysis", "simulation"} \in SUBSET Parts /\ steps[r] \in Seq(StepTypes)
  BY DEF Stages, Statuses, Parts, IInv, TypeOK
<1>3. /\ store' \in [Runs -> Records \cup {NoRecord}]
      /\ channel' \in [Runs -> Seq(StepTypes)]
  BY <1>2, RecordEffect, PublishEffect DEF Reconcile, IInv
<1>4. PICK stage \in {"unified", "failed"} : EmitStep(r, stage)
  BY DEF Reconcile, Raise
<1>5. stage \in Stages \ {"started"}
  BY DEF Stages
<1> QED BY <1>1, <1>3, <1>4, <1>5, EmitKeeps DEF Reconcile

LEMMA EmitCompletedKeeps ==
    ASSUME IInv, NEW r \in Runs, EmitCompleted(r) PROVE Keeps(r)
<1>1. Opened(r)
  BY DEF EmitCompleted, Published, At, Opened
<1>2. "unified" \in Stages /\ "completed" \in Stages \ {"started"}
  BY DEF Stages
<1>3. /\ store' \in [Runs -> Records \cup {NoRecord}]
      /\ channel' \in [Runs -> Seq(StepTypes)]
  BY <1>2, PublishEffect DEF EmitCompleted, IInv, TypeOK
<1> QED BY <1>1, <1>2, <1>3, EmitKeeps DEF EmitCompleted

LEMMA MarkKeeps ==
    ASSUME IInv, NEW r \in Runs, MarkCompleted(r) \/ MarkNotFound(r) \/ MarkFailed(r)
    PROVE  Keeps(r)
<1>1. PICK stage \in {"completed", "not_found", "failed"},
           state \in {"completed", "failed"}, ready \in {Parts, {}},
           point \in {"append", "rollback"} :
           /\ Published(r, stage)
           /\ SetRecord(r, state, ready, TRUE, <<>>)
           /\ Goto(r, point, stage)
           /\ UNCHANGED <<steps, tx, log>>
  BY DEF MarkCompleted, MarkNotFound, MarkFailed
<1>2. stage \in Stages \ {"started"} /\ state \in Statuses /\ ready \in SUBSET Parts
  BY DEF Stages, Statuses
<1>3. Opened(r)
  BY <1>1, <1>2 DEF Published, At, Opened
<1>4. /\ store' \in [Runs -> Records \cup {NoRecord}]
      /\ channel' \in [Runs -> Seq(StepTypes)]
  BY <1>1, <1>2, RecordEffect, PublishEffect, EmptySeq DEF IInv
<1> QED BY <1>1, <1>2, <1>3, <1>4, GoKeeps

(****************************************************************************)
(* The audit of the outcome: rows are written only past run_started.        *)
(****************************************************************************)
LEMMA FlushKeeps ==
    ASSUME IInv, NEW r \in Runs, Opened(r), UNCHANGED <<store, steps, log, channel>>,
           NEW stage \in {"completed", "not_found", "failed"},
           Flush(r, stage), Goto(r, "commit", stage)
    PROVE  Keeps(r)
<1>1. "commit" \in Points /\ stage \in Stages /\ stage \in DOMAIN EventOf
  BY DEF Points, Stages, EventOf
<1>2. /\ task' \in [Runs -> Tasks]
      /\ task'[r] = [at |-> "commit", stage |-> stage]
      /\ \A q \in Runs \ {r} : task'[q] = task[q]
  BY <1>1, GotoEffect DEF IInv
<1>3. log[r] # <<>> /\ log[r] \in Seq(DomainEvents) /\ tx[r] \in Seq(DomainEvents)
  BY DEF IInv, Control, TypeOK
<1>4. Visible(r) # <<>>
  BY <1>3, ConcatEqualIffEmpty DEF Visible
<1>5. /\ tx' \in [Runs -> Seq(DomainEvents)]
      /\ \A q \in Runs \ {r} : tx'[q] = tx[q]
      /\ Numbered(r)'
  BY <1>1, <1>4, FlushNumbers DEF IInv
<1>6. TypeOK'
  BY <1>2, <1>5 DEF TypeOK, IInv
<1>7. Control(r)'
  BY <1>2, <1>3 DEF Control, Fresh, Opened, At
<1> QED BY <1>2, <1>5, <1>6, <1>7 DEF Keeps, Local

LEMMA CommitKeeps ==
    ASSUME IInv, NEW r \in Runs, Opened(r), UNCHANGED <<store, channel>>,
           NEW stage \in {"completed", "not_found", "failed"}, Commit(r),
           \/ Goto(r, "done", stage) /\ UNCHANGED steps
           \/ EmitStep(r, "failed")
    PROVE  Keeps(r)
<1>1. "done" \in Points /\ stage \in Stages /\ "failed" \in Stages
  BY DEF Points, Stages
<1>2. /\ task' \in [Runs -> Tasks]
      /\ \/ task'[r] = [at |-> "done", stage |-> stage]
         \/ task'[r] = [at |-> "publish", stage |-> "failed"]
      /\ \A q \in Runs \ {r} : task'[q] = task[q]
      /\ steps' \in [Runs -> Seq(StepTypes)]
  <2>1. CASE Goto(r, "done", stage) /\ UNCHANGED steps
    BY <1>1, <2>1, GotoEffect DEF IInv, TypeOK
  <2>2. CASE EmitStep(r, "failed")
    BY <1>1, <2>2, EmitEffect DEF IInv
  <2> QED BY <2>1, <2>2
<1>3. /\ tx' \in [Runs -> Seq(DomainEvents)]
      /\ log' \in [Runs -> Seq(DomainEvents)]
      /\ log'[r] = log[r] \o tx[r]
      /\ \A q \in Runs \ {r} : tx'[q] = tx[q] /\ log'[q] = log[q]
      /\ Numbered(r)'
  BY CommitNumbers DEF IInv
<1>4. log[r] # <<>> /\ log[r] \in Seq(DomainEvents) /\ tx[r] \in Seq(DomainEvents)
  BY DEF IInv, Control, TypeOK
<1>5. log'[r] # <<>>
  BY <1>3, <1>4, ConcatEqualIffEmpty
<1>6. TypeOK'
  BY <1>2, <1>3 DEF TypeOK, IInv
<1>7. Control(r)'
  BY <1>2, <1>5 DEF Control, Fresh, Opened, At
<1> QED BY <1>2, <1>3, <1>6, <1>7 DEF Keeps, Local

LEMMA DropKeeps ==
    ASSUME IInv, NEW r \in Runs, Opened(r), UNCHANGED <<store, steps, log, channel>>,
           tx' = [tx EXCEPT ![r] = <<>>],
           NEW point \in {"append", "done"}, Goto(r, point, "failed")
    PROVE  Keeps(r)
<1>1. point \in Points /\ "failed" \in Stages
  BY DEF Points, Stages
<1>2. /\ task' \in [Runs -> Tasks]
      /\ task'[r] = [at |-> point, stage |-> "failed"]
      /\ \A q \in Runs \ {r} : task'[q] = task[q]
  BY <1>1, GotoEffect DEF IInv
<1>3. /\ tx' \in [Runs -> Seq(DomainEvents)]
      /\ tx'[r] = <<>>
      /\ \A q \in Runs \ {r} : tx'[q] = tx[q]
  BY EmptySeq DEF IInv, TypeOK
<1>4. Numbered(r)'
  BY <1>3, DropNumbers DEF IInv
<1>5. TypeOK'
  BY <1>2, <1>3 DEF TypeOK, IInv
<1>6. Control(r)'
  BY <1>2 DEF Control, Fresh, Opened, At, IInv
<1> QED BY <1>2, <1>3, <1>4, <1>5, <1>6 DEF Keeps, Local

LEMMA AppendTerminalKeeps ==
    ASSUME IInv, NEW r \in Runs, NEW stage \in {"completed", "not_found"},
           AppendTerminal(r, stage)
    PROVE  Keeps(r)
<1>1. Opened(r)
  BY DEF AppendTerminal, At, Opened
<1>2. CASE Flush(r, stage) /\ Goto(r, "commit", stage) /\ UNCHANGED steps
  BY <1>1, <1>2, FlushKeeps DEF AppendTerminal
<1>3. CASE Raise(r) /\ UNCHANGED tx
  <2>1. "failed" \in Stages \ {"started"}
    BY DEF Stages
  <2>2. /\ store' \in [Runs -> Records \cup {NoRecord}]
        /\ channel' \in [Runs -> Seq(StepTypes)]
    BY DEF AppendTerminal, IInv, TypeOK
  <2> QED BY <1>1, <1>3, <2>1, <2>2, EmitKeeps DEF AppendTerminal, Raise
<1> QED BY <1>2, <1>3 DEF AppendTerminal

LEMMA CommitTerminalKeeps ==
    ASSUME IInv, NEW r \in Runs, NEW stage \in {"completed", "not_found"},
           CommitTerminal(r, stage)
    PROVE  Keeps(r)
<1>1. Opened(r)
  BY DEF CommitTerminal, At, Opened
<1>2. CASE Commit(r)
  <2>1. \/ Goto(r, "done", stage) /\ UNCHANGED steps
        \/ EmitStep(r, "failed")
    BY DEF CommitTerminal, Raise
  <2> QED BY <1>1, <1>2, <2>1, CommitKeeps DEF CommitTerminal
<1>3. CASE Raise(r) /\ UNCHANGED <<tx, log>>
  <2>1. "failed" \in Stages \ {"started"}
    BY DEF Stages
  <2>2. /\ store' \in [Runs -> Records \cup {NoRecord}]
        /\ channel' \in [Runs -> Seq(StepTypes)]
    BY DEF CommitTerminal, IInv, TypeOK
  <2> QED BY <1>1, <1>3, <2>1, <2>2, EmitKeeps DEF CommitTerminal, Raise
<1> QED BY <1>2, <1>3 DEF CommitTerminal

LEMMA RollbackKeeps ==
    ASSUME IInv, NEW r \in Runs, Rollback(r) PROVE Keeps(r)
<1>1. Opened(r)
  BY DEF Rollback, At, Opened
<1>2. PICK point \in {"append", "done"} : Goto(r, point, "failed")
  BY DEF Rollback
<1> QED BY <1>1, <1>2, DropKeeps DEF Rollback

LEMMA AppendFailedKeeps ==
    ASSUME IInv, NEW r \in Runs, AppendFailed(r) PROVE Keeps(r)
<1>1. Opened(r)
  BY DEF AppendFailed, At, Opened
<1>2. CASE Flush(r, "failed") /\ Goto(r, "commit", "failed")
  BY <1>1, <1>2, FlushKeeps DEF AppendFailed
<1>3. CASE Goto(r, "done", "failed") /\ UNCHANGED tx
  <2>1. "failed" \in Stages \ {"started"}
    BY DEF Stages
  <2>2. /\ store' \in [Runs -> Records \cup {NoRecord}]
        /\ channel' \in [Runs -> Seq(StepTypes)]
    BY DEF AppendFailed, IInv, TypeOK
  <2> QED BY <1>1, <1>3, <2>1, <2>2, GoKeeps DEF AppendFailed
<1> QED BY <1>2, <1>3 DEF AppendFailed

LEMMA CommitFailedKeeps ==
    ASSUME IInv, NEW r \in Runs, CommitFailed(r) PROVE Keeps(r)
<1>1. Opened(r)
  BY DEF CommitFailed, At, Opened
<1>2. CASE Commit(r)
  BY <1>1, <1>2, CommitKeeps DEF CommitFailed
<1>3. CASE tx' = [tx EXCEPT ![r] = <<>>] /\ UNCHANGED log
  BY <1>1, <1>3, DropKeeps DEF CommitFailed
<1> QED BY <1>2, <1>3 DEF CommitFailed

LEMMA ExecuteKeeps ==
    ASSUME IInv, NEW r \in Runs, Execute(r) PROVE Keeps(r)
<1>1. CASE Begin(r)         BY <1>1, BeginKeeps
<1>2. CASE MarkRunning(r)   BY <1>2, MarkRunningKeeps
<1>3. CASE AppendStarted(r) BY <1>3, AppendStartedKeeps
<1>4. CASE CommitStarted(r) BY <1>4, CommitStartedKeeps
<1>5. CASE Analyse(r)       BY <1>5, AnalyseKeeps
<1>6. CASE Simulate(r)      BY <1>6, SimulateKeeps
<1>7. CASE Reconcile(r)     BY <1>7, ReconcileKeeps
<1>8. CASE EmitCompleted(r) BY <1>8, EmitCompletedKeeps
<1>9. CASE MarkCompleted(r) \/ MarkNotFound(r) \/ MarkFailed(r)
  BY <1>9, MarkKeeps
<1>10. CASE \E stage \in {"completed", "not_found"} :
               AppendTerminal(r, stage) \/ CommitTerminal(r, stage)
  BY <1>10, AppendTerminalKeeps, CommitTerminalKeeps
<1>11. CASE Rollback(r)     BY <1>11, RollbackKeeps
<1>12. CASE AppendFailed(r) BY <1>12, AppendFailedKeeps
<1>13. CASE CommitFailed(r) BY <1>13, CommitFailedKeeps
<1> QED BY <1>1, <1>2, <1>3, <1>4, <1>5, <1>6, <1>7, <1>8, <1>9, <1>10,
           <1>11, <1>12, <1>13 DEF Execute

LEMMA CrashKeeps ==
    ASSUME IInv, Crash PROVE IInv'
<1> USE DEF Crash, IInv
<1>1. /\ store' \in [Runs -> Records \cup {NoRecord}]
      /\ steps' \in [Runs -> Seq(StepTypes)]
      /\ tx' \in [Runs -> Seq(DomainEvents)]
  BY EmptySeq
<1>2. task' \in [Runs -> Tasks]
  <2>1. [at |-> "crashed", stage |-> "started"] \in Tasks
    BY DEF Tasks, Points, Stages
  <2> QED BY <2>1 DEF TypeOK
<1>3. TypeOK'
  BY <1>1, <1>2 DEF TypeOK
<1>4. ASSUME NEW r \in Runs PROVE Numbered(r)'
  BY <1>4, DropNumbers
<1>5. ASSUME NEW r \in Runs PROVE Control(r)'
  <2>1. CASE task[r].at = "idle"
    BY <2>1 DEF Control, Fresh, Opened, At
  <2>2. CASE task[r].at # "idle"
    BY <2>2 DEF Control, Fresh, Opened, At
  <2> QED BY <2>1, <2>2
<1> QED BY <1>3, <1>4, <1>5

LEMMA InitIInv == Init => IInv
<1> SUFFICES ASSUME Init PROVE IInv
  OBVIOUS
<1> USE DEF Init
<1>1. [at |-> "idle", stage |-> "started"] \in Tasks
  BY DEF Tasks, Points, Stages
<1>2. TypeOK
  BY <1>1, EmptySeq DEF TypeOK
<1>3. ASSUME NEW r \in Runs PROVE Numbered(r) /\ Control(r)
  <2>1. Visible(r) = <<>>
    BY DEF Visible
  <2>2. Numbered(r)
    BY <2>1 DEF Numbered
  <2>3. Control(r)
    BY DEF Control, Fresh, Opened, At
  <2> QED BY <2>2, <2>3
<1> QED BY <1>2, <1>3 DEF IInv

LEMMA NextIInv == IInv /\ [Next]_vars => IInv'
<1> SUFFICES ASSUME IInv, [Next]_vars PROVE IInv'
  OBVIOUS
<1>1. ASSUME NEW r \in Runs, Keeps(r) PROVE IInv'
  <2>1. ASSUME NEW q \in Runs \ {r} PROVE Numbered(q)' /\ Control(q)'
    BY <1>1, <2>1, Frame DEF Keeps, Local, IInv
  <2> QED BY <1>1, <2>1 DEF Keeps, IInv
<1>2. CASE \E r \in Runs : StartStrategyRun(r) \/ CallDirectly(r) \/ Execute(r)
  BY <1>1, <1>2, StartKeeps, CallKeeps, ExecuteKeeps
<1>3. CASE Crash
  BY <1>3, CrashKeeps
<1>4. CASE UNCHANGED vars
  <2>1. TypeOK'
    BY <1>4 DEF TypeOK, IInv, vars
  <2>2. ASSUME NEW q \in Runs PROVE Numbered(q)' /\ Control(q)'
    BY <1>4, <2>2, Frame DEF IInv, vars
  <2> QED BY <2>1, <2>2 DEF IInv
<1> QED BY <1>2, <1>3, <1>4 DEF Next
--------------------------------------------------------------------------------
(****************************************************************************)
(* The theorems.                                                            *)
(****************************************************************************)

\* The inductive invariant holds in every reachable state.
THEOREM Invariance == Spec => []IInv
BY InitIInv, NextIInv, PTL DEF Spec

\* The records, tasks, rows and channel messages of any number of runs keep
\* their types; in particular EventStore.append always derives a positive
\* sequence number.
THEOREM TypeCorrect == Spec => []TypeOK
<1>1. IInv => TypeOK
  BY DEF IInv
<1> QED BY <1>1, Invariance, PTL

\* The audit rows of every run are numbered 1, 2, ... and only the first is
\* run_started, for every set of runs and whichever failures can happen:
\* rollbacks, refused commits, commits whose acknowledgement is lost, crashes.
THEOREM AuditSequenceHolds == Spec => []AuditSequence
<1>1. IInv => AuditSequence
  <2> SUFFICES ASSUME IInv, NEW r \in Runs, NEW i \in 1..Len(log[r])
               PROVE  /\ log[r][i].sequence = i
                      /\ (log[r][i].type = "run_started") <=> (i = 1)
    BY DEF AuditSequence
  <2>1. log[r] \in Seq(DomainEvents) /\ tx[r] \in Seq(DomainEvents)
    BY DEF IInv, TypeOK
  <2>2. i \in 1..Len(Visible(r)) /\ Visible(r)[i] = log[r][i]
    BY <2>1, PrefixOfConcat DEF Visible
  <2> QED BY <2>2 DEF IInv, Numbered
<1> QED BY <1>1, Invariance, PTL

\* A poller never sees half an outcome: a completed record carries all three
\* reports, a pending or failed one none, a running one those of the stages
\* that are over.  Every SetRecord of the execution writes such a record.
THEOREM ResultsMatchStatusHolds == Spec => []ResultsMatchStatus
<1>1. Init => ResultsMatchStatus
  BY DEF Init, ResultsMatchStatus, HasRecord
<1>2. TypeOK /\ ResultsMatchStatus /\ [Next]_vars => ResultsMatchStatus'
  <2> SUFFICES ASSUME TypeOK, ResultsMatchStatus, [Next]_vars
               PROVE  ResultsMatchStatus'
    OBVIOUS
  <2>1. ASSUME NEW r \in Runs, NEW state \in Statuses, NEW ready, NEW live, NEW copy,
               SetRecord(r, state, ready, live, copy),
               state = "completed" => ready = Parts,
               state \in {"pending", "failed"} => ready = {},
               state = "running" =>
                   ready \in {{}, {"analysis"}, {"analysis", "simulation"}}
        PROVE  ResultsMatchStatus'
    BY <2>1 DEF SetRecord, ResultsMatchStatus, HasRecord, TypeOK
  <2>2. CASE UNCHANGED store
    BY <2>2 DEF ResultsMatchStatus, HasRecord
  <2>3. CASE \E r \in Runs : StartStrategyRun(r) \/ MarkRunning(r)
    BY <2>1, <2>3 DEF StartStrategyRun, MarkRunning, Statuses
  <2>4. CASE \E r \in Runs : Simulate(r) \/ Reconcile(r)
    BY <2>1, <2>4 DEF Simulate, Reconcile, Statuses
  <2>5. CASE \E r \in Runs : MarkCompleted(r) \/ MarkNotFound(r) \/ MarkFailed(r)
    BY <2>1, <2>5 DEF MarkCompleted, MarkNotFound, MarkFailed, Statuses
  <2>6. CASE Crash
    BY <2>6 DEF Crash, ResultsMatchStatus, HasRecord
  <2>7. CASE \E r \in Runs : CallDirectly(r) \/ Begin(r) \/ AppendStarted(r)
                 \/ CommitStarted(r) \/ Analyse(r) \/ EmitCompleted(r)
                 \/ Rollback(r) \/ AppendFailed(r) \/ CommitFailed(r)
    BY <2>2, <2>7 DEF CallDirectly, Begin, AppendStarted, CommitStarted, Analyse,
                      EmitCompleted, Rollback, AppendFailed, CommitFailed
  <2>8. CASE \E r \in Runs, stage \in {"completed", "not_found"} :
                 AppendTerminal(r, stage) \/ CommitTerminal(r, stage)
    BY <2>2, <2>8 DEF AppendTerminal, CommitTerminal
  <2>9. CASE UNCHANGED vars
    BY <2>2, <2>9 DEF vars
  <2> QED BY <2>3, <2>4, <2>5, <2>6, <2>7, <2>8, <2>9 DEF Next, Execute
<1> QED BY <1>1, <1>2, TypeCorrect, PTL DEF Spec
--------------------------------------------------------------------------------
(****************************************************************************)
(* The outcome of a run: what the record shows and what the audit has, at   *)
(* each point of the execution.                                             *)
(****************************************************************************)

\* How many terminal rows an unacknowledged commit can leave behind.
Lost == IF "lost_ack" \in Faults THEN 1 ELSE 0

\* The run_started row is committed and nothing has raised yet ...
Early(r) ==
    \/ At(r, "analyse", "started")
    \/ /\ task[r].at \in {"publish", "append", "commit"}
       /\ task[r].stage \in {"analysis", "simulation", "unified", "completed", "not_found"}

\* ... or the execution is in the handler of what raised.
Handling(r) ==
    \/ At(r, "rollback", "failed")
    \/ task[r].at \in {"publish", "append", "commit"} /\ task[r].stage = "failed"

\* The session has nothing to commit.
Clean(r) ==
    \/ task[r].at \in {"scheduled", "analyse", "append"}
    \/ task[r].at = "publish" /\ task[r].stage # "failed"

\* The positions the execution can be at.
PositionOK(r) ==
    /\ task[r].at \in {"append", "commit"} => task[r].stage \in DOMAIN EventOf
    /\ task[r].at \in {"idle", "scheduled", "analyse", "dead"} => task[r].stage = "started"
    /\ task[r].at = "done" => task[r].stage \in {"completed", "not_found", "failed"}

\* What the audit and the open transaction have.
RowsAt(r) ==
    /\ Len(log[r]) <= 2 + Lost
    /\ Len(log[r]) = 3 => log[r][3].type = "run_failed"
    /\ task[r].at # "crashed" /\ task[r].stage = "started" => Len(log[r]) <= 1
    /\ Early(r) => Len(log[r]) = 1
    /\ Handling(r) => Len(log[r]) <= 1 + Lost
    /\ Clean(r) => tx[r] = <<>>
    /\ task[r].at = "commit" => Len(tx[r]) = 1 /\ tx[r][1].type = EventOf[task[r].stage]

Shows(r, state, ready) == store[r].status = state /\ store[r].parts = ready

\* What the record shows.
RecordAt(r) ==
    LET at == task[r].at
        stage == task[r].stage
    IN  /\ at \in {"idle", "crashed"} => store[r] = NoRecord
        /\ at = "scheduled" \/ At(r, "publish", "started") =>
               Shows(r, "none", {}) \/ Shows(r, "pending", {})
        /\ at \in {"append", "commit", "analyse", "dead"} /\ stage = "started" =>
               Shows(r, "running", {})
        /\ at = "publish" /\ stage \in {"analysis", "not_found"} => Shows(r, "running", {})
        /\ At(r, "publish", "simulation") => Shows(r, "running", {"analysis"})
        /\ at = "publish" /\ stage \in {"unified", "completed"} =>
               Shows(r, "running", {"analysis", "simulation"})
        /\ at \in {"append", "commit", "done"} /\ stage = "completed" =>
               Shows(r, "completed", Parts)
        /\ at \in {"append", "commit", "done"} /\ stage = "not_found" => Shows(r, "failed", {})
        /\ At(r, "publish", "failed") =>
               \/ store[r].status = "running" /\ Len(log[r]) = 1
               \/ Shows(r, "completed", Parts)
               \/ Shows(r, "failed", {})
        /\ at \in {"rollback", "append", "commit", "done"} /\ stage = "failed" =>
               Shows(r, "failed", {})

\* With acknowledged commits, a second row is the outcome the record shows.
Agrees(r) ==
    "lost_ack" \notin Faults /\ HasRecord(r) /\ Len(log[r]) = 2 =>
        OutcomeOf(log[r][2]) = store[r].status

Settled(r) == PositionOK(r) /\ RowsAt(r) /\ RecordAt(r) /\ Agrees(r)

OInv == \A r \in Runs : Settled(r)

--------------------------------------------------------------------------------
\* From the numbering: the terminal rows are all but the first.
LEMMA TerminalRows ==
    ASSUME IInv, NEW r \in Runs
    PROVE  /\ Len(log[r]) \in Nat
           /\ TerminalEvents(r) = 2..Len(log[r])
           /\ \A i \in 1..Len(log[r]) : log[r][i] \in DomainEvents
<1>1. log[r] \in Seq(DomainEvents) /\ tx[r] \in Seq(DomainEvents)
  BY DEF IInv, TypeOK
<1>2. \A i \in 1..Len(log[r]) : i \in 1..Len(Visible(r)) /\ Visible(r)[i] = log[r][i]
  BY <1>1, PrefixOfConcat DEF Visible
<1>3. \A i \in 1..Len(log[r]) : log[r][i].type = "run_started" <=> i = 1
  BY <1>2 DEF IInv, Numbered
<1>4. Len(log[r]) \in Nat /\ \A i \in 1..Len(log[r]) : log[r][i] \in DomainEvents
  BY <1>1, LenProperties, ElementOfSeq
<1> QED BY <1>3, <1>4 DEF TerminalEvents

\* The second part of a concatenation comes after the first.
LEMMA SuffixOfConcat ==
    ASSUME NEW S, NEW s \in Seq(S), NEW t \in Seq(S)
    PROVE  \A i \in 1..Len(t) : (s \o t)[Len(s) + i] = t[i]
<1>1. Len(s) \in Nat /\ Len(t) \in Nat
  BY LenProperties
<1>2. \A i \in 1..(Len(s) + Len(t)) : (s \o t)[i] = IF i <= Len(s) THEN s[i] ELSE t[i - Len(s)]
  BY ConcatProperties
<1> QED BY <1>1, <1>2

\* The effects on the rows of a run, by position.
LEMMA CommitRows ==
    ASSUME IInv, NEW r \in Runs, Commit(r)
    PROVE  /\ Len(log[r]) \in Nat /\ Len(tx[r]) \in Nat
           /\ Len(log'[r]) = Len(log[r]) + Len(tx[r])
           /\ \A i \in 1..Len(log[r]) : log'[r][i] = log[r][i]
           /\ \A i \in 1..Len(tx[r]) : log'[r][Len(log[r]) + i] = tx[r][i]
           /\ tx'[r] = <<>>
           /\ \A q \in Runs \ {r} : tx'[q] = tx[q] /\ log'[q] = log[q]
<1>1. tx[r] \in Seq(DomainEvents) /\ log[r] \in Seq(DomainEvents)
  BY DEF IInv, TypeOK
<1>2. /\ tx'[r] = <<>> /\ log'[r] = log[r] \o tx[r]
      /\ \A q \in Runs \ {r} : tx'[q] = tx[q] /\ log'[q] = log[q]
  BY CommitNumbers DEF IInv
<1>3. Len(log[r]) \in Nat /\ Len(tx[r]) \in Nat
  BY <1>1, LenProperties
<1>4. Len(log'[r]) = Len(log[r]) + Len(tx[r])
  BY <1>1, <1>2, ConcatProperties
<1>5. \A i \in 1..Len(log[r]) : log'[r][i] = log[r][i]
  <2>1. \A i \in 1..Len(log[r]) : (log[r] \o tx[r])[i] = log[r][i]
    BY <1>1, PrefixOfConcat
  <2> QED BY <1>2, <2>1
<1>6. \A i \in 1..Len(tx[r]) : log'[r][Len(log[r]) + i] = tx[r][i]
  <2>1. \A i \in 1..Len(tx[r]) : (log[r] \o tx[r])[Len(log[r]) + i] = tx[r][i]
    BY <1>1, SuffixOfConcat
  <2> QED BY <1>2, <2>1
<1> QED BY <1>2, <1>3, <1>4, <1>5, <1>6

LEMMA FlushRows ==
    ASSUME IInv, NEW r \in Runs, NEW stage \in DOMAIN EventOf, tx[r] = <<>>, Flush(r, stage)
    PROVE  /\ Len(tx'[r]) = 1
           /\ tx'[r][1].type = EventOf[stage]
           /\ \A q \in Runs \ {r} : tx'[q] = tx[q]
<1> DEFINE row == [type |-> EventOf[stage], sequence |-> NextSequence(r)]
<1>1. tx' = [tx EXCEPT ![r] = Append(@, row)]
  BY DEF Flush
<1>2. tx'[r] = Append(<<>>, row) /\ \A q \in Runs \ {r} : tx'[q] = tx[q]
  BY <1>1 DEF IInv, TypeOK
<1>3. Append(<<>>, row) = <<row>>
  OBVIOUS
<1> QED BY <1>2, <1>3

\* A run of which a step changes nothing stays settled.
LEMMA SettledFrame ==
    ASSUME NEW q \in Runs, Settled(q), task'[q] = task[q], tx'[q] = tx[q],
           log'[q] = log[q], store'[q] = store[q]
    PROVE  Settled(q)'
<1>1. PositionOK(q)'
  BY DEF Settled, PositionOK
<1>2. RowsAt(q)'
  BY DEF Settled, RowsAt, Early, Handling, Clean, At
<1>3. RecordAt(q)'
  BY DEF Settled, RecordAt, Shows, At
<1>4. Agrees(q)'
  BY DEF Settled, Agrees, HasRecord
<1> QED BY <1>1, <1>2, <1>3, <1>4 DEF Settled

(****************************************************************************)
(* One lemma per action, grouped by what they write.                        *)
(****************************************************************************)
\* What a step of run r leaves alone of the others.
Apart(r) ==
    \A q \in Runs \ {r} :
        task'[q] = task[q] /\ tx'[q] = tx[q] /\ log'[q] = log[q] /\ store'[q] = store[q]

Settles(r) == Settled(r)' /\ Apart(r)

\* The record a handler writes; the records of other runs stay.
LEMMA RecordShows ==
    ASSUME TypeOK, NEW r \in Runs, NEW state \in Statuses, NEW ready, NEW live, NEW copy,
           SetRecord(r, state, ready, live, copy)
    PROVE  /\ store'[r] = [status |-> state, parts |-> ready, live |-> live, copy |-> copy]
           /\ Shows(r, state, ready)'
           /\ store'[r] # NoRecord
           /\ \A q \in Runs \ {r} : store'[q] = store[q]
<1>1. store'[r] = [status |-> state, parts |-> ready, live |-> live, copy |-> copy]
  BY DEF SetRecord, TypeOK
<1>2. store'[r].status # "none"
  BY <1>1 DEF Statuses
<1> QED BY <1>1, <1>2 DEF SetRecord, TypeOK, Shows, NoRecord

\* Registering a run and everything before the append of run_started.
LEMMA OpeningSettles ==
    ASSUME IInv, OInv, NEW r \in Runs,
           StartStrategyRun(r) \/ CallDirectly(r) \/ Begin(r) \/ MarkRunning(r)
    PROVE  Settles(r)
<1> USE DEF IInv, OInv
<1>1. PICK point \in {"scheduled", "publish", "append"} : Goto(r, point, "started")
  BY DEF StartStrategyRun, CallDirectly, Begin, MarkRunning
<1>2. /\ task'[r] = [at |-> point, stage |-> "started"]
      /\ \A q \in Runs \ {r} : task'[q] = task[q]
  BY <1>1, GotoEffect DEF Points, Stages
<1>3. Settled(r) /\ tx[r] = <<>> /\ log[r] = <<>> /\ UNCHANGED <<tx, log>>
  <2>1. CASE task[r].at \in {"idle", "scheduled"}
    BY <2>1 DEF StartStrategyRun, CallDirectly, Begin, MarkRunning, Control, Fresh
  <2>2. CASE At(r, "publish", "started") /\ MarkRunning(r)
    BY <2>2 DEF MarkRunning, Control, Fresh, At
  <2> QED BY <2>1, <2>2 DEF StartStrategyRun, CallDirectly, Begin, MarkRunning, Published
<1>4. CASE StartStrategyRun(r)
  <2>1. task'[r].at = "scheduled"
    BY <1>4, GotoEffect DEF StartStrategyRun, Points, Stages
  <2>2. Shows(r, "pending", {})' /\ \A q \in Runs \ {r} : store'[q] = store[q]
    BY <1>4, RecordShows DEF StartStrategyRun, Statuses
  <2> QED BY <1>2, <1>3, <2>1, <2>2 DEF Settles, Settled, Apart, PositionOK, RowsAt,
             RecordAt, Agrees, Early, Handling, Clean, At, Lost
<1>5. CASE MarkRunning(r)
  <2>1. task'[r].at = "append"
    BY <1>5, GotoEffect DEF MarkRunning, Points, Stages
  <2>2. Shows(r, "running", {})' /\ \A q \in Runs \ {r} : store'[q] = store[q]
    BY <1>5, RecordShows DEF MarkRunning, Statuses
  <2> QED BY <1>2, <1>3, <2>1, <2>2 DEF Settles, Settled, Apart, PositionOK, RowsAt,
             RecordAt, Agrees, Early, Handling, Clean, At, Lost, EventOf
<1>6. CASE CallDirectly(r) \/ Begin(r)
  <2>1. task'[r].at \in {"scheduled", "publish"}
    BY <1>6, GotoEffect DEF CallDirectly, Begin, Points, Stages
  <2>2. UNCHANGED store /\ (Shows(r, "none", {}) \/ Shows(r, "pending", {}))
    BY <1>3, <1>6 DEF CallDirectly, Begin, Settled, RecordAt, Shows, NoRecord
  <2> QED BY <1>2, <1>3, <2>1, <2>2 DEF Settles, Settled, Apart, PositionOK, RowsAt,
             RecordAt, Agrees, Early, Handling, Clean, At, Lost, Shows
<1> QED BY <1>4, <1>5, <1>6

LEMMA StartedAuditSettles ==
    ASSUME IInv, OInv, NEW r \in Runs, AppendStarted(r) \/ CommitStarted(r)
    PROVE  Settles(r)
<1> USE DEF IInv, OInv
<1>1. PICK point \in {"commit", "analyse", "dead"} : Goto(r, point, "started")
  BY DEF AppendStarted, CommitStarted
<1>2. /\ task'[r] = [at |-> point, stage |-> "started"]
      /\ \A q \in Runs \ {r} : task'[q] = task[q]
  BY <1>1, GotoEffect DEF Points, Stages
<1>3. /\ UNCHANGED store /\ Settled(r) /\ Shows(r, "running", {})
      /\ task[r].at \in {"append", "commit"} /\ task[r].stage = "started"
  BY DEF AppendStarted, CommitStarted, At, Settled, RecordAt
<1>4. log[r] = <<>> /\ Len(log[r]) = 0
  BY <1>3, EmptySeq DEF AppendStarted, CommitStarted, Control, Fresh, At
<1>5. CASE AppendStarted(r)
  <2>1. tx[r] = <<>> /\ UNCHANGED log /\ point \in {"commit", "dead"}
    BY <1>2, <1>3, <1>5, GotoEffect DEF AppendStarted, Control, Fresh, At, Points, Stages
  <2>2. CASE Flush(r, "started") /\ point = "commit"
    <3>1. /\ Len(tx'[r]) = 1 /\ tx'[r][1].type = EventOf["started"]
          /\ \A q \in Runs \ {r} : tx'[q] = tx[q]
      BY <2>1, <2>2, FlushRows DEF EventOf
    <3> QED BY <1>2, <1>3, <1>4, <2>1, <2>2, <3>1 DEF Settles, Settled, Apart, PositionOK,
               RowsAt, RecordAt, Agrees, Early, Handling, Clean, At, Lost, Shows, EventOf
  <2>3. CASE UNCHANGED tx /\ point = "dead"
    BY <1>2, <1>3, <1>4, <2>1, <2>3 DEF Settles, Settled, Apart, PositionOK,
       RowsAt, RecordAt, Agrees, Early, Handling, Clean, At, Lost, Shows
  <2> QED BY <1>1, <1>2, <1>5, <2>1, <2>2, <2>3, GotoEffect DEF AppendStarted, Points, Stages
<1>6. CASE CommitStarted(r)
  <2>1. Len(tx[r]) = 1 /\ point \in {"analyse", "dead"}
    BY <1>2, <1>3, <1>6, GotoEffect DEF CommitStarted, Settled, RowsAt, At, Points, Stages
  <2>2. CASE Commit(r)
    <3>1. /\ Len(log'[r]) = 1 /\ tx'[r] = <<>>
          /\ \A q \in Runs \ {r} : tx'[q] = tx[q] /\ log'[q] = log[q]
      <4>1. /\ Len(log'[r]) = Len(log[r]) + Len(tx[r]) /\ tx'[r] = <<>>
            /\ \A q \in Runs \ {r} : tx'[q] = tx[q] /\ log'[q] = log[q]
        BY <2>2, CommitRows
      <4> QED BY <1>4, <2>1, <4>1
    <3> QED BY <1>2, <1>3, <2>1, <3>1 DEF Settles, Settled, Apart, PositionOK,
               RowsAt, RecordAt, Agrees, Early, Handling, Clean, At, Lost, Shows
  <2>3. CASE tx' = [tx EXCEPT ![r] = <<>>] /\ UNCHANGED log /\ point = "dead"
    BY <1>2, <1>3, <1>4, <2>1, <2>3 DEF Settles, Settled, Apart, PositionOK,
       RowsAt, RecordAt, Agrees, Early, Handling, Clean, At, Lost, Shows, TypeOK
  <2> QED BY <1>2, <1>6, <2>1, <2>2, <2>3, GotoEffect DEF CommitStarted, Points, Stages
<1> QED BY <1>5, <1>6

\* A stage that ends: the record shows its report and the next step, or the
\* failure, is emitted.  No row is written before the outcome.
LEMMA StageSettles ==
    ASSUME IInv, OInv, NEW r \in Runs,
           Analyse(r) \/ Simulate(r) \/ Reconcile(r) \/ EmitCompleted(r)
    PROVE  Settles(r)
<1> USE DEF IInv, OInv
<1>1. Settled(r) /\ UNCHANGED <<tx, log>>
  BY DEF Analyse, Simulate, Reconcile, EmitCompleted
<1>2. \/ At(r, "analyse", "started")
      \/ \E stage \in {"analysis", "simulation", "unified"} : At(r, "publish", stage)
  BY DEF Analyse, Simulate, Reconcile, EmitCompleted, Published
<1>3. Early(r) /\ Clean(r)
  BY <1>2 DEF Early, Clean, At
<1>11. Len(log[r]) = 1 /\ tx[r] = <<>>
  BY <1>1, <1>3 DEF Settled, RowsAt
<1>4. PICK stage \in Stages : EmitStep(r, stage)
  BY DEF Analyse, Simulate, Reconcile, EmitCompleted, Raise, Stages
<1>5. /\ task'[r] = [at |-> "publish", stage |-> stage]
      /\ \A q \in Runs \ {r} : task'[q] = task[q]
  BY <1>4, EmitEffect
<1>6. ASSUME \A q \in Runs \ {r} : store'[q] = store[q],
             \/ stage \in {"analysis", "not_found"} /\ Shows(r, "running", {})'
             \/ stage = "simulation" /\ Shows(r, "running", {"analysis"})'
             \/ stage \in {"unified", "completed"} /\ Shows(r, "running", {"analysis", "simulation"})'
             \/ stage = "failed" /\ store'[r].status = "running"
      PROVE  Settles(r)
  BY <1>1, <1>11, <1>5, <1>6 DEF Settles, Settled, Apart, PositionOK, RowsAt,
     RecordAt, Agrees, Early, Handling, Clean, At, Lost, Shows
<1>7. CASE Analyse(r)
  <2>1. stage \in {"analysis", "not_found", "failed"}
    BY <1>5, <1>7, EmitEffect DEF Analyse, Raise, Stages
  <2>2. UNCHANGED store /\ Shows(r, "running", {})
    BY <1>1, <1>7 DEF Analyse, At, Settled, RecordAt
  <2> QED BY <1>6, <2>1, <2>2 DEF Shows
<1>8. CASE Simulate(r)
  <2>1. stage \in {"simulation", "failed"}
    BY <1>5, <1>8, EmitEffect DEF Simulate, Raise, Stages
  <2>2. Shows(r, "running", {"analysis"})' /\ \A q \in Runs \ {r} : store'[q] = store[q]
    BY <1>8, RecordShows DEF Simulate, Statuses
  <2> QED BY <1>6, <2>1, <2>2 DEF Shows
<1>9. CASE Reconcile(r)
  <2>1. stage \in {"unified", "failed"}
    BY <1>5, <1>9, EmitEffect DEF Reconcile, Raise, Stages
  <2>2. Shows(r, "running", {"analysis", "simulation"})' /\ \A q \in Runs \ {r} : store'[q] = store[q]
    BY <1>9, RecordShows DEF Reconcile, Statuses
  <2> QED BY <1>6, <2>1, <2>2 DEF Shows
<1>10. CASE EmitCompleted(r)
  <2>1. stage = "completed"
    BY <1>5, <1>10, EmitEffect DEF EmitCompleted, Stages
  <2>2. UNCHANGED store /\ Shows(r, "running", {"analysis", "simulation"})
    BY <1>1, <1>10 DEF EmitCompleted, Published, At, Settled, RecordAt
  <2> QED BY <1>6, <2>1, <2>2 DEF Shows
<1> QED BY <1>7, <1>8, <1>9, <1>10

\* The record of the outcome, before its audit.
LEMMA MarkSettles ==
    ASSUME IInv, OInv, NEW r \in Runs, MarkCompleted(r) \/ MarkNotFound(r) \/ MarkFailed(r)
    PROVE  Settles(r)
<1> USE DEF IInv, OInv
<1>1. Settled(r) /\ UNCHANGED <<tx, log>>
  BY DEF MarkCompleted, MarkNotFound, MarkFailed
<1>2. CASE MarkCompleted(r)
  <2>1. /\ task'[r] = [at |-> "append", stage |-> "completed"]
        /\ \A q \in Runs \ {r} : task'[q] = task[q]
    BY <1>2, GotoEffect DEF MarkCompleted, Points, Stages
  <2>2. Shows(r, "completed", Parts)' /\ \A q \in Runs \ {r} : store'[q] = store[q]
    BY <1>2, RecordShows DEF MarkCompleted, Statuses
  <2>3. At(r, "publish", "completed")
    BY <1>2 DEF MarkCompleted, Published
  <2> QED BY <1>1, <2>1, <2>2, <2>3 DEF Settles, Settled, Apart, PositionOK, RowsAt,
             RecordAt, Agrees, Early, Handling, Clean, At, Lost, Shows, EventOf
<1>3. CASE MarkNotFound(r)
  <2>1. /\ task'[r] = [at |-> "append", stage |-> "not_found"]
        /\ \A q \in Runs \ {r} : task'[q] = task[q]
    BY <1>3, GotoEffect DEF MarkNotFound, Points, Stages
  <2>2. Shows(r, "failed", {})' /\ \A q \in Runs \ {r} : store'[q] = store[q]
    BY <1>3, RecordShows DEF MarkNotFound, Statuses
  <2>3. At(r, "publish", "not_found")
    BY <1>3 DEF MarkNotFound, Published
  <2> QED BY <1>1, <2>1, <2>2, <2>3 DEF Settles, Settled, Apart, PositionOK, RowsAt,
             RecordAt, Agrees, Early, Handling, Clean, At, Lost, Shows, EventOf
<1>4. CASE MarkFailed(r)
  <2>1. /\ task'[r] = [at |-> "rollback", stage |-> "failed"]
        /\ \A q \in Runs \ {r} : task'[q] = task[q]
    BY <1>4, GotoEffect DEF MarkFailed, Points, Stages
  <2>2. Shows(r, "failed", {})' /\ \A q \in Runs \ {r} : store'[q] = store[q]
    BY <1>4, RecordShows DEF MarkFailed, Statuses
  <2>3. At(r, "publish", "failed") /\ Len(log[r]) \in Nat
    BY <1>4, TerminalRows DEF MarkFailed, Published
  <2> QED BY <1>1, <2>1, <2>2, <2>3 DEF Settles, Settled, Apart, PositionOK, RowsAt,
             RecordAt, Agrees, Early, Handling, Clean, At, Lost, Shows, EventOf
<1> QED BY <1>2, <1>3, <1>4

\* The audit of the outcome fails, and the handler takes over.
LEMMA RaiseSettles ==
    ASSUME IInv, OInv, NEW r \in Runs, UNCHANGED <<store, tx, log>>,
           NEW stage \in {"completed", "not_found"},
           At(r, "append", stage) \/ At(r, "commit", stage), Raise(r)
    PROVE  Settles(r)
<1>1. /\ task'[r] = [at |-> "publish", stage |-> "failed"]
      /\ \A q \in Runs \ {r} : task'[q] = task[q]
  BY EmitEffect DEF Raise, Stages, IInv
<1>2. Settled(r) /\ Early(r)
  BY DEF OInv, At, Early
<1>3. Len(log[r]) = 1
  BY <1>2 DEF Settled, RowsAt
<1>4. Shows(r, "completed", Parts) \/ Shows(r, "failed", {})
  BY <1>2 DEF Settled, RecordAt, At
<1> QED BY <1>1, <1>2, <1>3, <1>4 DEF Settles, Settled, Apart, PositionOK, RowsAt,
           RecordAt, Agrees, Early, Handling, Clean, At, Lost, Shows

\* The row of the outcome is flushed ...
LEMMA FlushSettles ==
    ASSUME IInv, OInv, NEW r \in Runs, UNCHANGED <<store, log>>,
           NEW stage \in {"completed", "not_found", "failed"}, At(r, "append", stage),
           Flush(r, stage), Goto(r, "commit", stage)
    PROVE  Settles(r)
<1>1. /\ task'[r] = [at |-> "commit", stage |-> stage]
      /\ \A q \in Runs \ {r} : task'[q] = task[q]
  BY GotoEffect DEF Points, Stages, IInv
<1>2. Settled(r) /\ tx[r] = <<>>
  BY DEF OInv, Settled, RowsAt, Clean, At
<1>3. /\ Len(tx'[r]) = 1 /\ tx'[r][1].type = EventOf[stage]
      /\ \A q \in Runs \ {r} : tx'[q] = tx[q]
  BY <1>2, FlushRows DEF EventOf
<1> QED BY <1>1, <1>2, <1>3 DEF Settles, Settled, Apart, PositionOK, RowsAt,
           RecordAt, Agrees, Early, Handling, Clean, At, Lost, Shows, EventOf

\* ... and committed: one row more, of the outcome that the record shows.
LEMMA OutcomeCommitted ==
    ASSUME IInv, OInv, NEW r \in Runs,
           NEW stage \in {"completed", "not_found", "failed"}, At(r, "commit", stage), Commit(r)
    PROVE  /\ Len(log[r]) \in Nat /\ Len(log[r]) >= 1
           /\ Len(log'[r]) = Len(log[r]) + 1
           /\ \A i \in 1..Len(log[r]) : log'[r][i] = log[r][i]
           /\ log'[r][Len(log[r]) + 1].type = EventOf[stage]
           /\ OutcomeOf(log'[r][Len(log[r]) + 1]) = store[r].status
           /\ stage # "failed" => Len(log[r]) = 1
           /\ Len(log[r]) <= 1 + Lost
           /\ tx'[r] = <<>>
           /\ \A q \in Runs \ {r} : tx'[q] = tx[q] /\ log'[q] = log[q]
<1>1. task[r].at = "commit" /\ task[r].stage = stage /\ Settled(r)
  BY DEF At, OInv
<1>2. Len(tx[r]) = 1 /\ tx[r][1].type = EventOf[stage]
  BY <1>1 DEF Settled, RowsAt
<1>3. /\ Len(log[r]) \in Nat
      /\ Len(log'[r]) = Len(log[r]) + Len(tx[r])
      /\ \A i \in 1..Len(log[r]) : log'[r][i] = log[r][i]
      /\ \A i \in 1..Len(tx[r]) : log'[r][Len(log[r]) + i] = tx[r][i]
      /\ tx'[r] = <<>>
      /\ \A q \in Runs \ {r} : tx'[q] = tx[q] /\ log'[q] = log[q]
  BY CommitRows
<1>4. log'[r][Len(log[r]) + 1] = tx[r][1]
  BY <1>2, <1>3
<1>5. Len(log[r]) >= 1
  <2>1. log[r] # <<>> /\ log[r] \in Seq(DomainEvents)
    BY <1>1 DEF IInv, TypeOK, Control, Opened
  <2> QED BY <2>1, EmptySeq
<1>6. Shows(r, IF stage = "completed" THEN "completed" ELSE "failed",
               IF stage = "completed" THEN Parts ELSE {})
  BY <1>1 DEF Settled, RecordAt
<1>7. OutcomeOf(log'[r][Len(log[r]) + 1]) = store[r].status
  BY <1>2, <1>4, <1>6 DEF OutcomeOf, EventOf, Shows
<1>8. (stage # "failed" => Len(log[r]) = 1) /\ Len(log[r]) <= 1 + Lost
  BY <1>1, <1>3 DEF Settled, RowsAt, Early, Handling, Lost
<1> QED BY <1>2, <1>3, <1>4, <1>5, <1>7, <1>8

LEMMA CommitSettles ==
    ASSUME IInv, OInv, NEW r \in Runs, UNCHANGED store,
           NEW stage \in {"completed", "not_found", "failed"}, At(r, "commit", stage), Commit(r),
           \/ Goto(r, "done", stage)
           \/ stage # "failed" /\ "lost_ack" \in Faults /\ Raise(r)
    PROVE  Settles(r)
<1>1. /\ \/ task'[r] = [at |-> "done", stage |-> stage]
         \/ /\ task'[r] = [at |-> "publish", stage |-> "failed"]
            /\ stage # "failed" /\ "lost_ack" \in Faults
      /\ \A q \in Runs \ {r} : task'[q] = task[q]
  <2>1. CASE Goto(r, "done", stage)
    BY <2>1, GotoEffect DEF Points, Stages, IInv
  <2>2. CASE stage # "failed" /\ "lost_ack" \in Faults /\ Raise(r)
    BY <2>2, EmitEffect DEF Raise, Stages, IInv
  <2> QED BY <2>1, <2>2
<1>2. task[r].at = "commit" /\ task[r].stage = stage /\ Settled(r)
  BY DEF At, OInv
<1>3. Shows(r, IF stage = "completed" THEN "completed" ELSE "failed",
               IF stage = "completed" THEN Parts ELSE {})
  BY <1>2 DEF Settled, RecordAt
<1> DEFINE n == Len(log[r])
<1>4. /\ n \in Nat /\ n >= 1 /\ n <= 1 + Lost /\ (stage # "failed" => n = 1)
      /\ Len(log'[r]) = n + 1
      /\ log'[r][n + 1].type = EventOf[stage]
      /\ OutcomeOf(log'[r][n + 1]) = store[r].status
      /\ tx'[r] = <<>>
      /\ \A q \in Runs \ {r} : tx'[q] = tx[q] /\ log'[q] = log[q]
  BY OutcomeCommitted
<1> HIDE DEF n
<1>5. PositionOK(r)'
  BY <1>1 DEF PositionOK
<1>6. RowsAt(r)'
  BY <1>1, <1>4 DEF RowsAt, Early, Handling, Clean, At, Lost, EventOf
<1>7. RecordAt(r)'
  BY <1>1, <1>3 DEF RecordAt, Shows, At
<1>8. Agrees(r)'
  BY <1>4 DEF Agrees, Lost
<1> QED BY <1>1, <1>4, <1>5, <1>6, <1>7, <1>8 DEF Settles, Settled, Apart

\* The handler's rollback, and the failures it swallows.
LEMMA HandlerSettles ==
    ASSUME IInv, OInv, NEW r \in Runs, UNCHANGED <<store, log>>,
           \/ At(r, "rollback", "failed") /\ tx' = [tx EXCEPT ![r] = <<>>]
           \/ At(r, "append", "failed") /\ UNCHANGED tx
           \/ At(r, "commit", "failed") /\ tx' = [tx EXCEPT ![r] = <<>>],
           NEW point \in {"append", "done"}, Goto(r, point, "failed"),
           point = "append" => At(r, "rollback", "failed")
    PROVE  Settles(r)
<1>1. /\ task'[r] = [at |-> point, stage |-> "failed"]
      /\ \A q \in Runs \ {r} : task'[q] = task[q]
  BY GotoEffect DEF Points, Stages, IInv
<1>2. /\ task[r].at \in {"rollback", "append", "commit"} /\ task[r].stage = "failed"
      /\ Settled(r)
  BY DEF At, OInv
<1>3. Handling(r) /\ Shows(r, "failed", {})
  BY <1>2 DEF Settled, RecordAt, Handling, At
<1>4. tx'[r] = <<>> /\ \A q \in Runs \ {r} : tx'[q] = tx[q]
  <2>1. CASE At(r, "append", "failed") /\ UNCHANGED tx
    BY <1>2, <2>1 DEF Settled, RowsAt, Clean, At
  <2>2. CASE tx' = [tx EXCEPT ![r] = <<>>]
    BY <2>2 DEF IInv, TypeOK
  <2> QED BY <2>1, <2>2
<1>5. Len(log[r]) \in Nat /\ Len(log[r]) <= 1 + Lost
  BY <1>2, <1>3, TerminalRows DEF Settled, RowsAt
<1> QED BY <1>1, <1>2, <1>3, <1>4, <1>5 DEF Settles, Settled, Apart, PositionOK, RowsAt,
           RecordAt, Agrees, Early, Handling, Clean, At, Lost, Shows, EventOf

LEMMA ExecuteSettles ==
    ASSUME IInv, OInv, NEW r \in Runs, Execute(r) PROVE Settles(r)
<1>1. CASE Begin(r) \/ MarkRunning(r)
  BY <1>1, OpeningSettles
<1>2. CASE AppendStarted(r) \/ CommitStarted(r)
  BY <1>2, StartedAuditSettles
<1>3. CASE Analyse(r) \/ Simulate(r) \/ Reconcile(r) \/ EmitCompleted(r)
  BY <1>3, StageSettles
<1>4. CASE MarkCompleted(r) \/ MarkNotFound(r) \/ MarkFailed(r)
  BY <1>4, MarkSettles
<1>5. ASSUME NEW stage \in {"completed", "not_found"}, AppendTerminal(r, stage)
      PROVE  Settles(r)
  BY <1>5, FlushSettles, RaiseSettles DEF AppendTerminal
<1>6. ASSUME NEW stage \in {"completed", "not_found"}, CommitTerminal(r, stage)
      PROVE  Settles(r)
  BY <1>6, CommitSettles, RaiseSettles DEF CommitTerminal
<1>7. CASE Rollback(r)
  BY <1>7, HandlerSettles DEF Rollback
<1>8. CASE AppendFailed(r)
  BY <1>8, FlushSettles, HandlerSettles DEF AppendFailed
<1>9. CASE CommitFailed(r)
  BY <1>9, CommitSettles, HandlerSettles DEF CommitFailed
<1> QED BY <1>1, <1>2, <1>3, <1>4, <1>5, <1>6, <1>7, <1>8, <1>9 DEF Execute

LEMMA InitOInv == Init => OInv
<1> SUFFICES ASSUME Init, NEW r \in Runs PROVE Settled(r)
  BY DEF OInv
<1>1. Len(log[r]) = 0 /\ tx[r] = <<>> /\ store[r] = NoRecord
      /\ task[r] = [at |-> "idle", stage |-> "started"]
  BY EmptySeq DEF Init
<1> QED BY <1>1 DEF Settled, PositionOK, RowsAt, RecordAt, Agrees, Early, Handling,
           Clean, At, Lost, HasRecord

LEMMA CrashSettles ==
    ASSUME IInv, OInv, Crash PROVE OInv'
<1> SUFFICES ASSUME NEW r \in Runs PROVE Settled(r)'
  BY DEF OInv
<1>1. /\ store'[r] = NoRecord /\ tx'[r] = <<>> /\ log'[r] = log[r]
      /\ task'[r] = IF task[r].at = "idle" THEN task[r]
                    ELSE [at |-> "crashed", stage |-> "started"]
  BY DEF Crash
<1>2. Settled(r)
  BY DEF OInv
<1>3. CASE task[r].at = "idle"
  BY <1>1, <1>2, <1>3 DEF Settled, PositionOK, RowsAt, RecordAt, Agrees, Early, Handling,
     Clean, At, Lost, HasRecord
<1>4. CASE task[r].at # "idle"
  BY <1>1, <1>2, <1>4 DEF Settled, PositionOK, RowsAt, RecordAt, Agrees, Early, Handling,
     Clean, At, Lost, HasRecord
<1> QED BY <1>3, <1>4

LEMMA NextOInv == IInv /\ OInv /\ [Next]_vars => OInv'
<1> SUFFICES ASSUME IInv, OInv, [Next]_vars PROVE OInv'
  OBVIOUS
<1>1. ASSUME NEW r \in Runs, Settles(r) PROVE OInv'
  BY <1>1, SettledFrame DEF Settles, Apart, OInv
<1>2. CASE \E r \in Runs : StartStrategyRun(r) \/ CallDirectly(r) \/ Execute(r)
  BY <1>1, <1>2, OpeningSettles, ExecuteSettles
<1>3. CASE Crash
  BY <1>3, CrashSettles
<1>4. CASE UNCHANGED vars
  BY <1>4, SettledFrame DEF OInv, vars
<1> QED BY <1>2, <1>3, <1>4 DEF Next

\* The committed rows of a run stay, in their places.
LEMMA LogGrows ==
    ASSUME IInv, [Next]_vars, NEW r \in Runs
    PROVE  /\ Len(log'[r]) >= Len(log[r])
           /\ \A i \in 1..Len(log[r]) : log'[r][i] = log[r][i]
<1>1. Len(log[r]) \in Nat
  BY TerminalRows
<1>2. ASSUME NEW q \in Runs, Commit(q)
      PROVE  /\ Len(log'[r]) >= Len(log[r])
             /\ \A i \in 1..Len(log[r]) : log'[r][i] = log[r][i]
  <2>1. CASE q = r
    <3> DEFINE n == Len(log[r])
               k == Len(tx[r])
    <3>1. k \in Nat /\ Len(log'[r]) = n + k /\ \A i \in 1..n : log'[r][i] = log[r][i]
      BY <1>2, <2>1, CommitRows
    <3> HIDE DEF k
    <3> QED BY <1>1, <3>1
  <2>2. CASE q # r
    <3>1. log'[r] = log[r]
      BY <1>2, <2>2, CommitRows
    <3>2. Len(log'[r]) = Len(log[r])
      BY <3>1
    <3> QED BY <1>1, <3>1, <3>2
  <2> QED BY <2>1, <2>2
<1>3. CASE UNCHANGED log
  BY <1>1, <1>3
<1>4. CASE \E q \in Runs : \/ StartStrategyRun(q) \/ CallDirectly(q) \/ Begin(q)
               \/ MarkRunning(q) \/ AppendStarted(q) \/ Analyse(q) \/ Simulate(q)
               \/ Reconcile(q) \/ EmitCompleted(q)
  BY <1>3, <1>4 DEF StartStrategyRun, CallDirectly, Begin, MarkRunning, AppendStarted,
     Analyse, Simulate, Reconcile, EmitCompleted
<1>5. CASE \E q \in Runs : \/ MarkCompleted(q) \/ MarkNotFound(q) \/ MarkFailed(q)
               \/ Rollback(q) \/ AppendFailed(q)
               \/ \E stage \in {"completed", "not_found"} : AppendTerminal(q, stage)
  BY <1>3, <1>5 DEF MarkCompleted, MarkNotFound, MarkFailed, Rollback, AppendFailed,
     AppendTerminal
<1>6. CASE \E q \in Runs : \/ CommitStarted(q) \/ CommitFailed(q)
               \/ \E stage \in {"completed", "not_found"} : CommitTerminal(q, stage)
  <2>1. UNCHANGED log \/ \E q \in Runs : Commit(q)
    BY <1>6 DEF CommitStarted, CommitFailed, CommitTerminal
  <2> QED BY <1>2, <1>3, <2>1
<1>7. CASE Crash \/ UNCHANGED vars
  BY <1>3, <1>7 DEF Crash, vars
<1> QED BY <1>4, <1>5, <1>6, <1>7 DEF Next, Execute

\* What the record shows and what the audit has, at each point of the
\* execution, in every reachable state.
THEOREM OutcomeInvariance == Spec => []OInv
BY InitOInv, NextOInv, Invariance, PTL DEF Spec

\* A committed terminal event says the outcome the record says, for every set of
\* runs and of failures, as long as commits are acknowledged.
THEOREM AuditAgreesWithRecordHolds == Spec => []AuditAgreesWithRecord
<1>1. IInv /\ OInv => AuditAgreesWithRecord
  <2> SUFFICES ASSUME IInv, OInv, "lost_ack" \notin Faults, NEW r \in Runs, HasRecord(r),
                      NEW i \in TerminalEvents(r)
               PROVE  OutcomeOf(log[r][i]) = store[r].status
    BY DEF AuditAgreesWithRecord
  <2> DEFINE n == Len(log[r])
  <2>1. n \in Nat /\ i \in 2..n
    BY TerminalRows
  <2>2. n <= 2 /\ Agrees(r)
    BY DEF OInv, Settled, RowsAt, Lost
  <2> HIDE DEF n
  <2>3. i = 2 /\ n = 2
    BY <2>1, <2>2
  <2> QED BY <2>2, <2>3 DEF Agrees, n
<1> QED BY <1>1, Invariance, OutcomeInvariance, PTL

\* A run has one terminal event at most, or two when a commit may take effect
\* unacknowledged, and then the second is run_failed.
THEOREM TerminalEventsBoundedHolds == Spec => []TerminalEventsBounded
<1>1. IInv /\ OInv => TerminalEventsBounded
  <2> SUFFICES ASSUME IInv, OInv, NEW r \in Runs
               PROVE  /\ Cardinality(TerminalEvents(r)) <= (IF "lost_ack" \in Faults THEN 2 ELSE 1)
                      /\ \A i, j \in TerminalEvents(r) : i < j => log[r][j].type = "run_failed"
    BY DEF TerminalEventsBounded
  <2> DEFINE n == Len(log[r])
  <2>1. n \in Nat /\ TerminalEvents(r) = 2..n
    BY TerminalRows
  <2>2. n <= 2 + Lost /\ (n = 3 => log[r][3].type = "run_failed") /\ Lost \in {0, 1}
    BY DEF OInv, Settled, RowsAt, Lost
  <2> HIDE DEF n
  <2>3. Cardinality(2..n) = IF 2 > n THEN 0 ELSE (n - 2) + 1
    BY <2>1, FS_Interval
  <2>4. Cardinality(TerminalEvents(r)) <= (IF "lost_ack" \in Faults THEN 2 ELSE 1)
    BY <2>1, <2>2, <2>3 DEF Lost
  <2>5. \A i, j \in TerminalEvents(r) : i < j => log[r][j].type = "run_failed"
    BY <2>1, <2>2
  <2> QED BY <2>4, <2>5
<1> QED BY <1>1, Invariance, OutcomeInvariance, PTL

\* Once a terminal event is committed, no step of a living process changes the
\* status of the record.
THEOREM AuditedOutcomeIsFinalHolds == Spec => AuditedOutcomeIsFinal
<1> DEFINE Final == \A r \in Runs :
                /\ "lost_ack" \notin Faults
                /\ TerminalEvents(r) # {} /\ HasRecord(r) /\ HasRecord(r)'
                => store'[r].status = store[r].status
<1>1. IInv /\ IInv' /\ OInv /\ OInv' /\ [Next]_vars => Final
  <2> SUFFICES ASSUME IInv, IInv', OInv, OInv', [Next]_vars, NEW r \in Runs,
                      "lost_ack" \notin Faults, TerminalEvents(r) # {}, HasRecord(r), HasRecord(r)'
               PROVE  store'[r].status = store[r].status
    BY DEF Final
  <2> DEFINE n == Len(log[r])
             m == Len(log'[r])
  <2>1. /\ n \in Nat /\ n <= 2 /\ TerminalEvents(r) = 2..n
        /\ Agrees(r) /\ Agrees(r)'
    BY TerminalRows DEF OInv, Settled, RowsAt, Lost
  <2>2. m \in Nat /\ m <= 2
    <3>1. log'[r] \in Seq(DomainEvents)
      BY DEF IInv, TypeOK
    <3> QED BY <3>1, LenProperties DEF OInv, Settled, RowsAt, Lost
  <2>3. m >= n /\ \A i \in 1..n : log'[r][i] = log[r][i]
    BY LogGrows
  <2> HIDE DEF n, m
  <2>4. n = 2 /\ m = 2
    BY <2>1, <2>2, <2>3
  <2>5. log'[r][2] = log[r][2]
    BY <2>3, <2>4
  <2> QED BY <2>1, <2>4, <2>5 DEF Agrees, HasRecord, n, m
<1> QED BY <1>1, Invariance, OutcomeInvariance, PTL DEF Spec, AuditedOutcomeIsFinal

--------------------------------------------------------------------------------
(****************************************************************************)
(* StrategyRun implements RunLifecycle.  What a client and an auditor see   *)
(* of a run:                                                                *)
(****************************************************************************)
StatusSeen(r) == IF task[r].at = "crashed" THEN "lost" ELSE store[r].status
AuditSeen(r) == {OutcomeOf(log[r][i]) : i \in TerminalEvents(r)}

\* The audit an auditor reads starts at the second row.
RowsSeen == \A r \in Runs : Len(log[r]) \in Nat /\ TerminalEvents(r) = 2..Len(log[r])

LEMMA RowsAreSeen == IInv => RowsSeen
BY TerminalRows DEF RowsSeen

LEMMA RowsStaySeen == IInv' => RowsSeen'
BY RowsAreSeen, PTL

\* Steps of run r, by what they change of what is seen.
LEMMA SeenSame ==
    ASSUME NEW r \in Runs, Apart(r), StatusSeen(r)' = StatusSeen(r),
           store'[r].parts = store[r].parts, AuditSeen(r)' = AuditSeen(r)
    PROVE  UNCHANGED Lifecycle!vars
<1>1. ASSUME NEW q \in Runs
      PROVE  /\ StatusSeen(q)' = StatusSeen(q) /\ store'[q].parts = store[q].parts
             /\ AuditSeen(q)' = AuditSeen(q)
  <2>1. CASE q = r
    BY <2>1
  <2>2. CASE q # r
    BY <2>2 DEF Apart, StatusSeen, AuditSeen, TerminalEvents
  <2> QED BY <2>1, <2>2
<1> QED BY <1>1 DEF Lifecycle!vars, StatusSeen, AuditSeen

LEMMA SeenMove ==
    ASSUME NEW r \in Runs, Apart(r), NEW s, NEW p, StatusSeen(r)' = s,
           store'[r].parts = p, AuditSeen(r)' = AuditSeen(r)
    PROVE  Lifecycle!Move(r, s, p)
<1>1. ASSUME NEW q \in Runs \ {r}
      PROVE  /\ StatusSeen(q)' = StatusSeen(q) /\ store'[q].parts = store[q].parts
             /\ AuditSeen(q)' = AuditSeen(q)
  BY DEF Apart, StatusSeen, AuditSeen, TerminalEvents
<1> QED BY <1>1, ZenonT(60) DEF Lifecycle!Move, StatusSeen, AuditSeen

LEMMA SeenAudit ==
    ASSUME NEW r \in Runs, Apart(r), StatusSeen(r)' = StatusSeen(r),
           store'[r].parts = store[r].parts,
           StatusSeen(r) \in {"completed", "failed"},
           "lost_ack" \notin Faults => AuditSeen(r) = {},
           AuditSeen(r)' = AuditSeen(r) \cup {StatusSeen(r)}
    PROVE  Lifecycle!Audit(r)
<1>1. ASSUME NEW q \in Runs \ {r}
      PROVE  /\ StatusSeen(q)' = StatusSeen(q) /\ store'[q].parts = store[q].parts
             /\ AuditSeen(q)' = AuditSeen(q)
  BY DEF Apart, StatusSeen, AuditSeen, TerminalEvents
<1>2. [q \in Runs |-> AuditSeen(q)'] =
          [[q \in Runs |-> AuditSeen(q)] EXCEPT ![r] = @ \cup {StatusSeen(r)}]
  BY <1>1
<1>3. /\ [q \in Runs |-> StatusSeen(q)'] = [q \in Runs |-> StatusSeen(q)]
      /\ [q \in Runs |-> store'[q].parts] = [q \in Runs |-> store[q].parts]
  BY <1>1
<1> QED BY <1>2, <1>3, Zenon DEF Lifecycle!Audit, Lifecycle!Outcomes, StatusSeen, AuditSeen

\* Before a second row there is no outcome to see.
LEMMA NothingSeen ==
    ASSUME RowsSeen, NEW r \in Runs, Len(log[r]) <= 1 PROVE AuditSeen(r) = {}
<1> DEFINE n == Len(log[r])
<1>1. n \in Nat /\ TerminalEvents(r) = 2..n
  BY DEF RowsSeen
<1> HIDE DEF n
<1>2. TerminalEvents(r) = {}
  BY <1>1 DEF n
<1> QED BY <1>2 DEF AuditSeen

LEMMA StartedOnly ==
    ASSUME IInv, NEW r \in Runs, Len(log[r]) = 1 PROVE AuditSeen(r) = {}
<1>1. Len(log[r]) <= 1
  OBVIOUS
<1> QED BY <1>1, RowsAreSeen, NothingSeen

\* The commit of the outcome's row adds the status that the record shows.
LEMMA OutcomeSeen ==
    ASSUME IInv, OInv, IInv', NEW r \in Runs,
           NEW stage \in {"completed", "not_found", "failed"}, At(r, "commit", stage), Commit(r)
    PROVE  /\ AuditSeen(r)' = AuditSeen(r) \cup {store[r].status}
           /\ "lost_ack" \notin Faults => AuditSeen(r) = {}
           /\ store[r].status \in {"completed", "failed"}
<1> DEFINE n == Len(log[r])
<1>1. /\ n \in Nat /\ n >= 1 /\ Len(log'[r]) = n + 1
      /\ \A i \in 1..n : log'[r][i] = log[r][i]
      /\ OutcomeOf(log'[r][n + 1]) = store[r].status
      /\ n <= 1 + Lost
  BY OutcomeCommitted
<1>2. TerminalEvents(r) = 2..n /\ TerminalEvents(r)' = 2..(n + 1)
  BY <1>1, RowsAreSeen, RowsStaySeen DEF RowsSeen
<1>3. "lost_ack" \notin Faults => AuditSeen(r) = {}
  BY <1>1, RowsAreSeen, NothingSeen DEF Lost
<1> HIDE DEF n
<1>4. 2..(n + 1) = (2..n) \cup {n + 1} /\ \A i \in 2..n : log'[r][i] = log[r][i]
  BY <1>1
<1>5. AuditSeen(r)' = AuditSeen(r) \cup {store[r].status}
  <2>1. AuditSeen(r)' = {OutcomeOf(log'[r][i]) : i \in 2..(n + 1)}
    BY <1>2 DEF AuditSeen
  <2>2. @ = {OutcomeOf(log'[r][i]) : i \in 2..n} \cup {OutcomeOf(log'[r][n + 1])}
    BY <1>4
  <2>3. @ = {OutcomeOf(log[r][i]) : i \in 2..n} \cup {store[r].status}
    BY <1>1, <1>4
  <2> QED BY <1>2, <2>1, <2>2, <2>3 DEF AuditSeen
<1>6. store[r].status \in {"completed", "failed"}
  BY <1>1 DEF OutcomeOf
<1> QED BY <1>3, <1>5, <1>6

\* What a step of run r does to what is seen of it.
LifecycleStep(r) ==
    \/ Lifecycle!Register(r) \/ Lifecycle!Start(r) \/ Lifecycle!Reveal(r)
    \/ Lifecycle!Complete(r) \/ Lifecycle!Fail(r) \/ Lifecycle!Retract(r)
    \/ Lifecycle!Audit(r) \/ UNCHANGED Lifecycle!vars

\* The steps that touch neither a record nor the log.
LEMMA QuietImplements ==
    ASSUME IInv, OInv, NEW r \in Runs, Settles(r), UNCHANGED <<store, log>>,
           task[r].at # "crashed", task'[r].at # "crashed"
    PROVE  LifecycleStep(r)
<1>1. StatusSeen(r)' = StatusSeen(r) /\ store'[r].parts = store[r].parts
  BY DEF StatusSeen
<1>2. AuditSeen(r)' = AuditSeen(r)
  BY DEF AuditSeen, TerminalEvents
<1> QED BY <1>1, <1>2, SeenSame DEF Settles, LifecycleStep

\* One more report shows.
LEMMA SeenReveal ==
    ASSUME NEW r \in Runs, Apart(r), task[r].at # "crashed", task'[r].at # "crashed",
           store[r].status = "running", store'[r].status = "running",
           NEW report \in Parts \ store[r].parts,
           store'[r].parts = store[r].parts \cup {report}, AuditSeen(r)' = AuditSeen(r)
    PROVE  Lifecycle!Reveal(r)
<1>1. ASSUME NEW q \in Runs \ {r}
      PROVE  /\ StatusSeen(q)' = StatusSeen(q) /\ store'[q].parts = store[q].parts
             /\ AuditSeen(q)' = AuditSeen(q)
  BY DEF Apart, StatusSeen, AuditSeen, TerminalEvents
<1> DEFINE p == [q \in Runs |-> store[q].parts][r]
<1>2. /\ [q \in Runs |-> StatusSeen(q)][r] = "running"
      /\ report \in Lifecycle!Reports \ p
  BY DEF StatusSeen, Lifecycle!Reports, Parts
<1>3. /\ [q \in Runs |-> StatusSeen(q)'] = [[q \in Runs |-> StatusSeen(q)] EXCEPT ![r] = "running"]
      /\ [q \in Runs |-> store'[q].parts] = [[q \in Runs |-> store[q].parts] EXCEPT ![r] = p \cup {report}]
      /\ [q \in Runs |-> AuditSeen(q)'] = [q \in Runs |-> AuditSeen(q)]
  BY <1>1 DEF StatusSeen
<1> QED BY <1>2, <1>3, Zenon DEF Lifecycle!Reveal, Lifecycle!Move, StatusSeen, AuditSeen

\* The steps that write a record and no row.
LEMMA RecordImplements ==
    ASSUME IInv, OInv, NEW r \in Runs, Settles(r), UNCHANGED log,
           \/ StartStrategyRun(r) \/ MarkRunning(r) \/ Simulate(r) \/ Reconcile(r)
           \/ MarkCompleted(r) \/ MarkNotFound(r)
    PROVE  LifecycleStep(r)
<1>1. Settled(r) /\ AuditSeen(r)' = AuditSeen(r)
  BY DEF OInv, AuditSeen, TerminalEvents
<1>2. CASE StartStrategyRun(r)
  <2>1. task[r].at = "idle" /\ store[r] = NoRecord
    BY <1>1, <1>2 DEF StartStrategyRun, Settled, RecordAt
  <2>2. task'[r].at = "scheduled"
    BY <1>2, GotoEffect DEF StartStrategyRun, Points, Stages, IInv
  <2>3. Shows(r, "pending", {})'
    BY <1>2, RecordShows DEF StartStrategyRun, Statuses, IInv
  <2>4. Lifecycle!Move(r, "pending", {})
    BY <1>1, <2>2, <2>3, SeenMove DEF Settles, StatusSeen, Shows
  <2> QED BY <2>1, <2>4 DEF Lifecycle!Register, LifecycleStep, NoRecord
<1>3. CASE MarkRunning(r)
  <2>1. At(r, "publish", "started") /\ (Shows(r, "none", {}) \/ Shows(r, "pending", {}))
    BY <1>1, <1>3 DEF MarkRunning, Published, Settled, RecordAt
  <2>2. task'[r].at = "append"
    BY <1>3, GotoEffect DEF MarkRunning, Points, Stages, IInv
  <2>3. Shows(r, "running", {})'
    BY <1>3, RecordShows DEF MarkRunning, Statuses, IInv
  <2>4. Lifecycle!Move(r, "running", {})
    BY <1>1, <2>2, <2>3, SeenMove DEF Settles, StatusSeen, Shows
  <2> QED BY <2>1, <2>4 DEF Lifecycle!Start, LifecycleStep, Shows, At
<1>4. CASE Simulate(r)
  <2>1. At(r, "publish", "analysis") /\ Shows(r, "running", {})
    BY <1>1, <1>4 DEF Simulate, Published, Settled, RecordAt, At
  <2>2. task'[r].at = "publish"
    BY <1>4, EmitEffect DEF Simulate, Raise, Stages, IInv
  <2>3. Shows(r, "running", {"analysis"})'
    BY <1>4, RecordShows DEF Simulate, Statuses, IInv
  <2>4. "analysis" \in Parts \ store[r].parts
    BY <2>1 DEF Shows, Parts
  <2>5. store'[r].parts = store[r].parts \cup {"analysis"}
    BY <2>1, <2>3 DEF Shows
  <2>6. Lifecycle!Reveal(r)
    BY <1>1, <2>1, <2>2, <2>3, <2>4, <2>5, SeenReveal DEF Settles, Shows, At
  <2> QED BY <2>6 DEF LifecycleStep
<1>5. CASE Reconcile(r)
  <2>1. At(r, "publish", "simulation") /\ Shows(r, "running", {"analysis"})
    BY <1>1, <1>5 DEF Reconcile, Published, Settled, RecordAt, At
  <2>2. task'[r].at = "publish"
    BY <1>5, EmitEffect DEF Reconcile, Raise, Stages, IInv
  <2>3. Shows(r, "running", {"analysis", "simulation"})'
    BY <1>5, RecordShows DEF Reconcile, Statuses, IInv
  <2>4. "simulation" \in Parts \ store[r].parts
    BY <2>1 DEF Shows, Parts
  <2>5. store'[r].parts = store[r].parts \cup {"simulation"}
    BY <2>1, <2>3 DEF Shows
  <2>6. Lifecycle!Reveal(r)
    BY <1>1, <2>1, <2>2, <2>3, <2>4, <2>5, SeenReveal DEF Settles, Shows, At
  <2> QED BY <2>6 DEF LifecycleStep
<1>6. CASE MarkCompleted(r)
  <2>1. /\ At(r, "publish", "completed") /\ Early(r)
        /\ Shows(r, "running", {"analysis", "simulation"})
    BY <1>1, <1>6 DEF MarkCompleted, Published, Settled, RecordAt, At, Early
  <2>2. task'[r].at = "append"
    BY <1>6, GotoEffect DEF MarkCompleted, Points, Stages, IInv
  <2>3. Shows(r, "completed", Parts)'
    BY <1>6, RecordShows DEF MarkCompleted, Statuses, IInv
  <2>4. Lifecycle!Move(r, "completed", Parts)
    BY <1>1, <2>2, <2>3, SeenMove DEF Settles, StatusSeen, Shows
  <2>5. AuditSeen(r) = {}
    BY <1>1, <2>1, StartedOnly DEF Settled, RowsAt
  <2> QED BY <2>1, <2>4, <2>5 DEF Lifecycle!Complete, Lifecycle!Reports, LifecycleStep,
             Shows, At, Parts, AuditSeen
<1>7. CASE MarkNotFound(r)
  <2>1. At(r, "publish", "not_found") /\ Early(r) /\ Shows(r, "running", {})
    BY <1>1, <1>7 DEF MarkNotFound, Published, Settled, RecordAt, At, Early
  <2>2. task'[r].at = "append"
    BY <1>7, GotoEffect DEF MarkNotFound, Points, Stages, IInv
  <2>3. Shows(r, "failed", {})'
    BY <1>7, RecordShows DEF MarkNotFound, Statuses, IInv
  <2>4. Lifecycle!Move(r, "failed", {})
    BY <1>1, <2>2, <2>3, SeenMove DEF Settles, StatusSeen, Shows
  <2>5. AuditSeen(r) = {}
    BY <1>1, <2>1, StartedOnly DEF Settled, RowsAt
  <2> QED BY <2>1, <2>4, <2>5 DEF Lifecycle!Fail, LifecycleStep, Shows, At, AuditSeen
<1> QED BY <1>2, <1>3, <1>4, <1>5, <1>6, <1>7

\* The handler withdraws a running or a completed record, or writes a failed
\* one again.
LEMMA MarkFailedImplements ==
    ASSUME IInv, OInv, NEW r \in Runs, Settles(r), MarkFailed(r)
    PROVE  LifecycleStep(r)
<1>1. /\ At(r, "publish", "failed") /\ Settled(r) /\ Handling(r)
      /\ AuditSeen(r)' = AuditSeen(r)
  BY DEF MarkFailed, Published, OInv, At, Handling, AuditSeen, TerminalEvents
<1>2. task'[r].at = "rollback"
  BY GotoEffect DEF MarkFailed, Points, Stages, IInv
<1>3. Shows(r, "failed", {})'
  BY RecordShows DEF MarkFailed, Statuses, IInv
<1>4. Lifecycle!Move(r, "failed", {})
  BY <1>1, <1>2, <1>3, SeenMove DEF Settles, StatusSeen, Shows
<1>5. CASE store[r].status = "running" /\ Len(log[r]) = 1
  <2>1. AuditSeen(r) = {}
    BY <1>5, StartedOnly
  <2> QED BY <1>1, <1>4, <1>5, <2>1 DEF Lifecycle!Fail, LifecycleStep, At, AuditSeen
<1>6. CASE Shows(r, "completed", Parts)
  <2>1. "lost_ack" \notin Faults => AuditSeen(r) = {}
    BY <1>1, RowsAreSeen, NothingSeen DEF Settled, RowsAt, Lost
  <2> QED BY <1>1, <1>4, <1>6, <2>1 DEF Lifecycle!Retract, LifecycleStep, At, Shows, AuditSeen
<1>7. CASE Shows(r, "failed", {})
  <2>1. StatusSeen(r)' = StatusSeen(r) /\ store'[r].parts = store[r].parts
    BY <1>1, <1>2, <1>3, <1>7 DEF StatusSeen, Shows, At
  <2> QED BY <1>1, <2>1, SeenSame DEF Settles, LifecycleStep
<1> QED BY <1>1, <1>5, <1>6, <1>7 DEF Settled, RecordAt, At

\* The commits: of run_started, which no one sees, and of the outcome.
LEMMA CommitImplements ==
    ASSUME IInv, OInv, IInv', OInv', NEW r \in Runs, Settles(r), Commit(r),
           NEW stage \in {"started", "completed", "not_found", "failed"}, At(r, "commit", stage),
           UNCHANGED store, task'[r].at # "crashed", stage = "started" => task'[r].stage = "started"
    PROVE  LifecycleStep(r)
<1>1. StatusSeen(r)' = StatusSeen(r) /\ store'[r].parts = store[r].parts
      /\ StatusSeen(r) = store[r].status
  BY DEF StatusSeen, At
<1>2. CASE stage = "started"
  <2>1. Len(log[r]) <= 1 /\ Len(log'[r]) <= 1
    BY <1>2 DEF OInv, Settled, RowsAt, At
  <2>2. AuditSeen(r) = {}
    BY <2>1, RowsAreSeen, NothingSeen
  <2>3. AuditSeen(r)' = {}
    <3> DEFINE m == Len(log'[r])
    <3>1. m \in Nat /\ TerminalEvents(r)' = 2..m /\ m <= 1
      BY <2>1, RowsStaySeen DEF RowsSeen
    <3> HIDE DEF m
    <3>2. TerminalEvents(r)' = {}
      BY <3>1
    <3> QED BY <3>2 DEF AuditSeen
  <2> QED BY <1>1, <2>2, <2>3, SeenSame DEF Settles, LifecycleStep
<1>3. CASE stage # "started"
  <2>1. /\ AuditSeen(r)' = AuditSeen(r) \cup {store[r].status}
        /\ "lost_ack" \notin Faults => AuditSeen(r) = {}
        /\ store[r].status \in {"completed", "failed"}
    BY <1>3, OutcomeSeen
  <2> QED BY <1>1, <2>1, SeenAudit DEF Settles, LifecycleStep
<1> QED BY <1>2, <1>3

\* The process dies: the runs that had begun are lost.
LEMMA CrashImplements ==
    ASSUME IInv, OInv, Crash PROVE Lifecycle!Vanish
<1> DEFINE gone == {r \in Runs : task[r].at # "idle"}
<1>1. ASSUME NEW r \in Runs
      PROVE  /\ store'[r].parts = {} /\ AuditSeen(r)' = AuditSeen(r)
             /\ StatusSeen(r)' = IF r \in gone THEN "lost" ELSE StatusSeen(r)
             /\ r \notin gone => StatusSeen(r) = "none"
  <2>1. /\ store'[r] = NoRecord /\ log'[r] = log[r]
        /\ task'[r].at = IF r \in gone THEN "crashed" ELSE "idle"
    BY DEF Crash
  <2>2. r \notin gone => task[r].at = "idle" /\ store[r] = NoRecord
    BY DEF OInv, Settled, RecordAt
  <2>3. AuditSeen(r)' = AuditSeen(r)
    BY <2>1 DEF AuditSeen, TerminalEvents
  <2> QED BY <2>1, <2>2, <2>3 DEF StatusSeen, NoRecord
<1> HIDE DEF gone
<1>2. gone \in SUBSET Runs
  BY DEF gone
<1>3. \A r \in Runs \ gone : StatusSeen(r) \in {"none", "lost"}
  BY <1>1
<1>4. /\ [r \in Runs |-> StatusSeen(r)'] = [r \in Runs |-> IF r \in gone THEN "lost" ELSE StatusSeen(r)]
      /\ [r \in Runs |-> store'[r].parts] = [r \in Runs |-> {}]
      /\ [r \in Runs |-> AuditSeen(r)'] = [r \in Runs |-> AuditSeen(r)]
  BY <1>1
<1> QED BY <1>2, <1>3, <1>4 DEF Lifecycle!Vanish, StatusSeen, AuditSeen

LEMMA ExecuteImplements ==
    ASSUME IInv, OInv, IInv', OInv', NEW r \in Runs, Settles(r),
           StartStrategyRun(r) \/ CallDirectly(r) \/ Execute(r)
    PROVE  LifecycleStep(r)
<1>1. CASE StartStrategyRun(r)
  BY <1>1, RecordImplements DEF StartStrategyRun
<1>2. CASE MarkRunning(r) \/ Simulate(r) \/ Reconcile(r) \/ MarkCompleted(r) \/ MarkNotFound(r)
  <2>1. UNCHANGED log
    BY <1>2 DEF MarkRunning, Simulate, Reconcile, MarkCompleted, MarkNotFound
  <2> QED BY <1>2, <2>1, RecordImplements
<1>3. CASE MarkFailed(r)
  BY <1>3, MarkFailedImplements
<1>4. CASE CallDirectly(r) \/ Begin(r) \/ AppendStarted(r) \/ Analyse(r) \/ EmitCompleted(r)
  <2>1. UNCHANGED <<store, log>> /\ task[r].at # "crashed"
    BY <1>4 DEF CallDirectly, Begin, AppendStarted, Analyse, EmitCompleted, Published, At
  <2>2. task'[r].at \in {"scheduled", "publish", "commit", "dead"}
    BY <1>4, GotoEffect, EmitEffect DEF CallDirectly, Begin, AppendStarted, Analyse,
       EmitCompleted, Raise, Points, Stages, IInv
  <2> QED BY <2>1, <2>2, QuietImplements
<1>5. CASE Rollback(r) \/ AppendFailed(r)
  <2>1. UNCHANGED <<store, log>> /\ task[r].at # "crashed"
    BY <1>5 DEF Rollback, AppendFailed, At
  <2>2. task'[r].at \in {"append", "commit", "done"}
    BY <1>5, GotoEffect DEF Rollback, AppendFailed, Points, Stages, IInv
  <2> QED BY <2>1, <2>2, QuietImplements
<1>6. ASSUME NEW stage \in {"completed", "not_found"}, AppendTerminal(r, stage)
      PROVE  LifecycleStep(r)
  <2>1. UNCHANGED <<store, log>> /\ task[r].at # "crashed"
    BY <1>6 DEF AppendTerminal, At
  <2>2. task'[r].at \in {"commit", "publish"}
    BY <1>6, GotoEffect, EmitEffect DEF AppendTerminal, Raise, Points, Stages, IInv
  <2> QED BY <2>1, <2>2, QuietImplements
<1>7. ASSUME NEW stage \in {"completed", "not_found"}, CommitTerminal(r, stage)
      PROVE  LifecycleStep(r)
  <2>1. UNCHANGED store /\ At(r, "commit", stage) /\ task[r].at # "crashed"
    BY <1>7 DEF CommitTerminal, At
  <2>2. task'[r].at \in {"done", "publish"}
    BY <1>7, GotoEffect, EmitEffect DEF CommitTerminal, Raise, Points, Stages, IInv
  <2>3. CASE Commit(r)
    BY <2>1, <2>2, <2>3, CommitImplements
  <2>4. CASE UNCHANGED log
    BY <2>1, <2>2, <2>4, QuietImplements
  <2> QED BY <1>7, <2>3, <2>4 DEF CommitTerminal
<1>8. CASE CommitStarted(r) \/ CommitFailed(r)
  <2>1. PICK stage \in {"started", "failed"} :
            /\ At(r, "commit", stage) /\ UNCHANGED store
            /\ \E point \in {"analyse", "dead", "done"} : Goto(r, point, stage)
    BY <1>8 DEF CommitStarted, CommitFailed
  <2>2. task'[r].at \in {"analyse", "dead", "done"} /\ task'[r].stage = stage
    BY <2>1, GotoEffect DEF Points, Stages, IInv
  <2>3. CASE Commit(r)
    BY <2>1, <2>2, <2>3, CommitImplements
  <2>4. CASE UNCHANGED log
    BY <2>1, <2>2, <2>4, QuietImplements DEF At
  <2> QED BY <1>8, <2>3, <2>4 DEF CommitStarted, CommitFailed
<1> QED BY <1>1, <1>2, <1>3, <1>4, <1>5, <1>6, <1>7, <1>8 DEF Execute

\* Every execution of any set of runs, with any failures, is a life that
\* RunLifecycle allows: a client and an auditor together never see a report
\* taken away from a running run, an outcome withdrawn once it is audited, or
\* one audited that the record does not show.
THEOREM ImplementsLifecycleHolds == Spec => ImplementsLifecycle
<1>1. Init => Lifecycle!Init
  <2> SUFFICES ASSUME Init PROVE Lifecycle!Init
    OBVIOUS
  <2>1. ASSUME NEW r \in Runs
        PROVE  StatusSeen(r) = "none" /\ store[r].parts = {} /\ AuditSeen(r) = {}
    <3>1. log[r] = <<>> /\ store[r] = NoRecord /\ task[r].at = "idle"
      BY DEF Init
    <3>2. TerminalEvents(r) = {}
      BY <3>1 DEF TerminalEvents
    <3> QED BY <3>1, <3>2 DEF StatusSeen, AuditSeen, NoRecord
  <2> QED BY <2>1 DEF Lifecycle!Init, StatusSeen, AuditSeen
<1>2. IInv /\ IInv' /\ OInv /\ OInv' /\ [Next]_vars => [Lifecycle!Next]_Lifecycle!vars
  <2> SUFFICES ASSUME IInv, IInv', OInv, OInv', [Next]_vars
               PROVE  [Lifecycle!Next]_Lifecycle!vars
    OBVIOUS
  <2>1. ASSUME NEW r \in Runs, StartStrategyRun(r) \/ CallDirectly(r) \/ Execute(r)
        PROVE  [Lifecycle!Next]_Lifecycle!vars
    <3>1. Settles(r)
      BY <2>1, OpeningSettles, ExecuteSettles
    <3>2. LifecycleStep(r)
      BY <2>1, <3>1, ExecuteImplements
    <3> QED BY <3>2 DEF LifecycleStep, Lifecycle!Next
  <2>2. CASE Crash
    BY <2>2, CrashImplements DEF Lifecycle!Next
  <2>3. CASE UNCHANGED vars
    BY <2>3 DEF vars, Lifecycle!vars, TerminalEvents
  <2> QED BY <2>1, <2>2, <2>3 DEF Next
<1> QED BY <1>1, <1>2, Invariance, OutcomeInvariance, PTL
        DEF Spec, ImplementsLifecycle, Lifecycle!Spec

--------------------------------------------------------------------------------
(****************************************************************************)
(* The trace a client can recover.  What the channel delivered is, in that  *)
(* order, part of the first n steps of the execution's list:                *)
(****************************************************************************)
Embeds(s, t, n) ==
    \E places \in SUBSET (1..n) :
        /\ Cardinality(places) = Len(s)
        /\ \A p \in places : s[Cardinality({q \in places : q <= p})] = t[p]

\* of all of them, but for the step whose delivery is under way.
Delivered(r) ==
    /\ task[r].at \in {"idle", "scheduled"} => channel[r] = <<>> /\ TraceOf(r) = <<>>
    /\ task[r].at = "publish" =>
          /\ Len(steps[r]) >= 1 /\ steps[r][Len(steps[r])] = StepOf[task[r].stage]
          /\ Embeds(channel[r], steps[r], Len(steps[r]) - 1)
    /\ task[r].at \in {"append", "commit", "analyse", "rollback", "done", "dead"} =>
          Embeds(channel[r], steps[r], Len(steps[r]))

\* An outcome's record shares the list.
Shared(r) ==
    /\ task[r].at \in {"append", "commit"} /\ task[r].stage # "started" => store[r].live
    /\ task[r].at \in {"rollback", "done"} => store[r].live

DInv == \A r \in Runs : Delivered(r) /\ Shared(r)

LEMMA SpanIsFinite == ASSUME NEW n \in Nat PROVE IsFiniteSet(1..n)
<1>1. 1 \in Int /\ n \in Int
  OBVIOUS
<1> QED BY <1>1, FS_Interval, Zenon

LEMMA EmbedNothing ==
    ASSUME NEW t PROVE Embeds(<<>>, t, 0)
<1>1. Cardinality({}) = 0 /\ Len(<<>>) = 0
  BY FS_EmptySet
<1> QED BY <1>1 DEF Embeds

LEMMA EmbedSkip ==
    ASSUME NEW s, NEW t, NEW n \in Nat, Embeds(s, t, n) PROVE Embeds(s, t, n + 1)
<1>1. SUBSET (1..n) \subseteq SUBSET (1..(n + 1))
  OBVIOUS
<1> QED BY <1>1 DEF Embeds

\* Another delivery takes the next place.
LEMMA EmbedTake ==
    ASSUME NEW E, NEW s \in Seq(E), NEW t, NEW n \in Nat, Embeds(s, t, n), NEW e \in E,
           t[n + 1] = e
    PROVE  Embeds(Append(s, e), t, n + 1)
<1> PICK places \in SUBSET (1..n) :
        /\ Cardinality(places) = Len(s)
        /\ \A p \in places : s[Cardinality({q \in places : q <= p})] = t[p]
  BY DEF Embeds
<1> DEFINE more == places \cup {n + 1}
           upto(p) == {q \in places : q <= p}
<1>1. IsFiniteSet(places) /\ n + 1 \notin places /\ more \in SUBSET (1..(n + 1))
  <2>1. IsFiniteSet(1..n)
    BY SpanIsFinite
  <2>2. IsFiniteSet(places)
    BY <2>1, FS_Subset
  <2> QED BY <2>2
<1>2. Cardinality(more) = Len(s) + 1
  BY <1>1, FS_AddElement
<1>3. Len(s) \in Nat /\ Len(Append(s, e)) = Len(s) + 1 /\ Append(s, e)[Len(s) + 1] = e
  BY LenProperties, AppendProperties
<1>4. ASSUME NEW p \in places
      PROVE  Append(s, e)[Cardinality({q \in more : q <= p})] = t[p]
  <2>1. {q \in more : q <= p} = upto(p) /\ p \in upto(p) /\ upto(p) \in SUBSET places
    BY <1>4
  <2> HIDE DEF upto
  <2>2. IsFiniteSet(upto(p)) /\ Cardinality(upto(p)) <= Len(s)
    BY <1>1, <2>1, FS_Subset
  <2>3. Cardinality(upto(p)) \in Nat /\ Cardinality(upto(p)) # 0
    BY <2>1, <2>2, FS_CardinalityType, FS_EmptySet
  <2>4. Cardinality(upto(p)) \in 1..Len(s)
    BY <1>3, <2>2, <2>3
  <2>5. Append(s, e)[Cardinality(upto(p))] = s[Cardinality(upto(p))]
    BY <2>4, AppendProperties
  <2> QED BY <2>1, <2>5 DEF upto
<1>5. Append(s, e)[Cardinality({q \in more : q <= n + 1})] = t[n + 1]
  <2>1. \A q \in more : q <= n + 1
    BY <1>1
  <2>2. {q \in more : q <= n + 1} = more
    BY <2>1
  <2> QED BY <1>2, <1>3, <2>2
<1>6. \A p \in more : Append(s, e)[Cardinality({q \in more : q <= p})] = t[p]
  BY <1>4, <1>5
<1> HIDE DEF more
<1> QED BY <1>1, <1>2, <1>3, <1>6 DEF Embeds

\* The list grows at its end.
LEMMA EmbedAppend ==
    ASSUME NEW E, NEW s, NEW t \in Seq(E), NEW e \in E, Embeds(s, t, Len(t))
    PROVE  Embeds(s, Append(t, e), Len(t))
<1>1. \A p \in 1..Len(t) : Append(t, e)[p] = t[p]
  BY AppendProperties
<1> QED BY <1>1 DEF Embeds

LEMMA EmbedIsSubsequence ==
    ASSUME NEW E, NEW s, NEW t \in Seq(E), Embeds(s, t, Len(t)) PROVE IsSubsequence(s, t)
<1>1. DOMAIN t = 1..Len(t)
  BY LenProperties
<1> QED BY <1>1 DEF Embeds, IsSubsequence, kSubset

(****************************************************************************)
(* What the actions do to the list, the channel and the record's list.      *)
(****************************************************************************)
\* What a step of run r leaves alone of the others.
OthersTrace(r) ==
    \A q \in Runs \ {r} :
        /\ task'[q] = task[q] /\ steps'[q] = steps[q]
        /\ channel'[q] = channel[q] /\ store'[q] = store[q]

Traces(r) == Delivered(r)' /\ Shared(r)' /\ OthersTrace(r)

LEMMA TraceFrame ==
    ASSUME NEW q \in Runs, Delivered(q), Shared(q), task'[q] = task[q], steps'[q] = steps[q],
           channel'[q] = channel[q], store'[q] = store[q]
    PROVE  Delivered(q)' /\ Shared(q)'
BY DEF Delivered, Shared, TraceOf

\* A publish that ends, delivered or not.
LEMMA PublishedEmbeds ==
    ASSUME TypeOK, NEW r \in Runs, Delivered(r), NEW stage \in Stages, Published(r, stage)
    PROVE  /\ Embeds(channel'[r], steps[r], Len(steps[r]))
           /\ \A q \in Runs \ {r} : channel'[q] = channel[q]
<1> DEFINE n == Len(steps[r]) - 1
<1>1. steps[r] \in Seq(StepTypes) /\ channel[r] \in Seq(StepTypes) /\ StepOf[stage] \in StepTypes
  BY DEF TypeOK, StepOf, StepTypes, Stages
<1>2. Len(steps[r]) \in Nat
  BY <1>1, LenProperties
<1>3. /\ Len(steps[r]) >= 1 /\ steps[r][Len(steps[r])] = StepOf[stage]
      /\ Embeds(channel[r], steps[r], n)
  BY DEF Published, At, Delivered
<1>4. n \in Nat /\ n + 1 = Len(steps[r])
  BY <1>2, <1>3
<1> HIDE DEF n
<1>5. Embeds(channel[r], steps[r], n + 1)
  BY <1>3, <1>4, EmbedSkip
<1>6. Embeds(Append(channel[r], StepOf[stage]), steps[r], n + 1)
  BY <1>1, <1>3, <1>4, EmbedTake
<1> QED BY <1>4, <1>5, <1>6 DEF Published, TypeOK

\* The next step is emitted.
LEMMA EmitDelivered ==
    ASSUME TypeOK, NEW r \in Runs, NEW stage \in Stages, EmitStep(r, stage),
           Embeds(channel'[r], steps[r], Len(steps[r]))
    PROVE  /\ Delivered(r)' /\ Shared(r)'
           /\ \A q \in Runs \ {r} : task'[q] = task[q] /\ steps'[q] = steps[q]
<1>1. steps[r] \in Seq(StepTypes) /\ StepOf[stage] \in StepTypes
  BY DEF TypeOK, StepOf, StepTypes, Stages
<1>2. /\ steps'[r] = Append(steps[r], StepOf[stage])
      /\ \A q \in Runs \ {r} : steps'[q] = steps[q]
  BY DEF EmitStep, TypeOK
<1>3. task'[r] = [at |-> "publish", stage |-> stage] /\ \A q \in Runs \ {r} : task'[q] = task[q]
  BY EmitEffect
<1>4. /\ Len(steps[r]) \in Nat /\ Len(steps'[r]) = Len(steps[r]) + 1
      /\ steps'[r][Len(steps[r]) + 1] = StepOf[stage]
  BY <1>1, <1>2, LenProperties, AppendProperties
<1>5. Embeds(channel'[r], steps'[r], Len(steps[r]))
  BY <1>1, <1>2, EmbedAppend
<1>6. Len(steps'[r]) >= 1 /\ Len(steps'[r]) - 1 = Len(steps[r])
  BY <1>4
<1> QED BY <1>2, <1>3, <1>4, <1>5, <1>6 DEF Delivered, Shared

\* The record is written and refers to the list.
LEMMA MarkTraces ==
    ASSUME IInv, DInv, NEW r \in Runs,
           MarkRunning(r) \/ MarkCompleted(r) \/ MarkNotFound(r) \/ MarkFailed(r)
    PROVE  Traces(r)
<1>1. PICK stage \in Stages, state \in Statuses, ready \in SUBSET Parts,
           point \in {"append", "rollback"} :
           /\ Published(r, stage) /\ SetRecord(r, state, ready, TRUE, <<>>)
           /\ Goto(r, point, stage) /\ UNCHANGED steps
  BY DEF MarkRunning, MarkCompleted, MarkNotFound, MarkFailed, Stages, Statuses
<1>2. /\ Embeds(channel'[r], steps[r], Len(steps[r]))
      /\ \A q \in Runs \ {r} : channel'[q] = channel[q]
  BY <1>1, PublishedEmbeds DEF IInv, DInv
<1>3. /\ task'[r] = [at |-> point, stage |-> stage]
      /\ \A q \in Runs \ {r} : task'[q] = task[q]
  BY <1>1, GotoEffect DEF IInv, Points
<1>4. store'[r].live = TRUE /\ \A q \in Runs \ {r} : store'[q] = store[q]
  BY <1>1 DEF SetRecord, IInv, TypeOK
<1> QED BY <1>1, <1>2, <1>3, <1>4 DEF Traces, Delivered, Shared, OthersTrace

\* A stage that ends and the next step.
LEMMA StageTraces ==
    ASSUME IInv, DInv, NEW r \in Runs,
           Analyse(r) \/ Simulate(r) \/ Reconcile(r) \/ EmitCompleted(r)
    PROVE  Traces(r)
<1>1. PICK stage \in Stages : EmitStep(r, stage)
  BY DEF Analyse, Simulate, Reconcile, EmitCompleted, Raise, Stages
<1>2. /\ Embeds(channel'[r], steps[r], Len(steps[r]))
      /\ \A q \in Runs \ {r} : channel'[q] = channel[q] /\ store'[q] = store[q]
  <2>1. CASE Analyse(r)
    BY <2>1 DEF Analyse, At, DInv, Delivered
  <2>2. ASSUME NEW last \in {"analysis", "simulation", "unified"}, Published(r, last)
        PROVE  /\ Embeds(channel'[r], steps[r], Len(steps[r]))
               /\ \A q \in Runs \ {r} : channel'[q] = channel[q]
    BY <2>2, PublishedEmbeds DEF IInv, DInv, Stages
  <2>3. CASE Simulate(r) \/ Reconcile(r) \/ EmitCompleted(r)
    <3>1. \A q \in Runs \ {r} : store'[q] = store[q]
      BY <2>3 DEF Simulate, Reconcile, EmitCompleted, SetRecord, IInv, TypeOK
    <3> QED BY <2>2, <2>3, <3>1 DEF Simulate, Reconcile, EmitCompleted
  <2> QED BY <2>1, <2>3
<1> QED BY <1>1, <1>2, EmitDelivered DEF Traces, OthersTrace, IInv

\* Registering and the first step: the trace is empty.
LEMMA OpeningTraces ==
    ASSUME IInv, DInv, NEW r \in Runs, StartStrategyRun(r) \/ CallDirectly(r) \/ Begin(r)
    PROVE  Traces(r)
<1>1. task[r].at \in {"idle", "scheduled"} /\ channel[r] = <<>> /\ TraceOf(r) = <<>>
      /\ UNCHANGED channel
  BY DEF StartStrategyRun, CallDirectly, Begin, DInv, Delivered
<1>2. CASE StartStrategyRun(r)
  <2>1. task'[r].at = "scheduled" /\ \A q \in Runs \ {r} : task'[q] = task[q]
    BY <1>2, GotoEffect DEF StartStrategyRun, Points, Stages, IInv
  <2>2. store'[r].live = FALSE /\ store'[r].copy = <<>> /\ \A q \in Runs \ {r} : store'[q] = store[q]
    BY <1>2 DEF StartStrategyRun, SetRecord, IInv, TypeOK
  <2> QED BY <1>1, <1>2, <2>1, <2>2
          DEF Traces, Delivered, Shared, OthersTrace, TraceOf, StartStrategyRun
<1>3. CASE CallDirectly(r)
  <2>1. task'[r].at = "scheduled" /\ \A q \in Runs \ {r} : task'[q] = task[q]
    BY <1>3, GotoEffect DEF CallDirectly, Points, Stages, IInv
  <2> QED BY <1>1, <1>3, <2>1
          DEF Traces, Delivered, Shared, OthersTrace, TraceOf, CallDirectly
<1>4. CASE Begin(r)
  <2>1. /\ task'[r] = [at |-> "publish", stage |-> "started"]
        /\ \A q \in Runs \ {r} : task'[q] = task[q]
    BY <1>4, GotoEffect DEF Begin, Points, Stages, IInv
  <2>2. /\ steps'[r] = Append(<<>>, StepOf["started"]) /\ UNCHANGED <<store, channel>>
        /\ \A q \in Runs \ {r} : steps'[q] = steps[q]
    BY <1>1, <1>4 DEF Begin, IInv, TypeOK
  <2>3. Append(<<>>, StepOf["started"]) = <<StepOf["started"]>>
    OBVIOUS
  <2>4. Len(steps'[r]) = 1 /\ steps'[r][1] = StepOf["started"]
    BY <2>2, <2>3
  <2>5. Embeds(channel'[r], steps'[r], 0)
    BY <1>1, EmbedNothing
  <2>6. Delivered(r)' /\ Shared(r)'
    BY <2>1, <2>4, <2>5 DEF Delivered, Shared
  <2> QED BY <2>1, <2>2, <2>6 DEF Traces, OthersTrace
<1> QED BY <1>2, <1>3, <1>4

\* A move between awaits that neither emits nor publishes.
LEMMA MoveTraces ==
    ASSUME IInv, DInv, NEW r \in Runs, UNCHANGED <<store, steps, channel>>,
           task[r].at \in {"append", "commit", "rollback"},
           NEW point \in {"append", "commit", "analyse", "done", "dead"},
           NEW stage \in Stages, Goto(r, point, stage),
           \/ stage = "started" /\ point # "done"
           \/ task[r].at = "rollback" \/ task[r].stage # "started"
    PROVE  Traces(r)
<1>1. /\ task'[r] = [at |-> point, stage |-> stage]
      /\ \A q \in Runs \ {r} : task'[q] = task[q]
  BY GotoEffect DEF IInv, Points
<1>2. Delivered(r) /\ Shared(r)
  BY DEF DInv
<1>3. Delivered(r)'
  BY <1>1, <1>2 DEF Delivered
<1>4. Shared(r)'
  BY <1>1, <1>2 DEF Shared
<1> QED BY <1>1, <1>3, <1>4 DEF Traces, OthersTrace

\* A failure of the audit inside `try`.
LEMMA RaiseTraces ==
    ASSUME IInv, DInv, NEW r \in Runs, UNCHANGED <<store, channel>>,
           task[r].at \in {"append", "commit"}, Raise(r)
    PROVE  Traces(r)
<1>1. Embeds(channel'[r], steps[r], Len(steps[r]))
  BY DEF DInv, Delivered
<1> QED BY <1>1, EmitDelivered DEF Traces, OthersTrace, IInv, Raise, Stages

LEMMA ExecuteTraces ==
    ASSUME IInv, DInv, NEW r \in Runs, Execute(r) PROVE Traces(r)
<1>1. CASE Begin(r)
  BY <1>1, OpeningTraces
<1>2. CASE MarkRunning(r) \/ MarkCompleted(r) \/ MarkNotFound(r) \/ MarkFailed(r)
  BY <1>2, MarkTraces
<1>3. CASE Analyse(r) \/ Simulate(r) \/ Reconcile(r) \/ EmitCompleted(r)
  BY <1>3, StageTraces
<1>4. CASE AppendStarted(r) \/ CommitStarted(r)
  <2>1. PICK point \in {"commit", "analyse", "dead"} : Goto(r, point, "started")
    BY <1>4 DEF AppendStarted, CommitStarted
  <2>2. UNCHANGED <<store, steps, channel>> /\ task[r].at \in {"append", "commit"}
    BY <1>4 DEF AppendStarted, CommitStarted, At
  <2> QED BY <2>1, <2>2, MoveTraces DEF Stages
<1>5. CASE Rollback(r) \/ AppendFailed(r) \/ CommitFailed(r)
  <2>1. PICK point \in {"append", "commit", "done"} : Goto(r, point, "failed")
    BY <1>5 DEF Rollback, AppendFailed, CommitFailed
  <2>2. /\ UNCHANGED <<store, steps, channel>>
        /\ task[r].at \in {"rollback", "append", "commit"} /\ task[r].stage = "failed"
    BY <1>5 DEF Rollback, AppendFailed, CommitFailed, At
  <2> QED BY <2>1, <2>2, MoveTraces DEF Stages
<1>6. ASSUME NEW stage \in {"completed", "not_found"},
             AppendTerminal(r, stage) \/ CommitTerminal(r, stage)
      PROVE  Traces(r)
  <2>1. /\ UNCHANGED <<store, channel>>
        /\ task[r].at \in {"append", "commit"} /\ task[r].stage # "started"
    BY <1>6 DEF AppendTerminal, CommitTerminal, At
  <2>2. CASE Raise(r)
    BY <2>1, <2>2, RaiseTraces
  <2>3. CASE UNCHANGED steps /\ \E point \in {"commit", "done"} : Goto(r, point, stage)
    BY <2>1, <2>3, MoveTraces DEF Stages
  <2> QED BY <1>6, <2>2, <2>3 DEF AppendTerminal, CommitTerminal
<1> QED BY <1>1, <1>2, <1>3, <1>4, <1>5, <1>6 DEF Execute

LEMMA NextDInv == IInv /\ DInv /\ [Next]_vars => DInv'
<1> SUFFICES ASSUME IInv, DInv, [Next]_vars PROVE DInv'
  OBVIOUS
<1>1. ASSUME NEW r \in Runs, Traces(r) PROVE DInv'
  BY <1>1, TraceFrame DEF Traces, OthersTrace, DInv
<1>2. CASE \E r \in Runs : StartStrategyRun(r) \/ CallDirectly(r) \/ Execute(r)
  BY <1>1, <1>2, OpeningTraces, ExecuteTraces
<1>3. CASE Crash
  <2> SUFFICES ASSUME NEW r \in Runs PROVE Delivered(r)' /\ Shared(r)'
    BY DEF DInv
  <2>1. /\ store'[r] = NoRecord /\ channel'[r] = channel[r] /\ Delivered(r)
        /\ task'[r].at = IF task[r].at = "idle" THEN "idle" ELSE "crashed"
    BY <1>3 DEF Crash, DInv
  <2> QED BY <2>1 DEF Delivered, Shared, TraceOf, NoRecord
<1>4. CASE UNCHANGED vars
  BY <1>4, TraceFrame DEF DInv, vars
<1> QED BY <1>2, <1>3, <1>4 DEF Next

\* Whatever the broker drops, what subscribers received of a run that has
\* returned is, in order, part of the trace its record shows.
THEOREM PublishedIsRecoverableHolds == Spec => []PublishedIsRecoverable
<1>1. Init => DInv
  <2> SUFFICES ASSUME Init, NEW r \in Runs PROVE Delivered(r) /\ Shared(r)
    BY DEF DInv
  <2>1. /\ store[r] = NoRecord /\ channel[r] = <<>>
        /\ task[r] = [at |-> "idle", stage |-> "started"]
    BY DEF Init
  <2> QED BY <2>1 DEF Delivered, Shared, TraceOf, NoRecord
<1>2. IInv /\ DInv => PublishedIsRecoverable
  <2> SUFFICES ASSUME IInv, DInv, NEW r \in Runs, task[r].at = "done"
               PROVE  IsSubsequence(channel[r], TraceOf(r))
    BY DEF PublishedIsRecoverable
  <2>1. TraceOf(r) = steps[r] /\ steps[r] \in Seq(StepTypes)
    BY DEF DInv, Shared, TraceOf, IInv, TypeOK
  <2>2. Embeds(channel[r], steps[r], Len(steps[r]))
    BY DEF DInv, Delivered
  <2> QED BY <2>1, <2>2, EmbedIsSubsequence
<1> QED BY <1>1, <1>2, NextDInv, Invariance, PTL DEF Spec
--------------------------------------------------------------------------------
(****************************************************************************)
(* The tab: for any portfolios and any number of calls, whatever fails or   *)
(* is forgotten, the report shown is that of the latest launch as long as   *)
(* no launch started over another run and no answer came late.  The         *)
(* inductive invariant, TInv, follows the launch from the call to the       *)
(* report: while a run is followed the last call made is its launch, for    *)
(* the portfolio and the profile on screen, and the effect polls no other.  *)
(****************************************************************************)

\* The last call is a launch of what is on screen.
Launched ==
    /\ sent \in Ids /\ requests[sent].kind = "run"
    /\ requests[sent].portfolio = portfolio /\ requests[sent].profile = profile

Followed ==
    /\ phase = "running" => Launched /\ runId \in {0, sent}
    /\ phase = "done" => Launched /\ record = sent
    /\ poll # "none" => phase = "running" /\ runId # 0

\* The calls made are the first ones.
CallsNumbered == \A q \in Ids : q <= sent => requests[q] \in Requests

TInv == TabTypeOK /\ CallsNumbered /\ (~reused /\ ~late => Followed)

(****************************************************************************)
(* Calls.                                                                   *)
(****************************************************************************)
LEMMA SendIs ==
    ASSUME TabTypeOK, CallsNumbered, NEW kind \in {"extract", "run"}, Send(kind)
    PROVE  /\ sent' \in Ids /\ requests' \in [Ids -> Requests \cup {NoRequest}] /\ CallsNumbered'
           /\ requests'[sent'].kind = kind /\ requests'[sent'].portfolio = portfolio
           /\ kind = "run" => requests'[sent'].profile = profile
<1>1. PICK new \in Requests :
        /\ sent' = sent + 1 /\ requests' = [requests EXCEPT ![sent + 1] = new]
        /\ new.kind = kind /\ new.portfolio = portfolio /\ (kind = "run" => new.profile = profile)
  <2> DEFINE new == [kind |-> kind, portfolio |-> portfolio,
                     profile |-> IF kind = "run" THEN profile ELSE 0,
                     at |-> "sent", stale |-> FALSE]
  <2>1. new \in Requests
    BY BoundAssumption DEF Requests, TabTypeOK
  <2> QED BY <2>1 DEF Send
<1>2. sent + 1 \in Ids /\ sent \in Nat
  BY BoundAssumption DEF Send, TabTypeOK, Ids
<1>3. \A q \in Ids : q <= sent + 1 => q <= sent \/ q = sent + 1
  BY <1>2 DEF Ids
<1> QED BY <1>1, <1>2, <1>3 DEF TabTypeOK, CallsNumbered

\* A call that is answered keeps what it was made with.
LEMMA AnsweredIs ==
    ASSUME TabTypeOK, CallsNumbered, NEW q \in Ids, NEW kind \in {"extract", "run"}, Answered(q, kind)
    PROVE  /\ requests' \in [Ids -> Requests \cup {NoRequest}] /\ CallsNumbered' /\ late' \in BOOLEAN
           /\ requests[q].kind = kind /\ (~late' => ~late /\ q = sent)
           /\ \A c \in Ids : /\ requests'[c].kind = requests[c].kind
                             /\ requests'[c].portfolio = requests[c].portfolio
                             /\ requests'[c].profile = requests[c].profile
<1>1. /\ requests[q] \in Requests /\ requests[q].kind = kind /\ UNCHANGED sent
      /\ requests[q].stale \in BOOLEAN
  BY DEF Answered, InFlight, CallsNumbered, Requests
<1>2. PICK new \in Requests :
        /\ requests' = [requests EXCEPT ![q] = new]
        /\ new.kind = requests[q].kind /\ new.portfolio = requests[q].portfolio
        /\ new.profile = requests[q].profile
  <2> DEFINE new == [requests[q] EXCEPT !.at = "answered", !.stale = FALSE]
  <2>1. new \in Requests
    BY <1>1 DEF Requests
  <2>2. requests' = [requests EXCEPT ![q] = new]
    BY DEF Answered, TabTypeOK
  <2> QED BY <1>1, <2>1, <2>2 DEF Requests
<1>3. late' = (late \/ requests[q].stale \/ q # sent)
  BY DEF Answered
<1>4. late' \in BOOLEAN /\ (~late' => ~late /\ q = sent)
  BY Zenon, <1>3
<1> QED BY <1>1, <1>2, <1>4 DEF TabTypeOK, CallsNumbered

\* Calls the tab forgets, or waits for in vain.
LEMMA Marked ==
    ASSUME TabTypeOK, CallsNumbered, UNCHANGED sent,
           requests' = [q \in Ids |-> IF InFlight(q) THEN [requests[q] EXCEPT !.stale = TRUE]
                                      ELSE requests[q]]
           \/ requests' = [q \in Ids |-> IF InFlight(q)
                              THEN [requests[q] EXCEPT !.at = "dropped", !.stale = FALSE]
                              ELSE requests[q]]
    PROVE  requests' \in [Ids -> Requests \cup {NoRequest}] /\ CallsNumbered'
<1>1. \A q \in Ids : InFlight(q) => requests[q] \in Requests
  BY DEF InFlight, CallsNumbered
<1>2. \A c \in Requests : [c EXCEPT !.stale = TRUE] \in Requests
                          /\ [c EXCEPT !.at = "dropped", !.stale = FALSE] \in Requests
  BY DEF Requests
<1>3. \A q \in Ids : requests'[q] \in Requests \/ requests'[q] = requests[q]
  BY <1>1, <1>2
<1> QED BY <1>3 DEF TabTypeOK, CallsNumbered

(****************************************************************************)
(* Steps.                                                                   *)
(****************************************************************************)
LEMMA UserKeeps ==
    ASSUME TInv, OnExtract \/ OnRun \/ OnReset \/ Reopen \/ \E p \in Portfolios : SelectPortfolio(p)
    PROVE  TInv'
<1>1. TabTypeOK /\ CallsNumbered /\ (~reused /\ ~late => Followed)
  BY DEF TInv
<1>2. CASE OnExtract
  <2>1. /\ sent' \in Ids /\ requests' \in [Ids -> Requests \cup {NoRequest}] /\ CallsNumbered'
    BY <1>1, <1>2, SendIs DEF OnExtract
  <2>2. /\ phase' = "extracting" /\ poll = poll' /\ sent' \in 0..MaxRequests
        /\ UNCHANGED <<portfolio, profile, runId, record, poll, runs, reused, late>>
    BY <1>2, <2>1, BoundAssumption DEF OnExtract, Ids
  <2>3. ~reused /\ ~late => poll = "none"
    BY <1>1, <1>2 DEF OnExtract, Followed
  <2> QED BY <1>1, <2>1, <2>2, <2>3 DEF TInv, TabTypeOK, Phases, Followed
<1>3. CASE OnRun
  <2>1. /\ sent' \in Ids /\ requests' \in [Ids -> Requests \cup {NoRequest}] /\ CallsNumbered'
        /\ requests'[sent'].kind = "run" /\ requests'[sent'].portfolio = portfolio
        /\ requests'[sent'].profile = profile
    BY <1>1, <1>3, SendIs DEF OnRun
  <2>2. /\ phase' = "running" /\ sent' \in 0..MaxRequests
        /\ poll' = (IF runId = 0 THEN "none" ELSE "sent")
        /\ UNCHANGED <<portfolio, profile, runId, record, runs, late>>
    BY <1>3, <2>1, BoundAssumption DEF OnRun, Ids
  <2>3. reused' \in BOOLEAN /\ (~reused' => runId = 0)
    <3>1. reused' = (reused \/ runId # 0)
      BY <1>3 DEF OnRun
    <3> QED BY Zenon, <3>1
  <2>4. ~reused' => Followed'
    BY <2>1, <2>2, <2>3 DEF Followed, Launched
  <2> QED BY <1>1, <2>1, <2>2, <2>3, <2>4 DEF TInv, TabTypeOK, Phases
<1>4. CASE OnReset
  <2>1. Followed'
    BY <1>4 DEF OnReset, Clear, Followed
  <2>2. CallsNumbered'
    BY <1>1, <1>4 DEF OnReset, CallsNumbered
  <2> QED BY <1>1, <1>4, <2>1, <2>2, BoundAssumption DEF OnReset, Clear, TInv, TabTypeOK, Phases
<1>5. CASE Reopen \/ \E p \in Portfolios : SelectPortfolio(p)
  <2>1. Clear /\ UNCHANGED <<sent, runs, reused, late>> /\ portfolio' \in Portfolios
    BY <1>1, <1>5 DEF Reopen, SelectPortfolio, TabTypeOK
  <2>2. requests' \in [Ids -> Requests \cup {NoRequest}] /\ CallsNumbered'
    BY <1>1, <1>5, Marked DEF Reopen, SelectPortfolio
  <2>3. Followed'
    BY <2>1 DEF Clear, Followed
  <2> QED BY <1>1, <2>1, <2>2, <2>3, BoundAssumption DEF Clear, TInv, TabTypeOK, Phases
<1> QED BY <1>2, <1>3, <1>4, <1>5

LEMMA ContinueKeeps == ASSUME TInv, NEW q \in Ids, Continue(q) PROVE TInv'
<1>1. TabTypeOK /\ CallsNumbered /\ (~reused /\ ~late => Followed) /\ q \in 0..MaxRequests
  BY BoundAssumption DEF TInv, Ids
<1>2. PICK kind \in {"extract", "run"} :
        /\ Answered(q, kind) /\ (Extracted(q) => kind = "extract") /\ (Started(q) => kind = "run")
  BY DEF Continue, Extracted, Started, Refused, Answered
<1>3. /\ requests' \in [Ids -> Requests \cup {NoRequest}] /\ CallsNumbered' /\ late' \in BOOLEAN
      /\ requests[q].kind = kind /\ (~late' => ~late /\ q = sent)
      /\ \A c \in Ids : /\ requests'[c].kind = requests[c].kind
                        /\ requests'[c].portfolio = requests[c].portfolio
                        /\ requests'[c].profile = requests[c].profile
  BY <1>1, <1>2, AnsweredIs
<1>4. UNCHANGED <<portfolio, sent, reused, record, runs>>
  BY <1>2 DEF Continue, Extracted, Started, Refused, Answered
<1>5. CASE Extracted(q)
  <2>1. profile' = q /\ phase' = "review" /\ poll' = "none" /\ UNCHANGED runId
    BY <1>5 DEF Extracted
  <2> QED BY <1>1, <1>3, <1>4, <2>1 DEF TInv, TabTypeOK, Phases, Followed
<1>6. CASE Started(q)
  <2>1. /\ runId' = q /\ poll' = (IF phase = "running" THEN "sent" ELSE "none")
        /\ UNCHANGED <<phase, profile>> /\ q # 0
    BY <1>6, BoundAssumption DEF Started, Ids
  <2>2. ASSUME ~reused', ~late' PROVE Followed'
    <3>1. Followed /\ q = sent
      BY <1>1, <1>3, <1>4, <2>2
    <3>2. Launched => Launched'
      BY <1>3, <1>4, <2>1 DEF Launched
    <3> QED BY <1>4, <2>1, <3>1, <3>2 DEF Followed
  <2> QED BY <1>1, <1>3, <1>4, <2>1, <2>2 DEF TInv, TabTypeOK
<1>7. CASE Refused(q)
  <2>1. phase' = "error" /\ poll' = "none" /\ UNCHANGED <<profile, runId>>
    BY <1>7 DEF Refused
  <2> QED BY <1>1, <1>3, <1>4, <2>1 DEF TInv, TabTypeOK, Phases, Followed
<1> QED BY <1>5, <1>6, <1>7 DEF Continue

LEMMA PollKeeps == ASSUME TInv, StatusArrives \/ Tick PROVE TInv'
<1>1. /\ TabTypeOK /\ CallsNumbered /\ (~reused /\ ~late => Followed) /\ CallsNumbered' /\ poll # "none"
      /\ UNCHANGED <<portfolio, profile, runId, requests, sent, runs, reused, late>>
  BY DEF TInv, StatusArrives, Tick, CallsNumbered
<1>2. Launched' <=> Launched
  BY <1>1 DEF Launched
<1>3. ASSUME ~reused, ~late PROVE Launched /\ runId = sent /\ phase = "running"
  BY <1>1, <1>3 DEF Followed
<1>4. CASE StatusArrives
  <2>1. \/ /\ phase' \in {"done", "error"} /\ poll' = "none"
           /\ record' \in {record, runId} /\ (phase' = "done" => record' = runId)
        \/ poll' = "asleep" /\ UNCHANGED <<phase, record>>
    BY <1>4 DEF StatusArrives
  <2>2. TabTypeOK'
    BY <1>1, <2>1 DEF TabTypeOK, Phases
  <2>3. ~reused /\ ~late => Followed'
    BY <1>1, <1>2, <1>3, <2>1 DEF Followed
  <2> QED BY <1>1, <2>2, <2>3 DEF TInv
<1>5. CASE Tick
  <2>1. poll' = "sent" /\ UNCHANGED <<phase, record>>
    BY <1>5 DEF Tick
  <2> QED BY <1>1, <1>2, <1>3, <2>1 DEF TInv, TabTypeOK, Followed
<1> QED BY <1>4, <1>5

LEMMA ServerKeeps ==
    ASSUME TInv, Restart \/ \E q \in Ids : Accept(q) \/ Finish(q)
    PROVE  TInv'
<1>1. UNCHANGED <<portfolio, phase, profile, runId, record, poll, requests, sent, reused, late>>
  BY DEF Restart, Accept, Finish, tab
<1>2. runs' \in [Ids -> RunStatuses]
  BY DEF Restart, Accept, Finish, TInv, TabTypeOK, RunStatuses
<1> QED BY <1>1, <1>2 DEF TInv, TabTypeOK, CallsNumbered, Followed, Launched

(****************************************************************************)
(* Theorems.                                                                *)
(****************************************************************************)
LEMMA InitTInv == TabInit => TInv
<1> SUFFICES ASSUME TabInit PROVE TInv
  OBVIOUS
<1>1. TabTypeOK
  <2>1. /\ requests \in [Ids -> Requests \cup {NoRequest}] /\ runs \in [Ids -> RunStatuses]
        /\ 0 \in 0..MaxRequests
    BY BoundAssumption DEF TabInit, RunStatuses
  <2> QED BY <2>1 DEF TabInit, TabTypeOK, Phases
<1>2. CallsNumbered
  BY DEF TabInit, CallsNumbered, Ids
<1> QED BY <1>1, <1>2 DEF TabInit, TInv, Followed

LEMMA NextTInv == TInv /\ [TabNext]_tabVars => TInv'
<1> SUFFICES ASSUME TInv, [TabNext]_tabVars PROVE TInv'
  OBVIOUS
<1>1. CASE UNCHANGED tabVars
  BY <1>1 DEF tabVars, TInv, TabTypeOK, CallsNumbered, Followed, Launched
<1> QED BY <1>1, UserKeeps, ContinueKeeps, PollKeeps, ServerKeeps DEF TabNext

\* However calls, refusals, restarts and changes of the portfolio follow each
\* other, every variable keeps its type and the tab follows its latest launch.
THEOREM TabInvariance == TabSpec => []TInv
BY InitTInv, NextTInv, PTL DEF TabSpec

\* SimulationTab.test.tsx:106: a report on screen is that of the latest launch,
\* for the selected portfolio and the profile shown, unless a launch reused a
\* runId or an answer came late.
THEOREM ReportIsOfLaunchHolds == TabSpec => []ReportIsOfLaunch
<1>1. TInv => ReportIsOfLaunch
  <2> SUFFICES ASSUME TInv, ~reused, ~late, phase = "done"
               PROVE  /\ record = sent /\ requests[record].portfolio = portfolio
                      /\ requests[record].profile = profile
    BY DEF ReportIsOfLaunch, ReportIsOfLatestLaunch
  <2> QED BY DEF TInv, Followed, Launched
<1> QED BY <1>1, TabInvariance, PTL
--------------------------------------------------------------------------------
(****************************************************************************)
(* The live page: for any number of status calls outstanding at once,       *)
(* answered in any order or refused, and whether the run's worker dies or   *)
(* not, what a polling page shows did happen, to the run or to a call.  The *)
(* inductive invariant, WInv, says what an answer on its way still stands   *)
(* for: the run moves on while it travels, but never back.                  *)
(****************************************************************************)
\* What the run can be by the time it was seen, or shown, failed or completed.
Over(seen) ==
    /\ seen = "failed" => status[Run] \in {"failed", "lost"}
    /\ seen = "completed" => status[Run] \in {"completed", "failed", "lost"}

\* With one worker only a run that is lost is not found.
Polled ==
    \A s \in Slots : Over(polls[s]) /\ (polls[s] = "not_found" => status[Run] = "lost")

Shown ==
    /\ ui = "error" => refused \/ status[Run] \in {"failed", "lost"}
    /\ ui = "closed" => status[Run] \in {"completed", "failed", "lost"}

\* The run was registered before the page came up, and a server that refuses the
\* WebSocket never opens one.
WInv ==
    /\ PageTypeOK /\ status[Run] # "none"
    /\ ~served => ws # "open"
    /\ ~served /\ Workers = {host} => Polled /\ Shown

\* What a step of the run does to its status.
LEMMA RunMoves ==
    ASSUME PageTypeOK, Server!Next
    PROVE  /\ status' \in [{Run} -> {"none", "pending", "running", "completed", "failed", "lost"}]
           /\ status[Run] # "none" => status'[Run] # "none"
           /\ status[Run] = "lost" => status'[Run] = "lost"
           /\ status[Run] = "failed" => status'[Run] \in {"failed", "lost"}
           /\ status[Run] = "completed" => status'[Run] \in {"completed", "failed", "lost"}
<1>1. status \in [{Run} -> {"none", "pending", "running", "completed", "failed", "lost"}]
  BY DEF PageTypeOK
<1>2. CASE Server!Register(Run) \/ Server!Start(Run) \/ Server!Reveal(Run)
  BY <1>1, <1>2 DEF Server!Register, Server!Start, Server!Reveal, Server!Move
<1>3. CASE Server!Complete(Run) \/ Server!Fail(Run) \/ Server!Retract(Run)
  BY <1>1, <1>3 DEF Server!Complete, Server!Fail, Server!Retract, Server!Move
<1>4. CASE Server!Audit(Run)
  BY <1>1, <1>4 DEF Server!Audit
<1>5. CASE Server!Vanish
  <2>1. PICK gone \in SUBSET {Run} :
          /\ \A r \in {Run} \ gone : status[r] \in {"none", "lost"}
          /\ status' = [r \in {Run} |-> IF r \in gone THEN "lost" ELSE status[r]]
    BY <1>5 DEF Server!Vanish
  <2> QED BY <1>1, <2>1
<1> QED BY <1>2, <1>3, <1>4, <1>5 DEF Server!Next

\* The callbacks that leave the requests to the server, and the run alone.
LEMMA SentIs ==
    ASSUME PageTypeOK, NEW s \in Slots, SendPoll(s)
    PROVE  /\ polls' \in [Slots -> {"free", "sent"} \cup Answers]
           /\ (UNCHANGED status /\ Polled) => Polled'
BY DEF SendPoll, PageTypeOK, Polled, Over

LEMMA PollingStarts ==
    ASSUME WInv, StartPolling, UNCHANGED <<server, host, refused>>
    PROVE  /\ ui' \in {"connecting", "streaming", "closed", "error"}
           /\ polling' \in BOOLEAN /\ interval' \in BOOLEAN
           /\ polls' \in [Slots -> {"free", "sent"} \cup Answers]
           /\ Polled /\ Shown => Polled' /\ Shown'
<1>1. PageTypeOK /\ UNCHANGED status
  BY DEF WInv, server
<1>2. CASE polling \/ cancelled
  BY <1>1, <1>2 DEF StartPolling, PageTypeOK, Polled, Over, Shown
<1>3. CASE ~(polling \/ cancelled)
  <2>1. PICK s \in Slots : SendPoll(s)
    BY <1>3 DEF StartPolling
  <2>2. polling' = TRUE /\ interval' = TRUE /\ ui' = "streaming"
    BY <1>3 DEF StartPolling
  <2> QED BY <1>1, <2>1, <2>2, SentIs DEF Shown
<1> QED BY <1>2, <1>3

LEMMA InitWInv == PageInit => WInv
<1> SUFFICES ASSUME PageInit PROVE WInv
  OBVIOUS
<1>1. PageTypeOK
  <2>1. /\ status \in [{Run} -> {"none", "pending", "running", "completed", "failed", "lost"}]
        /\ polls \in [Slots -> {"free", "sent"} \cup Answers] /\ served \in BOOLEAN
        /\ refused \in BOOLEAN
    BY DeploymentAssumption DEF PageInit
  <2> QED BY <2>1 DEF PageInit, PageTypeOK
<1>2. status[Run] # "none" /\ Polled /\ Shown
  BY DEF PageInit, Polled, Over, Shown
<1> QED BY <1>1, <1>2 DEF PageInit, WInv

LEMMA NextWInv == WInv /\ [PageNext]_pageVars => WInv'
<1> SUFFICES ASSUME WInv, [PageNext]_pageVars PROVE WInv'
  OBVIOUS
<1>1. /\ PageTypeOK /\ status[Run] # "none" /\ (~served => ws # "open")
      /\ (~served /\ Workers = {host} => Polled /\ Shown)
  BY DEF WInv
<1>2. CASE RunStep
  <2>1. /\ UNCHANGED <<served, host, ui, ws, polling, interval, terminal, cancelled, polls,
                     refused>>
        /\ Server!Next
    BY <1>2 DEF RunStep, page
  <2>2. /\ status' \in [{Run} -> {"none", "pending", "running", "completed", "failed", "lost"}]
        /\ status'[Run] # "none" /\ (Polled /\ Shown => Polled' /\ Shown')
    BY <1>1, <2>1, RunMoves DEF Polled, Over, Shown
  <2> QED BY <1>1, <2>1, <2>2 DEF WInv, PageTypeOK
<1>3. ASSUME NEW s \in Slots, NEW w \in Workers, Answer(s, w) PROVE WInv'
  <2>1. UNCHANGED <<status, served, host, ui, ws, polling, interval, terminal, cancelled, refused>>
    BY <1>3 DEF Answer, server, page
  <2>2. PICK a \in Answers :
          /\ polls' = [polls EXCEPT ![s] = a]
          /\ a = "not_found" => w # host \/ status[Run] = "lost"
          /\ a \notin {"not_found", "refused"} => a = status[Run]
    <3>1. CASE w = host /\ status[Run] # "lost"
      <4>1. status[Run] \in Answers \ {"not_found", "refused"}
        BY <1>1, <3>1 DEF PageTypeOK, Answers
      <4>2. polls' = [polls EXCEPT ![s] = status[Run]]
        BY <1>3, <3>1 DEF Answer
      <4> QED BY <4>1, <4>2
    <3>2. CASE ~(w = host /\ status[Run] # "lost")
      <4>1. polls' = [polls EXCEPT ![s] = "not_found"]
        BY <1>3, <3>2 DEF Answer
      <4> QED BY <3>2, <4>1 DEF Answers
    <3> QED BY <3>1, <3>2
  <2>3. polls' \in [Slots -> {"free", "sent"} \cup Answers]
    BY <1>1, <2>2 DEF PageTypeOK
  <2>4. Workers = {host} /\ Polled => Polled'
    BY <1>1, <2>1, <2>2 DEF PageTypeOK, Polled, Over
  <2> QED BY <1>1, <2>1, <2>3, <2>4 DEF WInv, PageTypeOK, Shown
<1>11. ASSUME NEW s \in Slots, Refuse(s) PROVE WInv'
  <2>1. /\ polls' = [polls EXCEPT ![s] = "refused"]
        /\ UNCHANGED <<status, served, host, ui, ws, polling, interval, terminal, cancelled, refused>>
    BY <1>11 DEF Refuse, server, page
  <2>2. polls' \in [Slots -> {"free", "sent"} \cup Answers] /\ (Polled => Polled')
    BY <1>1, <2>1 DEF PageTypeOK, Answers, Polled, Over
  <2> QED BY <1>1, <2>1, <2>2 DEF WInv, PageTypeOK, Shown
<1>4. CASE WsError
  <2>1. /\ StartPolling /\ ws' = "failed"
        /\ UNCHANGED <<server, status, served, host, terminal, cancelled, refused>>
    BY <1>4 DEF WsError, server
  <2> QED BY <1>1, <2>1, PollingStarts DEF WInv, PageTypeOK
<1>5. CASE WsClose
  <2>1. ws' = "closed" /\ UNCHANGED <<server, status, served, host, terminal, cancelled, refused>>
    BY <1>5 DEF WsClose, server
  <2>2. CASE terminal
    <3>1. UNCHANGED <<ui, polling, interval, polls>>
      BY <1>5, <2>2 DEF WsClose
    <3> QED BY <1>1, <2>1, <3>1 DEF WInv, PageTypeOK, Polled, Over, Shown
  <2>3. CASE ~terminal
    <3>1. StartPolling
      BY <1>5, <2>3 DEF WsClose
    <3> QED BY <1>1, <2>1, <3>1, PollingStarts DEF WInv, PageTypeOK
  <2> QED BY <2>2, <2>3
<1>6. CASE WsOpen \/ WsMessage
  <2>1. /\ served /\ ui' \in {"connecting", "streaming", "closed", "error"}
        /\ ws' \in {"connecting", "open", "failed", "closed"}
        /\ UNCHANGED <<status, served, host, polling, cancelled, polls, refused>>
        /\ terminal' \in BOOLEAN /\ interval' \in BOOLEAN
    BY <1>1, <1>6 DEF WsOpen, WsMessage, server, PageTypeOK
  <2> QED BY <1>1, <2>1 DEF WInv, PageTypeOK
<1>7. ASSUME NEW s \in Slots, ApplyRecord(s) \/ PollFailed(s) PROVE WInv'
  <2>1. /\ UNCHANGED <<status, served, host, ws, polling, cancelled>>
        /\ polls' = [polls EXCEPT ![s] = "free"]
    BY <1>7 DEF ApplyRecord, PollFailed, server
  <2>2. /\ polls' \in [Slots -> {"free", "sent"} \cup Answers]
        /\ Polled => Polled'
    BY <1>1, <2>1 DEF PageTypeOK, Polled, Over
  <2>3. /\ interval' \in BOOLEAN /\ terminal' \in BOOLEAN /\ refused' \in BOOLEAN
        /\ refused => refused'
    BY <1>1, <1>7 DEF ApplyRecord, PollFailed, PageTypeOK
  <2>4. /\ ui' \in {ui, "streaming", "closed", "error"}
        /\ ui' # ui => /\ ui' = "error" => refused' \/ polls[s] \in {"failed", "not_found"}
                       /\ ui' = "closed" => polls[s] = "completed"
    BY <1>7 DEF ApplyRecord, PollFailed
  <2>5. Polled /\ Shown => Shown'
    BY <2>1, <2>3, <2>4 DEF Polled, Over, Shown
  <2> QED BY <1>1, <2>1, <2>2, <2>3, <2>4, <2>5 DEF WInv, PageTypeOK
<1>8. CASE PollTick
  <2>1. UNCHANGED <<status, served, host, ui, ws, polling, interval, terminal, cancelled, refused>>
    BY <1>8 DEF PollTick, server, page
  <2>2. PICK s \in Slots : SendPoll(s)
    BY <1>8 DEF PollTick
  <2> QED BY <1>1, <2>1, <2>2, SentIs DEF WInv, PageTypeOK, Shown
<1>9. CASE Leave
  <2>1. /\ UNCHANGED <<status, served, host, ui, polling, terminal, polls, refused>>
        /\ cancelled' = TRUE /\ interval' = FALSE /\ ws' = "closed"
    BY <1>9 DEF Leave, server
  <2> QED BY <1>1, <2>1 DEF WInv, PageTypeOK, Polled, Over, Shown
<1>10. CASE UNCHANGED pageVars
  BY <1>10 DEF pageVars, WInv, PageTypeOK, Polled, Over, Shown
<1> QED BY <1>2, <1>3, <1>4, <1>5, <1>6, <1>7, <1>8, <1>9, <1>10, <1>11 DEF PageNext, Callback

\* Whatever order polls, refusals, errors and the user's leaving come in: every
\* variable keeps its type and an answer on its way is still true of the run.
THEOREM PollInvariance == PageSpec => []WInv
BY InitWInv, NextWInv, PTL DEF PageSpec

\* SimulatePage.tsx: without a WebSocket and with one worker, the outcome on screen
\* is one the run had, or an error of a status call the page was refused.
THEOREM OutcomeShownHappenedHolds ==
    PageSpec => []OutcomeShownHappened
<1>1. WInv => OutcomeShownHappened
  BY DEF WInv, Shown, OutcomeShownHappened
<1> QED BY <1>1, PollInvariance, PTL
================================================================================
