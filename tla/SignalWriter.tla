------------------------------ MODULE SignalWriter ------------------------------
(****************************************************************************)
(* Jobs that write market_signals: scripts/fetch_external_signals.py and    *)
(* scripts/backfill_market_signals.py.  Each takes the signals of a request *)
(* (SignalProviders) through a loop of upsert_signal                        *)
(* (services/signal_writer.py) in one transaction.  PostgreSQL runs at      *)
(* READ COMMITTED: a SELECT sees what is committed by then plus the         *)
(* session's own changes, and nothing in the schema makes                   *)
(* (signal_type, subject, day) unique.                                      *)
(****************************************************************************)
EXTENDS SignalProviders

CONSTANTS
    Jobs,        \* executions of a script, by cron or by hand
    Requests,    \* what a job may be asked, by name, with the services' answers
    Schedule     \* the names each job may be started with

ASSUME StampsAssumption ==
    \A name \in DOMAIN Requests :
        Requests[name].observed_at \in [aware: BOOLEAN, offset: Int, hour: Int]

ASSUME ScheduleAssumption == \A j \in Jobs : Schedule[j] \subseteq DOMAIN Requests

IsList(s) == s \in Seq(Range(s))
ListsOf(answers) == \A name \in DOMAIN answers : IsList(answers[name])

\* A request has what its source reads: lists of codes and records, services that
\* answer with a list, and places that have a tile.
ASSUME AnswersAssumption ==
    \A name \in DOMAIN Requests :
        LET r == Requests[name]  from(source) == r.source = source
        IN  /\ r.source \in Sources
            /\ from("reinfolib_hazard") =>
                  /\ r.lat \in DOMAIN TileY /\ r.lng \in DOMAIN TileX /\ r.radius \in Nat
                  /\ ListsOf(r.liquefaction) /\ ListsOf(r.flood)
                  /\ \A tile \in DOMAIN r.landslide : r.landslide[tile] \in Nat
            /\ from("reinfolib_land_price") =>
                  /\ {r.bbox.min_lng, r.bbox.max_lng} \subseteq DOMAIN TileX
                  /\ {r.bbox.min_lat, r.bbox.max_lat} \subseteq DOMAIN TileY
                  /\ ListsOf(r.points)
            /\ from("reinfolib_appraisal") => IsList(r.divisions) /\ ListsOf(r.appraisals)
            /\ from("hud_fmr") \/ from("chicago_crime") => IsList(r.zips)
            /\ from("census_acs") => IsList(r.acs)
            /\ from("fema_nfhl") \/ from("backfill") => IsList(r.properties)
            /\ from("mock") => IsList(r.fixture)

\* A fetch of transactions has a date to look back from, a first city, and
\* answers for quarters, each a list of records with two prices.
ASSUME TradesAssumption ==
    \A name \in DOMAIN Requests : Requests[name].source = "reinfolib_transaction" =>
        LET r == Requests[name]
        IN  /\ r.date \in Int \X (1..12) /\ r.codes \in Seq(STRING) \ {<<>>}
            /\ \A key \in DOMAIN r.trades :
                  /\ key[2] \in Int \X (1..4)
                  /\ r.trades[key] \in Seq([price : Int \cup {Absent}, unit : Int \cup {Absent}])

VARIABLES
    rows,      \* the committed rows of market_signals
    job,       \* each job's progress and what its session holds
    history,   \* the jobs in the order they committed
    overlap    \* whether two jobs have ever been under way at once

vars == <<rows, job, history, overlap>>

(****************************************************************************)
(* Time, in hours.  _as_naive_utc shifts an aware stamp by its offset and   *)
(* leaves a naive one alone; the day bucket is the UTC calendar day.        *)
(****************************************************************************)
AsNaiveUtc(stamp) == IF stamp.aware THEN stamp.hour - stamp.offset ELSE stamp.hour
Day(hour) == hour \div 24

Signals(j) == job[j].signals

\* A job: `writes` are the rows its session has flushed, `pending` the change (at
\* most one) that it has made to an object but not yet sent, and `began` how many
\* jobs had committed when it started.
NewJob(phase, request, signals) ==
    [phase |-> phase, request |-> request, next |-> 1, signals |-> signals,
     pending |-> {}, writes |-> {}, began |-> Len(history)]

Init ==
    /\ rows = {}
    /\ history = <<>>
    /\ job = [j \in Jobs |-> NewJob("idle", Absent, <<>>)]
    /\ overlap = FALSE
--------------------------------------------------------------------------------
\* Replace the rows of `old` that `new` has a version of, and add the others.
Merge(old, new) == {row \in old : \A w \in new : w.id # row.id} \cup new

\* What a SELECT of job j returns: committed rows under what it flushed.
View(j) == Merge(rows, job[j].writes)

\* Mutant: the day is computed before the stamp is converted to UTC.
SameDay_LocalDay(row, signal) == row.key = signal.key /\ Day(row.at) = Day(signal.stamp.hour)

SameDay(row, signal) == row.key = signal.key /\ Day(row.at) = Day(AsNaiveUtc(signal.stamp))
Existing(j, signal) == {row \in View(j) : SameDay(row, signal)}

\* get_provider, then provider.fetch(), or the scan of the properties table.
Fetch(j) ==
    /\ job[j].phase = "idle"
    /\ overlap' = (overlap \/ \E k \in Jobs : job[k].phase = "writing")
    /\ \E name \in Schedule[j] :
          /\ HasProvider(Requests[name])
          /\ job' = [job EXCEPT ![j] = NewJob("writing", name, FetchSignals(Requests[name]))]
    /\ UNCHANGED <<rows, history>>

\* No key, or a request of the fetch is refused: nothing has been written.
FetchFails(j) ==
    /\ job[j].phase = "idle"
    /\ job' = [job EXCEPT ![j].phase = "aborted"]
    /\ UNCHANGED <<rows, history, overlap>>

Abort(j) == job' = [job EXCEPT ![j].phase = "aborted", ![j].writes = {}, ![j].pending = {}]

(****************************************************************************)
(* upsert_signal only assigns attributes.  The session remembers which of   *)
(* them differ from what it read, and sends those alone; an object assigned *)
(* what it had is not sent at all.  Each row records by which signal each   *)
(* of its columns was set.  Of the columns, value and observed_at; payload  *)
(* and source behave as they do.                                            *)
(****************************************************************************)
Columns == {"value", "at"}
Change(old, new) == {c \in Columns : old[c] # new[c]}

Assign(j, row, columns) ==
    job' = [job EXCEPT ![j].next = @ + 1,
                       ![j].pending = IF columns = {} THEN {} ELSE {[row |-> row, columns |-> columns]}]

\* upsert_signal for the next signal, once what the last one changed is flushed:
\* scalar_one_or_none() finds no row, one row, or raises MultipleResultsFound,
\* which ends the job.
UpsertSignal(j) ==
    /\ job[j].phase = "writing" /\ job[j].pending = {} /\ job[j].next <= Len(Signals(j))
    /\ LET source == <<j, job[j].next>>
           signal == Signals(j)[job[j].next]
           existing == Existing(j, signal)
           assigned(id) == [id |-> id, key |-> signal.key, at |-> AsNaiveUtc(signal.stamp),
                            value |-> signal.value, by |-> [value |-> source, at |-> source]]
       IN  \/ existing = {} /\ Assign(j, assigned(source), Columns)
           \/ \E row \in existing :
                 existing = {row} /\ Assign(j, assigned(row.id), Change(row, assigned(row.id)))
           \/ (\E a, b \in existing : a # b) /\ Abort(j)
    /\ UNCHANGED <<rows, history>>

\* An UPDATE takes the row's lock, held until the transaction ends.
Locked(j, id) == \E k \in Jobs \ {j} : \E w \in job[k].writes : w.id = id

\* SET the changed columns of a row that may have changed since it was read.
Update(old, new, columns) ==
    LET newest(c) == IF c \in columns THEN new ELSE old
    IN  [old EXCEPT !.value = newest("value").value, !.at = newest("at").at,
                    !.by = [value |-> newest("value").by.value, at |-> newest("at").by.at]]

\* The autoflush before the next SELECT or the commit: an INSERT, or an UPDATE of
\* the newest version of the row once no other transaction holds it.
Flush(j) ==
    /\ job[j].phase = "writing"
    /\ \E change \in job[j].pending :
          LET new == change.row
              Send(row) == job' = [job EXCEPT ![j].pending = {}, ![j].writes = Merge(@, {row})]
          IN  \/ (\A row \in View(j) : row.id # new.id) /\ Send(new)
              \/ ~Locked(j, new.id) /\ \E old \in View(j) :
                    old.id = new.id /\ Send(Update(old, new, change.columns))
    /\ UNCHANGED <<rows, history>>

\* Mutant: a row that exists by now is left alone (ON CONFLICT DO NOTHING).
Commit_KeepsExisting(j) ==
    /\ job[j].phase = "writing" /\ job[j].pending = {} /\ job[j].next > Len(Signals(j))
    /\ rows' = Merge(job[j].writes, rows)
    /\ job' = [job EXCEPT ![j].phase = "committed", ![j].writes = {}]
    /\ history' = Append(history, j)

\* db.commit() at the end of fetch_and_persist and backfill_market_signals,
\* which run the same way under --dry-run.
Commit(j) ==
    /\ job[j].phase = "writing" /\ job[j].pending = {} /\ job[j].next > Len(Signals(j))
    /\ rows' = Merge(rows, job[j].writes)
    /\ job' = [job EXCEPT ![j].phase = "committed", ![j].writes = {}]
    /\ history' = Append(history, j)

\* The rest of _main; under --dry-run a rollback, of a transaction already over.
Finish(j) ==
    /\ job[j].phase = "committed"
    /\ job' = [job EXCEPT ![j].phase = "done"]
    /\ UNCHANGED <<rows, history>>

\* Mutant: a failing job keeps what it wrote so far (a commit per signal).
Fail_KeepsWrites(j) ==
    /\ job[j].phase = "writing"
    /\ Abort(j)
    /\ rows' = Merge(rows, job[j].writes)
    /\ UNCHANGED history

\* The script dies, a statement fails, or the job is a deadlock victim: its
\* session is rolled back.
Fail(j) ==
    /\ job[j].phase = "writing"
    /\ Abort(j)
    /\ UNCHANGED <<rows, history>>

Next ==
    \E j \in Jobs :
        \/ Fetch(j) \/ FetchFails(j)
        \/ (UpsertSignal(j) \/ Flush(j) \/ Commit(j) \/ Finish(j) \/ Fail(j)) /\ UNCHANGED overlap

Spec == Init /\ [][Next]_vars
--------------------------------------------------------------------------------
\* README.md:80 "A second write on the same calendar day updates the existing
\* row": no two rows of one key fall on one UTC day, neither committed ones nor
\* ones a running job sees, where an upsert would raise.  It holds while jobs do
\* not overlap, whatever zones their stamps are in.
OneRowPerDay ==
    ~overlap =>
        \A table \in {rows} \cup {View(j) : j \in Jobs} : \A a, b \in table :
            a.key = b.key /\ Day(a.at) = Day(b.at) => a = b

\* All or nothing: a job that has not committed (it runs, failed or met an
\* ambiguous day) has inserted no row and set no column of one, and a committed
\* one left, for each signal it emitted, a row of that key on that day.
JobIsAtomic ==
    \A j \in Jobs :
        IF job[j].phase \in {"committed", "done"}
        THEN \A i \in DOMAIN Signals(j) : \E row \in rows : SameDay(row, Signals(j)[i])
        ELSE \A row \in rows : j \notin {row.id[1], row.by.value[1], row.by.at[1]}

\* The signals of a job that fall on a row's key and day.
Touching(j, row) == {i \in DOMAIN Signals(j) : SameDay(row, Signals(j)[i])}

\* The value job j emitted last for a row's key and day is the row's.
EmittedLast(j, row) == row.value = Signals(j)[Max(Touching(j, row))].value

\* A value is lost to a job that ran at the same time or to a newer one, never to
\* an older one: a row holds what some committed job emitted last for its day, and
\* a job that committed later and emitted another value for that day had begun
\* before that job committed.  Without an overlap this is that the last commit
\* wins; with one it need not, since an unchanged column is not sent.
LostOnlyToOverlap ==
    \A row \in rows : \E n \in DOMAIN history :
        /\ Touching(history[n], row) # {} /\ EmittedLast(history[n], row)
        /\ \A m \in (n + 1)..Len(history) :
              Touching(history[m], row) # {} /\ ~EmittedLast(history[m], row)
                  => job[history[m]].began < n

\* A count of quarters, by which they are consecutive across years.
Linear(period) == (4 * period[1]) + period[2]

\* "Find the newest quarter MLIT has actually published"
\* (reinfolib_transaction.py:136): where not both a year and a quarter are given,
\* all that a job writes is of one quarter, the newest the first city has data
\* for among the current one and those before it, and every city with prices
\* for that quarter is there; without such a quarter nothing is.
QuarterIsNewest ==
    \A j \in Jobs :
        job[j].phase \notin {"idle", "aborted"} =>
            LET r == Requests[job[j].request]
            IN  r.source = "reinfolib_transaction" /\ ~Explicit(r) =>
                LET now == (4 * r.date[1]) + ((r.date[2] + 2) \div 3)
                    data(code) == {p \in {key[2] : key \in DOMAIN r.trades} :
                                      Answer(r.trades, <<code, p>>) # <<>>}
                    published == {Linear(p) : p \in data(r.codes[1])} \cap ((now - Lookback + 1)..now)
                    priced(code, p) == \E k \in DOMAIN r.trades[<<code, p>>] :
                                          r.trades[<<code, p>>][k].price # Absent
                    sold(code, p) == p \in data(code) /\ Linear(p) = Max(published) /\ priced(code, p)
                IN  IF published = {} THEN Signals(j) = <<>>
                    ELSE /\ \A i \in DOMAIN Signals(j) :
                                Linear(Signals(j)[i].period) = Max(published)
                         /\ \A key \in DOMAIN r.trades : sold(key[1], key[2]) /\ key[1] \in Range(r.codes) =>
                                \E i \in DOMAIN Signals(j) :
                                    Signals(j)[i].key = <<"median_sale_price", key[1]>>
================================================================================
