-------------------------- MODULE SignalWriterProofs --------------------------
(****************************************************************************)
(* Proofs about SignalWriter: for any jobs, requests and answers of the     *)
(* providers, a job of market_signals is all or nothing, without an overlap *)
(* a day has one row, and a value is lost to an overlap or to a later job   *)
(* only.                                                                    *)
(*                                                                          *)
(* The inductive invariant, SInv, says what the session of a job holds: for *)
(* each upserted signal it sees, or is about to send, a row of its day      *)
(* (Present).  For the commit to carry that over to the table it must be    *)
(* known that merging two versions of a row never moves it to another day:  *)
(* SameIdSameDay, of a session and the table and, since another session may *)
(* commit first, of two sessions; and that two sessions never hold the same *)
(* row (Disjoint), which is what the lock of an UPDATE gives.               *)
(*                                                                          *)
(* On top of it ValuesInv says whose value a row holds.  A flush leaves an  *)
(* unchanged value out, so a row a session touched may keep the value of a  *)
(* job that committed meanwhile (SetAfter).                                 *)
(*                                                                          *)
(* A last invariant, Asked, says which answers a job's signals were made    *)
(* of; that the quarter they are of is the newest one published in the year *)
(* the search goes back is then a fact about the operators of               *)
(* SignalProviders.                                                         *)
(****************************************************************************)
EXTENDS SignalWriter, SeriesProofs

(****************************************************************************)
(* What the sessions hold, for any requests and any answers.                *)
(****************************************************************************)
Fetched ==
    {FetchSignals(Requests[name]) : name \in {n \in DOMAIN Requests : HasProvider(Requests[n])}}
Emitted == {<<>>} \cup Fetched
Keys == UNION {{s[i].key : i \in DOMAIN s} : s \in Emitted}
Stamps == UNION {{AsNaiveUtc(s[i].stamp) : i \in DOMAIN s} : s \in Emitted}
Values == UNION {{s[i].value : i \in DOMAIN s} : s \in Emitted}
RowIds == Jobs \X (Nat \ {0})
Rows == [id: RowIds, key: Keys, at: Stamps, value: Values, by: [value: RowIds, at: RowIds]]
Changes == [row: Rows, columns: SUBSET Columns]

Phases == {"idle", "writing", "committed", "done", "aborted"}
JobRecords == [phase: Phases, request: DOMAIN Requests \cup {Absent}, next: Nat \ {0},
               signals: Emitted, pending: SUBSET Changes, writes: SUBSET Rows, began: Nat]

TypeOK ==
    /\ rows \in SUBSET Rows
    /\ job \in [Jobs -> JobRecords]
    /\ history \in Seq(Jobs)
    /\ overlap \in BOOLEAN

IsCommitted(j) == job[j].phase \in {"committed", "done"}

\* The rows of a session: flushed, and assigned but not sent.
Unsent(j) == {change.row : change \in job[j].pending}
Held(j) == job[j].writes \cup Unsent(j)

\* The signals of job j that have been upserted.
Upserted(j) == {i \in DOMAIN Signals(j) : i < job[j].next}

\* A session holds rows only while its job writes; the position of a committed
\* job is past its last signal; no job began after the last commit.
Positioned(j) ==
    /\ job[j].phase # "writing" => job[j].writes = {} /\ job[j].pending = {}
    /\ job[j].next <= Len(Signals(j)) + 1
    /\ IsCommitted(j) => job[j].next = Len(Signals(j)) + 1
    /\ job[j].began <= Len(history)

\* The jobs a row is of, by its id and the columns they set.
Authors(row) == {row.id[1], row.by.value[1], row.by.at[1]}

\* They are committed ones, or the one whose session holds the row.
Owned(j) ==
    \A w \in Held(j) :
        /\ \A k \in Authors(w) : k = j \/ IsCommitted(k)
        /\ w.id[1] = j => w.id[2] < job[j].next

\* A session has at most one change to send, that of the last upserted signal, to
\* a row of its own or one in sight.
LastAssigned(j) ==
    /\ \A a, b \in job[j].pending : a = b
    /\ \A new \in Unsent(j) : new.id[1] = j \/ \E row \in View(j) : row.id = new.id
    /\ \A change \in job[j].pending : \E i \in Upserted(j) :
          /\ i = job[j].next - 1
          /\ SameDay(change.row, Signals(j)[i]) /\ change.row.value = Signals(j)[i].value

UniqueIds(table) == \A a, b \in table : a.id = b.id => a = b

SameDayRows(a, b) == a.key = b.key /\ Day(a.at) = Day(b.at)

\* An update keeps the key and the day of the row it changes, whichever session
\* sends it.
SameIdSameDay(s, t) == \A a \in s, b \in t : a.id = b.id => SameDayRows(a, b)

\* A row is locked by one session.
Disjoint(s, t) == \A a \in s, b \in t : a.id # b.id

\* A row of each upserted signal is there.
Present(j, table) == \A i \in Upserted(j) : \E row \in table : SameDay(row, Signals(j)[i])

SessionInv(j) ==
    /\ Positioned(j) /\ Owned(j) /\ LastAssigned(j)
    /\ UniqueIds(job[j].writes)
    /\ SameIdSameDay(Held(j), rows)
    /\ job[j].phase = "writing" => Present(j, View(j) \cup Unsent(j))
    /\ IsCommitted(j) => Present(j, rows)

TableInv ==
    /\ \A row \in rows : \A k \in Authors(row) : IsCommitted(k)
    /\ UniqueIds(rows)
    /\ \A n \in DOMAIN history : IsCommitted(history[n])
    /\ \A k \in Jobs : IsCommitted(k) => \E n \in DOMAIN history : history[n] = k

SInv ==
    /\ TypeOK /\ TableInv
    /\ \A j \in Jobs : SessionInv(j)
    /\ \A j, k \in Jobs : SameIdSameDay(Held(j), Held(k))
    /\ \A j, k \in Jobs : j # k => Disjoint(job[j].writes, job[k].writes)

DayUnique(table) == \A a, b \in table : SameDayRows(a, b) => a = b

\* Without an overlap one job at most is under way, and what it sees has a row
\* per key and day, of which the change it has not sent is a version.
Alone ==
    ~overlap =>
        /\ \A j, k \in Jobs : job[j].phase = "writing" /\ job[k].phase = "writing" => j = k
        /\ DayUnique(rows)
        /\ \A j \in Jobs : DayUnique(View(j))
        /\ \A j \in Jobs : \A row \in View(j), new \in Unsent(j) :
               SameDayRows(row, new) => row.id = new.id
--------------------------------------------------------------------------------
\* Two sessions' changes on top of each other.
LEMMA MergeMembers ==
    ASSUME NEW old, NEW new, NEW row
    PROVE  row \in Merge(old, new) <=>
               row \in new \/ (row \in old /\ \A w \in new : w.id # row.id)
BY DEF Merge

LEMMA MergeTwice ==
    ASSUME NEW old, NEW new, NEW newer
    PROVE  Merge(old, Merge(new, newer)) = Merge(Merge(old, new), newer)
<1>1. ASSUME NEW row, row \in Merge(old, Merge(new, newer))
      PROVE  row \in Merge(Merge(old, new), newer)
  BY <1>1 DEF Merge
<1>2. ASSUME NEW row, row \in Merge(Merge(old, new), newer)
      PROVE  row \in Merge(old, Merge(new, newer))
  BY <1>2 DEF Merge
<1> QED BY <1>1, <1>2

LEMMA MergeUnique ==
    ASSUME NEW old, NEW new, UniqueIds(old), UniqueIds(new) PROVE UniqueIds(Merge(old, new))
BY DEF Merge, UniqueIds

(****************************************************************************)
(* What a provider returns is a list, whatever the services answered.       *)
(****************************************************************************)
LEMMA SeqIsList ==
    ASSUME NEW T, NEW s \in Seq(T)
    PROVE  IsList(s) /\ DOMAIN s = 1..Len(s) /\ Len(s) \in Nat
<1>1. s = [i \in 1..Len(s) |-> s[i]] /\ Len(s) \in Nat /\ DOMAIN s = 1..Len(s)
  OBVIOUS
<1>2. \A i \in 1..Len(s) : s[i] \in Range(s)
  BY <1>1 DEF Range
<1> QED BY <1>1, <1>2, SequenceOf DEF IsList

\* A comprehension over a list, and a filter of one.
LEMMA ComprehensionIsList ==
    ASSUME NEW n \in Nat, NEW f, f = [i \in 1..n |-> f[i]]
    PROVE  IsList(f) /\ DOMAIN f = 1..n
<1>1. DOMAIN f = 1..n
  OBVIOUS
<1>2. \A i \in 1..n : f[i] \in Range(f)
  BY <1>1 DEF Range
<1> QED BY <1>1, <1>2, SequenceOf DEF IsList

LEMMA FilterIsList ==
    ASSUME NEW s, IsList(s), NEW K \in SUBSET DOMAIN s
    PROVE  IsList(Picked(s, K))
<1>1. Picked(s, K) \in Seq(Range(s))
  BY PickedFacts DEF IsList
<1> QED BY <1>1, SeqIsList

LEMMA ConcatenationIsList ==
    ASSUME NEW s, NEW t, IsList(s), IsList(t)
    PROVE  IsList(s \o t)
<1> DEFINE T == Range(s) \cup Range(t)
<1>1. s \in Seq(T) /\ t \in Seq(T)
  <2>1. s \in Seq(Range(s)) /\ t \in Seq(Range(t))
    BY DEF IsList
  <2> HIDE DEF T
  <2>2. Range(s) \subseteq T /\ Range(t) \subseteq T
    BY DEF T
  <2> QED BY <2>1, <2>2
<1> HIDE DEF T
<1>2. s \o t \in Seq(T)
  BY <1>1
<1> QED BY <1>2, SeqIsList

LEMMA ShortIsList == IsList(<<>>) /\ \A x : IsList(<<x>>)
<1>1. <<>> \in Seq({}) /\ \A x : <<x>> \in Seq({x})
  OBVIOUS
<1> QED BY <1>1, SeqIsList

LEMMA JoinedIsList ==
    ASSUME NEW seqs, IsList(seqs), \A k \in DOMAIN seqs : IsList(seqs[k])
    PROVE  IsList(Joined(seqs))
<1> DEFINE T == UNION {Range(seqs[k]) : k \in DOMAIN seqs}
<1>1. seqs \in Seq(Range(seqs)) /\ Len(seqs) \in Nat /\ DOMAIN seqs = 1..Len(seqs)
      /\ seqs = [k \in 1..Len(seqs) |-> seqs[k]]
  BY DEF IsList
<1>2. ASSUME NEW k \in DOMAIN seqs PROVE seqs[k] \in Seq(T)
  <2>1. seqs[k] \in Seq(Range(seqs[k]))
    BY DEF IsList
  <2>2. Range(seqs[k]) \subseteq T
    OBVIOUS
  <2> HIDE DEF T
  <2> QED BY <2>1, <2>2
<1> HIDE DEF T
<1>3. seqs \in Seq(Seq(T))
  BY <1>1, <1>2, SequenceOf
<1>4. Joined(seqs) \in Seq(T)
  BY <1>3, JoinedRange
<1> QED BY <1>4, SeqIsList

LEMMA ExtendIsList ==
    ASSUME NEW s, IsList(s), NEW emit, \A x \in Range(s) : IsList(emit[x])
    PROVE  IsList(Extend(s, emit))
<1> DEFINE seqs == [i \in DOMAIN s |-> emit[s[i]]]
<1>1. Len(s) \in Nat /\ DOMAIN s = 1..Len(s)
  BY DEF IsList
<1>2. IsList(seqs) /\ DOMAIN seqs = 1..Len(s)
  BY <1>1, ComprehensionIsList
<1>3. \A k \in DOMAIN seqs : IsList(seqs[k])
  BY <1>1 DEF Range
<1> HIDE DEF seqs
<1>4. IsList(Joined(seqs))
  BY <1>2, <1>3, JoinedIsList
<1> QED BY <1>4 DEF Extend, seqs

LEMMA AnswerIsList ==
    ASSUME NEW answers, ListsOf(answers), NEW name
    PROVE  IsList(Answer(answers, name))
BY ShortIsList DEF Answer, ListsOf

LEMMA ListDomain ==
    ASSUME NEW s, IsList(s) PROVE Len(s) \in Nat /\ DOMAIN s = 1..Len(s)
BY DEF IsList

LEMMA ExtremesOfPair ==
    ASSUME NEW a \in Nat, NEW b \in Nat
    PROVE  Max({a, b}) \in Nat /\ Min({a, b}) \in Nat /\ Min({a, b}) <= b
<1> DEFINE pair == {a, b}
<1>1. pair \in SUBSET Nat /\ pair \in SUBSET Int /\ pair # {} /\ b \in pair
  OBVIOUS
<1>2. IsFiniteSet(pair)
  BY PairIsFinite
<1> HIDE DEF pair
<1>3. Max(pair) \in pair /\ Min(pair) \in pair /\ Min(pair) <= b
  BY <1>1, <1>2, Extremes
<1>4. Max(pair) \in Nat /\ Min(pair) \in Nat /\ Min(pair) <= b
  BY <1>1, <1>3
<1> QED BY <1>4 DEF pair

LEMMA TilesAreListed ==
    ASSUME NEW x_min \in Int, NEW x_max \in Int, NEW y_min \in Int, NEW y_max \in Int
    PROVE  IsList(Tiles(x_min, x_max, y_min, y_max))
<1> DEFINE n == (x_max - x_min + 1) * (y_max - y_min + 1)
           tiles == Tiles(x_min, x_max, y_min, y_max)
<1>1. n \in Int
  OBVIOUS
<1>2. tiles = [i \in 1..n |-> tiles[i]]
  BY DEF Tiles
<1> HIDE DEF n, tiles
<1>3. CASE n \in Nat
  BY <1>2, <1>3, ComprehensionIsList DEF tiles
<1>4. CASE n \notin Nat
  <2>1. 1..n = 1..0
    BY <1>1, <1>4
  <2> QED BY <1>2, <2>1, ComprehensionIsList DEF tiles
<1> QED BY <1>3, <1>4
--------------------------------------------------------------------------------
LEMMA TransactionsAreListed ==
    ASSUME NEW r, IsList(r.codes)
    PROVE  IsList(Transactions(r))
<1>1. ASSUME NEW type, NEW code, NEW period, NEW values
      PROVE  IsList(Median(type, r, code, period, values))
  BY ShortIsList DEF Median
<1>2. ASSUME NEW code, NEW period PROVE IsList(FetchCity(r, code, period))
  BY <1>1, ConcatenationIsList DEF FetchCity
<1> DEFINE period == IF Explicit(r) THEN <<r.year, r.quarter>> ELSE ResolvePublishedQuarter(r)
           emit == [code \in Range(r.codes) |-> FetchCity(r, code, period)]
<1>3. \A code \in Range(r.codes) : IsList(emit[code])
  BY <1>2
<1> HIDE DEF emit
<1>4. IsList(Extend(r.codes, emit))
  BY <1>3, ExtendIsList
<1> QED BY <1>4, ShortIsList DEF Transactions, emit

LEMMA HazardsAreListed ==
    ASSUME NEW r, r.lat \in DOMAIN TileY, r.lng \in DOMAIN TileX, r.radius \in Nat,
           ListsOf(r.liquefaction), ListsOf(r.flood),
           \A tile \in DOMAIN r.landslide : r.landslide[tile] \in Nat
    PROVE  IsList(Hazards(r))
<1> DEFINE tiles == TilesAround(r.lat, r.lng, r.radius)
           emit == [t \in Range(tiles) |->
                       FetchLiquefaction(r, t) \o FetchFlood(r, t) \o FetchLandslide(r, t)]
<1>1. IsList(tiles)
  BY TileAssumption, TilesAreListed DEF TilesAround
<1>2. ASSUME NEW t PROVE IsList(FetchLiquefaction(r, t))
  <2> DEFINE answer == Answer(r.liquefaction, t)
             features == Where(answer, LAMBDA f : f.mesh # Absent)
             signals == FetchLiquefaction(r, t)
  <2>1. IsList(features)
    BY AnswerIsList, FilterIsList DEF Where
  <2>2. signals = [k \in DOMAIN features |-> signals[k]]
    BY DEF FetchLiquefaction
  <2> HIDE DEF features, signals
  <2>3. Len(features) \in Nat /\ DOMAIN features = 1..Len(features)
    BY <2>1, ListDomain
  <2>4. IsList(signals)
    BY <2>2, <2>3, ComprehensionIsList
  <2> QED BY <2>4 DEF signals
<1>3. ASSUME NEW t PROVE IsList(FetchFlood(r, t))
  <2> DEFINE depths == Answer(r.flood, t)
             signals == FetchFlood(r, t)
  <2>1. Len(depths) \in Nat /\ DOMAIN depths = 1..Len(depths)
    BY AnswerIsList, ListDomain
  <2>2. signals = [k \in DOMAIN depths |-> signals[k]]
    BY DEF FetchFlood
  <2> HIDE DEF depths, signals
  <2>3. IsList(signals)
    BY <2>1, <2>2, ComprehensionIsList
  <2> QED BY <2>3 DEF signals
<1>4. ASSUME NEW t PROVE IsList(FetchLandslide(r, t))
  <2>1. CASE t \notin DOMAIN r.landslide
    BY <2>1, ShortIsList DEF FetchLandslide
  <2>2. CASE t \in DOMAIN r.landslide
    <3> DEFINE n == Max({1, r.landslide[t]})
               flag == ExternalSignal("hazard_landslide", t, r, IF r.landslide[t] = 0 THEN 0 ELSE 800)
               signals == FetchLandslide(r, t)
    <3>1. n \in Nat
      BY <2>2, ExtremesOfPair
    <3>2. signals = [k \in 1..n |-> flag]
      BY <2>2, Zenon DEF FetchLandslide
    <3> HIDE DEF n, flag, signals
    <3>3. IsList(signals)
      BY <3>1, <3>2, ComprehensionIsList
    <3> QED BY <3>3 DEF signals
  <2> QED BY <2>1, <2>2
<1>5. \A t \in Range(tiles) : IsList(emit[t])
  BY <1>2, <1>3, <1>4, ConcatenationIsList
<1> HIDE DEF tiles, emit
<1>6. IsList(Extend(tiles, emit))
  BY <1>1, <1>5, ExtendIsList
<1> QED BY <1>6 DEF Hazards, tiles, emit

LEMMA LandPricesAreListed ==
    ASSUME NEW r, r.bbox.min_lng \in DOMAIN TileX, r.bbox.max_lng \in DOMAIN TileX,
           r.bbox.min_lat \in DOMAIN TileY, r.bbox.max_lat \in DOMAIN TileY, ListsOf(r.points)
    PROVE  IsList(LandPrices(r))
<1> DEFINE covering == TilesCoveringBbox(r.bbox)
           limit == Min({MaxTiles, Len(covering)})
           tiles == SubSeq(covering, 1, limit)
           points(t) == Where(Answer(r.points, t), LAMBDA p : p.price # Absent /\ p.point # Absent)
           signals(t) == [k \in DOMAIN points(t) |->
               ExternalSignal("land_price_psm", points(t)[k].point, r, points(t)[k].price)]
           emit == [t \in Range(tiles) |-> signals(t)]
<1>1. IsList(covering)
  BY TileAssumption, TilesAreListed DEF TilesCoveringBbox
<1>2. IsList(tiles)
  <2> HIDE DEF covering
  <2>1. covering \in Seq(Range(covering)) /\ Len(covering) \in Nat
    BY <1>1, ListDomain DEF IsList
  <2>2. limit \in Nat /\ limit <= Len(covering)
    BY <2>1, LimitAssumption, ExtremesOfPair
  <2> HIDE DEF limit
  <2>3. tiles \in Seq(Range(covering))
    BY <2>1, <2>2
  <2> QED BY <2>3, SeqIsList
<1> HIDE DEF tiles, covering
<1>3. ASSUME NEW t PROVE IsList(signals(t))
  <2>1. IsList(points(t))
    BY AnswerIsList, FilterIsList DEF Where
  <2>2. Len(points(t)) \in Nat /\ DOMAIN points(t) = 1..Len(points(t))
    BY <2>1, ListDomain
  <2>3. signals(t) = [k \in 1..Len(points(t)) |-> signals(t)[k]]
    BY <2>2
  <2> HIDE DEF signals, points
  <2> QED BY <2>2, <2>3, ComprehensionIsList
<1>4. \A t \in Range(tiles) : IsList(emit[t])
  <2> HIDE DEF signals, points
  <2> QED BY <1>3
<1> HIDE DEF emit
<1>5. IsList(Extend(tiles, emit))
  BY <1>2, <1>4, ExtendIsList
<1> QED BY <1>5 DEF LandPrices, emit, tiles, covering

LEMMA AppraisalsAreListed ==
    ASSUME NEW r, IsList(r.divisions), ListsOf(r.appraisals)
    PROVE  IsList(Appraisals(r))
<1> DEFINE usable(d) == Where(Answer(r.appraisals, d),
                              LAMBDA a : a.price # Absent /\ SubjectIdFrom(a) # Absent)
           signals(d) == [k \in DOMAIN usable(d) |->
               ExternalSignal("appraised_value_psm", SubjectIdFrom(usable(d)[k]), r,
                              usable(d)[k].price)]
           emit == [d \in Range(r.divisions) |-> signals(d)]
<1>1. ASSUME NEW d PROVE IsList(signals(d))
  <2>1. IsList(usable(d))
    BY AnswerIsList, FilterIsList DEF Where
  <2>2. Len(usable(d)) \in Nat /\ DOMAIN usable(d) = 1..Len(usable(d))
    BY <2>1, ListDomain
  <2>3. signals(d) = [k \in 1..Len(usable(d)) |-> signals(d)[k]]
    BY <2>2
  <2> HIDE DEF signals, usable
  <2> QED BY <2>2, <2>3, ComprehensionIsList
<1>2. \A d \in Range(r.divisions) : IsList(emit[d])
  <2> HIDE DEF signals, usable
  <2> QED BY <1>1
<1> HIDE DEF emit
<1>3. IsList(Extend(r.divisions, emit))
  BY <1>2, ExtendIsList
<1> QED BY <1>3 DEF Appraisals, emit

LEMMA RentsAreListed ==
    ASSUME NEW r, IsList(r.zips)
    PROVE  IsList(FairMarketRents(r))
<1> DEFINE emit == [zip \in Range(r.zips) |->
               IF Answer(r.fmr, zip) = <<>> \/ Head(Answer(r.fmr, zip)) = Absent THEN <<>>
               ELSE <<ExternalSignal("median_rent", zip, r, Head(Answer(r.fmr, zip)))>>]
<1>1. \A zip \in Range(r.zips) : IsList(emit[zip])
  BY ShortIsList
<1> HIDE DEF emit
<1>2. IsList(Extend(r.zips, emit))
  BY <1>1, ExtendIsList
<1> QED BY <1>2 DEF FairMarketRents, emit

LEMMA CensusIsListed ==
    ASSUME NEW r, IsList(r.acs)
    PROVE  IsList(CensusAcs(r))
<1> DEFINE signal(type, zip, value) ==
               IF value = Absent \/ value < 0 THEN <<>> ELSE <<ExternalSignal(type, zip, r, value)>>
           row(k) == signal("median_rent", r.acs[k].zip, r.acs[k].rent)
                     \o signal("median_home_value", r.acs[k].zip, r.acs[k].home_value)
           seqs == [k \in DOMAIN r.acs |-> row(k)]
<1>1. ASSUME NEW type, NEW zip, NEW value PROVE IsList(signal(type, zip, value))
  BY ShortIsList
<1>2. ASSUME NEW k PROVE IsList(row(k))
  <2> HIDE DEF signal
  <2> QED BY <1>1, ConcatenationIsList
<1>3. IsList(seqs) /\ \A k \in DOMAIN seqs : IsList(seqs[k])
  <2> HIDE DEF row
  <2>1. Len(r.acs) \in Nat /\ DOMAIN r.acs = 1..Len(r.acs)
    BY ListDomain
  <2> QED BY <1>2, <2>1, ComprehensionIsList
<1> HIDE DEF seqs
<1>4. IsList(Joined(seqs))
  BY <1>3, JoinedIsList
<1> QED BY <1>4, ShortIsList DEF CensusAcs, seqs

LEMMA FilteredSourcesAreListed ==
    ASSUME NEW r
    PROVE  /\ IsList(r.properties) => IsList(FloodZones(r))
           /\ IsList(r.zips) => IsList(ChicagoCrime(r))
           /\ IsList(r.fixture) => IsList(Mock(r))
<1>1. ASSUME IsList(r.properties) PROVE IsList(FloodZones(r))
  <2> DEFINE located == Where(r.properties, LAMBDA p : p.id # Absent /\ p.zone # Absent)
             signals == FloodZones(r)
  <2>1. IsList(located)
    BY <1>1, FilterIsList DEF Where
  <2>2. signals = [k \in DOMAIN located |-> signals[k]]
    BY DEF FloodZones
  <2> HIDE DEF located, signals
  <2>3. Len(located) \in Nat /\ DOMAIN located = 1..Len(located)
    BY <2>1, ListDomain
  <2>4. IsList(signals)
    BY <2>2, <2>3, ComprehensionIsList
  <2> QED BY <2>4 DEF signals
<1>2. ASSUME IsList(r.zips) PROVE IsList(ChicagoCrime(r))
  <2> DEFINE known == Where(r.zips, LAMBDA zip : zip \in DOMAIN r.population)
             signals == ChicagoCrime(r)
  <2>1. IsList(known)
    BY <1>2, FilterIsList DEF Where
  <2>2. signals = [k \in DOMAIN known |-> signals[k]]
    BY DEF ChicagoCrime
  <2> HIDE DEF known, signals
  <2>3. Len(known) \in Nat /\ DOMAIN known = 1..Len(known)
    BY <2>1, ListDomain
  <2>4. IsList(signals)
    BY <2>2, <2>3, ComprehensionIsList
  <2> QED BY <2>4 DEF signals
<1>3. ASSUME IsList(r.fixture) PROVE IsList(Mock(r))
  <2> DEFINE signals == Mock(r)
  <2>1. Len(r.fixture) \in Nat /\ DOMAIN r.fixture = 1..Len(r.fixture)
    BY <1>3, ListDomain
  <2>2. signals = [k \in DOMAIN r.fixture |-> signals[k]]
    BY DEF Mock
  <2> HIDE DEF signals
  <2>3. IsList(signals)
    BY <2>1, <2>2, ComprehensionIsList
  <2> QED BY <2>3 DEF signals
<1> QED BY <1>1, <1>2, <1>3

LEMMA BackfillIsListed ==
    ASSUME NEW r, IsList(r.properties)
    PROVE  IsList(Backfill(r))
<1> DEFINE zips == Zips(r.properties)
           of(zip) == Where(r.properties, LAMBDA p : p.zip = zip)
           prices(zip) == Numeric([k \in DOMAIN of(zip) |-> of(zip)[k].price])
           count(zip, status) == Len(Where(of(zip), LAMBDA p : p.status = status))
           flagged == Where(r.properties, LAMBDA p : p.flagged)
           medians == [zip \in Range(zips) |->
               IF prices(zip) = <<>> THEN <<>>
               ELSE <<ExternalSignal("median_sale_price", zip, r, TwiceMedian(prices(zip)))>>]
           pressure == [zip \in Range(zips) |->
               IF count(zip, "active") = 0 THEN <<>>
               ELSE <<ExternalSignal("inventory_pressure", zip, r,
                          (100 * count(zip, "active")) \div Max({1, count(zip, "sold")}))>>]
           flags == [k \in DOMAIN flagged |-> ExternalSignal("hazard", flagged[k].id, r, Absent)]
<1>1. IsList(zips)
  <2> DEFINE positions == [k \in DOMAIN r.properties |-> k]
             firsts == Where(positions, LAMBDA k :
                 r.properties[k].zip # Absent
                 /\ \A h \in 1..(k - 1) : r.properties[h].zip # r.properties[k].zip)
  <2>1. Len(r.properties) \in Nat /\ DOMAIN r.properties = 1..Len(r.properties)
    BY ListDomain
  <2>2. IsList(positions)
    BY <2>1, ComprehensionIsList
  <2>3. IsList(firsts)
    BY <2>2, FilterIsList DEF Where
  <2>4. zips = [n \in DOMAIN firsts |-> zips[n]]
    BY DEF Zips
  <2> HIDE DEF zips, firsts
  <2>5. Len(firsts) \in Nat /\ DOMAIN firsts = 1..Len(firsts)
    BY <2>3, ListDomain
  <2> QED BY <2>4, <2>5, ComprehensionIsList
<1>2. IsList(flags)
  <2>1. IsList(flagged)
    BY FilterIsList DEF Where
  <2> HIDE DEF flagged
  <2>2. Len(flagged) \in Nat /\ DOMAIN flagged = 1..Len(flagged)
    BY <2>1, ListDomain
  <2> QED BY <2>2, ComprehensionIsList
<1>3. \A zip \in Range(zips) : IsList(medians[zip])
  <2> HIDE DEF zips, prices
  <2> QED BY ShortIsList
<1>4. \A zip \in Range(zips) : IsList(pressure[zip])
  <2> HIDE DEF zips, count
  <2> QED BY ShortIsList
<1> HIDE DEF zips, medians, pressure, flags
<1>5. IsList(Extend(zips, medians)) /\ IsList(Extend(zips, pressure))
  BY <1>1, <1>3, <1>4, ExtendIsList
<1>6. IsList(Extend(zips, medians) \o Extend(zips, pressure) \o flags)
  BY <1>2, <1>5, ConcatenationIsList
<1> QED BY <1>6 DEF Backfill, zips, medians, pressure, flags

\* fetch() -> Sequence[ExternalSignal] (signal_providers/base.py): every provider, and
\* the backfill, has a list of signals to upsert, whatever the services answered.
THEOREM FetchIsList ==
    ASSUME NEW name \in DOMAIN Requests
    PROVE  IsList(FetchSignals(Requests[name]))
<1> DEFINE r == Requests[name]
<1>1. r.source \in Sources
  BY AnswersAssumption
<1>2. CASE r.source = "reinfolib_transaction"
  <2>1. r.codes \in Seq(STRING)
    BY <1>2, TradesAssumption
  <2>2. IsList(Transactions(r))
    BY <2>1, SeqIsList, TransactionsAreListed
  <2> QED BY <1>2, <2>2 DEF FetchSignals
<1>3. CASE r.source = "reinfolib_hazard"
  <2>1. IsList(Hazards(r))
    BY <1>3, AnswersAssumption, HazardsAreListed
  <2> QED BY <1>3, <2>1 DEF FetchSignals
<1>4. CASE r.source = "reinfolib_land_price"
  <2>1. IsList(LandPrices(r))
    BY <1>4, AnswersAssumption, LandPricesAreListed
  <2> QED BY <1>4, <2>1 DEF FetchSignals
<1>5. CASE r.source = "reinfolib_appraisal"
  <2>1. IsList(Appraisals(r))
    BY <1>5, AnswersAssumption, AppraisalsAreListed
  <2> QED BY <1>5, <2>1 DEF FetchSignals
<1>6. CASE r.source = "fred_mortgage_rate"
  <2>1. IsList(MortgageRate(r))
    BY ShortIsList DEF MortgageRate
  <2> QED BY <1>6, <2>1 DEF FetchSignals
<1>7. CASE r.source = "hud_fmr"
  <2>1. IsList(FairMarketRents(r))
    BY <1>7, AnswersAssumption, RentsAreListed
  <2> QED BY <1>7, <2>1 DEF FetchSignals
<1>8. CASE r.source = "census_acs"
  <2>1. IsList(CensusAcs(r))
    BY <1>8, AnswersAssumption, CensusIsListed
  <2> QED BY <1>8, <2>1 DEF FetchSignals
<1>9. CASE r.source \in {"fema_nfhl", "chicago_crime", "mock"}
  <2>1. /\ r.source = "fema_nfhl" => IsList(FloodZones(r))
        /\ r.source = "chicago_crime" => IsList(ChicagoCrime(r))
        /\ r.source = "mock" => IsList(Mock(r))
    BY AnswersAssumption, FilteredSourcesAreListed
  <2> QED BY <1>9, <2>1 DEF FetchSignals
<1>10. CASE r.source = "backfill"
  <2>1. IsList(Backfill(r))
    BY <1>10, AnswersAssumption, BackfillIsListed
  <2> QED BY <1>10, <2>1 DEF FetchSignals
<1> QED
  BY <1>1, <1>2, <1>3, <1>4, <1>5, <1>6, <1>7, <1>8, <1>9, <1>10 DEF Sources, Keyed

\* The types of the values a signal brings.
LEMMA EmittedSignals ==
    ASSUME NEW s \in Emitted
    PROVE  /\ Len(s) \in Nat /\ DOMAIN s = 1..Len(s)
           /\ \A i \in DOMAIN s :
                 s[i].key \in Keys /\ AsNaiveUtc(s[i].stamp) \in Stamps /\ s[i].value \in Values
<1>1. Len(s) \in Nat /\ DOMAIN s = 1..Len(s)
  BY ShortIsList, FetchIsList, ListDomain DEF Emitted, Fetched
<1>2. ASSUME NEW i \in DOMAIN s
      PROVE  s[i].key \in Keys /\ AsNaiveUtc(s[i].stamp) \in Stamps /\ s[i].value \in Values
  <2>1. /\ s[i].key \in {s[k].key : k \in DOMAIN s}
        /\ AsNaiveUtc(s[i].stamp) \in {AsNaiveUtc(s[k].stamp) : k \in DOMAIN s}
        /\ s[i].value \in {s[k].value : k \in DOMAIN s}
    BY Zenon
  <2> QED BY <2>1, Zenon DEF Keys, Stamps, Values
<1> QED BY <1>1, <1>2

\* The committed jobs stay committed.
Settled == \A k \in Jobs : IsCommitted(k) => IsCommitted(k)'

LEMMA AuthorsAreJobs ==
    ASSUME NEW row \in Rows
    PROVE  /\ Authors(row) \subseteq Jobs /\ row.id \in RowIds
           /\ row.id[1] \in Jobs /\ row.id[2] \in Nat
BY DEF Authors, Rows, RowIds

LEMMA HeldRows == ASSUME TypeOK, NEW k \in Jobs PROVE Held(k) \subseteq Rows
BY DEF TypeOK, JobRecords, Changes, Held, Unsent

\* A session that a step leaves alone, as it leaves the table.
LEMMA SessionFrame ==
    ASSUME TypeOK, NEW k \in Jobs, SessionInv(k), job'[k] = job[k], rows' = rows, Settled,
           Len(history) <= Len(history'), Len(history) \in Nat, Len(history') \in Nat
    PROVE  SessionInv(k)'
<1>1. job[k].began \in Nat
  BY DEF TypeOK, JobRecords
<1>2. Held(k)' = Held(k) /\ Unsent(k)' = Unsent(k) /\ View(k)' = View(k)
  BY DEF Held, Unsent, View
<1>3. Positioned(k)' /\ LastAssigned(k)'
  BY <1>1, <1>2 DEF SessionInv, Positioned, LastAssigned, IsCommitted, Signals, Upserted
<1>4. Owned(k)'
  <2>1. \A w \in Held(k) : \A l \in Authors(w) : l \in Jobs
    BY HeldRows, AuthorsAreJobs
  <2> QED BY <1>2, <2>1 DEF SessionInv, Owned, Settled
<1>5. /\ UniqueIds(job[k].writes)' /\ SameIdSameDay(Held(k), rows)'
      /\ (job[k].phase = "writing" => Present(k, View(k) \cup Unsent(k)))'
      /\ (IsCommitted(k) => Present(k, rows))'
  BY <1>2 DEF SessionInv, UniqueIds, SameIdSameDay, Present, IsCommitted, Signals, Upserted
<1> QED BY <1>3, <1>4, <1>5 DEF SessionInv

LEMMA HistoryOf ==
    ASSUME SInv
    PROVE  /\ Len(history) \in Nat /\ DOMAIN history = 1..Len(history)
           /\ \A n \in DOMAIN history : history[n] \in Jobs /\ IsCommitted(history[n])
<1>1. history \in Seq(Jobs)
  BY DEF SInv, TypeOK
<1> QED BY <1>1, LenProperties, ElementOfSeq DEF SInv, TableInv

LEMMA TableFrame ==
    ASSUME SInv, UNCHANGED <<rows, history>>, \A k \in Jobs : IsCommitted(k)' <=> IsCommitted(k)
    PROVE  TableInv'
<1>1. \A row \in rows : \A k \in Authors(row) : k \in Jobs
  BY AuthorsAreJobs DEF SInv, TypeOK
<1> QED BY <1>1, HistoryOf DEF SInv, TableInv, UniqueIds

\* A step of job j that touches neither the table nor the history, and leaves
\* the session empty.
LEMMA QuietKeeps ==
    ASSUME SInv, NEW j \in Jobs, NEW record \in JobRecords, job' = [job EXCEPT ![j] = record],
           UNCHANGED <<rows, history>>, overlap' \in BOOLEAN,
           record.writes = {}, record.pending = {}, record.next <= Len(record.signals) + 1,
           record.began <= Len(history),
           IsCommitted(j) => /\ record.phase = "done"
                             /\ record.signals = job[j].signals /\ record.next = job[j].next,
           record.phase \in {"committed", "done"} => IsCommitted(j),
           record.phase = "writing" => record.next = 1
    PROVE  SInv'
<1>1. job'[j] = record /\ \A k \in Jobs \ {j} : job'[k] = job[k]
  BY DEF SInv, TypeOK
<1>2. TypeOK'
  BY DEF SInv, TypeOK
<1>3. \A k \in Jobs : IsCommitted(k)' <=> IsCommitted(k)
  BY <1>1 DEF IsCommitted
<1>4. TableInv' /\ Settled
  BY <1>3, TableFrame DEF Settled
<1>5. /\ Held(j)' = {} /\ Unsent(j)' = {} /\ \A k \in Jobs \ {j} : Held(k)' = Held(k)
  BY <1>1 DEF Held, Unsent
<1>6. SessionInv(j)'
  <2>1. Positioned(j)'
    BY <1>1 DEF SInv, SessionInv, Positioned, IsCommitted, Signals
  <2>2. Owned(j)' /\ LastAssigned(j)' /\ UniqueIds(job[j].writes)' /\ SameIdSameDay(Held(j), rows)'
    BY <1>1, <1>5 DEF Owned, LastAssigned, UniqueIds, SameIdSameDay
  <2>3. (job[j].phase = "writing" => Present(j, View(j) \cup Unsent(j)))'
    <3> SUFFICES ASSUME record.phase = "writing" PROVE Present(j, View(j) \cup Unsent(j))'
      BY <1>1
    <3>1. DOMAIN record.signals = 1..Len(record.signals) /\ Len(record.signals) \in Nat
      BY EmittedSignals DEF JobRecords
    <3>2. Upserted(j)' = {}
      BY <1>1, <3>1 DEF Upserted, Signals
    <3> QED BY <3>2 DEF Present
  <2>4. (IsCommitted(j) => Present(j, rows))'
    BY <1>1 DEF SInv, SessionInv, IsCommitted, Present, Upserted, Signals
  <2> QED BY <2>1, <2>2, <2>3, <2>4 DEF SessionInv
<1>7. ASSUME NEW k \in Jobs PROVE SessionInv(k)'
  BY <1>1, <1>4, <1>6, SessionFrame, HistoryOf DEF SInv
<1>8. ASSUME NEW k \in Jobs, NEW l \in Jobs
      PROVE  /\ SameIdSameDay(Held(k), Held(l))'
             /\ (k # l => Disjoint(job[k].writes, job[l].writes))'
  BY <1>1, <1>5, SMTT(60) DEF SInv, SameIdSameDay, Disjoint
<1> QED BY <1>2, <1>4, <1>7, <1>8 DEF SInv

(****************************************************************************)
(* upsert_signal assigns one row, and the flush sends it.                   *)
(****************************************************************************)
\* The row `new` that job j assigns for its next signal: one to insert when no
\* row of the day is in sight, or the update of the only one.
Assigns(j, signal, new, columns) ==
    /\ LET source == <<j, job[j].next>>
       IN  /\ new = [id |-> new.id, key |-> signal.key, at |-> AsNaiveUtc(signal.stamp),
                     value |-> signal.value, by |-> [value |-> source, at |-> source]]
           /\ \/ Existing(j, signal) = {} /\ new.id = source /\ columns = Columns
              \/ \E row \in Existing(j, signal) :
                    Existing(j, signal) = {row} /\ new.id = row.id /\ columns = Change(row, new)
    /\ job[j].pending = {}
    /\ Assign(j, new, columns)

LEMMA UpsertAssigns ==
    ASSUME NEW j \in Jobs, UpsertSignal(j)
    PROVE  \/ \E new, columns : Assigns(j, Signals(j)[job[j].next], new, columns)
           \/ Abort(j)
<1> DEFINE signal == Signals(j)[job[j].next]
           source == <<j, job[j].next>>
           existing == Existing(j, signal)
           assigned(id) == [id |-> id, key |-> signal.key, at |-> AsNaiveUtc(signal.stamp),
                            value |-> signal.value, by |-> [value |-> source, at |-> source]]
<1>1. \/ existing = {} /\ Assign(j, assigned(source), Columns)
      \/ \E row \in existing :
            existing = {row} /\ Assign(j, assigned(row.id), Change(row, assigned(row.id)))
      \/ Abort(j)
  BY DEF UpsertSignal
<1>2. job[j].pending = {}
  BY DEF UpsertSignal
<1>3. CASE existing = {} /\ Assign(j, assigned(source), Columns)
  <2> DEFINE new == assigned(source)
  <2>1. Assigns(j, signal, new, Columns)
    BY <1>2, <1>3 DEF Assigns
  <2> QED BY <2>1
<1>4. ASSUME NEW row \in existing, existing = {row},
             Assign(j, assigned(row.id), Change(row, assigned(row.id)))
      PROVE  \E new, columns : Assigns(j, signal, new, columns)
  <2> DEFINE new == assigned(row.id)
  <2>1. Assigns(j, signal, new, Change(row, new))
    BY <1>2, <1>4 DEF Assigns
  <2> QED BY <2>1
<1> QED BY <1>1, <1>3, <1>4

\* What an assignment leaves of the session.
Assigned(j, new, columns) ==
    /\ \A k \in Jobs \ {j} : job'[k] = job[k]
    /\ job'[j].next = job[j].next + 1 /\ job'[j].writes = job[j].writes
    /\ job'[j].phase = job[j].phase /\ job'[j].signals = job[j].signals
    /\ job'[j].request = job[j].request /\ job'[j].began = job[j].began /\ job[j].pending = {}
    /\ \A change \in job'[j].pending : change.row = new
    /\ columns # {} => \E change \in job'[j].pending : change.row = new /\ change.columns = columns

LEMMA AssignEffect ==
    ASSUME job \in [Jobs -> JobRecords], NEW j \in Jobs, NEW signal, NEW new, NEW columns,
           Assigns(j, signal, new, columns)
    PROVE  Assigned(j, new, columns)
<1> DEFINE change == [row |-> new, columns |-> columns]
           pending == IF columns = {} THEN {} ELSE {change}
           record == [job[j] EXCEPT !.next = job[j].next + 1, !.pending = pending]
<1>1. change.row = new /\ change.columns = columns
  OBVIOUS
<1>2. (\A c \in pending : c = change) /\ (columns # {} => change \in pending)
  OBVIOUS
<1>3. job[j] \in JobRecords /\ job[j].pending = {}
  BY DEF Assigns
<1>4. job' = [job EXCEPT ![j] = record]
  BY <1>3 DEF Assigns, Assign, JobRecords
<1> HIDE DEF pending, change
<1>5. /\ record.next = job[j].next + 1 /\ record.pending = pending /\ record.writes = job[j].writes
      /\ record.phase = job[j].phase /\ record.signals = job[j].signals
      /\ record.request = job[j].request /\ record.began = job[j].began
  BY <1>3 DEF JobRecords
<1> HIDE DEF record
<1>6. job'[j] = record /\ \A k \in Jobs \ {j} : job'[k] = job[k]
  BY <1>4
<1> QED BY <1>1, <1>2, <1>3, <1>5, <1>6 DEF Assigned

\* The row `sent` that a flush of job j sends.
Sends(j, change, sent) ==
    /\ change \in job[j].pending
    /\ \/ (\A row \in View(j) : row.id # change.row.id) /\ sent = change.row
       \/ /\ ~Locked(j, change.row.id)
          /\ \E old \in View(j) :
                old.id = change.row.id /\ sent = Update(old, change.row, change.columns)
    /\ job' = [job EXCEPT ![j].pending = {}, ![j].writes = Merge(@, {sent})]

LEMMA FlushSends ==
    ASSUME NEW j \in Jobs, Flush(j) PROVE \E change, sent : Sends(j, change, sent)
<1>1. PICK change \in job[j].pending :
          LET new == change.row
              Send(row) == job' = [job EXCEPT ![j].pending = {}, ![j].writes = Merge(@, {row})]
          IN  \/ (\A row \in View(j) : row.id # new.id) /\ Send(new)
              \/ ~Locked(j, new.id) /\ \E old \in View(j) :
                    old.id = new.id /\ Send(Update(old, new, change.columns))
  BY DEF Flush
<1>2. CASE \A row \in View(j) : row.id # change.row.id
  BY <1>1, <1>2 DEF Sends
<1>3. ASSUME ~Locked(j, change.row.id), NEW old \in View(j), old.id = change.row.id,
             job' = [job EXCEPT ![j].pending = {},
                                ![j].writes = Merge(@, {Update(old, change.row, change.columns)})]
      PROVE  \E sent : Sends(j, change, sent)
  BY <1>3 DEF Sends
<1> QED BY <1>1, <1>2, <1>3

\* What an UPDATE leaves of a row.
LEMMA UpdateIs ==
    ASSUME NEW old \in Rows, NEW new \in Rows, NEW columns
    PROVE  LET row == Update(old, new, columns)
           IN  /\ row \in Rows /\ row.id = old.id /\ row.key = old.key
               /\ row.at \in {old.at, new.at}
               /\ Authors(row) \subseteq Authors(old) \cup Authors(new)
               /\ IF "value" \in columns
                  THEN row.value = new.value /\ row.by.value = new.by.value
                  ELSE row.value = old.value /\ row.by.value = old.by.value
<1> DEFINE row == Update(old, new, columns)
           newest(c) == IF c \in columns THEN new ELSE old
           by == [value |-> newest("value").by.value, at |-> newest("at").by.at]
<1>1. row = [old EXCEPT !.value = newest("value").value, !.at = newest("at").at, !.by = by]
  BY DEF Update
<1>2. \A c : newest(c) \in {old, new}
  OBVIOUS
<1>3. /\ newest("value").value \in Values /\ newest("at").at \in Stamps
      /\ newest("value").by.value \in RowIds /\ newest("at").by.at \in RowIds
  BY DEF Rows
<1>4. by \in [value: RowIds, at: RowIds]
  BY <1>3
<1>5. /\ row.id = old.id /\ row.key = old.key /\ row.value = newest("value").value
      /\ row.at = newest("at").at /\ row.by = by /\ row \in Rows
  <2> HIDE DEF newest, by
  <2> QED BY <1>1, <1>3, <1>4 DEF Rows
<1>6. by.value = newest("value").by.value /\ by.at = newest("at").by.at
  OBVIOUS
<1>7. Authors(row) = {old.id[1], newest("value").by.value[1], newest("at").by.at[1]}
  <2> HIDE DEF newest, by, row
  <2> QED BY <1>5, <1>6 DEF Authors
<1>8. Authors(row) \subseteq Authors(old) \cup Authors(new)
  <2> HIDE DEF row
  <2> QED BY <1>7 DEF Authors
<1> HIDE DEF row, by
<1>9. /\ row.at \in {old.at, new.at}
      /\ IF "value" \in columns
         THEN row.value = new.value /\ row.by.value = new.by.value
         ELSE row.value = old.value /\ row.by.value = old.by.value
  BY <1>5, <1>6
<1> QED BY <1>5, <1>8, <1>9 DEF row

\* What the session sees at an upsert.
LEMMA ViewMembers ==
    ASSUME NEW j \in Jobs
    PROVE  /\ \A w \in job[j].writes : w \in View(j) /\ w \in Held(j)
           /\ \A row \in View(j) : row \in rows \/ row \in job[j].writes
           /\ \A row \in rows : (\A w \in job[j].writes : w.id # row.id) => row \in View(j)
BY DEF View, Merge, Held

\* Facts about the assigned row: its type, that a row of its id is of its day,
\* and that a row of the session of its day has its id.
Assignable(j, signal, new, columns) ==
    /\ new \in Rows /\ columns \subseteq Columns
    /\ \A k \in Authors(new) : k = j \/ IsCommitted(k)
    /\ new.id[1] = j => new.id[2] <= job[j].next
    /\ \A row \in rows : row.id = new.id => SameDayRows(row, new)
    /\ \A k \in Jobs : \A w \in Held(k) : w.id = new.id => SameDayRows(w, new)
    /\ \A row \in View(j) : SameDay(row, signal) => row.id = new.id
    /\ SameDay(new, signal) /\ new.value = signal.value
    /\ columns = {} => \E row \in View(j) : SameDay(row, signal)
    /\ new.id[1] = j \/ \E row \in View(j) : row.id = new.id
    /\ \A row \in View(j) : SameDay(row, signal) => "value" \in columns \/ row.value = signal.value

LEMMA NewRow ==
    ASSUME SInv, NEW j \in Jobs, job[j].phase = "writing", job[j].next <= Len(Signals(j)),
           NEW new, NEW columns, Assigns(j, Signals(j)[job[j].next], new, columns)
    PROVE  Assignable(j, Signals(j)[job[j].next], new, columns)
<1> DEFINE signal == Signals(j)[job[j].next]
           source == <<j, job[j].next>>
<1>1. /\ \A row \in rows : row.id \in RowIds /\ row.id[1] \in Jobs /\ IsCommitted(row.id[1])
      /\ \A k \in Jobs : \A w \in Held(k) : w.id \in RowIds
      /\ job[j].next \in Nat \ {0} /\ ~IsCommitted(j)
  <2>1. \A row \in rows : row \in Rows /\ \A k \in Authors(row) : IsCommitted(k)
    BY DEF SInv, TypeOK, TableInv
  <2>2. \A k \in Jobs : \A w \in Held(k) : w \in Rows
    BY HeldRows DEF SInv
  <2>3. job[j].next \in Nat \ {0} /\ ~IsCommitted(j)
    BY DEF SInv, TypeOK, JobRecords, IsCommitted
  <2> QED BY <2>1, <2>2, <2>3, AuthorsAreJobs DEF Authors
<1>2. /\ new.key = signal.key /\ new.at = AsNaiveUtc(signal.stamp) /\ new.value = signal.value
      /\ new.by.value = source /\ new.by.at = source
  BY DEF Assigns
<1>3. SameDay(new, signal)
  BY <1>2 DEF SameDay
<1>4. signal.key \in Keys /\ AsNaiveUtc(signal.stamp) \in Stamps /\ signal.value \in Values
  <2>1. Signals(j) \in Emitted
    BY DEF SInv, TypeOK, JobRecords, Signals
  <2>2. job[j].next \in DOMAIN Signals(j)
    BY <1>1, <2>1, EmittedSignals
  <2> QED BY <2>1, <2>2, EmittedSignals
<1>5. ASSUME new.id \in RowIds PROVE new \in Rows
  <2>1. source \in RowIds
    BY <1>1 DEF RowIds
  <2> QED BY <1>4, <1>5, <2>1 DEF Assigns, Rows
<1>6. columns \subseteq Columns
  BY DEF Assigns, Change
<1>7. ASSUME NEW k, k = new.id[1] => k = j \/ IsCommitted(k), k \in Authors(new)
      PROVE  k = j \/ IsCommitted(k)
  BY <1>2, <1>7 DEF Authors
<1>8. CASE Existing(j, signal) = {} /\ new.id = source /\ columns = Columns
  <2>1. \A row \in View(j) : ~SameDay(row, signal)
    BY <1>8 DEF Existing
  <2>2. \A row \in rows : row.id # new.id
    BY <1>1, <1>8
  <2>3. ASSUME NEW k \in Jobs, NEW w \in Held(k) PROVE w.id # new.id
    <3>1. (w.id[1] = k \/ IsCommitted(w.id[1])) /\ (w.id[1] = k => w.id[2] < job[k].next)
      BY DEF SInv, SessionInv, Owned, Authors
    <3> QED BY <1>1, <1>8, <3>1
  <2>4. new.id[1] = j /\ new.id[2] = job[j].next /\ new.id \in RowIds /\ columns # {}
    BY <1>1, <1>8 DEF RowIds, Columns
  <2> QED BY <1>1, <1>2, <1>3, <1>5, <1>6, <1>7, <2>1, <2>2, <2>3, <2>4 DEF Assignable
<1>9. ASSUME NEW row \in Existing(j, signal), Existing(j, signal) = {row}, new.id = row.id,
             columns = Change(row, new)
      PROVE  /\ new.id[1] = j \/ IsCommitted(new.id[1])
             /\ new.id[1] = j => new.id[2] <= job[j].next
             /\ new.id \in RowIds
             /\ \A other \in rows : other.id = new.id => SameDayRows(other, new)
             /\ \A k \in Jobs : \A w \in Held(k) : w.id = new.id => SameDayRows(w, new)
             /\ \A other \in View(j) : SameDay(other, signal) => other.id = new.id
             /\ \E other \in View(j) : SameDay(other, signal) /\ other.id = new.id
             /\ \A other \in View(j) : SameDay(other, signal) =>
                    "value" \in columns \/ other.value = signal.value
  <2>1. row \in View(j) /\ SameDay(row, signal) /\ \A w \in View(j) : SameDay(w, signal) => w = row
    BY <1>9 DEF Existing
  <2>2. SameDayRows(row, new)
    BY <1>3, <2>1 DEF SameDayRows, SameDay
  <2>3. row \in rows \/ row \in Held(j)
    BY <2>1, ViewMembers
  <2>4. /\ new.id[1] = j \/ IsCommitted(new.id[1])
        /\ new.id[1] = j => new.id[2] <= job[j].next
        /\ new.id \in RowIds
    <3>1. CASE row \in rows
      BY <1>1, <1>9, <3>1
    <3>2. CASE row \in Held(j)
      <4>1. (row.id[1] = j \/ IsCommitted(row.id[1])) /\ (row.id[1] = j => row.id[2] < job[j].next)
        BY <3>2 DEF SInv, SessionInv, Owned, Authors
      <4>2. row.id[2] \in Nat
        BY <1>1, <3>2 DEF RowIds
      <4> QED BY <1>1, <1>9, <3>2, <4>1, <4>2
    <3> QED BY <2>3, <3>1, <3>2
  <2>5. \A other \in rows : other.id = row.id => SameDayRows(other, row)
    <3>1. UniqueIds(rows) /\ SameIdSameDay(Held(j), rows)
      BY DEF SInv, TableInv, SessionInv
    <3> QED BY <2>3, <3>1 DEF UniqueIds, SameIdSameDay, SameDayRows
  <2>6. \A k \in Jobs : \A w \in Held(k) : w.id = row.id => SameDayRows(w, row)
    <3>1. \A k \in Jobs : SameIdSameDay(Held(k), rows) /\ SameIdSameDay(Held(k), Held(j))
      BY DEF SInv, SessionInv
    <3> QED BY <2>3, <3>1 DEF SameIdSameDay
  <2>7. "value" \in columns \/ row.value = signal.value
    BY <1>2, <1>9 DEF Change, Columns
  <2> QED BY <1>9, <2>1, <2>2, <2>4, <2>5, <2>6, <2>7 DEF SameDayRows
<1> QED BY <1>2, <1>3, <1>5, <1>6, <1>7, <1>8, <1>9 DEF Assigns, Assignable

\* A step of the session of job j that leaves it writing.
LEMMA SessionStep ==
    ASSUME SInv, NEW j \in Jobs, job[j].phase = "writing",
           NEW record \in JobRecords, job' = [job EXCEPT ![j] = record],
           UNCHANGED <<rows, history, overlap>>,
           record.phase = "writing", record.signals = job[j].signals, record.began = job[j].began,
           SessionInv(j)',
           \A k \in Jobs \ {j} : /\ SameIdSameDay(Held(j)', Held(k)) /\ SameIdSameDay(Held(k), Held(j)')
                                 /\ Disjoint(record.writes, job[k].writes),
           SameIdSameDay(Held(j)', Held(j)')
    PROVE  SInv'
<1>1. job'[j] = record /\ \A k \in Jobs \ {j} : job'[k] = job[k] /\ Held(k)' = Held(k)
  BY DEF SInv, TypeOK, Held, Unsent
<1>2. TypeOK'
  BY DEF SInv, TypeOK
<1>3. \A k \in Jobs : IsCommitted(k)' <=> IsCommitted(k)
  BY <1>1 DEF IsCommitted
<1>4. TableInv' /\ Settled
  BY <1>3, TableFrame DEF Settled
<1>5. ASSUME NEW k \in Jobs PROVE SessionInv(k)'
  BY <1>1, <1>4, SessionFrame, HistoryOf DEF SInv
<1>6. ASSUME NEW k \in Jobs, NEW l \in Jobs
      PROVE  /\ SameIdSameDay(Held(k), Held(l))'
             /\ (k # l => Disjoint(job[k].writes, job[l].writes))'
  <2>1. CASE k # j /\ l # j
    BY <1>1, <2>1 DEF SInv, SameIdSameDay, Disjoint
  <2>2. CASE k = j \/ l = j
    BY <1>1, <2>2 DEF SameIdSameDay, Disjoint
  <2> QED BY <2>1, <2>2
<1> QED BY <1>2, <1>4, <1>5, <1>6 DEF SInv

LEMMA AssignKeeps ==
    ASSUME SInv, NEW j \in Jobs, job[j].phase = "writing", job[j].next <= Len(Signals(j)),
           NEW new, NEW columns, Assigns(j, Signals(j)[job[j].next], new, columns),
           UNCHANGED <<rows, history, overlap>>
    PROVE  SInv'
<1> DEFINE n == job[j].next
           signal == Signals(j)[n]
           change == [row |-> new, columns |-> columns]
           pending == IF columns = {} THEN {} ELSE {change}
           record == [job[j] EXCEPT !.next = n + 1, !.pending = pending]
           held == job[j].writes \cup {new}
<1>1. /\ job[j] \in JobRecords /\ n \in Nat \ {0} /\ job[j].pending = {}
      /\ DOMAIN Signals(j) = 1..Len(Signals(j)) /\ Len(Signals(j)) \in Nat
  <2>1. job[j] \in JobRecords /\ job[j].pending = {}
    BY DEF SInv, TypeOK, Assigns
  <2>2. Signals(j) \in Emitted
    BY <2>1 DEF JobRecords, Signals
  <2> QED BY <2>1, <2>2, EmittedSignals DEF JobRecords
<1>2. /\ new \in Rows /\ columns \subseteq Columns
      /\ \A k \in Authors(new) : k = j \/ IsCommitted(k)
      /\ new.id[1] = j => new.id[2] <= n
      /\ \A row \in rows : row.id = new.id => SameDayRows(row, new)
      /\ \A k \in Jobs : \A w \in Held(k) : w.id = new.id => SameDayRows(w, new)
      /\ SameDay(new, signal) /\ new.value = signal.value
      /\ columns = {} => \E row \in View(j) : SameDay(row, signal)
      /\ new.id[1] = j \/ \E row \in View(j) : row.id = new.id
  <2>1. Assignable(j, signal, new, columns)
    BY NewRow
  <2> QED BY <2>1 DEF Assignable
<1>3. /\ job' = [job EXCEPT ![j] = record] /\ record \in JobRecords
      /\ pending \subseteq {change} /\ (columns # {} => change \in pending)
  <2>1. change \in Changes
    BY <1>2 DEF Changes
  <2>2. pending \in SUBSET Changes /\ n + 1 \in Nat \ {0}
    BY <1>1, <2>1
  <2>3. job' = [job EXCEPT ![j] = record]
    BY <1>1 DEF Assigns, Assign, JobRecords, SInv, TypeOK
  <2>4. pending \subseteq {change} /\ (columns # {} => change \in pending)
    OBVIOUS
  <2> HIDE DEF pending, n
  <2>5. record \in JobRecords
    BY <1>1, <2>2 DEF JobRecords
  <2> QED BY <2>3, <2>4, <2>5
<1>4. /\ record.phase = "writing" /\ record.next = n + 1 /\ record.pending = pending
      /\ record.writes = job[j].writes /\ record.signals = Signals(j)
      /\ record.began = job[j].began
  BY <1>1 DEF JobRecords, Signals
<1>5. change.row = new
  OBVIOUS
<1> HIDE DEF record, pending, change
<1>6. /\ job'[j] = record /\ \A k \in Jobs \ {j} : job'[k] = job[k]
      /\ \A k \in Jobs : IsCommitted(k)' <=> IsCommitted(k)
  BY <1>3, <1>4 DEF SInv, TypeOK, IsCommitted
<1>7. /\ Signals(j)' = Signals(j) /\ Upserted(j)' = Upserted(j) \cup {n}
      /\ View(j)' = View(j) /\ Held(j) = job[j].writes /\ Held(j)' \subseteq held
      /\ \A row \in Unsent(j)' : row = new
      /\ columns # {} => new \in Unsent(j)'
  BY <1>1, <1>3, <1>4, <1>5, <1>6 DEF Signals, Upserted, View, Held, Unsent
<1>8. \A k \in Jobs : SameIdSameDay(held, Held(k)) /\ SameIdSameDay(Held(k), held)
  BY <1>2, <1>7 DEF SInv, SameIdSameDay, SameDayRows
<1>9. SameIdSameDay(held, held)
  BY <1>2, <1>7, <1>8 DEF SameIdSameDay, SameDayRows
<1>10. SessionInv(j)'
  <2>1. Positioned(j)'
    <3>1. job[j].began <= Len(history) /\ Len(history') = Len(history)
      BY DEF SInv, SessionInv, Positioned
    <3>2. /\ job'[j].phase = "writing" /\ job'[j].next = n + 1 /\ job'[j].began = job[j].began
          /\ n + 1 <= Len(Signals(j)) + 1
      BY <1>1, <1>4, <1>6
    <3> QED BY <1>7, <3>1, <3>2 DEF Positioned, IsCommitted
  <2>2. Owned(j)'
    <3> SUFFICES ASSUME NEW w \in held
                 PROVE  /\ \A k \in Authors(w) : k = j \/ IsCommitted(k)'
                        /\ w.id[1] = j => w.id[2] < n + 1
      BY <1>4, <1>6, <1>7 DEF Owned
    <3>1. w \in Rows /\ Authors(w) \subseteq Jobs /\ w.id[2] \in Nat
      BY <1>2, <1>7, HeldRows, AuthorsAreJobs DEF SInv
    <3>2. CASE w = new
      BY <1>1, <1>2, <1>6, <3>1, <3>2
    <3>3. CASE w \in Held(j)
      <4>1. (\A k \in Authors(w) : k = j \/ IsCommitted(k)) /\ (w.id[1] = j => w.id[2] < n)
        BY <3>3 DEF SInv, SessionInv, Owned
      <4> QED BY <1>1, <1>6, <3>1, <4>1
    <3> QED BY <1>7, <3>2, <3>3
  <2>3. LastAssigned(j)'
    <3>1. \A a, b \in pending : a = b
      BY <1>3
    <3>2. \A c \in pending : \E i \in Upserted(j)' :
             i = record.next - 1 /\ SameDay(c.row, Signals(j)[i]) /\ c.row.value = Signals(j)[i].value
      BY <1>1, <1>2, <1>3, <1>4, <1>5, <1>7, SMTT(60)
    <3>3. \A row \in Unsent(j)' : row.id[1] = j \/ \E old \in View(j) : old.id = row.id
      BY <1>2, <1>7
    <3>4. job'[j].pending = pending /\ job'[j].next = record.next
      BY <1>4, <1>6
    <3> QED BY <1>7, <3>1, <3>2, <3>3, <3>4 DEF LastAssigned
  <2>4. UniqueIds(job[j].writes)'
    BY <1>4, <1>6 DEF SInv, SessionInv, UniqueIds
  <2>5. SameIdSameDay(Held(j), rows)'
    <3>1. \A a \in Held(j), b \in rows : a.id = b.id => SameDayRows(a, b)
      BY DEF SInv, SessionInv, SameIdSameDay
    <3>2. \A a \in held, b \in rows : a.id = b.id => SameDayRows(a, b)
      BY <1>2, <1>7, <3>1 DEF SameDayRows
    <3> QED BY <1>7, <3>2 DEF SameIdSameDay
  <2>6. Present(j, View(j) \cup Unsent(j))'
    <3> SUFFICES ASSUME NEW i \in Upserted(j) \cup {n}
                 PROVE  \E row \in View(j) \cup Unsent(j)' : SameDay(row, Signals(j)[i])
      BY <1>7 DEF Present
    <3>1. CASE i = n
      BY <1>2, <1>7, <3>1
    <3>2. CASE i \in Upserted(j)
      <4>1. Unsent(j) = {}
        BY <1>1 DEF Unsent
      <4> QED BY <3>2, <4>1 DEF SInv, SessionInv, Present
    <3> QED BY <3>1, <3>2
  <2>7. ~IsCommitted(j)'
    BY <1>4, <1>6 DEF IsCommitted
  <2> QED BY <2>1, <2>2, <2>3, <2>4, <2>5, <2>6, <2>7 DEF SessionInv
<1>11. \A k \in Jobs \ {j} : Disjoint(record.writes, job[k].writes)
  BY <1>4 DEF SInv
<1>12. /\ \A k \in Jobs \ {j} : SameIdSameDay(Held(j)', Held(k)) /\ SameIdSameDay(Held(k), Held(j)')
       /\ SameIdSameDay(Held(j)', Held(j)')
  BY <1>7, <1>8, <1>9 DEF SameIdSameDay
<1> QED BY <1>3, <1>4, <1>10, <1>11, <1>12, SessionStep DEF Signals

\* Facts about the sent row: the one assigned, or the update of the one in sight.
Sendable(j, change, sent) ==
    LET new == change.row
    IN  /\ new \in Rows /\ new \in Held(j) /\ job[j].pending = {change}
        /\ sent \in Rows /\ sent.id = new.id /\ SameDayRows(sent, new)
        /\ \A k \in Authors(sent) : k = j \/ IsCommitted(k)
        /\ \A k \in Jobs \ {j} : \A w \in job[k].writes : w.id # new.id
        /\ \/ sent.value = new.value /\ sent.by.value = new.by.value
           \/ /\ "value" \notin change.columns
              /\ \E old \in View(j) : /\ old.id = sent.id /\ SameDayRows(old, sent)
                                      /\ sent.value = old.value /\ sent.by.value = old.by.value

LEMMA SentRow ==
    ASSUME SInv, NEW j \in Jobs, job[j].phase = "writing", NEW change, NEW sent, Sends(j, change, sent)
    PROVE  Sendable(j, change, sent)
<1> DEFINE new == change.row
<1>1. change \in job[j].pending /\ \A a, b \in job[j].pending : a = b
  BY DEF SInv, SessionInv, LastAssigned, Sends
<1>2. job[j].pending = {change} /\ new \in Held(j)
  BY <1>1 DEF Held, Unsent
<1>3. new \in Rows
  BY <1>2, HeldRows DEF SInv
<1>4. \A k \in Authors(new) : k = j \/ IsCommitted(k)
  BY <1>2 DEF SInv, SessionInv, Owned
<1> HIDE DEF new
<1>5. CASE (\A row \in View(j) : row.id # new.id) /\ sent = new
  <2>1. ASSUME NEW k \in Jobs \ {j}, NEW w \in job[k].writes PROVE w.id # new.id
    <3>1. ~IsCommitted(j)
      BY DEF IsCommitted
    <3>2. w.id[1] = k \/ IsCommitted(w.id[1])
      BY DEF SInv, SessionInv, Owned, Held, Authors
    <3>3. new.id[1] = j
      <4>1. new \in Unsent(j) /\ LastAssigned(j)
        BY <1>2 DEF SInv, SessionInv, Unsent, new
      <4> QED BY <1>5, <4>1 DEF LastAssigned
    <3> QED BY <3>1, <3>2, <3>3
  <2> QED BY <1>2, <1>3, <1>4, <1>5, <2>1 DEF SameDayRows, Sendable, new
<1>6. ASSUME ~Locked(j, new.id), NEW old \in View(j), old.id = new.id,
             sent = Update(old, new, change.columns)
      PROVE  /\ sent \in Rows /\ sent.id = new.id /\ SameDayRows(sent, new)
             /\ \A k \in Authors(sent) : k = j \/ IsCommitted(k)
             /\ \A k \in Jobs \ {j} : \A w \in job[k].writes : w.id # new.id
             /\ \/ sent.value = new.value /\ sent.by.value = new.by.value
                \/ /\ "value" \notin change.columns
                   /\ \E row \in View(j) : /\ row.id = sent.id /\ SameDayRows(row, sent)
                                           /\ sent.value = row.value /\ sent.by.value = row.by.value
  <2>1. old \in rows \/ old \in Held(j)
    BY <1>6, ViewMembers
  <2>2. old \in Rows
    BY <2>1, HeldRows DEF SInv, TypeOK
  <2>3. SameDayRows(new, old)
    BY <1>2, <1>6, <2>1 DEF SInv, SessionInv, SameIdSameDay
  <2>4. \A k \in Authors(old) : k = j \/ IsCommitted(k)
    BY <2>1 DEF SInv, TableInv, SessionInv, Owned
  <2>5. /\ sent \in Rows /\ sent.id = old.id /\ sent.key = old.key /\ sent.at \in {old.at, new.at}
        /\ Authors(sent) \subseteq Authors(old) \cup Authors(new)
        /\ IF "value" \in change.columns
           THEN sent.value = new.value /\ sent.by.value = new.by.value
           ELSE sent.value = old.value /\ sent.by.value = old.by.value
    BY <1>3, <1>6, <2>2, UpdateIs
  <2>6. SameDayRows(sent, new) /\ SameDayRows(old, sent)
    BY <2>3, <2>5 DEF SameDayRows
  <2>7. \A k \in Jobs \ {j} : \A w \in job[k].writes : w.id # new.id
    BY <1>6 DEF Locked
  <2> QED BY <1>4, <1>6, <2>4, <2>5, <2>6, <2>7
<1> QED BY <1>2, <1>3, <1>5, <1>6 DEF Sends, Sendable, new

LEMMA FlushKeeps ==
    ASSUME SInv, NEW j \in Jobs, job[j].phase = "writing", NEW change, NEW sent,
           Sends(j, change, sent), UNCHANGED <<rows, history, overlap>>
    PROVE  SInv' /\ View(j)' = Merge(View(j), {sent})
<1> DEFINE new == change.row
           writes == Merge(job[j].writes, {sent})
           record == [job[j] EXCEPT !.pending = {}, !.writes = writes]
<1>1. job[j] \in JobRecords /\ new \in Held(j) /\ sent.id = new.id /\ SameDayRows(sent, new)
  BY SentRow DEF SInv, TypeOK, Sendable
<1>2. /\ sent \in Rows /\ Unsent(j) = {new}
      /\ \A k \in Authors(sent) : k = j \/ IsCommitted(k)
      /\ \A k \in Jobs \ {j} : \A w \in job[k].writes : w.id # new.id
  BY SentRow DEF Sendable, Unsent
<1>3. /\ job' = [job EXCEPT ![j] = record] /\ record \in JobRecords
      /\ \A w \in writes : w = sent \/ (w \in job[j].writes /\ w.id # sent.id)
      /\ sent \in writes /\ \A w \in job[j].writes : w.id = sent.id \/ w \in writes
  <2>1. \A w \in writes : w = sent \/ (w \in job[j].writes /\ w.id # sent.id)
    BY DEF Merge
  <2>2. sent \in writes /\ \A w \in job[j].writes : w.id = sent.id \/ w \in writes
    BY DEF Merge
  <2>3. job' = [job EXCEPT ![j] = record]
    BY <1>1 DEF Sends, JobRecords, SInv, TypeOK
  <2>4. writes \in SUBSET Rows
    BY <1>1, <1>2, <2>1 DEF JobRecords
  <2> HIDE DEF writes
  <2>5. record \in JobRecords
    BY <1>1, <2>4 DEF JobRecords
  <2> QED BY <2>1, <2>2, <2>3, <2>5
<1>4. /\ record.phase = "writing" /\ record.next = job[j].next /\ record.pending = {}
      /\ record.writes = writes /\ record.signals = job[j].signals /\ record.began = job[j].began
  BY <1>1 DEF JobRecords
<1> HIDE DEF record
<1>5. /\ job'[j] = record /\ \A k \in Jobs \ {j} : job'[k] = job[k]
      /\ \A k \in Jobs : IsCommitted(k)' <=> IsCommitted(k)
  BY <1>3, <1>4 DEF SInv, TypeOK, IsCommitted
<1>6. /\ Signals(j)' = Signals(j) /\ Upserted(j)' = Upserted(j)
      /\ Held(j)' = writes /\ Unsent(j)' = {}
  BY <1>4, <1>5 DEF Signals, Upserted, Held, Unsent
<1>7. View(j)' = Merge(View(j), {sent})
  BY <1>4, <1>5, MergeTwice DEF View
<1> HIDE DEF writes, new
<1>8. ASSUME NEW row, SameDayRows(row, new) PROVE SameDayRows(row, sent) /\ SameDayRows(sent, row)
  BY <1>1, <1>8 DEF SameDayRows
<1>9. /\ \A row \in rows : row.id = sent.id => SameDayRows(row, sent)
      /\ \A k \in Jobs : \A w \in Held(k) : w.id = sent.id => SameDayRows(w, sent)
  <2>1. \A row \in rows : row.id = sent.id => SameDayRows(row, new)
    <3>1. \A row \in rows : row.id = new.id => SameDayRows(new, row)
      BY <1>1 DEF SInv, SessionInv, SameIdSameDay
    <3> QED BY <1>1, <3>1 DEF SameDayRows
  <2>2. \A k \in Jobs : \A w \in Held(k) : w.id = sent.id => SameDayRows(w, new)
    BY <1>1 DEF SInv, SameIdSameDay
  <2> QED BY <1>8, <2>1, <2>2
<1>10. \A w \in writes : w = sent \/ w \in Held(j)
  BY <1>3 DEF Held
<1>11. \A k \in Jobs : SameIdSameDay(writes, Held(k)) /\ SameIdSameDay(Held(k), writes)
  <2> SUFFICES ASSUME NEW k \in Jobs, NEW a \in writes, NEW b \in Held(k), a.id = b.id
               PROVE  SameDayRows(a, b) /\ SameDayRows(b, a)
    BY DEF SameIdSameDay
  <2>1. CASE a = sent
    BY <1>9, <2>1 DEF SameDayRows
  <2>2. CASE a \in Held(j)
    BY <2>2 DEF SInv, SameIdSameDay
  <2> QED BY <1>10, <2>1, <2>2
<1>12. SameIdSameDay(writes, writes)
  BY <1>9, <1>10, <1>11 DEF SameIdSameDay, SameDayRows
<1>13. SessionInv(j)'
  <2>1. Positioned(j)'
    <3>1. /\ job[j].began <= Len(history) /\ Len(history') = Len(history)
          /\ job[j].next <= Len(Signals(j)) + 1
      BY DEF SInv, SessionInv, Positioned
    <3> QED BY <1>4, <1>5, <1>6, <3>1 DEF Positioned, IsCommitted
  <2>2. Owned(j)'
    <3> SUFFICES ASSUME NEW w \in writes
                 PROVE  /\ \A k \in Authors(w) : k = j \/ IsCommitted(k)'
                        /\ w.id[1] = j => w.id[2] < job[j].next
      BY <1>4, <1>5, <1>6 DEF Owned
    <3>1. \A row \in Rows : Authors(row) \subseteq Jobs
      BY AuthorsAreJobs
    <3>2. CASE w = sent
      <4>1. new.id[1] = j => new.id[2] < job[j].next
        BY <1>1 DEF SInv, SessionInv, Owned
      <4> QED BY <1>1, <1>2, <1>5, <3>1, <3>2, <4>1
    <3>3. CASE w \in Held(j)
      <4>1. (\A k \in Authors(w) : k = j \/ IsCommitted(k)) /\ (w.id[1] = j => w.id[2] < job[j].next)
        BY <3>3 DEF SInv, SessionInv, Owned
      <4>2. w \in Rows
        BY <3>3, HeldRows DEF SInv
      <4> QED BY <1>5, <3>1, <4>1, <4>2
    <3> QED BY <1>10, <3>2, <3>3
  <2>3. LastAssigned(j)'
    BY <1>4, <1>5, <1>6 DEF LastAssigned
  <2>4. UniqueIds(job[j].writes)'
    <3>1. UniqueIds(job[j].writes)
      BY DEF SInv, SessionInv
    <3> QED BY <1>3, <1>4, <1>5, <3>1 DEF UniqueIds
  <2>5. SameIdSameDay(Held(j), rows)'
    <3>1. \A a \in Held(j), b \in rows : a.id = b.id => SameDayRows(a, b)
      BY DEF SInv, SessionInv, SameIdSameDay
    <3>2. \A a \in writes, b \in rows : a.id = b.id => SameDayRows(a, b)
      BY <1>9, <1>10, <3>1 DEF SameDayRows
    <3> QED BY <1>6, <3>2 DEF SameIdSameDay
  <2>6. Present(j, View(j) \cup Unsent(j))'
    <3> SUFFICES ASSUME NEW i \in Upserted(j)
                 PROVE  \E row \in Merge(View(j), {sent}) : SameDay(row, Signals(j)[i])
      BY <1>6, <1>7 DEF Present
    <3>1. PICK row \in View(j) \cup {new} : SameDay(row, Signals(j)[i])
      BY <1>2 DEF SInv, SessionInv, Present
    <3>2. CASE row.id # sent.id
      BY <1>1, <3>1, <3>2 DEF Merge
    <3>3. CASE row.id = sent.id
      <4>1. SameDayRows(row, sent)
        BY <1>1, <1>9, <3>1, <3>3, ViewMembers
      <4>2. SameDay(sent, Signals(j)[i])
        BY <3>1, <4>1 DEF SameDay, SameDayRows
      <4> QED BY <4>2 DEF Merge
    <3> QED BY <3>2, <3>3
  <2>7. ~IsCommitted(j)'
    BY <1>4, <1>5 DEF IsCommitted
  <2> QED BY <2>1, <2>2, <2>3, <2>4, <2>5, <2>6, <2>7 DEF SessionInv
<1>14. \A k \in Jobs \ {j} : Disjoint(record.writes, job[k].writes)
  <2> SUFFICES ASSUME NEW k \in Jobs \ {j} PROVE Disjoint(writes, job[k].writes)
    BY <1>4
  <2>1. Disjoint(job[j].writes, job[k].writes)
    BY DEF SInv
  <2> QED BY <1>1, <1>2, <1>3, <2>1 DEF Disjoint
<1>15. SInv'
  BY <1>3, <1>4, <1>6, <1>11, <1>12, <1>13, <1>14, SessionStep
<1> QED BY <1>7, <1>15

(****************************************************************************)
(* The commit, and the other steps.                                         *)
(****************************************************************************)
Commits(j) ==
    /\ job'[j] = [job[j] EXCEPT !.phase = "committed", !.writes = {}]
    /\ \A k \in Jobs \ {j} : job'[k] = job[k] /\ Held(k)' = Held(k) /\ Unsent(k)' = Unsent(k)
    /\ Held(j)' = {} /\ Unsent(j) = {} /\ Unsent(j)' = {} /\ Held(j) = job[j].writes
    /\ job' \in [Jobs -> JobRecords]
    /\ history' = Append(history, j) /\ history' \in Seq(Jobs)
    /\ \A k \in Jobs : IsCommitted(k)' <=> IsCommitted(k) \/ k = j
    /\ \A k \in Jobs : /\ Signals(k)' = Signals(k) /\ Upserted(k)' = Upserted(k)
                       /\ job'[k].began = job[k].began
    /\ ~IsCommitted(j) /\ Upserted(j) = DOMAIN Signals(j)
    /\ DOMAIN Signals(j) = 1..Len(Signals(j)) /\ Len(Signals(j)) \in Nat

LEMMA CommitEffect == ASSUME SInv, NEW j \in Jobs, Commit(j) PROVE Commits(j)
<1>1. job \in [Jobs -> JobRecords] /\ job[j].phase = "writing" /\ history \in Seq(Jobs)
  BY DEF SInv, TypeOK, Commit
<1> DEFINE record == [job[j] EXCEPT !.phase = "committed", !.writes = {}]
<1>2. record \in JobRecords
  BY <1>1 DEF JobRecords, Phases
<1>3. job'[j] = record /\ \A k \in Jobs \ {j} : job'[k] = job[k]
  BY <1>1 DEF Commit, JobRecords
<1>4. job' = [job EXCEPT ![j] = record]
  BY <1>1 DEF Commit, JobRecords
<1>5. /\ record.phase = "committed" /\ record.signals = job[j].signals /\ record.writes = {}
      /\ record.next = job[j].next /\ record.began = job[j].began
      /\ record.pending = {} /\ job[j].pending = {}
  BY <1>1 DEF JobRecords, Commit
<1> HIDE DEF record
<1>6. job' \in [Jobs -> JobRecords]
  BY <1>1, <1>2, <1>4
<1>7. \A k \in Jobs : IsCommitted(k)' <=> IsCommitted(k) \/ k = j
  BY <1>3, <1>5 DEF IsCommitted
<1>8. \A k \in Jobs : /\ Signals(k)' = Signals(k) /\ Upserted(k)' = Upserted(k)
                      /\ job'[k].began = job[k].began
  BY <1>3, <1>5 DEF Signals, Upserted
<1>9. DOMAIN Signals(j) = 1..Len(Signals(j)) /\ Len(Signals(j)) \in Nat
  BY <1>1, EmittedSignals DEF JobRecords, Signals
<1>10. Upserted(j) = DOMAIN Signals(j)
  <2>1. job[j].next > Len(Signals(j)) /\ job[j].next \in Nat
    BY <1>1 DEF Commit, JobRecords
  <2> QED BY <1>9, <2>1 DEF Upserted
<1>11. history' = Append(history, j) /\ history' \in Seq(Jobs)
  BY <1>1, AppendProperties DEF Commit
<1>12. /\ \A k \in Jobs \ {j} : Held(k)' = Held(k) /\ Unsent(k)' = Unsent(k)
       /\ Held(j)' = {} /\ Unsent(j) = {} /\ Unsent(j)' = {} /\ Held(j) = job[j].writes
  BY <1>3, <1>5 DEF Held, Unsent
<1> QED BY <1>1, <1>3, <1>6, <1>7, <1>8, <1>9, <1>10, <1>11, <1>12
       DEF IsCommitted, Commits, record

\* The history with its new last element.
LEMMA HistoryGrows ==
    ASSUME SInv, NEW j \in Jobs, Commit(j)
    PROVE  /\ Len(history) \in Nat /\ Len(history') = Len(history) + 1
           /\ DOMAIN history = 1..Len(history) /\ DOMAIN history' = 1..(Len(history) + 1)
           /\ history'[Len(history) + 1] = j
           /\ \A m \in 1..Len(history) : /\ history'[m] = history[m] /\ history[m] \in Jobs
                                         /\ IsCommitted(history[m])
<1>1. history \in Seq(Jobs) /\ history' = Append(history, j) /\ history' \in Seq(Jobs)
  <2>1. Commits(j)
    BY CommitEffect
  <2> QED BY <2>1 DEF SInv, TypeOK, Commits
<1> QED BY <1>1, HistoryOf, LenProperties, AppendProperties, ElementOfSeq

\* What becomes of the rows at the commit of job j.
LEMMA CommittedRows ==
    ASSUME SInv, NEW j \in Jobs, Commit(j)
    PROVE  /\ rows' = View(j)
           /\ \A row \in rows' : row \in job[j].writes \/ (row \in rows /\ \A w \in job[j].writes : w.id # row.id)
           /\ \A w \in job[j].writes : w \in rows'
           /\ \A row \in rows : row \in rows' \/ \E w \in job[j].writes : w.id = row.id /\ SameDayRows(w, row)
<1>1. rows' = Merge(rows, job[j].writes)
  BY DEF Commit
<1>2. SameIdSameDay(job[j].writes, rows)
  BY DEF SInv, SessionInv, SameIdSameDay, Held
<1>3. \A row \in rows : row \in rows' \/ \E w \in job[j].writes : w.id = row.id
  BY <1>1 DEF Merge
<1>4. \A row \in rows : row \in rows' \/ \E w \in job[j].writes : w.id = row.id /\ SameDayRows(w, row)
  BY <1>2, <1>3 DEF SameIdSameDay
<1>5. /\ \A row \in rows' : row \in job[j].writes \/ (row \in rows /\ \A w \in job[j].writes : w.id # row.id)
      /\ \A w \in job[j].writes : w \in rows'
  BY <1>1 DEF Merge
<1> QED BY <1>1, <1>4, <1>5 DEF View

\* What another session sees of them.
LEMMA ViewAfterCommit ==
    ASSUME SInv, NEW j \in Jobs, Commit(j), NEW k \in Jobs \ {j}
    PROVE  /\ \A row \in View(k) : \E new \in View(k)' : new.id = row.id /\ SameDayRows(new, row)
           /\ \A row \in View(k)' :
                 row \in View(k) \/ (row \in job[j].writes /\ \A w \in job[k].writes : w.id # row.id)
<1>1. job'[k].writes = job[k].writes /\ Disjoint(job[j].writes, job[k].writes)
  <2>1. Commits(j)
    BY CommitEffect
  <2> QED BY <2>1 DEF SInv, Commits
<1>2. View(k)' = {row \in rows' : \A w \in job[k].writes : w.id # row.id} \cup job[k].writes
  BY <1>1 DEF View, Merge
<1>3. View(k) = {row \in rows : \A w \in job[k].writes : w.id # row.id} \cup job[k].writes
  BY DEF View, Merge
<1>4. ASSUME NEW row \in View(k)
      PROVE  \E new \in View(k)' : new.id = row.id /\ SameDayRows(new, row)
  <2>1. CASE row \in job[k].writes \/ row \in rows'
    BY <1>2, <1>3, <1>4, <2>1 DEF SameDayRows
  <2>2. CASE row \in rows /\ row \notin rows' /\ row \notin job[k].writes
    <3>1. PICK w \in job[j].writes : w.id = row.id /\ SameDayRows(w, row)
      BY <2>2, CommittedRows
    <3>2. w \in View(k)'
      BY <1>1, <1>2, <3>1, CommittedRows DEF Disjoint
    <3> QED BY <3>1, <3>2
  <2> QED BY <1>3, <2>1, <2>2
<1>5. ASSUME NEW row \in View(k)'
      PROVE  row \in View(k) \/ (row \in job[j].writes /\ \A w \in job[k].writes : w.id # row.id)
  BY <1>2, <1>3, <1>5, CommittedRows
<1> QED BY <1>4, <1>5

LEMMA CommitKeeps ==
    ASSUME SInv, NEW j \in Jobs, Commit(j), UNCHANGED overlap PROVE SInv'
<1> DEFINE written == job[j].writes
<1>1. /\ job'[j] = [job[j] EXCEPT !.phase = "committed", !.writes = {}]
      /\ \A k \in Jobs \ {j} : job'[k] = job[k] /\ Held(k)' = Held(k) /\ Unsent(k)' = Unsent(k)
      /\ Held(j)' = {} /\ Unsent(j) = {} /\ Unsent(j)' = {} /\ Held(j) = written
      /\ job' \in [Jobs -> JobRecords]
      /\ history' \in Seq(Jobs)
      /\ \A k \in Jobs : IsCommitted(k)' <=> IsCommitted(k) \/ k = j
      /\ \A k \in Jobs : Signals(k)' = Signals(k) /\ Upserted(k)' = Upserted(k)
      /\ ~IsCommitted(j) /\ Len(Signals(j)) \in Nat
  <2>1. Commits(j)
    BY CommitEffect
  <2> QED BY <2>1 DEF Commits
<1>2. /\ rows' = Merge(rows, written) /\ job[j].phase = "writing"
      /\ job[j].next > Len(Signals(j)) /\ job[j].pending = {}
  BY DEF Commit
<1>3. /\ \A row \in rows' : row \in rows \/ row \in written
      /\ rows' = View(j)
      /\ \A row \in rows : row \in rows' \/ \E w \in written : w.id = row.id /\ SameDayRows(w, row)
      /\ \A w \in written : w \in rows'
  BY CommittedRows
<1>4. job[j] \in JobRecords /\ written \in SUBSET Rows /\ rows \in SUBSET Rows
  BY DEF SInv, TypeOK, JobRecords
<1>5. /\ job'[j].phase = "committed" /\ job'[j].writes = {} /\ job'[j].next = job[j].next
      /\ job'[j].pending = {} /\ job'[j].began = job[j].began
  BY <1>1, <1>2, <1>4 DEF JobRecords
<1>6. TypeOK'
  <2>1. rows' \in SUBSET Rows
    BY <1>3, <1>4
  <2> QED BY <1>1, <2>1 DEF SInv, TypeOK
<1>7. /\ Len(history) \in Nat /\ Len(history') = Len(history) + 1
      /\ DOMAIN history' = 1..(Len(history) + 1) /\ DOMAIN history = 1..Len(history)
      /\ history'[Len(history) + 1] = j
      /\ \A m \in 1..Len(history) : /\ history'[m] = history[m] /\ history[m] \in Jobs
                                    /\ IsCommitted(history[m])
  BY HistoryGrows
<1>8. TableInv'
  <2>1. ASSUME NEW row \in rows', NEW k \in Authors(row) PROVE IsCommitted(k)'
    <3>1. k \in Jobs
      BY <1>3, <1>4, AuthorsAreJobs
    <3>2. CASE row \in rows
      BY <1>1, <3>1, <3>2 DEF SInv, TableInv
    <3>3. CASE row \in written
      BY <1>1, <3>1, <3>3 DEF SInv, SessionInv, Owned
    <3> QED BY <1>3, <3>2, <3>3
  <2>2. UniqueIds(rows)'
    <3>1. UniqueIds(rows) /\ UniqueIds(written)
      BY DEF SInv, TableInv, SessionInv
    <3>2. UniqueIds(Merge(rows, written))
      BY <3>1, MergeUnique
    <3> QED BY <1>2, <3>2 DEF UniqueIds
  <2>3. ASSUME NEW n \in DOMAIN history' PROVE IsCommitted(history[n])'
    <3>1. CASE n = Len(history) + 1
      BY <1>5, <1>7, <3>1 DEF IsCommitted
    <3>2. CASE n \in 1..Len(history)
      <4>1. history'[n] = history[n] /\ history[n] \in Jobs /\ IsCommitted(history[n])
        BY <1>7, <3>2
      <4> QED BY <1>1, <4>1 DEF IsCommitted
    <3> QED BY <1>7, <3>1, <3>2
  <2>4. ASSUME NEW k \in Jobs, IsCommitted(k)' PROVE \E n \in DOMAIN history' : history'[n] = k
    <3>1. CASE k = j
      BY <1>7, <3>1
    <3>2. CASE IsCommitted(k)
      <4>1. PICK n \in DOMAIN history : history[n] = k
        BY <3>2 DEF SInv, TableInv
      <4> QED BY <1>7, <4>1
    <3> QED BY <1>1, <2>4, <3>1, <3>2
  <2> QED BY <2>1, <2>2, <2>3, <2>4 DEF TableInv
<1>9. SessionInv(j)'
  <2>1. Positioned(j)'
    <3>1. /\ job[j].next \in Nat /\ job[j].next <= Len(Signals(j)) + 1
          /\ job[j].began \in Nat /\ job[j].began <= Len(history)
      BY <1>4 DEF SInv, SessionInv, Positioned, JobRecords
    <3>2. job[j].next = Len(Signals(j)) + 1
      BY <1>1, <1>2, <3>1
    <3> QED BY <1>1, <1>5, <1>7, <3>1, <3>2 DEF Positioned
  <2>2. /\ Owned(j)' /\ LastAssigned(j)' /\ UniqueIds(job[j].writes)'
        /\ SameIdSameDay(Held(j), rows)'
    BY <1>1, <1>5 DEF Owned, LastAssigned, UniqueIds, SameIdSameDay
  <2>3. Present(j, rows)'
    <3>1. Present(j, View(j))
      BY <1>1, <1>2 DEF SInv, SessionInv
    <3> QED BY <1>1, <1>3, <3>1 DEF Present
  <2> QED BY <1>5, <2>1, <2>2, <2>3 DEF SessionInv
<1>10. ASSUME NEW k \in Jobs \ {j} PROVE SessionInv(k)'
  <2>1. /\ job'[k] = job[k] /\ (IsCommitted(k)' <=> IsCommitted(k)) /\ SessionInv(k)
        /\ Held(k)' = Held(k) /\ Unsent(k)' = Unsent(k) /\ job[k].began \in Nat
    BY <1>1 DEF SInv, TypeOK, JobRecords
  <2>2. /\ \A row \in View(k) : \E new \in View(k)' : new.id = row.id /\ SameDayRows(new, row)
    BY ViewAfterCommit
  <2>3. Positioned(k)' /\ UniqueIds(job[k].writes)'
    BY <1>7, <2>1 DEF SessionInv, Positioned, IsCommitted, Signals, UniqueIds
  <2>4. LastAssigned(k)'
    <3>1. \A new \in Unsent(k) : new.id[1] = k \/ \E row \in View(k)' : row.id = new.id
      BY <2>1, <2>2 DEF SessionInv, LastAssigned
    <3> QED BY <1>1, <2>1, <3>1 DEF SessionInv, LastAssigned
  <2>5. Owned(k)'
    <3>1. \A w \in Held(k) : \A l \in Authors(w) : l \in Jobs
      BY HeldRows, AuthorsAreJobs DEF SInv
    <3> QED BY <1>1, <2>1, <3>1 DEF SessionInv, Owned
  <2>6. SameIdSameDay(Held(k), rows)'
    <3>1. SameIdSameDay(Held(k), rows) /\ SameIdSameDay(Held(k), written)
      BY <1>1, <2>1 DEF SInv, SessionInv
    <3> QED BY <1>3, <2>1, <3>1 DEF SameIdSameDay
  <2>7. (job[k].phase = "writing" => Present(k, View(k) \cup Unsent(k)))'
    <3> SUFFICES ASSUME Present(k, View(k) \cup Unsent(k)), NEW i \in Upserted(k)
                 PROVE  \E row \in View(k)' \cup Unsent(k) : SameDay(row, Signals(k)[i])
      BY <1>1, <2>1 DEF SessionInv, Present
    <3>1. PICK row \in View(k) \cup Unsent(k) : SameDay(row, Signals(k)[i])
      BY DEF Present
    <3>2. CASE row \in View(k)
      <4>1. PICK new \in View(k)' : SameDayRows(new, row)
        BY <2>2, <3>2
      <4> QED BY <3>1, <4>1 DEF SameDay, SameDayRows
    <3> QED BY <3>1, <3>2
  <2>8. (IsCommitted(k) => Present(k, rows))'
    <3> SUFFICES ASSUME Present(k, rows), NEW i \in Upserted(k)
                 PROVE  \E row \in rows' : SameDay(row, Signals(k)[i])
      BY <1>1, <2>1 DEF SessionInv, Present
    <3>1. PICK row \in rows : SameDay(row, Signals(k)[i])
      BY DEF Present
    <3>2. ASSUME NEW w \in written, SameDayRows(w, row) PROVE \E x \in rows' : SameDay(x, Signals(k)[i])
      BY <1>3, <3>1, <3>2 DEF SameDay, SameDayRows
    <3> QED BY <1>3, <3>1, <3>2
  <2> QED BY <2>3, <2>4, <2>5, <2>6, <2>7, <2>8 DEF SessionInv
<1>11. ASSUME NEW k \in Jobs, NEW l \in Jobs
       PROVE  /\ SameIdSameDay(Held(k), Held(l))'
              /\ (k # l => Disjoint(job[k].writes, job[l].writes))'
  <2>1. Held(j)' = {} /\ job'[j].writes = {}
    BY <1>1, <1>5
  <2>2. \A m \in Jobs \ {j} : Held(m)' = Held(m) /\ job'[m].writes = job[m].writes
    BY <1>1
  <2>3. CASE k = j \/ l = j
    BY <2>1, <2>3 DEF SameIdSameDay, Disjoint
  <2>4. CASE k # j /\ l # j
    <3>1. SameIdSameDay(Held(k), Held(l)) /\ (k # l => Disjoint(job[k].writes, job[l].writes))
      BY DEF SInv
    <3> QED BY <2>2, <2>4, <3>1 DEF SameIdSameDay, Disjoint
  <2> QED BY <2>3, <2>4
<1> QED BY <1>6, <1>8, <1>9, <1>10, <1>11 DEF SInv

LEMMA AbortKeeps ==
    ASSUME SInv, NEW j \in Jobs, job[j].phase = "writing", Abort(j),
           UNCHANGED <<rows, history, overlap>>
    PROVE  SInv'
<1> DEFINE record == [job[j] EXCEPT !.phase = "aborted", !.writes = {}, !.pending = {}]
<1>1. job \in [Jobs -> JobRecords] /\ job[j] \in JobRecords /\ overlap \in BOOLEAN
  BY DEF SInv, TypeOK
<1>2. job' = [job EXCEPT ![j] = record]
  BY <1>1 DEF Abort, JobRecords
<1>3. /\ record \in JobRecords /\ record.phase = "aborted" /\ record.writes = {}
      /\ record.pending = {} /\ record.began = job[j].began
      /\ record.signals = job[j].signals /\ record.next = job[j].next
  BY <1>1 DEF JobRecords, Phases
<1>4. record.next <= Len(record.signals) + 1 /\ record.began <= Len(history)
  BY <1>3 DEF SInv, SessionInv, Positioned, Signals
<1>5. ~IsCommitted(j)
  BY DEF IsCommitted
<1> HIDE DEF record
<1> QED BY <1>1, <1>2, <1>3, <1>4, <1>5, QuietKeeps

LEMMA FetchKeeps ==
    ASSUME SInv, NEW j \in Jobs, Fetch(j) PROVE SInv'
<1>1. PICK name \in Schedule[j] :
        /\ HasProvider(Requests[name])
        /\ job' = [job EXCEPT ![j] = NewJob("writing", name, FetchSignals(Requests[name]))]
  BY DEF Fetch
<1> DEFINE record == NewJob("writing", name, FetchSignals(Requests[name]))
<1>2. name \in DOMAIN Requests
  BY ScheduleAssumption
<1>3. FetchSignals(Requests[name]) \in Emitted
  BY <1>1, <1>2 DEF Emitted, Fetched
<1>4. /\ record.signals = FetchSignals(Requests[name]) /\ record.next = 1
      /\ record.phase = "writing" /\ record.writes = {} /\ record.pending = {}
      /\ record.began = Len(history)
  BY DEF NewJob
<1>5. record \in JobRecords /\ Len(history) \in Nat
  BY <1>2, <1>3, HistoryOf DEF JobRecords, Phases, NewJob
<1>6. record.next <= Len(record.signals) + 1 /\ record.began <= Len(history)
  BY <1>3, <1>4, <1>5, EmittedSignals
<1>7. overlap' \in BOOLEAN /\ UNCHANGED <<rows, history>> /\ ~IsCommitted(j)
  BY DEF Fetch, IsCommitted, SInv, TypeOK
<1>8. job' = [job EXCEPT ![j] = record]
  BY <1>1
<1> HIDE DEF record
<1> QED BY <1>4, <1>5, <1>6, <1>7, <1>8, QuietKeeps

LEMMA EndKeeps ==
    ASSUME SInv, NEW j \in Jobs, FetchFails(j) \/ (Finish(j) /\ UNCHANGED overlap) PROVE SInv'
<1>1. job \in [Jobs -> JobRecords] /\ job[j] \in JobRecords /\ overlap \in BOOLEAN
  BY DEF SInv, TypeOK
<1>2. PICK phase \in {"aborted", "done"} :
        /\ job' = [job EXCEPT ![j].phase = phase]
        /\ IF phase = "aborted" THEN job[j].phase = "idle" ELSE job[j].phase = "committed"
  BY DEF FetchFails, Finish
<1> DEFINE record == [job[j] EXCEPT !.phase = phase]
<1>3. job' = [job EXCEPT ![j] = record]
  BY <1>1, <1>2 DEF JobRecords
<1>4. /\ record \in JobRecords /\ record.phase = phase /\ record.writes = job[j].writes
      /\ record.pending = job[j].pending /\ record.began = job[j].began
      /\ record.signals = job[j].signals /\ record.next = job[j].next
  BY <1>1 DEF JobRecords, Phases
<1>5. /\ record.writes = {} /\ record.pending = {} /\ record.next <= Len(record.signals) + 1
      /\ record.began <= Len(history)
  BY <1>2, <1>4 DEF SInv, SessionInv, Positioned, Signals
<1>6. IsCommitted(j) <=> phase = "done"
  BY <1>2 DEF IsCommitted
<1>7. UNCHANGED <<rows, history, overlap>>
  BY DEF FetchFails, Finish
<1> HIDE DEF record
<1> QED BY <1>1, <1>3, <1>4, <1>5, <1>6, <1>7, QuietKeeps

\* The steps, by what they do to a session.
LEMMA Steps ==
    ASSUME SInv, [Next]_vars
    PROVE  \/ UNCHANGED vars
           \/ \E j \in Jobs :
                 \/ Fetch(j) \/ FetchFails(j) \/ (Finish(j) /\ UNCHANGED overlap)
                 \/ Commit(j) /\ UNCHANGED overlap
                 \/ /\ job[j].phase = "writing" /\ UNCHANGED <<rows, history, overlap>>
                    /\ \/ Abort(j)
                       \/ \E change, sent : Sends(j, change, sent)
                       \/ /\ job[j].next <= Len(Signals(j))
                          /\ \E new, columns : Assigns(j, Signals(j)[job[j].next], new, columns)
<1>1. ASSUME NEW j \in Jobs, UpsertSignal(j)
      PROVE  /\ job[j].phase = "writing" /\ job[j].next <= Len(Signals(j))
             /\ UNCHANGED <<rows, history>>
             /\ (\E new, columns : Assigns(j, Signals(j)[job[j].next], new, columns)) \/ Abort(j)
  BY <1>1, UpsertAssigns DEF UpsertSignal
<1>2. ASSUME NEW j \in Jobs, Flush(j)
      PROVE  /\ job[j].phase = "writing" /\ UNCHANGED <<rows, history>>
             /\ \E change, sent : Sends(j, change, sent)
  BY <1>2, FlushSends DEF Flush
<1> QED BY <1>1, <1>2 DEF Next, Fail

LEMMA NextSInv == SInv /\ [Next]_vars => SInv'
<1> SUFFICES ASSUME SInv, [Next]_vars PROVE SInv'
  OBVIOUS
<1>1. CASE UNCHANGED vars
  <2>1. job' = job /\ rows' = rows /\ history' = history /\ overlap' = overlap
    BY <1>1 DEF vars
  <2>2. /\ \A k \in Jobs : IsCommitted(k)' <=> IsCommitted(k)
        /\ \A k \in Jobs : Held(k)' = Held(k)
    BY <2>1 DEF IsCommitted, Held, Unsent
  <2>3. TypeOK' /\ TableInv'
    BY <2>1, <2>2, TableFrame DEF SInv, TypeOK
  <2>4. \A k \in Jobs : SessionInv(k)'
    BY <2>1, <2>2, SessionFrame, HistoryOf DEF SInv, Settled
  <2>5. /\ (\A j, k \in Jobs : SameIdSameDay(Held(j), Held(k)))'
        /\ (\A j, k \in Jobs : j # k => Disjoint(job[j].writes, job[k].writes))'
    BY <2>1, <2>2 DEF SInv, SameIdSameDay, Disjoint
  <2> QED BY <2>3, <2>4, <2>5 DEF SInv
<1> QED BY <1>1, Steps, FetchKeeps, EndKeeps, CommitKeeps, AbortKeeps, AssignKeeps, FlushKeeps

LEMMA InitSInv == Init => SInv
<1> SUFFICES ASSUME Init PROVE SInv
  OBVIOUS
<1> USE DEF Init
<1>1. Len(history) = 0
  BY EmptySeq
<1>2. \A j \in Jobs : /\ job[j] = [phase |-> "idle", request |-> Absent, next |-> 1,
                                   signals |-> <<>>, pending |-> {}, writes |-> {}, began |-> 0]
                      /\ Held(j) = {} /\ Unsent(j) = {} /\ ~IsCommitted(j)
  BY <1>1 DEF NewJob, Held, Unsent, IsCommitted
<1>3. TypeOK
  <2>1. \A j \in Jobs : job[j] \in JobRecords
    BY <1>2 DEF JobRecords, Phases, Emitted
  <2> QED BY <2>1, EmptySeq DEF TypeOK
<1>4. TableInv
  BY <1>2, EmptySeq DEF TableInv, UniqueIds
<1>5. ASSUME NEW j \in Jobs PROVE SessionInv(j)
  <2>1. Len(Signals(j)) = 0 /\ job[j].next = 1 /\ job[j].began = 0 /\ Upserted(j) = {}
    BY <1>2, EmptySeq DEF Signals, Upserted
  <2> QED BY <1>1, <1>2, <2>1
          DEF SessionInv, Positioned, Owned, LastAssigned, UniqueIds, SameIdSameDay, Present
<1>6. \A j, k \in Jobs : /\ SameIdSameDay(Held(j), Held(k))
                         /\ Disjoint(job[j].writes, job[k].writes)
  BY <1>2 DEF SameIdSameDay, Disjoint
<1> QED BY <1>3, <1>4, <1>5, <1>6 DEF SInv

\* Every reachable state has SInv: a session under way sees or is about to send,
\* for each signal it has upserted (upsert_signal), a row of that signal's key and
\* day; a committed job's rows are in market_signals; no column of a row is of a
\* job that has not committed; ids are unique, and no two sessions hold a row.
THEOREM SessionInvariance == Spec => []SInv
BY InitSInv, NextSInv, PTL DEF Spec

\* For any jobs, requests and answers, a job of fetch_external_signals or
\* backfill_market_signals that has not committed has inserted no row and set no
\* column of one, and one that has left a row for every signal it emitted, under
\* any overlap.
THEOREM JobIsAtomicHolds == Spec => []JobIsAtomic
<1>1. SInv => JobIsAtomic
  <2> SUFFICES ASSUME SInv, NEW j \in Jobs
               PROVE  IF job[j].phase \in {"committed", "done"}
                      THEN \A i \in DOMAIN Signals(j) : \E row \in rows : SameDay(row, Signals(j)[i])
                      ELSE \A row \in rows : j \notin {row.id[1], row.by.value[1], row.by.at[1]}
    BY DEF JobIsAtomic
  <2>1. CASE IsCommitted(j)
    <3>1. job[j].next = Len(Signals(j)) + 1 /\ Present(j, rows)
      BY <2>1 DEF SInv, SessionInv, Positioned
    <3>2. DOMAIN Signals(j) = 1..Len(Signals(j)) /\ Len(Signals(j)) \in Nat
      BY EmittedSignals DEF SInv, TypeOK, JobRecords, Signals
    <3>3. Upserted(j) = DOMAIN Signals(j)
      BY <3>1, <3>2 DEF Upserted
    <3> QED BY <2>1, <3>1, <3>3 DEF Present, IsCommitted
  <2>2. CASE ~IsCommitted(j)
    BY <2>2 DEF SInv, TableInv, IsCommitted, Authors
  <2> QED BY <2>1, <2>2
<1> QED BY <1>1, SessionInvariance, PTL

\* A session without changes sees the table.
LEMMA EmptyView ==
    ASSUME NEW k \in Jobs, job[k].writes = {} PROVE View(k) = rows
BY DEF View, Merge

\* Each step keeps the days of a lone job apart.
Lone ==
    /\ \A j, k \in Jobs : job[j].phase = "writing" /\ job[k].phase = "writing" => j = k
    /\ DayUnique(rows)
    /\ \A j \in Jobs : DayUnique(View(j))
    /\ \A j \in Jobs : \A row \in View(j), new \in Unsent(j) : SameDayRows(row, new) => row.id = new.id

LEMMA NextAlone == SInv /\ SInv' /\ Alone /\ [Next]_vars => Alone'
<1> SUFFICES ASSUME SInv, SInv', Alone, [Next]_vars, ~overlap' PROVE Lone'
  BY DEF Alone, Lone, DayUnique
<1>1. job \in [Jobs -> JobRecords] /\ job' \in [Jobs -> JobRecords]
  BY DEF SInv, TypeOK
<1>2. \A k \in Jobs : job'[k].writes = {} => View(k)' = rows'
  BY DEF View, Merge
<1>3. \A k \in Jobs : job'[k].phase # "writing" => job'[k].writes = {} /\ job'[k].pending = {}
  BY DEF SInv, SessionInv, Positioned
<1>4. ~overlap
  BY Zenon, Steps DEF vars, Fetch, FetchFails
<1>5. Lone
  BY <1>4 DEF Alone, Lone
<1>6. CASE UNCHANGED vars
  BY <1>5, <1>6 DEF vars, View, Lone, Unsent
<1>7. ASSUME NEW j \in Jobs, UNCHANGED rows, \A k \in Jobs \ {j} : job'[k] = job[k],
             job'[j].writes = {}, job'[j].pending = {},
             job'[j].phase = "writing" => \A k \in Jobs : job[k].phase # "writing"
      PROVE  Lone'
  <2>1. \A k \in Jobs \ {j} : View(k)' = View(k) /\ Unsent(k)' = Unsent(k)
    BY <1>7 DEF View, Unsent
  <2>2. View(j)' = rows /\ Unsent(j)' = {}
    BY <1>2, <1>7 DEF Unsent
  <2> QED BY <1>5, <1>7, <2>1, <2>2 DEF Lone, DayUnique
<1>8. ASSUME NEW j \in Jobs, Fetch(j) PROVE Lone'
  <2>1. overlap' = (overlap \/ \E k \in Jobs : job[k].phase = "writing")
    BY <1>8 DEF Fetch
  <2>2. \A k \in Jobs : job[k].phase # "writing"
    BY Zenon, <2>1
  <2>3. PICK name \in Schedule[j] :
          job' = [job EXCEPT ![j] = NewJob("writing", name, FetchSignals(Requests[name]))]
    BY <1>8 DEF Fetch
  <2>4. /\ UNCHANGED rows /\ \A k \in Jobs \ {j} : job'[k] = job[k]
        /\ job'[j].writes = {} /\ job'[j].pending = {}
    BY <1>1, <1>8, <2>3 DEF Fetch, NewJob
  <2> QED BY <1>7, <2>2, <2>4
<1>9. ASSUME NEW j \in Jobs, \/ FetchFails(j) \/ Finish(j)
                             \/ Abort(j) /\ UNCHANGED <<rows, history, overlap>>
      PROVE  Lone'
  <2>1. /\ UNCHANGED rows /\ \A k \in Jobs \ {j} : job'[k] = job[k]
        /\ job'[j].phase \in {"aborted", "done"}
    BY <1>1, <1>9 DEF FetchFails, Finish, Abort, JobRecords
  <2> QED BY <1>3, <1>7, <2>1
<1>10. ASSUME NEW j \in Jobs, Commit(j) PROVE Lone'
  <2>1. Commits(j) /\ rows' = View(j)
    BY <1>10, CommitEffect, CommittedRows
  <2>2. /\ job[j].phase = "writing" /\ \A k \in Jobs \ {j} : job'[k] = job[k]
        /\ job'[j].phase = "committed"
    BY <1>1, <1>10, <2>1 DEF Commit, Commits, JobRecords
  <2>3. \A k \in Jobs : job'[k].phase # "writing"
    BY <1>5, <2>2 DEF Lone
  <2>4. \A k \in Jobs : View(k)' = rows' /\ Unsent(k)' = {}
    BY <1>2, <1>3, <2>3 DEF Unsent
  <2> QED BY <1>5, <2>1, <2>3, <2>4 DEF Lone, DayUnique
<1>11. ASSUME NEW j \in Jobs, job[j].phase = "writing", job[j].next <= Len(Signals(j)),
              NEW new, NEW columns, Assigns(j, Signals(j)[job[j].next], new, columns),
              UNCHANGED <<rows, history, overlap>>
       PROVE  Lone'
  <2> DEFINE signal == Signals(j)[job[j].next]
  <2>1. /\ job'[j].writes = job[j].writes /\ job'[j].phase = "writing"
        /\ \A change \in job'[j].pending : change.row = new
        /\ \A k \in Jobs \ {j} : job'[k] = job[k]
    <3>1. Assigned(j, new, columns)
      BY <1>1, <1>11, AssignEffect
    <3> QED BY <1>11, <3>1 DEF Assigned
  <2>2. Assignable(j, signal, new, columns)
    BY <1>11, NewRow
  <2>3. \A row \in View(j) : SameDayRows(row, new) => row.id = new.id
    BY <2>2 DEF Assignable, SameDay, SameDayRows
  <2>4. \A k \in Jobs : View(k)' = View(k) /\ (k # j => Unsent(k)' = Unsent(k))
    BY <1>11, <2>1 DEF View, Unsent
  <2>5. \A row \in Unsent(j)' : row = new
    BY <2>1 DEF Unsent
  <2> QED BY <1>5, <1>11, <2>1, <2>3, <2>4, <2>5 DEF Lone
<1>12. ASSUME NEW j \in Jobs, job[j].phase = "writing", NEW change, NEW sent,
              Sends(j, change, sent), UNCHANGED <<rows, history, overlap>>
       PROVE  Lone'
  <2>1. /\ job'[j].phase = "writing" /\ job'[j].pending = {}
        /\ \A k \in Jobs \ {j} : job'[k] = job[k]
    BY <1>1, <1>12 DEF Sends, JobRecords
  <2>2. View(j)' = Merge(View(j), {sent})
    BY <1>12, FlushKeeps
  <2>3. Sendable(j, change, sent)
    BY <1>12, SentRow
  <2>4. /\ change.row \in Unsent(j) /\ sent.id = change.row.id /\ SameDayRows(sent, change.row)
    BY <2>3 DEF Sendable, Unsent
  <2>5. \A row \in View(j) : SameDayRows(row, sent) => row.id = sent.id
    <3>1. \A row \in View(j) : SameDayRows(row, change.row) => row.id = change.row.id
      BY <1>5, <2>4 DEF Lone
    <3> QED BY <2>4, <3>1 DEF SameDayRows
  <2>6. \A row \in View(j)' : row = sent \/ (row \in View(j) /\ row.id # sent.id)
    BY <2>2 DEF Merge
  <2>7. DayUnique(View(j))
    BY <1>5 DEF Lone
  <2>8. DayUnique(View(j)')
    BY <2>5, <2>6, <2>7 DEF DayUnique, SameDayRows
  <2>9. Unsent(j)' = {} /\ \A k \in Jobs \ {j} : View(k)' = View(k) /\ Unsent(k)' = Unsent(k)
    BY <1>12, <2>1 DEF View, Unsent
  <2> QED BY <1>5, <1>12, <2>1, <2>8, <2>9 DEF Lone, DayUnique
<1> QED BY <1>6, <1>8, <1>9, <1>10, <1>11, <1>12, Steps

\* While no two jobs have been under way at once, upsert_signal keeps one row per
\* key and UTC day, in the table and in what every session sees.
THEOREM OneRowPerDayHolds == Spec => []OneRowPerDay
<1>1. Init => Alone
  <2> SUFFICES ASSUME Init PROVE Lone
    BY DEF Alone, Lone
  <2> QED BY DEF Init, NewJob, Lone, DayUnique, View, Merge, Unsent
<1>2. Alone => OneRowPerDay
  BY DEF Alone, OneRowPerDay, DayUnique, SameDayRows
<1> QED BY <1>1, <1>2, NextAlone, SessionInvariance, PTL DEF Spec

(****************************************************************************)
(* Whose value a row holds.                                                 *)
(****************************************************************************)
\* The job that set the value of a row, and those of its signals upserted so far
\* that fall on the row's key and day: whether there is one, and whether the row
\* has the value of the last of them.
Setter(row) == row.by.value[1]
Touched(j, row) == \E i \in Upserted(j) : SameDay(row, Signals(j)[i])
LastValue(j, row) ==
    \E i \in Upserted(j) : /\ SameDay(row, Signals(j)[i]) /\ row.value = Signals(j)[i].value
                           /\ \A k \in Upserted(j) : SameDay(row, Signals(j)[k]) => k <= i

\* A job that has since set the value of a row committed after `began` others had.
SetAfter(row, began) == \A n \in DOMAIN history : history[n] = Setter(row) => began < n

\* What a session sees of a row it touched: its own last value, or that of a job
\* that committed after it had begun; unless it has a value to send.
Valued(j, row) == LastValue(j, row) \/ (Setter(row) # j /\ SetAfter(row, job[j].began))
Undecided(j, row) ==
    \E change \in job[j].pending : change.row.id = row.id /\ "value" \in change.columns

SameValue(a, b) == a.id = b.id /\ a.value = b.value /\ a.by.value = b.by.value

SessionValues(j) ==
    /\ \A row \in View(j) : Touched(j, row) /\ ~Undecided(j, row) => Valued(j, row)
    /\ \A w \in job[j].writes : /\ Touched(j, w)
                                /\ Setter(w) = j \/ \E row \in rows : SameValue(w, row)
    /\ \A new \in Unsent(j) : Setter(new) = j

\* A row of the table has the value its setter emitted last for its day, and a
\* later committed job that emitted another one had begun before.
Lasting(row) ==
    \A n \in DOMAIN history : history[n] = Setter(row) =>
        /\ LastValue(history[n], row)
        /\ \A m \in (n + 1)..Len(history) :
              Touched(history[m], row) /\ ~LastValue(history[m], row) => job[history[m]].began < n

ValuesInv == /\ \A j \in Jobs : job[j].phase = "writing" => SessionValues(j)
             /\ \A row \in rows : Lasting(row)

\* These depend on a row's key, day and value and on what the job has upserted.
Kept(k) == Signals(k)' = Signals(k) /\ Upserted(k)' = Upserted(k) /\ job'[k].began = job[k].began

LEMMA ValueFrame ==
    ASSUME NEW k, Kept(k), NEW row
    PROVE  (Touched(k, row)' <=> Touched(k, row)) /\ (LastValue(k, row)' <=> LastValue(k, row))
BY DEF Kept, Touched, LastValue

LEMMA ValueOfDay ==
    ASSUME NEW k, NEW a, NEW b, SameDayRows(a, b)
    PROVE  /\ Touched(k, a) <=> Touched(k, b)
           /\ a.value = b.value => (LastValue(k, a) <=> LastValue(k, b))
BY DEF SameDayRows, SameDay, Touched, LastValue

LEMMA LastingOfDay ==
    ASSUME NEW a, NEW b, SameDayRows(a, b), a.value = b.value, a.by.value = b.by.value, Lasting(b)
    PROVE  Lasting(a)
<1>1. Setter(a) = Setter(b)
  BY DEF Setter
<1>2. \A k : /\ Touched(k, a) <=> Touched(k, b)
             /\ LastValue(k, a) <=> LastValue(k, b)
  BY ValueOfDay
<1> QED BY <1>1, <1>2 DEF Lasting

\* A session that a step leaves alone, as it leaves the table and the history.
LEMMA ValuesFrame ==
    ASSUME NEW k \in Jobs, SessionValues(k), job'[k] = job[k], UNCHANGED <<rows, history>>
    PROVE  SessionValues(k)'
<1>1. View(k)' = View(k) /\ Unsent(k)' = Unsent(k) /\ Kept(k)
  BY DEF View, Unsent, Kept, Signals, Upserted
<1>2. \A row : /\ Touched(k, row)' <=> Touched(k, row)
               /\ Undecided(k, row)' <=> Undecided(k, row)
               /\ Valued(k, row)' <=> Valued(k, row)
  BY <1>1, ValueFrame DEF Undecided, Valued, SetAfter
<1> QED BY <1>1, <1>2 DEF SessionValues

\* A step that leaves the table and the history, and what committed jobs emitted.
LEMMA TableValuesFrame ==
    ASSUME SInv, \A row \in rows : Lasting(row), UNCHANGED <<rows, history>>,
           \A k \in Jobs : IsCommitted(k) => Kept(k)
    PROVE  \A row \in rows' : Lasting(row)'
<1> SUFFICES ASSUME NEW row \in rows, NEW n \in DOMAIN history, history[n] = Setter(row)
             PROVE  /\ LastValue(history[n], row)'
                    /\ \A m \in (n + 1)..Len(history) :
                          Touched(history[m], row)' /\ ~LastValue(history[m], row)'
                              => job'[history[m]].began < n
  BY DEF Lasting
<1>1. /\ Len(history) \in Nat /\ DOMAIN history = 1..Len(history)
      /\ \A m \in DOMAIN history : Kept(history[m])
  BY HistoryOf
<1>2. \A m \in DOMAIN history :
        /\ Touched(history[m], row)' <=> Touched(history[m], row)
        /\ LastValue(history[m], row)' <=> LastValue(history[m], row)
        /\ job'[history[m]].began = job[history[m]].began
  BY <1>1, ValueFrame DEF Kept
<1>3. \A m \in (n + 1)..Len(history) : m \in DOMAIN history
  BY <1>1
<1> QED BY <1>2, <1>3 DEF Lasting

\* A step of the session of job j that leaves the table and the history.
LEMMA SessionStepValues ==
    ASSUME SInv, ValuesInv, NEW j \in Jobs, ~IsCommitted(j), UNCHANGED <<rows, history>>,
           \A k \in Jobs \ {j} : job'[k] = job[k],
           job'[j].phase = "writing" => SessionValues(j)'
    PROVE  ValuesInv'
<1>1. \A k \in Jobs : IsCommitted(k) => Kept(k)
  BY DEF Kept, Signals, Upserted
<1>2. \A row \in rows' : Lasting(row)'
  BY <1>1, TableValuesFrame DEF ValuesInv
<1>3. ASSUME NEW k \in Jobs, job'[k].phase = "writing" PROVE SessionValues(k)'
  BY <1>3, ValuesFrame DEF ValuesInv
<1> QED BY <1>2, <1>3 DEF ValuesInv

LEMMA AssignValues ==
    ASSUME SInv, ValuesInv, NEW j \in Jobs, job[j].phase = "writing",
           job[j].next <= Len(Signals(j)),
           NEW new, NEW columns, Assigns(j, Signals(j)[job[j].next], new, columns),
           UNCHANGED <<rows, history, overlap>>
    PROVE  ValuesInv'
<1> DEFINE n == job[j].next
           signal == Signals(j)[n]
<1>1. Assigned(j, new, columns) /\ Assignable(j, signal, new, columns)
  BY AssignEffect, NewRow DEF SInv, TypeOK
<1>2. /\ \A k \in Jobs \ {j} : job'[k] = job[k]
      /\ job'[j].next = n + 1 /\ job'[j].writes = job[j].writes
      /\ job'[j].signals = job[j].signals /\ job'[j].began = job[j].began /\ job[j].pending = {}
      /\ \A change \in job'[j].pending : change.row = new
      /\ columns # {} => \E change \in job'[j].pending : change.row = new /\ change.columns = columns
  BY <1>1 DEF Assigned
<1>3. /\ n \in Nat /\ Len(Signals(j)) \in Nat /\ DOMAIN Signals(j) = 1..Len(Signals(j))
      /\ n \in DOMAIN Signals(j)
  <2>1. Signals(j) \in Emitted /\ job[j].next \in Nat \ {0}
    BY DEF SInv, TypeOK, JobRecords, Signals
  <2> QED BY <2>1, EmittedSignals
<1>4. /\ Signals(j)' = Signals(j) /\ View(j)' = View(j)
      /\ Upserted(j)' = Upserted(j) \cup {n} /\ \A i \in Upserted(j) : i < n
  BY <1>2, <1>3 DEF Signals, View, Upserted
<1>5. ASSUME NEW row \in View(j), Touched(j, row)', ~Undecided(j, row)'
      PROVE  Valued(j, row)'
  <2>1. CASE SameDay(row, signal)
    <3>1. row.id = new.id /\ ("value" \in columns \/ row.value = signal.value)
      BY <1>1, <2>1 DEF Assignable
    <3>2. "value" \notin columns
      <4>1. ASSUME "value" \in columns PROVE FALSE
        <5>1. PICK change \in job'[j].pending : change.row = new /\ change.columns = columns
          BY <1>2, <4>1
        <5> QED BY <1>5, <3>1, <4>1, <5>1 DEF Undecided
      <4> QED BY <4>1
    <3>3. \A k \in Upserted(j)' : k <= n
      BY <1>3, <1>4 DEF Upserted
    <3>4. n \in Upserted(j)' /\ SameDay(row, Signals(j)'[n]) /\ row.value = Signals(j)'[n].value
      BY <1>4, <2>1, <3>1, <3>2
    <3>5. LastValue(j, row)'
      BY <3>3, <3>4 DEF LastValue
    <3> QED BY <3>5 DEF Valued
  <2>2. CASE ~SameDay(row, signal)
    <3>1. Touched(j, row) /\ (LastValue(j, row) => LastValue(j, row)')
      BY <1>4, <1>5, <2>2 DEF Touched, LastValue
    <3>2. ~Undecided(j, row)
      BY <1>2 DEF Undecided
    <3>3. Valued(j, row)
      BY <1>5, <3>1, <3>2 DEF ValuesInv, SessionValues
    <3> QED BY <1>2, <3>1, <3>3 DEF Valued, SetAfter
  <2> QED BY <2>1, <2>2
<1>6. ASSUME NEW w \in job[j].writes
      PROVE  Touched(j, w)' /\ (Setter(w) = j \/ \E row \in rows' : SameValue(w, row))
  <2>1. Touched(j, w) /\ (Setter(w) = j \/ \E row \in rows : SameValue(w, row))
    BY DEF ValuesInv, SessionValues
  <2> QED BY <1>4, <2>1 DEF Touched
<1>7. \A row \in Unsent(j)' : Setter(row) = j
  <2>1. \A row \in Unsent(j)' : row = new
    BY <1>2 DEF Unsent
  <2>2. new.by.value = <<j, n>>
    BY DEF Assigns
  <2> QED BY <2>1, <2>2 DEF Setter
<1>8. SessionValues(j)'
  BY <1>2, <1>4, <1>5, <1>6, <1>7 DEF SessionValues
<1>9. ~IsCommitted(j)
  BY DEF IsCommitted
<1> QED BY <1>2, <1>8, <1>9, SessionStepValues

LEMMA FlushValues ==
    ASSUME SInv, ValuesInv, NEW j \in Jobs, job[j].phase = "writing", NEW change, NEW sent,
           Sends(j, change, sent), UNCHANGED <<rows, history, overlap>>
    PROVE  ValuesInv'
<1> DEFINE new == change.row
<1>1. job \in [Jobs -> JobRecords] /\ job[j] \in JobRecords
  BY DEF SInv, TypeOK
<1>2. /\ \A k \in Jobs \ {j} : job'[k] = job[k]
      /\ job'[j].next = job[j].next /\ job'[j].writes = Merge(job[j].writes, {sent})
      /\ job'[j].signals = job[j].signals /\ job'[j].began = job[j].began /\ job'[j].pending = {}
  BY <1>1 DEF Sends, JobRecords
<1>3. Kept(j) /\ Unsent(j)' = {}
  BY <1>2 DEF Kept, Signals, Upserted, Unsent
<1>4. View(j)' = Merge(View(j), {sent})
  BY FlushKeeps
<1>5. Sendable(j, change, sent)
  BY SentRow
<1>6. /\ job[j].pending = {change} /\ sent.id = new.id /\ SameDayRows(sent, new) /\ new \in Unsent(j)
      /\ \/ sent.value = new.value /\ sent.by.value = new.by.value
         \/ /\ "value" \notin change.columns
            /\ \E old \in View(j) : /\ old.id = sent.id /\ SameDayRows(old, sent)
                                    /\ sent.value = old.value /\ sent.by.value = old.by.value
  BY <1>5 DEF Sendable, Unsent
<1>7. /\ \A row \in View(j) : Touched(j, row) /\ ~Undecided(j, row) => Valued(j, row)
      /\ \A w \in job[j].writes : Touched(j, w)
      /\ \A w \in job[j].writes : Setter(w) = j \/ \E row \in rows : SameValue(w, row)
      /\ Setter(new) = j
  BY <1>6 DEF ValuesInv, SessionValues
<1>8. PICK i \in Upserted(j) :
        i = job[j].next - 1 /\ SameDay(new, Signals(j)[i]) /\ new.value = Signals(j)[i].value
  <2>1. LastAssigned(j)
    BY DEF SInv, SessionInv
  <2> QED BY <1>6, <2>1 DEF LastAssigned
<1>9. \A k \in Upserted(j) : k <= i
  <2>1. job[j].next \in Nat /\ DOMAIN Signals(j) \subseteq Int
    <3>1. Signals(j) \in Emitted /\ job[j].next \in Nat
      BY <1>1 DEF JobRecords, Signals
    <3> QED BY <3>1, EmittedSignals
  <2> QED BY <1>8, <2>1 DEF Upserted
<1>10. SameDay(sent, Signals(j)[i])
  BY <1>6, <1>8 DEF SameDay, SameDayRows
<1>11. Touched(j, sent)
  BY <1>10 DEF Touched
<1>12. Valued(j, sent) /\ (Setter(sent) = j \/ \E row \in rows : SameValue(sent, row))
  <2>1. CASE sent.value = new.value /\ sent.by.value = new.by.value
    <3>1. LastValue(j, sent)
      BY <1>8, <1>9, <1>10, <2>1 DEF LastValue
    <3> QED BY <1>7, <2>1, <3>1 DEF Valued, Setter
  <2>2. ASSUME "value" \notin change.columns,
               NEW old \in View(j), old.id = sent.id, SameDayRows(old, sent),
               sent.value = old.value, sent.by.value = old.by.value
        PROVE  Valued(j, sent) /\ (Setter(sent) = j \/ \E row \in rows : SameValue(sent, row))
    <3>1. Touched(j, old) /\ (LastValue(j, old) => LastValue(j, sent))
      BY <1>11, <2>2, ValueOfDay
    <3>2. ~Undecided(j, old)
      BY <1>6, <2>2 DEF Undecided
    <3>3. Valued(j, old) /\ Setter(old) = Setter(sent)
      BY <1>7, <2>2, <3>1, <3>2 DEF Setter
    <3>4. Valued(j, sent)
      BY <3>1, <3>3 DEF Valued, SetAfter
    <3>5. old \in rows \/ old \in job[j].writes
      BY ViewMembers
    <3>6. \A row \in rows : SameValue(old, row) => SameValue(sent, row)
      BY <2>2 DEF SameValue
    <3>7. SameValue(old, old)
      BY DEF SameValue
    <3> QED BY <1>7, <3>3, <3>4, <3>5, <3>6, <3>7
  <2> QED BY <1>6, <2>1, <2>2
<1>13. ASSUME NEW row \in View(j)', Touched(j, row)' PROVE Valued(j, row)'
  <2>1. Touched(j, row) /\ (LastValue(j, row) => LastValue(j, row)')
    BY <1>3, <1>13, ValueFrame
  <2>2. Valued(j, row)
    <3>1. row = sent \/ (row \in View(j) /\ row.id # sent.id)
      BY <1>4 DEF Merge
    <3>2. row.id # sent.id => ~Undecided(j, row)
      BY <1>6 DEF Undecided
    <3> QED BY <1>7, <1>12, <2>1, <3>1, <3>2
  <2> QED BY <1>2, <2>1, <2>2 DEF Valued, SetAfter
<1>14. ASSUME NEW w \in job'[j].writes
       PROVE  Touched(j, w)' /\ (Setter(w) = j \/ \E row \in rows' : SameValue(w, row))
  <2>1. w = sent \/ w \in job[j].writes
    BY <1>2 DEF Merge
  <2>2. Touched(j, w)
    BY <1>7, <1>11, <2>1
  <2>3. Touched(j, w)'
    BY <1>3, <2>2, ValueFrame
  <2> QED BY <1>7, <1>12, <2>1, <2>3
<1>15. SessionValues(j)'
  BY <1>3, <1>13, <1>14 DEF SessionValues
<1>16. ~IsCommitted(j)
  BY DEF IsCommitted
<1> QED BY <1>2, <1>15, <1>16, SessionStepValues

\* The value a flushed row has in the table before the commit, unless it is new.
LEMMA FlushedValue ==
    ASSUME SInv, ValuesInv, NEW j \in Jobs, job[j].phase = "writing",
           NEW w \in job[j].writes, Setter(w) # j
    PROVE  \E row \in rows : SameValue(w, row) /\ SameDayRows(w, row)
<1>1. PICK row \in rows : SameValue(w, row)
  BY DEF ValuesInv, SessionValues
<1>2. SameIdSameDay(Held(j), rows) /\ w \in Held(j)
  BY DEF SInv, SessionInv, Held
<1> QED BY <1>1, <1>2 DEF SameIdSameDay, SameValue

LEMMA CommitValues ==
    ASSUME SInv, ValuesInv, NEW j \in Jobs, Commit(j), UNCHANGED overlap PROVE ValuesInv'
<1> DEFINE n == Len(history)
<1>1. Commits(j)
  BY CommitEffect
<1>2. /\ job'[j] = [job[j] EXCEPT !.phase = "committed", !.writes = {}]
      /\ \A k \in Jobs \ {j} : job'[k] = job[k] /\ Unsent(k)' = Unsent(k)
      /\ Unsent(j) = {} /\ ~IsCommitted(j)
  BY <1>1 DEF Commits
<1>3. \A k \in Jobs : Kept(k)
  BY <1>1 DEF Commits, Kept
<1>4. /\ n \in Nat /\ Len(history') = n + 1
      /\ DOMAIN history = 1..n /\ DOMAIN history' = 1..(n + 1)
      /\ history'[n + 1] = j
      /\ \A m \in 1..n : history'[m] = history[m] /\ history[m] \in Jobs /\ IsCommitted(history[m])
  BY HistoryGrows
<1>5. /\ job[j].phase = "writing" /\ job[j].pending = {}
      /\ \A m \in 1..n : history[m] # j
  BY <1>2, <1>4 DEF Commit
<1>7. \A k \in Jobs : job[k].began \in Nat /\ job[k].began <= n /\ job'[k].began = job[k].began
  BY <1>3 DEF SInv, TypeOK, JobRecords, SessionInv, Positioned, Kept
\* What job j sees is what it set last, or what a job set that committed after it began.
<1>8. \A row \in View(j) : Touched(j, row) => Valued(j, row)
  BY <1>5 DEF ValuesInv, SessionValues, Undecided
<1>9. ASSUME NEW row \in rows' PROVE Lasting(row)'
  <2>1. row \in View(j)
    BY CommittedRows
  <2>2. CASE Setter(row) = j
    <3>1. row \in job[j].writes
      <4>1. \A k \in Authors(row) : row \in rows => IsCommitted(k)
        BY DEF SInv, TableInv
      <4>2. j \in Authors(row)
        BY <2>2 DEF Authors, Setter
      <4> QED BY <1>2, <4>1, <4>2, CommittedRows
    <3>2. Touched(j, row)
      BY <1>5, <3>1 DEF ValuesInv, SessionValues
    <3>3. LastValue(j, row)
      BY <1>8, <2>1, <2>2, <3>2 DEF Valued
    <3>4. LastValue(j, row)'
      BY <1>3, <3>3, ValueFrame
    <3>5. \A m \in DOMAIN history' : history'[m] = Setter(row) => m = n + 1
      BY <1>4, <1>5, <2>2
    <3>6. ((n + 1) + 1)..(n + 1) = {}
      BY <1>4
    <3> QED BY <1>4, <3>4, <3>5, <3>6 DEF Lasting
  <2>3. CASE Setter(row) # j
    <3>1. Lasting(row)
      <4>1. CASE row \in rows
        BY <4>1 DEF ValuesInv
      <4>2. CASE row \in job[j].writes
        <5>1. PICK old \in rows : SameValue(row, old) /\ SameDayRows(row, old)
          BY <1>5, <2>3, <4>2, FlushedValue
        <5>2. Lasting(old)
          BY DEF ValuesInv
        <5> QED BY <5>1, <5>2, LastingOfDay DEF SameValue
      <4> QED BY <4>1, <4>2, CommittedRows
    <3>2. ASSUME NEW m \in DOMAIN history', history'[m] = Setter(row)
          PROVE  m \in 1..n /\ history[m] = Setter(row)
      BY <1>4, <2>3, <3>2
    <3>3. \A m \in 1..n : /\ Touched(history[m], row)' <=> Touched(history[m], row)
                          /\ LastValue(history[m], row)' <=> LastValue(history[m], row)
                          /\ job'[history[m]].began = job[history[m]].began
      BY <1>3, <1>4, <1>7, ValueFrame
    <3> SUFFICES ASSUME NEW m \in 1..n, history[m] = Setter(row)
                 PROVE  /\ LastValue(history[m], row)'
                        /\ \A l \in (m + 1)..(n + 1) :
                              Touched(history[l], row)' /\ ~LastValue(history[l], row)'
                                  => job'[history'[l]].began < m
      BY <1>4, <3>2 DEF Lasting
    <3>4. LastValue(history[m], row)'
      BY <1>4, <3>1, <3>3 DEF Lasting
    <3>5. ASSUME NEW l \in (m + 1)..n, Touched(history[l], row)', ~LastValue(history[l], row)'
          PROVE  job'[history'[l]].began < m
      <4>1. l \in 1..n /\ history'[l] = history[l]
        BY <1>4
      <4>2. Touched(history[l], row) /\ ~LastValue(history[l], row)
        BY <3>3, <3>5, <4>1
      <4>3. job[history[l]].began < m
        BY <1>4, <3>1, <4>2 DEF Lasting
      <4> QED BY <3>3, <4>1, <4>3
    <3>6. ASSUME Touched(j, row)', ~LastValue(j, row)' PROVE job'[j].began < m
      <4>1. Touched(j, row) /\ ~LastValue(j, row)
        BY <1>3, <3>6, ValueFrame
      <4>2. SetAfter(row, job[j].began)
        BY <1>8, <2>1, <4>1 DEF Valued
      <4> QED BY <1>4, <1>7, <4>2 DEF SetAfter
    <3>7. ASSUME NEW l \in (m + 1)..(n + 1) PROVE l \in (m + 1)..n \/ l = n + 1
      BY <1>4
    <3> QED BY <1>4, <3>4, <3>5, <3>6, <3>7
  <2> QED BY <2>2, <2>3
<1>10. ASSUME NEW k \in Jobs, job'[k].phase = "writing" PROVE SessionValues(k)'
  <2>1. k # j /\ job'[k] = job[k] /\ job[k].phase = "writing" /\ SessionValues(k)
    <3>1. job[j] \in JobRecords
      BY DEF SInv, TypeOK
    <3>2. job'[j].phase = "committed"
      BY <1>2, <3>1 DEF JobRecords
    <3> QED BY <1>2, <1>10, <3>2 DEF ValuesInv
  \* A row it saw is as it was, and job j commits after it began.
  <2>2. ASSUME NEW row, Valued(k, row) \/ Setter(row) = j PROVE Valued(k, row)'
    <3>1. CASE LastValue(k, row)
      <4>1. LastValue(k, row)'
        BY <1>3, <3>1, ValueFrame
      <4> QED BY <4>1 DEF Valued
    <3>2. CASE Setter(row) # k /\ (SetAfter(row, job[k].began) \/ Setter(row) = j)
      <4>1. ASSUME NEW m \in 1..(n + 1), history'[m] = Setter(row) PROVE job[k].began < m
        <5>1. CASE m = n + 1
          BY <1>4, <1>7, <5>1
        <5>2. CASE m \in 1..n
          <6>1. history[m] = Setter(row) /\ Setter(row) # j
            BY <1>4, <1>5, <4>1, <5>2
          <6> QED BY <1>4, <3>2, <5>2, <6>1 DEF SetAfter
        <5> QED BY <1>4, <5>1, <5>2
      <4>2. SetAfter(row, job[k].began)'
        BY <1>4, <1>7, <2>1, <4>1 DEF SetAfter
      <4> QED BY <3>2, <4>2 DEF Valued
    <3> QED BY <2>1, <2>2, <3>1, <3>2 DEF Valued
  <2>3. ASSUME NEW row \in View(k)', Touched(k, row)', ~Undecided(k, row)' PROVE Valued(k, row)'
    <3>1. Touched(k, row) /\ ~Undecided(k, row)
      BY <1>3, <2>1, <2>3, ValueFrame DEF Undecided
    <3>2. CASE row \in View(k)
      BY <2>1, <2>2, <3>1, <3>2 DEF SessionValues
    <3>3. CASE row \in job[j].writes /\ \A w \in job[k].writes : w.id # row.id
      <4>1. CASE Setter(row) = j
        BY <2>2, <4>1
      <4>2. CASE Setter(row) # j
        <5>1. PICK old \in rows : SameValue(row, old) /\ SameDayRows(row, old)
          BY <1>5, <3>3, <4>2, FlushedValue
        <5>2. old \in View(k) /\ Touched(k, old) /\ ~Undecided(k, old)
          BY <3>1, <3>3, <5>1, ViewMembers, ValueOfDay DEF SameValue, Undecided
        <5>3. Valued(k, old)
          BY <2>1, <5>2 DEF SessionValues
        <5>4. Setter(old) = Setter(row) /\ (LastValue(k, old) => LastValue(k, row))
          BY <5>1, ValueOfDay DEF SameValue, Setter
        <5>5. Valued(k, row)
          BY <5>3, <5>4 DEF Valued, SetAfter
        <5> QED BY <2>2, <5>5
      <4> QED BY <4>1, <4>2
    <3> QED BY <2>1, <3>2, <3>3, ViewAfterCommit
  <2>4. ASSUME NEW w \in job[k].writes
        PROVE  Touched(k, w)' /\ (Setter(w) = k \/ \E row \in rows' : SameValue(w, row))
    <3>1. Touched(k, w) /\ (Setter(w) = k \/ \E row \in rows : SameValue(w, row))
      BY <2>1 DEF SessionValues
    <3>2. Touched(k, w)'
      BY <1>3, <3>1, ValueFrame
    <3>3. Disjoint(job[j].writes, job[k].writes)
      BY <2>1 DEF SInv
    <3>4. \A row \in rows : SameValue(w, row) => row \in rows'
      BY <3>3, CommittedRows DEF Disjoint, SameValue
    <3> QED BY <3>1, <3>2, <3>4
  <2>5. \A new \in Unsent(k)' : Setter(new) = k
    BY <1>2, <2>1 DEF SessionValues
  <2> QED BY <2>1, <2>3, <2>4, <2>5 DEF SessionValues
<1> QED BY <1>9, <1>10 DEF ValuesInv

LEMMA FetchValues ==
    ASSUME SInv, ValuesInv, NEW j \in Jobs, Fetch(j) PROVE ValuesInv'
<1>1. PICK name \in Schedule[j] :
        /\ HasProvider(Requests[name])
        /\ job' = [job EXCEPT ![j] = NewJob("writing", name, FetchSignals(Requests[name]))]
  BY DEF Fetch
<1>2. FetchSignals(Requests[name]) \in Emitted
  BY <1>1, ScheduleAssumption DEF Emitted, Fetched
<1>3. job \in [Jobs -> JobRecords]
  BY DEF SInv, TypeOK
<1>4. /\ \A k \in Jobs \ {j} : job'[k] = job[k]
      /\ job'[j].signals = FetchSignals(Requests[name]) /\ job'[j].next = 1
      /\ job'[j].pending = {} /\ job'[j].writes = {}
  BY <1>1, <1>3 DEF NewJob
<1>5. Upserted(j)' = {} /\ Unsent(j)' = {}
  BY <1>2, <1>4, EmittedSignals DEF Upserted, Unsent, Signals
<1>6. SessionValues(j)'
  BY <1>4, <1>5 DEF SessionValues, Touched
<1>7. UNCHANGED <<rows, history>> /\ ~IsCommitted(j)
  BY DEF Fetch, IsCommitted
<1> QED BY <1>4, <1>6, <1>7, SessionStepValues

LEMMA EndValues ==
    ASSUME SInv, ValuesInv, NEW j \in Jobs,
           \/ FetchFails(j) \/ Finish(j)
           \/ (job[j].phase = "writing" /\ Abort(j) /\ UNCHANGED <<rows, history, overlap>>)
    PROVE  ValuesInv'
<1>1. job \in [Jobs -> JobRecords] /\ job[j] \in JobRecords
  BY DEF SInv, TypeOK
<1>2. /\ \A k \in Jobs \ {j} : job'[k] = job[k]
      /\ job'[j].phase \in {"aborted", "done"} /\ UNCHANGED <<rows, history>>
      /\ job'[j].signals = job[j].signals /\ job'[j].next = job[j].next
      /\ job'[j].began = job[j].began
  BY <1>1 DEF FetchFails, Finish, Abort, JobRecords
<1>3. \A k \in Jobs : Kept(k)
  BY <1>2 DEF Kept, Signals, Upserted
<1>4. \A row \in rows' : Lasting(row)'
  BY <1>2, <1>3, TableValuesFrame DEF ValuesInv
<1>5. ASSUME NEW k \in Jobs, job'[k].phase = "writing" PROVE SessionValues(k)'
  BY <1>2, <1>5, ValuesFrame DEF ValuesInv
<1> QED BY <1>4, <1>5 DEF ValuesInv

LEMMA NextValues == SInv /\ ValuesInv /\ [Next]_vars => ValuesInv'
<1> SUFFICES ASSUME SInv, ValuesInv, [Next]_vars PROVE ValuesInv'
  OBVIOUS
<1>1. CASE UNCHANGED vars
  <2>1. job' = job /\ rows' = rows /\ history' = history
    BY <1>1 DEF vars
  <2>2. \A row \in rows' : Lasting(row)'
    BY <2>1, TableValuesFrame DEF ValuesInv, Kept, Signals, Upserted
  <2>3. ASSUME NEW k \in Jobs, job[k].phase = "writing" PROVE SessionValues(k)'
    BY <2>1, <2>3, ValuesFrame DEF ValuesInv
  <2> QED BY <2>1, <2>2, <2>3 DEF ValuesInv
<1> QED BY <1>1, Steps, FetchValues, EndValues, CommitValues, AssignValues, FlushValues

(****************************************************************************)
(* Whom a value can be lost to.                                             *)
(****************************************************************************)
\* The greatest of a set of positions.
LEMMA MaxIs ==
    ASSUME NEW S, S \subseteq Nat, NEW i \in S, \A k \in S : k <= i PROVE Max(S) = i
<1>1. i \in S /\ \A y \in S : i >= y
  OBVIOUS
<1>2. ASSUME NEW x \in S, \A y \in S : x >= y PROVE x = i
  BY <1>2
<1> QED BY <1>1, <1>2 DEF Max

\* Of a committed job, the last value is that of the greatest signal of the day.
LEMMA LastOfCommitted ==
    ASSUME SInv, NEW k \in Jobs, IsCommitted(k), NEW row
    PROVE  /\ Touched(k, row) <=> Touching(k, row) # {}
           /\ LastValue(k, row) <=> Touching(k, row) # {} /\ EmittedLast(k, row)
<1> DEFINE S == Touching(k, row)
<1>1. /\ Signals(k) \in Emitted /\ job[k].next = Len(Signals(k)) + 1
  BY DEF SInv, TypeOK, JobRecords, SessionInv, Positioned, Signals
<1>2. /\ DOMAIN Signals(k) = 1..Len(Signals(k)) /\ Len(Signals(k)) \in Nat
  BY <1>1, EmittedSignals
<1>3. Upserted(k) = DOMAIN Signals(k)
  BY <1>1, <1>2 DEF Upserted
<1>4. \A i : i \in S <=> i \in Upserted(k) /\ SameDay(row, Signals(k)[i])
  BY <1>3 DEF Touching
<1>5. S \subseteq Nat /\ S \in SUBSET Int /\ IsFiniteSet(S)
  <2>1. S \in SUBSET (1..Len(Signals(k)))
    BY <1>2 DEF Touching
  <2> HIDE DEF S
  <2>2. IsFiniteSet(1..Len(Signals(k)))
    BY <1>2, CountUpTo
  <2>3. IsFiniteSet(S)
    BY <2>1, <2>2, FS_Subset
  <2> QED BY <2>1, <2>3
<1> HIDE DEF S
<1>6. S # {} => Max(S) \in S /\ \A i \in S : i <= Max(S)
  BY <1>5, Extremes
<1>7. ASSUME NEW i \in S, \A l \in S : l <= i PROVE Max(S) = i
  BY <1>5, <1>7, MaxIs
<1>8. Touched(k, row) <=> S # {}
  BY <1>4 DEF Touched
<1>9. LastValue(k, row) <=>
        \E i \in S : row.value = Signals(k)[i].value /\ \A l \in S : l <= i
  BY <1>4 DEF LastValue
<1>10. LastValue(k, row) <=> S # {} /\ row.value = Signals(k)[Max(S)].value
  BY <1>6, <1>7, <1>9
<1> QED BY <1>8, <1>10 DEF EmittedLast, S

\* For any jobs and requests, a value of market_signals is overwritten, or left
\* out of a flush, in favour of a job that overlapped or came later, never of one
\* that had committed before its own job began.
THEOREM LostOnlyToOverlapHolds == Spec => []LostOnlyToOverlap
<1>1. Init => ValuesInv
  BY DEF Init, NewJob, ValuesInv
<1>2. ASSUME SInv, ValuesInv PROVE LostOnlyToOverlap
  <2> SUFFICES ASSUME NEW row \in rows
               PROVE  \E n \in DOMAIN history :
                         /\ Touching(history[n], row) # {} /\ EmittedLast(history[n], row)
                         /\ \A m \in (n + 1)..Len(history) :
                               Touching(history[m], row) # {} /\ ~EmittedLast(history[m], row)
                                   => job[history[m]].began < n
    BY DEF LostOnlyToOverlap
  <2>1. /\ Len(history) \in Nat /\ DOMAIN history = 1..Len(history)
        /\ \A n \in DOMAIN history : history[n] \in Jobs /\ IsCommitted(history[n])
    BY <1>2, HistoryOf
  <2>2. Setter(row) \in Jobs /\ IsCommitted(Setter(row))
    <3>1. row \in Rows /\ \A k \in Authors(row) : IsCommitted(k)
      BY <1>2 DEF SInv, TypeOK, TableInv
    <3> QED BY <3>1, AuthorsAreJobs DEF Authors, Setter
  <2>3. PICK n \in DOMAIN history : history[n] = Setter(row)
    BY <1>2, <2>2 DEF SInv, TableInv
  <2>4. Lasting(row)
    BY <1>2 DEF ValuesInv
  <2>5. \A m \in DOMAIN history :
          /\ Touched(history[m], row) <=> Touching(history[m], row) # {}
          /\ LastValue(history[m], row)
                <=> Touching(history[m], row) # {} /\ EmittedLast(history[m], row)
    BY <1>2, <2>1, LastOfCommitted
  <2>6. \A m \in (n + 1)..Len(history) : m \in DOMAIN history
    BY <2>1
  <2> QED BY <2>3, <2>4, <2>5, <2>6 DEF Lasting
<1> QED BY <1>1, <1>2, NextValues, SessionInvariance, PTL DEF Spec

(****************************************************************************)
(* The newest quarter.                                                      *)
(****************************************************************************)
Quarters == Int \X (1..4)

\* Quarters are counted one by one.
LEMMA QuartersInARow ==
    /\ \A p \in Quarters : Linear(p) \in Int
    /\ \A p, q \in Quarters : Linear(p) = Linear(q) => p = q
    /\ \A p \in Quarters : PreviousQuarter(p) \in Quarters /\ Linear(PreviousQuarter(p)) = Linear(p) - 1
    /\ \A date \in Int \X (1..12) :
          /\ CurrentQuarter(date) \in Quarters
          /\ Linear(CurrentQuarter(date)) = (4 * date[1]) + ((date[2] + 2) \div 3)
<1>1. \A p \in Quarters : Linear(p) \in Int /\ p[1] \in Int /\ p[2] \in 1..4 /\ p = <<p[1], p[2]>>
  BY DEF Quarters, Linear
<1>2. ASSUME NEW p \in Quarters, NEW q \in Quarters, Linear(p) = Linear(q)
      PROVE  p = q
  <2>1. p[1] = q[1] /\ p[2] = q[2]
    BY <1>1, <1>2 DEF Linear
  <2>2. QED
    BY <1>1, <2>1
<1>3. ASSUME NEW p \in Quarters
      PROVE  PreviousQuarter(p) \in Quarters /\ Linear(PreviousQuarter(p)) = Linear(p) - 1
  <2>1. CASE p[2] = 1
    <3>1. PreviousQuarter(p) = <<p[1] - 1, 4>>
      BY <2>1 DEF PreviousQuarter
    <3>2. QED
      BY <1>1, <2>1, <3>1 DEF Quarters, Linear
  <2>2. CASE p[2] # 1
    <3>1. PreviousQuarter(p) = <<p[1], p[2] - 1>>
      BY <2>2 DEF PreviousQuarter
    <3>2. QED
      BY <1>1, <2>2, <3>1 DEF Quarters, Linear
  <2>3. QED
    BY <2>1, <2>2
<1>4. ASSUME NEW date \in Int \X (1..12)
      PROVE  /\ CurrentQuarter(date) \in Quarters
             /\ Linear(CurrentQuarter(date)) = (4 * date[1]) + ((date[2] + 2) \div 3)
  <2>1. date[1] \in Int /\ date[2] \in 1..12
    OBVIOUS
  <2>2. (date[2] - 1) \div 3 + 1 \in 1..4 /\ (date[2] - 1) \div 3 + 1 = (date[2] + 2) \div 3
    BY <2>1
  <2>3. QED
    BY <2>1, <2>2 DEF CurrentQuarter, Quarters, Linear
<1>5. QED
  BY <1>1, <1>2, <1>3, <1>4

\* The quarters probed go back one by one from the current one.
LEMMA ProbedAreConsecutive ==
    ASSUME NEW date \in Int \X (1..12)
    PROVE  /\ Probed(date) \in Seq(Quarters) /\ Len(Probed(date)) = Lookback
           /\ \A n \in 1..Lookback :
                 Linear(Probed(date)[n]) = Linear(CurrentQuarter(date)) - (n - 1)
<1> DEFINE L == Lookback - 1
           V == Quarters
           base == CurrentQuarter(date)
           next(x) == PreviousQuarter(x)
           step == [n \in 1..L |-> [x \in V |-> next(x)]]
           Eq(g) == g = [n \in 1..Lookback |-> IF n = 1 THEN base ELSE next(g[n - 1])]
           c == CHOOSE g : Eq(g)
<1>1. L \in Nat /\ Lookback = L + 1 /\ Lookback \in Nat
  BY LimitAssumption
<1>2. base \in V /\ \A x \in V : next(x) \in V /\ Linear(next(x)) = Linear(x) - 1 /\ Linear(x) \in Int
  BY QuartersInARow
<1>3. Probed(date) = c
  BY DEF Probed
<1> HIDE DEF L, V, base, next
<1>4. step \in [1..L -> [V -> V]] /\ \A n \in 1..L, x \in V : step[n][x] = next(x)
  BY <1>2
<1> HIDE DEF step
<1>5. PICK f : Follows(f, L, V, base, step)
  BY <1>1, <1>2, <1>4, RecursionExists
<1> DEFINE g == [n \in 1..Lookback |-> f[n - 1]]
<1>6. Eq(g)
  <2>1. f \in [0..L -> V] /\ f[0] = base /\ \A n \in 1..L : f[n] = step[n][f[n - 1]]
    BY <1>5 DEF Follows
  <2>2. \A n \in 1..L : f[n] = next(f[n - 1])
    <3>1. \A n \in 1..L : f[n - 1] \in V
      BY <1>1, <2>1
    <3>2. QED
      BY <1>4, <2>1, <3>1
  <2>3. ASSUME NEW n \in 1..Lookback
        PROVE  f[n - 1] = IF n = 1 THEN base ELSE next(g[n - 1])
    <3>1. CASE n = 1
      BY <2>1, <3>1
    <3>2. CASE n # 1
      <4>1. n - 1 \in 1..L /\ n - 1 \in 1..Lookback
        BY <1>1, <3>2
      <4>2. f[n - 1] = next(f[(n - 1) - 1])
        BY <2>2, <4>1
      <4>3. g[n - 1] = f[(n - 1) - 1]
        BY <4>1
      <4>4. QED
        BY <3>2, <4>2, <4>3
    <3>3. QED
      BY <3>1, <3>2
  <2>4. QED
    BY <2>3
<1>7. Eq(c)
  BY <1>6
<1> HIDE DEF c
<1>8. /\ c = [n \in 1..Lookback |-> c[n]] /\ c[1] = base
      /\ \A n \in 1..Lookback : n # 1 => c[n] = next(c[n - 1])
  <2>1. \A n \in 1..Lookback : c[n] = IF n = 1 THEN base ELSE next(c[n - 1])
    BY <1>7
  <2>2. 1 \in 1..Lookback
    BY <1>1
  <2>3. c = [n \in 1..Lookback |-> IF n = 1 THEN base ELSE next(c[n - 1])]
    BY <1>7
  <2>4. QED
    BY <2>1, <2>2, <2>3
<1> HIDE DEF Eq
<1> DEFINE Counted(n) == c[n] \in V /\ Linear(c[n]) = Linear(base) - (n - 1)
           S == {n \in 0..L : Counted(n + 1)}
<1>9. 0 \in S
  BY <1>1, <1>2, <1>8
<1>10. \A n \in 1..L : n - 1 \in S => n \in S
  <2>1. TAKE n \in 1..L
  <2>2. HAVE n - 1 \in S
  <2>3. (n - 1) + 1 = n /\ n + 1 \in 1..Lookback /\ n + 1 # 1 /\ (n + 1) - 1 = n /\ n \in 0..L
    BY <1>1
  <2>4. c[n] \in V /\ Linear(c[n]) = Linear(base) - (n - 1)
    BY <2>2, <2>3
  <2>5. c[n + 1] = next(c[n])
    BY <1>8, <2>3
  <2>6. c[n + 1] \in V /\ Linear(c[n + 1]) = (Linear(base) - (n - 1)) - 1
    BY <1>2, <2>4, <2>5
  <2>7. Linear(base) \in Int
    BY <1>2
  <2>8. Linear(c[n + 1]) = Linear(base) - ((n + 1) - 1)
    BY <2>3, <2>6, <2>7
  <2>9. QED
    BY <2>3, <2>6, <2>8
<1>11. 0..L \subseteq S
  <2> HIDE DEF S
  <2>1. QED
    BY <1>1, <1>9, <1>10, UpTo
<1>12. \A n \in 1..Lookback : Counted(n)
  <2>1. TAKE n \in 1..Lookback
  <2>2. n - 1 \in 0..L /\ (n - 1) + 1 = n
    BY <1>1
  <2>3. QED
    BY <1>11, <2>2
<1>13. c \in Seq(V) /\ Len(c) = Lookback
  BY <1>1, <1>8, <1>12, SequenceOf
<1>14. QED
  BY <1>3, <1>12, <1>13 DEF V, base

\* What TradesAssumption says of one request.
AsksForTrades(r) ==
    /\ r.date \in Int \X (1..12) /\ r.codes \in Seq(STRING) \ {<<>>}
    /\ \A key \in DOMAIN r.trades :
          /\ key[2] \in Quarters
          /\ r.trades[key] \in Seq([price : Int \cup {Absent}, unit : Int \cup {Absent}])

\* The quarters with data for a city, and by their counts those in reach that
\* the first city has data for.
WithData(r, code) ==
    {p \in {key[2] : key \in DOMAIN r.trades} : Answer(r.trades, <<code, p>>) # <<>>}
Published(r) ==
    {Linear(p) : p \in WithData(r, r.codes[1])}
        \cap ((Linear(CurrentQuarter(r.date)) - Lookback + 1)..Linear(CurrentQuarter(r.date)))

LEMMA WithDataIsAnswered ==
    ASSUME NEW r, AsksForTrades(r), NEW code, NEW p
    PROVE  /\ p \in WithData(r, code) => p \in Quarters
           /\ p \in WithData(r, code) <=> Answer(r.trades, <<code, p>>) # <<>>
<1>1. ASSUME Answer(r.trades, <<code, p>>) # <<>>
      PROVE  p \in {key[2] : key \in DOMAIN r.trades}
  <2>1. <<code, p>> \in DOMAIN r.trades /\ <<code, p>>[2] = p
    BY <1>1 DEF Answer
  <2>2. QED
    BY <2>1
<1>2. \A q \in {key[2] : key \in DOMAIN r.trades} : q \in Quarters
  BY DEF AsksForTrades
<1>3. QED
  BY <1>1, <1>2 DEF WithData

\* _resolve_published_quarter finds the newest published quarter in reach.
LEMMA ResolvedIsNewest ==
    ASSUME NEW r, AsksForTrades(r)
    PROVE  LET period == ResolvePublishedQuarter(r)
           IN  /\ period = NoPeriod <=> Published(r) = {}
               /\ period # NoPeriod => period \in Quarters /\ Linear(period) = Max(Published(r))
<1> DEFINE probed == Probed(r.date)
           now == Linear(CurrentQuarter(r.date))
           has(p) == Answer(r.trades, <<r.codes[1], p>>) # <<>>
           I == {n \in 1..Lookback : has(probed[n])}
           found == IF I # {} THEN Min(I) ELSE 0
           data == WithData(r, r.codes[1])
           P == Published(r)
<1>1. /\ Lookback \in Nat /\ Len(probed) = Lookback /\ now \in Int
      /\ \A n \in 1..Lookback : probed[n] \in Quarters /\ Linear(probed[n]) = now - (n - 1)
  <2>1. r.date \in Int \X (1..12)
    BY DEF AsksForTrades
  <2>2. probed \in Seq(Quarters) /\ Len(probed) = Lookback
    BY <2>1, ProbedAreConsecutive
  <2>3. \A n \in 1..Lookback : Linear(probed[n]) = now - (n - 1)
    BY <2>1, ProbedAreConsecutive
  <2>4. now \in Int
    BY <2>1, QuartersInARow
  <2> HIDE DEF probed
  <2>5. \A n \in 1..Lookback : probed[n] \in Quarters
    BY <2>2
  <2>6. QED
    BY <2>2, <2>3, <2>4, <2>5, LimitAssumption
<1>2. ResolvePublishedQuarter(r) = IF found = 0 THEN NoPeriod ELSE probed[found]
  BY <1>1 DEF ResolvePublishedQuarter, SelectInSeq
<1>3. \A p : p \in data <=> has(p)
  BY WithDataIsAnswered
<1>4. \A p \in data : p \in Quarters
  BY WithDataIsAnswered
<1>5. P = {Linear(p) : p \in data} \cap ((now - Lookback + 1)..now)
  BY DEF Published
<1> HIDE DEF probed, now, has, data, P
<1>6. I # {} => found \in I /\ \A n \in I : found <= n
  <2>1. I \in SUBSET Int /\ IsFiniteSet(I)
    BY <1>1, CountUpTo, FS_Subset
  <2> HIDE DEF I
  <2>2. QED
    BY <2>1, Extremes
<1>7. ASSUME NEW m \in P
      PROVE  \E n \in I : m = now - (n - 1)
  <2>1. PICK p \in data : m = Linear(p)
    BY <1>5, <1>7
  <2>2. m \in (now - Lookback + 1)..now
    BY <1>5, <1>7
  <2>3. (now - m) + 1 \in 1..Lookback /\ now - (((now - m) + 1) - 1) = m
    BY <1>1, <2>2
  <2>4. probed[(now - m) + 1] \in Quarters /\ Linear(probed[(now - m) + 1]) = Linear(p)
    BY <1>1, <2>1, <2>3
  <2>5. probed[(now - m) + 1] = p
    BY <1>4, <2>4, QuartersInARow
  <2>6. (now - m) + 1 \in I
    BY <1>3, <2>3, <2>5
  <2>7. QED
    BY <2>3, <2>6
<1>8. ASSUME NEW n \in I
      PROVE  now - (n - 1) \in P
  <2>1. probed[n] \in data /\ Linear(probed[n]) = now - (n - 1)
    BY <1>1, <1>3, <1>8
  <2>2. now - (n - 1) \in (now - Lookback + 1)..now
    BY <1>1
  <2>3. QED
    BY <1>5, <2>1, <2>2
<1>9. CASE I = {}
  <2>1. P = {} /\ found = 0
    BY <1>7, <1>9
  <2>2. QED
    BY <1>2, <2>1 DEF P
<1>10. CASE I # {}
  <2> DEFINE newest == now - (found - 1)
  <2>1. found \in I /\ found \in 1..Lookback /\ \A n \in I : found <= n
    BY <1>6, <1>10
  <2> HIDE DEF found
  <2>2. newest \in P /\ newest \in Int
    BY <1>1, <1>8, <2>1
  <2>3. ResolvePublishedQuarter(r) = probed[found]
    BY <1>2, <2>1
  <2>4. probed[found] \in Quarters /\ Linear(probed[found]) = newest
    BY <1>1, <2>1
  <2>5. probed[found] # NoPeriod
    BY <2>4 DEF Quarters, NoPeriod
  <2>6. P \subseteq Int /\ \A m \in P : m <= newest
    <3>1. ASSUME NEW m \in P PROVE m \in Int /\ m <= newest
      <4>1. PICK n \in I : m = now - (n - 1)
        BY <1>7
      <4>2. found <= n /\ n \in Int /\ found \in Int
        BY <2>1
      <4>3. QED
        BY <1>1, <4>1, <4>2
    <3>2. QED
      BY <3>1
  <2>7. Max(P) = newest
    <3> HIDE DEF newest
    <3>1. \A x \in P : (\A y \in P : x >= y) => x = newest
      BY <2>2, <2>6
    <3>2. \A y \in P : newest >= y
      BY <2>2, <2>6
    <3>3. QED
      BY <2>2, <3>1, <3>2 DEF Max
  <2>8. QED
    BY <2>2, <2>3, <2>4, <2>5, <2>7 DEF P
<1>11. QED
  BY <1>9, <1>10

\* A filter of numbers keeps one exactly if there is one.
LEMMA NumericIsEmpty ==
    ASSUME NEW values \in Seq(Int \cup {Absent})
    PROVE  Numeric(values) = <<>> <=> \A k \in DOMAIN values : values[k] = Absent
<1> DEFINE K == {k \in DOMAIN values : values[k] # Absent}
           T == Int \cup {Absent}
           kept == Picked(values, K)
<1>1. Numeric(values) = kept
  BY DEF Numeric, Where
<1>2. values \in Seq(T) /\ K \in SUBSET DOMAIN values
  OBVIOUS
<1> HIDE DEF T, K
<1>3. /\ kept \in Seq(T)
      /\ \A n \in DOMAIN kept : \E k \in K : kept[n] = values[k]
      /\ \A k \in K : \E n \in DOMAIN kept : kept[n] = values[k]
  BY <1>2, PickedFacts
<1> HIDE DEF kept
<1>4. kept = <<>> <=> DOMAIN kept = {}
  BY <1>3
<1>5. kept = <<>> <=> K = {}
  BY <1>3, <1>4
<1>6. QED
  BY <1>1, <1>5 DEF K

\* The prices of an answer.
LEMMA PricesOfAnswer ==
    ASSUME NEW r, AsksForTrades(r), NEW key \in DOMAIN r.trades
    PROVE  Prices(r.trades[key]) = <<>> <=>
               \A k \in DOMAIN r.trades[key] : r.trades[key][k].price = Absent
<1> DEFINE records == r.trades[key]
           prices == [k \in DOMAIN records |-> records[k].price]
           R == [price : Int \cup {Absent}, unit : Int \cup {Absent}]
<1>1. records \in Seq(R)
  BY DEF AsksForTrades
<1>2. \A x \in R : x.price \in Int \cup {Absent}
  OBVIOUS
<1>3. Prices(records) = Numeric(prices)
  BY DEF Prices
<1> HIDE DEF records, R
<1>4. DOMAIN records = 1..Len(records) /\ Len(records) \in Nat /\ \A k \in DOMAIN records : records[k] \in R
  BY <1>1
<1>5. /\ prices = [k \in 1..Len(records) |-> prices[k]] /\ DOMAIN prices = DOMAIN records
      /\ \A k \in DOMAIN records : prices[k] = records[k].price
  BY <1>4
<1>6. \A k \in 1..Len(records) : prices[k] \in Int \cup {Absent}
  BY <1>2, <1>4, <1>5
<1> HIDE DEF prices
<1>7. prices \in Seq(Int \cup {Absent})
  <2> DEFINE T == Int \cup {Absent}
  <2>1. \A k \in 1..Len(records) : prices[k] \in T
    BY <1>6
  <2> HIDE DEF T
  <2>2. prices \in Seq(T)
    BY <1>4, <1>5, <2>1, SequenceOf
  <2>3. QED
    BY <2>2 DEF T
<1>8. Numeric(prices) = <<>> <=> \A k \in DOMAIN records : records[k].price = Absent
  BY <1>5, <1>7, NumericIsEmpty
<1>9. QED
  BY <1>3, <1>8 DEF records

Emits(s, key) == \E x \in Range(s) : x.key = key

\* The signals of a city are of the quarter fetched, and its sales are among them.
LEMMA CitySignals ==
    ASSUME NEW r, NEW code, NEW period
    PROVE  /\ FetchCity(r, code, period) \in Seq(Range(FetchCity(r, code, period)))
           /\ \A x \in Range(FetchCity(r, code, period)) : x.period = period
           /\ Prices(Answer(r.trades, <<code, period>>)) # <<>> =>
                  Emits(FetchCity(r, code, period), <<"median_sale_price", code>>)
<1> DEFINE records == Answer(r.trades, <<code, period>>)
           a == [ExternalSignal("median_sale_price", code, r, TwiceMedian(Prices(records)))
                    EXCEPT !.period = period]
           b == [ExternalSignal("median_unit_price", code, r, TwiceMedian(UnitPrices(records)))
                    EXCEPT !.period = period]
           s == IF Prices(records) = <<>> THEN <<>> ELSE <<a>>
           t == IF UnitPrices(records) = <<>> THEN <<>> ELSE <<b>>
           T == {a, b}
           city == s \o t
<1>1. FetchCity(r, code, period) = city
  BY DEF FetchCity, Median
<1>2. a.period = period /\ b.period = period /\ a.key = <<"median_sale_price", code>>
  BY DEF ExternalSignal
<1> HIDE DEF a, b
<1>3. \A x \in T : x.period = period
  BY <1>2
<1>4. s \in Seq(T) /\ t \in Seq(T) /\ (Prices(records) # <<>> => a \in Range(s))
  <2>1. <<a>> \in Seq(T) /\ <<b>> \in Seq(T) /\ <<>> \in Seq(T) /\ a \in Range(<<a>>)
    BY DEF Range
  <2>2. QED
    BY <2>1
<1> HIDE DEF s, t, T
<1>5. city \in Seq(T) /\ Range(city) = Range(s) \cup Range(t)
  BY <1>4, ConcatenationRange
<1> HIDE DEF city
<1>6. Range(city) \subseteq T /\ city \in Seq(Range(city))
  <2>1. Len(city) \in Nat /\ DOMAIN city = 1..Len(city) /\ \A n \in DOMAIN city : city[n] \in T
    BY <1>5
  <2>2. city = [n \in 1..Len(city) |-> city[n]]
    BY <1>5
  <2>3. \A n \in 1..Len(city) : city[n] \in Range(city)
    BY <2>1 DEF Range
  <2>4. city \in Seq(Range(city))
    <3> DEFINE U == Range(city)
    <3>1. \A n \in 1..Len(city) : city[n] \in U
      BY <2>3
    <3> HIDE DEF U
    <3>2. city \in Seq(U)
      BY <2>1, <2>2, <3>1, SequenceOf
    <3>3. QED
      BY <3>2 DEF U
  <2>5. QED
    BY <2>1, <2>4 DEF Range
<1>7. QED
  BY <1>1, <1>2, <1>3, <1>4, <1>5, <1>6 DEF records, Emits

\* A fetch emits the signals of every city it asks for.
LEMMA CitiesTogether ==
    ASSUME NEW r, AsksForTrades(r), NEW period
    PROVE  LET all == Extend(r.codes, [code \in Range(r.codes) |-> FetchCity(r, code, period)])
           IN  /\ DOMAIN all = 1..Len(all)
               /\ \A x : x \in Range(all) <=>
                      \E code \in Range(r.codes) : x \in Range(FetchCity(r, code, period))
<1> DEFINE n == Len(r.codes)
           emit == [code \in Range(r.codes) |-> FetchCity(r, code, period)]
           lists == [i \in DOMAIN r.codes |-> emit[r.codes[i]]]
           T == UNION {Range(FetchCity(r, code, period)) : code \in Range(r.codes)}
           Of(code) == FetchCity(r, code, period)
           codes == r.codes
<1>1. n \in Nat /\ DOMAIN codes = 1..n /\ \A i \in 1..n : codes[i] \in Range(codes)
  BY DEF AsksForTrades, Range
<1>2. Extend(codes, emit) = Joined(lists)
  BY DEF Extend
<1>3. lists = [i \in 1..n |-> lists[i]] /\ \A i \in 1..n : lists[i] = Of(codes[i])
  BY <1>1
<1>4. \A code \in Range(codes) : Of(code) \in Seq(T)
  <2>1. TAKE code \in Range(codes)
  <2> DEFINE city == Of(code)
             R == Range(city)
  <2>2. city \in Seq(R)
    BY CitySignals
  <2>3. R \subseteq T
    OBVIOUS
  <2> HIDE DEF R, T, city
  <2>4. /\ Len(city) \in Nat /\ city = [k \in 1..Len(city) |-> city[k]]
        /\ \A k \in 1..Len(city) : city[k] \in T
    BY <2>2, <2>3
  <2>5. city \in Seq(T)
    BY <2>4, SequenceOf
  <2>6. QED
    BY <2>5 DEF city
<1>5. \A x : x \in T => \E code \in Range(codes) : x \in Range(Of(code))
  OBVIOUS
<1> HIDE DEF Of, T, emit, lists, n
<1>6. lists \in Seq(Seq(T)) /\ DOMAIN lists = 1..n
  <2> DEFINE U == Seq(T)
  <2>1. \A i \in 1..n : lists[i] \in U
    BY <1>1, <1>3, <1>4
  <2> HIDE DEF U
  <2>2. lists \in Seq(U) /\ DOMAIN lists = 1..n
    BY <1>1, <1>3, <2>1, SequenceOf
  <2>3. QED
    BY <2>2 DEF U
<1> DEFINE all == Joined(lists)
<1>7. /\ all \in Seq(T)
      /\ \A x : x \in Range(all) <=> \E i \in DOMAIN lists : x \in Range(lists[i])
  BY <1>6, JoinedRange
<1> HIDE DEF all
<1>8. \A x : x \in Range(all) <=> \E code \in Range(codes) : x \in Range(Of(code))
  <2>1. TAKE x
  <2>2. ASSUME NEW code \in Range(codes), x \in Range(Of(code))
        PROVE  x \in Range(all)
    <3>1. PICK i \in 1..n : code = codes[i]
      BY <1>1 DEF Range
    <3>2. lists[i] = Of(code) /\ i \in DOMAIN lists
      BY <1>3, <1>6, <3>1
    <3>3. QED
      BY <1>7, <2>2, <3>2
  <2>3. ASSUME NEW i \in DOMAIN lists, x \in Range(lists[i])
        PROVE  \E code \in Range(codes) : x \in Range(Of(code))
    <3>1. lists[i] = Of(codes[i]) /\ codes[i] \in Range(codes)
      BY <1>1, <1>3, <1>6
    <3>2. QED
      BY <2>3, <3>1
  <2>4. QED
    BY <1>7, <2>2, <2>3
<1>9. DOMAIN all = 1..Len(all)
  BY <1>7
<1>10. QED
  BY <1>2, <1>8, <1>9 DEF all, Of, emit

\* What a fetch without an explicit quarter emits.
Newest(r, signals) ==
    LET published == Published(r)
        sold(code, p) == /\ p \in WithData(r, code) /\ Linear(p) = Max(published)
                         /\ \E k \in DOMAIN r.trades[<<code, p>>] :
                                r.trades[<<code, p>>][k].price # Absent
    IN  IF published = {} THEN signals = <<>>
        ELSE /\ \A i \in DOMAIN signals : Linear(signals[i].period) = Max(published)
             /\ \A key \in DOMAIN r.trades : sold(key[1], key[2]) /\ key[1] \in Range(r.codes) =>
                    \E i \in DOMAIN signals : signals[i].key = <<"median_sale_price", key[1]>>

LEMMA TransactionsAreNewest ==
    ASSUME NEW r, AsksForTrades(r), ~Explicit(r)
    PROVE  Newest(r, Transactions(r))
<1> DEFINE period == ResolvePublishedQuarter(r)
           signals == Transactions(r)
           P == Published(r)
           all == Extend(r.codes, [code \in Range(r.codes) |-> FetchCity(r, code, period)])
<1>1. period = NoPeriod <=> P = {}
  BY ResolvedIsNewest
<1>2. period # NoPeriod => period \in Quarters /\ Linear(period) = Max(P)
  BY ResolvedIsNewest
<1>3. signals = IF period = NoPeriod THEN <<>> ELSE all
  BY DEF Transactions
<1>4. /\ DOMAIN all = 1..Len(all)
      /\ \A x : x \in Range(all) <=>
             \E code \in Range(r.codes) : x \in Range(FetchCity(r, code, period))
  BY CitiesTogether
<1> HIDE DEF period, signals, all, P
<1>5. CASE P = {}
  BY <1>1, <1>3, <1>5 DEF Newest, signals, P
<1>6. CASE P # {}
  <2>1. signals = all /\ period \in Quarters /\ Linear(period) = Max(P)
    BY <1>1, <1>2, <1>3, <1>6
  <2>2. ASSUME NEW i \in DOMAIN signals
        PROVE  Linear(signals[i].period) = Max(P)
    <3>1. signals[i] \in Range(all)
      BY <2>1 DEF Range
    <3>2. PICK code \in Range(r.codes) : signals[i] \in Range(FetchCity(r, code, period))
      BY <1>4, <3>1
    <3>3. signals[i].period = period
      BY <3>2, CitySignals
    <3>4. QED
      BY <2>1, <3>3
  <2>3. ASSUME NEW code \in Range(r.codes), NEW p \in WithData(r, code), Linear(p) = Max(P),
               NEW k \in DOMAIN r.trades[<<code, p>>], r.trades[<<code, p>>][k].price # Absent
        PROVE  \E i \in DOMAIN signals : signals[i].key = <<"median_sale_price", code>>
    <3>1. p \in Quarters /\ Answer(r.trades, <<code, p>>) # <<>>
      BY WithDataIsAnswered
    <3>2. p = period
      BY <2>1, <2>3, <3>1, QuartersInARow
    <3>3. <<code, p>> \in DOMAIN r.trades /\ Answer(r.trades, <<code, p>>) = r.trades[<<code, p>>]
      BY <3>1 DEF Answer
    <3>4. Prices(Answer(r.trades, <<code, period>>)) # <<>>
      <4>1. Prices(r.trades[<<code, p>>]) # <<>>
        BY <2>3, <3>3, PricesOfAnswer
      <4>2. QED
        BY <3>2, <3>3, <4>1
    <3>5. PICK x \in Range(FetchCity(r, code, period)) : x.key = <<"median_sale_price", code>>
      <4>1. Emits(FetchCity(r, code, period), <<"median_sale_price", code>>)
        BY <3>4, CitySignals
      <4>2. QED
        BY <4>1 DEF Emits
    <3>6. x \in Range(all)
      BY <1>4, <3>5
    <3>7. PICK i \in DOMAIN all : all[i] = x
      BY <3>6 DEF Range
    <3>8. QED
      BY <2>1, <3>5, <3>7
  <2>4. \A i \in DOMAIN signals : Linear(signals[i].period) = Max(P)
    BY <2>2
  <2>5. \A key \in DOMAIN r.trades :
            /\ key[2] \in WithData(r, key[1]) /\ Linear(key[2]) = Max(P)
            /\ \E k \in DOMAIN r.trades[<<key[1], key[2]>>] :
                   r.trades[<<key[1], key[2]>>][k].price # Absent
            /\ key[1] \in Range(r.codes)
            => \E i \in DOMAIN signals : signals[i].key = <<"median_sale_price", key[1]>>
    BY <2>3
  <2>6. QED
    BY <1>6, <2>4, <2>5, Zenon DEF Newest, signals, P
<1>7. QED
  BY <1>5, <1>6

\* What a job under way was asked for, and holds.
Asked ==
    \A j \in Jobs : job[j].phase \notin {"idle", "aborted"} =>
        /\ job[j].request \in DOMAIN Requests
        /\ Signals(j) = FetchSignals(Requests[job[j].request])

LEMMA NextAsked == SInv /\ Asked /\ [Next]_vars => Asked'
<1>1. SUFFICES ASSUME SInv, Asked, [Next]_vars PROVE Asked'
  OBVIOUS
<1>2. job \in [Jobs -> JobRecords]
  BY <1>1 DEF SInv, TypeOK
<1>3. ASSUME NEW j \in Jobs, \A k \in Jobs \ {j} : job'[k] = job[k],
             job'[j].phase \notin {"idle", "aborted"} =>
                 /\ job'[j].request \in DOMAIN Requests
                 /\ job'[j].signals = FetchSignals(Requests[job'[j].request])
      PROVE  Asked'
  <2>1. ASSUME NEW k \in Jobs, job'[k].phase \notin {"idle", "aborted"}
        PROVE  /\ job'[k].request \in DOMAIN Requests
               /\ job'[k].signals = FetchSignals(Requests[job'[k].request])
    <3>1. CASE k = j
      BY <1>3, <2>1, <3>1
    <3>2. CASE k # j
      <4>1. job'[k] = job[k]
        BY <1>3, <3>2
      <4>2. QED
        BY <1>1, <2>1, <4>1 DEF Asked, Signals
    <3>3. QED
      BY <3>1, <3>2
  <2>2. QED
    BY <2>1 DEF Asked, Signals
<1>4. CASE UNCHANGED vars
  BY <1>1, <1>4 DEF vars, Asked, Signals
<1>5. ASSUME NEW j \in Jobs, Fetch(j)
      PROVE  Asked'
  <2>1. PICK name \in Schedule[j] :
          job' = [job EXCEPT ![j] = NewJob("writing", name, FetchSignals(Requests[name]))]
    BY <1>5 DEF Fetch
  <2>2. /\ job'[j].request = name /\ job'[j].signals = FetchSignals(Requests[name])
        /\ \A k \in Jobs \ {j} : job'[k] = job[k]
    BY <1>2, <2>1 DEF NewJob
  <2>3. name \in DOMAIN Requests
    BY ScheduleAssumption
  <2>4. QED
    BY <1>3, <2>2, <2>3
<1>6. ASSUME NEW j \in Jobs, \/ FetchFails(j) \/ Commit(j) \/ Finish(j)
                             \/ job[j].phase = "writing" /\ Abort(j)
                             \/ /\ job[j].phase = "writing"
                                /\ \E change, sent : Sends(j, change, sent)
                             \/ /\ job[j].phase = "writing"
                                /\ \E signal, new, columns : Assigns(j, signal, new, columns)
      PROVE  Asked'
  <2>1. /\ \A k \in Jobs \ {j} : job'[k] = job[k]
        /\ job'[j].request = job[j].request /\ job'[j].signals = job[j].signals
        /\ job'[j].phase \notin {"idle", "aborted"} => job[j].phase \notin {"idle", "aborted"}
    <3>1. job[j] \in JobRecords
      BY <1>2
    <3>2. CASE FetchFails(j) \/ Finish(j)
      BY <1>2, <3>1, <3>2 DEF FetchFails, Finish, JobRecords
    <3>3. CASE Commit(j)
      BY <1>2, <3>1, <3>3 DEF Commit, JobRecords
    <3>4. CASE job[j].phase = "writing" /\ Abort(j)
      BY <1>2, <3>1, <3>4 DEF Abort, JobRecords
    <3>5. ASSUME NEW change, NEW sent, Sends(j, change, sent)
          PROVE  /\ \A k \in Jobs \ {j} : job'[k] = job[k]
                 /\ job'[j].request = job[j].request /\ job'[j].signals = job[j].signals
      BY <1>2, <3>1, <3>5 DEF Sends, JobRecords
    <3>6. ASSUME NEW signal, NEW new, NEW columns, Assigns(j, signal, new, columns)
          PROVE  /\ \A k \in Jobs \ {j} : job'[k] = job[k]
                 /\ job'[j].request = job[j].request /\ job'[j].signals = job[j].signals
      <4>1. Assigned(j, new, columns)
        BY <1>2, <3>6, AssignEffect
      <4> QED BY <4>1 DEF Assigned
    <3>7. QED
      BY <1>6, <3>2, <3>3, <3>4, <3>5, <3>6
  <2>2. job'[j].phase \notin {"idle", "aborted"} =>
            /\ job[j].request \in DOMAIN Requests
            /\ job[j].signals = FetchSignals(Requests[job[j].request])
    BY <1>1, <2>1 DEF Asked, Signals
  <2>3. QED
    BY <1>3, <2>1, <2>2
<1>7. QED
  BY <1>1, <1>4, <1>5, <1>6, Steps

\* The property, of a request and what was fetched for it.
NewestIn(r, signals) ==
    LET now == (4 * r.date[1]) + ((r.date[2] + 2) \div 3)
        data(code) == {p \in {key[2] : key \in DOMAIN r.trades} :
                          Answer(r.trades, <<code, p>>) # <<>>}
        published == {Linear(p) : p \in data(r.codes[1])} \cap ((now - Lookback + 1)..now)
        priced(code, p) == \E k \in DOMAIN r.trades[<<code, p>>] :
                              r.trades[<<code, p>>][k].price # Absent
        sold(code, p) == p \in data(code) /\ Linear(p) = Max(published) /\ priced(code, p)
    IN  IF published = {} THEN signals = <<>>
        ELSE /\ \A i \in DOMAIN signals : Linear(signals[i].period) = Max(published)
             /\ \A key \in DOMAIN r.trades : sold(key[1], key[2]) /\ key[1] \in Range(r.codes) =>
                    \E i \in DOMAIN signals : signals[i].key = <<"median_sale_price", key[1]>>

LEMMA NewestIsNewestIn ==
    ASSUME NEW r, AsksForTrades(r), NEW signals, Newest(r, signals)
    PROVE  NewestIn(r, signals)
<1>1. Linear(CurrentQuarter(r.date)) = (4 * r.date[1]) + ((r.date[2] + 2) \div 3)
  BY QuartersInARow DEF AsksForTrades
<1>2. QED
  BY <1>1, Zenon DEF Newest, NewestIn, Published, WithData

\* "Find the newest quarter MLIT has actually published": for any answers and any
\* day, what a job of reinfolib_transaction holds or has written is of the newest
\* quarter in reach that the first city has data for, with every city that has
\* prices for it, and nothing where there is no such quarter
\* (_resolve_published_quarter, _fetch_city).
THEOREM QuarterIsNewestHolds == Spec => []QuarterIsNewest
<1>1. Init => Asked
  BY DEF Init, NewJob, Asked
<1>2. Asked => QuarterIsNewest
  <2>1. SUFFICES ASSUME Asked, NEW j \in Jobs, job[j].phase \notin {"idle", "aborted"},
                        Requests[job[j].request].source = "reinfolib_transaction",
                        ~Explicit(Requests[job[j].request])
                 PROVE  NewestIn(Requests[job[j].request], Signals(j))
    BY ZenonT(60) DEF QuarterIsNewest, NewestIn
  <2> DEFINE r == Requests[job[j].request]
  <2>2. job[j].request \in DOMAIN Requests /\ Signals(j) = FetchSignals(r)
    BY <2>1 DEF Asked
  <2>3. r.source = "reinfolib_transaction"
    BY <2>1
  <2>4. AsksForTrades(r)
    BY <2>2, <2>3, TradesAssumption DEF AsksForTrades, Quarters
  <2>5. Signals(j) = Transactions(r)
    BY <2>2, <2>3 DEF FetchSignals
  <2>6. Newest(r, Signals(j))
    BY <2>1, <2>4, <2>5, TransactionsAreNewest
  <2> HIDE DEF r
  <2>7. NewestIn(r, Signals(j))
    BY <2>4, <2>6, NewestIsNewestIn
  <2>8. QED
    BY <2>7 DEF r
<1>3. QED
  BY <1>1, <1>2, NextAsked, SessionInvariance, PTL DEF Spec
================================================================================
