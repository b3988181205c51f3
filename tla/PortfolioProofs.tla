----------------------------- MODULE PortfolioProofs -----------------------------
(****************************************************************************)
(* Proofs about Portfolio: for any number of requests, users, addresses and *)
(* files, a request that is refused or fails leaves nothing, and while      *)
(* requests do not overlap imports and from-property repeat no holding.     *)
(*                                                                          *)
(* RInv is the inductive invariant of every interleaving: the points an     *)
(* endpoint can be at, what its session then holds, and whose rows they are *)
(* (RowsOwned): a session inserts rows under its own number only, and takes *)
(* over none but committed ones.  A committed row is thus of a request past *)
(* its commit (TableInv), which is RequestIsAtomic.                         *)
(*                                                                          *)
(* LoneInv adds what holds as long as requests do not overlap: what an      *)
(* import or a from-property read is still so when it writes (ImportAlone,  *)
(* FromPropertyAlone), also after the rows of the file that it has done.    *)
(****************************************************************************)
EXTENDS Portfolio, SequenceTheorems, TLAPS

(****************************************************************************)
(* Requests and sessions, of any kind and at any point.                     *)
(****************************************************************************)
Places == Points \ {"idle"}

ImportRecords ==
    [kind: {"import"}, at: Places, user: Users, rows: Seq(RowType),
     known: SUBSET PortfolioHoldingRow, into: Ids \cup {{}}]
FromPropertyRecords ==
    [kind: {"from_property"}, at: Places, user: Users, property: Properties]
CreateRecords == [kind: {"create_portfolio"}, at: Places, user: Users]
AddRecords == [kind: {"add_holding"}, at: Places, target: Ids, row: Forms]
DeleteRecords == [kind: {"delete_holding", "delete_portfolio"}, at: Places, target: Ids]

RequestRecords ==
    [at: {"idle"}] \cup ImportRecords \cup FromPropertyRecords
    \cup CreateRecords \cup AddRecords \cup DeleteRecords

TxRecords ==
    [profile: BOOLEAN, portfolios: SUBSET InvestorPortfolioRow,
     holdings: SUBSET PortfolioHoldingRow, financials: SUBSET HoldingFinancialsRow,
     gone: SUBSET Ids, count: Nat]

Types ==
    /\ profiles \in SUBSET Users
    /\ portfolios \in SUBSET InvestorPortfolioRow
    /\ holdings \in SUBSET PortfolioHoldingRow
    /\ financials \in SUBSET HoldingFinancialsRow
    /\ request \in [Requests -> RequestRecords]
    /\ tx \in [Requests -> TxRecords]
    /\ overlap \in BOOLEAN

\* The requests that may have left rows, and the past before them all.
Past(n) == n = 0 \/ (n \in Requests /\ request[n].at \in Left)

UniqueIds(table) == \A a, b \in table : a.id = b.id => a = b

\* Which endpoints are at a point; an import that reads holdings has a portfolio.
InPlace(r) ==
    /\ r.at \in {"resolve", "create_profile"} => r.kind \in {"import", "from_property"}
    /\ r.at \in {"read_portfolios", "read_holdings", "rows"} => r.kind = "import"
    /\ r.at \in {"read_holdings", "rows"} => r.into \in Ids
    /\ r.at = "existing" => r.kind = "from_property"
    /\ r.at = "target" => r.kind \notin {"import", "from_property"}
    /\ r.at = "cascade" => r.kind = "delete_portfolio"
    /\ r.at = "commit" => r.kind # "import"

\* What a session holds at a point.
Empty(t) == t.portfolios = {} /\ t.holdings = {} /\ t.financials = {} /\ t.gone = {}

Holds(r, t) ==
    /\ r.at \in Ended \cup {"idle", "resolve", "create_profile", "target", "refresh"} => t = EmptyTx
    /\ r.at \in {"read_portfolios", "existing"} => Empty(t)
    /\ r.at = "read_holdings" => t.holdings = {} /\ t.financials = {} /\ t.gone = {}
    /\ r.at = "rows" => t.gone = {}
    /\ r.at = "cascade" => t.portfolios = {} /\ t.holdings = {} /\ t.financials = {}
    /\ t.profile => r.kind \in {"import", "from_property"}
    /\ t.gone # {} => r.kind \in {"delete_holding", "delete_portfolio"}

\* A session's rows are its own or newer versions of committed ones, and an
\* import knows committed rows.
RowsOwned(q, r, t) ==
    /\ \A p \in t.portfolios : p.id[1] = q /\ p.id[2] < t.count
    /\ \A h \in t.holdings :
          IF h.id[1] = q THEN h.id[2] < t.count ELSE r.at = "rows" /\ Past(h.id[1])
    /\ \A f \in t.financials : f.by = q /\ (f.id[1] = q \/ Past(f.id[1]))
    /\ UniqueIds(t.portfolios) /\ UniqueIds(t.holdings)
    /\ r.at = "rows" => \A k \in r.known : Past(k.id[1])

SessionInv(q, r, t) == InPlace(r) /\ Holds(r, t) /\ RowsOwned(q, r, t)

TableInv ==
    /\ \A row \in portfolios \cup holdings \cup financials : Past(row.id[1])
    /\ \A f \in financials : Past(f.by)
    /\ UniqueIds(portfolios) /\ UniqueIds(holdings)
    /\ \A h \in holdings : h.portfolio \in IdsOf(portfolios)

RInv ==
    /\ Types /\ TableInv
    /\ \A q \in Requests : SessionInv(q, request[q], tx[q])

(****************************************************************************)
(* Requests that do not overlap.                                            *)
(****************************************************************************)
HeldBy(h, user) == \E p \in portfolios : p.id = h.portfolio /\ p.user = user

Shared(h, k) == \E user \in Users : HeldBy(h, user) /\ HeldBy(k, user)

AddressesApart ==
    \A h, k \in holdings :
        CreatorOf(h) = "import" /\ CreatorOf(k) = "import" /\ h.address = k.address /\ Shared(h, k)
        => h = k

PropertiesApart ==
    \A h, k \in holdings :
        /\ CreatorOf(h) = "from_property" /\ CreatorOf(k) = "from_property"
        /\ h.property = k.property /\ Shared(h, k)
        => h = k

\* A holding that from-property made is linked to the property of its address.
Placed ==
    \A h \in holdings : CreatorOf(h) = "from_property" =>
        h.property \in Properties /\ h.address = AddressOf[h.property]

\* A row of a session is a version of a committed one.
Version(h, g) == g.id = h.id /\ g.portfolio = h.portfolio /\ g.address = h.address

\* The rows that an import has yet to do are of a file.
RowsFit(rows) ==
    /\ LinksFollowAddresses => \A i \in DOMAIN rows :
          rows[i].property # Nothing => rows[i].address = AddressOf[rows[i].property]
    /\ FilesRepeatNoAddress => \A i, k \in DOMAIN rows :
          rows[i].address = rows[k].address /\ rows[i].address # Nothing => i = k

\* An import between two rows: it knows what is committed, and holds one row at
\* an address of a file without repetitions.
ImportAlone(q, r, t) ==
    /\ \A k \in r.known : k \in holdings
    /\ \A g \in holdings : HeldBy(g, r.user) => \E k \in r.known : k.address = g.address
    /\ \A h \in t.holdings :
          IF h.id[1] = q
          THEN /\ h.portfolio = r.into
               /\ \A g \in holdings : HeldBy(g, r.user) => g.address # h.address
          ELSE \E g \in holdings :
                  /\ Version(h, g)
                  /\ LinksFollowAddresses /\ CreatorOf(g) = "from_property" => h.property = g.property
    /\ FilesRepeatNoAddress =>
          /\ \A h \in t.holdings : h.id[1] = q => \A i \in DOMAIN r.rows : r.rows[i].address # h.address
          /\ \A h, k \in t.holdings : h.id[1] = q /\ k.id[1] = q /\ h.address = k.address => h = k

FromPropertyAlone(q, r, t) ==
    /\ \A g \in holdings : HeldBy(g, r.user) => g.property # r.property
    /\ \A h \in t.holdings :
          /\ h.property = r.property /\ h.address = AddressOf[r.property]
          /\ \E p \in t.portfolios : p.id = h.portfolio /\ p.user = r.user
    /\ \A h, k \in t.holdings : h = k

LoneSession(q, r, t) ==
    /\ r.at \notin Ended \cup {"idle"} /\ r.kind = "import" => RowsFit(r.rows)
    /\ r.at \in {"read_holdings", "rows"} =>
          \E p \in portfolios \cup t.portfolios : p.id = r.into /\ p.user = r.user
    /\ r.at = "rows" => ImportAlone(q, r, t)
    /\ r.at = "commit" /\ r.kind = "from_property" => FromPropertyAlone(q, r, t)

LoneInv ==
    ~overlap =>
        /\ \A q, other \in Requests : Active(q) /\ Active(other) => q = other
        /\ FilesRepeatNoAddress => AddressesApart
        /\ LinksFollowAddresses => PropertiesApart /\ Placed
        /\ \A q \in Requests : LoneSession(q, request[q], tx[q])

(****************************************************************************)
(* Records                                                                  *)
(****************************************************************************)
LEMMA KindOfRecord ==
    ASSUME NEW r \in RequestRecords, r.at # "idle"
    PROVE  /\ r.at \in Places /\ r.kind \in Writers
           /\ r.kind = "import" => r \in ImportRecords
           /\ r.kind = "from_property" => r \in FromPropertyRecords
           /\ r.kind = "create_portfolio" => r \in CreateRecords
           /\ r.kind = "add_holding" => r \in AddRecords
           /\ r.kind \in {"delete_holding", "delete_portfolio"} => r \in DeleteRecords
BY DEF RequestRecords, ImportRecords, FromPropertyRecords, CreateRecords, AddRecords,
       DeleteRecords, Writers

\* A request moves to another point of its handler.
LEMMA Moved ==
    ASSUME NEW r \in RequestRecords, r.at # "idle", NEW p \in Places
    PROVE  LET m == [r EXCEPT !.at = p]
           IN  /\ m \in RequestRecords /\ m.at = p /\ m.kind = r.kind
               /\ r.kind \in {"import", "from_property", "create_portfolio"} => m.user = r.user
               /\ r.kind = "import" => m.rows = r.rows /\ m.known = r.known /\ m.into = r.into
               /\ r.kind = "from_property" => m.property = r.property
<1> DEFINE m == [r EXCEPT !.at = p]
<1>1. CASE r \in ImportRecords
  <2>1. m \in ImportRecords
    BY <1>1 DEF ImportRecords
  <2> QED BY <1>1, <2>1 DEF ImportRecords, RequestRecords
<1>2. CASE r \in FromPropertyRecords
  <2>1. m \in FromPropertyRecords
    BY <1>2 DEF FromPropertyRecords
  <2> QED BY <1>2, <2>1 DEF FromPropertyRecords, RequestRecords
<1>3. CASE r \in CreateRecords
  <2>1. m \in CreateRecords
    BY <1>3 DEF CreateRecords
  <2> QED BY <1>3, <2>1 DEF CreateRecords, RequestRecords
<1>4. CASE r \in AddRecords
  <2>1. m \in AddRecords
    BY <1>4 DEF AddRecords
  <2> QED BY <1>4, <2>1 DEF AddRecords, RequestRecords
<1>5. CASE r \in DeleteRecords
  <2>1. m \in DeleteRecords
    BY <1>5 DEF DeleteRecords
  <2> QED BY <1>5, <2>1 DEF DeleteRecords, RequestRecords
<1> QED BY <1>1, <1>2, <1>3, <1>4, <1>5 DEF RequestRecords

LEMMA EmptyTxIs ==
    /\ EmptyTx \in TxRecords /\ Empty(EmptyTx) /\ ~EmptyTx.profile
    /\ \A q \in Requests : \A r : r.at # "rows" => RowsOwned(q, r, EmptyTx)
BY DEF EmptyTx, TxRecords, Empty, RowsOwned, UniqueIds

(****************************************************************************)
(* Steps of one session, and what they leave alone.                         *)
(****************************************************************************)
Keeps == \A n \in 0..MaxRequests : Past(n) => Past(n)'

LEMMA IdsAre ==
    ASSUME Types
    PROVE  /\ \A row \in portfolios \cup holdings \cup financials : row.id[1] \in 0..MaxRequests
           /\ \A f \in financials : f.by \in 0..MaxRequests
           /\ Requests \subseteq 0..MaxRequests
           /\ \A q \in Requests : \A row \in tx[q].portfolios \cup tx[q].holdings \cup tx[q].financials :
                 row.id[1] \in 0..MaxRequests
<1>1. \A row \in InvestorPortfolioRow \cup PortfolioHoldingRow \cup HoldingFinancialsRow :
         row.id[1] \in 0..MaxRequests
  BY DEF InvestorPortfolioRow, PortfolioHoldingRow, HoldingFinancialsRow, Ids
<1>2. Requests \subseteq 0..MaxRequests
  BY MaxRequestsAssumption DEF Requests
<1>3. \A f \in financials : f.by \in Requests
  BY DEF Types, HoldingFinancialsRow
<1>4. \A q \in Requests : tx[q] \in TxRecords
  BY DEF Types
<1> QED BY <1>1, <1>2, <1>3, <1>4 DEF Types, TxRecords

LEMMA TableFrame ==
    ASSUME Types, TableInv, UNCHANGED tables, Keeps PROVE TableInv'
<1>1. /\ \A row \in portfolios \cup holdings \cup financials : Past(row.id[1])'
      /\ \A f \in financials : Past(f.by)'
  BY IdsAre DEF TableInv, Keeps
<1> QED BY <1>1 DEF tables, TableInv, UniqueIds, IdsOf

LEMMA RowsOwnedFrame ==
    ASSUME Keeps, NEW q, NEW r, NEW t \in TxRecords, RowsOwned(q, r, t),
           r.at = "rows" => r.known \in SUBSET PortfolioHoldingRow
    PROVE  RowsOwned(q, r, t)'
<1>1. \A row \in PortfolioHoldingRow \cup HoldingFinancialsRow : row.id[1] \in 0..MaxRequests
  BY DEF PortfolioHoldingRow, HoldingFinancialsRow, Ids
<1>2. t.holdings \in SUBSET PortfolioHoldingRow /\ t.financials \in SUBSET HoldingFinancialsRow
  BY DEF TxRecords
<1> QED BY <1>1, <1>2 DEF RowsOwned, Keeps

LEMMA SessionStep ==
    ASSUME RInv, NEW q \in Requests, NEW r \in RequestRecords, NEW t \in TxRecords,
           request' = [request EXCEPT ![q] = r], tx' = [tx EXCEPT ![q] = t],
           UNCHANGED tables, overlap' \in BOOLEAN,
           request[q].at \in Left => r.at \in Left,
           SessionInv(q, r, t)
    PROVE  RInv'
<1>1. /\ request'[q] = r /\ tx'[q] = t
      /\ \A k \in Requests \ {q} : request'[k] = request[k] /\ tx'[k] = tx[k]
  BY DEF RInv, Types
<1>2. Types'
  BY DEF RInv, Types, tables
<1>3. Keeps
  BY <1>1 DEF Keeps, Past
<1>4. TableInv'
  BY <1>3, TableFrame DEF RInv
<1>5. ASSUME NEW k \in Requests, NEW s \in RequestRecords, NEW u \in TxRecords, SessionInv(k, s, u)
      PROVE  SessionInv(k, s, u)'
  <2>1. s.at = "rows" => s.known \in SUBSET PortfolioHoldingRow
    BY <1>5, KindOfRecord DEF SessionInv, InPlace, ImportRecords
  <2>2. RowsOwned(k, s, u)'
    BY <1>3, <1>5, <2>1, RowsOwnedFrame DEF SessionInv
  <2> QED BY <1>5, <2>2 DEF SessionInv
<1>6. ASSUME NEW k \in Requests PROVE SessionInv(k, request[k], tx[k])'
  <2>1. CASE k = q
    <3>1. SessionInv(q, r, t)'
      BY <1>5
    <3> QED BY <1>1, <2>1, <3>1 DEF SessionInv, InPlace, Holds, RowsOwned, Past
  <2>2. CASE k # q
    <3>1. request[k] \in RequestRecords /\ tx[k] \in TxRecords /\ SessionInv(k, request[k], tx[k])
      BY DEF RInv, Types
    <3>2. request'[k] = request[k] /\ tx'[k] = tx[k]
      BY <1>1, <2>2
    <3>3. PICK s \in RequestRecords, u \in TxRecords : s = request[k] /\ u = tx[k]
      BY <3>1
    <3>4. SessionInv(k, s, u)'
      BY <1>5, <3>1, <3>3
    <3> QED BY <3>2, <3>3, <3>4 DEF SessionInv, InPlace, Holds, RowsOwned, Past
  <2> QED BY <2>1, <2>2
<1> QED BY <1>2, <1>4, <1>6 DEF RInv

LEMMA SameTx == ASSUME Types, NEW q \in Requests, tx' = tx PROVE tx' = [tx EXCEPT ![q] = tx[q]]
BY DEF Types

LEMMA StepIs ==
    ASSUME Types, NEW q \in Requests, NEW p, Step(q, p)
    PROVE  request' = [request EXCEPT ![q] = [request[q] EXCEPT !.at = p]]
BY DEF Step, Types

\* A request that is given an answer before anything of it is committed, or
\* after it has nothing more to write.
LEMMA EndKeeps ==
    ASSUME RInv, NEW q \in Requests, request[q].at \notin Left \cup {"idle"},
           NEW outcome \in {"ok", "refused", "error"}, End(q, outcome),
           UNCHANGED tables, overlap' \in BOOLEAN
    PROVE  RInv'
<1> DEFINE r == [request[q] EXCEPT !.at = outcome]
<1>1. outcome \in Places /\ request[q] \in RequestRecords /\ Types
  BY DEF Places, Points, RInv, Types
<1>2. r \in RequestRecords /\ r.at = outcome
  BY <1>1, Moved
<1>3. request' = [request EXCEPT ![q] = r] /\ tx' = [tx EXCEPT ![q] = EmptyTx]
  BY <1>1, StepIs DEF End
<1>4. SessionInv(q, r, EmptyTx)
  BY <1>2, EmptyTxIs DEF SessionInv, InPlace, Holds, Ended, Empty
<1> HIDE DEF r
<1> QED BY <1>2, <1>3, <1>4, EmptyTxIs, SessionStep

LEMMA ReceiveKeeps ==
    ASSUME RInv, NEW q \in Requests,
           \/ ReceiveImport(q) \/ ReceiveFromProperty(q) \/ ReceiveCreate(q) \/ ReceiveAddHolding(q)
           \/ ReceiveDelete(q, "delete_holding", holdings)
           \/ ReceiveDelete(q, "delete_portfolio", portfolios)
    PROVE  RInv'
<1>1. Types /\ request[q] \in RequestRecords
  BY DEF RInv, Types
<1>2. ASSUME NEW r \in RequestRecords, request' = [request EXCEPT ![q] = r], UNCHANGED <<tables, tx>>,
             request[q].at = "idle", overlap' \in BOOLEAN,
             r.at \in {"resolve", "target"}, InPlace(r)
      PROVE  RInv'
  <2>1. tx[q] = EmptyTx
    BY <1>2 DEF RInv, SessionInv, Holds
  <2>2. tx' = [tx EXCEPT ![q] = EmptyTx]
    BY <1>1, <1>2, <2>1, SameTx
  <2>3. SessionInv(q, r, EmptyTx)
    BY <1>2, EmptyTxIs DEF SessionInv, Holds, Empty
  <2> QED BY <1>2, <2>2, <2>3, EmptyTxIs, SessionStep DEF Left
<1>3. \A kind : MayReceive(q, kind) => request[q].at = "idle" /\ overlap' \in BOOLEAN
  BY DEF MayReceive
<1>4. {"resolve", "target"} \subseteq Places
  BY DEF Places, Points
<1>5. CASE ReceiveImport(q)
  <2>1. PICK user \in Users, file \in Files :
          /\ MayReceive(q, "import") /\ UNCHANGED <<tables, tx>>
          /\ request' = [request EXCEPT ![q] = CsvImportRequest(user, file)]
    BY <1>5 DEF ReceiveImport
  <2> DEFINE r == CsvImportRequest(user, file)
  <2>2. r \in ImportRecords
    BY <1>4, FilesAssumption DEF CsvImportRequest, ImportRecords
  <2>3. r \in RequestRecords /\ r.at = "resolve" /\ r.kind = "import"
    BY <2>2 DEF CsvImportRequest, RequestRecords
  <2>4. InPlace(r)
    BY <2>3 DEF InPlace
  <2> HIDE DEF r
  <2> QED BY <1>2, <1>3, <2>1, <2>3, <2>4 DEF r
<1>6. CASE ReceiveFromProperty(q)
  <2>1. PICK user \in Users, property \in Properties :
          /\ MayReceive(q, "from_property") /\ UNCHANGED <<tables, tx>>
          /\ request' = [request EXCEPT ![q] = PortfolioFromPropertyRequest(user, property)]
    BY <1>6 DEF ReceiveFromProperty
  <2> DEFINE r == PortfolioFromPropertyRequest(user, property)
  <2>2. r \in FromPropertyRecords
    BY <1>4 DEF PortfolioFromPropertyRequest, FromPropertyRecords
  <2>3. r \in RequestRecords /\ r.at = "resolve" /\ r.kind = "from_property"
    BY <2>2 DEF PortfolioFromPropertyRequest, RequestRecords
  <2>4. InPlace(r)
    BY <2>3 DEF InPlace
  <2> HIDE DEF r
  <2> QED BY <1>2, <1>3, <2>1, <2>3, <2>4 DEF r
<1>7. CASE ReceiveCreate(q)
  <2>1. PICK user \in Users :
          /\ MayReceive(q, "create_portfolio") /\ UNCHANGED <<tables, tx>>
          /\ request' = [request EXCEPT ![q] = InvestorPortfolioCreate(user)]
    BY <1>7 DEF ReceiveCreate
  <2> DEFINE r == InvestorPortfolioCreate(user)
  <2>2. r \in CreateRecords
    BY <1>4 DEF InvestorPortfolioCreate, CreateRecords
  <2>3. r \in RequestRecords /\ r.at = "target" /\ r.kind = "create_portfolio"
    BY <2>2 DEF InvestorPortfolioCreate, RequestRecords
  <2>4. InPlace(r)
    BY <2>3 DEF InPlace
  <2> HIDE DEF r
  <2> QED BY <1>2, <1>3, <2>1, <2>3, <2>4 DEF r
<1>8. CASE ReceiveAddHolding(q)
  <2>1. PICK p \in portfolios, row \in Forms :
          /\ MayReceive(q, "add_holding") /\ UNCHANGED <<tables, tx>>
          /\ request' = [request EXCEPT ![q] = PortfolioHoldingCreate(p.id, row)]
    BY <1>8 DEF ReceiveAddHolding
  <2> DEFINE r == PortfolioHoldingCreate(p.id, row)
  <2>2. r \in AddRecords
    BY <1>1, <1>4 DEF PortfolioHoldingCreate, AddRecords, Types, InvestorPortfolioRow
  <2>3. r \in RequestRecords /\ r.at = "target" /\ r.kind = "add_holding"
    BY <2>2 DEF PortfolioHoldingCreate, RequestRecords
  <2>4. InPlace(r)
    BY <2>3 DEF InPlace
  <2> HIDE DEF r
  <2> QED BY <1>2, <1>3, <2>1, <2>3, <2>4 DEF r
<1>9. ASSUME NEW kind \in {"delete_holding", "delete_portfolio"}, NEW table, ReceiveDelete(q, kind, table),
             \A item \in table : item.id \in Ids
      PROVE  RInv'
  <2>1. PICK item \in table :
          /\ MayReceive(q, kind) /\ UNCHANGED <<tables, tx>>
          /\ request' = [request EXCEPT ![q] = [kind |-> kind, at |-> "target", target |-> item.id]]
    BY <1>9 DEF ReceiveDelete
  <2> DEFINE r == [kind |-> kind, at |-> "target", target |-> item.id]
  <2>2. r \in DeleteRecords
    BY <1>4, <1>9 DEF DeleteRecords
  <2>3. r \in RequestRecords /\ r.at = "target" /\ r.kind = kind
    BY <2>2 DEF RequestRecords
  <2>4. InPlace(r)
    BY <1>9, <2>3 DEF InPlace
  <2> HIDE DEF r
  <2> QED BY <1>2, <1>3, <2>1, <2>3, <2>4 DEF r
<1>10. \A item \in holdings \cup portfolios : item.id \in Ids
  BY <1>1 DEF Types, InvestorPortfolioRow, PortfolioHoldingRow
<1> QED BY <1>5, <1>6, <1>7, <1>8, <1>9, <1>10

\* A request that goes on, and its session with it.
LEMMA MoveKeeps ==
    ASSUME RInv, NEW q \in Requests, request[q].at \notin Left \cup {"idle"},
           NEW p \in Places, Step(q, p), UNCHANGED tables, overlap' \in BOOLEAN,
           NEW t \in TxRecords, tx' = [tx EXCEPT ![q] = t],
           SessionInv(q, [request[q] EXCEPT !.at = p], t)
    PROVE  RInv'
<1> DEFINE r == [request[q] EXCEPT !.at = p]
<1>1. r \in RequestRecords
  BY Moved DEF RInv, Types
<1>2. request' = [request EXCEPT ![q] = r]
  BY StepIs DEF RInv
<1> HIDE DEF r
<1> QED BY <1>1, <1>2, SessionStep DEF r

LEMMA PlaceNames ==
    /\ {"resolve", "create_profile", "read_portfolios", "read_holdings", "rows", "target",
        "existing", "cascade", "commit", "refresh", "ok", "late_error"} \subseteq Places
BY DEF Places, Points

LEMMA ResolveKeeps ==
    ASSUME RInv, NEW q \in Requests, ResolveUser(q) \/ CreateProfile(q), UNCHANGED overlap
    PROVE  RInv'
<1>1. /\ Types /\ request[q] \in RequestRecords /\ tx[q] = EmptyTx /\ overlap' \in BOOLEAN
      /\ request[q].at \in {"resolve", "create_profile"}
      /\ request[q].kind \in {"import", "from_property"}
  BY DEF RInv, Types, SessionInv, InPlace, Holds, ResolveUser, CreateProfile
<1>2. ASSUME NEW p \in {"create_profile", "read_portfolios", "existing"}, Step(q, p), UNCHANGED tables,
             NEW t \in {EmptyTx, [EmptyTx EXCEPT !.profile = TRUE]}, tx' = [tx EXCEPT ![q] = t],
             p = "create_profile" => t = EmptyTx,
             p # "create_profile" => p = AfterResolve(q)
      PROVE  RInv'
  <2> DEFINE r == [request[q] EXCEPT !.at = p]
  <2>1. r.at = p /\ r.kind = request[q].kind
    BY <1>1, <1>2, Moved, PlaceNames
  <2>2. t \in TxRecords /\ Empty(t) /\ \A s : s.at # "rows" => RowsOwned(q, s, t)
    <3>1. t \in TxRecords /\ Empty(t)
      <4>1. CASE t = EmptyTx
        BY <4>1, EmptyTxIs
      <4>2. CASE t = [EmptyTx EXCEPT !.profile = TRUE]
        BY <4>2 DEF EmptyTx, TxRecords, Empty
      <4> QED BY <1>2, <4>1, <4>2
    <3> QED BY <3>1 DEF Empty, RowsOwned, UniqueIds
  <2>3. InPlace(r) /\ Holds(r, t) /\ RowsOwned(q, r, t)
    BY <1>1, <1>2, <2>1, <2>2 DEF InPlace, Holds, AfterResolve, Ended, Empty
  <2>4. p \in Places
    BY PlaceNames
  <2> QED BY <1>1, <1>2, <2>2, <2>3, <2>4, MoveKeeps DEF SessionInv, Left
<1>3. CASE ResolveUser(q)
  <2>1. PICK p \in {"create_profile", AfterResolve(q)} : Step(q, p)
    BY <1>3 DEF ResolveUser
  <2>2. p \in {"create_profile", "read_portfolios", "existing"}
    BY <2>1 DEF AfterResolve
  <2>3. UNCHANGED tables /\ tx' = [tx EXCEPT ![q] = EmptyTx]
    BY <1>1, <1>3, SameTx DEF ResolveUser
  <2> QED BY <1>2, <2>1, <2>2, <2>3
<1>4. CASE CreateProfile(q) /\ End(q, "error")
  BY <1>1, <1>4, EndKeeps DEF CreateProfile, Left
<1>5. CASE /\ CreateProfile(q) /\ Step(q, AfterResolve(q))
           /\ tx' = [tx EXCEPT ![q].profile = TRUE]
  <2>1. tx' = [tx EXCEPT ![q] = [EmptyTx EXCEPT !.profile = TRUE]]
    BY <1>1, <1>5 DEF Types
  <2>2. AfterResolve(q) \in {"read_portfolios", "existing"} /\ UNCHANGED tables
    BY <1>5 DEF AfterResolve, CreateProfile
  <2> QED BY <1>2, <1>5, <2>1, <2>2
<1> QED BY <1>3, <1>4, <1>5 DEF CreateProfile

(****************************************************************************)
(* Rows a session adds                                                      *)
(****************************************************************************)
LEMMA NextIdIsNew ==
    ASSUME NEW q \in Requests, NEW n \in Nat
    PROVE  <<q, n>> \in Ids /\ <<q, n>>[1] = q /\ <<q, n>>[2] = n
<1>1. q \in 0..MaxRequests
  BY MaxRequestsAssumption DEF Requests
<1> QED BY <1>1 DEF Ids

LEMMA Added ==
    ASSUME NEW q \in Requests, NEW t \in TxRecords, NEW into \in Ids, NEW row,
           row.address \in Addresses, row.property \in Properties \cup {Nothing}
    PROVE  LET a == AddHoldingRows(t, q, into, row)
               h == [id |-> <<q, t.count>>, portfolio |-> into, address |-> row.address,
                     property |-> row.property]
           IN  /\ a \in TxRecords /\ h \in PortfolioHoldingRow
               /\ \A s : RowsOwned(q, s, t) => RowsOwned(q, s, a)
<1> DEFINE a == AddHoldingRows(t, q, into, row)
           h == [id |-> <<q, t.count>>, portfolio |-> into, address |-> row.address,
                 property |-> row.property]
           f == [id |-> <<q, t.count + 1>>, holding |-> <<q, t.count>>, by |-> q]
           fs == t.financials \cup (IF row.financials THEN {f} ELSE {})
<1>1. t.count \in Nat /\ t.count + 1 \in Nat /\ t.count + 2 \in Nat
  BY DEF TxRecords
<1>2. h \in PortfolioHoldingRow /\ f \in HoldingFinancialsRow
  BY <1>1, NextIdIsNew DEF PortfolioHoldingRow, HoldingFinancialsRow
<1>3. a = [t EXCEPT !.count = t.count + 2, !.holdings = t.holdings \cup {h}, !.financials = fs]
  BY DEF AddHoldingRows, TxRecords
<1>4. fs \in SUBSET HoldingFinancialsRow /\ t.holdings \cup {h} \in SUBSET PortfolioHoldingRow
  BY <1>2 DEF TxRecords
<1> HIDE DEF fs, h
<1>5. a \in TxRecords
  BY <1>1, <1>3, <1>4 DEF TxRecords
<1>6. /\ a.holdings = t.holdings \cup {h} /\ a.portfolios = t.portfolios /\ a.gone = t.gone
      /\ a.financials = fs /\ a.count = t.count + 2
  BY <1>3 DEF TxRecords
<1>7. ASSUME NEW s, RowsOwned(q, s, t) PROVE RowsOwned(q, s, a)
  <2>1. h.id[1] = q /\ h.id[2] = t.count
    BY <1>1, NextIdIsNew DEF h
  <2>2. \A row_ \in t.portfolios \cup t.holdings : row_.id[2] \in Nat
    BY DEF TxRecords, InvestorPortfolioRow, PortfolioHoldingRow, Ids
  <2>3. \A g \in fs : g.by = q /\ (g.id[1] = q \/ Past(g.id[1]))
    <3>1. f.by = q /\ f.id[1] = q
      BY <1>1, NextIdIsNew
    <3> QED BY <1>7, <3>1 DEF RowsOwned, fs
  <2>4. \A p \in t.portfolios : p.id[1] = q /\ p.id[2] < t.count + 2
    BY <1>1, <1>7, <2>2 DEF RowsOwned
  <2>5. \A g \in t.holdings \cup {h} :
           IF g.id[1] = q THEN g.id[2] < t.count + 2 ELSE s.at = "rows" /\ Past(g.id[1])
    BY <1>1, <1>7, <2>1, <2>2 DEF RowsOwned
  <2>6. \A g \in t.holdings : g.id # h.id
    BY <1>1, <1>7, <2>1 DEF RowsOwned
  <2>7. UniqueIds(t.holdings \cup {h}) /\ UniqueIds(t.portfolios)
    BY <1>7, <2>6 DEF RowsOwned, UniqueIds
  <2>8. s.at = "rows" => \A k \in s.known : Past(k.id[1])
    BY <1>7 DEF RowsOwned
  <2> HIDE DEF a
  <2> QED BY <1>6, <2>3, <2>4, <2>5, <2>7, <2>8 DEF RowsOwned
<1> QED BY <1>2, <1>5, <1>6, <1>7 DEF h

LEMMA PortfolioAdded ==
    ASSUME NEW q \in Requests, NEW t \in TxRecords, NEW user \in Users
    PROVE  LET p == [id |-> <<q, t.count>>, user |-> user]
               a == AddPortfolioRow(t, q, user)
           IN  /\ a \in TxRecords /\ p \in InvestorPortfolioRow
               /\ \A s : RowsOwned(q, s, t) => RowsOwned(q, s, a)
<1> DEFINE p == [id |-> <<q, t.count>>, user |-> user]
           a == AddPortfolioRow(t, q, user)
<1>1. t.count \in Nat /\ t.count + 1 \in Nat
  BY DEF TxRecords
<1>2. p \in InvestorPortfolioRow /\ p.id[1] = q /\ p.id[2] = t.count
  BY <1>1, NextIdIsNew DEF InvestorPortfolioRow
<1>3. a = [t EXCEPT !.count = t.count + 1, !.portfolios = t.portfolios \cup {p}]
  BY DEF AddPortfolioRow, TxRecords
<1> HIDE DEF p, a
<1>4. a \in TxRecords
  BY <1>1, <1>2, <1>3 DEF TxRecords
<1>5. /\ a.holdings = t.holdings /\ a.portfolios = t.portfolios \cup {p}
      /\ a.financials = t.financials /\ a.gone = t.gone /\ a.count = t.count + 1
  BY <1>3 DEF TxRecords
<1>6. ASSUME NEW s, RowsOwned(q, s, t) PROVE RowsOwned(q, s, a)
  <2>1. \A row \in t.portfolios \cup t.holdings : row.id[2] \in Nat
    BY DEF TxRecords, InvestorPortfolioRow, PortfolioHoldingRow, Ids
  <2>2. \A x \in t.portfolios \cup {p} : x.id[1] = q /\ x.id[2] < t.count + 1
    BY <1>1, <1>2, <1>6, <2>1 DEF RowsOwned
  <2>3. \A x \in t.portfolios : x.id # p.id
    BY <1>1, <1>2, <1>6 DEF RowsOwned
  <2>4. UniqueIds(t.portfolios \cup {p})
    BY <1>6, <2>3 DEF RowsOwned, UniqueIds
  <2>5. \A h \in t.holdings : IF h.id[1] = q THEN h.id[2] < t.count + 1 ELSE s.at = "rows" /\ Past(h.id[1])
    BY <1>1, <1>6, <2>1 DEF RowsOwned
  <2> QED BY <1>5, <1>6, <2>2, <2>4, <2>5 DEF RowsOwned
<1> QED BY <1>2, <1>4, <1>5, <1>6 DEF a, p

(****************************************************************************)
(* _bulk_import_holdings                                                    *)
(****************************************************************************)
LEMMA SeenRows ==
    ASSUME NEW q \in Requests
    PROVE  /\ PortfoliosSeen(q) \subseteq portfolios \cup tx[q].portfolios
           /\ HoldingsSeen(q) \subseteq holdings \cup tx[q].holdings
           /\ FinancialsSeen(q) \subseteq financials \cup tx[q].financials
           /\ tx[q].portfolios \subseteq PortfoliosSeen(q) /\ tx[q].holdings \subseteq HoldingsSeen(q)
           /\ tx[q].financials \subseteq FinancialsSeen(q)
BY DEF PortfoliosSeen, HoldingsSeen, FinancialsSeen, Overlay

\* What an import has at its points.
LEMMA ImportAt ==
    ASSUME RInv, NEW q \in Requests,
           request[q].at \in {"read_portfolios", "read_holdings", "rows"}
    PROVE  /\ Types /\ request[q] \in ImportRecords /\ request[q] \in RequestRecords /\ tx[q] \in TxRecords
           /\ RowsOwned(q, request[q], tx[q]) /\ tx[q].gone = {}
           /\ request[q].at # "rows" => tx[q].holdings = {} /\ tx[q].financials = {}
           /\ request[q].at = "read_portfolios" => tx[q].portfolios = {}
           /\ request[q].at # "read_portfolios" => request[q].into \in Ids
<1>1. Types /\ request[q] \in RequestRecords /\ SessionInv(q, request[q], tx[q])
  BY DEF RInv, Types
<1> QED BY <1>1, KindOfRecord DEF Types, SessionInv, InPlace, Holds, Empty

\* A step of an import to another of its points.
LEMMA ImportKeeps ==
    ASSUME RInv, NEW q \in Requests,
           request[q].at \in {"read_portfolios", "read_holdings", "rows"},
           NEW r \in ImportRecords, r.at \in {"read_holdings", "rows"},
           request' = [request EXCEPT ![q] = r],
           NEW t \in TxRecords, tx' = [tx EXCEPT ![q] = t],
           UNCHANGED tables, overlap' \in BOOLEAN,
           r.into \in Ids, t.gone = {}, RowsOwned(q, r, t),
           r.at = "read_holdings" => t.holdings = {} /\ t.financials = {}
    PROVE  RInv'
<1>1. r \in RequestRecords /\ r.kind = "import"
  BY DEF RequestRecords, ImportRecords
<1>2. SessionInv(q, r, t)
  BY <1>1 DEF SessionInv, InPlace, Holds, Ended
<1>3. request[q].at \notin Left
  BY DEF Left
<1> QED BY <1>1, <1>2, <1>3, SessionStep

LEMMA ReadPortfoliosKeeps ==
    ASSUME RInv, NEW q \in Requests, ReadPortfolios(q), UNCHANGED overlap PROVE RInv'
<1> DEFINE s == request[q]
<1>1. /\ Types /\ s \in ImportRecords /\ tx[q] \in TxRecords /\ s.at = "read_portfolios"
      /\ UNCHANGED tables /\ overlap' \in BOOLEAN
  BY ImportAt DEF ReadPortfolios, Types
<1>2. /\ RowsOwned(q, s, tx[q]) /\ tx[q].gone = {} /\ tx[q].holdings = {} /\ tx[q].financials = {}
  BY <1>1, ImportAt
<1>3. ASSUME NEW id \in Ids PROVE
        LET r == [s EXCEPT !.at = "read_holdings", !.into = id]
        IN  r \in ImportRecords /\ r.at = "read_holdings" /\ r.into = id
  BY <1>1, PlaceNames DEF ImportRecords
<1>4. ASSUME NEW p \in OfUser(q, s.user), UNCHANGED tx,
             request' = [request EXCEPT ![q].at = "read_holdings", ![q].into = p.id]
      PROVE  RInv'
  <2> DEFINE r == [s EXCEPT !.at = "read_holdings", !.into = p.id]
  <2>1. p.id \in Ids
    BY <1>1, SeenRows DEF OfUser, Types, TxRecords, InvestorPortfolioRow
  <2>2. request' = [request EXCEPT ![q] = r] /\ tx' = [tx EXCEPT ![q] = tx[q]]
    BY <1>1, <1>4 DEF Types
  <2>3. RowsOwned(q, r, tx[q])
    BY <1>2, <1>3, <2>1 DEF RowsOwned
  <2> QED BY <1>1, <1>2, <1>3, <2>1, <2>2, <2>3, ImportKeeps
<1>5. CASE /\ InsertPortfolio(q, s.user)
           /\ request' = [request EXCEPT ![q].at = "read_holdings", ![q].into = NextId(q)]
  <2> DEFINE r == [s EXCEPT !.at = "read_holdings", !.into = NextId(q)]
             a == AddPortfolioRow(tx[q], q, s.user)
  <2>1. NextId(q) \in Ids
    BY <1>1, NextIdIsNew DEF NextId, TxRecords
  <2>2. request' = [request EXCEPT ![q] = r] /\ tx' = [tx EXCEPT ![q] = a]
    BY <1>1, <1>5 DEF Types, InsertPortfolio, NextId
  <2>3. s.user \in Users
    BY <1>1 DEF ImportRecords
  <2>4. /\ a \in TxRecords /\ a.holdings = {} /\ a.financials = {} /\ a.gone = {}
        /\ RowsOwned(q, s, a)
    <3>1. a \in TxRecords /\ \A x : RowsOwned(q, x, tx[q]) => RowsOwned(q, x, a)
      BY <1>1, <2>3, PortfolioAdded
    <3>2. a.holdings = tx[q].holdings /\ a.financials = tx[q].financials /\ a.gone = tx[q].gone
      BY <1>1 DEF AddPortfolioRow, TxRecords
    <3> QED BY <1>2, <3>1, <3>2
  <2>5. RowsOwned(q, r, a)
    BY <1>3, <2>1, <2>4 DEF RowsOwned
  <2> HIDE DEF a, r
  <2>6. r \in ImportRecords /\ r.at = "read_holdings" /\ r.into = NextId(q)
    BY <1>3, <2>1 DEF r
  <2> QED BY <1>1, <2>1, <2>2, <2>4, <2>5, <2>6, ImportKeeps
<1> QED BY <1>1, <1>4, <1>5 DEF ReadPortfolios

LEMMA ReadHoldingsKeeps ==
    ASSUME RInv, NEW q \in Requests, ReadHoldings(q), UNCHANGED overlap PROVE RInv'
<1> DEFINE s == request[q]
<1>1. /\ Types /\ s \in ImportRecords /\ tx[q] \in TxRecords /\ s.at = "read_holdings"
      /\ UNCHANGED tables /\ overlap' \in BOOLEAN
  BY ImportAt DEF ReadHoldings, Types
<1>2. RowsOwned(q, s, tx[q]) /\ tx[q].gone = {} /\ tx[q].holdings = {} /\ tx[q].financials = {}
  BY <1>1, ImportAt
<1>3. PICK known \in SUBSET HoldingsSeen(q) :
        request' = [request EXCEPT ![q].at = "rows", ![q].known = known]
  BY DEF ReadHoldings
<1> DEFINE r == [s EXCEPT !.at = "rows", !.known = known]
<1>4. known \subseteq holdings
  BY <1>2, SeenRows
<1>5. known \in SUBSET PortfolioHoldingRow
  BY <1>1, <1>4 DEF Types
<1>6. r \in ImportRecords /\ r.at = "rows" /\ r.known = known /\ r.into = s.into /\ s.into \in Ids
  BY <1>1, <1>5, ImportAt, PlaceNames DEF ImportRecords
<1>7. request' = [request EXCEPT ![q] = r] /\ tx' = [tx EXCEPT ![q] = tx[q]]
  BY <1>1, <1>3 DEF Types, ReadHoldings
<1>8. \A k \in known : Past(k.id[1])
  BY <1>4 DEF RInv, TableInv
<1> HIDE DEF r
<1>9. RowsOwned(q, r, tx[q])
  BY <1>2, <1>6, <1>8 DEF RowsOwned
<1> QED BY <1>1, <1>2, <1>6, <1>7, <1>9, ImportKeeps

\* An import goes on to its next row.
LEMMA RowDone ==
    ASSUME RInv, NEW q \in Requests, request[q].at = "rows", request[q].rows # <<>>, NextRow(q)
    PROVE  LET r == [request[q] EXCEPT !.rows = Tail(@)]
           IN  /\ request' = [request EXCEPT ![q] = r]
               /\ r \in ImportRecords /\ r.at = "rows" /\ r.known = request[q].known
               /\ r.into = request[q].into /\ r.user = request[q].user
               /\ r.rows = Tail(request[q].rows)
               /\ Head(request[q].rows) \in RowType
<1>1. Types /\ request[q] \in ImportRecords
  BY ImportAt
<1>2. request[q].rows \in Seq(RowType)
  BY <1>1 DEF ImportRecords
<1>3. Tail(request[q].rows) \in Seq(RowType) /\ Head(request[q].rows) \in RowType
  BY <1>2, HeadTailProperties
<1> QED BY <1>1, <1>3 DEF NextRow, ImportRecords, Types

LEMMA OverlayUnique ==
    ASSUME NEW old, NEW new, NEW gone, UniqueIds(old), UniqueIds(new)
    PROVE  UniqueIds(Overlay(old, new, gone))
BY DEF Overlay, UniqueIds

\* The known holding's update: what the session holds afterwards.
Updated(q, row, match) ==
    IF row.property \in {Nothing, match.property} THEN {}
    ELSE {[match EXCEPT !.property = row.property]}

LEMMA UpdateEffect ==
    ASSUME RInv, NEW q \in Requests, request[q].at = "rows", request[q].rows # <<>>,
           NEW match \in request[q].known, NEW row, row \in RowType,
           UpdateHolding(q, row, match), ~End(q, "error")
    PROVE  /\ NextRow(q)
           /\ \E t \in TxRecords :
                 /\ tx' = [tx EXCEPT ![q] = t] /\ t.gone = {} /\ t.portfolios = tx[q].portfolios
                 /\ t.holdings = Overlay(tx[q].holdings, Updated(q, row, match), {})
                 /\ \A s : s.at = "rows" /\ RowsOwned(q, s, tx[q]) /\ match \in s.known => RowsOwned(q, s, t)
<1>1. /\ Types /\ request[q] \in ImportRecords /\ tx[q] \in TxRecords
      /\ RowsOwned(q, request[q], tx[q]) /\ tx[q].gone = {}
  BY ImportAt
<1> DEFINE fins == FinancialsOf(q, match.id)
           written == IF ~row.financials THEN {}
                      ELSE IF fins = {} THEN {[id |-> NextId(q), holding |-> match.id, by |-> q]}
                      ELSE {[f EXCEPT !.by = q] : f \in fins}
           updated == Updated(q, row, match)
           hs == Overlay(tx[q].holdings, updated, {})
           fs == Overlay(tx[q].financials, written, {})
           t == [tx[q] EXCEPT !.count = tx[q].count + 1, !.holdings = hs, !.financials = fs]
<1>2. /\ NextRow(q)
      /\ tx' = [tx EXCEPT ![q].count = @ + 1, ![q].holdings = Overlay(@, updated, {}),
                          ![q].financials = Overlay(@, written, {})]
  BY DEF UpdateHolding, Updated
<1>3. tx' = [tx EXCEPT ![q] = t]
  BY <1>1, <1>2 DEF Types
<1>4. /\ match \in PortfolioHoldingRow /\ match.id \in Ids /\ Past(match.id[1])
      /\ match.id[1] \in 0..MaxRequests
  BY <1>1 DEF ImportRecords, PortfolioHoldingRow, Ids, RowsOwned
<1>5. \A u \in updated : u \in PortfolioHoldingRow /\ u.id = match.id
  BY <1>4 DEF Updated, PortfolioHoldingRow, RowType
<1>6. \A f \in written : /\ f \in HoldingFinancialsRow /\ f.by = q
                         /\ f.id[1] = q \/ Past(f.id[1])
  <2>1. CASE fins = {}
    <3> DEFINE f == [id |-> NextId(q), holding |-> match.id, by |-> q]
    <3>1. NextId(q) \in Ids /\ NextId(q)[1] = q
      BY <1>1, NextIdIsNew DEF NextId, TxRecords
    <3>2. f \in HoldingFinancialsRow /\ f.by = q /\ f.id[1] = q
      BY <1>4, <3>1 DEF HoldingFinancialsRow
    <3> QED BY <2>1, <3>2
  <2>2. CASE fins # {}
    <3> SUFFICES ASSUME NEW g \in fins
                 PROVE  LET f == [g EXCEPT !.by = q]
                        IN f \in HoldingFinancialsRow /\ f.by = q /\ (f.id[1] = q \/ Past(f.id[1]))
      BY <2>2
    <3>1. g \in financials \/ g \in tx[q].financials
      BY SeenRows DEF FinancialsOf
    <3>2. g \in HoldingFinancialsRow
      BY <1>1, <3>1 DEF Types, TxRecords
    <3>3. g.id[1] = q \/ Past(g.id[1])
      BY <1>1, <3>1 DEF RInv, TableInv, RowsOwned
    <3> QED BY <3>2, <3>3 DEF HoldingFinancialsRow
  <2> QED BY <2>1, <2>2
<1> HIDE DEF written, updated
<1>7. /\ hs \in SUBSET PortfolioHoldingRow /\ fs \in SUBSET HoldingFinancialsRow
      /\ tx[q].count \in Nat /\ tx[q].count + 1 \in Nat
  BY <1>1, <1>5, <1>6 DEF Overlay, TxRecords
<1> HIDE DEF hs, fs
<1>8. t \in TxRecords
  BY <1>1, <1>7 DEF TxRecords
<1>9. /\ t.gone = {} /\ t.portfolios = tx[q].portfolios /\ t.holdings = hs
      /\ t.financials = fs /\ t.count = tx[q].count + 1
  BY <1>1 DEF TxRecords
<1> HIDE DEF t
<1>10. ASSUME NEW s, s.at = "rows", RowsOwned(q, s, tx[q]), match \in s.known PROVE RowsOwned(q, s, t)
  <2>1. \A p \in tx[q].portfolios : p.id[2] \in Nat
    BY <1>1 DEF TxRecords, InvestorPortfolioRow, Ids
  <2>2. \A h \in tx[q].holdings : h.id[2] \in Nat
    BY <1>1 DEF TxRecords, PortfolioHoldingRow, Ids
  <2>3. match.id[1] # q
    <3>1. request[q].at \notin Left /\ q # 0
      BY MaxRequestsAssumption DEF Left, Requests
    <3> QED BY <1>4, <3>1 DEF Past
  <2>4. \A h \in hs : IF h.id[1] = q THEN h.id[2] < tx[q].count + 1 ELSE s.at = "rows" /\ Past(h.id[1])
    BY <1>4, <1>5, <1>7, <1>10, <2>2, <2>3 DEF hs, Overlay, RowsOwned
  <2>5. \A f \in fs : f.by = q /\ (f.id[1] = q \/ Past(f.id[1]))
    BY <1>6, <1>10 DEF fs, Overlay, RowsOwned
  <2>6. UniqueIds(hs)
    <3>1. UniqueIds(updated)
      BY DEF updated, Updated, UniqueIds
    <3> QED BY <1>10, <3>1, OverlayUnique DEF hs, RowsOwned
  <2>7. \A p \in tx[q].portfolios : p.id[1] = q /\ p.id[2] < tx[q].count + 1
    BY <1>7, <1>10, <2>1, SMTT(60) DEF RowsOwned
  <2> QED BY <1>9, <1>10, <2>4, <2>5, <2>6, <2>7 DEF RowsOwned
<1> QED BY <1>2, <1>3, <1>8, <1>9, <1>10 DEF hs, updated

\* What one row of the file does: nothing, a refusal, an insert or an update.
LEMMA RowSteps ==
    ASSUME RInv, NEW q \in Requests, ImportRow(q)
    PROVE  LET row == Head(request[q].rows)
           IN  /\ request[q].at = "rows" /\ request[q].rows # <<>> /\ UNCHANGED tables
               /\ \/ End(q, "refused") \/ End(q, "error")
                  \/ row.address = Nothing /\ NextRow(q) /\ UNCHANGED tx
                  \/ /\ row.address # Nothing /\ NextRow(q)
                     /\ \A k \in request[q].known : k.address # row.address
                     /\ tx' = [tx EXCEPT ![q] = AddHoldingRows(tx[q], q, request[q].into, row)]
                  \/ /\ row.address # Nothing
                     /\ \E match \in request[q].known :
                           match.address = row.address /\ ~End(q, "error")
                           /\ UpdateHolding(q, row, match)
<1>1. tx \in [Requests -> TxRecords]
  BY DEF RInv, Types
<1> QED BY <1>1 DEF ImportRow, UpdateHolding

LEMMA RowKeeps ==
    ASSUME RInv, NEW q \in Requests, ImportRow(q), UNCHANGED overlap PROVE RInv'
<1> DEFINE row == Head(request[q].rows)
           r == [request[q] EXCEPT !.rows = Tail(@)]
<1>1. /\ request[q].at = "rows" /\ request[q].rows # <<>> /\ UNCHANGED tables
      /\ overlap' \in BOOLEAN
  BY RowSteps DEF RInv, Types
<1>2. /\ Types /\ request[q] \in ImportRecords /\ tx[q] \in TxRecords
      /\ RowsOwned(q, request[q], tx[q]) /\ tx[q].gone = {} /\ request[q].into \in Ids
  BY <1>1, ImportAt
<1>3. CASE End(q, "refused") \/ End(q, "error")
  BY <1>1, <1>3, EndKeeps DEF Left
<1>4. ASSUME NextRow(q), NEW t \in TxRecords, tx' = [tx EXCEPT ![q] = t], t.gone = {},
             \A s : s.at = "rows" /\ s.known = request[q].known /\ RowsOwned(q, s, tx[q])
                    => RowsOwned(q, s, t)
      PROVE  RInv'
  <2>1. /\ request' = [request EXCEPT ![q] = r]
        /\ r \in ImportRecords /\ r.at = "rows" /\ r.known = request[q].known
        /\ r.into = request[q].into
    BY <1>1, <1>4, RowDone
  <2> HIDE DEF r
  <2>2. RowsOwned(q, r, tx[q])
    BY <1>1, <1>2, <2>1 DEF RowsOwned
  <2>3. RowsOwned(q, r, t)
    BY <1>4, <2>1, <2>2
  <2> QED BY <1>1, <1>2, <1>4, <2>1, <2>3, ImportKeeps
<1>5. CASE row.address = Nothing /\ NextRow(q) /\ UNCHANGED tx
  BY <1>2, <1>4, <1>5, SameTx
<1>6. CASE /\ row.address # Nothing /\ NextRow(q)
           /\ tx' = [tx EXCEPT ![q] = AddHoldingRows(tx[q], q, request[q].into, row)]
  <2>1. row \in RowType
    BY <1>1, <1>6, RowDone
  <2>2. row.address \in Addresses /\ row.property \in Properties \cup {Nothing}
    BY <1>6, <2>1 DEF RowType
  <2> DEFINE t == AddHoldingRows(tx[q], q, request[q].into, row)
  <2>3. t \in TxRecords /\ t.gone = {} /\ \A s : RowsOwned(q, s, tx[q]) => RowsOwned(q, s, t)
    <3>1. t \in TxRecords /\ \A s : RowsOwned(q, s, tx[q]) => RowsOwned(q, s, t)
      BY <1>2, <2>2, Added
    <3>2. t.gone = tx[q].gone
      BY <1>2 DEF AddHoldingRows, TxRecords
    <3> QED BY <1>2, <3>1, <3>2
  <2> HIDE DEF t, r, row
  <2>4. tx' = [tx EXCEPT ![q] = t]
    BY <1>6 DEF t
  <2> QED BY <1>4, <1>6, <2>3, <2>4
<1>7. ASSUME NEW match \in request[q].known, ~End(q, "error"), UpdateHolding(q, row, match)
      PROVE  RInv'
  <2>1. NextRow(q)
    BY <1>7 DEF UpdateHolding
  <2>2. row \in RowType
    BY <1>1, <2>1, RowDone
  <2>3. \E t \in TxRecords :
           /\ tx' = [tx EXCEPT ![q] = t] /\ t.gone = {}
           /\ \A s : s.at = "rows" /\ RowsOwned(q, s, tx[q]) /\ match \in s.known => RowsOwned(q, s, t)
    BY <1>1, <1>7, <2>2, UpdateEffect
  <2> HIDE DEF r, row
  <2> QED BY <1>4, <1>7, <2>1, <2>3
<1> QED BY <1>3, <1>5, <1>6, <1>7, RowSteps

(****************************************************************************)
(* The other endpoints.                                                     *)
(****************************************************************************)
\* A handler has its writes ready and goes on to commit them.
LEMMA ReadyKeeps ==
    ASSUME RInv, NEW q \in Requests,
           request[q].at \in {"existing", "target", "cascade"}, NEW p \in {"cascade", "commit"}, Step(q, p),
           UNCHANGED tables, overlap' \in BOOLEAN,
           NEW t \in TxRecords, tx' = [tx EXCEPT ![q] = t], t.profile = tx[q].profile,
           p = "cascade" => request[q].kind = "delete_portfolio"
                            /\ t.portfolios = {} /\ t.holdings = {} /\ t.financials = {},
           t.gone = tx[q].gone \/ request[q].kind \in {"delete_holding", "delete_portfolio"},
           \A s : s.at # "rows" => RowsOwned(q, s, t)
    PROVE  RInv'
<1> DEFINE r == [request[q] EXCEPT !.at = p]
<1>1. request[q] \in RequestRecords /\ p \in Places
  BY PlaceNames DEF RInv, Types
<1>2. r.at = p /\ r.kind = request[q].kind
  BY <1>1, Moved
<1>3. /\ request[q].kind # "import"
      /\ tx[q].profile => request[q].kind \in {"import", "from_property"}
      /\ tx[q].gone # {} => request[q].kind \in {"delete_holding", "delete_portfolio"}
  BY DEF RInv, SessionInv, InPlace, Holds
<1> HIDE DEF r
<1>4. SessionInv(q, r, t)
  BY <1>2, <1>3 DEF SessionInv, InPlace, Holds, Ended
<1> QED BY <1>1, <1>4, MoveKeeps DEF Left, r

LEMMA FromPropertyKeeps ==
    ASSUME RInv, NEW q \in Requests, FromProperty(q), UNCHANGED overlap PROVE RInv'
<1> DEFINE user == request[q].user
           property == request[q].property
           row == [address |-> AddressOf[property], property |-> property, financials |-> TRUE]
           a == AddPortfolioRow(tx[q], q, user)
           t == AddHoldingRows(a, q, NextId(q), row)
<1>1. /\ Types /\ request[q] \in RequestRecords /\ tx[q] \in TxRecords /\ overlap' \in BOOLEAN
      /\ request[q].at = "existing" /\ UNCHANGED tables /\ SessionInv(q, request[q], tx[q])
  BY DEF RInv, Types, FromProperty
<1>2. request[q] \in FromPropertyRecords
  BY <1>1, KindOfRecord DEF SessionInv, InPlace
<1>3. user \in Users /\ row.address \in Addresses /\ row.property \in Properties
  BY <1>2, AddressOfAssumption DEF FromPropertyRecords
<1>4. CASE End(q, "ok") \/ End(q, "error")
  BY <1>1, <1>4, EndKeeps DEF Left
<1>5. CASE /\ Step(q, "commit")
           /\ tx' = [tx EXCEPT ![q] = AddHoldingRows(AddPortfolioRow(@, q, user), q, NextId(q), row)]
  <2>1. tx' = [tx EXCEPT ![q] = t]
    BY <1>1, <1>5 DEF Types
  <2>2. a \in TxRecords /\ \A s : RowsOwned(q, s, tx[q]) => RowsOwned(q, s, a)
    BY <1>1, <1>3, PortfolioAdded
  <2>3. NextId(q) \in Ids
    BY <1>1, NextIdIsNew DEF NextId, TxRecords
  <2>4. a.profile = tx[q].profile /\ a.gone = tx[q].gone
    BY <1>1 DEF AddPortfolioRow, TxRecords
  <2> HIDE DEF a, row
  <2>5. t \in TxRecords /\ \A s : RowsOwned(q, s, a) => RowsOwned(q, s, t)
    BY <1>3, <2>2, <2>3, Added
  <2>6. t.profile = tx[q].profile /\ t.gone = tx[q].gone
    BY <2>2, <2>4 DEF AddHoldingRows, TxRecords
  <2> HIDE DEF t
  <2>7. ASSUME NEW s, s.at # "rows" PROVE RowsOwned(q, s, t)
    <3>1. RowsOwned(q, s, tx[q])
      BY <1>1, <2>7 DEF SessionInv, Holds, Empty, RowsOwned, UniqueIds
    <3> QED BY <2>2, <2>5, <3>1
  <2> QED BY <1>1, <1>5, <2>1, <2>5, <2>6, <2>7, ReadyKeeps
<1> QED BY <1>4, <1>5 DEF FromProperty

LEMMA TargetKeeps ==
    ASSUME RInv, NEW q \in Requests, UNCHANGED overlap,
           \/ CreatePortfolio(q) \/ AddHolding(q) \/ DeleteHolding(q) \/ DeletePortfolio(q)
    PROVE  RInv'
<1>1. /\ Types /\ request[q] \in RequestRecords /\ tx[q] \in TxRecords /\ overlap' \in BOOLEAN
      /\ request[q].at = "target" /\ UNCHANGED tables /\ tx[q] = EmptyTx
  BY DEF RInv, Types, SessionInv, Holds, CreatePortfolio, AddHolding, DeleteHolding, DeletePortfolio
<1>2. \A s : s.at # "rows" => RowsOwned(q, s, tx[q])
  BY <1>1, EmptyTxIs
<1>3. CASE End(q, "refused")
  BY <1>1, <1>3, EndKeeps DEF Left
<1>4. CASE CreatePortfolio(q) /\ InsertPortfolio(q, request[q].user) /\ Step(q, "commit")
  <2> DEFINE a == AddPortfolioRow(tx[q], q, request[q].user)
  <2>1. request[q].user \in Users
    BY <1>1, <1>4, KindOfRecord DEF CreatePortfolio, CreateRecords
  <2>2. tx' = [tx EXCEPT ![q] = a]
    BY <1>1, <1>4 DEF Types, InsertPortfolio, NextId
  <2>3. a \in TxRecords /\ \A s : RowsOwned(q, s, tx[q]) => RowsOwned(q, s, a)
    BY <1>1, <2>1, PortfolioAdded
  <2>4. a.profile = tx[q].profile /\ a.gone = tx[q].gone
    BY <1>1 DEF AddPortfolioRow, TxRecords
  <2> HIDE DEF a
  <2> QED BY <1>1, <1>2, <1>4, <2>2, <2>3, <2>4, ReadyKeeps
<1>5. CASE /\ AddHolding(q) /\ Step(q, "commit")
           /\ tx' = [tx EXCEPT ![q] = AddHoldingRows(@, q, request[q].target, request[q].row)]
  <2> DEFINE t == AddHoldingRows(tx[q], q, request[q].target, request[q].row)
  <2>1. request[q].target \in Ids /\ request[q].row \in Forms
    BY <1>1, <1>5, KindOfRecord DEF AddHolding, AddRecords
  <2>2. request[q].row.address \in Addresses /\ request[q].row.property \in Properties \cup {Nothing}
    <3>1. PICK file \in Files : request[q].row \in Range(file)
      BY <2>1 DEF Forms
    <3>2. file \in Seq(RowType)
      BY FilesAssumption
    <3>3. request[q].row \in RowType
      BY <3>1, <3>2, ElementOfSeq, LenProperties DEF Range
    <3> QED BY <2>1, <3>3 DEF Forms, RowType
  <2>3. tx' = [tx EXCEPT ![q] = t]
    BY <1>1, <1>5 DEF Types
  <2>4. t \in TxRecords /\ \A s : RowsOwned(q, s, tx[q]) => RowsOwned(q, s, t)
    BY <1>1, <2>1, <2>2, Added
  <2>5. t.profile = tx[q].profile /\ t.gone = tx[q].gone
    BY <1>1 DEF AddHoldingRows, TxRecords
  <2> HIDE DEF t
  <2> QED BY <1>1, <1>2, <1>5, <2>3, <2>4, <2>5, ReadyKeeps
<1>6. ASSUME NEW gone \in SUBSET Ids, tx' = [tx EXCEPT ![q].gone = gone],
             NEW p \in {"cascade", "commit"}, Step(q, p),
             request[q].kind \in {"delete_holding", "delete_portfolio"},
             p = "cascade" => request[q].kind = "delete_portfolio"
      PROVE  RInv'
  <2> DEFINE t == [tx[q] EXCEPT !.gone = gone]
  <2>1. tx' = [tx EXCEPT ![q] = t]
    BY <1>1, <1>6 DEF Types
  <2>2. t \in TxRecords /\ t.profile = tx[q].profile
    BY <1>1 DEF TxRecords
  <2>3. /\ t.portfolios = {} /\ t.holdings = {} /\ t.financials = {}
    BY <1>1 DEF EmptyTx
  <2> HIDE DEF t
  <2>4. \A s : s.at # "rows" => RowsOwned(q, s, t)
    BY <2>3 DEF RowsOwned, UniqueIds
  <2> QED BY <1>1, <1>6, <2>1, <2>2, <2>3, <2>4, ReadyKeeps
<1>7. request[q].kind \in {"delete_holding", "delete_portfolio"} => request[q].target \in Ids
  BY <1>1, KindOfRecord DEF DeleteRecords
<1>8. CASE DeleteHolding(q) /\ Step(q, "commit")
  <2> DEFINE gone == {f.id : f \in {f \in financials : f.holding = request[q].target}} \cup {request[q].target}
  <2>1. gone \in SUBSET Ids /\ request[q].kind = "delete_holding"
    BY <1>1, <1>7, <1>8 DEF DeleteHolding, Types, HoldingFinancialsRow
  <2>2. CASE tx' = [tx EXCEPT ![q].gone = gone]
    BY <1>6, <1>8, <2>1, <2>2
  <2> QED BY <1>3, <1>8, <2>2 DEF DeleteHolding
<1>9. CASE DeletePortfolio(q) /\ Step(q, "cascade")
  <2> DEFINE gone == {request[q].target} \cup
                {h.id : h \in {h \in holdings : h.portfolio = request[q].target}}
  <2>1. gone \in SUBSET Ids /\ request[q].kind = "delete_portfolio"
    BY <1>1, <1>7, <1>9 DEF DeletePortfolio, Types, PortfolioHoldingRow
  <2>2. CASE tx' = [tx EXCEPT ![q].gone = gone]
    BY <1>6, <1>9, <2>1, <2>2
  <2> QED BY <1>3, <1>9, <2>2 DEF DeletePortfolio
<1> QED BY <1>3, <1>4, <1>5, <1>8, <1>9 DEF CreatePortfolio, AddHolding, DeleteHolding, DeletePortfolio

LEMMA CascadeKeeps ==
    ASSUME RInv, NEW q \in Requests, Cascade(q), UNCHANGED overlap PROVE RInv'
<1> DEFINE gone == tx[q].gone \cup {f.id : f \in {f \in financials : f.holding \in tx[q].gone}}
           t == [tx[q] EXCEPT !.gone = gone]
<1>1. /\ Types /\ tx[q] \in TxRecords /\ overlap' \in BOOLEAN /\ request[q].at = "cascade"
      /\ UNCHANGED tables /\ Step(q, "commit")
      /\ tx[q].portfolios = {} /\ tx[q].holdings = {} /\ tx[q].financials = {}
      /\ request[q].kind = "delete_portfolio"
  BY DEF RInv, Types, SessionInv, InPlace, Holds, Cascade
<1>2. tx' = [tx EXCEPT ![q] = t]
  BY <1>1 DEF Types, Cascade
<1>3. gone \in SUBSET Ids
  BY <1>1 DEF Types, HoldingFinancialsRow, TxRecords
<1>4. /\ t \in TxRecords /\ t.profile = tx[q].profile
      /\ t.portfolios = {} /\ t.holdings = {} /\ t.financials = {}
  BY <1>1, <1>3 DEF TxRecords
<1> HIDE DEF t
<1>5. \A s : s.at # "rows" => RowsOwned(q, s, t)
  BY <1>4 DEF RowsOwned, UniqueIds
<1> QED BY <1>1, <1>2, <1>4, <1>5, ReadyKeeps

(****************************************************************************)
(* The commit.                                                              *)
(****************************************************************************)
LEMMA RefreshKeeps ==
    ASSUME RInv, NEW q \in Requests, Refresh(q), UNCHANGED overlap PROVE RInv'
<1>1. /\ Types /\ request[q] \in RequestRecords /\ overlap' \in BOOLEAN /\ request[q].at = "refresh"
      /\ UNCHANGED tables /\ tx' = tx /\ tx[q] = EmptyTx
  BY DEF RInv, Types, SessionInv, Holds, Refresh
<1>2. PICK p \in {"ok", "late_error"} : Step(q, p)
  BY DEF Refresh
<1> DEFINE r == [request[q] EXCEPT !.at = p]
<1>3. r \in RequestRecords /\ r.at = p
  BY <1>1, Moved, PlaceNames
<1>4. request' = [request EXCEPT ![q] = r] /\ tx' = [tx EXCEPT ![q] = EmptyTx]
  BY <1>1, <1>2, StepIs, SameTx
<1> HIDE DEF r
<1>5. SessionInv(q, r, EmptyTx)
  BY <1>3, EmptyTxIs DEF SessionInv, InPlace, Holds, Ended, EmptyTx
<1> QED BY <1>1, <1>3, <1>4, <1>5, EmptyTxIs, SessionStep DEF Left

LEMMA CommitEffect ==
    ASSUME RInv, NEW q \in Requests, Commit(q), UNCHANGED overlap
    PROVE  \E r \in RequestRecords :
              /\ request' = [request EXCEPT ![q] = r] /\ tx' = [tx EXCEPT ![q] = EmptyTx]
              /\ r.at \in {"refresh", "ok"} /\ r.kind = request[q].kind
              /\ r.kind \in {"import", "from_property", "create_portfolio"} => r.user = request[q].user
<1>1. /\ Types /\ request[q] \in RequestRecords /\ request[q].at \in {"commit", "rows"}
  BY DEF RInv, Types, Commit, WorkDone
<1>2. PICK p \in {"refresh", "ok"} : End(q, p)
  BY DEF Commit
<1> DEFINE r == [request[q] EXCEPT !.at = p]
<1>3. request' = [request EXCEPT ![q] = r] /\ tx' = [tx EXCEPT ![q] = EmptyTx]
  BY <1>1, <1>2, StepIs DEF End
<1>4. /\ r \in RequestRecords /\ r.at \in {"refresh", "ok"} /\ r.kind = request[q].kind
      /\ r.kind \in {"import", "from_property", "create_portfolio"} => r.user = request[q].user
  BY <1>1, PlaceNames, Moved
<1> QED BY <1>3, <1>4

LEMMA CommitKeeps ==
    ASSUME RInv, NEW q \in Requests, Commit(q), UNCHANGED overlap PROVE RInv'
<1>1. PICK r \in RequestRecords :
        /\ request' = [request EXCEPT ![q] = r] /\ tx' = [tx EXCEPT ![q] = EmptyTx]
        /\ r.at \in {"refresh", "ok"} /\ r.kind = request[q].kind
        /\ r.kind \in {"import", "from_property", "create_portfolio"} => r.user = request[q].user
  BY CommitEffect
<1>2. /\ Types /\ request[q] \in RequestRecords /\ tx[q] \in TxRecords
      /\ RowsOwned(q, request[q], tx[q]) /\ request[q].at # "idle"
  BY DEF RInv, Types, SessionInv, Commit, WorkDone
<1>3. /\ request'[q] = r /\ tx'[q] = EmptyTx
      /\ \A k \in Requests \ {q} : request'[k] = request[k] /\ tx'[k] = tx[k]
  BY <1>1, <1>2 DEF Types
<1>4. Keeps /\ Past(q)'
  BY <1>1, <1>3 DEF Keeps, Past, Left
<1>5. /\ profiles' = profiles \cup (IF tx[q].profile THEN {request[q].user} ELSE {})
      /\ portfolios' = PortfoliosSeen(q) /\ holdings' = HoldingsSeen(q)
      /\ financials' = FinancialsSeen(q)
  BY DEF Commit
<1>6. Types'
  <2>1. /\ portfolios' \in SUBSET InvestorPortfolioRow
        /\ holdings' \in SUBSET PortfolioHoldingRow
        /\ financials' \in SUBSET HoldingFinancialsRow
    BY <1>2, <1>5, SeenRows DEF Types, TxRecords
  <2>2. tx[q].profile => request[q].user \in Users
    BY <1>2, KindOfRecord DEF RInv, SessionInv, Holds, ImportRecords, FromPropertyRecords
  <2>3. profiles' \in SUBSET Users
    BY <1>2, <1>5, <2>2 DEF Types
  <2> QED BY <1>1, <1>2, <2>1, <2>3, EmptyTxIs DEF Types
<1>7. TableInv'
  <2>1. \A row \in portfolios' \cup holdings' \cup financials' : Past(row.id[1])'
    <3> SUFFICES ASSUME NEW row, \/ row \in portfolios \cup holdings \cup financials
                                 \/ row \in tx[q].portfolios \cup tx[q].holdings \cup tx[q].financials
                 PROVE  Past(row.id[1])'
      BY <1>5, SeenRows
    <3>1. row.id[1] \in 0..MaxRequests
      BY <1>2, IdsAre
    <3>2. row.id[1] = q \/ Past(row.id[1])
      BY <1>2 DEF RInv, TableInv, RowsOwned
    <3> QED BY <1>4, <3>1, <3>2 DEF Keeps
  <2>2. \A f \in financials' : Past(f.by)'
    <3>1. \A f \in financials' : f \in financials \/ f.by = q
      BY <1>2, <1>5, SeenRows DEF RowsOwned
    <3> QED BY <1>2, <1>4, <3>1, IdsAre DEF RInv, TableInv, Keeps
  <2>3. UniqueIds(portfolios') /\ UniqueIds(holdings')
    <3>1. UniqueIds(PortfoliosSeen(q)) /\ UniqueIds(HoldingsSeen(q))
      BY <1>2, OverlayUnique DEF RInv, TableInv, RowsOwned, PortfoliosSeen, HoldingsSeen
    <3> QED BY <1>5, <3>1 DEF UniqueIds
  <2>4. \A h \in holdings' : h.portfolio \in IdsOf(portfolios')
    BY <1>5 DEF Commit, Consistent, IdsOf
  <2> QED BY <2>1, <2>2, <2>3, <2>4 DEF TableInv, UniqueIds, IdsOf
<1>8. ASSUME NEW k \in Requests PROVE SessionInv(k, request[k], tx[k])'
  <2>1. CASE k = q
    <3>1. SessionInv(q, r, EmptyTx)'
      BY <1>1, EmptyTxIs DEF SessionInv, InPlace, Holds, Ended, RowsOwned, EmptyTx, UniqueIds
    <3> QED BY <1>3, <2>1, <3>1 DEF SessionInv, InPlace, Holds, RowsOwned, Past
  <2>2. CASE k # q
    <3>1. request[k] \in RequestRecords /\ tx[k] \in TxRecords /\ SessionInv(k, request[k], tx[k])
      BY DEF RInv, Types
    <3>2. request'[k] = request[k] /\ tx'[k] = tx[k]
      BY <1>3, <2>2
    <3>3. PICK s \in RequestRecords, u \in TxRecords : s = request[k] /\ u = tx[k]
      BY <3>1
    <3>4. s.at = "rows" => s.known \in SUBSET PortfolioHoldingRow
      BY <3>1, <3>3, KindOfRecord DEF SessionInv, InPlace, ImportRecords
    <3>5. RowsOwned(k, s, u)'
      BY <1>4, <3>1, <3>3, <3>4, RowsOwnedFrame DEF SessionInv
    <3> QED BY <3>1, <3>2, <3>3, <3>5 DEF SessionInv, InPlace, Holds, RowsOwned, Past
  <2> QED BY <2>1, <2>2
<1> QED BY <1>6, <1>7, <1>8 DEF RInv

LEMMA NextRInv == RInv /\ [Next]_vars => RInv'
<1> SUFFICES ASSUME RInv, [Next]_vars PROVE RInv'
  OBVIOUS
<1>1. CASE UNCHANGED vars
  BY <1>1 DEF vars, RInv, Types, TableInv, SessionInv, InPlace, Holds, RowsOwned, Past, UniqueIds,
     IdsOf
<1>2. ASSUME NEW q \in Requests, CommitFails(q), UNCHANGED overlap PROVE RInv'
  <2>1. overlap' \in BOOLEAN /\ request[q].at \in {"commit", "rows"} /\ End(q, "error") /\ UNCHANGED tables
    BY <1>2 DEF CommitFails, WorkDone, RInv, Types
  <2> QED BY <2>1, EndKeeps DEF Left
<1>3. ASSUME NEW q \in Requests, Handle(q), UNCHANGED overlap PROVE RInv'
  BY <1>2, <1>3, ResolveKeeps, ReadPortfoliosKeeps, ReadHoldingsKeeps, RowKeeps, FromPropertyKeeps,
     TargetKeeps, CascadeKeeps, CommitKeeps, RefreshKeeps DEF Handle
<1> QED BY <1>1, <1>3, ReceiveKeeps DEF Next

LEMMA InitRInv == Init => RInv
<1> SUFFICES ASSUME Init PROVE RInv
  OBVIOUS
<1>1. <<0, 0>> \in Ids /\ <<0, 1>> \in Ids
  BY MaxRequestsAssumption DEF Ids
<1>2. Types
  <2>1. [at |-> "idle"] \in RequestRecords
    BY DEF RequestRecords
  <2>2. portfolios \in SUBSET InvestorPortfolioRow /\ holdings \in SUBSET PortfolioHoldingRow
    BY <1>1 DEF Init, InvestorPortfolioRow, PortfolioHoldingRow
  <2> QED BY <2>1, <2>2, EmptyTxIs DEF Init, Types
<1>3. TableInv
  <2>1. CASE portfolios = {} /\ holdings = {}
    BY <2>1 DEF Init, TableInv, UniqueIds
  <2>2. ASSUME NEW user, NEW address,
               portfolios = {[id |-> <<0, 0>>, user |-> user]},
               holdings = {[id |-> <<0, 1>>, portfolio |-> <<0, 0>>, address |-> address,
                            property |-> Nothing]}
        PROVE  TableInv
    <3>1. \A row \in portfolios \cup holdings : row.id[1] = 0
      BY <2>2
    <3>2. UniqueIds(portfolios) /\ UniqueIds(holdings)
      BY <2>2 DEF UniqueIds
    <3>3. \A h \in holdings : h.portfolio \in IdsOf(portfolios)
      BY <2>2 DEF IdsOf
    <3> QED BY <3>1, <3>2, <3>3 DEF Init, TableInv, Past
  <2> QED BY <2>1, <2>2 DEF Init
<1>4. \A q \in Requests : SessionInv(q, request[q], tx[q])
  BY EmptyTxIs DEF Init, SessionInv, InPlace, Holds, EmptyTx
<1> QED BY <1>2, <1>3, <1>4 DEF RInv

\* Whatever runs at once: every session holds what its point allows, committed
\* rows are of requests past their commit, ids are unique and each holding has
\* its portfolio (what api/portfolio.py:416 and the foreign keys promise).
THEOREM RequestInvariance == Spec => []RInv
BY InitRInv, NextRInv, PTL DEF Spec

\* A request that has not committed is not past, and so not 0.
LEMMA NotPast == ASSUME NEW q \in Requests, request[q].at \notin Left PROVE ~Past(q)
BY MaxRequestsAssumption DEF Past, Requests

\* No row and no figures are those of a request that has not committed.
NothingLeft ==
    \A q \in Requests : request[q].at \notin Left =>
        /\ \A row \in Rows : row.id[1] # q
        /\ \A f \in financials : f.by # q

\* What deletes, relinks or adds a profile commits in that step.
OnlyByCommits ==
    /\ \/ IdsOf(Rows) \subseteq IdsOf(Rows')
       \/ \E q \in Requests : GetsPast(q, {"delete_holding", "delete_portfolio"})
    /\ \A h \in holdings : \A k \in holdings' : h.id = k.id /\ h # k =>
           \E q \in Requests : GetsPast(q, {"import"})
    /\ \A user \in profiles' \ profiles :
           \E q \in Requests : GetsPast(q, {"import", "from_property"}) /\ request[q].user = user

\* A table seen by a session that deletes nothing has all the rows there were.
LEMMA NoneGone ==
    ASSUME NEW old, NEW new PROVE IdsOf(old) \subseteq IdsOf(Overlay(old, new, {}))
BY DEF IdsOf, Overlay

\* A commit deletes, relinks and leaves a profile according to its kind.
LEMMA CommitIsOfKind ==
    ASSUME RInv, NEW q \in Requests, Commit(q), UNCHANGED overlap PROVE OnlyByCommits
<1>1. /\ Types /\ tx[q] \in TxRecords /\ SessionInv(q, request[q], tx[q])
      /\ request[q].at \in {"commit", "rows"} /\ UniqueIds(holdings)
  BY DEF RInv, Types, TableInv, Commit, WorkDone
<1>2. request[q].at \notin Left /\ request'[q].at \in Left
  <2>1. PICK r \in RequestRecords : request' = [request EXCEPT ![q] = r] /\ r.at \in {"refresh", "ok"}
    BY CommitEffect
  <2> QED BY <1>1, <2>1 DEF Left, Types
<1>3. ~Past(q)
  BY <1>2, NotPast
<1>4. /\ profiles' = profiles \cup (IF tx[q].profile THEN {request[q].user} ELSE {})
      /\ portfolios' = PortfoliosSeen(q) /\ holdings' = HoldingsSeen(q)
      /\ financials' = FinancialsSeen(q)
  BY DEF Commit
<1>5. IdsOf(Rows) \subseteq IdsOf(Rows') \/ GetsPast(q, {"delete_holding", "delete_portfolio"})
  <2>1. CASE tx[q].gone = {}
    <3>1. /\ IdsOf(portfolios) \subseteq IdsOf(portfolios')
          /\ IdsOf(holdings) \subseteq IdsOf(holdings')
          /\ IdsOf(financials) \subseteq IdsOf(financials')
      BY <1>4, <2>1, NoneGone DEF PortfoliosSeen, HoldingsSeen, FinancialsSeen
    <3>2. /\ IdsOf(Rows) = IdsOf(portfolios) \cup IdsOf(holdings) \cup IdsOf(financials)
          /\ IdsOf(Rows') = IdsOf(portfolios') \cup IdsOf(holdings') \cup IdsOf(financials')
      BY DEF IdsOf, Rows
    <3> QED BY <3>1, <3>2
  <2>2. CASE tx[q].gone # {}
    BY <1>1, <1>2, <2>2 DEF SessionInv, Holds, GetsPast
  <2> QED BY <2>1, <2>2
<1>6. ASSUME NEW h \in holdings, NEW k \in holdings', h.id = k.id, h # k
      PROVE  GetsPast(q, {"import"})
  <2>1. k \in tx[q].holdings
    BY <1>1, <1>4, <1>6 DEF HoldingsSeen, Overlay, UniqueIds
  <2>2. k.id[1] # q
    BY <1>3, <1>6 DEF RInv, TableInv
  <2>3. request[q].kind = "import"
    BY <1>1, <2>1, <2>2 DEF SessionInv, RowsOwned, InPlace
  <2> QED BY <1>2, <2>3 DEF GetsPast
<1>7. ASSUME NEW user \in profiles' \ profiles
      PROVE  GetsPast(q, {"import", "from_property"}) /\ request[q].user = user
  <2>1. tx[q].profile /\ user = request[q].user
    BY <1>4, <1>7
  <2> QED BY <1>1, <1>2, <2>1 DEF SessionInv, Holds, GetsPast
<1> QED BY <1>5, <1>6, <1>7 DEF OnlyByCommits

\* api/portfolio.py:416: a request that is refused or fails up to its commit has
\* left no row and no figures, also when others run beside it, and has deleted no
\* row, relinked no holding and left no profile.
THEOREM RequestIsAtomicHolds == Spec => RequestIsAtomic
<1>1. RInv => NothingLeft
  <2> SUFFICES ASSUME RInv, NEW q \in Requests, request[q].at \notin Left
               PROVE  /\ \A row \in Rows : row.id[1] # q
                      /\ \A f \in financials : f.by # q
    BY SMTT(60) DEF NothingLeft
  <2> QED BY NotPast DEF RInv, TableInv, Rows
<1>2. RInv /\ [Next]_vars => [OnlyByCommits]_vars
  <2> SUFFICES ASSUME RInv, Next PROVE OnlyByCommits
    OBVIOUS
  <2>1. CASE UNCHANGED tables
    BY <2>1 DEF tables, OnlyByCommits, Rows, IdsOf, RInv, TableInv, UniqueIds
  <2>2. CASE \E q \in Requests : Commit(q) /\ UNCHANGED overlap
    BY <2>2, CommitIsOfKind
  <2> QED
    BY <2>1, <2>2 DEF Next, Handle, ReceiveImport, ReceiveFromProperty, ReceiveCreate,
       ReceiveAddHolding, ReceiveDelete, ResolveUser, CreateProfile, ReadPortfolios, ReadHoldings,
       ImportRow, FromProperty, CreatePortfolio, AddHolding, DeleteHolding, DeletePortfolio, Cascade,
       CommitFails, Refresh
<1>3. Spec => []NothingLeft
  BY <1>1, RequestInvariance, PTL
<1>4. Spec => [][OnlyByCommits]_vars
  BY <1>2, RequestInvariance, PTL DEF Spec
<1> QED BY <1>3, <1>4, PTL DEF RequestIsAtomic, NothingLeft, OnlyByCommits

(****************************************************************************)
(* Requests that do not overlap.                                            *)
(****************************************************************************)
LEMMA CreatorStays ==
    ASSUME RInv, NEW q \in Requests, \A k \in Requests \ {q} : request'[k] = request[k],
           request[q].at # "idle" => request'[q].kind = request[q].kind
    PROVE  \A h \in holdings : CreatorOf(h)' = CreatorOf(h)
<1>1. \A h \in holdings : h.id[1] = 0 \/ (h.id[1] \in Requests /\ request[h.id[1]].at \in Left)
  BY DEF RInv, TableInv, Past
<1>2. ASSUME NEW h \in holdings PROVE CreatorOf(h)' = CreatorOf(h)
  <2>1. CASE h.id[1] = 0
    BY <2>1 DEF CreatorOf
  <2>2. CASE h.id[1] \in Requests
    <3>1. request'[h.id[1]].kind = request[h.id[1]].kind
      BY <1>1, <2>2, MaxRequestsAssumption DEF Left, Requests
    <3> QED BY <3>1 DEF CreatorOf
  <2> QED BY <1>1, <2>1, <2>2
<1> QED BY <1>2

LEMMA LoneStep ==
    ASSUME RInv, RInv', LoneInv, NEW q \in Requests, UNCHANGED tables,
           \A k \in Requests \ {q} : request'[k] = request[k] /\ tx'[k] = tx[k],
           request[q].at # "idle" => request'[q].kind = request[q].kind,
           ~overlap' => ~overlap /\ \A k \in Requests \ {q} : ~Active(k),
           ~overlap' => LoneSession(q, request[q], tx[q])'
    PROVE  LoneInv'
<1> SUFFICES ASSUME ~overlap'
             PROVE  /\ \A k, other \in Requests : Active(k)' /\ Active(other)' => k = other
                    /\ FilesRepeatNoAddress => AddressesApart'
                    /\ LinksFollowAddresses => PropertiesApart' /\ Placed'
                    /\ \A k \in Requests : LoneSession(k, request[k], tx[k])'
  BY DEF LoneInv, FilesRepeatNoAddress, LinksFollowAddresses
<1>1. \A h \in holdings : CreatorOf(h)' = CreatorOf(h)
  BY CreatorStays
<1>2. \A k \in Requests \ {q} : ~Active(k) /\ ~Active(k)'
  BY DEF Active
<1>3. \A h, k \in holdings : Shared(h, k)' <=> Shared(h, k)
  BY DEF Shared, HeldBy, tables
<1>4. FilesRepeatNoAddress => AddressesApart'
  BY <1>1, <1>3 DEF LoneInv, AddressesApart, tables
<1>5. LinksFollowAddresses => PropertiesApart' /\ Placed'
  BY <1>1, <1>3 DEF LoneInv, PropertiesApart, Placed, tables
<1>6. ASSUME NEW k \in Requests \ {q} PROVE LoneSession(k, request[k], tx[k])'
  <2>1. request'[k].at \in Ended \cup {"idle"}
    BY <1>2 DEF Active
  <2> QED BY <2>1 DEF LoneSession, Ended
<1> QED BY <1>2, <1>4, <1>5, <1>6

\* A step of a handler's own is of the only request under way.
LEMMA OnlyActive ==
    ASSUME LoneInv, NEW q \in Requests, Active(q), UNCHANGED overlap, ~overlap'
    PROVE  ~overlap /\ \A k \in Requests \ {q} : ~Active(k)
BY DEF LoneInv

LEMMA StepFields ==
    ASSUME RInv, NEW q \in Requests, request[q].at # "idle", NEW p \in Places, Step(q, p)
    PROVE  /\ request'[q].at = p /\ request'[q].kind = request[q].kind
           /\ \A k \in Requests \ {q} : request'[k] = request[k]
           /\ request[q].kind = "import" =>
                 /\ request'[q].rows = request[q].rows /\ request'[q].user = request[q].user
                 /\ request'[q].into = request[q].into /\ request'[q].known = request[q].known
           /\ request[q].kind = "from_property" =>
                 request'[q].user = request[q].user /\ request'[q].property = request[q].property
<1>1. Types /\ request[q] \in RequestRecords
  BY DEF RInv, Types
<1>2. request' = [request EXCEPT ![q] = [request[q] EXCEPT !.at = p]]
  BY <1>1, StepIs
<1>3. request'[q] = [request[q] EXCEPT !.at = p] /\ \A k \in Requests \ {q} : request'[k] = request[k]
  BY <1>1, <1>2 DEF Types
<1> QED BY <1>1, <1>3, Moved

\* A request's step to a point where nothing but its rows is at stake.
LEMMA MoveLone ==
    ASSUME RInv, RInv', LoneInv, NEW q \in Requests, Active(q), UNCHANGED <<tables, overlap>>,
           NEW p \in Places \ {"read_holdings", "rows"}, Step(q, p),
           p = "commit" => request[q].kind # "from_property",
           \A k \in Requests \ {q} : tx'[k] = tx[k]
    PROVE  LoneInv'
<1>1. /\ request[q].at \notin Ended \cup {"idle"} /\ request'[q].at = p /\ request'[q].kind = request[q].kind
      /\ \A k \in Requests \ {q} : request'[k] = request[k]
      /\ request[q].kind = "import" => request'[q].rows = request[q].rows
  BY StepFields DEF Active
<1>2. ASSUME ~overlap' PROVE LoneSession(q, request[q], tx[q])'
  <2>1. LoneSession(q, request[q], tx[q])
    BY <1>2 DEF LoneInv
  <2> QED BY <1>1, <2>1 DEF LoneSession, RowsFit, FilesRepeatNoAddress, LinksFollowAddresses
<1> QED BY <1>1, <1>2, OnlyActive, LoneStep

LEMMA EndLone ==
    ASSUME RInv, RInv', LoneInv, NEW q \in Requests, Active(q), UNCHANGED <<tables, overlap>>,
           NEW outcome \in {"ok", "refused", "error"}, End(q, outcome)
    PROVE  LoneInv'
<1>1. outcome \in Places \ {"read_holdings", "rows"} /\ outcome # "commit"
  BY DEF Places, Points
<1>2. \A k \in Requests \ {q} : tx'[k] = tx[k]
  BY DEF End, RInv, Types
<1> QED BY <1>1, <1>2, MoveLone DEF End

LEMMA FilesFit == ASSUME NEW file \in Files PROVE RowsFit(file)
<1>1. file \in Seq(RowType)
  BY FilesAssumption
<1>2. \A i \in DOMAIN file : file[i] \in Range(file)
  BY DEF Range
<1> QED BY <1>1, <1>2 DEF RowsFit, LinksFollowAddresses, FilesRepeatNoAddress

LEMMA ReceiveLone ==
    ASSUME RInv, RInv', LoneInv, NEW q \in Requests,
           \/ ReceiveImport(q) \/ ReceiveFromProperty(q) \/ ReceiveCreate(q) \/ ReceiveAddHolding(q)
           \/ ReceiveDelete(q, "delete_holding", holdings)
           \/ ReceiveDelete(q, "delete_portfolio", portfolios)
    PROVE  LoneInv'
<1>1. PICK kind : MayReceive(q, kind)
  BY DEF ReceiveImport, ReceiveFromProperty, ReceiveCreate, ReceiveAddHolding, ReceiveDelete
<1>2. request[q].at = "idle" /\ overlap' = (overlap \/ \E other \in Requests : Active(other))
  BY <1>1 DEF MayReceive
<1>3. ~overlap' => ~overlap /\ \A k \in Requests : ~Active(k)
  BY Zenon, <1>2
<1>4. UNCHANGED tables /\ UNCHANGED tx
  BY DEF ReceiveImport, ReceiveFromProperty, ReceiveCreate, ReceiveAddHolding, ReceiveDelete
<1>5. \A k \in Requests \ {q} : request'[k] = request[k]
  BY DEF ReceiveImport, ReceiveFromProperty, ReceiveCreate, ReceiveAddHolding, ReceiveDelete, RInv, Types
<1>6. request'[q].at \in {"resolve", "target"}
  BY DEF ReceiveImport, ReceiveFromProperty, ReceiveCreate, ReceiveAddHolding, ReceiveDelete, RInv, Types,
     CsvImportRequest, PortfolioFromPropertyRequest, InvestorPortfolioCreate, PortfolioHoldingCreate
<1>7. request'[q].kind = "import" => request'[q].rows \in Files
  BY DEF ReceiveImport, ReceiveFromProperty, ReceiveCreate, ReceiveAddHolding, ReceiveDelete, RInv, Types,
     CsvImportRequest, PortfolioFromPropertyRequest, InvestorPortfolioCreate, PortfolioHoldingCreate
<1>8. LoneSession(q, request[q], tx[q])'
  BY <1>6, <1>7, FilesFit DEF LoneSession, RowsFit, LinksFollowAddresses, FilesRepeatNoAddress
<1> QED BY <1>2, <1>3, <1>4, <1>5, <1>8, LoneStep

\* A step of the only request under way, to another record of it.
LEMMA LoneTo ==
    ASSUME RInv, RInv', LoneInv, NEW q \in Requests, Active(q), UNCHANGED <<tables, overlap>>,
           NEW r \in RequestRecords, request' = [request EXCEPT ![q] = r], r.kind = request[q].kind,
           NEW t \in TxRecords, tx' = [tx EXCEPT ![q] = t],
           ~overlap => LoneSession(q, r, t)
    PROVE  LoneInv'
<1>1. /\ request'[q] = r /\ tx'[q] = t
      /\ \A k \in Requests \ {q} : request'[k] = request[k] /\ tx'[k] = tx[k]
  BY DEF RInv, Types
<1>2. \A h \in holdings : CreatorOf(h)' = CreatorOf(h)
  BY <1>1, CreatorStays
<1>3. ASSUME ~overlap' PROVE LoneSession(q, request[q], tx[q])'
  <2>1. LoneSession(q, r, t)
    BY <1>3
  <2>2. ImportAlone(q, r, t) => ImportAlone(q, r, t)'
    BY <1>2 DEF ImportAlone, HeldBy, Version, FilesRepeatNoAddress, LinksFollowAddresses, tables
  <2>3. FromPropertyAlone(q, r, t) => FromPropertyAlone(q, r, t)'
    BY DEF FromPropertyAlone, HeldBy, tables
  <2>4. RowsFit(r.rows) => RowsFit(r.rows)'
    BY DEF RowsFit, FilesRepeatNoAddress, LinksFollowAddresses
  <2>5. LoneSession(q, r, t)'
    BY <2>1, <2>2, <2>3, <2>4 DEF LoneSession, tables
  <2> QED BY <1>1, <2>5 DEF LoneSession, RowsFit, ImportAlone, FromPropertyAlone, HeldBy, Version, CreatorOf,
          FilesRepeatNoAddress, LinksFollowAddresses
<1> QED BY <1>1, <1>3, OnlyActive, LoneStep

LEMMA LoneNow ==
    ASSUME LoneInv, ~overlap, NEW q \in Requests PROVE LoneSession(q, request[q], tx[q])
BY DEF LoneInv

LEMMA ReadPortfoliosLone ==
    ASSUME RInv, RInv', LoneInv, NEW q \in Requests, ReadPortfolios(q), UNCHANGED overlap
    PROVE  LoneInv'
<1> DEFINE s == request[q]
<1>1. /\ Types /\ s \in ImportRecords /\ tx[q] \in TxRecords /\ s.at = "read_portfolios"
      /\ UNCHANGED <<tables, overlap>> /\ Active(q) /\ s.kind = "import"
  BY ImportAt DEF ReadPortfolios, Active, Ended, ImportRecords
<1>2. ASSUME NEW id \in Ids, NEW t \in TxRecords, tx' = [tx EXCEPT ![q] = t],
             request' = [request EXCEPT ![q] = [s EXCEPT !.at = "read_holdings", !.into = id]],
             \E p \in portfolios \cup t.portfolios : p.id = id /\ p.user = s.user
      PROVE  LoneInv'
  <2> DEFINE r == [s EXCEPT !.at = "read_holdings", !.into = id]
  <2>1. /\ r \in ImportRecords /\ r.at = "read_holdings" /\ r.into = id /\ r.user = s.user
        /\ r.rows = s.rows /\ r.kind = s.kind
    BY <1>1, PlaceNames DEF ImportRecords
  <2> HIDE DEF r
  <2>2. ASSUME ~overlap PROVE LoneSession(q, r, t)
    BY <1>1, <1>2, <2>1, <2>2, LoneNow DEF LoneSession, Ended
  <2>3. r \in RequestRecords
    BY <2>1 DEF RequestRecords
  <2> QED BY <1>1, <1>2, <2>1, <2>2, <2>3, LoneTo DEF r
<1>3. ASSUME NEW p \in OfUser(q, s.user), UNCHANGED tx,
             request' = [request EXCEPT ![q].at = "read_holdings", ![q].into = p.id]
      PROVE  LoneInv'
  <2>1. p.id \in Ids /\ p \in portfolios \cup tx[q].portfolios /\ p.user = s.user
    BY <1>1, SeenRows DEF OfUser, Types, TxRecords, InvestorPortfolioRow
  <2>2. /\ request' = [request EXCEPT ![q] = [s EXCEPT !.at = "read_holdings", !.into = p.id]]
        /\ tx' = [tx EXCEPT ![q] = tx[q]]
    BY <1>1, <1>3 DEF Types
  <2> QED BY <1>1, <1>2, <2>1, <2>2
<1>4. CASE /\ InsertPortfolio(q, s.user)
           /\ request' = [request EXCEPT ![q].at = "read_holdings", ![q].into = NextId(q)]
  <2> DEFINE a == AddPortfolioRow(tx[q], q, s.user)
             p == [id |-> <<q, tx[q].count>>, user |-> s.user]
  <2>1. NextId(q) \in Ids
    BY <1>1, NextIdIsNew DEF NextId, TxRecords
  <2>2. /\ request' = [request EXCEPT ![q] = [s EXCEPT !.at = "read_holdings", !.into = NextId(q)]]
        /\ tx' = [tx EXCEPT ![q] = a]
    BY <1>1, <1>4 DEF Types, InsertPortfolio, NextId
  <2>3. a \in TxRecords
    BY <1>1, PortfolioAdded DEF ImportRecords
  <2>4. p \in a.portfolios /\ p.id = NextId(q) /\ p.user = s.user
    BY <1>1 DEF AddPortfolioRow, TxRecords, NextId
  <2> HIDE DEF a, p
  <2> QED BY <1>2, <2>1, <2>2, <2>3, <2>4
<1> QED BY <1>3, <1>4 DEF ReadPortfolios

LEMMA ReadHoldingsLone ==
    ASSUME RInv, RInv', LoneInv, NEW q \in Requests, ReadHoldings(q), UNCHANGED overlap
    PROVE  LoneInv'
<1> DEFINE s == request[q]
           mine == {h \in HoldingsSeen(q) : \E p \in OfUser(q, s.user) : p.id = h.portfolio}
<1>1. /\ Types /\ s \in ImportRecords /\ tx[q] \in TxRecords /\ s.at = "read_holdings"
      /\ UNCHANGED <<tables, overlap, tx>> /\ Active(q) /\ s.kind = "import"
  BY ImportAt DEF ReadHoldings, Active, Ended, ImportRecords
<1>2. RowsOwned(q, s, tx[q]) /\ tx[q].gone = {} /\ tx[q].holdings = {}
  BY <1>1, ImportAt
<1>3. PICK known \in SUBSET mine :
        /\ \A h \in mine : \E k \in known : k.address = h.address
        /\ request' = [request EXCEPT ![q].at = "rows", ![q].known = known]
  BY DEF ReadHoldings
<1> DEFINE r == [s EXCEPT !.at = "rows", !.known = known]
<1>4. known \subseteq holdings
  BY <1>2, SeenRows
<1>5. /\ r \in ImportRecords /\ r.at = "rows" /\ r.known = known /\ r.into = s.into
      /\ r.user = s.user /\ r.rows = s.rows /\ r.kind = s.kind
  BY <1>1, <1>4, PlaceNames DEF ImportRecords, Types
<1>6. request' = [request EXCEPT ![q] = r] /\ tx' = [tx EXCEPT ![q] = tx[q]]
  BY <1>1, <1>3 DEF Types
<1> HIDE DEF r
<1>7. ASSUME NEW g \in holdings, HeldBy(g, s.user) PROVE g \in mine
  <2>1. PICK p \in portfolios : p.id = g.portfolio /\ p.user = s.user
    BY <1>7 DEF HeldBy
  <2>2. \A w \in tx[q].portfolios : w.id # p.id
    <3>1. request[q].at \notin Left /\ q # 0
      BY <1>1, MaxRequestsAssumption DEF Left, Requests
    <3> QED BY <1>2, <3>1 DEF RowsOwned, RInv, TableInv, Past
  <2>3. p \in OfUser(q, s.user)
    BY <1>2, <2>1, <2>2 DEF OfUser, PortfoliosSeen, Overlay
  <2>4. g \in HoldingsSeen(q)
    BY <1>2 DEF HoldingsSeen, Overlay
  <2> QED BY <2>1, <2>3, <2>4
<1> HIDE DEF mine
<1>8. ImportAlone(q, r, tx[q])
  BY <1>2, <1>3, <1>4, <1>5, <1>7 DEF ImportAlone
<1>9. ASSUME ~overlap PROVE LoneSession(q, r, tx[q])
  BY <1>1, <1>5, <1>8, <1>9, LoneNow DEF LoneSession, Ended
<1> QED BY <1>1, <1>5, <1>6, <1>9, LoneTo DEF RequestRecords

LEMMA TailFits ==
    ASSUME NEW rows \in Seq(RowType), rows # <<>>, RowsFit(rows)
    PROVE  /\ RowsFit(Tail(rows)) /\ Head(rows) \in RowType
           /\ LinksFollowAddresses /\ Head(rows).property # Nothing
              => Head(rows).address = AddressOf[Head(rows).property]
           /\ FilesRepeatNoAddress /\ Head(rows).address # Nothing =>
                 \A i \in DOMAIN Tail(rows) : Tail(rows)[i].address # Head(rows).address
           /\ \A i \in DOMAIN Tail(rows) : \E k \in DOMAIN rows : Tail(rows)[i] = rows[k]
           /\ \E k \in DOMAIN rows : Head(rows) = rows[k]
<1>1. /\ Len(rows) \in Nat /\ Len(rows) > 0 /\ DOMAIN rows = 1..Len(rows)
      /\ Head(rows) = rows[1] /\ Head(rows) \in RowType
      /\ DOMAIN Tail(rows) = 1..(Len(rows) - 1)
      /\ \A i \in 1..(Len(rows) - 1) : Tail(rows)[i] = rows[i + 1]
  BY EmptySeq, HeadTailProperties, LenProperties
<1>2. \A i \in DOMAIN Tail(rows) : i + 1 \in DOMAIN rows /\ i + 1 # 1 /\ Tail(rows)[i] = rows[i + 1]
  BY <1>1
<1>3. 1 \in DOMAIN rows
  BY <1>1
<1>4. \A i, k \in DOMAIN Tail(rows) : i + 1 = k + 1 => i = k
  BY <1>1
<1>5. RowsFit(Tail(rows))
  BY <1>2, <1>4 DEF RowsFit
<1> QED BY <1>1, <1>2, <1>3, <1>5 DEF RowsFit

LEMMA RowLone ==
    ASSUME RInv, RInv', LoneInv, NEW q \in Requests, ImportRow(q), UNCHANGED overlap
    PROVE  LoneInv'
<1> DEFINE s == request[q]
           row == Head(s.rows)
           r == [s EXCEPT !.rows = Tail(@)]
<1>1. /\ s.at = "rows" /\ s.rows # <<>> /\ UNCHANGED <<tables, overlap>> /\ Active(q)
  BY RowSteps DEF Active, Ended
<1>2. /\ Types /\ s \in ImportRecords /\ s.kind = "import" /\ tx[q] \in TxRecords
      /\ RowsOwned(q, s, tx[q]) /\ s.into \in Ids /\ s.rows \in Seq(RowType)
  BY <1>1, ImportAt DEF ImportRecords
<1>3. CASE End(q, "refused") \/ End(q, "error")
  BY <1>1, <1>3, EndLone
<1>4. ASSUME NextRow(q), NEW t \in TxRecords, tx' = [tx EXCEPT ![q] = t], tx[q].portfolios \subseteq t.portfolios,
             ~overlap /\ ImportAlone(q, s, tx[q]) /\ RowsFit(s.rows) => ImportAlone(q, r, t)
      PROVE  LoneInv'
  <2>1. /\ request' = [request EXCEPT ![q] = r]
        /\ r \in ImportRecords /\ r.at = "rows" /\ r.known = s.known /\ r.into = s.into
        /\ r.user = s.user /\ r.rows = Tail(s.rows)
    BY <1>1, <1>4, RowDone
  <2>2. r.kind = "import" /\ r \in RequestRecords
    BY <2>1 DEF ImportRecords, RequestRecords
  <2> HIDE DEF r
  <2>3. ASSUME ~overlap PROVE LoneSession(q, r, t)
    <3>1. /\ RowsFit(s.rows) /\ ImportAlone(q, s, tx[q])
          /\ \E p \in portfolios \cup tx[q].portfolios : p.id = s.into /\ p.user = s.user
      BY <1>1, <1>2, <2>3, LoneNow DEF LoneSession, Ended
    <3>2. RowsFit(r.rows)
      BY <1>1, <1>2, <2>1, <3>1, TailFits
    <3>3. ImportAlone(q, r, t)
      BY <1>4, <2>3, <3>1
    <3> QED BY <1>4, <2>1, <2>2, <3>1, <3>2, <3>3 DEF LoneSession
  <2> QED BY <1>1, <1>2, <1>4, <2>1, <2>2, <2>3, LoneTo
<1>5. r.known = s.known /\ r.into = s.into /\ r.user = s.user /\ r.rows = Tail(s.rows)
  BY <1>2 DEF ImportRecords
<1>6. CASE row.address = Nothing /\ NextRow(q) /\ UNCHANGED tx
  <2>1. ASSUME ImportAlone(q, s, tx[q]) PROVE ImportAlone(q, r, tx[q])
    <3>1. \A i \in DOMAIN Tail(s.rows) : \E k \in DOMAIN s.rows : Tail(s.rows)[i] = s.rows[k]
      BY <1>1, <1>2, HeadTailProperties, EmptySeq, LenProperties
    <3> HIDE DEF r
    <3> QED BY <1>5, <2>1, <3>1 DEF ImportAlone
  <2> QED BY <1>2, <1>4, <1>6, <2>1, SameTx
<1>7. CASE /\ row.address # Nothing /\ NextRow(q)
           /\ \A k \in s.known : k.address # row.address
           /\ tx' = [tx EXCEPT ![q] = AddHoldingRows(tx[q], q, s.into, row)]
  <2> DEFINE t == AddHoldingRows(tx[q], q, s.into, row)
             h == [id |-> <<q, tx[q].count>>, portfolio |-> s.into, address |-> row.address,
                   property |-> row.property]
  <2>1. row \in RowType /\ row.address \in Addresses /\ row.property \in Properties \cup {Nothing}
    BY <1>1, <1>7, RowDone DEF RowType
  <2>2. t \in TxRecords
    BY <1>2, <2>1, Added
  <2>3. t.holdings = tx[q].holdings \cup {h} /\ t.portfolios = tx[q].portfolios
    BY <1>2 DEF AddHoldingRows, TxRecords
  <2>4. h.id[1] = q /\ h.portfolio = s.into /\ h.address = row.address
    OBVIOUS
  <2>5. tx' = [tx EXCEPT ![q] = t]
    BY <1>7
  <2>6. ASSUME ImportAlone(q, s, tx[q]), RowsFit(s.rows) PROVE ImportAlone(q, r, t)
    <3>1. /\ FilesRepeatNoAddress => \A i \in DOMAIN Tail(s.rows) : Tail(s.rows)[i].address # row.address
          /\ \A i \in DOMAIN Tail(s.rows) : \E k \in DOMAIN s.rows : Tail(s.rows)[i] = s.rows[k]
          /\ \E k \in DOMAIN s.rows : row = s.rows[k]
      BY <1>1, <1>2, <1>7, <2>6, TailFits
    <3>2. \A g \in holdings : HeldBy(g, s.user) => g.address # row.address
      BY <1>7, <2>6 DEF ImportAlone
    <3> HIDE DEF r, t, h, row
    <3>3. \A x \in t.holdings :
            IF x.id[1] = q
            THEN /\ x.portfolio = r.into
                 /\ \A g \in holdings : HeldBy(g, r.user) => g.address # x.address
            ELSE \E g \in holdings :
                    /\ Version(x, g)
                    /\ LinksFollowAddresses /\ CreatorOf(g) = "from_property" => x.property = g.property
      BY <1>5, <2>3, <2>4, <2>6, <3>2 DEF ImportAlone
    <3>4. ASSUME FilesRepeatNoAddress
          PROVE  /\ \A x \in t.holdings : x.id[1] = q => \A i \in DOMAIN r.rows : r.rows[i].address # x.address
                 /\ \A x, k \in t.holdings : x.id[1] = q /\ k.id[1] = q /\ x.address = k.address => x = k
      BY <1>5, <2>3, <2>4, <2>6, <3>1, <3>4 DEF ImportAlone
    <3> QED BY <1>5, <2>6, <3>3, <3>4 DEF ImportAlone
  <2> HIDE DEF t, r
  <2> QED BY <1>4, <1>7, <2>2, <2>3, <2>5, <2>6
<1>8. ASSUME row.address # Nothing, NEW match \in s.known, match.address = row.address,
             ~End(q, "error"), UpdateHolding(q, row, match)
      PROVE  LoneInv'
  <2>1. NextRow(q)
    BY <1>8 DEF UpdateHolding
  <2>2. row \in RowType
    BY <1>1, <2>1, RowDone
  <2>3. PICK t \in TxRecords :
           /\ tx' = [tx EXCEPT ![q] = t] /\ t.portfolios = tx[q].portfolios
           /\ t.holdings = Overlay(tx[q].holdings, Updated(q, row, match), {})
    BY <1>1, <1>8, <2>2, UpdateEffect
  <2>4. match \in PortfolioHoldingRow /\ match.id[1] # q
    <3>1. match \in PortfolioHoldingRow /\ Past(match.id[1])
      BY <1>1, <1>2 DEF ImportRecords, RowsOwned
    <3>2. request[q].at \notin Left /\ q # 0
      BY <1>1, MaxRequestsAssumption DEF Left, Requests
    <3> QED BY <3>1, <3>2 DEF Past
  <2>5. ASSUME ~overlap, ImportAlone(q, s, tx[q]), RowsFit(s.rows) PROVE ImportAlone(q, r, t)
    <3>1. /\ LinksFollowAddresses /\ row.property # Nothing => row.address = AddressOf[row.property]
          /\ \A i \in DOMAIN Tail(s.rows) : \E k \in DOMAIN s.rows : Tail(s.rows)[i] = s.rows[k]
      BY <1>1, <1>2, <2>5, TailFits
    <3>2. match \in holdings
      BY <2>5 DEF ImportAlone
    <3>3. ASSUME NEW u \in Updated(q, row, match)
          PROVE  /\ u.id[1] # q /\ Version(u, match)
                 /\ LinksFollowAddresses /\ CreatorOf(match) = "from_property" => u.property = match.property
      <4>1. u = [match EXCEPT !.property = row.property] /\ row.property \notin {Nothing, match.property}
        BY <3>3 DEF Updated
      <4>2. u.id = match.id /\ u.portfolio = match.portfolio /\ u.address = match.address
        BY <2>4, <4>1 DEF PortfolioHoldingRow
      <4>3. ~(LinksFollowAddresses /\ CreatorOf(match) = "from_property")
        <5> SUFFICES ASSUME LinksFollowAddresses, CreatorOf(match) = "from_property" PROVE FALSE
          OBVIOUS
        <5>1. match.property \in Properties /\ match.address = AddressOf[match.property]
          BY <2>5, <3>2 DEF LoneInv, Placed
        <5>2. row.property \in Properties /\ row.address = AddressOf[row.property]
          BY <2>2, <3>1, <4>1 DEF RowType
        <5> QED BY <1>8, <4>1, <5>1, <5>2 DEF LinksFollowAddresses
      <4> QED BY <2>4, <4>2, <4>3 DEF Version
    <3>4. t.holdings \subseteq tx[q].holdings \cup Updated(q, row, match)
      BY <2>3 DEF Overlay
    <3> HIDE DEF r, row
    <3> QED BY <1>5, <2>5, <3>1, <3>2, <3>3, <3>4 DEF ImportAlone
  <2> HIDE DEF r, row
  <2> QED BY <1>4, <2>1, <2>3, <2>5
<1> QED BY <1>3, <1>6, <1>7, <1>8, RowSteps

LEMMA FromPropertyLone ==
    ASSUME RInv, RInv', LoneInv, NEW q \in Requests, FromProperty(q), UNCHANGED overlap
    PROVE  LoneInv'
<1> DEFINE s == request[q]
           row == [address |-> AddressOf[s.property], property |-> s.property, financials |-> TRUE]
           p == [id |-> NextId(q), user |-> s.user]
           a == AddPortfolioRow(tx[q], q, s.user)
           t == AddHoldingRows(a, q, NextId(q), row)
           r == [s EXCEPT !.at = "commit"]
<1>1. /\ Types /\ s \in RequestRecords /\ tx[q] \in TxRecords /\ Active(q)
      /\ s.at = "existing" /\ UNCHANGED <<tables, overlap>> /\ SessionInv(q, s, tx[q])
  BY DEF RInv, Types, FromProperty, Active, Ended
<1>2. s \in FromPropertyRecords /\ Empty(tx[q]) /\ s.kind = "from_property"
  BY <1>1, KindOfRecord DEF SessionInv, InPlace, Holds
<1>3. CASE End(q, "ok") \/ End(q, "error")
  BY <1>1, <1>3, EndLone
<1>4. CASE /\ Step(q, "commit") /\ Held(q, s.user, s.property) = {}
           /\ tx' = [tx EXCEPT ![q] = AddHoldingRows(AddPortfolioRow(@, q, s.user), q, NextId(q), row)]
  <2>1. tx' = [tx EXCEPT ![q] = t] /\ request' = [request EXCEPT ![q] = r]
    BY <1>1, <1>4, StepIs DEF Types
  <2>2. s.user \in Users /\ row.address \in Addresses /\ row.property \in Properties /\ NextId(q) \in Ids
    BY <1>1, <1>2, AddressOfAssumption, NextIdIsNew DEF FromPropertyRecords, NextId, TxRecords
  <2>3. a \in TxRecords
    BY <1>1, <2>2, PortfolioAdded
  <2>4. a.portfolios = {p} /\ a.holdings = {}
    BY <1>1, <1>2 DEF AddPortfolioRow, TxRecords, NextId, Empty
  <2>5. t \in TxRecords
    <3> HIDE DEF a, row
    <3> QED BY <2>2, <2>3, Added
  <2>6. /\ t.portfolios = {p}
        /\ \E h : /\ t.holdings = {h} /\ h.portfolio = p.id /\ h.address = AddressOf[s.property]
                  /\ h.property = s.property
    <3> HIDE DEF a
    <3>1. t.portfolios = a.portfolios
      BY <2>3 DEF AddHoldingRows, TxRecords
    <3> DEFINE h == [id |-> <<q, a.count>>, portfolio |-> NextId(q), address |-> row.address,
                     property |-> row.property]
    <3>2. t.holdings = a.holdings \cup {h}
      BY <2>3 DEF AddHoldingRows, TxRecords
    <3>3. h.portfolio = p.id /\ h.address = AddressOf[s.property] /\ h.property = s.property
      OBVIOUS
    <3> HIDE DEF h, t, p
    <3> QED BY <2>4, <3>1, <3>2, <3>3
  <2>7. \A g \in holdings : HeldBy(g, s.user) => g.property # s.property
    <3>1. HoldingsSeen(q) = holdings /\ PortfoliosSeen(q) = portfolios
      BY <1>2 DEF HoldingsSeen, PortfoliosSeen, Overlay, Empty
    <3> QED BY <1>4, <3>1 DEF Held, OfUser, HeldBy
  <2>8. r \in RequestRecords /\ r.at = "commit" /\ r.kind = s.kind /\ r.user = s.user /\ r.property = s.property
    BY <1>1, <1>2, Moved, PlaceNames
  <2> HIDE DEF r, t, a, row
  <2>9. p.user = s.user
    OBVIOUS
  <2> HIDE DEF p
  <2>10. FromPropertyAlone(q, r, t)
    BY <2>6, <2>7, <2>8, <2>9 DEF FromPropertyAlone
  <2>11. LoneSession(q, r, t)
    BY <1>2, <2>8, <2>10 DEF LoneSession
  <2> QED BY <1>1, <2>1, <2>5, <2>8, <2>11, LoneTo
<1> QED BY <1>3, <1>4 DEF FromProperty

\* What the commit of the only request under way leaves of who holds what.
LEMMA CommittedRows ==
    ASSUME RInv, RInv', NEW q \in Requests, Commit(q), UNCHANGED overlap
    PROVE  /\ portfolios' = PortfoliosSeen(q) /\ holdings' = HoldingsSeen(q)
           /\ \A h \in holdings \cup tx[q].holdings : CreatorOf(h)' = CreatorOf(h)
           /\ \A g \in holdings : \A h, user : h.portfolio = g.portfolio /\ HeldBy(h, user)' => HeldBy(g, user)
           /\ \A p \in tx[q].portfolios : \A h, user :
                 p.id = h.portfolio /\ HeldBy(h, user)' => user = p.user
           /\ tx[q].gone = {} => \A p \in portfolios : \A h, user :
                 p.id = h.portfolio /\ HeldBy(h, user)' => user = p.user
<1>1. PICK r \in RequestRecords :
        /\ request' = [request EXCEPT ![q] = r] /\ r.kind = request[q].kind
  BY CommitEffect
<1>2. /\ Types /\ tx[q] \in TxRecords /\ RowsOwned(q, request[q], tx[q])
      /\ request[q].at \in {"commit", "rows"}
  BY DEF RInv, Types, SessionInv, Commit, WorkDone
<1>3. portfolios' = PortfoliosSeen(q) /\ holdings' = HoldingsSeen(q)
  BY DEF Commit
<1>4. ~Past(q)
  BY <1>2, MaxRequestsAssumption DEF Past, Left, Requests
<1>5. ASSUME NEW h \in holdings \cup tx[q].holdings PROVE CreatorOf(h)' = CreatorOf(h)
  <2>1. h.id[1] = q \/ Past(h.id[1])
    BY <1>2 DEF RowsOwned, RInv, TableInv
  <2>2. CASE h.id[1] = 0
    BY <2>2 DEF CreatorOf
  <2>3. CASE h.id[1] \in Requests
    <3>1. request'[h.id[1]].kind = request[h.id[1]].kind
      BY <1>1, <1>2, <2>3 DEF Types
    <3> QED BY <3>1 DEF CreatorOf
  <2> QED BY <2>1, <2>2, <2>3 DEF Past
<1>6. \A p \in tx[q].portfolios : ~Past(p.id[1]) /\ p.id[1] = q
  BY <1>2, <1>4 DEF RowsOwned
<1>7. ASSUME NEW g \in holdings, NEW h, NEW user, h.portfolio = g.portfolio, HeldBy(h, user)'
      PROVE  HeldBy(g, user)
  <2>1. PICK p \in portfolios' : p.id = g.portfolio /\ p.user = user
    BY <1>7 DEF HeldBy
  <2>2. PICK w \in portfolios : w.id = g.portfolio
    BY DEF RInv, TableInv, IdsOf
  <2>3. Past(w.id[1])
    BY DEF RInv, TableInv
  <2>4. p \in portfolios
    BY <1>3, <1>6, <2>1, <2>2, <2>3, SeenRows
  <2> QED BY <2>1, <2>4 DEF HeldBy
<1>8. UniqueIds(portfolios')
  BY DEF RInv, TableInv, UniqueIds
<1>9. ASSUME NEW p \in portfolios', NEW h, NEW user, p.id = h.portfolio, HeldBy(h, user)'
      PROVE  user = p.user
  BY <1>8, <1>9 DEF HeldBy, UniqueIds
<1>10. tx[q].portfolios \subseteq portfolios'
  BY <1>3, SeenRows
<1>11. ASSUME tx[q].gone = {} PROVE portfolios \subseteq portfolios'
  BY <1>3, <1>6, <1>11 DEF PortfoliosSeen, Overlay, RInv, TableInv
<1> QED BY <1>3, <1>5, <1>7, <1>9, <1>10, <1>11

LEMMA CommitImportLone ==
    ASSUME RInv, RInv', LoneInv, ~overlap, NEW q \in Requests, Commit(q), UNCHANGED overlap,
           request[q].kind = "import"
    PROVE  /\ FilesRepeatNoAddress => AddressesApart'
           /\ LinksFollowAddresses => PropertiesApart' /\ Placed'
<1> DEFINE s == request[q]
           t == tx[q]
<1>1. s.at = "rows"
  BY DEF Commit, WorkDone, RInv, SessionInv, InPlace
<1>2. Types /\ s \in ImportRecords /\ t \in TxRecords /\ RowsOwned(q, s, t) /\ t.gone = {}
  BY <1>1, ImportAt
<1>3. /\ ImportAlone(q, s, t)
      /\ \E p \in portfolios \cup t.portfolios : p.id = s.into /\ p.user = s.user
  BY <1>1, LoneNow DEF LoneSession
<1>4. ~Past(q)
  BY <1>1, MaxRequestsAssumption DEF Past, Left, Requests
<1>5. \A g \in holdings : g.id[1] # q
  BY <1>4 DEF RInv, TableInv
<1>6. /\ holdings' = HoldingsSeen(q)
      /\ \A h \in holdings \cup t.holdings : CreatorOf(h)' = CreatorOf(h)
  BY CommittedRows
<1>7. ASSUME NEW h \in holdings', h.id[1] # q
      PROVE  \E g \in holdings :
                /\ Version(h, g) /\ CreatorOf(g) = CreatorOf(h)'
                /\ LinksFollowAddresses /\ CreatorOf(g) = "from_property" => h.property = g.property
  <2>1. h \in holdings \/ h \in t.holdings
    BY <1>6, SeenRows
  <2>2. CASE h \in holdings
    BY <1>6, <2>2 DEF Version
  <2>3. CASE h \in t.holdings
    <3>1. PICK g \in holdings :
            /\ Version(h, g)
            /\ LinksFollowAddresses /\ CreatorOf(g) = "from_property" => h.property = g.property
      BY <1>3, <1>7, <2>3 DEF ImportAlone
    <3>2. CreatorOf(h)' = CreatorOf(h)
      BY <1>6, <2>3
    <3>3. CreatorOf(h) = CreatorOf(g)
      BY <3>1 DEF Version, CreatorOf
    <3> QED BY <3>1, <3>2, <3>3
  <2> QED BY <2>1, <2>2, <2>3
<1>8. ASSUME NEW h \in holdings', h.id[1] = q
      PROVE  /\ h \in t.holdings /\ CreatorOf(h)' = "import" /\ h.portfolio = s.into
             /\ \A g \in holdings : HeldBy(g, s.user) => g.address # h.address
             /\ \A user : HeldBy(h, user)' => user = s.user
  <2>1. h \in t.holdings
    BY <1>5, <1>6, <1>8, SeenRows
  <2>2. CreatorOf(h)' = "import"
    <3>1. q # 0
      BY MaxRequestsAssumption DEF Requests
    <3>2. CreatorOf(h) = "import"
      BY <1>8, <3>1 DEF CreatorOf
    <3> QED BY <1>6, <2>1, <3>2
  <2>3. h.portfolio = s.into /\ \A g \in holdings : HeldBy(g, s.user) => g.address # h.address
    BY <1>3, <1>8, <2>1 DEF ImportAlone
  <2>4. \A user : HeldBy(h, user)' => user = s.user
    <3>1. PICK p \in portfolios \cup t.portfolios : p.id = h.portfolio /\ p.user = s.user
      BY <1>3, <2>3
    <3> QED BY <1>2, <3>1, CommittedRows
  <2> QED BY <2>1, <2>2, <2>3, <2>4
<1>9. ASSUME NEW h \in holdings', NEW k \in holdings', NEW g \in holdings, NEW user,
             h.id[1] = q, Version(k, g), HeldBy(h, user)', HeldBy(k, user)'
      PROVE  h.address # k.address
  <2>1. user = s.user
    BY <1>8, <1>9
  <2>2. HeldBy(g, user)
    BY <1>9, CommittedRows DEF Version
  <2> QED BY <1>8, <1>9, <2>1, <2>2 DEF Version
<1>10. ASSUME NEW h \in holdings', NEW k \in holdings', NEW g \in holdings, NEW user,
              Version(h, g), Version(k, g)
       PROVE  h = k
  BY <1>10 DEF Version, RInv, TableInv, UniqueIds
<1>11. ASSUME NEW h, NEW g \in holdings, NEW user, Version(h, g), HeldBy(h, user)' PROVE HeldBy(g, user)
  BY <1>11, CommittedRows DEF Version
<1>12. ASSUME FilesRepeatNoAddress PROVE AddressesApart'
  <2> SUFFICES ASSUME NEW h \in holdings', NEW k \in holdings', CreatorOf(h)' = "import",
                      CreatorOf(k)' = "import", h.address = k.address,
                      NEW user \in Users, HeldBy(h, user)', HeldBy(k, user)'
               PROVE  h = k
    BY DEF AddressesApart, Shared
  <2>1. CASE h.id[1] = q /\ k.id[1] = q
    BY <1>3, <1>8, <1>12, <2>1 DEF ImportAlone
  <2>2. CASE h.id[1] = q /\ k.id[1] # q
    BY <1>7, <1>9, <2>2
  <2>3. CASE h.id[1] # q /\ k.id[1] = q
    BY <1>7, <1>9, <2>3
  <2>4. CASE h.id[1] # q /\ k.id[1] # q
    <3>1. PICK g \in holdings : Version(h, g) /\ CreatorOf(g) = "import"
      BY <1>7, <2>4
    <3>2. PICK l \in holdings : Version(k, l) /\ CreatorOf(l) = "import"
      BY <1>7, <2>4
    <3>3. HeldBy(g, user) /\ HeldBy(l, user)
      BY <1>11, <3>1, <3>2
    <3>4. g = l
      BY <1>12, <3>1, <3>2, <3>3 DEF LoneInv, AddressesApart, Shared, Version
    <3> QED BY <1>10, <3>1, <3>2, <3>4
  <2> QED BY <2>1, <2>2, <2>3, <2>4
<1>13. ASSUME LinksFollowAddresses, NEW h \in holdings', CreatorOf(h)' = "from_property"
       PROVE  \E g \in holdings : Version(h, g) /\ CreatorOf(g) = "from_property" /\ h.property = g.property
  BY <1>7, <1>8, <1>13
<1>14. ASSUME LinksFollowAddresses PROVE PropertiesApart'
  <2> SUFFICES ASSUME NEW h \in holdings', NEW k \in holdings', CreatorOf(h)' = "from_property",
                      CreatorOf(k)' = "from_property", h.property = k.property,
                      NEW user \in Users, HeldBy(h, user)', HeldBy(k, user)'
               PROVE  h = k
    BY DEF PropertiesApart, Shared
  <2>1. PICK g \in holdings : Version(h, g) /\ CreatorOf(g) = "from_property" /\ h.property = g.property
    BY <1>13, <1>14
  <2>2. PICK l \in holdings : Version(k, l) /\ CreatorOf(l) = "from_property" /\ k.property = l.property
    BY <1>13, <1>14
  <2>3. HeldBy(g, user) /\ HeldBy(l, user)
    BY <1>11, <2>1, <2>2
  <2>4. g = l
    BY <1>14, <2>1, <2>2, <2>3 DEF LoneInv, PropertiesApart, Shared
  <2> QED BY <1>10, <2>1, <2>2, <2>4
<1>15. ASSUME LinksFollowAddresses PROVE Placed'
  <2> SUFFICES ASSUME NEW h \in holdings', CreatorOf(h)' = "from_property"
               PROVE  h.property \in Properties /\ h.address = AddressOf[h.property]
    BY DEF Placed
  <2>1. PICK g \in holdings : Version(h, g) /\ CreatorOf(g) = "from_property" /\ h.property = g.property
    BY <1>13, <1>15
  <2> QED BY <1>15, <2>1 DEF LoneInv, Placed, Version
<1> QED BY <1>12, <1>14, <1>15

LEMMA CommitOtherLone ==
    ASSUME RInv, RInv', LoneInv, ~overlap, NEW q \in Requests, Commit(q), UNCHANGED overlap,
           request[q].kind # "import"
    PROVE  /\ FilesRepeatNoAddress => AddressesApart'
           /\ LinksFollowAddresses => PropertiesApart' /\ Placed'
<1> DEFINE s == request[q]
           t == tx[q]
<1>1. /\ s.at = "commit" /\ s \in RequestRecords /\ RowsOwned(q, s, t) /\ q # 0
  BY MaxRequestsAssumption DEF Commit, WorkDone, RInv, Types, SessionInv, InPlace, Requests
<1>2. s.kind = "from_property" =>
        FromPropertyAlone(q, s, t) /\ s.property \in Properties
  BY <1>1, LoneNow, KindOfRecord DEF LoneSession, FromPropertyRecords
<1>3. \A h \in t.holdings : h.id[1] = q /\ CreatorOf(h) = s.kind
  BY <1>1 DEF RowsOwned, CreatorOf
<1>4. /\ \A h \in holdings' : h \in holdings \/ h \in t.holdings
      /\ \A h \in holdings \cup t.holdings : CreatorOf(h)' = CreatorOf(h)
      /\ \A h \in holdings : \A user : HeldBy(h, user)' => HeldBy(h, user)
  BY CommittedRows, SeenRows
<1>5. ASSUME FilesRepeatNoAddress PROVE AddressesApart'
  <2> SUFFICES ASSUME NEW h \in holdings', NEW k \in holdings', CreatorOf(h)' = "import",
                      CreatorOf(k)' = "import", h.address = k.address,
                      NEW user \in Users, HeldBy(h, user)', HeldBy(k, user)'
               PROVE  h = k
    BY DEF AddressesApart, Shared
  <2>1. h \in holdings /\ k \in holdings /\ CreatorOf(h) = "import" /\ CreatorOf(k) = "import"
    BY <1>3, <1>4
  <2>2. HeldBy(h, user) /\ HeldBy(k, user)
    BY <1>4, <2>1
  <2> QED BY <1>5, <2>1, <2>2 DEF LoneInv, AddressesApart, Shared
<1>6. ASSUME NEW h \in holdings, NEW k \in t.holdings, CreatorOf(k) = "from_property",
             NEW user, HeldBy(h, user)', HeldBy(k, user)'
      PROVE  h.property # k.property
  <2>1. FromPropertyAlone(q, s, t)
    BY <1>2, <1>3, <1>6
  <2>2. PICK p \in t.portfolios : p.id = k.portfolio /\ p.user = s.user
    BY <2>1 DEF FromPropertyAlone
  <2>3. user = s.user
    BY <1>6, <2>2, CommittedRows
  <2>4. HeldBy(h, s.user)
    BY <1>4, <1>6, <2>3
  <2> QED BY <2>1, <2>4 DEF FromPropertyAlone
<1>7. ASSUME LinksFollowAddresses PROVE PropertiesApart'
  <2> SUFFICES ASSUME NEW h \in holdings', NEW k \in holdings', CreatorOf(h)' = "from_property",
                      CreatorOf(k)' = "from_property", h.property = k.property,
                      NEW user \in Users, HeldBy(h, user)', HeldBy(k, user)'
               PROVE  h = k
    BY DEF PropertiesApart, Shared
  <2>1. CreatorOf(h) = "from_property" /\ CreatorOf(k) = "from_property"
    BY <1>4
  <2>2. CASE h \in holdings /\ k \in holdings
    BY <1>4, <1>7, <2>1, <2>2 DEF LoneInv, PropertiesApart, Shared
  <2>3. CASE h \in t.holdings /\ k \in t.holdings
    BY <1>2, <1>3, <2>1, <2>3 DEF FromPropertyAlone
  <2> QED BY <1>4, <1>6, <2>1, <2>2, <2>3
<1>8. ASSUME LinksFollowAddresses PROVE Placed'
  <2> SUFFICES ASSUME NEW h \in holdings', CreatorOf(h)' = "from_property"
               PROVE  h.property \in Properties /\ h.address = AddressOf[h.property]
    BY DEF Placed
  <2>1. CreatorOf(h) = "from_property"
    BY <1>4
  <2>2. CASE h \in holdings
    BY <1>8, <2>1, <2>2 DEF LoneInv, Placed
  <2>3. CASE h \in t.holdings
    BY <1>2, <1>3, <2>1, <2>3 DEF FromPropertyAlone
  <2> QED BY <1>4, <2>2, <2>3
<1> QED BY <1>5, <1>7, <1>8

LEMMA CommitLone ==
    ASSUME RInv, RInv', LoneInv, NEW q \in Requests, Commit(q), UNCHANGED overlap
    PROVE  LoneInv'
<1>1. request[q].at \in {"commit", "rows"} /\ Active(q)
  BY DEF Commit, WorkDone, Active, Ended
<1>2. PICK outcome \in {"refresh", "ok"} :
        /\ Step(q, outcome)
        /\ outcome = "refresh" => request[q].kind # "import"
  BY DEF Commit, End, Refreshing
<1>3. /\ request'[q].at = outcome /\ request'[q].kind = request[q].kind
      /\ \A k \in Requests \ {q} : request'[k] = request[k]
  BY <1>1, <1>2, StepFields, PlaceNames
<1> SUFFICES ASSUME ~overlap'
             PROVE  /\ \A k, other \in Requests : Active(k)' /\ Active(other)' => k = other
                    /\ FilesRepeatNoAddress => AddressesApart'
                    /\ LinksFollowAddresses => PropertiesApart' /\ Placed'
                    /\ \A k \in Requests : LoneSession(k, request[k], tx[k])'
  BY DEF LoneInv, FilesRepeatNoAddress, LinksFollowAddresses
<1>4. ~overlap /\ \A k \in Requests \ {q} : ~Active(k) /\ ~Active(k)'
  BY <1>1, <1>3, OnlyActive DEF Active
<1>5. ASSUME NEW k \in Requests PROVE LoneSession(k, request[k], tx[k])'
  <2>1. CASE k = q
    BY <1>2, <1>3, <2>1 DEF LoneSession, Ended
  <2>2. CASE k # q
    <3>1. request'[k].at \in Ended \cup {"idle"}
      BY <1>4, <2>2 DEF Active
    <3> QED BY <3>1 DEF LoneSession, Ended
  <2> QED BY <2>1, <2>2
<1> QED BY <1>4, <1>5, CommitImportLone, CommitOtherLone

LEMMA NextLone == RInv /\ RInv' /\ LoneInv /\ [Next]_vars => LoneInv'
<1> SUFFICES ASSUME RInv, RInv', LoneInv, [Next]_vars PROVE LoneInv'
  OBVIOUS
<1>1. CASE UNCHANGED vars
  <2>1. \A h : CreatorOf(h)' = CreatorOf(h)
    BY <1>1 DEF vars, CreatorOf
  <2>2. \A h, user : HeldBy(h, user)' = HeldBy(h, user)
    BY <1>1 DEF vars, HeldBy
  <2>3. \A q : Active(q)' = Active(q)
    BY <1>1 DEF vars, Active
  <2> QED BY <1>1, <2>1, <2>2, <2>3 DEF vars, LoneInv, AddressesApart, PropertiesApart, Placed, Shared,
          LoneSession, RowsFit, ImportAlone, FromPropertyAlone, Version, FilesRepeatNoAddress,
          LinksFollowAddresses
<1>2. ASSUME NEW q \in Requests, UNCHANGED <<tables, overlap>>, Active(q),
             NEW p \in Places \ {"read_holdings", "rows"}, Step(q, p),
             p = "commit" => request[q].kind # "from_property",
             \A k \in Requests \ {q} : tx'[k] = tx[k]
      PROVE  LoneInv'
  BY <1>2, MoveLone
<1>3. Types
  BY DEF RInv
<1>4. {"create_profile", "read_portfolios", "existing", "cascade", "commit", "ok", "late_error"}
        \subseteq Places \ {"read_holdings", "rows"}
  BY DEF Places, Points
<1>5. ASSUME NEW q \in Requests, ResolveUser(q) \/ CreateProfile(q), UNCHANGED overlap PROVE LoneInv'
  <2>1. Active(q) /\ UNCHANGED tables /\ \A k \in Requests \ {q} : tx'[k] = tx[k]
    BY <1>3, <1>5 DEF ResolveUser, CreateProfile, Active, Ended, End, Types
  <2>2. CASE End(q, "error")
    BY <1>5, <2>1, <2>2, EndLone
  <2>3. CASE \E p \in {"create_profile", AfterResolve(q)} : Step(q, p)
    <3>1. AfterResolve(q) \in {"read_portfolios", "existing"}
      BY DEF AfterResolve
    <3> QED BY <1>2, <1>4, <1>5, <2>1, <2>3, <3>1
  <2> QED BY <1>5, <2>2, <2>3 DEF ResolveUser, CreateProfile
<1>6. ASSUME NEW q \in Requests, UNCHANGED overlap,
             \/ CreatePortfolio(q) \/ AddHolding(q) \/ DeleteHolding(q) \/ DeletePortfolio(q)
      PROVE  LoneInv'
  <2>1. /\ Active(q) /\ UNCHANGED tables /\ request[q].kind # "from_property"
        /\ \A k \in Requests \ {q} : tx'[k] = tx[k]
    BY <1>3, <1>6 DEF CreatePortfolio, AddHolding, DeleteHolding, DeletePortfolio, Active, Ended, End,
       InsertPortfolio, Types
  <2>2. CASE End(q, "refused")
    BY <1>6, <2>1, <2>2, EndLone
  <2>3. CASE Step(q, "commit") \/ Step(q, "cascade")
    BY <1>2, <1>4, <1>6, <2>1, <2>3
  <2> QED BY <1>6, <2>2, <2>3 DEF CreatePortfolio, AddHolding, DeleteHolding, DeletePortfolio
<1>7. ASSUME NEW q \in Requests, Cascade(q), UNCHANGED overlap PROVE LoneInv'
  <2>1. request[q].at = "cascade" /\ request[q].kind # "from_property"
    <3>1. request[q] \in RequestRecords /\ SessionInv(q, request[q], tx[q])
      BY DEF RInv, Types
    <3>2. tx[q].holdings = {}
      BY <1>7, <3>1 DEF SessionInv, Holds, Cascade
    <3> QED BY <1>7, <3>1 DEF Cascade, SessionInv, InPlace
  <2>2. Active(q) /\ UNCHANGED tables /\ Step(q, "commit") /\ \A k \in Requests \ {q} : tx'[k] = tx[k]
    BY <1>3, <1>7 DEF Cascade, Active, Ended, Types
  <2> QED BY <1>2, <1>4, <1>7, <2>1, <2>2
<1>8. ASSUME NEW q \in Requests, CommitFails(q), UNCHANGED overlap PROVE LoneInv'
  BY <1>8, EndLone DEF CommitFails, WorkDone, Active, Ended
<1>9. ASSUME NEW q \in Requests, Refresh(q), UNCHANGED overlap PROVE LoneInv'
  <2>1. /\ Active(q) /\ UNCHANGED tables /\ tx' = tx
        /\ \E p \in {"ok", "late_error"} : Step(q, p)
    BY <1>9 DEF Refresh, Active, Ended
  <2> QED BY <1>2, <1>4, <1>9, <2>1
<1>10. ASSUME NEW q \in Requests, Handle(q), UNCHANGED overlap PROVE LoneInv'
  BY <1>5, <1>6, <1>7, <1>8, <1>9, <1>10, ReadPortfoliosLone, ReadHoldingsLone, RowLone, FromPropertyLone,
     CommitLone DEF Handle
<1> QED BY <1>1, <1>10, ReceiveLone DEF Next

LEMMA InitLone == Init => LoneInv
<1> SUFFICES ASSUME Init PROVE LoneInv
  OBVIOUS
<1>1. \A h, k \in holdings : h = k
  BY DEF Init
<1>2. \A h \in holdings : CreatorOf(h) = "import"
  <2>1. \A h \in holdings : h.id[1] = 0
    <3>1. <<0, 1>>[1] = 0
      OBVIOUS
    <3> QED BY <3>1 DEF Init
  <2> QED BY <2>1 DEF CreatorOf
<1>3. \A q \in Requests : request[q].at = "idle"
  BY DEF Init
<1> QED BY <1>1, <1>2, <1>3 DEF LoneInv, AddressesApart, PropertiesApart, Placed, LoneSession, Active

LEMMA LoneInvariance == Spec => []LoneInv
<1>1. Spec => []RInv
  BY RequestInvariance
<1> QED BY <1>1, InitLone, NextLone, PTL DEF Spec

\* Two holdings with one owner are of one user.
LEMMA OwnersAre ==
    ASSUME RInv, NEW h \in holdings, NEW k \in holdings, OwnerOf(h) = OwnerOf(k) PROVE Shared(h, k)
<1>1. ASSUME NEW g \in holdings PROVE HeldBy(g, OwnerOf(g)) /\ OwnerOf(g) \in Users
  <2>1. \E p \in portfolios : p.id = g.portfolio
    BY DEF RInv, TableInv, IdsOf
  <2> DEFINE p == CHOOSE p \in portfolios : p.id = g.portfolio
  <2>2. p \in portfolios /\ p.id = g.portfolio
    BY <2>1
  <2>3. OwnerOf(g) = p.user
    BY DEF OwnerOf
  <2> HIDE DEF p
  <2> QED BY <2>2, <2>3 DEF HeldBy, RInv, Types, InvestorPortfolioRow
<1> QED BY <1>1 DEF Shared

\* api/portfolio.py:412: while requests do not overlap, imports of files that
\* repeat no address never give a user two holdings at one address.
THEOREM ImportsKeepAddressesUniqueHolds == Spec => []ImportsKeepAddressesUnique
<1>1. RInv /\ LoneInv => ImportsKeepAddressesUnique
  BY OwnersAre DEF ImportsKeepAddressesUnique, LoneInv, AddressesApart
<1> QED BY <1>1, RequestInvariance, LoneInvariance, PTL

\* api/portfolio.py:638: while requests do not overlap, and imports link holdings
\* to the property at their address only, a user has at most one holding that
\* from-property made of a property.
THEOREM FromPropertyOnceHolds == Spec => []FromPropertyOnce
<1>1. RInv /\ LoneInv => FromPropertyOnce
  BY OwnersAre DEF FromPropertyOnce, LoneInv, PropertiesApart
<1> QED BY <1>1, RequestInvariance, LoneInvariance, PTL
==================================================================================
