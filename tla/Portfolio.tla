-------------------------------- MODULE Portfolio --------------------------------
(****************************************************************************)
(* The requests of api/portfolio.py that write: create_portfolio,           *)
(* add_holding, delete_holding, delete_portfolio, _bulk_import_holdings     *)
(* (CSV and chat) and portfolio_from_property, each one transaction at      *)
(* READ COMMITTED over investor_portfolios, portfolio_holdings and          *)
(* holding_financials, after resolve_user_id (services/user_resolve.py).    *)
(*                                                                          *)
(* The schema has foreign keys between the three tables and unique keys on  *)
(* the user profile only.  A foreign-key or unique conflict with a          *)
(* concurrent transaction makes the one that comes second fail; here the    *)
(* conflict is detected when it commits.                                    *)
(****************************************************************************)
EXTENDS Naturals, FiniteSets, SequencesExt

CONSTANTS
    MaxRequests,   \* bound on the HTTP requests
    Users,         \* authenticated identities, with an e-mail
    Addresses,     \* addresses up to strip().lower()
    Properties,    \* rows of the properties table
    AddressOf,     \* the address of each
    Kinds,         \* the endpoints in use
    Files          \* the files users import; a form is a row of one of them

ASSUME MaxRequestsAssumption == MaxRequests \in Nat \ {0}
ASSUME AddressOfAssumption == AddressOf \in [Properties -> Addresses]

Writers == {"create_portfolio", "add_holding", "delete_holding", "delete_portfolio",
            "import", "from_property"}
ASSUME KindsAssumption == Kinds \subseteq Writers

Nothing == "nothing"
ASSUME NothingAssumption == Nothing \notin Properties \cup Addresses

\* A CSV line, a chat entry or a holding form may lack an address, a property
\* id and a purchase price; valid: its enums parse and its property exists.
RowType == [address: Addresses \cup {Nothing}, property: Properties \cup {Nothing},
            financials: BOOLEAN, valid: BOOLEAN]
ASSUME FilesAssumption == \A file \in Files : file \in Seq(RowType) /\ file # <<>>

Forms == {row \in UNION {Range(file) : file \in Files} : row.address # Nothing}

VARIABLES
    profiles,     \* users with a committed user_profiles row
    portfolios, holdings, financials,   \* committed rows
    request,      \* each request's arguments and where it stands
    tx,           \* each session's uncommitted rows
    overlap       \* whether two requests have ever been under way at once

tables == <<profiles, portfolios, holdings, financials>>
vars == <<profiles, portfolios, holdings, financials, request, tx, overlap>>

Requests == 1..MaxRequests  \* numbered in the order they arrive
Ids == (0..MaxRequests) \X Nat   \* uuid: the request that inserted the row, and when

EmptyTx == [profile |-> FALSE, portfolios |-> {}, holdings |-> {}, financials |-> {},
            gone |-> {}, count |-> 0]

Points == {"idle", "resolve", "create_profile", "read_portfolios", "read_holdings",
           "rows", "target", "existing", "cascade", "commit", "refresh",
           "ok", "refused", "error", "late_error"}

Ended == {"ok", "refused", "error", "late_error"}

\* The rows of the three tables, and what their foreign keys refer to; by: the
\* request whose values a financials row has.
InvestorPortfolioRow == [id: Ids, user: Users]
PortfolioHoldingRow ==
    [id: Ids, portfolio: Ids, address: Addresses, property: Properties \cup {Nothing}]
HoldingFinancialsRow == [id: Ids, holding: Ids, by: Requests]

TypeOK ==
    /\ profiles \subseteq Users
    /\ portfolios \subseteq InvestorPortfolioRow
    /\ holdings \subseteq PortfolioHoldingRow
    /\ financials \subseteq HoldingFinancialsRow
    /\ \A q \in Requests : request[q].at \in Points /\ tx[q].count \in Nat

\* Request 0 stands for the past: an import that created a holding without
\* financials.
Init ==
    /\ profiles \in SUBSET Users
    /\ \/ portfolios = {} /\ holdings = {}
       \/ \E user \in profiles, address \in Addresses :
             /\ portfolios = {[id |-> <<0, 0>>, user |-> user]}
             /\ holdings = {[id |-> <<0, 1>>, portfolio |-> <<0, 0>>, address |-> address,
                            property |-> Nothing]}
    /\ financials = {}
    /\ request = [q \in Requests |-> [at |-> "idle"]]
    /\ tx = [q \in Requests |-> EmptyTx]
    /\ overlap = FALSE
--------------------------------------------------------------------------------
(****************************************************************************)
(* What a session sees, and what it changes.                                *)
(****************************************************************************)
Overlay(old, new, gone) ==
    {row \in old : row.id \notin gone /\ \A w \in new : w.id # row.id} \cup new

PortfoliosSeen(q) == Overlay(portfolios, tx[q].portfolios, tx[q].gone)
HoldingsSeen(q) == Overlay(holdings, tx[q].holdings, tx[q].gone)
FinancialsSeen(q) == Overlay(financials, tx[q].financials, tx[q].gone)

OfUser(q, user) == {p \in PortfoliosSeen(q) : p.user = user}
FinancialsOf(q, id) == {f \in FinancialsSeen(q) : f.holding = id}

Step(q, at) == request' = [request EXCEPT ![q].at = at]

\* The response is sent and get_db closes the session: what is not committed
\* is rolled back.
End(q, outcome) ==
    /\ Step(q, outcome)
    /\ tx' = [tx EXCEPT ![q] = EmptyTx]

Active(q) == request[q].at \notin Ended \cup {"idle"}

MayReceive(q, kind) ==
    /\ kind \in Kinds
    /\ request[q].at = "idle" /\ \A earlier \in 1..(q - 1) : request[earlier].at # "idle"
    /\ overlap' = (overlap \/ \E other \in Requests : Active(other))

\* What a client sends, and the point of the handler it is at first.  An import
\* is a parsed CSV file or the holdings of a chat that the user approved.
CsvImportRequest(user, file) ==
    [kind |-> "import", at |-> "resolve", user |-> user, rows |-> file, known |-> {}, into |-> {}]
PortfolioFromPropertyRequest(user, property) ==
    [kind |-> "from_property", at |-> "resolve", user |-> user, property |-> property]
InvestorPortfolioCreate(user) == [kind |-> "create_portfolio", at |-> "target", user |-> user]
PortfolioHoldingCreate(portfolio, row) ==
    [kind |-> "add_holding", at |-> "target", target |-> portfolio, row |-> row]

ReceiveImport(q) ==
    \E user \in Users, file \in Files :
        /\ MayReceive(q, "import")
        /\ request' = [request EXCEPT ![q] = CsvImportRequest(user, file)]
        /\ UNCHANGED <<tables, tx>>

ReceiveFromProperty(q) ==
    \E user \in Users, property \in Properties :
        /\ MayReceive(q, "from_property")
        /\ request' = [request EXCEPT ![q] = PortfolioFromPropertyRequest(user, property)]
        /\ UNCHANGED <<tables, tx>>

ReceiveCreate(q) ==
    \E user \in Users :
        /\ MayReceive(q, "create_portfolio")
        /\ request' = [request EXCEPT ![q] = InvestorPortfolioCreate(user)]
        /\ UNCHANGED <<tables, tx>>

ReceiveAddHolding(q) ==
    \E p \in portfolios, row \in Forms :
        /\ MayReceive(q, "add_holding")
        /\ request' = [request EXCEPT ![q] = PortfolioHoldingCreate(p.id, row)]
        /\ UNCHANGED <<tables, tx>>

ReceiveDelete(q, kind, table) ==
    \E item \in table :
        /\ MayReceive(q, kind)
        /\ request' = [request EXCEPT ![q] = [kind |-> kind, at |-> "target",
               target |-> item.id]]
        /\ UNCHANGED <<tables, tx>>

\* The rows session q adds: a portfolio; a holding, with financials or not.
NextId(q) == <<q, tx[q].count>>

AddPortfolioRow(t, q, user) ==
    [t EXCEPT !.count = @ + 1, !.portfolios = @ \cup {[id |-> <<q, t.count>>, user |-> user]}]

InsertPortfolio(q, user) == tx' = [tx EXCEPT ![q] = AddPortfolioRow(@, q, user)]

AddHoldingRows(t, q, portfolio, row) ==
    LET holding == [id |-> <<q, t.count>>, portfolio |-> portfolio,
                    address |-> row.address, property |-> row.property]
        fin == [id |-> <<q, t.count + 1>>, holding |-> holding.id, by |-> q]
    IN  [t EXCEPT !.count = @ + 2,
                  !.holdings = @ \cup {holding},
                  !.financials = @ \cup (IF row.financials THEN {fin} ELSE {})]
--------------------------------------------------------------------------------
(****************************************************************************)
(* resolve_user_id(auto_create=True), shared by import and from_property.   *)
(****************************************************************************)
AfterResolve(q) ==
    IF request[q].kind = "import" THEN "read_portfolios" ELSE "existing"

\* The SELECTs by id, by Supabase id and by e-mail.
ResolveUser(q) ==
    /\ request[q].at = "resolve"
    /\ Step(q, IF request[q].user \in profiles THEN AfterResolve(q) ELSE "create_profile")
    /\ UNCHANGED <<tables, tx>>

\* The INSERT waits for another session's uncommitted profile of the same user;
\* if that one committed, the unique key makes this request fail.
CreateProfile(q) ==
    /\ request[q].at = "create_profile"
    /\ \A other \in Requests \ {q} :
          ~(tx[other].profile /\ request[other].user = request[q].user)
    /\ \/ /\ request[q].user \in profiles
          /\ End(q, "error")
       \/ /\ request[q].user \notin profiles
          /\ tx' = [tx EXCEPT ![q].profile = TRUE]
          /\ Step(q, AfterResolve(q))
    /\ UNCHANGED tables
--------------------------------------------------------------------------------
(****************************************************************************)
(* _bulk_import_holdings                                                    *)
(****************************************************************************)

\* Mutant: the portfolio an import creates is committed at once.
ReadPortfolios_Commits(q) ==
    LET existing == OfUser(q, request[q].user)
    IN  /\ request[q].at = "read_portfolios"
        /\ \/ \E p \in existing :
                 /\ request' = [request EXCEPT ![q].at = "read_holdings", ![q].into = p.id]
                 /\ UNCHANGED <<portfolios, tx>>
           \/ /\ existing = {}
              /\ portfolios' = portfolios \cup {[id |-> NextId(q), user |-> request[q].user]}
              /\ tx' = [tx EXCEPT ![q].count = @ + 1]
              /\ request' = [request EXCEPT ![q].at = "read_holdings", ![q].into = NextId(q)]
        /\ UNCHANGED <<profiles, holdings, financials>>

\* existing_portfolios[0] of a SELECT without ORDER BY, or a new portfolio.
ReadPortfolios(q) ==
    LET existing == OfUser(q, request[q].user)
    IN  /\ request[q].at = "read_portfolios"
        /\ \/ \E p \in existing :
                 /\ request' = [request EXCEPT ![q].at = "read_holdings", ![q].into = p.id]
                 /\ UNCHANGED tx
           \/ /\ existing = {}
              /\ InsertPortfolio(q, request[q].user)
              /\ request' = [request EXCEPT ![q].at = "read_holdings", ![q].into = NextId(q)]
        /\ UNCHANGED tables

\* Mutant: the known holdings are those an inner join with financials returns.
ReadHoldings_OnlyPriced(q) ==
    LET mine == {h \in HoldingsSeen(q) : FinancialsOf(q, h.id) # {}}
    IN  /\ request[q].at = "read_holdings"
        /\ request' = [request EXCEPT ![q].at = "rows", ![q].known = mine]
        /\ UNCHANGED <<tables, tx>>

\* by_address: one holding per address of the user, read once.
ReadHoldings(q) ==
    LET mine == {h \in HoldingsSeen(q) :
                    \E p \in OfUser(q, request[q].user) : p.id = h.portfolio}
    IN  /\ request[q].at = "read_holdings"
        /\ \E known \in SUBSET mine :
              /\ \A h \in mine : \E k \in known : k.address = h.address
              /\ \A k, l \in known : k.address = l.address => k = l
              /\ request' = [request EXCEPT ![q].at = "rows", ![q].known = known]
        /\ UNCHANGED <<tables, tx>>

NextRow(q) == request' = [request EXCEPT ![q].rows = Tail(@)]

\* The known holding at the row's address gets its values (an UPDATE names the
\* columns that changed, here the property), and its financials row, read by
\* scalar_one_or_none(), is inserted or updated.
UpdateHolding(q, row, match) ==
    LET updated == IF row.property \in {Nothing, match.property} THEN {}
                   ELSE {[match EXCEPT !.property = row.property]}
        fins == FinancialsOf(q, match.id)
        written == IF ~row.financials THEN {}
                   ELSE IF fins = {} THEN {[id |-> NextId(q), holding |-> match.id, by |-> q]}
                   ELSE {[f EXCEPT !.by = q] : f \in fins}
    IN  \/ row.financials /\ Cardinality(fins) > 1 /\ End(q, "error")
        \/ /\ row.financials => Cardinality(fins) <= 1
           /\ NextRow(q)
           /\ tx' = [tx EXCEPT ![q].count = @ + 1,
                               ![q].holdings = Overlay(@, updated, {}),
                               ![q].financials = Overlay(@, written, {})]

\* One row of the file: skipped, refused with 400, an insert, or an update of
\* the known holding.
ImportRow(q) ==
    /\ request[q].at = "rows" /\ request[q].rows # <<>>
    /\ LET row == Head(request[q].rows)
           matches == {h \in request[q].known : h.address = row.address}
       IN  \/ row.address = Nothing /\ NextRow(q) /\ UNCHANGED tx
           \/ row.address # Nothing /\ ~row.valid /\ End(q, "refused")
           \/ /\ row.address # Nothing /\ row.valid /\ matches = {}
              /\ tx' = [tx EXCEPT ![q] = AddHoldingRows(@, q, request[q].into, row)]
              /\ NextRow(q)
           \/ /\ row.address # Nothing /\ row.valid
              /\ \E match \in matches : UpdateHolding(q, row, match)
    /\ UNCHANGED tables

--------------------------------------------------------------------------------
(****************************************************************************)
(* portfolio_from_property: the join returns one line per holding of the    *)
(* property, and scalar_one_or_none() raises on two.                        *)
(****************************************************************************)
\* Mutant: the lookup takes holdings that are linked to no property.
Held_Unlinked(q, user, property) ==
    {h \in HoldingsSeen(q) : h.property = Nothing /\ \E p \in OfUser(q, user) : p.id = h.portfolio}

Held(q, user, property) ==
    {h \in HoldingsSeen(q) : h.property = property /\ \E p \in OfUser(q, user) : p.id = h.portfolio}

FromProperty(q) ==
    LET user == request[q].user
        held == Held(q, user, request[q].property)
        row == [address |-> AddressOf[request[q].property], property |-> request[q].property,
                financials |-> TRUE]
    IN  /\ request[q].at = "existing"
        /\ \/ Cardinality(held) = 1 /\ End(q, "ok")
           \/ Cardinality(held) > 1 /\ End(q, "error")
           \/ /\ held = {}
              /\ tx' = [tx EXCEPT ![q] =
                            AddHoldingRows(AddPortfolioRow(@, q, user), q, NextId(q), row)]
              /\ Step(q, "commit")
        /\ UNCHANGED tables
--------------------------------------------------------------------------------
(****************************************************************************)
(* The CRUD endpoints                                                       *)
(****************************************************************************)
CreatePortfolio(q) ==
    /\ request[q].at = "target" /\ request[q].kind = "create_portfolio"
    /\ \/ request[q].user \notin profiles /\ End(q, "refused")
       \/ /\ request[q].user \in profiles
          /\ InsertPortfolio(q, request[q].user) /\ Step(q, "commit")
    /\ UNCHANGED tables

PortfolioExists(q) == \E p \in portfolios : p.id = request[q].target

AddHolding(q) ==
    /\ request[q].at = "target" /\ request[q].kind = "add_holding"
    /\ \/ ~(PortfolioExists(q) /\ request[q].row.valid) /\ End(q, "refused")
       \/ /\ PortfolioExists(q) /\ request[q].row.valid
          /\ tx' = [tx EXCEPT ![q] = AddHoldingRows(@, q, request[q].target, request[q].row)]
          /\ Step(q, "commit")
    /\ UNCHANGED tables

DeleteHolding(q) ==
    LET ids == {f.id : f \in {f \in financials : f.holding = request[q].target}}
    IN  /\ request[q].at = "target" /\ request[q].kind = "delete_holding"
        /\ \/ (\A h \in holdings : h.id # request[q].target) /\ End(q, "refused")
           \/ /\ \E h \in holdings : h.id = request[q].target
              /\ tx' = [tx EXCEPT ![q].gone = ids \cup {request[q].target}]
              /\ Step(q, "commit")
        /\ UNCHANGED tables

\* delete_portfolio reads the portfolio and its holdings ...
DeletePortfolio(q) ==
    /\ request[q].at = "target" /\ request[q].kind = "delete_portfolio"
    /\ \/ ~PortfolioExists(q) /\ End(q, "refused")
       \/ /\ PortfolioExists(q)
          /\ tx' = [tx EXCEPT ![q].gone = {request[q].target} \cup
                       {h.id : h \in {h \in holdings : h.portfolio = request[q].target}}]
          /\ Step(q, "cascade")
    /\ UNCHANGED tables

\* ... then the financials of each.
Cascade(q) ==
    /\ request[q].at = "cascade"
    /\ tx' = [tx EXCEPT ![q].gone = @ \cup {f.id : f \in {f \in financials : f.holding \in @}}]
    /\ Step(q, "commit")
    /\ UNCHANGED tables
--------------------------------------------------------------------------------
(****************************************************************************)
(* db.commit(): the foreign keys hold of the result and no updated row was  *)
(* deleted meanwhile, or the request fails with nothing written.  The       *)
(* Refreshing endpoints read their new row once more afterwards.            *)
(****************************************************************************)
Refreshing == {"create_portfolio", "add_holding", "from_property"}

IdsOf(table) == {row.id : row \in table}

Consistent(q) ==
    LET ps == PortfoliosSeen(q)
        hs == HoldingsSeen(q)
        fs == FinancialsSeen(q)
    IN  /\ \A h \in hs : h.portfolio \in IdsOf(ps)
        /\ \A f \in fs : f.holding \in IdsOf(hs)
        /\ \A row \in tx[q].holdings \cup tx[q].financials :
              row.id[1] = q \/ row.id \in IdsOf(holdings) \cup IdsOf(financials)

WorkDone(q) ==
    \/ request[q].at = "commit"
    \/ request[q].at = "rows" /\ request[q].rows = <<>>

Commit(q) ==
    /\ WorkDone(q) /\ Consistent(q)
    /\ profiles' = profiles \cup (IF tx[q].profile THEN {request[q].user} ELSE {})
    /\ portfolios' = PortfoliosSeen(q)
    /\ holdings' = HoldingsSeen(q)
    /\ financials' = FinancialsSeen(q)
    /\ End(q, IF request[q].kind \in Refreshing THEN "refresh" ELSE "ok")

\* The foreign keys are checked per statement, and no relationship() tells the
\* session to delete a row before the row it refers to: a flush that deletes
\* both may fail.
DeletesParentAndChild(q) ==
    \/ \E h \in holdings : {h.id, h.portfolio} \subseteq tx[q].gone
    \/ \E f \in financials : {f.id, f.holding} \subseteq tx[q].gone

CommitFails(q) ==
    /\ WorkDone(q)
    /\ ~Consistent(q) \/ DeletesParentAndChild(q)
    /\ End(q, "error")
    /\ UNCHANGED tables

\* db.refresh() of the new row after the commit, and for a holding the SELECT of
\* its financials: by then others may have deleted the row or added to it.
Refresh(q) ==
    LET id == <<q, 0>>
        found == id \in IdsOf(portfolios) \cup IdsOf(holdings)
        fins == {f \in financials : f.holding = id}
    IN  /\ request[q].at = "refresh"
        /\ \/ found /\ Cardinality(fins) <= 1 /\ Step(q, "ok")
           \/ ~(found /\ Cardinality(fins) <= 1) /\ Step(q, "late_error")
        /\ UNCHANGED <<tables, tx>>

Handle(q) ==
    \/ ResolveUser(q) \/ CreateProfile(q)
    \/ ReadPortfolios(q) \/ ReadHoldings(q) \/ ImportRow(q)
    \/ FromProperty(q) \/ CreatePortfolio(q) \/ AddHolding(q)
    \/ DeleteHolding(q) \/ DeletePortfolio(q) \/ Cascade(q)
    \/ Commit(q) \/ CommitFails(q) \/ Refresh(q)

Next ==
    \E q \in Requests :
        \/ ReceiveImport(q) \/ ReceiveFromProperty(q) \/ ReceiveCreate(q)
        \/ ReceiveAddHolding(q)
        \/ ReceiveDelete(q, "delete_holding", holdings)
        \/ ReceiveDelete(q, "delete_portfolio", portfolios)
        \/ Handle(q) /\ UNCHANGED overlap

Spec == Init /\ [][Next]_vars
--------------------------------------------------------------------------------
\* The endpoint whose request inserted the row.
CreatorOf(row) == IF row.id[1] = 0 THEN "import" ELSE request[row.id[1]].kind
OwnerOf(h) == (CHOOSE p \in portfolios : p.id = h.portfolio).user

\* What the two idempotency rules take for granted of what users send.
FilesRepeatNoAddress ==
    \A file \in Files : \A i, k \in DOMAIN file :
        file[i].address = file[k].address /\ file[i].address # Nothing => i = k

LinksFollowAddresses ==
    /\ \A p, r \in Properties : AddressOf[p] = AddressOf[r] => p = r
    /\ \A file \in Files : \A row \in Range(file) :
          row.property # Nothing => row.address = AddressOf[row.property]

\* api/portfolio.py:412 "a holding is keyed on (portfolio.user_id, address)":
\* imports, whatever else runs between them, never give a user two holdings at
\* one address, however often a file is sent again; as long as requests do not
\* overlap and no file repeats an address.
ImportsKeepAddressesUnique ==
    ~overlap /\ FilesRepeatNoAddress =>
        \A h, k \in holdings :
            /\ h.address = k.address /\ OwnerOf(h) = OwnerOf(k)
            /\ CreatorOf(h) = "import" /\ CreatorOf(k) = "import"
            => h = k

\* The requests that may have left something: those past their commit.
Left == {"ok", "refresh", "late_error"}

\* In this step request q, of one of the kinds, gets past its commit.
GetsPast(q, kinds) ==
    request[q].at \notin Left /\ request'[q].at \in Left /\ request[q].kind \in kinds

Rows == portfolios \cup holdings \cup financials

\* api/portfolio.py:416 "if any row blows up the entire import rolls back": a
\* request that is refused or fails up to its commit, or has not got there, has
\* left no row and no figures, also when others run beside it.  Nor has it deleted
\* a row, linked a holding to another property or left a profile: a row goes, a
\* link changes and a profile appears only in the very step in which a deletion, an
\* import, or a request of that user commits.
RequestIsAtomic ==
    /\ [](\A q \in Requests : request[q].at \notin Left =>
             /\ \A row \in Rows : row.id[1] # q
             /\ \A f \in financials : f.by # q)
    /\ [][/\ \/ IdsOf(Rows) \subseteq IdsOf(Rows')
             \/ \E q \in Requests : GetsPast(q, {"delete_holding", "delete_portfolio"})
          /\ \A h \in holdings : \A k \in holdings' : h.id = k.id /\ h # k =>
                 \E q \in Requests : GetsPast(q, {"import"})
          /\ \A user \in profiles' \ profiles :
                 \E q \in Requests :
                     GetsPast(q, {"import", "from_property"}) /\ request[q].user = user]_vars

\* api/portfolio.py:638 "Idempotent: re-posting with the same (user_id,
\* property_id) returns the existing portfolio rather than duplicating": while
\* requests do not overlap, from-property never gives a user two holdings of a
\* property, as long as no import links a holding to another property than the
\* one at its address.
FromPropertyOnce ==
    ~overlap /\ LinksFollowAddresses =>
        \A h, k \in holdings :
            /\ CreatorOf(h) = "from_property" /\ CreatorOf(k) = "from_property"
            /\ h.property = k.property /\ OwnerOf(h) = OwnerOf(k)
            => h = k
==================================================================================
