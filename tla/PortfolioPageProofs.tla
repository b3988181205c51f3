--------------------------- MODULE PortfolioPageProofs ---------------------------
(****************************************************************************)
(* Proofs about PortfolioPage: for any investors, files and bounds, and     *)
(* whatever is switched, refused, late or lost, the selection is listed,    *)
(* the overview is of the selection and an import reported done is stored.  *)
(*                                                                          *)
(* The inductive invariant, PInv, says what each call in flight will do to  *)
(* the page: a list that was asked for because of a creation has the new    *)
(* portfolio (ListInv), the overview waits for no report but that of the    *)
(* selection (SummaryInv), and the rows of an import are stored or still to *)
(* be sent (WriteInv), all of them once it refreshes the tab (RefreshInv).  *)
(****************************************************************************)
EXTENDS PortfolioPage, SequenceTheorems, WellFoundedInduction, TLAPS

CallKinds == {"users", "list", "create", "summary", "refresh", "items", "evaluate", "add", "import"}

CallRecords ==
    [kind: CallKinds, at: {"asked", "answered"}, owner: {"tab", "page", "gone"},
     user: Users \cup {None}, portfolio: Nat, item: Nat, rows: Seq(Rows), file: Seq(Rows),
     result: SUBSET Nat]

Views ==
    [loading: BOOLEAN, report: Nat, items: SUBSET Nat, choice: Nat, rows: Seq(Rows),
     importing: BOOLEAN]

Types ==
    /\ owner \in Seq(Users) /\ holdings \in Seq([portfolio: Nat, row: Rows])
    /\ user \in Users \cup {None} /\ listed \in SUBSET Nat /\ selected \in Nat
    /\ tab \in Tabs /\ view \in Views /\ calls \in SUBSET CallRecords

\* What a call in flight was asked for, and knows once it is served.
Owned(u) == {p \in DOMAIN owner : owner[p] = u}

ListInv(call) ==
    call.kind = "list" =>
        /\ call.user \in Users
        /\ call.item # Nothing =>
              call.item \in Owned(call.user) /\ (call.at = "answered" => call.item \in call.result)

CreateInv(call) ==
    call.kind = "create" =>
        call.user \in Users /\ (call.at = "answered" => call.result \subseteq Owned(call.user))

SummaryInv(call) ==
    call.kind = "summary" => call.owner = "tab" /\ tab = "analysis" /\ call.portfolio = selected

\* The rows that are not stored for certain.
Unsent(call) == IF call.at = "asked" THEN call.rows ELSE Tail(call.rows)

WriteInv(call) ==
    call.kind \in {"add", "import"} =>
        /\ call.rows # <<>>
        /\ \A row \in Range(call.file) : Stored(call.portfolio, row) \/ row \in Range(Unsent(call))

RefreshInv(call) ==
    call.kind = "refresh" => \A row \in Range(call.file) : Stored(call.portfolio, row)

CallInv(call) ==
    ListInv(call) /\ CreateInv(call) /\ SummaryInv(call) /\ WriteInv(call) /\ RefreshInv(call)

ReportInv == view.report # Nothing => tab = "analysis" /\ view.report = selected

PInv ==
    /\ Types /\ ReportInv /\ missing = {}
    /\ SelectedIsListed
    /\ \A call \in calls : CallInv(call)

(****************************************************************************)
(* Sequences and records.                                                   *)
(****************************************************************************)
LEMMA RangeIs ==
    ASSUME NEW S, NEW seq \in Seq(S)
    PROVE  /\ seq = <<>> => Range(seq) = {}
           /\ seq # <<>> => /\ Head(seq) \in S /\ Tail(seq) \in Seq(S)
                            /\ Range(seq) = {Head(seq)} \cup Range(Tail(seq))
                            /\ Len(seq) <= 1 => Tail(seq) = <<>>
                            /\ Len(seq) > 1 => Tail(seq) # <<>>
<1>1. CASE seq = <<>>
  BY <1>1 DEF Range
<1>2. CASE seq # <<>>
  <2>1. /\ Len(seq) \in Nat \ {0} /\ DOMAIN seq = 1..Len(seq)
        /\ Head(seq) = seq[1] /\ Head(seq) \in S
        /\ Tail(seq) \in Seq(S) /\ Len(Tail(seq)) = Len(seq) - 1
        /\ DOMAIN Tail(seq) = 1..(Len(seq) - 1)
        /\ \A i \in 1..(Len(seq) - 1) : Tail(seq)[i] = seq[i + 1]
    BY <1>2, EmptySeq, HeadTailProperties, LenProperties
  <2>2. Range(seq) \subseteq {Head(seq)} \cup Range(Tail(seq))
    <3> SUFFICES ASSUME NEW i \in DOMAIN seq, i # 1 PROVE seq[i] \in Range(Tail(seq))
      BY <2>1 DEF Range
    <3>1. i - 1 \in DOMAIN Tail(seq) /\ Tail(seq)[i - 1] = seq[i]
      BY <2>1
    <3> QED BY <3>1 DEF Range
  <2>3. {Head(seq)} \cup Range(Tail(seq)) \subseteq Range(seq)
    <3>1. \A i \in DOMAIN Tail(seq) : i + 1 \in DOMAIN seq /\ Tail(seq)[i] = seq[i + 1]
      BY <2>1
    <3>2. 1 \in DOMAIN seq
      BY <2>1
    <3> QED BY <2>1, <3>1, <3>2 DEF Range
  <2>4. /\ Len(seq) <= 1 => Tail(seq) = <<>>
        /\ Len(seq) > 1 => Tail(seq) # <<>>
    <3>1. Tail(seq) = <<>> <=> Len(Tail(seq)) = 0
      BY <2>1, EmptySeq
    <3> QED BY <2>1, <3>1
  <2> QED BY <1>2, <2>1, <2>2, <2>3, <2>4
<1> QED BY <1>1, <1>2

LEMMA MinIn == ASSUME NEW S, S \subseteq Nat, S # {} PROVE Min(S) \in S
<1>1. PICK x \in S : \A y \in S : ~(<<y, x>> \in OpToRel(<, Nat))
  BY NatLessThanWellFounded, WFMin
<1>2. ASSUME NEW y \in S PROVE x <= y
  <2>1. ~(y < x)
    BY <1>1 DEF OpToRel
  <2> QED BY <2>1
<1> QED BY <1>2 DEF Min

LEMMA NewCallIs ==
    /\ NewCall.rows = <<>> /\ NewCall.file = <<>> /\ NewCall.result = {} /\ NewCall.at = "asked"
    /\ NewCall.owner = "tab" /\ NewCall.portfolio = Nothing /\ NewCall.item = Nothing
    /\ \A kind \in CallKinds : [NewCall EXCEPT !.kind = kind] \in CallRecords
BY EmptySeq DEF NewCall, CallRecords, Nothing

(****************************************************************************)
(* Calls over a step.                                                       *)
(****************************************************************************)
Grows ==
    /\ \A u \in Users : Owned(u) \subseteq Owned(u)'
    /\ \A p \in Nat : \A row : Stored(p, row) => Stored(p, row)'

LEMMA SameServer == ASSUME UNCHANGED server PROVE Grows
BY DEF server, Grows, Owned, Stored

\* A call that is not touched by a step.
LEMMA CallFrame ==
    ASSUME NEW call \in CallRecords, CallInv(call), Grows,
           call.kind = "summary" => UNCHANGED <<tab, selected>>
    PROVE  CallInv(call)'
<1>1. call.portfolio \in Nat
  BY DEF CallRecords
<1>2. ListInv(call)' /\ CreateInv(call)'
  BY DEF CallInv, Grows, ListInv, CreateInv
<1>3. SummaryInv(call)'
  BY DEF CallInv, SummaryInv
<1>4. WriteInv(call)' /\ RefreshInv(call)'
  BY <1>1 DEF CallInv, Grows, WriteInv, RefreshInv, Unsent
<1> QED BY <1>2, <1>3, <1>4 DEF CallInv

\* A step of something else than the selection: the calls that are new are sound.
LEMMA CallsStep ==
    ASSUME PInv, Grows, UNCHANGED <<tab, selected>>,
           \A c \in calls' : c \in calls \/ (c \in CallRecords /\ CallInv(c)')
    PROVE  calls' \in SUBSET CallRecords /\ \A call \in calls' : CallInv(call)'
<1>1. \A call \in calls : call \in CallRecords /\ CallInv(call)
  BY DEF PInv, Types
<1>2. \A call \in calls : CallInv(call)'
  BY <1>1, CallFrame
<1> QED BY <1>1, <1>2

\* A call that reads for a component or asks for users.
LEMMA PlainCall ==
    ASSUME NEW call, call.kind \in {"users", "items", "evaluate"}
    PROVE  CallInv(call) /\ CallInv(call)'
BY DEF CallInv, ListInv, CreateInv, SummaryInv, WriteInv, RefreshInv

LEMMA AskList ==
    ASSUME Types, NEW u \in Users, NEW created \in Nat, created # Nothing => created \in Owned(u)'
    PROVE  ListCall(u, created) \in CallRecords /\ CallInv(ListCall(u, created))'
<1> DEFINE call == ListCall(u, created)
<1>1. /\ call \in CallRecords /\ call.kind = "list" /\ call.user = u /\ call.item = created
      /\ call.at = "asked"
  BY EmptySeq DEF ListCall, NewCall, CallRecords, CallKinds, Nothing
<1> HIDE DEF call
<1>2. CallInv(call)'
  BY <1>1 DEF CallInv, ListInv, CreateInv, SummaryInv, WriteInv, RefreshInv
<1> QED BY <1>1, <1>2 DEF call

\* The page, unchanged but for the calls.
LEMMA Quiet ==
    ASSUME PInv, Grows, UNCHANGED <<page, tab, view, missing>>,
           owner' \in Seq(Users), holdings' \in Seq([portfolio: Nat, row: Rows]),
           \A c \in calls' : c \in calls \/ (c \in CallRecords /\ CallInv(c)')
    PROVE  PInv'
<1>1. UNCHANGED <<tab, selected, listed, failed, user, view, missing>>
  BY DEF page
<1>2. calls' \in SUBSET CallRecords /\ \A call \in calls' : CallInv(call)'
  BY <1>1, CallsStep
<1> QED BY <1>1, <1>2 DEF PInv, Types, ReportInv, SelectedIsListed

(****************************************************************************)
(* Rendering.                                                               *)
(****************************************************************************)
LEMMA RenderKeeps ==
    ASSUME PInv, UNCHANGED server, NEW t \in Tabs, NEW p \in Nat, NEW cs, cs \subseteq calls,
           Render(t, p, view, cs)
    PROVE  /\ tab' \in Tabs /\ selected' = p /\ view' \in Views /\ ReportInv'
           /\ calls' \in SUBSET CallRecords /\ \A call \in calls' : CallInv(call)'
<1>1. tab' = t /\ selected' = p /\ view \in Views /\ cs \subseteq CallRecords
  BY DEF Render, PInv, Types
<1>2. Grows
  BY SameServer
<1>3. \A call \in cs : call \in CallRecords /\ CallInv(call)
  BY <1>1 DEF PInv
<1>4. CASE t = tab /\ p = selected
  <2>1. view' = view /\ calls' = cs
    BY <1>4 DEF Render
  <2>2. \A call \in cs : CallInv(call)'
    BY <1>1, <1>2, <1>3, <1>4, CallFrame
  <2> QED BY <1>1, <1>4, <2>1, <2>2 DEF ReportInv, PInv
<1>5. CASE ~(t = tab /\ p = selected)
  <2> DEFINE stays == t = tab /\ Shows(t, p) /\ Shows(tab, selected)
             rest == IF stays THEN Inactive(cs) ELSE Unmounted(cs)
             v == IF stays THEN view ELSE EmptyView
  <2>1. /\ Shows(t, p) => view' = AtEffect(t, v) /\ calls' = rest \cup Effect(t, p)
        /\ ~Shows(t, p) => view' = EmptyView /\ calls' = rest
    BY <1>5 DEF Render
  <2>2. EmptyView \in Views /\ EmptyView.report = Nothing
    BY DEF EmptyView, Views, Nothing
  <2>3. v \in Views /\ (t # "analysis" => v.report = Nothing)
    <3>1. stays => view.report = Nothing \/ t = "analysis"
      BY DEF PInv, ReportInv
    <3> QED BY <1>1, <2>2, <3>1
  <2>4. AtEffect(t, v) \in Views /\ AtEffect(t, v).report = Nothing
    <3> HIDE DEF v
    <3> QED BY <2>3 DEF AtEffect, Views, Nothing
  <2>5. view' \in Views /\ ReportInv'
    BY <2>1, <2>2, <2>4 DEF ReportInv
  <2>6. ASSUME NEW call \in rest
        PROVE  call \in CallRecords /\ CallInv(call)'
    <3>1. CASE stays
      <4>1. call \in cs /\ call.kind # "summary"
        BY <2>6, <3>1 DEF Inactive
      <4> QED BY <1>2, <1>3, <4>1, CallFrame
    <3>2. CASE ~stays /\ call \in cs /\ call.owner # "tab"
      <4>1. call.kind # "summary"
        BY <1>3, <3>2 DEF CallInv, SummaryInv
      <4> QED BY <1>2, <1>3, <3>2, <4>1, CallFrame
    <3>3. ASSUME NEW c \in cs, c.kind \notin Reads, call = [c EXCEPT !.owner = "gone"]
          PROVE  call \in CallRecords /\ CallInv(call)'
      <4>1. /\ call \in CallRecords /\ call.kind = c.kind /\ call.user = c.user /\ call.item = c.item
            /\ call.at = c.at /\ call.result = c.result /\ call.rows = c.rows /\ call.file = c.file
            /\ call.portfolio = c.portfolio
        BY <1>3, <3>3 DEF CallRecords
      <4>2. CallInv(c)'
        BY <1>2, <1>3, <3>3, CallFrame DEF Reads
      <4>3. c.kind # "summary"
        BY <3>3 DEF Reads
      <4> QED BY <4>1, <4>2, <4>3 DEF CallInv, ListInv, CreateInv, SummaryInv, WriteInv, RefreshInv,
              Unsent
    <3>4. CASE ~stays /\ ~(call \in cs /\ call.owner # "tab")
      <4>1. PICK c \in cs : c.kind \notin Reads /\ call = [c EXCEPT !.owner = "gone"]
        BY <2>6, <3>4 DEF Unmounted
      <4> QED BY <3>3, <4>1
    <3> QED BY <3>1, <3>2, <3>4
  <2>7. ASSUME Shows(t, p), NEW call \in Effect(t, p) PROVE call \in CallRecords /\ CallInv(call)'
    <3>1. t \in {"analysis", "holdings", "decisions"}
      BY <2>7 DEF Shows, Tabs
    <3>2. PICK kind \in {"summary", "refresh", "items"} :
            /\ call = [NewCall EXCEPT !.kind = kind, !.portfolio = p]
            /\ kind = "summary" => t = "analysis"
      BY <2>7, <3>1 DEF Effect
    <3>3. /\ call \in CallRecords /\ call.kind = kind /\ call.portfolio = p /\ call.owner = "tab"
          /\ call.file = <<>>
      BY <3>2, EmptySeq DEF NewCall, CallRecords, CallKinds, Nothing
    <3>4. Range(<<>>) = {}
      BY DEF Range
    <3> QED BY <1>1, <3>2, <3>3, <3>4 DEF CallInv, ListInv, CreateInv, SummaryInv, WriteInv, RefreshInv
  <2> HIDE DEF rest
  <2> QED BY <1>1, <2>1, <2>5, <2>6, <2>7
<1> QED BY <1>4, <1>5

\* A render of the page, with the list of the selector as it was.
LEMMA Rendered ==
    ASSUME PInv, NEW t \in Tabs, NEW p \in Nat, NEW cs, cs \subseteq calls, Render(t, p, view, cs),
           UNCHANGED <<server, user, missing>>, listed' \in SUBSET Nat,
           p # Nothing => p \in listed' \/ failed'
    PROVE  PInv'
<1>1. /\ tab' \in Tabs /\ selected' = p /\ view' \in Views /\ ReportInv'
      /\ calls' \in SUBSET CallRecords /\ \A call \in calls' : CallInv(call)'
  BY RenderKeeps
<1>2. UNCHANGED <<owner, holdings, user, missing>>
  BY DEF server
<1> QED BY <1>1, <1>2 DEF PInv, Types, SelectedIsListed

(****************************************************************************)
(* The user.                                                                *)
(****************************************************************************)
\* A tab's own state and calls.
LEMMA TabStep ==
    ASSUME PInv, UNCHANGED <<server, page, tab, missing>>, view' \in Views, view'.report = view.report,
           \A c \in calls' : c \in calls \/ (c \in CallRecords /\ CallInv(c)')
    PROVE  PInv'
<1>1. UNCHANGED <<owner, holdings, user, tab, selected, listed, failed, missing>>
  BY DEF server, page
<1>2. calls' \in SUBSET CallRecords /\ \A call \in calls' : CallInv(call)'
  BY <1>1, CallsStep, SameServer
<1> QED BY <1>1, <1>2 DEF PInv, Types, ReportInv, SelectedIsListed

LEMMA OneCall ==
    ASSUME PInv, UNCHANGED <<server, page, tab, missing>>, view' \in Views, view'.report = view.report,
           NEW call \in CallRecords, calls' \subseteq calls \cup {call}, CallInv(call)'
    PROVE  PInv'
<1>1. \A c \in calls' : c \in calls \/ (c \in CallRecords /\ CallInv(c)')
  OBVIOUS
<1> QED BY <1>1, TabStep

LEMMA NoCall ==
    ASSUME PInv, UNCHANGED <<server, page, tab, missing>>, view' \in Views, view'.report = view.report,
           calls' \subseteq calls
    PROVE  PInv'
<1>1. \A c \in calls' : c \in calls \/ (c \in CallRecords /\ CallInv(c)')
  OBVIOUS
<1> QED BY <1>1, TabStep

LEMMA UserKeeps == ASSUME PInv, User PROVE PInv'
<1>1. /\ Types /\ view \in Views /\ view.report \in Nat /\ view.items \in SUBSET Nat
      /\ view.rows \in Seq(Rows) /\ view.choice \in Nat
  BY DEF PInv, Types, Views
<1>2. CASE SelectUser
  <2>1. PICK u \in Users \cup {None} : user' = u /\ LoadPortfolios(u, Nothing, calls)
    BY <1>2 DEF SelectUser
  <2>2. UNCHANGED <<owner, holdings, listed, selected, failed, tab, view, missing>>
    BY <1>2 DEF SelectUser, server
  <2>3. Grows
    BY <1>2, SameServer DEF SelectUser
  <2>4. calls' \in SUBSET CallRecords /\ \A call \in calls' : CallInv(call)'
    <3>1. CASE u = None
      <4>1. calls' = calls
        BY <2>1, <3>1 DEF LoadPortfolios
      <4>2. \A c \in calls' : c \in calls \/ (c \in CallRecords /\ CallInv(c)')
        BY <4>1
      <4> QED BY <2>2, <2>3, <4>2, CallsStep
    <3>2. CASE u # None
      <4> DEFINE call == ListCall(u, Nothing)
      <4>1. calls' = calls \cup {call}
        BY <2>1, <3>2 DEF LoadPortfolios, Ask
      <4>2. call \in CallRecords /\ CallInv(call)'
        BY <1>1, <3>2, AskList DEF Nothing
      <4> HIDE DEF call
      <4>3. \A c \in calls' : c \in calls \/ (c \in CallRecords /\ CallInv(c)')
        BY <4>1, <4>2
      <4> QED BY <2>2, <2>3, <4>3, CallsStep
    <3> QED BY <3>1, <3>2
  <2> QED BY <2>1, <2>2, <2>4 DEF PInv, Types, ReportInv, SelectedIsListed
<1>3. CASE SelectPortfolio
  <2>1. PICK p \in listed \cup {Nothing} : Render(tab, p, view, calls)
    BY <1>3 DEF SelectPortfolio
  <2> QED BY <1>1, <1>3, <2>1, Rendered DEF SelectPortfolio, Types, Nothing
<1>4. CASE SwitchTab
  <2>1. PICK t \in Tabs : Render(t, selected, view, calls)
    BY <1>4 DEF SwitchTab
  <2>2. selected # Nothing => selected \in listed' \/ failed'
    BY <1>4 DEF SwitchTab, PInv, SelectedIsListed
  <2> QED BY <1>1, <1>4, <2>1, <2>2, Rendered DEF SwitchTab, Types
<1>5. CASE Create
  <2>1. PICK call \in CallRecords :
          /\ call.kind = "create" /\ call.user \in Users /\ call.at = "asked"
          /\ calls' = calls \cup {call}
    <3> DEFINE c == [NewCall EXCEPT !.kind = "create", !.owner = "page", !.user = user]
    <3>1. c \in CallRecords /\ c.kind = "create" /\ c.user \in Users /\ c.at = "asked"
      BY <1>1, <1>5, EmptySeq DEF Create, NewCall, CallRecords, CallKinds, Types, Nothing
    <3>2. calls' = calls \cup {c}
      BY <1>5 DEF Create, Ask
    <3> HIDE DEF c
    <3> QED BY <3>1, <3>2
  <2>2. CallInv(call)'
    BY <2>1 DEF CallInv, ListInv, CreateInv, SummaryInv, WriteInv, RefreshInv
  <2>3. UNCHANGED <<server, page, tab, missing>> /\ view' = view
    BY <1>5 DEF Create
  <2> QED BY <1>1, <2>1, <2>2, <2>3, OneCall
<1>6. CASE AddHolding
  <2>1. PICK call \in CallRecords :
          call.kind = "add" /\ call.rows # <<>> /\ call.file = <<>> /\ calls' = calls \cup {call}
    <3>1. PICK row \in Drafts :
            calls' = calls \cup {[NewCall EXCEPT !.kind = "add", !.portfolio = selected, !.rows = <<row>>]}
      BY <1>6 DEF AddHolding, Ask
    <3> DEFINE c == [NewCall EXCEPT !.kind = "add", !.portfolio = selected, !.rows = <<row>>]
    <3>2. <<row>> \in Seq(Rows) /\ <<row>> # <<>>
      BY RowsAssumption
    <3>3. c \in CallRecords /\ c.kind = "add" /\ c.rows # <<>> /\ c.file = <<>>
      BY <1>1, <3>2, EmptySeq DEF NewCall, CallRecords, CallKinds, Types, Nothing
    <3> QED BY <3>1, <3>3
  <2>2. Range(<<>>) = {}
    BY DEF Range
  <2>3. CallInv(call)'
    BY <2>1, <2>2 DEF CallInv, ListInv, CreateInv, SummaryInv, WriteInv, RefreshInv
  <2>4. UNCHANGED <<server, page, tab, missing>> /\ view' = view
    BY <1>6 DEF AddHolding
  <2> QED BY <1>1, <2>1, <2>3, <2>4, OneCall
<1>7. CASE ChooseFile
  <2>1. PICK file \in Files : view' = [view EXCEPT !.rows = file]
    BY <1>7 DEF ChooseFile
  <2>2. view' \in Views /\ view'.report = view.report
    BY <1>1, <2>1, RowsAssumption DEF Views
  <2> QED BY <1>7, <2>2, NoCall DEF ChooseFile
<1>8. CASE ImportCsv
  <2>1. PICK call \in CallRecords :
          /\ call.kind = "import" /\ call.rows # <<>> /\ call.file = call.rows
          /\ call.at = "asked" /\ calls' = calls \cup {call}
    <3> DEFINE c == [NewCall EXCEPT !.kind = "import", !.portfolio = selected,
                                    !.rows = view.rows, !.file = view.rows]
    <3>1. c \in CallRecords /\ c.kind = "import" /\ c.rows # <<>> /\ c.file = c.rows /\ c.at = "asked"
      BY <1>1, <1>8 DEF ImportCsv, NewCall, CallRecords, CallKinds, Types, Nothing
    <3>2. calls' = calls \cup {c}
      BY <1>8 DEF ImportCsv, Ask
    <3> HIDE DEF c
    <3> QED BY <3>1, <3>2
  <2>2. view' = [view EXCEPT !.importing = TRUE]
    BY <1>8 DEF ImportCsv
  <2>3. view' \in Views /\ view'.report = view.report
    BY <1>1, <2>2 DEF Views
  <2>4. CallInv(call)'
    BY <2>1 DEF CallInv, ListInv, CreateInv, SummaryInv, WriteInv, RefreshInv, Unsent
  <2> QED BY <1>8, <2>1, <2>3, <2>4, OneCall DEF ImportCsv
<1>9. CASE ChooseHolding
  <2>1. PICK h \in view.items \cup {Nothing} : view' = [view EXCEPT !.choice = h]
    BY <1>9 DEF ChooseHolding
  <2>2. view' \in Views /\ view'.report = view.report
    BY <1>1, <2>1 DEF Views, Nothing
  <2> QED BY <1>9, <2>2, NoCall DEF ChooseHolding
<1>10. CASE Evaluate
  <2>1. PICK call \in CallRecords : call.kind = "evaluate" /\ calls' = calls \cup {call}
    <3> DEFINE c == [NewCall EXCEPT !.kind = "evaluate", !.item = view.choice]
    <3>1. c \in CallRecords /\ c.kind = "evaluate"
      BY <1>1, EmptySeq DEF NewCall, CallRecords, CallKinds, Nothing
    <3>2. calls' = calls \cup {c}
      BY <1>10 DEF Evaluate, Ask
    <3> HIDE DEF c
    <3> QED BY <3>1, <3>2
  <2>2. view' = [view EXCEPT !.loading = TRUE]
    BY <1>10 DEF Evaluate
  <2>3. view' \in Views /\ view'.report = view.report
    BY <1>1, <2>2 DEF Views
  <2>4. CallInv(call)'
    BY <2>1, PlainCall
  <2> QED BY <1>10, <2>1, <2>3, <2>4, OneCall DEF Evaluate
<1> QED BY <1>2, <1>3, <1>4, <1>5, <1>6, <1>7, <1>8, <1>9, <1>10 DEF User

(****************************************************************************)
(* The endpoints.                                                           *)
(****************************************************************************)
LEMMA ServedIs ==
    ASSUME NEW call \in CallRecords, NEW result \in SUBSET Nat
    PROVE  LET s == [call EXCEPT !.at = "answered", !.result = result]
           IN  /\ s \in CallRecords /\ s.kind = call.kind /\ s.user = call.user /\ s.item = call.item
               /\ s.rows = call.rows /\ s.file = call.file /\ s.portfolio = call.portfolio
               /\ s.owner = call.owner /\ s.at = "answered" /\ s.result = result
BY DEF CallRecords

LEMMA ServeKeeps == ASSUME PInv, NEW call \in calls, Serve(call) PROVE PInv'
<1>1. /\ Types /\ call \in CallRecords /\ CallInv(call) /\ UNCHANGED <<page, tab, view, missing>>
      /\ owner \in Seq(Users) /\ holdings \in Seq([portfolio: Nat, row: Rows])
  BY DEF PInv, Types, Serve
<1>2. DOMAIN owner \subseteq Nat /\ DOMAIN holdings \subseteq Nat
  BY <1>1, LenProperties
<1>3. ASSUME NEW result \in SUBSET Nat, calls' = Served(call, result), Grows,
             owner' \in Seq(Users), holdings' \in Seq([portfolio: Nat, row: Rows]),
             ASSUME NEW s \in CallRecords, s.kind = call.kind, s.user = call.user, s.item = call.item,
                    s.rows = call.rows, s.file = call.file, s.portfolio = call.portfolio,
                    s.owner = call.owner, s.at = "answered", s.result = result
             PROVE  CallInv(s)'
      PROVE  PInv'
  <2>1. PICK s \in CallRecords :
          /\ calls' = (calls \ {call}) \cup {s}
          /\ s.kind = call.kind /\ s.user = call.user /\ s.item = call.item
          /\ s.rows = call.rows /\ s.file = call.file /\ s.portfolio = call.portfolio
          /\ s.owner = call.owner /\ s.at = "answered" /\ s.result = result
    BY <1>1, <1>3, ServedIs, ZenonT(60) DEF Served, Done
  <2>2. CallInv(s)'
    BY <1>3, <2>1
  <2>3. \A c \in calls' : c \in calls \/ (c \in CallRecords /\ CallInv(c)')
    BY <2>1, <2>2
  <2> QED BY <1>1, <1>3, <2>3, Quiet
<1>4. CASE ServeList(call)
  <2>1. PICK result : result = Owned(call.user)
    OBVIOUS
  <2>2. calls' = Served(call, result) /\ UNCHANGED server /\ call.kind = "list"
    BY <1>4, <2>1 DEF ServeList, Owned, Asked
  <2>3. result \in SUBSET Nat
    BY <1>2, <2>1 DEF Owned
  <2>4. Grows /\ UNCHANGED <<owner, holdings>>
    BY <2>2, SameServer DEF server
  <2>5. call.user \in Users /\ (call.item # Nothing => call.item \in Owned(call.user))
    BY <1>1, <2>2 DEF CallInv, ListInv
  <2>6. call.item # Nothing => call.item \in Owned(call.user)'
    BY <2>4, <2>5 DEF Owned
  <2>7. ASSUME NEW s \in CallRecords, s.kind = call.kind, s.user = call.user, s.item = call.item,
               s.result = result
        PROVE  CallInv(s)'
    BY <2>1, <2>2, <2>5, <2>6, <2>7 DEF CallInv, ListInv, CreateInv, SummaryInv, WriteInv, RefreshInv
  <2> QED BY <1>1, <1>3, <2>2, <2>3, <2>4, <2>7
<1>5. CASE ServeCreate(call)
  <2>1. PICK n : n = Len(owner) + 1
    OBVIOUS
  <2>2. /\ calls' = Served(call, {n}) /\ UNCHANGED holdings /\ call.kind = "create"
        /\ owner' = Append(owner, call.user)
    BY <1>5, <2>1 DEF ServeCreate, Asked
  <2>3. call.user \in Users
    BY <1>1, <2>2 DEF CallInv, CreateInv
  <2>4. /\ owner' \in Seq(Users) /\ n \in Nat /\ DOMAIN owner' = 1..n /\ DOMAIN owner = 1..Len(owner)
        /\ owner'[n] = call.user /\ n \in 1..n /\ DOMAIN owner \subseteq 1..n
        /\ \A i \in DOMAIN owner : owner'[i] = owner[i]
    BY <1>1, <2>1, <2>2, <2>3, AppendProperties, LenProperties
  <2>5. Grows
    BY <2>2, <2>4 DEF Grows, Owned, Stored
  <2>6. n \in Owned(call.user)'
    BY <2>4 DEF Owned
  <2>7. ASSUME NEW s \in CallRecords, s.kind = call.kind, s.user = call.user, s.result = {n}
        PROVE  CallInv(s)'
    BY <2>2, <2>3, <2>6, <2>7 DEF CallInv, ListInv, CreateInv, SummaryInv, WriteInv, RefreshInv
  <2> QED BY <1>1, <1>3, <2>2, <2>4, <2>5, <2>7, ZenonT(60)
<1>6. CASE ServeHoldings(call)
  <2>1. PICK result : result = {h \in DOMAIN holdings : holdings[h].portfolio = call.portfolio}
    OBVIOUS
  <2>2. calls' = Served(call, result) /\ UNCHANGED server /\ call.kind \in {"refresh", "items"}
    BY <1>6, <2>1 DEF ServeHoldings, Asked
  <2>3. result \in SUBSET Nat
    BY <1>2, <2>1
  <2>4. Grows /\ UNCHANGED <<owner, holdings>>
    BY <2>2, SameServer DEF server
  <2>5. CallInv(call)'
    BY <1>1, <2>2, <2>4, CallFrame
  <2>6. ASSUME NEW s \in CallRecords, s.kind = call.kind, s.file = call.file,
               s.portfolio = call.portfolio
        PROVE  CallInv(s)'
    BY <2>2, <2>5, <2>6 DEF CallInv, ListInv, CreateInv, SummaryInv, WriteInv, RefreshInv
  <2> QED BY <1>1, <1>3, <2>2, <2>3, <2>4, <2>6
<1>7. CASE ServeAdd(call)
  <2>1. PICK new : new = [portfolio |-> call.portfolio, row |-> Head(call.rows)]
    OBVIOUS
  <2>2. /\ calls' = Served(call, {}) /\ UNCHANGED owner /\ call.kind \in {"add", "import"}
        /\ holdings' = Append(holdings, new) /\ call.at = "asked"
    BY <1>7, <2>1 DEF ServeAdd, Asked
  <2>3. /\ call.rows # <<>> /\ call.rows \in Seq(Rows) /\ call.portfolio \in Nat
        /\ \A row \in Range(call.file) : Stored(call.portfolio, row) \/ row \in Range(call.rows)
    BY <1>1, <2>2 DEF CallInv, WriteInv, Unsent, CallRecords
  <2>4. Head(call.rows) \in Rows /\ Range(call.rows) = {Head(call.rows)} \cup Range(Tail(call.rows))
    BY <2>3, RangeIs
  <2>5. new \in [portfolio: Nat, row: Rows]
    BY <2>1, <2>3, <2>4
  <2>6. /\ holdings' \in Seq([portfolio: Nat, row: Rows]) /\ Len(holdings) + 1 \in DOMAIN holdings'
        /\ DOMAIN holdings \subseteq DOMAIN holdings' /\ holdings'[Len(holdings) + 1] = new
        /\ \A i \in DOMAIN holdings : holdings'[i] = holdings[i]
    BY <1>1, <2>2, <2>5, AppendProperties, LenProperties
  <2>7. Range(holdings) \subseteq Range(holdings') /\ new \in Range(holdings')
    BY <2>6 DEF Range
  <2>8. Grows
    BY <2>2, <2>7 DEF Grows, Owned, Stored
  <2>9. Stored(call.portfolio, Head(call.rows))'
    BY <2>1, <2>7 DEF Stored
  <2>10. \A row \in Range(call.file) : Stored(call.portfolio, row)' \/ row \in Range(Tail(call.rows))
    BY <2>3, <2>4, <2>8, <2>9 DEF Grows
  <2>11. ASSUME NEW s \in CallRecords, s.kind = call.kind, s.rows = call.rows, s.file = call.file,
                s.portfolio = call.portfolio, s.at = "answered"
         PROVE  CallInv(s)'
    BY <2>2, <2>3, <2>10, <2>11 DEF CallInv, ListInv, CreateInv, SummaryInv, WriteInv, RefreshInv, Unsent
  <2>12. {} \in SUBSET Nat /\ owner' \in Seq(Users)
    BY <1>1, <2>2
  <2>13. PICK result \in SUBSET Nat : result = {}
    BY <2>12
  <2>14. calls' = Served(call, result)
    BY <2>2, <2>13
  <2> QED BY <1>1, <1>3, <2>6, <2>8, <2>11, <2>12, <2>14
<1> QED BY <1>4, <1>5, <1>6, <1>7 DEF Serve

(****************************************************************************)
(* Answers.                                                                 *)
(****************************************************************************)
LEMMA ListAnswered ==
    ASSUME PInv, NEW call \in calls, AnswerList(call) \/ FailList(call)
    PROVE  PInv'
<1>1. /\ call \in CallRecords /\ CallInv(call) /\ tab \in Tabs /\ selected \in Nat /\ listed \in SUBSET Nat
      /\ call.item \in Nat /\ call.result \in SUBSET Nat /\ Done(call) \subseteq calls
  BY DEF PInv, Types, CallRecords, Done
<1>2. CASE AnswerList(call)
  <2>1. PICK p : p = IF call.item # Nothing THEN call.item ELSE KeepOrFirst(call.result)
    OBVIOUS
  <2>2. /\ Render(tab, p, view, Done(call)) /\ UNCHANGED <<server, user, missing>>
        /\ listed' = call.result /\ call.kind = "list" /\ call.at = "answered"
    BY <1>2, <2>1 DEF AnswerList, Answered
  <2>3. call.item # Nothing => call.item \in call.result
    BY <1>1, <2>2 DEF CallInv, ListInv
  <2>4. p = Nothing \/ p \in call.result
    BY <1>1, <2>1, <2>3, MinIn DEF KeepOrFirst
  <2>5. p \in Nat /\ (p # Nothing => p \in listed' \/ failed')
    BY <1>1, <2>2, <2>4 DEF Nothing
  <2> QED BY <1>1, <2>2, <2>5, Rendered
<1>3. CASE FailList(call)
  <2>1. PICK p : p = IF call.item # Nothing THEN call.item ELSE selected
    OBVIOUS
  <2>2. /\ Render(tab, p, view, Done(call)) /\ UNCHANGED <<server, user, missing>>
        /\ listed' = listed /\ (p # Nothing => p \in listed' \/ failed')
    BY <1>3, <2>1 DEF FailList
  <2> QED BY <1>1, <2>1, <2>2, Rendered
<1> QED BY <1>2, <1>3

\* The answers that ask for the list of a user.
LEMMA ListAsked ==
    ASSUME PInv, NEW call \in calls, AnswerUsers(call) \/ AnswerCreate(call)
    PROVE  PInv'
<1>1. /\ Types /\ call \in CallRecords /\ CallInv(call) /\ Done(call) \subseteq calls
  BY DEF PInv, Types, Done
<1>2. ASSUME NEW u \in Users, NEW created \in Nat, created # Nothing => created \in Owned(u)',
             LoadPortfolios(u, created, Done(call))
      PROVE  \A c \in calls' : c \in calls \/ (c \in CallRecords /\ CallInv(c)')
  <2>1. calls' = Done(call) \cup {ListCall(u, created)}
    BY <1>2, NoneAssumption DEF LoadPortfolios, Ask
  <2> QED BY <1>1, <1>2, <2>1, AskList
<1>3. CASE AnswerUsers(call)
  <2>1. UNCHANGED <<server, owner, holdings, listed, selected, failed, tab, view, missing>>
    BY <1>3 DEF AnswerUsers, server
  <2>2. user' \in Users \cup {None}
    BY <1>1, <1>3, FirstUserAssumption DEF AnswerUsers, Types
  <2>3. \A c \in calls' : c \in calls \/ (c \in CallRecords /\ CallInv(c)')
    <3>1. CASE user = None
      <4>1. LoadPortfolios(FirstUser, Nothing, Done(call))
        BY <1>3, <3>1 DEF AnswerUsers
      <4> QED BY <1>2, <4>1, FirstUserAssumption DEF Nothing
    <3>2. CASE user # None
      BY <1>1, <1>3, <3>2 DEF AnswerUsers
    <3> QED BY <3>1, <3>2
  <2>4. calls' \in SUBSET CallRecords /\ \A c \in calls' : CallInv(c)'
    BY <2>1, <2>3, SameServer, CallsStep
  <2> QED BY <2>1, <2>2, <2>4 DEF PInv, Types, ReportInv, SelectedIsListed
<1>4. CASE AnswerCreate(call)
  <2>1. UNCHANGED <<server, owner, holdings, page, tab, view, missing>>
    BY <1>4 DEF AnswerCreate, server
  <2>2. PICK p \in call.result : LoadPortfolios(call.user, p, Done(call))
    BY <1>4 DEF AnswerCreate
  <2>3. call.user \in Users /\ p \in Nat /\ p \in Owned(call.user)'
    <3>1. call.user \in Users /\ p \in Nat /\ p \in Owned(call.user)
      BY <1>1, <1>4, <2>2 DEF AnswerCreate, Answered, CallInv, CreateInv, CallRecords
    <3> QED BY <2>1, <3>1 DEF Owned
  <2>4. \A c \in calls' : c \in calls \/ (c \in CallRecords /\ CallInv(c)')
    BY <1>2, <2>2, <2>3
  <2> QED BY <1>1, <2>1, <2>4, SameServer, Quiet DEF Types
<1> QED BY <1>3, <1>4

LEMMA AnswerKeeps == ASSUME PInv, NEW call \in calls, Answer(call) PROVE PInv'
<1>1. /\ Types /\ call \in CallRecords /\ CallInv(call) /\ Done(call) \subseteq calls
      /\ view \in Views /\ view.report \in Nat /\ view.items \in SUBSET Nat
      /\ view.loading \in BOOLEAN /\ view.importing \in BOOLEAN
      /\ view.rows \in Seq(Rows) /\ view.choice \in Nat
      /\ call.portfolio \in Nat /\ call.result \in SUBSET Nat
      /\ call.rows \in Seq(Rows) /\ call.file \in Seq(Rows)
  BY DEF PInv, Types, Views, CallRecords, Done
<1>2. CASE AnswerSummary(call)
  <2>1. /\ UNCHANGED <<server, owner, holdings, page, user, listed, selected, failed, tab, missing>>
        /\ view' = [view EXCEPT !.loading = FALSE, !.report = call.portfolio]
        /\ calls' = Done(call) /\ call.kind = "summary"
    BY <1>2 DEF AnswerSummary, server, page, Asked
  <2>2. view' \in Views /\ view'.report = call.portfolio
    BY <1>1, <2>1 DEF Views
  <2>3. tab = "analysis" /\ call.portfolio = selected
    BY <1>1, <2>1 DEF CallInv, SummaryInv
  <2>4. calls' \in SUBSET CallRecords /\ \A c \in calls' : CallInv(c)'
    BY <1>1, <2>1, SameServer, CallsStep
  <2> QED BY <2>1, <2>2, <2>3, <2>4 DEF PInv, Types, ReportInv, SelectedIsListed
<1>3. CASE AnswerRefresh(call) \/ FailRefresh(call)
  <2>1. PICK items \in SUBSET Nat : EndRefresh(call, items) /\ call.kind = "refresh"
    BY <1>1, <1>3 DEF AnswerRefresh, FailRefresh, Answered
  <2>2. /\ UNCHANGED <<server, page, tab>> /\ calls' = Done(call)
        /\ missing' = missing \cup {row \in Range(call.file) : ~Stored(call.portfolio, row)}
    BY <2>1 DEF EndRefresh
  <2>3. UNCHANGED missing
    BY <1>1, <2>1, <2>2 DEF CallInv, RefreshInv
  <2>4. view' \in Views /\ view'.report = view.report
    BY <1>1, <2>1, EmptySeq DEF EndRefresh, Views
  <2> QED BY <1>1, <2>2, <2>3, <2>4, NoCall
<1>4. CASE AnswerItems(call)
  <2>1. /\ UNCHANGED <<server, page, tab, missing>> /\ calls' = Done(call)
        /\ view' = [view EXCEPT !.items = call.result,
                                !.choice = IF call.result = {} THEN @ ELSE Min(call.result)]
    BY <1>4 DEF AnswerItems
  <2>2. call.result # {} => Min(call.result) \in Nat
    BY <1>1, MinIn
  <2>3. view' \in Views /\ view'.report = view.report
    BY <1>1, <2>1, <2>2 DEF Views
  <2> QED BY <1>1, <2>1, <2>3, NoCall
<1>5. CASE AnswerEvaluate(call)
  <2>1. view' \in Views /\ view'.report = view.report
    BY <1>1, <1>5 DEF AnswerEvaluate, Views
  <2> QED BY <1>1, <1>5, <2>1, NoCall DEF AnswerEvaluate
<1>6. CASE AnswerAdd(call)
  <2>1. /\ UNCHANGED <<server, page, tab, missing>> /\ view' = view
        /\ call.at = "answered" /\ call.kind \in {"add", "import"}
    BY <1>6 DEF AnswerAdd, Answered
  <2>2. /\ call.rows # <<>>
        /\ \A row \in Range(call.file) :
              Stored(call.portfolio, row)' \/ row \in Range(Tail(call.rows))
    BY <1>1, <2>1 DEF CallInv, WriteInv, Unsent, Stored, server
  <2>3. CASE Len(call.rows) > 1
    <3>1. PICK c \in CallRecords :
            /\ calls' = Done(call) \cup {c} /\ c.at = "asked" /\ c.rows = Tail(call.rows)
            /\ c.kind = call.kind /\ c.file = call.file /\ c.portfolio = call.portfolio
      <4> DEFINE c == [call EXCEPT !.at = "asked", !.rows = Tail(@)]
      <4>1. Tail(call.rows) \in Seq(Rows)
        BY <1>1, <2>2, RangeIs
      <4>2. /\ c \in CallRecords /\ c.at = "asked" /\ c.rows = Tail(call.rows)
            /\ c.kind = call.kind /\ c.file = call.file /\ c.portfolio = call.portfolio
        BY <1>1, <4>1 DEF CallRecords
      <4>3. calls' = Done(call) \cup {c}
        BY <1>6, <2>3 DEF AnswerAdd, Ask
      <4> HIDE DEF c
      <4> QED BY <4>2, <4>3
    <3>2. Tail(call.rows) # <<>>
      BY <1>1, <2>2, <2>3, RangeIs
    <3>3. CallInv(c)'
      BY <2>1, <2>2, <3>1, <3>2 DEF CallInv, ListInv, CreateInv, SummaryInv, WriteInv, RefreshInv, Unsent
    <3> QED BY <1>1, <2>1, <3>1, <3>3, OneCall
  <2>4. CASE Len(call.rows) <= 1 /\ call.owner = "gone"
    <3>1. ~(Len(call.rows) > 1)
      BY <1>1, <2>4, LenProperties
    <3>2. calls' = Done(call)
      BY <1>6, <2>4, <3>1 DEF AnswerAdd
    <3> QED BY <1>1, <2>1, <3>2, NoCall
  <2>5. CASE Len(call.rows) <= 1 /\ call.owner # "gone"
    <3>1. PICK c \in CallRecords :
            /\ calls' = Done(call) \cup {c} /\ c.kind = "refresh"
            /\ c.file = call.file /\ c.portfolio = call.portfolio
      <4> DEFINE c == [NewCall EXCEPT !.kind = "refresh", !.file = call.file,
                                      !.portfolio = call.portfolio]
      <4>1. /\ c \in CallRecords /\ c.kind = "refresh" /\ c.file = call.file
            /\ c.portfolio = call.portfolio
        BY <1>1, EmptySeq DEF CallRecords, NewCall, CallKinds, Nothing
      <4>2. ~(Len(call.rows) > 1)
        BY <1>1, <2>5, LenProperties
      <4>3. calls' = Done(call) \cup {c}
        BY <1>6, <2>5, <4>2 DEF AnswerAdd, Ask
      <4> HIDE DEF c
      <4> QED BY <4>1, <4>3
    <3>2. Range(Tail(call.rows)) = {}
      <4>1. Tail(call.rows) = <<>>
        BY <1>1, <2>2, <2>5, RangeIs
      <4> QED BY <4>1 DEF Range
    <3>3. CallInv(c)'
      BY <2>2, <3>1, <3>2 DEF CallInv, ListInv, CreateInv, SummaryInv, WriteInv, RefreshInv
    <3> QED BY <1>1, <2>1, <3>1, <3>3, OneCall
  <2>6. Len(call.rows) > 1 \/ Len(call.rows) <= 1
    BY <1>1, LenProperties
  <2> QED BY <2>3, <2>4, <2>5, <2>6
<1>7. CASE FailOther(call)
  <2>1. /\ UNCHANGED <<server, owner, holdings, user, listed, selected, tab, missing>>
        /\ calls' = Done(call)
    BY <1>7 DEF FailOther, server
  <2>2. failed => failed'
    <3>1. failed' = (failed \/ call.kind \in {"users", "create"})
      BY <1>7 DEF FailOther
    <3> QED BY Zenon, <3>1
  <2>3. view' \in Views /\ view'.report = view.report
    <3>1. PICK l \in BOOLEAN, i \in BOOLEAN :
            view' = IF call.owner # "tab" THEN view ELSE [view EXCEPT !.loading = l, !.importing = i]
      BY <1>1, <1>7 DEF FailOther
    <3> QED BY <1>1, <3>1 DEF Views
  <2>4. calls' \in SUBSET CallRecords /\ \A c \in calls' : CallInv(c)'
    BY <1>1, <2>1, SameServer, CallsStep
  <2> QED BY <2>1, <2>2, <2>3, <2>4 DEF PInv, Types, ReportInv, SelectedIsListed
<1> QED BY <1>2, <1>3, <1>4, <1>5, <1>6, <1>7, ListAnswered, ListAsked DEF Answer

(****************************************************************************)
(* Theorems.                                                                *)
(****************************************************************************)
LEMMA InitPInv == Init => PInv
<1> SUFFICES ASSUME Init PROVE PInv
  OBVIOUS
<1>1. EmptyView \in Views /\ EmptyView.report = Nothing
  BY EmptySeq DEF EmptyView, Views, Nothing
<1>2. UsersCall \in CallRecords /\ CallInv(UsersCall)
  <2>1. UsersCall \in CallRecords /\ UsersCall.kind = "users"
    BY EmptySeq DEF UsersCall, NewCall, CallRecords, CallKinds, Nothing
  <2> QED BY <2>1, PlainCall
<1>3. ASSUME user \in Users
      PROVE  ListCall(user, Nothing) \in CallRecords /\ CallInv(ListCall(user, Nothing))
  <2> DEFINE call == ListCall(user, Nothing)
  <2>1. call \in CallRecords /\ call.kind = "list" /\ call.user = user /\ call.item = Nothing
    BY <1>3, EmptySeq DEF ListCall, NewCall, CallRecords, CallKinds, Nothing
  <2> HIDE DEF call
  <2>2. CallInv(call)
    BY <1>3, <2>1 DEF CallInv, ListInv, CreateInv, SummaryInv, WriteInv, RefreshInv
  <2> QED BY <2>1, <2>2 DEF call
<1>4. calls \in SUBSET CallRecords /\ \A call \in calls : CallInv(call)
  BY <1>2, <1>3 DEF Init
<1> QED BY <1>1, <1>4, EmptySeq DEF Init, PInv, Types, ReportInv, SelectedIsListed, Tabs, Nothing

LEMMA NextPInv == PInv /\ [Next]_vars => PInv'
<1> SUFFICES ASSUME PInv, [Next]_vars PROVE PInv'
  OBVIOUS
<1>1. CASE UNCHANGED vars
  <2>1. /\ UNCHANGED <<server, page, tab, view, calls, missing>>
        /\ owner' \in Seq(Users) /\ holdings' \in Seq([portfolio: Nat, row: Rows])
    BY <1>1 DEF vars, server, PInv, Types
  <2> QED BY <2>1, SameServer, Quiet
<1> QED BY <1>1, UserKeeps, ServeKeeps, AnswerKeeps DEF Next

\* Whatever is switched, refused, late or lost: each call in flight does to the
\* page what PInv says of it, and the page keeps its invariants.
THEOREM PageInvariance == Spec => []PInv
BY InitPInv, NextPInv, PTL DEF Spec

\* PortfolioPage.tsx:57-88: the selected portfolio is one the selector lists, or
\* an error is on screen.
THEOREM SelectedIsListedHolds == Spec => []SelectedIsListed
<1>1. PInv => SelectedIsListed
  BY DEF PInv
<1> QED BY <1>1, PageInvariance, PTL

\* AnalysisTab.tsx:33-52: the overview never shows the report of a portfolio that
\* was selected before.
THEOREM ReportIsOfSelectionHolds == Spec => []ReportIsOfSelection
<1>1. PInv => ReportIsOfSelection
  BY DEF PInv, ReportInv, ReportIsOfSelection
<1> QED BY <1>1, PageInvariance, PTL

\* HoldingsTab.tsx:83-88: an import the panel reports done is stored, whole, in
\* the portfolio it was started for.
THEOREM ImportedRowsAreStoredHolds == Spec => []ImportedRowsAreStored
<1>1. PInv => ImportedRowsAreStored
  BY DEF PInv, ImportedRowsAreStored
<1> QED BY <1>1, PageInvariance, PTL
================================================================================
