----------------------------- MODULE OnboardingProofs -----------------------------
(****************************************************************************)
(* Proofs about Onboarding: for any catalogue, files, extractions and       *)
(* number of calls in flight, and whatever is left, reloaded, refused or    *)
(* lost, the wizard's confirm step has a stored portfolio, its choice is    *)
(* held, extracted rows stay in the table and every spinner has its call.   *)
(*                                                                          *)
(* The inductive invariant, OInv, has three parts: what the server keeps    *)
(* (Stocked), what the wizard remembers of it (Backed), and how the calls   *)
(* in flight go with the components on screen (Mounted).  A call is at      *)
(* home with the component that made it (Placed), and carries what the      *)
(* server has made of it (Sound).                                           *)
(****************************************************************************)
EXTENDS Onboarding, SequenceTheorems, FiniteSetTheorems, TLAPS

Steps == {"fork", "import_method", "profile_form", "csv_import", "chat_import",
          "recommendations", "confirm"}

Wizards ==
    [step: Steps, has: {None, "yes", "no"}, method: {None, "csv_import", "chat_import"},
     draft: Drafts \cup {Blank}, selected: Properties \cup {None}, portfolio: Nat]

Screens ==
    [rows: Seq(Addresses), owed: SUBSET Addresses, pending: BOOLEAN, committing: BOOLEAN,
     launching: BOOLEAN, list: {None, "loading", "refused", "shown"}, ranked: Seq(Properties)]

CallRecords ==
    [kind: {"extract", "list", "gate", "upsert", "import", "select", "launch"},
     data: {None} \cup Drafts \cup Properties \cup Nat \cup Seq(Addresses),
     at: {"asked", "answered"},
     result: {None, "ok"} \cup BOOLEAN \cup Nat \cup Seq(Properties),
     owner: Owners]

Types ==
    /\ identity \in {None, "internal", "linked"}
    /\ page \in {"elsewhere", "wizard", "home"}
    /\ wiz \in Wizards /\ screen \in Screens
    /\ stored \in Drafts \cup {None}

\* The server: portfolios are numbered from 1, and a holding is in one of them.
Stocked ==
    /\ IsFiniteSet(portfolios) /\ portfolios \subseteq Nat \ {NoPortfolio}
    /\ holdings \subseteq [portfolio: portfolios, address: Addresses, property: Properties \cup {None}]

\* What a state of the wizard takes for granted.
Backed(w) ==
    /\ w.step = "confirm" => w.portfolio # NoPortfolio
    /\ w.portfolio # NoPortfolio => w.portfolio \in portfolios
    /\ w.selected # None => \E h \in holdings : h.property = w.selected

\* What a call was made with, and what the server has made of it.
Sound(call) ==
    /\ call.kind = "extract" => call.at = "asked"
    /\ call.kind \in {"extract", "import"} => call.data \in Seq(Addresses)
    /\ call.kind = "upsert" => call.data \in Drafts
    /\ call.kind = "select" => call.data \in Properties
    /\ call.kind = "list" /\ call.at = "answered" => call.result \in Seq(Properties)
    /\ call.kind \in {"import", "select"} /\ call.at = "answered" => call.result \in portfolios
    /\ call.kind = "select" /\ call.at = "answered" =>
          \E h \in holdings : h.property = call.data

\* Who waits for a call, on page p with the local state s.
Placed(call, p, s) ==
    /\ call.at = "answered" => ~Unheard(call)
    /\ call.kind \in Effectless => call.owner = "step"
    /\ InWizard(call) => p = IF call.kind = "gate" THEN "home" ELSE "wizard"
    /\ call.kind = "extract" => s.pending /\ s.owed \subseteq Range(call.data)

Waits(cs, kind) == \E call \in cs : OnStep(call, kind)

Spun(s, cs) ==
    /\ s.pending => Waits(cs, "extract")
    /\ s.committing => Waits(cs, "import")
    /\ s.launching => Waits(cs, "launch")
    /\ s.list = "loading" => Waits(cs, "list")

\* The calls cs go with the page p and the local state s.
Mounted(p, s, cs) ==
    /\ s.owed \subseteq Range(s.rows)
    /\ Spun(s, cs) /\ (p = "home" => Waits(cs, "gate"))
    /\ \A call \in cs : call \in CallRecords /\ Placed(call, p, s)
    /\ \A call, other \in cs :
          call.kind \in {"extract", "gate"} /\ other.kind = call.kind => call = other

OInv ==
    /\ Types /\ Stocked /\ Backed(wiz)
    /\ Mounted(page, screen, calls)
    /\ \A call \in calls : Sound(call)

(****************************************************************************)
(* The table of extracted rows.                                             *)
(****************************************************************************)
LEMMA RangeFinite ==
    ASSUME NEW S, NEW seq \in Seq(S)
    PROVE  IsFiniteSet(Range(seq)) /\ Range(seq) \subseteq S
<1>1. seq \in [1..Len(seq) -> S] /\ Len(seq) \in Nat
  BY LenProperties
<1>2. seq \in Surjection(1..Len(seq), Range(seq))
  BY <1>1 DEF Surjection, Range
<1>3. IsFiniteSet(1..Len(seq))
  BY <1>1, FS_Interval
<1> QED BY <1>1, <1>2, <1>3, FS_Surjection DEF Range

LEMMA MergedIs ==
    ASSUME NEW S, NEW old \in Seq(S), NEW new \in Seq(S)
    PROVE  /\ MergeRows(old, new) \in Seq(S)
           /\ Range(MergeRows(old, new)) = Range(old) \cup Range(new)
<1> DEFINE T == Range(old) \cup Range(new)
           n == Cardinality(T)
<1>1. IsFiniteSet(T) /\ T \subseteq S
  BY RangeFinite, FS_Union
<1> HIDE DEF T
<1>2. n \in Nat /\ ExistsBijection(1..n, T)
  BY <1>1, FS_CardinalityType
<1> HIDE DEF n
<1>3. \E f \in [1..n -> T] : IsInjective(f)
  BY <1>2 DEF ExistsBijection, Bijection, Injection
<1>4. SetToSeq(T) \in [1..n -> T] /\ IsInjective(SetToSeq(T))
  BY <1>3 DEF SetToSeq, n
<1>5. SetToSeq(T) \in Surjection(1..n, T)
  <2>1. SetToSeq(T) \in Injection(1..n, T)
    BY <1>4 DEF Injection
  <2>2. Cardinality(1..n) = n
    BY <1>2, FS_Interval
  <2>3. Cardinality(T) = n
    BY DEF n
  <2> QED BY <1>1, <2>1, <2>2, <2>3, FS_Injection
<1>6. SetToSeq(T) \in Seq(S) /\ Range(SetToSeq(T)) = T
  BY <1>1, <1>2, <1>4, <1>5 DEF Surjection, Range
<1> QED BY <1>6 DEF MergeRows, T

\* Changing or removing a row loses no other address.
LEMMA RowGone ==
    ASSUME NEW S, NEW seq \in Seq(S), NEW i \in DOMAIN seq, NEW x \in S
    PROVE  /\ RemoveAt(seq, i) \in Seq(S) /\ [seq EXCEPT ![i] = x] \in Seq(S)
           /\ Range(seq) \ {seq[i]} \subseteq Range(RemoveAt(seq, i))
           /\ Range(seq) \ {seq[i]} \subseteq Range([seq EXCEPT ![i] = x])
<1>1. i \in 1..Len(seq) /\ Len(seq) \in Nat /\ DOMAIN seq = 1..Len(seq)
  BY LenProperties
<1> DEFINE head == SubSeq(seq, 1, i - 1)
           tail == SubSeq(seq, i + 1, Len(seq))
<1>2. /\ head \in Seq(S) /\ Len(head) = i - 1
      /\ \A k \in 1..(i - 1) : head[k] = seq[k]
  BY <1>1, SubSeqProperties
<1>3. /\ tail \in Seq(S) /\ Len(tail) = Len(seq) - i
      /\ \A k \in 1..(Len(seq) - i) : tail[k] = seq[i + k]
  BY <1>1, SubSeqProperties, SMTT(60)
<1> HIDE DEF head, tail
<1>4. /\ head \o tail \in Seq(S) /\ Len(head \o tail) = Len(seq) - 1
      /\ \A k \in 1..(Len(seq) - 1) : (head \o tail)[k] = IF k <= i - 1 THEN head[k] ELSE tail[k - (i - 1)]
  <2>1. /\ head \o tail \in Seq(S) /\ Len(head \o tail) = Len(head) + Len(tail)
        /\ \A k \in 1..(Len(head) + Len(tail)) :
              (head \o tail)[k] = IF k <= Len(head) THEN head[k] ELSE tail[k - Len(head)]
    BY <1>2, <1>3, ConcatProperties
  <2>2. Len(head) = i - 1 /\ Len(head) + Len(tail) = Len(seq) - 1
    BY <1>1, <1>2, <1>3
  <2> QED BY <2>1, <2>2
<1>5. RemoveAt(seq, i) = head \o tail
  BY DEF RemoveAt, head, tail
<1>6. ASSUME NEW k \in 1..Len(seq), k # i PROVE seq[k] \in Range(head \o tail)
  <2>0. DOMAIN (head \o tail) = 1..(Len(seq) - 1)
    BY <1>4, LenProperties
  <2>1. CASE k < i
    <3>1. k \in 1..(Len(seq) - 1) /\ (head \o tail)[k] = seq[k]
      BY <1>1, <1>2, <1>4, <1>6, <2>1
    <3> QED BY <2>0, <3>1 DEF Range
  <2>2. CASE k > i
    <3>1. k - 1 \in 1..(Len(seq) - 1) /\ ~(k - 1 <= i - 1) /\ k - i \in 1..(Len(seq) - i)
          /\ (k - 1) - (i - 1) = k - i /\ i + (k - i) = k
      BY <1>1, <1>6, <2>2
    <3>2. (head \o tail)[k - 1] = seq[k]
      BY <1>3, <1>4, <3>1
    <3> QED BY <2>0, <3>1, <3>2 DEF Range
  <2> QED BY <1>1, <1>6, <2>1, <2>2
<1>7. [seq EXCEPT ![i] = x] \in Seq(S)
  BY <1>1
<1>8. Range(seq) \ {seq[i]} \subseteq Range([seq EXCEPT ![i] = x])
  BY <1>1 DEF Range
<1>9. Range(seq) \ {seq[i]} \subseteq Range(head \o tail)
  BY <1>1, <1>6 DEF Range
<1> QED BY <1>4, <1>5, <1>7, <1>8, <1>9

(****************************************************************************)
(* Calls and mounted components.                                            *)
(****************************************************************************)
Fields(call, other) ==
    /\ call.kind = other.kind /\ call.data = other.data /\ call.at = other.at
    /\ call.result = other.result

LEMMA SoundFields ==
    ASSUME NEW call, NEW other, Fields(call, other), Sound(other)
    PROVE  Sound(call)
BY DEF Fields, Sound

\* What is left of a call that has lost its component.
LEMMA RestIs ==
    ASSUME NEW call \in CallRecords, NEW to \in {"wizard", "page", "nobody"},
           NEW left \in Rest([call EXCEPT !.owner = to])
    PROVE  /\ left \in CallRecords /\ Fields(left, call) /\ left.owner \in {to, "nobody"}
           /\ left.kind \notin Effectless /\ (left.at = "answered" => ~Unheard(left))
<1> DEFINE c == [call EXCEPT !.owner = to]
           d == [c EXCEPT !.owner = "nobody"]
<1>1. c \in CallRecords /\ Fields(c, call) /\ c.owner = to
  BY DEF CallRecords, Owners, Fields
<1> HIDE DEF c
<1>2. d \in CallRecords /\ Fields(d, call) /\ d.owner = "nobody"
  BY <1>1 DEF CallRecords, Owners, Fields
<1> HIDE DEF d
<1>3. CASE ~Unheard(c)
  BY <1>1, <1>3 DEF Rest, c, Unheard, Effectless
<1>4. CASE Unheard(c)
  BY <1>1, <1>2, <1>4 DEF Rest, c, d, Fields
<1> QED BY <1>3, <1>4

\* The calls cs are those of a page p with the local state s.
Homed(cs, p, s) == \A c \in cs : c \in CallRecords /\ Placed(c, p, s) /\ Sound(c)

\* An answer reaches its component, or is not awaited.
LEMMA Orphans ==
    ASSUME NEW cs, NEW p, NEW s, Homed(cs, p, s),
           NEW owners, "step" \in owners, NEW to \in {"wizard", "page", "nobody"},
           NEW call \in Orphan(cs, owners, to)
    PROVE  /\ call \in CallRecords /\ Sound(call) /\ call.kind \notin Effectless
           /\ call.at = "answered" => ~Unheard(call)
           /\ call.owner # "step"
           /\ call.owner = "wizard" => to = "wizard" \/ (p = "wizard" /\ "wizard" \notin owners)
<1>1. PICK c \in cs : call \in IF c.owner \in owners THEN Rest([c EXCEPT !.owner = to]) ELSE {c}
  BY DEF Orphan
<1>2. c \in CallRecords /\ Placed(c, p, s) /\ Sound(c)
  BY <1>1 DEF Homed, Orphan
<1>3. CASE c.owner \in owners
  BY <1>1, <1>2, <1>3, RestIs, SoundFields
<1>4. CASE c.owner \notin owners
  BY <1>1, <1>2, <1>4 DEF Placed, InWizard, Effectless
<1> QED BY <1>3, <1>4

LEMMA EmptyIs ==
    /\ EmptyScreen \in Screens /\ EmptyScreen.rows = <<>> /\ EmptyScreen.owed = {}
    /\ EmptyScreen.pending = FALSE /\ EmptyScreen.committing = FALSE
    /\ EmptyScreen.launching = FALSE /\ EmptyScreen.list = None
BY EmptySeq DEF EmptyScreen, Screens, None

\* A step comes on screen: at most the list it asks for is its own.
LEMMA MountKeeps ==
    ASSUME NEW cs, NEW p, NEW s, Homed(cs, p, s),
           NEW owners, "step" \in owners, NEW to \in {"wizard", "page"},
           NEW step, MountStep(step, Orphan(cs, owners, to))
    PROVE  screen' \in Screens /\ Mounted("wizard", screen', calls') /\ \A c \in calls' : Sound(c)
<1> DEFINE rest == Orphan(cs, owners, to)
<1>1. \A c \in rest : /\ c \in CallRecords /\ Sound(c) /\ c.kind \notin Effectless
                      /\ c.at = "answered" => ~Unheard(c)
  BY Orphans
<1> HIDE DEF rest
<1>2. \A c \in rest : Placed(c, "wizard", screen')
  BY <1>1 DEF Placed, Effectless
<1>3. \A c \in rest : c.kind \notin {"extract", "gate"}
  BY <1>1 DEF Effectless
<1>4. CASE step = "recommendations" /\ identity # None
  <2>1. PICK call \in CallRecords :
          /\ calls' = rest \cup {call}
          /\ call.kind = "list" /\ call.at = "asked" /\ call.owner = "step"
    <3> DEFINE c == [kind |-> "list", data |-> None, at |-> "asked", result |-> None,
                     owner |-> "step"]
    <3>1. calls' = rest \cup {c}
      BY <1>4 DEF MountStep, AskBeside, rest
    <3>2. c \in CallRecords
      BY DEF CallRecords, Owners
    <3> QED BY <3>1, <3>2
  <2>2. screen' = [EmptyScreen EXCEPT !.list = "loading"]
    BY <1>4 DEF MountStep
  <2>3. /\ screen' \in Screens /\ screen'.rows = <<>> /\ screen'.owed = {}
        /\ ~screen'.pending /\ ~screen'.committing /\ ~screen'.launching
    BY <2>2, EmptyIs DEF Screens
  <2>4. Sound(call) /\ Placed(call, "wizard", screen') /\ OnStep(call, "list")
    BY <2>1 DEF Sound, Placed, OnStep
  <2>5. Waits(calls', "list")
    BY <2>1, <2>4 DEF Waits
  <2> QED BY <1>1, <1>2, <1>3, <2>1, <2>3, <2>4, <2>5 DEF Mounted, Spun
<1>5. CASE ~(step = "recommendations" /\ identity # None)
  <2>1. PICK list \in {None, "refused"} : screen' = [EmptyScreen EXCEPT !.list = list]
    BY <1>5 DEF MountStep
  <2>2. calls' = rest
    BY <1>5 DEF MountStep, rest
  <2>3. /\ screen' \in Screens /\ screen'.rows = <<>> /\ screen'.owed = {} /\ screen'.list # "loading"
        /\ ~screen'.pending /\ ~screen'.committing /\ ~screen'.launching
    BY <2>1, EmptyIs DEF Screens, None
  <2> QED BY <1>1, <1>2, <1>3, <2>2, <2>3 DEF Mounted, Spun
<1> QED BY <1>4, <1>5

\* The wizard goes: nothing in it waits any more.
LEMMA AwayKeeps ==
    ASSUME NEW cs, NEW p, NEW s, Homed(cs, p, s),
           NEW owners, "step" \in owners, "wizard" \in owners, NEW to \in {"page", "nobody"},
           calls' = Orphan(cs, owners, to), screen' = EmptyScreen
    PROVE  screen' \in Screens /\ Mounted("elsewhere", screen', calls') /\ \A c \in calls' : Sound(c)
<1>1. \A c \in calls' : /\ c \in CallRecords /\ Sound(c) /\ c.kind \notin Effectless
                        /\ c.at = "answered" => ~Unheard(c)
                        /\ c.owner # "step" /\ c.owner # "wizard"
  BY Orphans
<1>2. \A c \in calls' : Placed(c, "elsewhere", screen') /\ c.kind \notin {"extract", "gate"}
  BY <1>1 DEF Placed, InWizard, Effectless
<1> QED BY <1>1, <1>2, EmptyIs DEF Mounted, Spun, None

\* Calls that still reach the server, with nobody to tell.
Strays(cs) ==
    \A c \in cs : /\ c \in CallRecords /\ c.kind \notin Effectless /\ c.owner = "nobody"
                  /\ c.at = "answered" => ~Unheard(c)

\* A component is rid of one of its calls, which may still reach the server.
LEMMA DoneKeeps ==
    ASSUME NEW p, NEW s, NEW cs, Mounted(p, s, cs), NEW call \in cs,
           NEW t \in Screens, t.owed \subseteq Range(t.rows),
           IF call.kind = "extract" THEN ~t.pending ELSE t.pending = s.pending /\ t.owed \subseteq s.owed,
           t.committing => s.committing /\ ~OnStep(call, "import"),
           t.launching => s.launching /\ ~OnStep(call, "launch"),
           t.list = "loading" => s.list = "loading" /\ ~OnStep(call, "list"),
           NEW q, IF OnStep(call, "gate") THEN q = "elsewhere" ELSE q = p,
           NEW rest, Strays(rest)
    PROVE  Mounted(q, t, (cs \ {call}) \cup rest)
<1> DEFINE left == (cs \ {call}) \cup rest
<1>1. /\ Spun(s, cs) /\ (p = "home" => Waits(cs, "gate"))
      /\ \A c \in cs : c \in CallRecords /\ Placed(c, p, s)
      /\ \A c, other \in cs : c.kind \in {"extract", "gate"} /\ other.kind = c.kind => c = other
  BY DEF Mounted
<1>2. \A c \in rest : c \in CallRecords /\ Placed(c, q, t) /\ c.kind \notin {"extract", "gate"}
  BY DEF Strays, Placed, Effectless, InWizard
<1>3. ASSUME NEW c \in cs \ {call} PROVE Placed(c, q, t)
  <2>1. Placed(c, p, s) /\ Placed(call, p, s)
    BY <1>1
  <2>2. c.kind = "extract" => t.pending /\ t.owed \subseteq Range(c.data)
    <3>1. c.kind = "extract" => call.kind # "extract"
      BY <1>1, <1>3
    <3> QED BY <2>1, <3>1 DEF Placed
  <2>3. InWizard(c) => q = IF c.kind = "gate" THEN "home" ELSE "wizard"
    <3>1. CASE OnStep(call, "gate")
      <4>1. p = "home" /\ c.kind # "gate"
        BY <1>1, <1>3, <2>1, <3>1 DEF Placed, OnStep, InWizard
      <4> QED BY <2>1, <4>1 DEF Placed
    <3>2. CASE ~OnStep(call, "gate")
      BY <2>1, <3>2 DEF Placed
    <3> QED BY <3>1, <3>2
  <2> QED BY <2>1, <2>2, <2>3 DEF Placed
<1>4. \A kind : Waits(cs, kind) /\ ~OnStep(call, kind) => Waits(left, kind)
  BY DEF Waits
<1>5. Spun(t, left)
  <2>1. t.pending => s.pending /\ ~OnStep(call, "extract")
    BY DEF OnStep
  <2> HIDE DEF left
  <2> QED BY <1>1, <1>4, <2>1 DEF Spun
<1>6. q = "home" => Waits(left, "gate")
  <2> HIDE DEF left
  <2> QED BY <1>1, <1>4
<1> QED BY <1>1, <1>2, <1>3, <1>5, <1>6 DEF Mounted

(****************************************************************************)
(* Steps of the browser.                                                    *)
(****************************************************************************)
LEMMA Assembled ==
    ASSUME OInv, UNCHANGED <<identity, server>>, page' \in {"elsewhere", "wizard", "home"},
           wiz' \in Wizards, Backed(wiz'), screen' \in Screens, Mounted(page', screen', calls'),
           \A call \in calls' : Sound(call)
    PROVE  OInv'
<1>1. UNCHANGED <<identity, stored, portfolios, holdings>>
  BY DEF server
<1>2. Types' /\ Stocked'
  BY <1>1 DEF OInv, Types, Stocked
<1>3. Backed(wiz)' /\ \A call \in calls' : Sound(call)'
  BY <1>1 DEF Backed, Sound
<1>4. Mounted(page, screen, calls)'
  BY DEF Mounted, Spun, Waits, Placed
<1> QED BY <1>2, <1>3, <1>4 DEF OInv

LEMMA RenderKeeps ==
    ASSUME OInv, page = "wizard", UNCHANGED <<identity, page, server>>,
           NEW w \in Wizards, Backed(w), NEW cs, cs \subseteq calls,
           NEW local \in Screens, Mounted("wizard", local, cs), Render(w, cs, local)
    PROVE  OInv'
<1>1. wiz' = w /\ page' = "wizard"
  BY DEF Render
<1>2. Homed(cs, page, screen)
  BY DEF OInv, Mounted, Homed
<1>3. screen' \in Screens /\ Mounted("wizard", screen', calls') /\ \A c \in calls' : Sound(c)
  <2>1. CASE w.step = wiz.step
    BY <1>2, <2>1 DEF Render, Homed
  <2>2. CASE w.step # wiz.step
    <3>1. MountStep(w.step, Orphan(cs, {"step"}, "wizard"))
      BY <2>2 DEF Render
    <3> QED BY <1>2, <3>1, MountKeeps
  <2> QED BY <2>1, <2>2
<1> QED BY <1>1, <1>3, Assembled

\* A component asks, with the spinner of its question on.
LEMMA AskKeeps ==
    ASSUME OInv, page = "wizard", UNCHANGED <<identity, page, wiz, server>>,
           NEW kind \in {"extract", "upsert", "import", "select", "launch"}, NEW data, Ask(kind, data),
           data \in {None} \cup Drafts \cup Properties \cup Nat \cup Seq(Addresses),
           kind \in {"extract", "import"} => data \in Seq(Addresses),
           kind = "upsert" => data \in Drafts, kind = "select" => data \in Properties,
           screen' \in Screens, screen'.rows = screen.rows, screen'.owed = screen.owed,
           screen'.list = screen.list,
           IF kind = "extract" THEN ~screen.pending /\ screen'.pending /\ data = screen.rows
                               ELSE screen'.pending = screen.pending,
           screen'.committing => screen.committing \/ kind = "import",
           screen'.launching => screen.launching \/ kind = "launch"
    PROVE  OInv'
<1>1. PICK call \in CallRecords :
        /\ calls' = calls \cup {call} /\ call.kind = kind /\ call.data = data
        /\ call.at = "asked" /\ call.owner = "step"
  <2> DEFINE c == [kind |-> kind, data |-> data, at |-> "asked", result |-> None, owner |-> "step"]
  <2>1. calls' = calls \cup {c}
    BY DEF Ask, AskBeside
  <2>2. c \in CallRecords
    BY DEF CallRecords, Owners
  <2> QED BY <2>1, <2>2
<1>2. /\ Mounted(page, screen, calls) /\ Spun(screen, calls) /\ screen.owed \subseteq Range(screen.rows)
      /\ \A c \in calls : c \in CallRecords /\ Placed(c, page, screen) /\ Sound(c)
      /\ \A c, other \in calls : c.kind \in {"extract", "gate"} /\ other.kind = c.kind => c = other
  BY DEF OInv, Mounted
<1>3. Sound(call) /\ Placed(call, "wizard", screen') /\ OnStep(call, kind)
  BY <1>1, <1>2 DEF Sound, Placed, OnStep
<1>4. \A c \in calls : Placed(c, "wizard", screen') /\ (kind = "extract" => c.kind # "extract")
  BY <1>2 DEF Placed
<1>5. \A k : Waits(calls, k) \/ k = kind => Waits(calls', k)
  BY <1>1, <1>3 DEF Waits
<1>6. Spun(screen', calls')
  BY <1>2, <1>5 DEF Spun
<1>7. Mounted(page', screen', calls')
  BY <1>1, <1>2, <1>3, <1>4, <1>6 DEF Mounted
<1>8. wiz' \in Wizards /\ Backed(wiz') /\ page' \in {"elsewhere", "wizard", "home"}
  BY DEF OInv, Types
<1> QED BY <1>1, <1>2, <1>3, <1>7, <1>8, Assembled

LEMMA WizardIs ==
    ASSUME OInv
    PROVE  /\ Types /\ wiz \in Wizards /\ screen \in Screens /\ Backed(wiz) /\ wiz.step \in Steps
           /\ Mounted(page, screen, calls) /\ Homed(calls, page, screen)
           /\ screen.owed \subseteq Range(screen.rows) /\ screen.rows \in Seq(Addresses)
           /\ screen.owed \subseteq Addresses /\ screen.ranked \in Seq(Properties)
BY DEF OInv, Types, Wizards, Screens, Mounted, Homed

\* The user in a step of the wizard.
LEMMA StepKeeps ==
    ASSUME OInv, AnswerFork \/ PickMethod \/ Back
    PROVE  OInv'
<1>1. PICK w \in Wizards :
        /\ page = "wizard" /\ UNCHANGED <<identity, page, server>> /\ Render(w, calls, screen)
        /\ w.step # "confirm" /\ w.portfolio = wiz.portfolio /\ w.selected = wiz.selected
  <2>1. wiz \in Wizards /\ wiz.step \in Steps /\ wiz.method \in {None, "csv_import", "chat_import"}
    BY WizardIs DEF Wizards
  <2>2. CASE AnswerFork
    <3>1. PICK answer \in {"yes", "no"}, step \in {"import_method", "profile_form"} :
            Render([wiz EXCEPT !.has = answer, !.step = step], calls, screen)
      BY <2>2 DEF AnswerFork
    <3> DEFINE w == [wiz EXCEPT !.has = answer, !.step = step]
    <3>2. w \in Wizards /\ w.step = step /\ w.portfolio = wiz.portfolio /\ w.selected = wiz.selected
      BY <2>1 DEF Wizards, Steps
    <3> QED BY <2>2, <3>1, <3>2 DEF AnswerFork, At
  <2>3. CASE PickMethod
    <3>1. PICK method \in {"csv_import", "chat_import"} :
            Render([wiz EXCEPT !.method = method, !.step = method], calls, screen)
      BY <2>3 DEF PickMethod
    <3> DEFINE w == [wiz EXCEPT !.method = method, !.step = method]
    <3>2. w \in Wizards /\ w.step = method /\ w.portfolio = wiz.portfolio /\ w.selected = wiz.selected
      BY <2>1 DEF Wizards, Steps
    <3> QED BY <2>3, <3>1, <3>2 DEF PickMethod, At
  <2>4. CASE Back
    <3>1. Before(wiz) \in Steps /\ Before(wiz) # "confirm"
      BY <2>1, <2>4 DEF Back, Before, Steps
    <3> DEFINE w == [wiz EXCEPT !.step = Before(wiz)]
    <3>2. w \in Wizards /\ w.step = Before(wiz) /\ w.portfolio = wiz.portfolio /\ w.selected = wiz.selected
      BY <2>1, <3>1 DEF Wizards
    <3> QED BY <2>4, <3>1, <3>2 DEF Back
  <2> QED BY <2>2, <2>3, <2>4
<1>2. Backed(w)
  BY <1>1, WizardIs DEF Backed
<1> QED BY <1>1, <1>2, WizardIs, RenderKeeps

\* The fields of a form and the rows of a table.
LEMMA EditKeeps ==
    ASSUME OInv, EditProfile \/ EditRow \/ RemoveRow
    PROVE  OInv'
<1>1. CASE EditProfile
  <2>1. PICK draft \in Drafts \cup {Blank} : wiz' = [wiz EXCEPT !.draft = draft]
    BY <1>1 DEF EditProfile
  <2>2. wiz' \in Wizards /\ wiz'.step = wiz.step /\ wiz'.portfolio = wiz.portfolio
        /\ wiz'.selected = wiz.selected
    BY <2>1, WizardIs DEF Wizards
  <2>3. Backed(wiz')
    BY <2>2, WizardIs DEF Backed
  <2>4. UNCHANGED <<identity, server, page, screen, calls>>
    BY <1>1 DEF EditProfile
  <2> QED BY <2>2, <2>3, <2>4, Assembled, WizardIs DEF OInv, Types
<1>2. CASE EditRow \/ RemoveRow
  <2>1. PICK i \in DOMAIN screen.rows, rows \in Seq(Addresses) :
          /\ screen' = [screen EXCEPT !.rows = rows, !.owed = screen.owed \ {screen.rows[i]}]
          /\ Range(screen.rows) \ {screen.rows[i]} \subseteq Range(rows)
    <3>1. screen.rows \in Seq(Addresses) /\ screen \in Screens
      BY WizardIs
    <3>2. CASE EditRow
      <4>1. PICK i \in DOMAIN screen.rows, address \in Addresses :
              screen' = [screen EXCEPT !.rows[i] = address, !.owed = @ \ {screen.rows[i]}]
        BY <3>2 DEF EditRow
      <4>2. screen' = [screen EXCEPT !.rows = [screen.rows EXCEPT ![i] = address],
                                     !.owed = screen.owed \ {screen.rows[i]}]
        BY <3>1, <4>1 DEF Screens
      <4>3. /\ [screen.rows EXCEPT ![i] = address] \in Seq(Addresses)
            /\ Range(screen.rows) \ {screen.rows[i]}
                  \subseteq Range([screen.rows EXCEPT ![i] = address])
        BY <3>1, RowGone
      <4> QED BY <4>2, <4>3
    <3>3. CASE RemoveRow
      <4>1. PICK i \in DOMAIN screen.rows :
              screen' = [screen EXCEPT !.rows = RemoveAt(screen.rows, i),
                                       !.owed = screen.owed \ {screen.rows[i]}]
        BY <3>1, <3>3 DEF RemoveRow, Screens
      <4>2. screen.rows[i] \in Addresses
        BY <3>1
      <4>3. /\ RemoveAt(screen.rows, i) \in Seq(Addresses)
            /\ Range(screen.rows) \ {screen.rows[i]} \subseteq Range(RemoveAt(screen.rows, i))
        BY <3>1, <4>2, RowGone
      <4> QED BY <4>1, <4>3
    <3> QED BY <1>2, <3>2, <3>3
  <2>2. /\ screen' \in Screens /\ screen'.owed = screen.owed \ {screen.rows[i]} /\ screen'.rows = rows
        /\ screen'.pending = screen.pending /\ screen'.committing = screen.committing
        /\ screen'.launching = screen.launching /\ screen'.list = screen.list
    BY <2>1, WizardIs DEF Screens
  <2>3. /\ UNCHANGED <<identity, page, wiz, calls, server>>
    BY <1>2 DEF EditRow, RemoveRow
  <2>4. screen'.owed \subseteq Range(screen'.rows)
    BY <2>1, <2>2, WizardIs
  <2>5. \A call \in calls : Placed(call, page, screen')
    BY <2>2, WizardIs DEF Homed, Placed
  <2>6. Mounted(page', screen', calls')
    BY <2>2, <2>3, <2>4, <2>5, WizardIs DEF Mounted, Spun
  <2> QED BY <2>2, <2>3, <2>6, Assembled, WizardIs DEF OInv, Types
<1> QED BY <1>1, <1>2

\* The buttons that ask the server.
LEMMA ButtonKeeps ==
    ASSUME OInv, SubmitProfile \/ Send \/ CommitChat \/ ImportCsv \/ SelectProperty \/ Launch
    PROVE  OInv'
<1>1. /\ wiz \in Wizards /\ screen \in Screens /\ screen.rows \in Seq(Addresses)
      /\ screen.ranked \in Seq(Properties)
  BY WizardIs
<1>2. CASE SubmitProfile
  <2>1. /\ page = "wizard" /\ UNCHANGED <<identity, page, wiz, server>> /\ screen' = screen
        /\ Ask("upsert", wiz.draft) /\ wiz.draft \in Drafts
    BY <1>1, <1>2 DEF SubmitProfile, At, browser, Wizards
  <2> QED BY <1>1, <2>1, AskKeeps
<1>3. CASE Send
  <2>1. /\ page = "wizard" /\ UNCHANGED <<identity, page, wiz, server>> /\ ~screen.pending
        /\ Ask("extract", screen.rows) /\ screen' = [screen EXCEPT !.pending = TRUE]
    BY <1>3 DEF Send, At
  <2>2. /\ screen' \in Screens /\ screen'.rows = screen.rows /\ screen'.owed = screen.owed
        /\ screen'.list = screen.list /\ screen'.pending
        /\ (screen'.committing => screen.committing) /\ (screen'.launching => screen.launching)
    BY <1>1, <2>1 DEF Screens
  <2> QED BY <1>1, <2>1, <2>2, AskKeeps
<1>4. CASE CommitChat \/ ImportCsv
  <2>1. PICK rows \in Seq(Addresses) :
          /\ page = "wizard" /\ UNCHANGED <<identity, page, wiz, server>>
          /\ Ask("import", rows) /\ screen' = [screen EXCEPT !.committing = TRUE]
    BY <1>1, <1>4, RowsAssumption DEF CommitChat, ImportCsv, At
  <2>2. /\ screen' \in Screens /\ screen'.rows = screen.rows /\ screen'.owed = screen.owed
        /\ screen'.list = screen.list /\ screen'.pending = screen.pending
        /\ (screen'.launching => screen.launching)
    BY <1>1, <2>1 DEF Screens
  <2> QED BY <2>1, <2>2, AskKeeps
<1>5. CASE SelectProperty
  <2>1. PICK p \in Range(screen.ranked) : Ask("select", p)
    BY <1>5 DEF SelectProperty
  <2>2. /\ page = "wizard" /\ UNCHANGED <<identity, page, wiz, server>> /\ screen' = screen
    BY <1>5 DEF SelectProperty, At, browser
  <2>3. p \in Properties
    BY <1>1, RangeFinite
  <2> QED BY <1>1, <2>1, <2>2, <2>3, AskKeeps
<1>6. CASE Launch
  <2>1. /\ page = "wizard" /\ UNCHANGED <<identity, page, wiz, server>>
        /\ Ask("launch", wiz.portfolio) /\ screen' = [screen EXCEPT !.launching = TRUE]
    BY <1>6 DEF Launch, At
  <2>2. /\ screen' \in Screens /\ screen'.rows = screen.rows /\ screen'.owed = screen.owed
        /\ screen'.list = screen.list /\ screen'.pending = screen.pending
        /\ (screen'.committing => screen.committing) /\ wiz.portfolio \in Nat
    BY <1>1, <2>1 DEF Screens, Wizards
  <2> QED BY <2>1, <2>2, AskKeeps
<1> QED BY <1>2, <1>3, <1>4, <1>5, <1>6

LEMMA FirstIs == FirstState \in Wizards /\ Backed(FirstState)
<1>1. /\ FirstState \in Wizards /\ FirstState.step = "fork" /\ FirstState.portfolio = NoPortfolio
      /\ FirstState.selected = None
  BY DEF FirstState, Wizards, Steps, NoPortfolio
<1> QED BY <1>1 DEF Backed

\* The wizard is left, or found again.
LEMMA PageKeeps ==
    ASSUME OInv, UNCHANGED <<identity, server>>, NEW cs, cs \subseteq calls,
           wiz' \in {wiz, FirstState},
           \/ Navigate("elsewhere", cs)
           \/ OpenWizard(cs) /\ UNCHANGED wiz
           \/ page' = "elsewhere" /\ screen' = EmptyScreen /\ calls' = Orphan(cs, Owners, "nobody")
    PROVE  OInv'
<1>1. wiz' \in Wizards /\ Backed(wiz') /\ wiz.step \in Steps
  BY WizardIs, FirstIs
<1>2. Homed(cs, page, screen)
  BY WizardIs DEF Homed
<1>3. CASE OpenWizard(cs)
  <2>1. MountStep(wiz.step, Orphan(cs, {"step", "wizard"}, "page")) /\ page' = "wizard"
    BY <1>3 DEF OpenWizard
  <2>2. screen' \in Screens /\ Mounted("wizard", screen', calls') /\ \A c \in calls' : Sound(c)
    BY <1>2, <2>1, MountKeeps
  <2> QED BY <1>1, <2>1, <2>2, Assembled
<1>4. CASE Navigate("elsewhere", cs)
  <2>1. /\ calls' = Orphan(cs, {"step", "wizard"}, "page") /\ page' = "elsewhere"
        /\ screen' = EmptyScreen
    BY <1>4 DEF Navigate
  <2>2. screen' \in Screens /\ Mounted("elsewhere", screen', calls') /\ \A c \in calls' : Sound(c)
    BY <1>2, <2>1, AwayKeeps
  <2> QED BY <1>1, <2>1, <2>2, Assembled
<1>5. CASE page' = "elsewhere" /\ screen' = EmptyScreen /\ calls' = Orphan(cs, Owners, "nobody")
  <2>1. screen' \in Screens /\ Mounted("elsewhere", screen', calls') /\ \A c \in calls' : Sound(c)
    BY <1>2, <1>5, AwayKeeps DEF Owners
  <2> QED BY <1>1, <1>5, <2>1, Assembled
<1> QED BY <1>3, <1>4, <1>5

LEMMA VisitHomeKeeps == ASSUME OInv, VisitHome PROVE OInv'
<1>1. PICK call \in CallRecords :
        /\ calls' = calls \cup {call} /\ call.kind = "gate" /\ call.at = "asked" /\ call.owner = "step"
  <2> DEFINE c == [kind |-> "gate", data |-> None, at |-> "asked", result |-> None, owner |-> "step"]
  <2>1. calls' = calls \cup {c}
    BY DEF VisitHome, Ask, AskBeside
  <2>2. c \in CallRecords
    BY DEF CallRecords, Owners
  <2> QED BY <2>1, <2>2
<1>2. page = "elsewhere" /\ page' = "home" /\ UNCHANGED <<identity, wiz, screen, server>>
  BY DEF VisitHome
<1>3. \A c \in calls : c \in CallRecords /\ ~InWizard(c) /\ Placed(c, page, screen) /\ Sound(c)
  BY <1>2, WizardIs DEF Homed, Placed
<1>4. \A c \in calls : Placed(c, "home", screen) /\ c.kind \notin {"extract", "gate"}
  BY <1>3 DEF Placed, InWizard, Effectless
<1>5. Placed(call, "home", screen) /\ Sound(call) /\ OnStep(call, "gate")
  BY <1>1 DEF Placed, Sound, OnStep
<1>6. \A kind : Waits(calls, kind) \/ kind = "gate" => Waits(calls', kind)
  BY <1>1, <1>5 DEF Waits
<1>7. Mounted(page', screen', calls')
  BY <1>1, <1>2, <1>3, <1>4, <1>5, <1>6, WizardIs DEF Mounted, Spun
<1> QED BY <1>1, <1>2, <1>3, <1>5, <1>7, WizardIs, Assembled

LEMMA UserKeeps == ASSUME OInv, User PROVE OInv'
<1>1. CASE Skip \/ Leave \/ Reload \/ VisitWizard
  <2>1. UNCHANGED <<identity, server>> /\ wiz' \in {wiz, FirstState}
    BY <1>1 DEF Skip, Leave, Reload, VisitWizard
  <2>2. \/ Navigate("elsewhere", calls)
        \/ OpenWizard(calls) /\ UNCHANGED wiz
        \/ page' = "elsewhere" /\ screen' = EmptyScreen /\ calls' = Orphan(calls, Owners, "nobody")
    BY <1>1 DEF Skip, Leave, Reload, VisitWizard
  <2> QED BY <2>1, <2>2, PageKeeps
<1> QED BY <1>1, StepKeeps, EditKeeps, ButtonKeeps, VisitHomeKeeps DEF User

(****************************************************************************)
(* The endpoints.                                                           *)
(****************************************************************************)
\* The server keeps what it has: what was said of it stays true.
LEMMA ServerKeeps ==
    ASSUME OInv, UNCHANGED browser, stored' \in Drafts \cup {None}, Stocked',
           portfolios \subseteq portfolios', holdings \subseteq holdings',
           Mounted(page, screen, calls'),
           \A call \in calls' : Sound(call) \/ Sound(call)'
    PROVE  OInv'
<1>1. UNCHANGED <<identity, page, wiz, screen>> /\ Types'
  BY DEF browser, OInv, Types
<1>2. Backed(wiz)'
  BY <1>1 DEF OInv, Backed
<1>3. \A call : Sound(call) => Sound(call)'
  BY DEF Sound
<1>4. Mounted(page, screen, calls)'
  BY <1>1 DEF Mounted, Spun, Waits, Placed
<1> QED BY <1>1, <1>2, <1>3, <1>4 DEF OInv

\* A call is answered, if somebody still waits for it.
LEMMA Replied ==
    ASSUME OInv, NEW call \in calls, call.kind # "extract",
           NEW result \in {None, "ok"} \cup BOOLEAN \cup Nat \cup Seq(Properties), Reply(call, result)
    PROVE  /\ Mounted(page, screen, calls')
           /\ \A c \in calls' : \/ c \in calls
                                \/ /\ c.kind = call.kind /\ c.data = call.data
                                   /\ c.at = "answered" /\ c.result = result
<1> DEFINE s == [call EXCEPT !.at = "answered", !.result = result]
<1>1. /\ Mounted(page, screen, calls) /\ call \in CallRecords /\ Placed(call, page, screen)
  BY DEF OInv, Mounted
<1>2. /\ s \in CallRecords /\ s.kind = call.kind /\ s.data = call.data /\ s.at = "answered"
      /\ s.result = result /\ s.owner = call.owner
  BY <1>1 DEF CallRecords
<1>3. calls' = (calls \ {call}) \cup Rest(s)
  BY DEF Reply, Done
<1> HIDE DEF s
<1>4. IF Unheard(call) THEN calls' = calls \ {call} ELSE calls' = (calls \ {call}) \cup {s}
  BY <1>2, <1>3 DEF Rest, Unheard
<1>5. call.owner = "step" => ~Unheard(call)
  BY DEF Unheard
<1>6. \A kind : Waits(calls, kind) => Waits(calls', kind)
  BY <1>2, <1>4, <1>5 DEF Waits, OnStep
<1>7. ~Unheard(call) => Placed(s, page, screen)
  BY <1>1, <1>2 DEF Placed, Unheard, InWizard
<1>8. \A c, other \in calls' : c.kind \in {"extract", "gate"} /\ other.kind = c.kind => c = other
  <2>1. \A c, other \in calls : c.kind \in {"extract", "gate"} /\ other.kind = c.kind => c = other
    BY <1>1 DEF Mounted
  <2> QED BY <1>2, <1>4, <2>1
<1>9. Mounted(page, screen, calls')
  BY <1>1, <1>2, <1>4, <1>6, <1>7, <1>8 DEF Mounted, Spun
<1> QED BY <1>2, <1>4, <1>9

LEMMA ServeKeeps == ASSUME OInv, NEW call \in calls, Serve(call) PROVE OInv'
<1>1. /\ call \in CallRecords /\ Sound(call) /\ Types /\ Stocked /\ stored \in Drafts \cup {None}
      /\ Mounted(page, screen, calls) /\ \A c \in calls : Sound(c)
  BY DEF OInv, Mounted, Types
<1>2. CASE ServeUpsert(call)
  <2>1. /\ Reply(call, "ok") /\ call.kind = "upsert" /\ stored' = call.data
        /\ UNCHANGED <<browser, portfolios, holdings>>
    BY <1>2 DEF ServeUpsert, Asked
  <2>2. /\ Mounted(page, screen, calls')
        /\ \A c \in calls' : c \in calls \/ (c.kind = "upsert" /\ c.data = call.data)
    BY <2>1, Replied
  <2>3. \A c \in calls' : Sound(c)
    BY <1>1, <2>1, <2>2 DEF Sound
  <2>4. stored' \in Drafts \cup {None} /\ Stocked'
    BY <1>1, <2>1 DEF Sound, Stocked
  <2> QED BY <2>1, <2>2, <2>3, <2>4, ServerKeeps
<1>3. CASE ServeList(call)
  <2>1. /\ Reply(call, Ranking[stored]) /\ call.kind = "list" /\ ProfileFound
        /\ UNCHANGED <<browser, server>>
    BY <1>3 DEF ServeList, Asked
  <2>2. Ranking[stored] \in Seq(Properties)
    BY <1>1, <2>1, RankingAssumption DEF ProfileFound
  <2>3. /\ Mounted(page, screen, calls')
        /\ \A c \in calls' : c \in calls \/ (c.kind = "list" /\ c.result = Ranking[stored])
    BY <2>1, <2>2, Replied
  <2>4. \A c \in calls' : Sound(c)
    BY <1>1, <2>2, <2>3 DEF Sound
  <2>5. UNCHANGED <<stored, portfolios, holdings>> /\ Stocked'
    BY <1>1, <2>1 DEF server, Stocked
  <2> QED BY <1>1, <2>1, <2>3, <2>4, <2>5, ServerKeeps
<1>4. CASE ServeImport(call)
  <2>1. PICK id \in IF portfolios = {} THEN {1} ELSE portfolios, new \in SUBSET Range(call.data) :
          /\ portfolios' = portfolios \cup {id}
          /\ holdings' = holdings \cup {Hold(id, address, None) : address \in new}
          /\ Reply(call, id)
    BY <1>4 DEF ServeImport
  <2>2. call.kind = "import" /\ UNCHANGED <<browser, stored>> /\ call.data \in Seq(Addresses)
    BY <1>1, <1>4 DEF ServeImport, Asked, Sound
  <2>3. id \in Nat \ {NoPortfolio} /\ id \in portfolios' /\ new \subseteq Addresses
    BY <1>1, <2>1, <2>2, RangeFinite DEF Stocked, NoPortfolio
  <2>4. Stocked'
    <3>1. IsFiniteSet(portfolios')
      BY <1>1, <2>1, FS_AddElement DEF Stocked
    <3>2. \A address \in new :
            Hold(id, address, None) \in
                [portfolio: portfolios', address: Addresses, property: Properties \cup {None}]
      BY <2>3 DEF Hold
    <3>3. \A h \in holdings :
            h \in [portfolio: portfolios', address: Addresses, property: Properties \cup {None}]
      BY <1>1, <2>1 DEF Stocked
    <3> QED BY <1>1, <2>1, <2>3, <3>1, <3>2, <3>3 DEF Stocked
  <2>5. /\ Mounted(page, screen, calls')
        /\ \A c \in calls' : c \in calls \/ (c.kind = "import" /\ c.data = call.data /\ c.result = id)
    BY <2>1, <2>2, <2>3, Replied
  <2>6. \A c \in calls' : Sound(c) \/ Sound(c)'
    BY <1>1, <2>2, <2>3, <2>5 DEF Sound
  <2> QED BY <1>1, <2>1, <2>2, <2>4, <2>5, <2>6, ServerKeeps
<1>5. CASE ServeSelect(call)
  <2>1. /\ call.kind = "select" /\ UNCHANGED <<browser, stored>> /\ call.data \in Properties
    BY <1>1, <1>5 DEF ServeSelect, Asked, Sound
  <2>2. PICK id, h :
          /\ Reply(call, id) /\ h \in holdings' /\ h.property = call.data
          /\ id \in portfolios' /\ portfolios \subseteq portfolios' /\ holdings \subseteq holdings'
          /\ id \in Nat /\ Stocked'
    <3>1. ASSUME NEW h \in holdings, h.property = call.data, Reply(call, h.portfolio),
                 UNCHANGED <<portfolios, holdings>>
          PROVE  \E id, held :
                    /\ Reply(call, id) /\ held \in holdings' /\ held.property = call.data
                    /\ id \in portfolios' /\ portfolios \subseteq portfolios'
                    /\ holdings \subseteq holdings' /\ id \in Nat /\ Stocked'
      <4>1. h.portfolio \in portfolios /\ h.portfolio \in Nat
        BY <1>1 DEF Stocked
      <4>2. Stocked'
        BY <1>1, <3>1 DEF Stocked
      <4> QED BY <3>1, <4>1, <4>2
    <3>2. ASSUME NEW id, id = Cardinality(portfolios) + 1, portfolios' = portfolios \cup {id},
                 holdings' = holdings \cup {Hold(id, AddressOf[call.data], call.data)},
                 Reply(call, id)
          PROVE  \E held :
                    /\ held \in holdings' /\ held.property = call.data
                    /\ id \in portfolios' /\ portfolios \subseteq portfolios'
                    /\ holdings \subseteq holdings' /\ id \in Nat /\ Stocked'
      <4>1. id \in Nat \ {NoPortfolio} /\ IsFiniteSet(portfolios')
        <5>1. IsFiniteSet(portfolios)
          BY <1>1 DEF Stocked
        <5>2. Cardinality(portfolios) \in Nat
          BY <5>1, FS_CardinalityType
        <5>3. IsFiniteSet(portfolios \cup {id})
          BY <5>1, FS_AddElement
        <5> QED BY <3>2, <5>2, <5>3 DEF NoPortfolio
      <4>2. PICK held : held = Hold(id, AddressOf[call.data], call.data)
        OBVIOUS
      <4>3. /\ held \in [portfolio: portfolios', address: Addresses, property: Properties \cup {None}]
            /\ held.property = call.data
        BY <2>1, <3>2, <4>2, AddressAssumption DEF Hold
      <4>4. \A h \in holdings :
              h \in [portfolio: portfolios', address: Addresses, property: Properties \cup {None}]
        BY <1>1, <3>2 DEF Stocked
      <4>5. Stocked'
        BY <1>1, <3>2, <4>1, <4>2, <4>3, <4>4 DEF Stocked
      <4> QED BY <3>2, <4>1, <4>2, <4>3, <4>5
    <3> QED BY <1>5, <3>1, <3>2 DEF ServeSelect
  <2>3. /\ Mounted(page, screen, calls')
        /\ \A c \in calls' : c \in calls \/ (c.kind = "select" /\ c.data = call.data /\ c.result = id)
    BY <2>1, <2>2, Replied
  <2>4. \A c \in calls' : Sound(c) \/ Sound(c)'
    BY <1>1, <2>1, <2>2, <2>3 DEF Sound
  <2> QED BY <1>1, <2>1, <2>2, <2>3, <2>4, ServerKeeps
<1>6. CASE ServeGate(call)
  <2>1. PICK answer \in BOOLEAN : Reply(call, answer)
    BY <1>6 DEF ServeGate
  <2>2. call.kind = "gate" /\ UNCHANGED <<browser, stored, portfolios, holdings>>
    BY <1>6 DEF ServeGate, Asked, server
  <2>3. /\ Mounted(page, screen, calls')
        /\ \A c \in calls' : c \in calls \/ c.kind = "gate"
    BY <2>1, <2>2, Replied
  <2>4. \A c \in calls' : Sound(c)
    BY <1>1, <2>3 DEF Sound
  <2>5. Stocked'
    BY <1>1, <2>2 DEF Stocked
  <2> QED BY <1>1, <2>2, <2>3, <2>4, <2>5, ServerKeeps
<1>7. CASE Drop(call)
  <2>1. calls' = calls \ {call} /\ call.owner = "nobody" /\ UNCHANGED <<browser, stored, portfolios, holdings>>
    BY <1>7 DEF Drop, Done, server
  <2>2. \A kind : Waits(calls, kind) => Waits(calls', kind)
    BY <2>1 DEF Waits, OnStep
  <2>3. Mounted(page, screen, calls')
    BY <1>1, <2>1, <2>2 DEF Mounted, Spun
  <2>4. Stocked'
    BY <1>1, <2>1 DEF Stocked
  <2> QED BY <1>1, <2>1, <2>3, <2>4, ServerKeeps
<1> QED BY <1>2, <1>3, <1>4, <1>5, <1>6, <1>7 DEF Serve

(****************************************************************************)
(* Answers.                                                                 *)
(****************************************************************************)
LEMMA CallIs ==
    ASSUME OInv, NEW call \in calls
    PROVE  /\ call \in CallRecords /\ Sound(call) /\ Placed(call, page, screen)
           /\ Done(call) = calls \ {call} /\ Done(call) \subseteq calls
           /\ \A c \in Done(call) : Sound(c)
BY DEF OInv, Mounted, Done

\* A component takes an answer and keeps its place.
LEMMA Taken ==
    ASSUME OInv, NEW call \in calls, NEW t \in Screens, t.owed \subseteq Range(t.rows),
           IF call.kind = "extract" THEN ~t.pending
                                    ELSE t.pending = screen.pending /\ t.owed \subseteq screen.owed,
           t.committing => screen.committing /\ ~OnStep(call, "import"),
           t.launching => screen.launching /\ ~OnStep(call, "launch"),
           t.list = "loading" => screen.list = "loading" /\ ~OnStep(call, "list"),
           ~OnStep(call, "gate")
    PROVE  Mounted(page, t, Done(call))
<1>1. Strays({})
  BY DEF Strays
<1>2. Mounted(page, t, (calls \ {call}) \cup {})
  BY <1>1, DoneKeeps, WizardIs
<1> QED BY <1>2 DEF Done

LEMMA ListKeeps == ASSUME OInv, NEW call \in calls, AnswerExtract(call) \/ AnswerList(call) PROVE OInv'
<1>1. /\ screen \in Screens /\ screen.owed \subseteq Range(screen.rows) /\ screen.rows \in Seq(Addresses)
      /\ screen.owed \subseteq Addresses
      /\ wiz \in Wizards /\ Backed(wiz) /\ page \in {"elsewhere", "wizard", "home"}
      /\ Sound(call) /\ Placed(call, page, screen) /\ \A c \in Done(call) : Sound(c)
  BY WizardIs, CallIs DEF Types
<1>2. CASE AnswerExtract(call)
  <2>1. /\ call.kind = "extract" /\ calls' = Done(call) /\ UNCHANGED <<identity, page, wiz, server>>
        /\ call.data \in Seq(Addresses) /\ screen.owed \subseteq Range(call.data)
    BY <1>1, <1>2 DEF AnswerExtract, Asked, Sound, Placed
  <2>2. PICK found \in Extractions :
          screen' = [screen EXCEPT
              !.pending = FALSE,
              !.rows = IF found = <<>> THEN @ ELSE MergeRows(call.data, found),
              !.owed = @ \cup Range(found)]
    BY <1>2 DEF AnswerExtract
  <2>3. found \in Seq(Addresses) /\ Range(found) \subseteq Addresses /\ (found = <<>> => Range(found) = {})
    <3>1. found \in Seq(Addresses)
      BY RowsAssumption
    <3>2. Range(<<>>) = {}
      BY DEF Range
    <3> QED BY <3>1, <3>2, RangeFinite
  <2>4. PICK rows \in Seq(Addresses) :
          /\ screen' = [screen EXCEPT !.pending = FALSE, !.rows = rows,
                                      !.owed = screen.owed \cup Range(found)]
          /\ screen.owed \cup Range(found) \subseteq Range(rows)
    <3>1. CASE found = <<>>
      <4>1. screen' = [screen EXCEPT !.pending = FALSE, !.rows = screen.rows,
                                     !.owed = screen.owed \cup Range(found)]
        BY <1>1, <2>2, <3>1 DEF Screens
      <4> QED BY <1>1, <2>3, <3>1, <4>1
    <3>2. CASE found # <<>>
      <4>1. screen' = [screen EXCEPT !.pending = FALSE, !.rows = MergeRows(call.data, found),
                                     !.owed = screen.owed \cup Range(found)]
        BY <1>1, <2>2, <3>2 DEF Screens
      <4>2. /\ MergeRows(call.data, found) \in Seq(Addresses)
            /\ Range(MergeRows(call.data, found)) = Range(call.data) \cup Range(found)
        BY <2>1, <2>3, MergedIs
      <4> QED BY <2>1, <4>1, <4>2
    <3> QED BY <3>1, <3>2
  <2>5. /\ screen' \in Screens /\ screen'.rows = rows /\ screen'.owed = screen.owed \cup Range(found)
        /\ ~screen'.pending /\ screen'.committing = screen.committing
        /\ screen'.launching = screen.launching /\ screen'.list = screen.list
    BY <1>1, <2>3, <2>4 DEF Screens
  <2>6. Mounted(page, screen', Done(call))
    BY <2>1, <2>4, <2>5, Taken DEF OnStep
  <2> QED BY <1>1, <2>1, <2>5, <2>6, Assembled
<1>3. CASE AnswerList(call)
  <2>1. /\ call.kind = "list" /\ calls' = Done(call) /\ UNCHANGED <<identity, page, wiz, server>>
        /\ screen' = [screen EXCEPT !.list = "shown", !.ranked = call.result]
        /\ call.result \in Seq(Properties)
    BY <1>1, <1>3 DEF AnswerList, Answered, Sound
  <2>2. /\ screen' \in Screens /\ screen'.rows = screen.rows /\ screen'.owed = screen.owed
        /\ screen'.pending = screen.pending /\ screen'.committing = screen.committing
        /\ screen'.launching = screen.launching /\ screen'.list # "loading"
    BY <1>1, <2>1 DEF Screens
  <2>3. Mounted(page, screen', Done(call))
    BY <1>1, <2>1, <2>2, Taken DEF OnStep
  <2> QED BY <1>1, <2>1, <2>2, <2>3, Assembled
<1> QED BY <1>2, <1>3

\* The answers the wizard dispatches, which may change the step on screen.
LEMMA DispatchKeeps ==
    ASSUME OInv, NEW call \in calls, AnswerImport(call) \/ AnswerUpsert(call) \/ AnswerSelect(call)
    PROVE  OInv'
<1>1. /\ screen \in Screens /\ screen.owed \subseteq Range(screen.rows)
      /\ wiz \in Wizards /\ Backed(wiz) /\ Stocked
      /\ Sound(call) /\ Placed(call, page, screen) /\ Done(call) \subseteq calls
  BY WizardIs, CallIs DEF OInv
<1>2. /\ call.kind \in {"import", "upsert", "select"} /\ call.at = "answered"
      /\ UNCHANGED <<identity, page, server>>
  BY DEF AnswerImport, AnswerUpsert, AnswerSelect, Answered
<1>3. page = "wizard"
  BY <1>1, <1>2 DEF Placed, Unheard, InWizard, CallRecords, Owners, OInv, Mounted
<1>4. CASE AnswerImport(call)
  <2>1. call.kind = "import" /\ call.result \in portfolios /\ call.result \in Nat \ {NoPortfolio}
    BY <1>1, <1>4 DEF AnswerImport, Answered, Sound, Stocked
  <2>2. PICK w, t :
          /\ w = [wiz EXCEPT !.portfolio = call.result, !.step = "confirm"]
          /\ t = [screen EXCEPT !.committing = @ /\ ~OnStep(call, "import")]
    OBVIOUS
  <2>3. Render(w, Done(call), t)
    BY <1>4, <2>2 DEF AnswerImport
  <2>4. w \in Wizards /\ Backed(w)
    <3>1. w \in Wizards /\ w.step = "confirm" /\ w.portfolio = call.result /\ w.selected = wiz.selected
      BY <1>1, <2>1, <2>2 DEF Wizards, Steps
    <3> QED BY <1>1, <2>1, <3>1 DEF Backed
  <2>5. /\ t \in Screens /\ t.rows = screen.rows /\ t.owed = screen.owed
        /\ t.pending = screen.pending /\ t.launching = screen.launching /\ t.list = screen.list
        /\ (t.committing => screen.committing /\ ~OnStep(call, "import"))
    BY <1>1, <2>2 DEF Screens
  <2>6. Mounted(page, t, Done(call))
    BY <1>1, <2>1, <2>5, Taken DEF OnStep
  <2> QED BY <1>1, <1>2, <1>3, <2>3, <2>4, <2>5, <2>6, RenderKeeps
<1>5. CASE AnswerUpsert(call)
  <2>1. PICK w : w = [wiz EXCEPT !.step = "recommendations"]
    OBVIOUS
  <2>2. Render(w, Done(call), screen) /\ call.kind = "upsert"
    BY <1>5, <2>1 DEF AnswerUpsert, Answered
  <2>3. w \in Wizards /\ Backed(w)
    <3>1. w \in Wizards /\ w.step = "recommendations" /\ w.portfolio = wiz.portfolio
          /\ w.selected = wiz.selected
      BY <1>1, <2>1 DEF Wizards, Steps
    <3> QED BY <1>1, <3>1 DEF Backed
  <2>4. Mounted(page, screen, Done(call))
    BY <1>1, <2>2, Taken DEF OnStep
  <2> QED BY <1>1, <1>2, <1>3, <2>2, <2>3, <2>4, RenderKeeps
<1>6. CASE AnswerSelect(call)
  <2>1. /\ call.kind = "select" /\ call.result \in portfolios /\ call.result \in Nat \ {NoPortfolio}
        /\ call.data \in Properties /\ \E h \in holdings : h.property = call.data
    BY <1>1, <1>6 DEF AnswerSelect, Answered, Sound, Stocked
  <2>2. PICK w : w = [wiz EXCEPT !.selected = call.data, !.portfolio = call.result, !.step = "confirm"]
    OBVIOUS
  <2>3. Render(w, Done(call), screen)
    BY <1>6, <2>2 DEF AnswerSelect
  <2>4. w \in Wizards /\ Backed(w)
    <3>1. w \in Wizards /\ w.step = "confirm" /\ w.portfolio = call.result /\ w.selected = call.data
      BY <1>1, <2>1, <2>2 DEF Wizards, Steps
    <3> QED BY <1>1, <2>1, <3>1 DEF Backed
  <2>5. Mounted(page, screen, Done(call))
    BY <1>1, <2>1, Taken DEF OnStep
  <2> QED BY <1>1, <1>2, <1>3, <2>3, <2>4, <2>5, RenderKeeps
<1> QED BY <1>4, <1>5, <1>6

\* The answers that change the page.
LEMMA LeadKeeps ==
    ASSUME OInv, NEW call \in calls, AnswerLaunch(call) \/ AnswerGate(call)
    PROVE  OInv'
<1>1. UNCHANGED <<identity, server>> /\ wiz' \in {wiz, FirstState} /\ Done(call) \subseteq calls
  BY CallIs DEF AnswerLaunch, AnswerGate
<1>2. Navigate("elsewhere", Done(call)) \/ (OpenWizard(Done(call)) /\ UNCHANGED wiz)
  BY DEF AnswerLaunch, AnswerGate
<1> QED BY <1>1, <1>2, PageKeeps

LEMMA FailureKeeps == ASSUME OInv, NEW call \in calls, AnswerFailure(call) PROVE OInv'
<1>1. /\ screen \in Screens /\ screen.owed \subseteq Range(screen.rows)
      /\ wiz \in Wizards /\ Backed(wiz) /\ page \in {"elsewhere", "wizard", "home"}
      /\ call \in CallRecords /\ Sound(call) /\ Placed(call, page, screen)
      /\ \A c \in Done(call) : Sound(c)
  BY WizardIs, CallIs DEF Types
<1>2. PICK rest : calls' = (calls \ {call}) \cup rest /\ Strays(rest) /\ \A c \in rest : Sound(c)
  <2> DEFINE lost == Rest([call EXCEPT !.owner = "nobody"])
  <2>1. Strays(lost) /\ \A c \in lost : Sound(c)
    BY <1>1, RestIs, SoundFields DEF Strays
  <2> HIDE DEF lost
  <2>2. Strays({}) /\ \A c \in {} : Sound(c)
    BY DEF Strays
  <2>3. calls' = (calls \ {call}) \cup {} \/ calls' = (calls \ {call}) \cup lost
    BY DEF AnswerFailure, Done, lost
  <2>4. CASE calls' = (calls \ {call}) \cup {}
    BY <2>2, <2>4
  <2>5. CASE calls' = (calls \ {call}) \cup lost
    BY <2>1, <2>5
  <2> QED BY <2>3, <2>4, <2>5
<1>3. /\ screen' \in Screens /\ screen'.rows = screen.rows /\ screen'.owed = screen.owed
      /\ screen'.pending = (screen.pending /\ ~OnStep(call, "extract"))
      /\ (screen'.committing => screen.committing /\ ~OnStep(call, "import"))
      /\ (screen'.launching => screen.launching /\ ~OnStep(call, "launch"))
      /\ (screen'.list = "loading" => screen.list = "loading" /\ ~OnStep(call, "list"))
  <2>1. PICK p \in BOOLEAN, c \in BOOLEAN, l \in BOOLEAN, list \in {None, "loading", "refused", "shown"} :
          /\ screen' = [screen EXCEPT !.pending = p, !.committing = c, !.launching = l, !.list = list]
          /\ p = (screen.pending /\ ~OnStep(call, "extract"))
          /\ (c => screen.committing /\ ~OnStep(call, "import"))
          /\ (l => screen.launching /\ ~OnStep(call, "launch"))
          /\ (list = "loading" => screen.list = "loading" /\ ~OnStep(call, "list"))
    BY <1>1, ZenonT(60) DEF AnswerFailure, Screens
  <2> QED BY <1>1, <2>1 DEF Screens
<1>4. /\ IF call.kind = "extract" THEN ~screen'.pending ELSE screen'.pending = screen.pending
      /\ screen'.owed \subseteq Range(screen'.rows) /\ screen'.owed \subseteq screen.owed
  <2>1. call.kind = "extract" <=> OnStep(call, "extract")
    BY <1>1 DEF OnStep, Placed, Effectless
  <2>2. screen.pending \in BOOLEAN
    BY <1>1 DEF Screens
  <2> QED BY <1>1, <1>3, <2>1, <2>2
<1>5. /\ IF OnStep(call, "gate") THEN page' = "elsewhere" ELSE page' = page
      /\ UNCHANGED <<identity, wiz, server>>
  BY DEF AnswerFailure
<1>6. Mounted(page', screen', (calls \ {call}) \cup rest)
  BY <1>2, <1>3, <1>4, <1>5, WizardIs, DoneKeeps
<1>7. \A c \in calls' : Sound(c)
  BY <1>1, <1>2 DEF Done
<1> QED BY <1>1, <1>2, <1>3, <1>5, <1>6, <1>7, Assembled

(****************************************************************************)
(* Theorems.                                                                *)
(****************************************************************************)
LEMMA InitOInv == Init => OInv
<1> SUFFICES ASSUME Init PROVE OInv
  OBVIOUS
<1>1. Types /\ Backed(wiz)
  BY FirstIs, EmptyIs DEF Init, Types
<1>2. Stocked
  BY FS_EmptySet DEF Init, Stocked
<1>3. Mounted(page, screen, calls)
  BY EmptyIs DEF Init, Mounted, Spun, None
<1> QED BY <1>1, <1>2, <1>3 DEF Init, OInv

LEMMA NextOInv == OInv /\ [Next]_vars => OInv'
<1> SUFFICES ASSUME OInv, [Next]_vars PROVE OInv'
  OBVIOUS
<1>1. CASE UNCHANGED vars
  <2>1. UNCHANGED <<identity, page, wiz, screen, calls, server>>
    BY <1>1 DEF vars, browser
  <2> QED BY <2>1, WizardIs, Assembled DEF OInv, Types
<1>2. ASSUME NEW call \in calls, Answer(call) PROVE OInv'
  BY <1>2, ListKeeps, DispatchKeeps, LeadKeeps, FailureKeeps DEF Answer
<1> QED BY <1>1, <1>2, UserKeeps, ServeKeeps DEF Next

\* Whatever the user leaves, reloads or repeats, and whatever is refused or lost:
\* calls stay with the components that wait for them and carry what the server
\* has stored.
THEOREM WizardInvariance == Spec => []OInv
BY InitOInv, NextOInv, PTL DEF Spec

\* OnboardingWizard.tsx: the confirm step has a portfolio to launch, stored on the
\* server, also when the answer comes to a step already left.
THEOREM ConfirmIsBackedHolds == Spec => []ConfirmIsBacked
<1>1. OInv => ConfirmIsBacked
  BY DEF OInv, Backed, ConfirmIsBacked
<1> QED BY <1>1, WizardInvariance, PTL

\* RecommendationList.tsx: the property the wizard remembers as chosen is held.
THEOREM SelectedIsHeldHolds == Spec => []SelectedIsHeld
<1>1. OInv => SelectedIsHeld
  BY DEF OInv, Backed, SelectedIsHeld
<1> QED BY <1>1, WizardInvariance, PTL

\* ChatImportStep.tsx:30: an extracted address stays in the table until the user
\* changes or removes its row.
THEOREM ExtractionsAccumulateHolds == Spec => []ExtractionsAccumulate
<1>1. OInv => ExtractionsAccumulate
  BY DEF OInv, Mounted, ExtractionsAccumulate
<1> QED BY <1>1, WizardInvariance, PTL

\* A disabled button, a loading list and a closed gate wait for a call of their
\* own that is still to be answered.
THEOREM SpinnerHasCallHolds == Spec => []SpinnerHasCall
<1>1. OInv => SpinnerHasCall
  BY DEF OInv, Mounted, Spun, Waits, SpinnerHasCall
<1> QED BY <1>1, WizardInvariance, PTL
================================================================================
