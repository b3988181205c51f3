--------------------------------- MODULE Series ---------------------------------
(****************************************************************************)
(* Sums, joins, filters and sorts of sequences, as Python's sum,            *)
(* comprehensions and sorted compute them.  SelectSeq and SortSeq have no   *)
(* definition a proof could expand, and a fold takes an operator, over      *)
(* which no lemma can be stated; these are functions on positions, for      *)
(* which facts about every length can be proved.                            *)
(****************************************************************************)
EXTENDS Integers, Sequences, FiniteSets

SumOf(s) ==
    LET sum[n \in 0..Len(s)] == IF n = 0 THEN 0 ELSE sum[n - 1] + s[n]
    IN  sum[Len(s)]

Total(s, amount(_)) == SumOf([i \in DOMAIN s |-> amount(s[i])])

Joined(seqs) ==
    LET joined[n \in 0..Len(seqs)] == IF n = 0 THEN <<>> ELSE joined[n - 1] \o seqs[n]
    IN  joined[Len(seqs)]

\* The members of a finite set in the order of a relation that orders them.
Ordered(set, relation) ==
    [n \in 1..Cardinality(set) |->
        CHOOSE x \in set : Cardinality({y \in set : <<y, x>> \in relation}) = n - 1]

Ascending(numbers) == Ordered(numbers, {p \in numbers \X numbers : p[1] < p[2]})

\* The elements at some positions, in their order.
Picked(s, positions) ==
    LET kept == Ascending(positions) IN [n \in DOMAIN kept |-> s[kept[n]]]

\* The elements that pass a test.
Where(s, Test(_)) == Picked(s, {i \in DOMAIN s : Test(s[i])})

\* The elements in the order of a relation that orders their positions.
Arranged(s, relation) == [n \in DOMAIN s |-> s[Ordered(DOMAIN s, relation)[n]]]

\* A stable sort: elements of which neither precedes the other keep their order.
SortedBy(s, Precedes(_, _)) ==
    Arranged(s, {p \in (DOMAIN s) \X (DOMAIN s) :
                    \/ Precedes(s[p[1]], s[p[2]])
                    \/ ~Precedes(s[p[2]], s[p[1]]) /\ p[1] < p[2]})
================================================================================
