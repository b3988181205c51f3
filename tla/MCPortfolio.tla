------------------------------- MODULE MCPortfolio -------------------------------
(****************************************************************************)
(* Instances of Portfolio for TLC: the files of the runs.                   *)
(****************************************************************************)
EXTENDS Portfolio

AtFirstAddress == [x \in Properties |-> "a1"]

Row(a, p, priced, ok) ==
    CHOOSE row \in RowType : /\ row.address = a /\ row.property = p
                             /\ row.financials = priced /\ row.valid = ok

Priced == Row("a1", Nothing, TRUE, TRUE)
Linked == Row("a1", "p1", FALSE, TRUE)
Blank == Row(Nothing, Nothing, FALSE, TRUE)
Invalid == Row("a2", Nothing, FALSE, FALSE)

\* The same address with a price and, linked to a property, without one; a
\* line to skip; a file whose second line is refused.
VariedFiles == {<<Priced>>, <<Blank, Linked>>, <<Priced, Invalid>>}
==================================================================================
