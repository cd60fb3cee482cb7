---------------------------- MODULE MCInvoicePdf ----------------------------
(***************************************************************************)
(* Small instances of InvoicePdf for TLC.                                  *)
(***************************************************************************)
EXTENDS InvoicePdf, TLC

CONSTANTS i1, i2, q1, q2

\* Two invoices with the same number, from before and after a reset.
SameNumber == (i1 :> 1) @@ (i2 :> 1)

\* Up to four lines, read in any order, whose texts take one row or three, below headers
\* that leave the first page all of its room for them, or hardly any.
SmallInvoices ==
    UNION {[lines : {[k \in 1..n |-> [lineNumber |-> number[k], height |-> height[k]]] :
                        number \in Permutations(1..n), height \in [1..n -> {1, 3}]},
            header : 1..(PageBottom - Margin - HeadingHeight), taxed : BOOLEAN] : n \in 1..4}
=============================================================================
