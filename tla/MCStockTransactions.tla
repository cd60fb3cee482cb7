------------------------ MODULE MCStockTransactions ------------------------
(***************************************************************************)
(* Small instances of StockTransactions for TLC.                           *)
(***************************************************************************)
EXTENDS StockTransactions, TLC

CONSTANTS c1, c2, c3

MCStock == (1 :> 2) @@ (2 :> 1)

CallSymmetry == Permutations(Calls)

Line(p, n) == p :> n

Adjustment(type, p, n) == [reason |-> "ADJUSTMENT", type |-> type, lines |-> Line(p, n)]

Invoice(reason, lines, year) == [reason |-> reason, lines |-> lines, year |-> year]

Opening(p, n) == [reason |-> "OPENING", product |-> p, quantity |-> n]

\* Contention on two products: sales and purchases of both, adjustments of one,
\* quantities that run out of stock and out of the column.
StockWorkload ==
    {Invoice("SALE", Line(1, 2) @@ Line(2, 1), 2026),
     Invoice("PURCHASE", Line(1, 1) @@ Line(2, 1), 2026),
     Adjustment("OUT", 2, 1), Adjustment("IN", 2, 2)}

\* Products that appear while others ask for them; openings that cannot be.
ProductWorkload ==
    {Opening(3, 0), Opening(3, 2), Opening(2, 1), Opening(3, 4),
     Adjustment("IN", 3, 1), Adjustment("OUT", 3, 1),
     Invoice("SALE", Line(3, 1) @@ Line(1, 1), 2026)}

\* The four sequences of two years, sales that fail after taking their number.
NumberWorkload ==
    {Invoice("SALE", Line(1, 1), 2026), Invoice("SALE", Line(1, 2), 2026),
     Invoice("SALE", Line(2, 1), 2025), Invoice("PURCHASE", Line(2, 2), 2026)}

EffectWorkload == ProductWorkload \cup NumberWorkload
=============================================================================
