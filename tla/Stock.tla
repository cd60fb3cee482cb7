------------------------------- MODULE Stock -------------------------------
(***************************************************************************)
(* The vocabulary of stock: what a client may ask for, the stock movement  *)
(* each request stands for, and the arithmetic of one movement.            *)
(* The abstract inventory and the transactions that implement it share it. *)
(***************************************************************************)
EXTENDS Integers, Sequences

CONSTANTS
    Products,       \* product ids; a UUIDv7 is ordered, so an id is a number
    Quantities,     \* quantities a line or an adjustment may ask for
    StockMax,       \* STOCK_QUANTITY_MAX, the largest value of the column
    Years,          \* invoice years
    OpeningStock    \* the products that exist at the start, with their stock

InvoiceTypes == {"PURCHASE", "SALE"}

MovementTypes == {"IN", "OUT"}

\* How each invoice type moves stock.
StockEffect == [PURCHASE |-> "IN", SALE |-> "OUT"]

\* A request names each product at most once (ArrayUnique in the DTOs), so its
\* lines are a function; an adjustment is a request with one line.
Lines == UNION {[S -> Quantities] : S \in (SUBSET Products) \ {{}}}

Adjustments ==
    [reason : {"ADJUSTMENT"}, type : MovementTypes,
     lines : UNION {[{p} -> Quantities] : p \in Products}]

InvoiceRequests == [reason : InvoiceTypes, lines : Lines, year : Years]

\* The product and its opening stock: zero or more, and the DTO sets no limit.
ProductRequests ==
    [reason : {"OPENING"}, product : Products, quantity : Nat]

StockRequests == Adjustments \cup InvoiceRequests

Requests == StockRequests \cup ProductRequests

IsInvoice(c) == c.reason \in InvoiceTypes

MovementType(c) == IF IsInvoice(c) THEN StockEffect[c.reason] ELSE c.type

\* The invoice sequence a request draws from: one per type and year.
SequenceKeys == InvoiceTypes \X Years

SequenceKey(c) == <<c.reason, c.year>>

(***************************************************************************)
(* The conditional UPDATE of one product: its guard and its effect.        *)
(***************************************************************************)
Guard(type, n, current) ==
    IF type = "OUT" THEN current >= n ELSE current <= StockMax - n

Changed(type, n, current) ==
    IF type = "OUT" THEN current - n ELSE current + n

(***************************************************************************)
(* A row of StockMovement. `after` is the quantity the UPDATE returned     *)
(* with the movement: not a column, but what stock.updated announces.      *)
(* `invoice` is the number of the invoice, with its sequence, or no        *)
(* invoice at all for an adjustment.                                       *)
(***************************************************************************)
NoInvoice == <<>>

InvoiceIds == SequenceKeys \X (Nat \ {0})

Movements ==
    [type : MovementTypes, quantity : Nat \ {0}, reason : InvoiceTypes \cup {"ADJUSTMENT"},
     invoice : InvoiceIds \cup {NoInvoice}, after : Int]

\* MUTANT: the movement records the change of stock, with its sign.
MovementSigned(c, p, after, invoice) ==
    [type |-> MovementType(c),
     quantity |-> IF MovementType(c) = "OUT" THEN 0 - c.lines[p] ELSE c.lines[p],
     reason |-> c.reason, invoice |-> invoice, after |-> after]

Movement(c, p, after, invoice) ==
    [type |-> MovementType(c), quantity |-> c.lines[p], reason |-> c.reason,
     invoice |-> invoice, after |-> after]

\* The opening movement keeps the default reason of the column, ADJUSTMENT.
OpeningLedger(n) ==
    IF n = 0
    THEN <<>>
    ELSE <<[type |-> "IN", quantity |-> n, reason |-> "ADJUSTMENT",
            invoice |-> NoInvoice, after |-> n]>>

ASSUME StockAssumption ==
    /\ Products \subseteq Nat
    /\ Quantities \subseteq Nat \ {0}
    /\ StockMax \in Nat
    /\ Years \subseteq Nat
    /\ DOMAIN OpeningStock \subseteq Products
    /\ \A p \in DOMAIN OpeningStock : OpeningStock[p] \in 0..StockMax
    /\ OpeningStock = [p \in DOMAIN OpeningStock |-> OpeningStock[p]]
=============================================================================
