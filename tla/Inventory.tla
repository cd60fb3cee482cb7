----------------------------- MODULE Inventory -----------------------------
(***************************************************************************)
(* What the inventory promises, with no transaction in sight: a request    *)
(* either changes nothing or takes effect in one step, on every product it *)
(* names, with its ledger rows, its invoice and its invoice number.        *)
(* StockTransactions.tla is shown to implement this specification.         *)
(***************************************************************************)
EXTENDS Stock

VARIABLES
    products,       \* ids of the products that exist
    quantity,       \* Product.quantity; 0 for a product that does not exist
    ledger,         \* the StockMovement rows of each product, oldest first
    invoices,       \* the issued invoices
    lastNumber      \* InvoiceSequence.lastNumber; 0 while there is no row

inventoryVars == <<products, quantity, ledger, invoices, lastNumber>>

Invoices == [id : InvoiceIds, lines : Lines]

InventoryInit ==
    /\ products = DOMAIN OpeningStock
    /\ quantity = [p \in Products |-> IF p \in products THEN OpeningStock[p] ELSE 0]
    /\ ledger = [p \in Products |-> OpeningLedger(quantity[p])]
    /\ invoices = {}
    /\ lastNumber = [k \in SequenceKeys |-> 0]

\* Every line of c moves its product, to after[p], under the given invoice.
Move(c, after, invoice) ==
    /\ quantity' = [p \in Products |-> IF p \in DOMAIN c.lines THEN after[p] ELSE quantity[p]]
    /\ ledger' = [p \in Products |->
                    IF p \in DOMAIN c.lines
                    THEN Append(ledger[p], Movement(c, p, after[p], invoice))
                    ELSE ledger[p]]

\* A product is created together with its opening ledger row.
Open(p, n) ==
    /\ p \notin products
    /\ products' = products \cup {p}
    /\ quantity' = [quantity EXCEPT ![p] = n]
    /\ ledger' = [ledger EXCEPT ![p] = OpeningLedger(n)]
    /\ UNCHANGED <<invoices, lastNumber>>

\* The next invoice of its sequence, with the lines that were asked for.
Number(c, n) ==
    /\ lastNumber' = [lastNumber EXCEPT ![SequenceKey(c)] = n]
    /\ invoices' = invoices \cup {[id |-> <<SequenceKey(c), n>>, lines |-> c.lines]}

AfterAll(c) ==
    [p \in DOMAIN c.lines |-> Changed(MovementType(c), c.lines[p], quantity[p])]

\* Every product exists and every line fits the stock there is now.
Fits(c) ==
    \A p \in DOMAIN c.lines :
        p \in products /\ Guard(MovementType(c), c.lines[p], quantity[p])

Adjust(c) ==
    /\ Fits(c)
    /\ Move(c, AfterAll(c), NoInvoice)
    /\ UNCHANGED <<products, invoices, lastNumber>>

Issue(c) ==
    LET n == lastNumber[SequenceKey(c)] + 1
    IN  /\ Fits(c)
        /\ Move(c, AfterAll(c), <<SequenceKey(c), n>>)
        /\ Number(c, n)
        /\ UNCHANGED products

InventoryNext ==
    \/ \E c \in Adjustments : Adjust(c)
    \/ \E c \in InvoiceRequests : Issue(c)
    \/ \E p \in Products, n \in 0..StockMax : Open(p, n)

InventorySpec == InventoryInit /\ [][InventoryNext]_inventoryVars

(***************************************************************************)
(* What the committed tables satisfy, whatever the order of the requests.  *)
(***************************************************************************)
InventoryTypeOK ==
    /\ products \subseteq Products
    /\ quantity \in [Products -> Int]
    /\ ledger \in [Products -> Seq(Movements)]
    /\ invoices \subseteq Invoices
    /\ lastNumber \in [SequenceKeys -> Nat]

\* No stock is ever negative or too large for its column: concurrent OUTs never
\* oversell and concurrent INs never overflow, since the guard is evaluated
\* again on the value the row lock protects.
StockWithinColumn == \A p \in Products : quantity[p] \in 0..StockMax

\* The ledger explains the stock: each row's quantity takes the stock from what
\* the row before it left to what the row itself left, beginning at zero and
\* ending at the product's quantity. No update is lost and none is counted twice.
Balance(rows, i) == IF i = 0 THEN 0 ELSE rows[i].after

Explains(rows, stock) ==
    /\ stock = Balance(rows, Len(rows))
    /\ \A i \in 1..Len(rows) :
         Balance(rows, i) = Changed(rows[i].type, rows[i].quantity, Balance(rows, i - 1))

LedgerExplainsStock == \A p \in Products : Explains(ledger[p], quantity[p])

\* Invoice numbers have no gaps and no duplicates: the committed invoices of a
\* type and year carry exactly the numbers up to the last one, each of them once.
GapFreeNumbers ==
    /\ \A k \in SequenceKeys :
         {i.id[2] : i \in {j \in invoices : j.id[1] = k}} = 1..lastNumber[k]
    /\ \A i, j \in invoices : i.id = j.id => i = j

\* An invoice and its movements exist together or not at all: every line of an
\* invoice is exactly one ledger row of its product, of the type the invoice
\* moves, and every ledger row that names an invoice is a line of that invoice.
RowsOf(rows, id) == {i \in 1..Len(rows) : rows[i].invoice = id}

Records(rows, v, p) ==
    IF p \in DOMAIN v.lines
    THEN \E i \in 1..Len(rows) :
           /\ RowsOf(rows, v.id) = {i}
           /\ rows[i].quantity = v.lines[p]
           /\ rows[i].reason = v.id[1][1]
           /\ rows[i].type = StockEffect[v.id[1][1]]
    ELSE RowsOf(rows, v.id) = {}

InvoiceAllOrNothing ==
    /\ \A v \in invoices : \A p \in Products : Records(ledger[p], v, p)
    /\ \A p \in Products : \A i \in 1..Len(ledger[p]) :
         ledger[p][i].invoice = NoInvoice \/ \E v \in invoices : v.id = ledger[p][i].invoice
=============================================================================
