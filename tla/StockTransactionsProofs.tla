---------------------- MODULE StockTransactionsProofs ----------------------
(***************************************************************************)
(* What holds of the inventory for every set of products, every quantity,  *)
(* every limit and every workload: first of the abstract inventory; then   *)
(* of the transactions, which implement it, because the locks they hold    *)
(* have kept everybody else away from what they wrote; then of the locks,  *)
(* and of what callers and listeners are told.                             *)
(***************************************************************************)
EXTENDS StockTransactions, NaturalLemmas

(***************************************************************************)
(* One movement keeps the stock within its column, if its guard holds.     *)
(***************************************************************************)
LEMMA ChangedWithinColumn ==
    ASSUME NEW type \in MovementTypes, NEW n \in Nat, NEW current \in 0..StockMax,
           Guard(type, n, current)
    PROVE  Changed(type, n, current) \in 0..StockMax
  BY StockAssumption DEF Guard, Changed, MovementTypes

LEMMA RequestType ==
    ASSUME NEW c \in StockRequests
    PROVE  /\ MovementType(c) \in MovementTypes
           /\ DOMAIN c.lines \subseteq Products
           /\ c.lines = [p \in DOMAIN c.lines |-> c.lines[p]]
           /\ \A p \in DOMAIN c.lines : c.lines[p] \in Quantities /\ c.lines[p] \in Nat \ {0}
           /\ c.reason \in InvoiceTypes \cup {"ADJUSTMENT"}
  <1>1. CASE c \in Adjustments
    <2>1. c.lines \in UNION {[{p} -> Quantities] : p \in Products}
      BY <1>1 DEF Adjustments
    <2>2. PICK p \in Products : c.lines \in [{p} -> Quantities]
      BY <2>1
    <2>3. MovementType(c) \in MovementTypes /\ c.reason = "ADJUSTMENT"
      BY <1>1 DEF Adjustments, MovementType, IsInvoice, InvoiceTypes
    <2> QED
      BY <2>2, <2>3, StockAssumption
  <1>2. CASE c \in InvoiceRequests
    <2>1. c.lines \in Lines
      BY <1>2 DEF InvoiceRequests
    <2>2. PICK S \in SUBSET Products : c.lines \in [S -> Quantities]
      BY <2>1 DEF Lines
    <2>3. MovementType(c) \in MovementTypes /\ c.reason \in InvoiceTypes
      BY <1>2 DEF InvoiceRequests, MovementType, IsInvoice, InvoiceTypes, StockEffect, MovementTypes
    <2> QED
      BY <2>2, <2>3, StockAssumption
  <1> QED
    BY <1>1, <1>2 DEF StockRequests

LEMMA InvoiceRequestType ==
    ASSUME NEW c \in InvoiceRequests
    PROVE  c \in StockRequests /\ IsInvoice(c) /\ SequenceKey(c) \in SequenceKeys
  BY DEF InvoiceRequests, StockRequests, IsInvoice, SequenceKey, SequenceKeys

LEMMA MovementTyped ==
    ASSUME NEW c \in StockRequests, NEW p \in DOMAIN c.lines, NEW n \in Int,
           NEW v \in InvoiceIds \cup {NoInvoice}
    PROVE  Movement(c, p, n, v) \in Movements
  BY RequestType DEF Movement, Movements

LEMMA OpeningTyped ==
    ASSUME NEW n \in Nat
    PROVE  OpeningLedger(n) \in Seq(Movements)
  <1> DEFINE row == [type |-> "IN", quantity |-> n, reason |-> "ADJUSTMENT",
                     invoice |-> NoInvoice, after |-> n]
  <1>1. CASE n = 0
    BY <1>1 DEF OpeningLedger
  <1>2. CASE n # 0
    <2>1. row \in Movements
      BY <1>2 DEF Movements, MovementTypes, InvoiceTypes
    <2>2. OpeningLedger(n) = <<row>>
      BY <1>2 DEF OpeningLedger
    <2> HIDE DEF row
    <2> QED
      BY <2>1, <2>2
  <1> QED
    BY <1>1, <1>2

(***************************************************************************)
(* A ledger that explains the stock goes on doing so.                      *)
(***************************************************************************)
LEMMA OpeningExplains ==
    ASSUME NEW n \in Nat
    PROVE  Explains(OpeningLedger(n), n)
  BY DEF OpeningLedger, Explains, Balance, Changed

LEMMA AppendExplains ==
    ASSUME NEW rows \in Seq(Movements), NEW stock \in Int, Explains(rows, stock),
           NEW row \in Movements, row.after = Changed(row.type, row.quantity, stock)
    PROVE  Explains(Append(rows, row), row.after)
  <1> DEFINE longer == Append(rows, row)
  <1>1. /\ Len(longer) = Len(rows) + 1 /\ Len(rows) \in Nat
        /\ longer[Len(rows) + 1] = row
        /\ \A i \in 1..Len(rows) : longer[i] = rows[i]
    OBVIOUS
  <1>2. \A i \in 0..Len(rows) : Balance(longer, i) = Balance(rows, i)
    BY <1>1 DEF Balance
  <1>3. Balance(longer, Len(longer)) = row.after
    BY <1>1 DEF Balance
  <1>4. ASSUME NEW i \in 1..Len(longer)
        PROVE  Balance(longer, i) = Changed(longer[i].type, longer[i].quantity, Balance(longer, i - 1))
    <2>1. CASE i \in 1..Len(rows)
      BY <2>1, <1>1, <1>2 DEF Explains
    <2>2. CASE i = Len(rows) + 1
      BY <2>2, <1>1, <1>2, <1>3 DEF Explains
    <2> QED
      BY <2>1, <2>2, <1>1
  <1> QED
    BY <1>3, <1>4 DEF Explains

(***************************************************************************)
(* The inductive invariant of the stock.                                   *)
(***************************************************************************)
\* Nothing is known of a product before it is created.
Unborn == \A p \in Products \ products : quantity[p] = 0 /\ ledger[p] = <<>>

StockInv == InventoryTypeOK /\ Unborn /\ StockWithinColumn /\ LedgerExplainsStock

LEMMA StockInit == InventoryInit => StockInv
  <1> SUFFICES ASSUME InventoryInit PROVE StockInv
    OBVIOUS
  <1>1. \A p \in Products : quantity[p] \in 0..StockMax /\ quantity[p] \in Nat
    <2>1. StockMax \in Nat /\ \A p \in products : OpeningStock[p] \in 0..StockMax
      BY StockAssumption DEF InventoryInit
    <2>2. \A p \in Products : quantity[p] = IF p \in products THEN OpeningStock[p] ELSE 0
      BY DEF InventoryInit
    <2>3. ASSUME NEW p \in Products, p \in products PROVE quantity[p] \in 0..StockMax
      BY <2>1, <2>2, <2>3
    <2>4. ASSUME NEW p \in Products, p \notin products PROVE quantity[p] \in 0..StockMax
      BY <2>1, <2>2, <2>4
    <2>5. \A p \in Products : quantity[p] \in 0..StockMax
      BY <2>3, <2>4
    <2>6. \A n \in 0..StockMax : n \in Nat
      BY <2>1
    <2> QED
      BY <2>5, <2>6
  <1>2. products \subseteq Products /\ quantity \in [Products -> Int]
    BY <1>1, StockAssumption DEF InventoryInit
  <1>3. ledger \in [Products -> Seq(Movements)]
    BY <1>1, OpeningTyped DEF InventoryInit
  <1>4. LedgerExplainsStock
    BY <1>1, OpeningExplains DEF LedgerExplainsStock, InventoryInit
  <1>5. Unborn
    BY DEF Unborn, OpeningLedger, InventoryInit
  <1>6. InventoryTypeOK
    BY <1>2, <1>3 DEF InventoryTypeOK, InventoryInit
  <1> QED
    BY <1>1, <1>4, <1>5, <1>6 DEF StockInv, StockWithinColumn

LEMMA MoveStep ==
    ASSUME StockInv, NEW c \in StockRequests, NEW v \in InvoiceIds \cup {NoInvoice},
           Fits(c), Move(c, AfterAll(c), v), UNCHANGED products
    PROVE  /\ quantity' \in [Products -> Int]
           /\ ledger' \in [Products -> Seq(Movements)]
           /\ Unborn' /\ StockWithinColumn' /\ LedgerExplainsStock'
  <1> DEFINE after(p) == Changed(MovementType(c), c.lines[p], quantity[p])
             row(p) == Movement(c, p, after(p), v)
  <1>1. /\ quantity \in [Products -> Int] /\ ledger \in [Products -> Seq(Movements)]
        /\ \A p \in Products : quantity[p] \in 0..StockMax
        /\ \A p \in Products : Explains(ledger[p], quantity[p])
        /\ StockMax \in Nat
    BY StockAssumption DEF StockInv, InventoryTypeOK, StockWithinColumn, LedgerExplainsStock
  <1>2. ASSUME NEW p \in Products, p \notin DOMAIN c.lines
        PROVE  quantity'[p] = quantity[p] /\ ledger'[p] = ledger[p]
    BY <1>2 DEF Move
  <1>3. ASSUME NEW p \in DOMAIN c.lines
        PROVE  /\ p \in Products /\ p \in products
               /\ quantity'[p] = after(p) /\ ledger'[p] = Append(ledger[p], row(p))
               /\ after(p) \in 0..StockMax /\ after(p) \in Int /\ row(p) \in Movements
               /\ row(p).after = after(p)
               /\ row(p).after = Changed(row(p).type, row(p).quantity, quantity[p])
    <2>1. p \in Products /\ c.lines[p] \in Nat /\ MovementType(c) \in MovementTypes
      BY RequestType
    <2>2. p \in products /\ Guard(MovementType(c), c.lines[p], quantity[p])
      BY DEF Fits
    <2>3. after(p) \in 0..StockMax
      BY <2>1, <2>2, <1>1, ChangedWithinColumn
    <2>4. quantity'[p] = after(p) /\ ledger'[p] = Append(ledger[p], row(p))
      BY <2>1 DEF Move, AfterAll
    <2>5. row(p) \in Movements
      BY <2>3, MovementTyped
    <2>6. row(p).after = after(p) /\ row(p).type = MovementType(c) /\ row(p).quantity = c.lines[p]
      BY DEF Movement
    <2> QED
      BY <2>1, <2>2, <2>3, <2>4, <2>5, <2>6
  <1> HIDE DEF after, row
  <1>4. \A p \in Products : quantity'[p] \in 0..StockMax
    BY <1>1, <1>2, <1>3
  <1>5. ASSUME NEW p \in Products
        PROVE  ledger'[p] \in Seq(Movements) /\ Explains(ledger'[p], quantity'[p])
    <2>1. CASE p \in DOMAIN c.lines
      <3>1. /\ ledger[p] \in Seq(Movements) /\ Explains(ledger[p], quantity[p])
            /\ quantity[p] \in Int
        BY <1>1
      <3>2. /\ row(p) \in Movements /\ row(p).after = quantity'[p]
            /\ row(p).after = Changed(row(p).type, row(p).quantity, quantity[p])
            /\ ledger'[p] = Append(ledger[p], row(p))
        BY <2>1, <1>3
      <3>3. Explains(Append(ledger[p], row(p)), row(p).after)
        BY <3>1, <3>2, AppendExplains
      <3> QED
        BY <3>1, <3>2, <3>3
    <2>2. CASE p \notin DOMAIN c.lines
      BY <2>2, <1>1, <1>2
    <2> QED
      BY <2>1, <2>2
  <1>6. quantity' \in [Products -> Int] /\ ledger' \in [Products -> Seq(Movements)]
    <2>1. /\ quantity' = [p \in Products |-> quantity'[p]]
          /\ ledger' = [p \in Products |-> ledger'[p]]
      BY DEF Move
    <2>2. \A p \in Products : quantity'[p] \in Int
      BY <1>4, <1>1
    <2> QED
      BY <2>1, <2>2, <1>5
  <1>7. Unborn'
    BY <1>2, <1>3 DEF StockInv, Unborn
  <1> QED
    BY <1>4, <1>5, <1>6, <1>7 DEF StockWithinColumn, LedgerExplainsStock

LEMMA OpenStep ==
    ASSUME StockInv, NEW p \in Products, NEW n \in 0..StockMax, Open(p, n)
    PROVE  StockInv'
  <1>1. n \in Nat
    BY StockAssumption
  <1>2. /\ quantity \in [Products -> Int] /\ ledger \in [Products -> Seq(Movements)]
        /\ quantity'[p] = n /\ ledger'[p] = OpeningLedger(n)
        /\ \A q \in Products \ {p} : quantity'[q] = quantity[q] /\ ledger'[q] = ledger[q]
    BY DEF StockInv, InventoryTypeOK, Open
  <1>3. InventoryTypeOK'
    <2>1. OpeningLedger(n) \in Seq(Movements)
      BY <1>1, OpeningTyped
    <2>2. products' \subseteq Products /\ quantity' \in [Products -> Int]
      BY <1>1 DEF StockInv, InventoryTypeOK, Open
    <2>3. ledger' \in [Products -> Seq(Movements)]
      BY <2>1 DEF StockInv, InventoryTypeOK, Open
    <2> QED
      BY <2>2, <2>3 DEF StockInv, InventoryTypeOK, Open
  <1>4. Unborn'
    BY <1>2 DEF StockInv, Unborn, Open
  <1>5. StockWithinColumn'
    BY <1>2 DEF StockInv, StockWithinColumn
  <1>6. LedgerExplainsStock'
    BY <1>1, <1>2, OpeningExplains DEF StockInv, LedgerExplainsStock
  <1> QED
    BY <1>3, <1>4, <1>5, <1>6 DEF StockInv

LEMMA StockStep == StockInv /\ [InventoryNext]_inventoryVars => StockInv'
  <1> SUFFICES ASSUME StockInv, [InventoryNext]_inventoryVars PROVE StockInv'
    OBVIOUS
  <1>1. ASSUME NEW c \in Adjustments, Adjust(c) PROVE StockInv'
    <2>1. c \in StockRequests /\ NoInvoice \in InvoiceIds \cup {NoInvoice}
      BY DEF StockRequests
    <2>2. Fits(c) /\ Move(c, AfterAll(c), NoInvoice) /\ UNCHANGED <<products, invoices, lastNumber>>
      BY <1>1 DEF Adjust
    <2> QED
      BY <2>1, <2>2, MoveStep DEF StockInv, InventoryTypeOK
  <1>2. ASSUME NEW c \in InvoiceRequests, Issue(c) PROVE StockInv'
    <2> DEFINE n == lastNumber[SequenceKey(c)] + 1
               v == <<SequenceKey(c), n>>
    <2>1. c \in StockRequests /\ SequenceKey(c) \in SequenceKeys /\ c.lines \in Lines
      BY InvoiceRequestType DEF InvoiceRequests
    <2>2. n \in Nat \ {0} /\ v \in InvoiceIds
      BY <2>1 DEF StockInv, InventoryTypeOK, InvoiceIds
    <2>3. Fits(c) /\ Move(c, AfterAll(c), v) /\ Number(c, n) /\ UNCHANGED products
      BY <1>2 DEF Issue
    <2>4. lastNumber' \in [SequenceKeys -> Nat]
      BY <2>1, <2>2, <2>3 DEF Number, StockInv, InventoryTypeOK
    <2>5. [id |-> v, lines |-> c.lines] \in Invoices
      BY <2>1, <2>2 DEF Invoices
    <2>6. invoices' \subseteq Invoices
      BY <2>3, <2>5 DEF Number, StockInv, InventoryTypeOK
    <2> QED
      BY <2>1, <2>2, <2>3, <2>4, <2>6, MoveStep DEF StockInv, InventoryTypeOK
  <1>3. ASSUME NEW p \in Products, NEW n \in 0..StockMax, Open(p, n) PROVE StockInv'
    BY <1>3, OpenStep
  <1>4. CASE UNCHANGED inventoryVars
    BY <1>4 DEF inventoryVars, StockInv, InventoryTypeOK, Unborn, StockWithinColumn,
                LedgerExplainsStock
  <1> QED
    BY <1>1, <1>2, <1>3, <1>4 DEF InventoryNext

(***************************************************************************)
(* Invoice numbers.                                                        *)
(***************************************************************************)
NumbersInv == StockInv /\ GapFreeNumbers

\* The committed numbers of a sequence, without a set of tuples.
LEMMA NumbersUpTo ==
    ASSUME NumbersInv, NEW v \in invoices
    PROVE  /\ v.id \in InvoiceIds /\ v.id = <<v.id[1], v.id[2]>>
           /\ v.id[1] \in SequenceKeys
           /\ v.id[2] \in 1..lastNumber[v.id[1]]
  <1>1. v \in Invoices
    BY DEF NumbersInv, StockInv, InventoryTypeOK
  <1>2. v.id \in InvoiceIds /\ v.id[1] \in SequenceKeys /\ v.id = <<v.id[1], v.id[2]>>
    BY <1>1 DEF Invoices, InvoiceIds
  <1>3. v.id[2] \in {i.id[2] : i \in {j \in invoices : j.id[1] = v.id[1]}}
    OBVIOUS
  <1> QED
    BY <1>2, <1>3 DEF NumbersInv, GapFreeNumbers

LEMMA NumberStep ==
    ASSUME NumbersInv, NEW c \in InvoiceRequests, Number(c, lastNumber[SequenceKey(c)] + 1)
    PROVE  GapFreeNumbers'
  <1> DEFINE key == SequenceKey(c)
             n == lastNumber[key] + 1
             v == [id |-> <<key, n>>, lines |-> c.lines]
             Used(k) == {i.id[2] : i \in {j \in invoices : j.id[1] = k}}
  <1>1. /\ key \in SequenceKeys /\ lastNumber \in [SequenceKeys -> Nat]
        /\ lastNumber' = [lastNumber EXCEPT ![key] = n]
        /\ invoices' = invoices \cup {v}
    BY InvoiceRequestType DEF Number, NumbersInv, StockInv, InventoryTypeOK
  <1>2. \A i \in invoices : i.id # v.id
    BY <1>1, NumbersUpTo
  <1>3. ASSUME NEW k \in SequenceKeys
        PROVE  {i.id[2] : i \in {j \in invoices' : j.id[1] = k}} = 1..lastNumber'[k]
    <2>1. Used(k) = 1..lastNumber[k]
      BY DEF NumbersInv, GapFreeNumbers
    <2>2. CASE k = key
      <3>0. v.id[1] = k /\ v.id[2] = n
        BY <2>2
      <3> DEFINE Of == {j \in invoices : j.id[1] = k}
      <3>a. {j \in invoices' : j.id[1] = k} = Of \cup {v}
        BY <1>1, <3>0
      <3>b. {i.id[2] : i \in Of \cup {v}} = {i.id[2] : i \in Of} \cup {n}
        <4> HIDE DEF v, n, Of
        <4> QED
          BY <3>0
      <3>1. {i.id[2] : i \in {j \in invoices' : j.id[1] = k}} = Used(k) \cup {n}
        BY <3>a, <3>b
      <3>2. lastNumber'[k] = n /\ lastNumber[k] \in Nat
        BY <2>2, <1>1
      <3> QED
        BY <3>1, <3>2, <2>1, <2>2
    <2>3. CASE k # key
      <3>1. {i.id[2] : i \in {j \in invoices' : j.id[1] = k}} = Used(k)
        BY <2>3, <1>1
      <3> QED
        BY <3>1, <2>1, <2>3, <1>1
    <2> QED
      BY <2>2, <2>3
  <1>4. \A i, j \in invoices' : i.id = j.id => i = j
    BY <1>1, <1>2 DEF NumbersInv, GapFreeNumbers
  <1> QED
    BY <1>3, <1>4 DEF GapFreeNumbers

LEMMA NumbersStep == NumbersInv /\ [InventoryNext]_inventoryVars => NumbersInv'
  <1> SUFFICES ASSUME NumbersInv, [InventoryNext]_inventoryVars PROVE NumbersInv'
    OBVIOUS
  <1>1. StockInv'
    BY StockStep DEF NumbersInv
  <1>2. CASE UNCHANGED <<invoices, lastNumber>>
    BY <1>2, <1>1 DEF NumbersInv, GapFreeNumbers
  <1>3. ASSUME NEW c \in InvoiceRequests, Issue(c) PROVE GapFreeNumbers'
    BY <1>3, NumberStep DEF Issue
  <1>4. (\E c \in InvoiceRequests : Issue(c)) \/ UNCHANGED <<invoices, lastNumber>>
    BY DEF InventoryNext, Adjust, Open, inventoryVars
  <1> QED
    BY <1>1, <1>2, <1>3, <1>4 DEF NumbersInv

LEMMA NumbersInit == InventoryInit => NumbersInv
  <1> SUFFICES ASSUME InventoryInit PROVE NumbersInv
    OBVIOUS
  <1>1. invoices = {} /\ lastNumber = [k \in SequenceKeys |-> 0]
    BY DEF InventoryInit
  <1>2. \A k \in SequenceKeys : 1..lastNumber[k] = {}
    BY <1>1
  <1> QED
    BY <1>1, <1>2, StockInit DEF NumbersInv, GapFreeNumbers

(***************************************************************************)
(* Invoices and their ledger rows.                                         *)
(***************************************************************************)
RowsInv == NumbersInv /\ InvoiceAllOrNothing

LEMMA RowsOfAppend ==
    ASSUME NEW rows \in Seq(Movements), NEW row \in Movements, NEW id
    PROVE  RowsOf(Append(rows, row), id) =
             RowsOf(rows, id) \cup (IF row.invoice = id THEN {Len(rows) + 1} ELSE {})
  <1> DEFINE longer == Append(rows, row)
  <1>1. /\ Len(longer) = Len(rows) + 1 /\ Len(rows) \in Nat
        /\ longer[Len(rows) + 1] = row
        /\ \A i \in 1..Len(rows) : longer[i] = rows[i]
    OBVIOUS
  <1>2. 1..Len(longer) = (1..Len(rows)) \cup {Len(rows) + 1}
    BY <1>1
  <1> HIDE DEF longer
  <1>3. RowsOf(longer, id) =
          RowsOf(rows, id) \cup (IF row.invoice = id THEN {Len(rows) + 1} ELSE {})
    BY <1>1, <1>2 DEF RowsOf
  <1> QED
    BY <1>3 DEF longer

LEMMA RecordsKept ==
    ASSUME NEW rows \in Seq(Movements), NEW row \in Movements, NEW v, NEW p,
           Records(rows, v, p), row.invoice # v.id
    PROVE  Records(Append(rows, row), v, p)
  <1> DEFINE added == IF row.invoice = v.id THEN {Len(rows) + 1} ELSE {}
  <1>a. added = {}
    OBVIOUS
  <1>b. RowsOf(Append(rows, row), v.id) = RowsOf(rows, v.id) \cup added
    BY RowsOfAppend
  <1> HIDE DEF added
  <1>1. RowsOf(Append(rows, row), v.id) = RowsOf(rows, v.id)
    BY <1>a, <1>b
  <1>2. /\ 1..Len(rows) \subseteq 1..Len(Append(rows, row))
        /\ \A i \in 1..Len(rows) : Append(rows, row)[i] = rows[i]
    OBVIOUS
  <1> QED
    BY <1>1, <1>2 DEF Records

LEMMA RecordsNew ==
    ASSUME NEW rows \in Seq(Movements), NEW row \in Movements, NEW v, NEW p \in DOMAIN v.lines,
           RowsOf(rows, v.id) = {}, row.invoice = v.id, row.quantity = v.lines[p],
           row.reason = v.id[1][1], row.type = StockEffect[v.id[1][1]]
    PROVE  Records(Append(rows, row), v, p)
  <1>1. RowsOf(Append(rows, row), v.id) = {Len(rows) + 1}
    BY RowsOfAppend
  <1>2. Len(rows) + 1 \in 1..Len(Append(rows, row)) /\ Append(rows, row)[Len(rows) + 1] = row
    OBVIOUS
  <1> QED
    BY <1>1, <1>2 DEF Records

\* An id of an invoice that is not there is in no ledger row either.
LEMMA NoRowsOfUnissued ==
    ASSUME RowsInv, NEW id, id # NoInvoice, \A v \in invoices : v.id # id, NEW p \in Products
    PROVE  RowsOf(ledger[p], id) = {}
  BY DEF RowsInv, InvoiceAllOrNothing, RowsOf

LEMMA InvoiceIdReal ==
    ASSUME NEW k, NEW n
    PROVE  <<k, n>> # NoInvoice
  BY DEF NoInvoice

\* Rows of another invoice, or of none, do not disturb the invoices there are.
LEMMA MoveKeepsRecords ==
    ASSUME RowsInv, NEW c \in StockRequests, NEW after, NEW id, NEW v \in invoices,
           Move(c, after, id), id # v.id, NEW p \in Products,
           p \in DOMAIN c.lines => Movement(c, p, after[p], id) \in Movements
    PROVE  Records(ledger'[p], v, p)
  <1>1. ledger[p] \in Seq(Movements) /\ Records(ledger[p], v, p)
    BY DEF RowsInv, InvoiceAllOrNothing, NumbersInv, StockInv, InventoryTypeOK
  <1>2. CASE p \in DOMAIN c.lines
    <2>1. ledger'[p] = Append(ledger[p], Movement(c, p, after[p], id))
      BY <1>2 DEF Move
    <2>2. Movement(c, p, after[p], id).invoice # v.id
      BY DEF Movement
    <2> QED
      BY <2>1, <2>2, <1>1, <1>2, RecordsKept
  <1>3. CASE p \notin DOMAIN c.lines
    BY <1>1, <1>3 DEF Move
  <1> QED
    BY <1>2, <1>3

LEMMA MovementsOfFit ==
    ASSUME StockInv, NEW c \in StockRequests, Fits(c), NEW p \in DOMAIN c.lines,
           NEW id \in InvoiceIds \cup {NoInvoice}
    PROVE  Movement(c, p, AfterAll(c)[p], id) \in Movements
  <1>1. p \in Products /\ c.lines[p] \in Nat
    BY RequestType
  <1>2. AfterAll(c)[p] \in Int
    BY <1>1 DEF AfterAll, Changed, StockInv, InventoryTypeOK
  <1> QED
    BY <1>2, MovementTyped

LEMMA MoveNamesInvoices ==
    ASSUME RowsInv, NEW c \in StockRequests, NEW after, NEW id, Move(c, after, id),
           invoices \subseteq invoices', id = NoInvoice \/ \E v \in invoices' : v.id = id,
           \A p \in DOMAIN c.lines : Movement(c, p, after[p], id) \in Movements
    PROVE  \A p \in Products : \A i \in 1..Len(ledger'[p]) :
             ledger'[p][i].invoice = NoInvoice \/ \E v \in invoices' : v.id = ledger'[p][i].invoice
  <1> SUFFICES ASSUME NEW p \in Products, NEW i \in 1..Len(ledger'[p])
               PROVE  \/ ledger'[p][i].invoice = NoInvoice
                      \/ \E v \in invoices' : v.id = ledger'[p][i].invoice
    OBVIOUS
  <1>1. /\ ledger[p] \in Seq(Movements)
        /\ \A j \in 1..Len(ledger[p]) :
             ledger[p][j].invoice = NoInvoice \/ \E v \in invoices : v.id = ledger[p][j].invoice
    BY DEF RowsInv, InvoiceAllOrNothing, NumbersInv, StockInv, InventoryTypeOK
  <1>2. CASE p \in DOMAIN c.lines
    <2> DEFINE row == Movement(c, p, after[p], id)
    <2>1. ledger'[p] = Append(ledger[p], row) /\ row \in Movements /\ row.invoice = id
      BY <1>2 DEF Move, Movement
    <2> HIDE DEF row
    <2>2. CASE i \in 1..Len(ledger[p])
      BY <2>1, <2>2, <1>1
    <2>3. CASE i = Len(ledger[p]) + 1
      BY <2>1, <2>3, <1>1
    <2> QED
      BY <2>1, <2>2, <2>3, <1>1
  <1>3. CASE p \notin DOMAIN c.lines
    BY <1>1, <1>3 DEF Move
  <1> QED
    BY <1>2, <1>3

LEMMA RowsStep == RowsInv /\ [InventoryNext]_inventoryVars => RowsInv'
  <1> SUFFICES ASSUME RowsInv, [InventoryNext]_inventoryVars PROVE RowsInv'
    OBVIOUS
  <1>1. NumbersInv'
    BY NumbersStep DEF RowsInv
  <1>2. ASSUME NEW c \in Adjustments, Adjust(c) PROVE InvoiceAllOrNothing'
    <2>1. c \in StockRequests /\ NoInvoice \in InvoiceIds \cup {NoInvoice}
      BY DEF StockRequests
    <2>2. Fits(c) /\ Move(c, AfterAll(c), NoInvoice) /\ invoices' = invoices
      BY <1>2 DEF Adjust
    <2>3. \A p \in DOMAIN c.lines : Movement(c, p, AfterAll(c)[p], NoInvoice) \in Movements
      BY <2>1, <2>2, MovementsOfFit DEF RowsInv, NumbersInv
    <2>4. \A v \in invoices : NoInvoice # v.id
      BY NumbersUpTo, InvoiceIdReal DEF RowsInv
    <2>5. \A v \in invoices' : \A p \in Products : Records(ledger'[p], v, p)
      BY <2>1, <2>2, <2>3, <2>4, MoveKeepsRecords
    <2> QED
      BY <2>1, <2>2, <2>3, <2>5, MoveNamesInvoices DEF InvoiceAllOrNothing
  <1>3. ASSUME NEW c \in InvoiceRequests, Issue(c) PROVE InvoiceAllOrNothing'
    <2> DEFINE n == lastNumber[SequenceKey(c)] + 1
               id == <<SequenceKey(c), n>>
               new == [id |-> id, lines |-> c.lines]
    <2>1. /\ c \in StockRequests /\ SequenceKey(c) \in SequenceKeys
          /\ n \in Nat \ {0} /\ n > lastNumber[SequenceKey(c)]
          /\ MovementType(c) = StockEffect[c.reason] /\ id[1][1] = c.reason
      BY InvoiceRequestType
         DEF RowsInv, NumbersInv, StockInv, InventoryTypeOK, MovementType, SequenceKey
    <2>2. id \in InvoiceIds /\ id # NoInvoice
      BY <2>1, InvoiceIdReal DEF InvoiceIds
    <2>3. Fits(c) /\ Move(c, AfterAll(c), id) /\ invoices' = invoices \cup {new}
      BY <1>3 DEF Issue, Number
    <2>4. \A p \in DOMAIN c.lines : Movement(c, p, AfterAll(c)[p], id) \in Movements
      BY <2>1, <2>2, <2>3, MovementsOfFit DEF RowsInv, NumbersInv
    <2>5. ASSUME NEW v \in invoices PROVE v.id # id
      <3>1. v.id[2] \in 1..lastNumber[v.id[1]] /\ lastNumber[v.id[1]] \in Nat
        BY NumbersUpTo DEF RowsInv, NumbersInv, StockInv, InventoryTypeOK
      <3> QED
        BY <3>1, <2>1
    <2>6. ASSUME NEW v \in invoices, NEW p \in Products PROVE Records(ledger'[p], v, p)
      BY <2>1, <2>3, <2>4, <2>5, MoveKeepsRecords
    <2>7. ASSUME NEW p \in Products PROVE Records(ledger'[p], new, p)
      <3>1. ledger[p] \in Seq(Movements) /\ RowsOf(ledger[p], id) = {}
        BY <2>2, <2>5, NoRowsOfUnissued DEF RowsInv, NumbersInv, StockInv, InventoryTypeOK
      <3>2. CASE p \in DOMAIN c.lines
        <4> DEFINE row == Movement(c, p, AfterAll(c)[p], id)
        <4>1. ledger'[p] = Append(ledger[p], row) /\ row \in Movements
          BY <3>2, <2>3, <2>4 DEF Move
        <4>2. /\ row.invoice = id /\ row.quantity = c.lines[p] /\ row.reason = c.reason
              /\ row.type = StockEffect[c.reason]
          BY <2>1 DEF Movement
        <4>3. new.id = id /\ new.lines = c.lines
          OBVIOUS
        <4> HIDE DEF row, new, id
        <4> QED
          BY <3>1, <3>2, <4>1, <4>2, <4>3, <2>1, RecordsNew
      <3>3. CASE p \notin DOMAIN c.lines
        BY <3>1, <3>3, <2>3 DEF Records, Move
      <3> QED
        BY <3>2, <3>3
    <2>8. \A v \in invoices' : \A p \in Products : Records(ledger'[p], v, p)
      BY <2>3, <2>6, <2>7
    <2>9. invoices \subseteq invoices' /\ \E v \in invoices' : v.id = id
      <3>1. new \in invoices' /\ new.id = id
        BY <2>3
      <3> QED
        BY <3>1, <2>3
    <2> HIDE DEF id, new, n
    <2> QED
      BY <2>1, <2>3, <2>4, <2>8, <2>9, MoveNamesInvoices DEF InvoiceAllOrNothing
  <1>4. ASSUME NEW q \in Products, NEW n \in 0..StockMax, Open(q, n) PROVE InvoiceAllOrNothing'
    <2>1. invoices' = invoices /\ \A p \in Products \ {q} : ledger'[p] = ledger[p]
      BY <1>4 DEF Open, RowsInv, NumbersInv, StockInv, InventoryTypeOK
    <2>2. ledger[q] = <<>> /\ ledger'[q] = OpeningLedger(n)
      BY <1>4 DEF Open, RowsInv, NumbersInv, StockInv, InventoryTypeOK, Unborn
    <2>3. \A i \in 1..Len(ledger'[q]) : ledger'[q][i].invoice = NoInvoice
      BY <2>2 DEF OpeningLedger
    <2>4. ASSUME NEW v \in invoices PROVE Records(ledger'[q], v, q)
      <3>1. RowsOf(ledger[q], v.id) = {} /\ Records(ledger[q], v, q)
        BY <2>2 DEF RowsOf, RowsInv, InvoiceAllOrNothing
      <3>2. q \notin DOMAIN v.lines
        BY <3>1 DEF Records
      <3>3. RowsOf(ledger'[q], v.id) = {}
        BY <2>3, NumbersUpTo, InvoiceIdReal DEF RowsInv, RowsOf
      <3> QED
        BY <3>2, <3>3 DEF Records
    <2> QED
      BY <2>1, <2>3, <2>4 DEF RowsInv, InvoiceAllOrNothing
  <1>5. CASE UNCHANGED inventoryVars
    <2>1. ledger' = ledger /\ invoices' = invoices
      BY <1>5 DEF inventoryVars
    <2> QED
      BY <2>1, <1>1 DEF RowsInv, InvoiceAllOrNothing
  <1> QED
    BY <1>1, <1>2, <1>3, <1>4, <1>5 DEF InventoryNext, RowsInv

LEMMA RowsInit == InventoryInit => RowsInv
  <1> SUFFICES ASSUME InventoryInit PROVE RowsInv
    OBVIOUS
  <1>1. NumbersInv /\ invoices = {}
    BY NumbersInit DEF InventoryInit
  <1>2. \A p \in Products : \A i \in 1..Len(ledger[p]) : ledger[p][i].invoice = NoInvoice
    BY DEF InventoryInit, OpeningLedger
  <1> QED
    BY <1>1, <1>2 DEF RowsInv, InvoiceAllOrNothing

-----------------------------------------------------------------------------
\* The committed tables always have their types (schema.prisma).
THEOREM InventoryTyped == InventorySpec => []InventoryTypeOK
  <1>1. InventorySpec => []StockInv
    BY StockInit, StockStep, PTL DEF InventorySpec
  <1>2. StockInv => InventoryTypeOK
    BY DEF StockInv
  <1> QED
    BY <1>1, <1>2, PTL

\* Stock is never negative, never above its column, and always what the ledger
\* says it is (StockLedgerService.applyMovement, ProductsService.create).
THEOREM StockIsExplained == InventorySpec => [](StockWithinColumn /\ LedgerExplainsStock)
  <1>1. InventorySpec => []StockInv
    BY StockInit, StockStep, PTL DEF InventorySpec
  <1>2. StockInv => StockWithinColumn /\ LedgerExplainsStock
    BY DEF StockInv
  <1> QED
    BY <1>1, <1>2, PTL

\* Invoices are numbered without gaps, and each has exactly its own ledger rows
\* (InvoiceIssuerService.issue, InvoiceNumberService.next).
THEOREM InvoicesAreSound == InventorySpec => [](GapFreeNumbers /\ InvoiceAllOrNothing)
  <1>1. InventorySpec => []RowsInv
    BY RowsInit, RowsStep, PTL DEF InventorySpec
  <1>2. RowsInv => GapFreeNumbers /\ InvoiceAllOrNothing
    BY DEF RowsInv, NumbersInv
  <1> QED
    BY <1>1, <1>2, PTL

(***************************************************************************)
(* The transactions implement the abstract inventory: what a transaction   *)
(* has written but not committed is still right when it commits.           *)
(***************************************************************************)
Working == {"moving", "waiting", "explaining"}

Done == {"committed", "published"}

CallTypeOK ==
    /\ phase \in [Calls -> Phases]
    /\ request \in [Calls -> Requests \cup {NoRequest}]
    /\ number \in [Calls -> Nat]
    /\ staged = [c \in Calls |-> staged[c]]
    /\ report = [c \in Calls |-> report[c]]
    /\ \A c \in Calls : IsPartial(staged[c]) /\ IsPartial(report[c])
    /\ outcome \in [Calls -> Outcomes]
    /\ rowLock \in [Products -> Calls \cup {NoCall}]
    /\ seqLock \in [SequenceKeys -> Calls \cup {NoCall}]
    /\ events \subseteq Events
    /\ crashes \in Nat

\* What a call in each phase asks for.
RequestInv(c) ==
    /\ phase[c] = "opening" => request[c] \in ProductRequests
    /\ phase[c] \in {"loading", "numbering"} => request[c] \in InvoiceRequests
    /\ phase[c] \in Working => request[c] \in StockRequests
    /\ phase[c] \in Done => request[c] \in Requests

\* Before its first statement a transaction has written nothing.
FreshInv(c) ==
    phase[c] \in {"idle", "loading", "numbering", "opening"} =>
        staged[c] = Nothing /\ report[c] = Nothing

\* What an open transaction wrote to a row it has locked is still the effect of
\* its line on the committed row.
StagedInv(c) ==
    phase[c] \in Working =>
        \A p \in DOMAIN staged[c] :
            /\ p \in DOMAIN request[c].lines
            /\ p \in products
            /\ rowLock[p] = c
            /\ Fitting(c, p)
            /\ staged[c][p] = Changed(MovementType(request[c]), request[c].lines[p], quantity[p])

\* A statement that waits for a row has seen the product.
WaitingInv(c) ==
    phase[c] = "waiting" => \A p \in Products : IsNext(c, p) => p \in products

\* The number an open transaction took is still the next one of its sequence.
NumberInv(c) ==
    /\ phase[c] \in Working /\ IsInvoice(request[c]) =>
         /\ seqLock[SequenceKey(request[c])] = c
         /\ number[c] = lastNumber[SequenceKey(request[c])] + 1
    /\ phase[c] \in Done /\ IsInvoice(request[c]) => number[c] # 0

CallInv(c) == RequestInv(c) /\ FreshInv(c) /\ StagedInv(c) /\ WaitingInv(c) /\ NumberInv(c)

TransactionInv == StockInv /\ CallTypeOK /\ \A c \in Calls : CallInv(c)

(***************************************************************************)
(* Partial functions.                                                      *)
(***************************************************************************)
LEMMA NothingPartial == IsPartial(Nothing) /\ DOMAIN Nothing = {}
  BY DEF IsPartial, Nothing

LEMMA WithPartial ==
    ASSUME NEW f, IsPartial(f), NEW p \in Products, NEW n \in Int
    PROVE  /\ IsPartial(With(f, p, n))
           /\ DOMAIN With(f, p, n) = DOMAIN f \cup {p}
           /\ With(f, p, n)[p] = n
           /\ \A q \in DOMAIN f \ {p} : With(f, p, n)[q] = f[q]
  BY DEF IsPartial, With

LEMMA RequestSorts ==
    /\ \A r \in ProductRequests :
         r.reason = "OPENING" /\ ~IsInvoice(r) /\ r.product \in Products /\ r.quantity \in Nat
    /\ \A r \in InvoiceRequests : r \in StockRequests /\ IsInvoice(r) /\ r.reason # "OPENING"
    /\ \A r \in Adjustments : r \in StockRequests /\ ~IsInvoice(r) /\ r.reason # "OPENING"
    /\ \A r \in StockRequests : r \in Requests /\ (IsInvoice(r) => r \in InvoiceRequests)
                                 /\ (~IsInvoice(r) => r \in Adjustments)
  BY DEF ProductRequests, InvoiceRequests, Adjustments, StockRequests, Requests, IsInvoice,
         InvoiceTypes

LEMMA TransactionInit == Init => TransactionInv
  <1> SUFFICES ASSUME Init PROVE TransactionInv
    OBVIOUS
  <1>1. StockInv
    BY StockInit DEF Init
  <1>2. CallTypeOK
    BY NothingPartial DEF Init, CallTypeOK, Phases, InTransaction, Outcomes
  <1>3. ASSUME NEW c \in Calls PROVE CallInv(c)
    <2>1. phase[c] = "idle" /\ staged[c] = Nothing /\ report[c] = Nothing
      BY DEF Init
    <2> QED
      BY <2>1 DEF CallInv, RequestInv, FreshInv, StagedInv, WaitingInv, NumberInv, Working, Done
  <1> QED
    BY <1>1, <1>2, <1>3 DEF TransactionInv

(***************************************************************************)
(* A call that is not stepping keeps what is its own.                      *)
(***************************************************************************)
LEMMA OtherCall ==
    ASSUME NEW d \in Calls, CallInv(d),
           phase'[d] = phase[d], request'[d] = request[d], number'[d] = number[d],
           staged'[d] = staged[d], report'[d] = report[d], products \subseteq products',
           \A p \in DOMAIN staged[d] :
               phase[d] \in Working /\ p \in products /\ rowLock[p] = d =>
                   rowLock'[p] = d /\ p \in products' /\ quantity'[p] = quantity[p],
           phase[d] \in Working /\ IsInvoice(request[d]) /\ seqLock[SequenceKey(request[d])] = d =>
               /\ seqLock'[SequenceKey(request[d])] = d
               /\ lastNumber'[SequenceKey(request[d])] = lastNumber[SequenceKey(request[d])]
    PROVE  CallInv(d)'
  <1>1. RequestInv(d)' /\ FreshInv(d)'
    BY DEF CallInv, RequestInv, FreshInv
  <1>2. StagedInv(d)'
    BY DEF CallInv, StagedInv, Fitting
  <1>3. NumberInv(d)'
    BY DEF CallInv, NumberInv
  <1>4. WaitingInv(d)'
    BY DEF CallInv, WaitingInv, IsNext, Remaining
  <1> QED
    BY <1>1, <1>2, <1>3, <1>4 DEF CallInv

LEMMA SameInventory == StockInv /\ UNCHANGED inventoryVars => StockInv'
  BY StockStep

\* Locks that a transaction releases were its own.
LEMMA ReleaseOwn ==
    ASSUME CallTypeOK, NEW c \in Calls, ReleaseLocks(c)
    PROVE  /\ rowLock' \in [Products -> Calls \cup {NoCall}]
           /\ seqLock' \in [SequenceKeys -> Calls \cup {NoCall}]
           /\ \A d \in Calls \ {c} :
                /\ \A p \in Products : rowLock[p] = d => rowLock'[p] = d
                /\ \A k \in SequenceKeys : seqLock[k] = d => seqLock'[k] = d
  BY DEF CallTypeOK, ReleaseLocks

LEMMA SequenceKeyTyped ==
    ASSUME NEW d \in Calls, RequestInv(d), phase[d] \in Working, IsInvoice(request[d])
    PROVE  SequenceKey(request[d]) \in SequenceKeys
  BY RequestSorts, InvoiceRequestType DEF RequestInv

LEMMA RollBackStep ==
    ASSUME TransactionInv, NEW c \in Calls, NEW result \in Outcomes, RollBack(c, result),
           \/ UNCHANGED report
           \/ \E f : IsPartial(f) /\ report' = [report EXCEPT ![c] = f]
    PROVE  TransactionInv'
  <1>1. StockInv'
    BY SameInventory DEF TransactionInv, RollBack
  <1>2. /\ phase' = [phase EXCEPT ![c] = "answered"]
        /\ outcome' = [outcome EXCEPT ![c] = result]
        /\ number' = [number EXCEPT ![c] = 0]
        /\ staged' = [staged EXCEPT ![c] = Nothing]
        /\ request' = request /\ events' = events /\ crashes' = crashes
        /\ products' = products /\ quantity' = quantity /\ lastNumber' = lastNumber
    BY DEF RollBack, inventoryVars
  <1>3. /\ report' = [d \in Calls |-> report'[d]]
        /\ \A d \in Calls : IsPartial(report'[d])
        /\ \A d \in Calls \ {c} : report'[d] = report[d]
    BY DEF TransactionInv, CallTypeOK
  <1>4. CallTypeOK'
    <2>1. phase' \in [Calls -> Phases] /\ number' \in [Calls -> Nat] /\ outcome' \in [Calls -> Outcomes]
      BY <1>2 DEF TransactionInv, CallTypeOK, Phases
    <2>2. staged' = [d \in Calls |-> staged'[d]] /\ \A d \in Calls : IsPartial(staged'[d])
      BY <1>2, NothingPartial DEF TransactionInv, CallTypeOK
    <2> QED
      BY <1>2, <1>3, <2>1, <2>2, ReleaseOwn DEF TransactionInv, CallTypeOK, RollBack, IsPartial
  <1>5. ASSUME NEW d \in Calls, d # c PROVE CallInv(d)'
    <2>1. /\ phase'[d] = phase[d] /\ request'[d] = request[d] /\ number'[d] = number[d]
          /\ staged'[d] = staged[d] /\ report'[d] = report[d]
      BY <1>2, <1>3, <1>5 DEF TransactionInv, CallTypeOK
    <2>2. CallInv(d) /\ DOMAIN staged[d] \subseteq Products
      BY DEF TransactionInv, CallTypeOK, IsPartial
    <2>3. phase[d] \in Working /\ IsInvoice(request[d]) => SequenceKey(request[d]) \in SequenceKeys
      BY <2>2, SequenceKeyTyped DEF CallInv
    <2> QED
      BY <1>2, <1>5, <2>1, <2>2, <2>3, OtherCall, ReleaseOwn DEF TransactionInv, RollBack
  <1>6. CallInv(c)'
    <2>1. phase'[c] = "answered"
      BY <1>2 DEF TransactionInv, CallTypeOK
    <2> QED
      BY <2>1 DEF CallInv, RequestInv, FreshInv, StagedInv, WaitingInv, NumberInv, Working, Done
  <1> QED
    BY <1>1, <1>4, <1>5, <1>6 DEF TransactionInv

\* A step of one call that changes no committed row and no lock of another.
LEMMA LocalStep ==
    ASSUME TransactionInv, NEW c \in Calls, UNCHANGED inventoryVars, CallTypeOK', CallInv(c)',
           \A d \in Calls \ {c} :
             /\ phase'[d] = phase[d] /\ request'[d] = request[d] /\ number'[d] = number[d]
             /\ staged'[d] = staged[d] /\ report'[d] = report[d]
             /\ \A p \in Products : rowLock[p] = d => rowLock'[p] = d
             /\ \A k \in SequenceKeys : seqLock[k] = d => seqLock'[k] = d
    PROVE  TransactionInv'
  <1>1. StockInv'
    BY SameInventory DEF TransactionInv
  <1>2. ASSUME NEW d \in Calls, d # c PROVE CallInv(d)'
    <2>1. CallInv(d) /\ DOMAIN staged[d] \subseteq Products
      BY DEF TransactionInv, CallTypeOK, IsPartial
    <2>2. phase[d] \in Working /\ IsInvoice(request[d]) => SequenceKey(request[d]) \in SequenceKeys
      BY <2>1, SequenceKeyTyped DEF CallInv
    <2> QED
      BY <1>2, <2>1, <2>2, OtherCall DEF inventoryVars
  <1> QED
    BY <1>1, <1>2 DEF TransactionInv

LEMMA ReceiveStep ==
    ASSUME TransactionInv, NEW c \in Calls, Receive(c)
    PROVE  TransactionInv'
  <1>1. PICK r \in Workload :
          /\ Step(c, "idle", FirstPhase(r))
          /\ request' = [request EXCEPT ![c] = r]
          /\ UNCHANGED <<inventoryVars, number, staged, report, outcome, lockVars, events, crashes>>
    BY DEF Receive
  <1>2. r \in Requests /\ FirstPhase(r) \in {"opening", "loading", "moving"}
    BY CallsAssumption DEF FirstPhase
  <1>3. phase' = [phase EXCEPT ![c] = FirstPhase(r)] /\ phase[c] = "idle"
    BY <1>1 DEF Step
  <1>4. CallTypeOK'
    BY <1>1, <1>2, <1>3 DEF TransactionInv, CallTypeOK, Phases, InTransaction, IsPartial, lockVars
  <1>5. CallInv(c)'
    <2>1. phase'[c] = FirstPhase(r) /\ request'[c] = r /\ staged'[c] = Nothing /\ report'[c] = Nothing
      BY <1>1, <1>3 DEF TransactionInv, CallTypeOK, CallInv, FreshInv
    <2>2. RequestInv(c)'
      BY <2>1, <1>2, RequestSorts DEF RequestInv, FirstPhase, Requests, StockRequests, Working, Done
    <2>3. FreshInv(c)' /\ StagedInv(c)'
      BY <2>1, NothingPartial DEF FreshInv, StagedInv
    <2>4. NumberInv(c)' /\ WaitingInv(c)'
      BY <2>1, <1>2 DEF NumberInv, WaitingInv, FirstPhase, Working, Done
    <2> QED
      BY <2>2, <2>3, <2>4 DEF CallInv
  <1> QED
    BY <1>1, <1>3, <1>4, <1>5, LocalStep DEF TransactionInv, CallTypeOK, lockVars

LEMMA LoadStep ==
    ASSUME TransactionInv, NEW c \in Calls, LoadProducts(c)
    PROVE  TransactionInv'
  <1>1. /\ phase' = [phase EXCEPT ![c] = "numbering"] /\ phase[c] = "loading"
        /\ UNCHANGED <<inventoryVars, request, number, staged, report, outcome, lockVars, events, crashes>>
    BY DEF LoadProducts, Step
  <1>2. CallTypeOK'
    BY <1>1 DEF TransactionInv, CallTypeOK, Phases, InTransaction, IsPartial, lockVars
  <1>3. CallInv(c)'
    <2>1. phase'[c] = "numbering"
      BY <1>1 DEF TransactionInv, CallTypeOK
    <2> QED
      BY <1>1, <2>1
         DEF TransactionInv, CallInv, RequestInv, FreshInv, StagedInv, WaitingInv, NumberInv, Working, Done
  <1> QED
    BY <1>1, <1>2, <1>3, LocalStep DEF TransactionInv, CallTypeOK, lockVars

LEMMA TakeNumberStep ==
    ASSUME TransactionInv, NEW c \in Calls, TakeNumber(c)
    PROVE  TransactionInv'
  <1> DEFINE k == SequenceKey(request[c])
  <1>1. /\ phase' = [phase EXCEPT ![c] = "moving"] /\ phase[c] = "numbering"
        /\ seqLock[k] = NoCall /\ seqLock' = [seqLock EXCEPT ![k] = c]
        /\ number' = [number EXCEPT ![c] = lastNumber[k] + 1]
        /\ UNCHANGED <<inventoryVars, request, staged, report, outcome, rowLock, events, crashes>>
    BY DEF TakeNumber, Step
  <1>2. request[c] \in InvoiceRequests /\ staged[c] = Nothing
    BY <1>1 DEF TransactionInv, CallInv, RequestInv, FreshInv
  <1>3. k \in SequenceKeys /\ lastNumber[k] \in Nat
    BY <1>2, InvoiceRequestType DEF TransactionInv, StockInv, InventoryTypeOK
  <1>4. CallTypeOK'
    BY <1>1, <1>3 DEF TransactionInv, CallTypeOK, Phases, InTransaction, IsPartial
  <1>5. CallInv(c)'
    <2>1. /\ phase'[c] = "moving" /\ number'[c] = lastNumber[k] + 1 /\ seqLock'[k] = c
          /\ request'[c] = request[c] /\ lastNumber' = lastNumber /\ staged'[c] = Nothing
      BY <1>1, <1>2, <1>3 DEF TransactionInv, CallTypeOK, inventoryVars
    <2>2. RequestInv(c)' /\ FreshInv(c)' /\ StagedInv(c)'
      BY <2>1, <1>2, InvoiceRequestType, NothingPartial DEF RequestInv, FreshInv, StagedInv, Done
    <2>3. NumberInv(c)' /\ WaitingInv(c)'
      BY <2>1 DEF NumberInv, WaitingInv, Done
    <2> QED
      BY <2>2, <2>3 DEF CallInv
  <1>6. \A d \in Calls \ {c} : \A j \in SequenceKeys : seqLock[j] = d => seqLock'[j] = d
    BY <1>1, <1>3, CallsAssumption DEF TransactionInv, CallTypeOK
  <1> QED
    BY <1>1, <1>4, <1>5, <1>6, LocalStep DEF TransactionInv, CallTypeOK

LEMMA BeginUpdateStep ==
    ASSUME TransactionInv, NEW c \in Calls, BeginUpdate(c)
    PROVE  TransactionInv'
  <1>1. PICK p \in Products, to \in {"waiting", "explaining"} :
          /\ phase' = [phase EXCEPT ![c] = to] /\ phase[c] = "moving"
          /\ IsNext(c, p) /\ (to = "waiting" => p \in products)
          /\ UNCHANGED <<inventoryVars, request, number, staged, report, outcome, lockVars, events, crashes>>
    BY DEF BeginUpdate, Step
  <1>2. CallTypeOK'
    BY <1>1 DEF TransactionInv, CallTypeOK, Phases, InTransaction, IsPartial, lockVars
  <1>3. CallInv(c)'
    <2>1. phase'[c] = to /\ CallInv(c)
      BY <1>1 DEF TransactionInv, CallTypeOK
    <2>2. RequestInv(c)' /\ FreshInv(c)' /\ StagedInv(c)' /\ NumberInv(c)'
      BY <1>1, <2>1
         DEF CallInv, RequestInv, FreshInv, StagedInv, NumberInv, Working, Done, Fitting, inventoryVars,
             lockVars
    <2>3. ASSUME NEW q \in Products, IsNext(c, q)' PROVE q = p
      <3>1. IsNext(c, q)
        BY <1>1, <2>3 DEF IsNext, Remaining
      <3>2. p <= q /\ q <= p /\ p \in Nat /\ q \in Nat
        BY <1>1, <3>1, StockAssumption DEF IsNext
      <3> QED
        BY <3>2
    <2>4. WaitingInv(c)'
      BY <1>1, <2>1, <2>3 DEF WaitingInv, inventoryVars
    <2> QED
      BY <2>2, <2>4 DEF CallInv
  <1> QED
    BY <1>1, <1>2, <1>3, LocalStep DEF TransactionInv, CallTypeOK, lockVars

\* The line a working transaction is at.
LEMMA NextLine ==
    ASSUME TransactionInv, NEW c \in Calls, phase[c] \in Working, NEW p, IsNext(c, p)
    PROVE  /\ request[c] \in StockRequests
           /\ p \in DOMAIN request[c].lines /\ p \in Products
           /\ p \notin DOMAIN staged[c] /\ p \notin DOMAIN report[c]
           /\ request[c].lines[p] \in Nat /\ MovementType(request[c]) \in MovementTypes
           /\ quantity[p] \in 0..StockMax /\ quantity[p] \in Int
  <1>1. request[c] \in StockRequests
    BY DEF TransactionInv, CallInv, RequestInv
  <1>2. p \in DOMAIN request[c].lines /\ p \notin DOMAIN staged[c] /\ p \notin DOMAIN report[c]
    BY DEF IsNext, Remaining
  <1>3. p \in Products
    BY <1>1, <1>2, RequestType
  <1>4. quantity[p] \in 0..StockMax /\ quantity[p] \in Int
    BY <1>3 DEF TransactionInv, StockInv, StockWithinColumn, InventoryTypeOK
  <1> QED
    BY <1>1, <1>2, <1>3, <1>4, RequestType

LEMMA FinishUpdateStep ==
    ASSUME TransactionInv, NEW c \in Calls, FinishUpdate(c)
    PROVE  TransactionInv'
  <1>1. PICK p \in Products :
          /\ IsNext(c, p) /\ phase[c] = "waiting" /\ rowLock[p] = NoCall
          /\ phase' = [phase EXCEPT ![c] = IF FitsStill(c, p) THEN "moving" ELSE "explaining"]
          /\ rowLock' = [rowLock EXCEPT ![p] = c]
          /\ staged' = IF FitsStill(c, p)
                       THEN [staged EXCEPT ![c] =
                               With(staged[c], p, Changed(MovementType(request[c]),
                                                          request[c].lines[p], quantity[p]))]
                       ELSE staged
          /\ UNCHANGED <<inventoryVars, request, number, report, outcome, seqLock, events, crashes>>
    BY DEF FinishUpdate, Step, RowIsFree, TransactionInv, CallTypeOK
  <1> DEFINE after == Changed(MovementType(request[c]), request[c].lines[p], quantity[p])
  <1>2. /\ request[c] \in StockRequests /\ p \in DOMAIN request[c].lines
        /\ p \notin DOMAIN staged[c] /\ after \in Int /\ IsPartial(staged[c])
    <2>1. phase[c] \in Working
      BY <1>1 DEF Working
    <2> QED
      BY <1>1, <2>1, NextLine DEF Changed, TransactionInv, CallTypeOK
  <1> HIDE DEF after
  <1>3. /\ phase'[c] = (IF FitsStill(c, p) THEN "moving" ELSE "explaining")
        /\ staged'[c] = (IF FitsStill(c, p) THEN With(staged[c], p, after) ELSE staged[c])
        /\ IsPartial(staged'[c])
        /\ p \in products
    BY <1>1, <1>2, WithPartial DEF TransactionInv, CallTypeOK, CallInv, WaitingInv, after
  <1>w. /\ DOMAIN With(staged[c], p, after) = DOMAIN staged[c] \cup {p}
        /\ With(staged[c], p, after)[p] = after
        /\ \A q \in DOMAIN staged[c] \ {p} : With(staged[c], p, after)[q] = staged[c][q]
    BY <1>2, WithPartial
  <1>4. CallTypeOK'
    <2>1. /\ staged' = [d \in Calls |-> staged'[d]]
          /\ \A d \in Calls : d # c => staged'[d] = staged[d]
      BY <1>1 DEF TransactionInv, CallTypeOK
    <2>2. phase' \in [Calls -> Phases] /\ rowLock' \in [Products -> Calls \cup {NoCall}]
      BY <1>1 DEF TransactionInv, CallTypeOK, Phases, InTransaction
    <2> QED
      BY <1>1, <1>3, <2>1, <2>2 DEF TransactionInv, CallTypeOK
  <1>5. CallInv(c)'
    <2>1. RequestInv(c)' /\ FreshInv(c)' /\ NumberInv(c)' /\ WaitingInv(c)'
      BY <1>1, <1>3
         DEF TransactionInv, CallInv, RequestInv, FreshInv, NumberInv, WaitingInv, Working, Done, inventoryVars
    <2>2. ASSUME NEW q \in DOMAIN staged'[c]
          PROVE  /\ q \in DOMAIN request[c].lines /\ q \in products /\ rowLock'[q] = c
                 /\ Fitting(c, q)
                 /\ staged'[c][q] = Changed(MovementType(request[c]), request[c].lines[q], quantity[q])
      <3>1. \A r \in DOMAIN staged[c] :
              /\ r \in DOMAIN request[c].lines /\ r \in products /\ rowLock[r] = c /\ Fitting(c, r)
              /\ staged[c][r] = Changed(MovementType(request[c]), request[c].lines[r], quantity[r])
              /\ r \in Products
        BY <1>1, <1>2 DEF TransactionInv, CallInv, StagedInv, Working, IsPartial
      <3>2. CASE q \in DOMAIN staged[c]
        <4>1. q # p /\ staged'[c][q] = staged[c][q]
          BY <3>2, <1>2, <1>3, <1>w
        <4> QED
          BY <3>1, <3>2, <4>1, <1>1 DEF TransactionInv, CallTypeOK
      <3>3. CASE q \notin DOMAIN staged[c]
        <4>1. FitsStill(c, p) /\ q = p /\ staged'[c][q] = after
          BY <3>3, <1>3, <1>w
        <4> QED
          BY <4>1, <1>1, <1>2, <1>3 DEF TransactionInv, CallTypeOK, FitsStill, after
      <3> QED
        BY <3>2, <3>3
    <2>3. StagedInv(c)'
      BY <2>2, <1>1 DEF StagedInv, Fitting, inventoryVars
    <2> QED
      BY <2>1, <2>3 DEF CallInv
  <1>6. \A d \in Calls \ {c} : \A q \in Products : rowLock[q] = d => rowLock'[q] = d
    BY <1>1, CallsAssumption DEF TransactionInv, CallTypeOK
  <1> QED
    BY <1>1, <1>4, <1>5, <1>6, LocalStep DEF TransactionInv, CallTypeOK

LEMMA ExplainStep ==
    ASSUME TransactionInv, NEW c \in Calls, Explain(c)
    PROVE  TransactionInv'
  <1>1. PICK p \in Products : phase[c] = "explaining" /\ IsNext(c, p) /\
          LET short == With(report[c], p, quantity[p])
          IN  \/ /\ Step(c, "explaining", "moving")
                 /\ report' = [report EXCEPT ![c] = short]
                 /\ UNCHANGED <<inventoryVars, request, number, staged, outcome, lockVars, events, crashes>>
              \/ RollBack(c, "shortage") /\ report' = [report EXCEPT ![c] = short]
              \/ RollBack(c, "limit") /\ UNCHANGED report
              \/ RollBack(c, "not found") /\ UNCHANGED report
    BY DEF Explain
  <1> DEFINE short == With(report[c], p, quantity[p])
  <1>2. IsPartial(short)
    <2>1. quantity[p] \in Int
      BY <1>1, NextLine DEF Working
    <2> QED
      BY <2>1, WithPartial DEF TransactionInv, CallTypeOK
  <1> HIDE DEF short
  <1>3. {"shortage", "limit", "not found"} \subseteq Outcomes
    BY DEF Outcomes
  <1>4. CASE /\ Step(c, "explaining", "moving")
             /\ report' = [report EXCEPT ![c] = short]
             /\ UNCHANGED <<inventoryVars, request, number, staged, outcome, lockVars, events, crashes>>
    <2>1. phase' = [phase EXCEPT ![c] = "moving"]
      BY <1>4 DEF Step
    <2>2. /\ report' = [d \in Calls |-> report'[d]]
          /\ \A d \in Calls : IsPartial(report'[d])
          /\ \A d \in Calls \ {c} : report'[d] = report[d]
      BY <1>2, <1>4 DEF TransactionInv, CallTypeOK
    <2>3. CallTypeOK'
      BY <1>4, <2>1, <2>2 DEF TransactionInv, CallTypeOK, Phases, InTransaction, lockVars
    <2>4. CallInv(c)'
      <3>1. phase'[c] = "moving" /\ CallInv(c)
        BY <2>1 DEF TransactionInv, CallTypeOK
      <3> QED
        BY <1>1, <1>4, <3>1
           DEF CallInv, RequestInv, FreshInv, StagedInv, WaitingInv, NumberInv, Working, Done, Fitting,
               inventoryVars, lockVars
    <2> QED
      BY <1>4, <2>1, <2>2, <2>3, <2>4, LocalStep DEF TransactionInv, CallTypeOK, lockVars
  <1>5. CASE \/ RollBack(c, "shortage") /\ report' = [report EXCEPT ![c] = short]
             \/ RollBack(c, "limit") /\ UNCHANGED report
             \/ RollBack(c, "not found") /\ UNCHANGED report
    BY <1>2, <1>3, <1>5, RollBackStep
  <1> QED
    BY <1>1, <1>4, <1>5 DEF short

LEMMA PublishStep ==
    ASSUME TransactionInv, NEW c \in Calls, Publish(c)
    PROVE  TransactionInv'
  <1>1. /\ phase' = [phase EXCEPT ![c] = "published"] /\ phase[c] = "committed"
        /\ events' = events \cup (IF request[c].reason = "OPENING"
                                  THEN {ProductCreated(request[c])} ELSE StockUpdated(c))
        /\ UNCHANGED <<inventoryVars, request, number, staged, report, outcome, lockVars, crashes>>
    BY DEF Publish, Step
  <1>2. request[c] \in Requests /\ IsPartial(staged[c])
    BY <1>1 DEF TransactionInv, CallTypeOK, CallInv, RequestInv, Done
  <1>3. StockUpdated(c) \subseteq Events
    BY <1>2 DEF StockUpdated, IsPartial, Events
  <1>4. request[c].reason = "OPENING" => ProductCreated(request[c]) \in Events
    <2>1. request[c].reason = "OPENING" => request[c] \in ProductRequests
      BY <1>2, RequestSorts DEF Requests
    <2> QED
      BY <2>1, RequestSorts DEF ProductCreated, Events
  <1>5. CallTypeOK'
    <2>1. events' \subseteq Events
      BY <1>1, <1>3, <1>4 DEF TransactionInv, CallTypeOK
    <2> QED
      BY <1>1, <2>1 DEF TransactionInv, CallTypeOK, Phases, lockVars, IsPartial
  <1>6. CallInv(c)'
    <2>1. phase'[c] = "published" /\ CallInv(c)
      BY <1>1 DEF TransactionInv, CallTypeOK
    <2> QED
      BY <1>1, <2>1
         DEF CallInv, RequestInv, FreshInv, StagedInv, WaitingInv, NumberInv, Working, Done
  <1> QED
    BY <1>1, <1>5, <1>6, LocalStep DEF TransactionInv, CallTypeOK, lockVars

LEMMA AnswerStep ==
    ASSUME TransactionInv, NEW c \in Calls, Answer(c)
    PROVE  TransactionInv'
  <1>1. /\ phase' = [phase EXCEPT ![c] = "answered"] /\ phase[c] = "published"
        /\ outcome' = [outcome EXCEPT ![c] = "ok"]
        /\ events' = IF IsInvoice(request[c]) THEN events \cup {InvoiceCreated(c)} ELSE events
        /\ UNCHANGED <<inventoryVars, request, number, staged, report, lockVars, crashes>>
    BY DEF Answer, Step
  <1>2. IsInvoice(request[c]) => InvoiceCreated(c) \in Events
    <2>1. request[c] \in Requests /\ (IsInvoice(request[c]) => number[c] \in Nat \ {0})
      BY <1>1 DEF TransactionInv, CallTypeOK, CallInv, RequestInv, NumberInv, Done
    <2>2. IsInvoice(request[c]) => request[c] \in InvoiceRequests
      BY <2>1, RequestSorts DEF Requests
    <2> QED
      BY <2>1, <2>2, InvoiceRequestType DEF InvoiceCreated, InvoiceOf, InvoiceIds, Events
  <1>3. CallTypeOK'
    <2>1. events' \subseteq Events
      BY <1>1, <1>2 DEF TransactionInv, CallTypeOK
    <2>2. phase' \in [Calls -> Phases] /\ outcome' \in [Calls -> Outcomes]
      BY <1>1 DEF TransactionInv, CallTypeOK, Phases, Outcomes
    <2> QED
      BY <1>1, <2>1, <2>2 DEF TransactionInv, CallTypeOK, lockVars, IsPartial
  <1>4. CallInv(c)'
    <2>1. phase'[c] = "answered"
      BY <1>1 DEF TransactionInv, CallTypeOK
    <2> QED
      BY <2>1 DEF CallInv, RequestInv, FreshInv, StagedInv, WaitingInv, NumberInv, Working, Done
  <1> QED
    BY <1>1, <1>3, <1>4, LocalStep DEF TransactionInv, CallTypeOK, lockVars

LEMMA LoseAcknowledgementStep ==
    ASSUME TransactionInv, NEW c \in Calls, LoseAcknowledgement(c)
    PROVE  TransactionInv'
  <1>1. /\ phase' = [phase EXCEPT ![c] = "answered"] /\ phase[c] = "committed"
        /\ outcome' = [outcome EXCEPT ![c] = "error"]
        /\ UNCHANGED <<inventoryVars, request, number, staged, report, lockVars, events, crashes>>
    BY DEF LoseAcknowledgement, Step
  <1>2. CallTypeOK'
    <2>1. phase' \in [Calls -> Phases] /\ outcome' \in [Calls -> Outcomes]
      BY <1>1 DEF TransactionInv, CallTypeOK, Phases, Outcomes
    <2> QED
      BY <1>1, <2>1 DEF TransactionInv, CallTypeOK, lockVars, IsPartial
  <1>3. CallInv(c)'
    <2>1. phase'[c] = "answered"
      BY <1>1 DEF TransactionInv, CallTypeOK
    <2> QED
      BY <2>1 DEF CallInv, RequestInv, FreshInv, StagedInv, WaitingInv, NumberInv, Working, Done
  <1> QED
    BY <1>1, <1>2, <1>3, LocalStep DEF TransactionInv, CallTypeOK, lockVars

LEMMA CrashStep ==
    ASSUME TransactionInv, Crash
    PROVE  TransactionInv'
  <1>1. StockInv'
    BY SameInventory DEF TransactionInv, Crash
  <1>2. CallTypeOK'
    BY NothingPartial DEF Crash, TransactionInv, CallTypeOK, Phases, IsPartial
  <1>3. ASSUME NEW d \in Calls PROVE CallInv(d)'
    <2>1. /\ phase'[d] \in {"idle", "answered", "lost"}
          /\ phase'[d] = "idle" => phase[d] = "idle" /\ staged'[d] = staged[d]
          /\ report' = report
      BY DEF Crash, TransactionInv, CallTypeOK, InTransaction
    <2>2. CallInv(d)
      BY DEF TransactionInv
    <2> QED
      BY <2>1, <2>2 DEF CallInv, RequestInv, FreshInv, StagedInv, WaitingInv, NumberInv, Working, Done
  <1> QED
    BY <1>1, <1>2, <1>3 DEF TransactionInv

(***************************************************************************)
(* The steps that change the committed tables, and what they implement.    *)
(***************************************************************************)
LEMMA CommitFits ==
    ASSUME TransactionInv, NEW c \in Calls, Commit(c)
    PROVE  /\ request[c] \in StockRequests
           /\ DOMAIN staged[c] = DOMAIN request[c].lines
           /\ DOMAIN request[c].lines \subseteq Products
           /\ Fits(request[c])
           /\ \A p \in DOMAIN request[c].lines :
                rowLock[p] = c /\ staged[c][p] = AfterAll(request[c])[p]
           /\ Move(request[c], AfterAll(request[c]), InvoiceOf(c))
  <1> DEFINE r == request[c]
  <1>1. /\ phase[c] = "moving" /\ Remaining(c) = {} /\ DOMAIN report[c] = {}
        /\ Move(r, staged[c], InvoiceOf(c))
    BY DEF Commit, Step
  <1>2. r \in StockRequests
    BY <1>1 DEF TransactionInv, CallInv, RequestInv, Working
  <1>3. DOMAIN r.lines \subseteq Products
    BY <1>2, RequestType
  <1>4. \A p \in DOMAIN staged[c] :
          /\ p \in DOMAIN r.lines /\ p \in products /\ rowLock[p] = c /\ Fitting(c, p)
          /\ staged[c][p] = Changed(MovementType(r), r.lines[p], quantity[p])
    BY <1>1 DEF TransactionInv, CallInv, StagedInv, Working
  <1>5. DOMAIN staged[c] = DOMAIN r.lines
    BY <1>1, <1>4 DEF Remaining
  <1>6. Fits(r)
    BY <1>4, <1>5 DEF Fits, Fitting
  <1>7. \A p \in DOMAIN r.lines : staged[c][p] = AfterAll(r)[p]
    BY <1>4, <1>5 DEF AfterAll
  <1>8. Move(r, AfterAll(r), InvoiceOf(c))
    BY <1>1, <1>7 DEF Move
  <1> QED
    BY <1>2, <1>3, <1>4, <1>5, <1>6, <1>7, <1>8

LEMMA CommitImplements ==
    ASSUME TransactionInv, NEW c \in Calls, Commit(c)
    PROVE  InventoryNext
  <1> DEFINE r == request[c]
  <1>1. CASE IsInvoice(r)
    <2>1. r \in InvoiceRequests /\ InvoiceOf(c) = <<SequenceKey(r), number[c]>>
      BY <1>1, CommitFits, RequestSorts DEF InvoiceOf
    <2>2. number[c] = lastNumber[SequenceKey(r)] + 1
      BY <1>1 DEF TransactionInv, CallInv, NumberInv, Commit, Step, Working
    <2>3. Number(r, number[c]) /\ UNCHANGED products
      BY <1>1 DEF Commit
    <2>4. Issue(r)
      BY <2>1, <2>2, <2>3, CommitFits DEF Issue
    <2> QED
      BY <2>1, <2>4 DEF InventoryNext
  <1>2. CASE ~IsInvoice(r)
    <2>1. r \in Adjustments /\ InvoiceOf(c) = NoInvoice
      BY <1>2, CommitFits, RequestSorts DEF InvoiceOf
    <2>2. UNCHANGED <<products, invoices, lastNumber>>
      BY <1>2 DEF Commit
    <2>3. Adjust(r)
      BY <2>1, <2>2, CommitFits DEF Adjust
    <2> QED
      BY <2>1, <2>3 DEF InventoryNext
  <1> QED
    BY <1>1, <1>2

LEMMA CreateImplements ==
    ASSUME TransactionInv, NEW c \in Calls, CreateProduct(c)
    PROVE  InventoryNext /\ \A p \in products : quantity'[p] = quantity[p]
  <1> DEFINE r == request[c]
  <1>1. r \in ProductRequests /\ r.quantity <= StockMax /\ Open(r.product, r.quantity)
    BY DEF CreateProduct, Step, TransactionInv, CallInv, RequestInv
  <1>2. r.product \in Products /\ r.quantity \in 0..StockMax
    BY <1>1, RequestSorts, StockAssumption
  <1>3. \A p \in products : quantity'[p] = quantity[p]
    BY <1>1 DEF Open, TransactionInv, StockInv, InventoryTypeOK
  <1> QED
    BY <1>1, <1>2, <1>3 DEF InventoryNext

LEMMA CommitStep ==
    ASSUME TransactionInv, NEW c \in Calls, Commit(c)
    PROVE  TransactionInv'
  <1> DEFINE r == request[c]
  <1>1. StockInv'
    BY CommitImplements, StockStep DEF TransactionInv
  <1>2. /\ phase' = [phase EXCEPT ![c] = "committed"] /\ phase[c] = "moving"
        /\ ReleaseLocks(c)
        /\ UNCHANGED <<products, request, number, staged, report, outcome, events, crashes>>
    BY DEF Commit, Step
  <1>3. CallTypeOK'
    BY <1>2, ReleaseOwn DEF TransactionInv, CallTypeOK, Phases, IsPartial
  <1>4. ASSUME NEW d \in Calls, d # c PROVE CallInv(d)'
    <2>1. CallInv(d) /\ DOMAIN staged[d] \subseteq Products /\ phase'[d] = phase[d]
      BY <1>2, <1>4 DEF TransactionInv, CallTypeOK, IsPartial
    <2>2. ASSUME NEW p \in DOMAIN staged[d], rowLock[p] = d
          PROVE  rowLock'[p] = d /\ quantity'[p] = quantity[p]
      <3>1. p \notin DOMAIN r.lines
        BY <1>4, <2>2, CommitFits
      <3> QED
        BY <1>2, <1>4, <2>1, <2>2, <3>1, CommitFits, ReleaseOwn DEF TransactionInv, Move
    <2>3. ASSUME phase[d] \in Working, IsInvoice(request[d]), seqLock[SequenceKey(request[d])] = d
          PROVE  /\ seqLock'[SequenceKey(request[d])] = d
                 /\ lastNumber'[SequenceKey(request[d])] = lastNumber[SequenceKey(request[d])]
      <3> DEFINE k == SequenceKey(request[d])
      <3>1. k \in SequenceKeys
        BY <2>1, <2>3, SequenceKeyTyped DEF CallInv
      <3>2. seqLock'[k] = d
        BY <3>1, <1>2, <1>4, <2>3, ReleaseOwn DEF TransactionInv
      <3>3. CASE IsInvoice(r)
        <4>1. seqLock[SequenceKey(r)] = c
          BY <3>3, <1>2 DEF TransactionInv, CallInv, NumberInv, Working
        <4>2. lastNumber' = [lastNumber EXCEPT ![SequenceKey(r)] = number[c]]
          BY <3>3 DEF Commit, Number
        <4> QED
          BY <3>1, <3>2, <4>1, <4>2, <1>4, <2>3 DEF TransactionInv, StockInv, InventoryTypeOK
      <3>4. CASE ~IsInvoice(r)
        BY <3>2, <3>4 DEF Commit
      <3> QED
        BY <3>3, <3>4
    <2> QED
      BY <1>2, <2>1, <2>2, <2>3, OtherCall
  <1>5. CallInv(c)'
    <2>1. phase'[c] = "committed" /\ CallInv(c) /\ r \in StockRequests
      BY <1>2, CommitFits DEF TransactionInv, CallTypeOK
    <2>2. RequestInv(c)' /\ FreshInv(c)' /\ StagedInv(c)' /\ WaitingInv(c)'
      BY <1>2, <2>1, RequestSorts DEF RequestInv, FreshInv, StagedInv, WaitingInv, Working, Done
    <2>3. IsInvoice(r) => number[c] # 0
      <3>1. IsInvoice(r) => r \in InvoiceRequests /\ number[c] = lastNumber[SequenceKey(r)] + 1
        BY <1>2, <2>1, RequestSorts DEF CallInv, NumberInv, Working
      <3>2. IsInvoice(r) => lastNumber[SequenceKey(r)] \in Nat
        BY <3>1, InvoiceRequestType DEF TransactionInv, StockInv, InventoryTypeOK
      <3> QED
        BY <3>1, <3>2
    <2> QED
      BY <1>2, <2>1, <2>2, <2>3 DEF CallInv, NumberInv, Working, Done
  <1> QED
    BY <1>1, <1>3, <1>4, <1>5 DEF TransactionInv

LEMMA CreateStep ==
    ASSUME TransactionInv, NEW c \in Calls, CreateProduct(c)
    PROVE  TransactionInv'
  <1>1. StockInv'
    BY CreateImplements, StockStep DEF TransactionInv
  <1>2. /\ phase' = [phase EXCEPT ![c] = "committed"] /\ phase[c] = "opening"
        /\ products \subseteq products' /\ lastNumber' = lastNumber
        /\ UNCHANGED <<request, number, staged, report, outcome, lockVars, events, crashes>>
    BY DEF CreateProduct, Step, Open
  <1>3. CallTypeOK'
    BY <1>2 DEF TransactionInv, CallTypeOK, Phases, IsPartial, lockVars
  <1>4. ASSUME NEW d \in Calls, d # c PROVE CallInv(d)'
    <2>1. CallInv(d) /\ phase'[d] = phase[d]
      BY <1>2, <1>4 DEF TransactionInv, CallTypeOK
    <2> QED
      BY <1>2, <2>1, CreateImplements, OtherCall DEF lockVars
  <1>5. CallInv(c)'
    <2>1. phase'[c] = "committed" /\ request[c] \in ProductRequests
      BY <1>2 DEF TransactionInv, CallTypeOK, CallInv, RequestInv
    <2> QED
      BY <1>2, <2>1, RequestSorts
         DEF CallInv, RequestInv, FreshInv, StagedInv, WaitingInv, NumberInv, Working, Done, Requests
  <1> QED
    BY <1>1, <1>3, <1>4, <1>5 DEF TransactionInv

LEMMA TransactionStep == TransactionInv /\ [Next]_vars => TransactionInv'
  <1> SUFFICES ASSUME TransactionInv, [Next]_vars PROVE TransactionInv'
    OBVIOUS
  <1>1. ASSUME NEW c \in Calls, Receive(c) PROVE TransactionInv'
    BY <1>1, ReceiveStep
  <1>2. ASSUME NEW c \in Calls,
               MissProducts(c) \/ RejectInvoice(c) \/ ReportShortages(c) \/ RefuseProduct(c) \/ Timeout(c)
        PROVE  TransactionInv'
    <2>1. {"not found", "bad request", "shortage", "conflict", "error", "timeout"} \subseteq Outcomes
      BY DEF Outcomes
    <2>2. UNCHANGED report /\ \E result \in Outcomes : RollBack(c, result)
      BY <1>2, <2>1
         DEF MissProducts, RejectInvoice, ReportShortages, RefuseProduct, Timeout
    <2> QED
      BY <2>2, RollBackStep
  <1>3. ASSUME NEW c \in Calls, LoadProducts(c) PROVE TransactionInv'
    BY <1>3, LoadStep
  <1>4. ASSUME NEW c \in Calls, TakeNumber(c) PROVE TransactionInv'
    BY <1>4, TakeNumberStep
  <1>5. ASSUME NEW c \in Calls, BeginUpdate(c) PROVE TransactionInv'
    BY <1>5, BeginUpdateStep
  <1>6. ASSUME NEW c \in Calls, FinishUpdate(c) PROVE TransactionInv'
    BY <1>6, FinishUpdateStep
  <1>7. ASSUME NEW c \in Calls, Explain(c) PROVE TransactionInv'
    BY <1>7, ExplainStep
  <1>8. ASSUME NEW c \in Calls, Commit(c) PROVE TransactionInv'
    BY <1>8, CommitStep
  <1>9. ASSUME NEW c \in Calls, CreateProduct(c) PROVE TransactionInv'
    BY <1>9, CreateStep
  <1>10. ASSUME NEW c \in Calls, Publish(c) PROVE TransactionInv'
    BY <1>10, PublishStep
  <1>11. ASSUME NEW c \in Calls, Answer(c) PROVE TransactionInv'
    BY <1>11, AnswerStep
  <1>12. ASSUME Crash PROVE TransactionInv'
    BY <1>12, CrashStep
  <1>14. ASSUME NEW c \in Calls, LoseAcknowledgement(c) PROVE TransactionInv'
    BY <1>14, LoseAcknowledgementStep
  <1>13. CASE UNCHANGED vars
    <2>1. StockInv'
      BY <1>13, SameInventory DEF TransactionInv, vars
    <2>2. UNCHANGED <<inventoryVars, callVars, lockVars, events, crashes>>
      BY <1>13 DEF vars
    <2>3. CallTypeOK'
      BY <2>2 DEF TransactionInv, CallTypeOK, callVars, lockVars
    <2>4. ASSUME NEW d \in Calls PROVE CallInv(d)'
      BY <2>2, OtherCall DEF TransactionInv, inventoryVars, callVars, lockVars
    <2> QED
      BY <2>1, <2>3, <2>4 DEF TransactionInv
  <1> QED
    BY <1>1, <1>2, <1>3, <1>4, <1>5, <1>6, <1>7, <1>8, <1>9, <1>10, <1>11, <1>12, <1>13,
       <1>14
       DEF Next, Proceed, Over

LEMMA StepImplements ==
    ASSUME TransactionInv, [Next]_vars
    PROVE  [InventoryNext]_inventoryVars
  <1>1. ASSUME NEW c \in Calls, Commit(c) \/ CreateProduct(c) PROVE InventoryNext
    BY <1>1, CommitImplements, CreateImplements
  <1>2. ASSUME NEW c \in Calls,
               Receive(c) \/ LoadProducts(c) \/ TakeNumber(c) \/ BeginUpdate(c) \/ FinishUpdate(c)
                 \/ Publish(c) \/ Answer(c) \/ LoseAcknowledgement(c)
        PROVE  UNCHANGED inventoryVars
    BY <1>2 DEF Receive, LoadProducts, TakeNumber, BeginUpdate, FinishUpdate, Publish, Answer,
                LoseAcknowledgement
  <1>3. ASSUME NEW c \in Calls,
               MissProducts(c) \/ RejectInvoice(c) \/ ReportShortages(c) \/ RefuseProduct(c)
                 \/ Timeout(c) \/ Explain(c)
        PROVE  UNCHANGED inventoryVars
    BY <1>3 DEF MissProducts, RejectInvoice, ReportShortages, RefuseProduct, Timeout, Explain, RollBack
  <1>4. Crash \/ UNCHANGED vars => UNCHANGED inventoryVars
    BY DEF Crash, vars
  <1> QED
    BY <1>1, <1>2, <1>3, <1>4 DEF Next, Proceed, Over

-----------------------------------------------------------------------------
LEMMA Invariance == Spec => []TransactionInv
  BY TransactionInit, TransactionStep, PTL DEF Spec

\* Every variable keeps its type, whatever the calls do (schema.prisma, and the
\* states of InvoiceIssuerService.issue and StockMovementsService.record).
THEOREM TypeCorrect == Spec => []TypeOK
  <1>1. TransactionInv => TypeOK
    BY DEF TransactionInv, StockInv, CallTypeOK, TypeOK
  <1> QED
    BY <1>1, Invariance, PTL

\* The transactions implement the abstract inventory: each commit is one atomic
\* adjustment, invoice or new product that fits the committed stock of that
\* moment, and no other step changes a committed row (StockLedgerService,
\* InvoiceIssuerService, InvoiceNumberService, ProductsService.create).
THEOREM TransactionsImplement == Spec => InventorySpec
  <1>1. Init => InventoryInit
    BY DEF Init
  <1>2. TransactionInv /\ [Next]_vars => [InventoryNext]_inventoryVars
    BY StepImplements
  <1> QED
    BY <1>1, <1>2, Invariance, PTL DEF Spec, InventorySpec

\* Concurrent requests never oversell and never overflow the column
\* (StockLedgerService.changeQuantity, StockLedgerService.applyAll).
THEOREM StockIsSafe == Spec => []StockWithinColumn
  BY TransactionsImplement, StockIsExplained, PTL

\* Concurrent requests never lose an update: the rows of the ledger explain the
\* stock of every product (StockLedgerService.changeQuantity, .applyAll).
THEOREM NoUpdateIsLost == Spec => []LedgerExplainsStock
  BY TransactionsImplement, StockIsExplained, PTL

\* Invoice numbers have no gaps and no duplicates, whatever is rolled back
\* (InvoiceNumberService.next).
THEOREM NumbersAreSafe == Spec => []GapFreeNumbers
  BY TransactionsImplement, InvoicesAreSound, PTL

\* Every invoice has exactly its own movements: it is issued with all of them or
\* not at all (InvoiceIssuerService.issue).
THEOREM InvoicesAreSafe == Spec => []InvoiceAllOrNothing
  BY TransactionsImplement, InvoicesAreSound, PTL

(***************************************************************************)
(* The order in which locks are taken.                                     *)
(***************************************************************************)
\* Only a working transaction holds locks, and the rows it has locked are
\* those of the lines it has dealt with, which come before those that remain.
OrderInv(c) ==
    /\ phase[c] \notin Working =>
         (\A p \in Products : rowLock[p] # c) /\ (\A k \in SequenceKeys : seqLock[k] # c)
    /\ phase[c] \in Working => \A q \in Products :
         rowLock[q] = c =>
            q \in DOMAIN staged[c] \cup DOMAIN report[c] \/ (phase[c] = "explaining" /\ IsNext(c, q))
    /\ phase[c] \in Working =>
         \A q \in DOMAIN staged[c] \cup DOMAIN report[c] : \A p \in Remaining(c) : q < p

LocksInv == TransactionInv /\ \A c \in Calls : OrderInv(c)

LEMMA OtherOrder ==
    ASSUME NEW d \in Calls, OrderInv(d), phase'[d] = phase[d], request'[d] = request[d],
           staged'[d] = staged[d], report'[d] = report[d],
           \A p \in Products : rowLock'[p] = d => rowLock[p] = d,
           \A k \in SequenceKeys : seqLock'[k] = d => seqLock[k] = d
    PROVE  OrderInv(d)'
  BY DEF OrderInv, IsNext, Remaining

LEMMA ReleaseAll ==
    ASSUME CallTypeOK, NEW c \in Calls, ReleaseLocks(c)
    PROVE  /\ \A p \in Products : rowLock'[p] # c
           /\ \A k \in SequenceKeys : seqLock'[k] # c
           /\ \A d \in Calls :
                /\ \A p \in Products : rowLock'[p] = d => rowLock[p] = d
                /\ \A k \in SequenceKeys : seqLock'[k] = d => seqLock[k] = d
  BY CallsAssumption DEF CallTypeOK, ReleaseLocks

\* A step that ends a transaction, or that is none of its own.
LEMMA EndOrder ==
    ASSUME LocksInv, NEW c \in Calls, ReleaseLocks(c),
           phase'[c] \notin Working, UNCHANGED request,
           \A d \in Calls \ {c} : phase'[d] = phase[d] /\ staged'[d] = staged[d] /\ report'[d] = report[d]
    PROVE  \A d \in Calls : OrderInv(d)'
  <1>1. OrderInv(c)'
    BY ReleaseAll DEF LocksInv, TransactionInv, OrderInv
  <1>2. ASSUME NEW d \in Calls, d # c PROVE OrderInv(d)'
    BY <1>2, OtherOrder, ReleaseAll DEF LocksInv, TransactionInv
  <1> QED
    BY <1>1, <1>2

LEMMA RollBackOrder ==
    ASSUME LocksInv, NEW c \in Calls, NEW result, RollBack(c, result),
           \A d \in Calls \ {c} : report'[d] = report[d]
    PROVE  \A d \in Calls : OrderInv(d)'
  <1>1. phase'[c] = "answered"
    BY DEF RollBack, LocksInv, TransactionInv, CallTypeOK
  <1>2. \A d \in Calls \ {c} : phase'[d] = phase[d] /\ staged'[d] = staged[d]
    BY DEF RollBack, LocksInv, TransactionInv, CallTypeOK
  <1>3. ReleaseLocks(c) /\ UNCHANGED request
    BY DEF RollBack
  <1> QED
    BY <1>1, <1>2, <1>3, EndOrder DEF Working

\* A step between two phases that hold no locks, or two that hold the same.
LEMMA SameLocksOrder ==
    ASSUME LocksInv, NEW c \in Calls, UNCHANGED <<lockVars, staged, report>>,
           \A d \in Calls \ {c} : phase'[d] = phase[d] /\ request'[d] = request[d],
           \/ phase[c] \notin Working /\ phase'[c] \notin Working
           \/ phase[c] \in Working \ {"explaining"} /\ phase'[c] \in Working /\ request'[c] = request[c]
           \/ phase[c] = "idle"
    PROVE  \A d \in Calls : OrderInv(d)'
  <1>1. OrderInv(c)'
    <2>1. OrderInv(c) /\ FreshInv(c)
      BY DEF LocksInv, TransactionInv, CallInv
    <2>2. CASE phase[c] \notin Working /\ phase'[c] \notin Working
      BY <2>1, <2>2 DEF OrderInv, lockVars
    <2>3. CASE phase[c] \in Working \ {"explaining"} /\ phase'[c] \in Working /\ request'[c] = request[c]
      BY <2>1, <2>3 DEF OrderInv, lockVars, IsNext, Remaining
    <2>4. CASE phase[c] = "idle"
      BY <2>1, <2>4, NothingPartial DEF OrderInv, FreshInv, lockVars, Working
    <2> QED
      BY <2>2, <2>3, <2>4
  <1>2. ASSUME NEW d \in Calls, d # c PROVE OrderInv(d)'
    BY <1>2, OtherOrder DEF LocksInv, lockVars
  <1> QED
    BY <1>1, <1>2

LEMMA TakeNumberOrder ==
    ASSUME LocksInv, NEW c \in Calls, TakeNumber(c)
    PROVE  \A d \in Calls : OrderInv(d)'
  <1> DEFINE k == SequenceKey(request[c])
  <1>1. /\ phase' = [phase EXCEPT ![c] = "moving"] /\ phase[c] = "numbering"
        /\ seqLock' = [seqLock EXCEPT ![k] = c]
        /\ UNCHANGED <<request, staged, report, rowLock>>
    BY DEF TakeNumber, Step
  <1>2. phase'[c] = "moving" /\ staged[c] = Nothing /\ report[c] = Nothing
    BY <1>1 DEF LocksInv, TransactionInv, CallTypeOK, CallInv, FreshInv
  <1>3. \A p \in Products : rowLock[p] # c
    BY <1>1 DEF LocksInv, OrderInv, Working
  <1>4. OrderInv(c)'
    BY <1>1, <1>2, <1>3, NothingPartial DEF OrderInv, Working
  <1>5. ASSUME NEW d \in Calls, d # c PROVE OrderInv(d)'
    <2>1. \A j \in SequenceKeys : seqLock'[j] = d => seqLock[j] = d
      BY <1>1, <1>5 DEF LocksInv, TransactionInv, CallTypeOK
    <2> QED
      BY <1>1, <1>5, <2>1, OtherOrder DEF LocksInv, TransactionInv, CallTypeOK
  <1> QED
    BY <1>4, <1>5

\* Ids are numbers: dealing with the smallest that remains keeps the order.
LEMMA NextIsSmallest ==
    ASSUME LocksInv, NEW c \in Calls, phase[c] \in Working, NEW p, IsNext(c, p),
           NEW q \in Remaining(c), q # p
    PROVE  p < q
  <1>1. request[c] \in StockRequests
    BY DEF LocksInv, TransactionInv, CallInv, RequestInv
  <1>2. p \in Nat /\ q \in Nat
    BY <1>1, RequestType, StockAssumption DEF IsNext, Remaining
  <1> QED
    BY <1>2 DEF IsNext

LEMMA FinishUpdateOrder ==
    ASSUME LocksInv, NEW c \in Calls, FinishUpdate(c)
    PROVE  \A d \in Calls : OrderInv(d)'
  <1>1. PICK p \in Products :
          /\ IsNext(c, p) /\ phase[c] = "waiting"
          /\ phase' = [phase EXCEPT ![c] = IF FitsStill(c, p) THEN "moving" ELSE "explaining"]
          /\ rowLock' = [rowLock EXCEPT ![p] = c]
          /\ staged' = IF FitsStill(c, p)
                       THEN [staged EXCEPT ![c] =
                               With(staged[c], p, Changed(MovementType(request[c]),
                                                          request[c].lines[p], quantity[p]))]
                       ELSE staged
          /\ UNCHANGED <<request, report, seqLock>>
    BY DEF FinishUpdate, Step, LocksInv, TransactionInv, CallTypeOK
  <1>2. /\ phase'[c] = (IF FitsStill(c, p) THEN "moving" ELSE "explaining")
        /\ \A q \in Products : rowLock'[q] = (IF q = p THEN c ELSE rowLock[q])
        /\ OrderInv(c) /\ phase[c] \in Working
    BY <1>1 DEF LocksInv, TransactionInv, CallTypeOK, Working
  <1>3. ASSUME FitsStill(c, p) PROVE OrderInv(c)'
    <2>1. DOMAIN staged'[c] = DOMAIN staged[c] \cup {p}
      <3>1. IsPartial(staged[c]) /\ staged'[c] = With(staged[c], p, Changed(MovementType(request[c]),
                                                          request[c].lines[p], quantity[p]))
        BY <1>1, <1>3 DEF LocksInv, TransactionInv, CallTypeOK
      <3> QED
        BY <3>1 DEF With
    <2>2. Remaining(c)' = Remaining(c) \ {p}
      BY <1>1, <2>1 DEF Remaining
    <2>3. \A q \in Remaining(c)' : p < q
      BY <1>1, <1>2, <2>2, NextIsSmallest
    <2>4. \A q \in Products : rowLock'[q] = c =>
            q \in DOMAIN staged'[c] \cup DOMAIN report'[c]
      BY <1>1, <1>2, <2>1 DEF OrderInv
    <2>5. ASSUME NEW q \in DOMAIN staged'[c] \cup DOMAIN report'[c], NEW r \in Remaining(c)'
          PROVE  q < r
      <3>1. CASE q = p
        BY <2>3, <3>1
      <3>2. CASE q # p
        BY <1>1, <1>2, <2>1, <2>2, <3>2 DEF OrderInv
      <3> QED
        BY <3>1, <3>2
    <2>6. phase'[c] = "moving"
      BY <1>2, <1>3
    <2> QED
      BY <2>4, <2>5, <2>6 DEF OrderInv, Working
  <1>4. ASSUME ~FitsStill(c, p) PROVE OrderInv(c)'
    <2>1. staged' = staged /\ Remaining(c)' = Remaining(c) /\ (IsNext(c, p))'
      BY <1>1, <1>4 DEF Remaining, IsNext
    <2> QED
      <3>1. phase'[c] = "explaining" /\ report' = report
        BY <1>1, <1>2, <1>4
      <3>2. \A q \in Products : rowLock'[q] = c =>
              q \in DOMAIN staged'[c] \cup DOMAIN report'[c] \/ q = p
        BY <1>1, <1>2, <2>1 DEF OrderInv
      <3>3. \A q \in DOMAIN staged'[c] \cup DOMAIN report'[c] : \A r \in Remaining(c)' : q < r
        BY <1>2, <2>1, <3>1 DEF OrderInv
      <3> QED
        BY <2>1, <3>1, <3>2, <3>3 DEF OrderInv, Working
  <1>5. ASSUME NEW d \in Calls, d # c PROVE OrderInv(d)'
    BY <1>1, <1>2, <1>5, OtherOrder DEF LocksInv, TransactionInv, CallTypeOK
  <1>6. OrderInv(c)'
    BY <1>3, <1>4
  <1> QED
    BY <1>5, <1>6

LEMMA ExplainOrder ==
    ASSUME LocksInv, NEW c \in Calls, Explain(c)
    PROVE  \A d \in Calls : OrderInv(d)'
  <1>1. PICK p \in Products : phase[c] = "explaining" /\ IsNext(c, p) /\
          LET short == With(report[c], p, quantity[p])
          IN  \/ /\ Step(c, "explaining", "moving")
                 /\ report' = [report EXCEPT ![c] = short]
                 /\ UNCHANGED <<inventoryVars, request, number, staged, outcome, lockVars, events, crashes>>
              \/ RollBack(c, "shortage") /\ report' = [report EXCEPT ![c] = short]
              \/ RollBack(c, "limit") /\ UNCHANGED report
              \/ RollBack(c, "not found") /\ UNCHANGED report
    BY DEF Explain
  <1> DEFINE short == With(report[c], p, quantity[p])
  <1>2. CASE /\ Step(c, "explaining", "moving")
             /\ report' = [report EXCEPT ![c] = short]
             /\ UNCHANGED <<request, staged, lockVars>>
    <2>1. /\ phase'[c] = "moving" /\ report'[c] = short
          /\ \A d \in Calls \ {c} : phase'[d] = phase[d] /\ report'[d] = report[d]
      BY <1>2 DEF Step, LocksInv, TransactionInv, CallTypeOK
    <2>2. DOMAIN report'[c] = DOMAIN report[c] \cup {p}
      BY <2>1 DEF With
    <2>3. Remaining(c)' = Remaining(c) \ {p}
      BY <1>2, <2>2 DEF Remaining
    <2>4. \A q \in Remaining(c)' : p < q
      BY <1>1, <2>3, NextIsSmallest DEF Working
    <2>5. \A q \in Products : IsNext(c, q) => q = p
      <3>1. \A q \in Remaining(c) : q # p => p < q
        BY <1>1, NextIsSmallest DEF Working
      <3>2. Remaining(c) \subseteq Nat
        BY <1>1, RequestType, StockAssumption
           DEF LocksInv, TransactionInv, CallInv, RequestInv, Working, Remaining
      <3>3. ASSUME NEW q \in Products, IsNext(c, q), q # p PROVE FALSE
        <4>1. p < q /\ q <= p /\ p \in Nat /\ q \in Nat
          BY <1>1, <3>1, <3>2, <3>3 DEF IsNext
        <4> QED
          BY <4>1
      <3> QED
        BY <3>3
    <2>6. OrderInv(c)'
      BY <1>1, <1>2, <2>1, <2>2, <2>3, <2>4, <2>5 DEF LocksInv, OrderInv, Working, lockVars
    <2>7. ASSUME NEW d \in Calls, d # c PROVE OrderInv(d)'
      BY <1>2, <2>1, <2>7, OtherOrder DEF LocksInv, lockVars
    <2> QED
      BY <2>6, <2>7
  <1>3. CASE \E result : RollBack(c, result) /\ (UNCHANGED report \/ report' = [report EXCEPT ![c] = short])
    <2>1. \A d \in Calls \ {c} : report'[d] = report[d]
      BY <1>3 DEF LocksInv, TransactionInv, CallTypeOK
    <2> QED
      BY <1>3, <2>1, RollBackOrder
  <1> QED
    BY <1>1, <1>2, <1>3

LEMMA OrderStep == LocksInv /\ [Next]_vars => LocksInv'
  <1> SUFFICES ASSUME LocksInv, [Next]_vars PROVE \A d \in Calls : OrderInv(d)'
    BY TransactionStep DEF LocksInv
  <1> USE DEF Step
  <1>0. phase \in [Calls -> Phases] /\ request \in [Calls -> Requests \cup {NoRequest}]
    BY DEF LocksInv, TransactionInv, CallTypeOK
  <1>1. ASSUME NEW c \in Calls, Receive(c) PROVE \A d \in Calls : OrderInv(d)'
    BY <1>0, <1>1, SameLocksOrder DEF Receive
  <1>2. ASSUME NEW c \in Calls,
               LoadProducts(c) \/ Publish(c) \/ Answer(c) \/ LoseAcknowledgement(c) \/ CreateProduct(c)
        PROVE  \A d \in Calls : OrderInv(d)'
    BY <1>0, <1>2, SameLocksOrder
       DEF LoadProducts, Publish, Answer, LoseAcknowledgement, CreateProduct, Working
  <1>3. ASSUME NEW c \in Calls, BeginUpdate(c) PROVE \A d \in Calls : OrderInv(d)'
    BY <1>0, <1>3, SameLocksOrder DEF BeginUpdate, Working
  <1>4. ASSUME NEW c \in Calls, Commit(c) PROVE \A d \in Calls : OrderInv(d)'
    BY <1>0, <1>4, EndOrder DEF Commit, Working
  <1>5. ASSUME NEW c \in Calls,
               MissProducts(c) \/ RejectInvoice(c) \/ ReportShortages(c) \/ RefuseProduct(c) \/ Timeout(c)
        PROVE  \A d \in Calls : OrderInv(d)'
    <2>1. UNCHANGED report /\ \E result : RollBack(c, result)
      BY <1>5 DEF MissProducts, RejectInvoice, ReportShortages, RefuseProduct, Timeout
    <2> QED
      BY <2>1, RollBackOrder
  <1>6. ASSUME Crash PROVE \A d \in Calls : OrderInv(d)'
    <2>1. /\ \A d \in Calls : phase'[d] \notin Working
          /\ \A p \in Products : rowLock'[p] = NoCall
          /\ \A k \in SequenceKeys : seqLock'[k] = NoCall
      BY <1>0, <1>6 DEF Crash, InTransaction, Working
    <2> QED
      BY <2>1, CallsAssumption DEF OrderInv
  <1>7. CASE UNCHANGED vars
    BY <1>7, OtherOrder DEF LocksInv, vars, callVars, lockVars
  <1> QED
    BY <1>1, <1>2, <1>3, <1>4, <1>5, <1>6, <1>7, TakeNumberOrder, FinishUpdateOrder, ExplainOrder
       DEF Next, Proceed, Over

LEMMA OrderInit == Init => LocksInv
  <1> SUFFICES ASSUME Init PROVE \A c \in Calls : OrderInv(c)
    BY TransactionInit DEF LocksInv
  <1> QED
    BY CallsAssumption DEF Init, OrderInv, Working

\* No transaction waits for a row that comes before one it has locked, and none
\* holds anything while it waits for its sequence row (InvoiceIssuerService).
THEOREM LocksAlwaysClimb == Spec => []LocksClimb
  <1>1. Spec => []LocksInv
    BY OrderInit, OrderStep, PTL DEF Spec
  <1>2. LocksInv => LocksClimb
    BY DEF LocksInv, OrderInv, LocksClimb, Working, IsNext
  <1> QED
    BY <1>1, <1>2, PTL

(***************************************************************************)
(* No circle of waiting calls: along a chain of waiting calls the rows     *)
(* they wait for climb, and among the rows that are locked there is always *)
(* a largest.                                                              *)
(***************************************************************************)
LocksBounded == \E b \in Nat : \A p \in Products : rowLock[p] # NoCall => p <= b

LEMMA BoundedStep == LocksInv /\ LocksBounded /\ [Next]_vars => LocksBounded'
  <1> SUFFICES ASSUME LocksInv, LocksBounded, [Next]_vars PROVE LocksBounded'
    OBVIOUS
  <1>0. CallTypeOK /\ NoCall \notin Calls
    BY CallsAssumption DEF LocksInv, TransactionInv
  <1>1. ASSUME NEW c \in Calls, ReleaseLocks(c) PROVE LocksBounded'
    BY <1>0, <1>1 DEF ReleaseLocks, LocksBounded
  <1>2. ASSUME UNCHANGED rowLock PROVE LocksBounded'
    BY <1>2 DEF LocksBounded
  <1>3. ASSUME NEW c \in Calls, FinishUpdate(c) PROVE LocksBounded'
    <2>1. PICK p \in Products : rowLock' = [rowLock EXCEPT ![p] = c]
      BY <1>3 DEF FinishUpdate
    <2>2. PICK b \in Nat : \A q \in Products : rowLock[q] # NoCall => q <= b
      BY DEF LocksBounded
    <2>3. p \in Nat /\ Products \subseteq Nat
      BY StockAssumption
    <2> DEFINE top == IF p <= b THEN b ELSE p
    <2>4. top \in Nat /\ \A q \in Products : rowLock'[q] # NoCall => q <= top
      BY <1>0, <2>1, <2>2, <2>3 DEF CallTypeOK
    <2> QED
      BY <2>4 DEF LocksBounded
  <1>4. ASSUME Crash PROVE LocksBounded'
    <2>1. 0 \in Nat /\ \A p \in Products : rowLock'[p] = NoCall
      BY <1>4 DEF Crash
    <2> QED
      BY <2>1 DEF LocksBounded
  <1>5. ASSUME NEW c \in Calls,
               MissProducts(c) \/ RejectInvoice(c) \/ ReportShortages(c) \/ RefuseProduct(c)
                 \/ Timeout(c) \/ Commit(c)
        PROVE  ReleaseLocks(c)
    BY <1>5 DEF MissProducts, RejectInvoice, ReportShortages, RefuseProduct, Timeout, RollBack, Commit
  <1>6. ASSUME NEW c \in Calls, Explain(c) PROVE ReleaseLocks(c) \/ UNCHANGED rowLock
    BY <1>6 DEF Explain, RollBack, lockVars
  <1>7. ASSUME NEW c \in Calls,
               Receive(c) \/ LoadProducts(c) \/ TakeNumber(c) \/ BeginUpdate(c) \/ CreateProduct(c)
                 \/ Publish(c) \/ Answer(c) \/ LoseAcknowledgement(c)
        PROVE  UNCHANGED rowLock
    BY <1>7 DEF Receive, LoadProducts, TakeNumber, BeginUpdate, CreateProduct, Publish, Answer,
                LoseAcknowledgement, lockVars
  <1>8. UNCHANGED vars => UNCHANGED rowLock
    BY DEF vars, lockVars
  <1> QED
    BY <1>1, <1>2, <1>3, <1>4, <1>5, <1>6, <1>7, <1>8 DEF Next, Proceed, Over

\* The holder of a lock somebody waits for waits, if at all, for a row, and for a
\* later one.
LEMMA ChainClimbs ==
    ASSUME LocksInv, NEW c \in Calls, NEW d \in Calls, NEW e \in Calls, WaitsFor(c, d), WaitsFor(d, e)
    PROVE  \E q \in Products :
              /\ phase[d] = "waiting" /\ IsNext(d, q) /\ rowLock[q] = e
              /\ \A p \in Products : phase[c] = "waiting" /\ IsNext(c, p) => p < q
  <1>1. OrderInv(d) /\ CallInv(c) /\ CallInv(d)
    BY DEF LocksInv, TransactionInv
  <1>2. phase[c] = "numbering" => SequenceKey(request[c]) \in SequenceKeys
    BY <1>1, InvoiceRequestType DEF CallInv, RequestInv
  <1>3. phase[d] \in Working
    BY <1>1, <1>2 DEF WaitsFor, OrderInv
  <1>4. PICK q \in Products : phase[d] = "waiting" /\ IsNext(d, q) /\ rowLock[q] = e
    BY <1>3 DEF WaitsFor, Working
  <1>5. ASSUME NEW p \in Products, phase[c] = "waiting", IsNext(c, p) PROVE p < q
    <2>1. PICK r \in Products : IsNext(c, r) /\ rowLock[r] = d
      BY <1>5 DEF WaitsFor
    <2>2. r = p
      <3>1. r <= p /\ p <= r /\ r \in Nat /\ p \in Nat
        BY <1>5, <2>1, StockAssumption DEF IsNext
      <3> QED
        BY <3>1
    <2>3. p \in DOMAIN staged[d] \cup DOMAIN report[d] /\ q \in Remaining(d)
      BY <1>1, <1>3, <1>4, <2>1, <2>2 DEF OrderInv, IsNext
    <2> QED
      BY <1>1, <1>3, <2>3 DEF OrderInv
  <1> QED
    BY <1>4, <1>5

\* Postgres never has to break a deadlock between these transactions, however many
\* run at a time and whatever they ask for (InvoiceIssuerService, inLockOrder).
THEOREM NoDeadlocks == Spec => []NoCircularWait
  <1>1. Init => LocksInv /\ LocksBounded
    <2>1. Init => LocksBounded
      <3>1. 0 \in Nat
        OBVIOUS
      <3> QED
        BY <3>1 DEF Init, LocksBounded
    <2> QED
      BY <2>1, OrderInit
  <1>2. LocksInv /\ LocksBounded /\ [Next]_vars => LocksInv' /\ LocksBounded'
    BY OrderStep, BoundedStep
  <1>3. LocksInv /\ LocksBounded => NoCircularWait
    <2> SUFFICES ASSUME LocksInv, LocksBounded, NEW S \in SUBSET Calls, S # {},
                        \A c \in S : \E d \in S : WaitsFor(c, d)
                 PROVE  FALSE
      BY DEF NoCircularWait
    <2> DEFINE T == {q \in Products : \E c, d \in S :
                        phase[c] = "waiting" /\ IsNext(c, q) /\ rowLock[q] = d}
    <2>1. \A c, d, e \in S : WaitsFor(c, d) /\ WaitsFor(d, e) =>
            \E q \in T : /\ phase[d] = "waiting" /\ IsNext(d, q) /\ rowLock[q] = e
                         /\ \A p \in Products : phase[c] = "waiting" /\ IsNext(c, p) => p < q
      BY ChainClimbs
    <2>2. T \in SUBSET Nat /\ T # {}
      BY <2>1, StockAssumption
    <2>3. PICK b \in Nat : \A p \in Products : rowLock[p] # NoCall => p <= b
      BY DEF LocksBounded
    <2>4. \A q \in T : q <= b
      BY <2>3, CallsAssumption
    <2>5. PICK p \in T : \A q \in T : q <= p
      <3> HIDE DEF T
      <3> QED
        BY <2>2, <2>4, LargestBelow
    <2>6. PICK c \in S, d \in S : phase[c] = "waiting" /\ IsNext(c, p) /\ rowLock[p] = d
      OBVIOUS
    <2>7. WaitsFor(c, d)
      BY <2>6 DEF WaitsFor
    <2>8. PICK e \in S : WaitsFor(d, e)
      OBVIOUS
    <2>9. PICK q \in T : p < q
      BY <2>1, <2>6, <2>7, <2>8
    <2> QED
      BY <2>2, <2>5, <2>9
  <1> QED
    BY <1>1, <1>2, <1>3, PTL DEF Spec

\* What a shortage report leaves out was available (applyMovements).
THEOREM ShortagesAreAllReported == Spec => ShortageReportComplete
  <1>1. TransactionInv /\ [Next]_vars => [\A c \in Calls : ReportsEveryShortage(c)]_vars
    <2> SUFFICES ASSUME TransactionInv, Next, NEW c \in Calls,
                        outcome[c] # "shortage", outcome'[c] = "shortage",
                        NEW p \in DOMAIN request[c].lines \ DOMAIN report'[c]
                 PROVE  Fitting(c, p)
      BY DEF ReportsEveryShortage
    <2>1. outcome \in [Calls -> Outcomes] /\ report = [d \in Calls |-> report[d]]
      BY DEF TransactionInv, CallTypeOK
    <2>2. \/ ReportShortages(c)
          \/ Explain(c) /\ RollBack(c, "shortage")
      <3>1. ASSUME NEW d \in Calls, NEW result, RollBack(d, result) PROVE d = c /\ result = "shortage"
        BY <2>1, <3>1 DEF RollBack
      <3>2. ASSUME NEW d \in Calls, Explain(d), outcome' # outcome
            PROVE  Explain(d) /\ \E result : RollBack(d, result)
        BY <3>2 DEF Explain
      <3>3. outcome' # outcome
        OBVIOUS
      <3>4. ~Crash /\ ~Over /\ \A d \in Calls :
              ~Receive(d) /\ ~LoadProducts(d) /\ ~TakeNumber(d) /\ ~BeginUpdate(d) /\ ~FinishUpdate(d)
                /\ ~Commit(d) /\ ~CreateProduct(d) /\ ~Publish(d)
        BY <3>3 DEF Crash, Over, Receive, LoadProducts, TakeNumber, BeginUpdate, FinishUpdate, Commit,
                    CreateProduct, Publish, vars, callVars
      <3>5. \A d \in Calls : ~Answer(d) /\ ~LoseAcknowledgement(d)
        BY <2>1 DEF Answer, LoseAcknowledgement
      <3>6. \A d \in Calls :
              ~MissProducts(d) /\ ~RejectInvoice(d) /\ ~RefuseProduct(d) /\ ~Timeout(d)
        <4> SUFFICES ASSUME NEW d \in Calls,
                            MissProducts(d) \/ RejectInvoice(d) \/ RefuseProduct(d) \/ Timeout(d)
                     PROVE  FALSE
          OBVIOUS
        <4>1. \E result \in {"not found", "bad request", "conflict", "error", "timeout"} :
                RollBack(d, result)
          BY DEF MissProducts, RejectInvoice, RefuseProduct, Timeout
        <4> QED
          BY <3>1, <4>1
      <3>7. PICK d \in Calls : Explain(d) \/ ReportShortages(d)
        BY <3>4, <3>5, <3>6 DEF Next, Proceed
      <3> QED
        BY <3>1, <3>2, <3>3, <3>7 DEF ReportShortages
    <2>3. CASE ReportShortages(c)
      <3>1. phase[c] = "moving" /\ p \in DOMAIN staged[c]
        BY <2>3 DEF ReportShortages, Remaining
      <3> QED
        BY <3>1 DEF TransactionInv, CallInv, StagedInv, Working
    <2>4. CASE Explain(c) /\ RollBack(c, "shortage")
      <3>1. PICK q \in Products :
              /\ phase[c] = "explaining" /\ IsNext(c, q)
              /\ request[c].reason # "SALE" /\ MovementType(request[c]) = "OUT"
              /\ report' = [report EXCEPT ![c] = With(report[c], q, quantity[q])]
        BY <2>1, <2>4 DEF Explain, RollBack, Step
      <3>2. request[c] \in Adjustments
        <4>1. request[c] \in StockRequests
          BY <3>1 DEF TransactionInv, CallInv, RequestInv, Working
        <4>2. request[c] \in InvoiceRequests => MovementType(request[c]) # "OUT"
          BY <3>1 DEF InvoiceRequests, InvoiceTypes, MovementType, IsInvoice, StockEffect
        <4> QED
          BY <3>1, <4>1, <4>2 DEF StockRequests
      <3>3. PICK r \in Products : DOMAIN request[c].lines = {r}
        <4>1. request[c].lines \in UNION {[{s} -> Quantities] : s \in Products}
          BY <3>2 DEF Adjustments
        <4> QED
          BY <4>1
      <3>4. q = r /\ q \in DOMAIN report'[c]
        BY <2>1, <3>1, <3>3 DEF IsNext, Remaining, With
      <3> QED
        BY <3>3, <3>4
    <2> QED
      BY <2>2, <2>3, <2>4
  <1> QED
    BY <1>1, Invariance, PTL DEF Spec, ShortageReportComplete

(***************************************************************************)
(* What callers and listeners are told of the stock is true, for every     *)
(* workload: what a call has committed stays in the tables, so it may be   *)
(* announced and answered at any later time.                               *)
(***************************************************************************)
\* The committed tables only grow, and rows of the ledger stay as they are.
Grows ==
    /\ products \subseteq products' /\ invoices \subseteq invoices'
    /\ \A p \in Products :
          /\ Len(ledger[p]) <= Len(ledger'[p])
          /\ \A i \in 1..Len(ledger[p]) : ledger'[p][i] = ledger[p][i]

\* What a call announces when it has committed.
Announced(c) ==
    IF request[c].reason = "OPENING" THEN {ProductCreated(request[c])} ELSE StockUpdated(c)

\* A call that has committed has had its effect on the tables.
Effected(c) ==
    /\ \A e \in Announced(c) : IsCommitted(e)
    /\ request[c].reason # "OPENING" =>
         /\ DOMAIN staged[c] = DOMAIN request[c].lines
         /\ IsInvoice(request[c]) => [id |-> InvoiceOf(c), lines |-> request[c].lines] \in invoices

History(c) ==
    /\ phase[c] # "answered" => outcome[c] = "none"
    /\ phase[c] \in Done => Effected(c)
    /\ phase[c] = "published" => Announced(c) \subseteq events
    /\ outcome[c] = "ok" => HasItsEffect(c)

Somebodys == \A v \in invoices : \E c \in Calls : IsInvoiceOf(v, c)

\* A call that has committed must be found in the ledger, answered or not.
Owed(c) == phase[c] \in Done \/ outcome[c] = "ok"

AuthorInv(p, author) ==
    /\ \A i \in NewRows(p) : IsRowOf(ledger[p][i], p, author[i])
    /\ \A i, j \in NewRows(p) : author[i] = author[j] => i = j
    /\ \A c \in Calls :
         Owed(c) /\ WritesTo(request[c], p) => \E i \in NewRows(p) : author[i] = c

\* Every row since the start has its author, and what was there at the start stays.
RowInv(p) ==
    /\ \E author \in [NewRows(p) -> Calls] : AuthorInv(p, author)
    /\ p \in products \ DOMAIN OpeningStock => \E c \in Calls : Opens(c, p)
    /\ p \in DOMAIN OpeningStock =>
         p \in products /\ Len(OpeningLedger(OpeningStock[p])) <= Len(ledger[p])

AnswerInv ==
    /\ TransactionInv
    /\ \A p \in Products : RowInv(p)
    /\ AnnouncedIsCommitted
    /\ Somebodys
    /\ \A c \in Calls : History(c)

(***************************************************************************)
(* The tables.                                                             *)
(***************************************************************************)
LEMMA MoveGrows ==
    ASSUME StockInv, NEW r, NEW after, NEW v, Move(r, after, v), UNCHANGED products,
           invoices \subseteq invoices'
    PROVE  Grows
  <1> SUFFICES ASSUME NEW p \in Products
               PROVE  /\ Len(ledger[p]) <= Len(ledger'[p])
                      /\ \A i \in 1..Len(ledger[p]) : ledger'[p][i] = ledger[p][i]
    BY DEF Grows
  <1> DEFINE row == Movement(r, p, after[p], v)
  <1>1. ledger[p] \in Seq(Movements)
    BY DEF StockInv, InventoryTypeOK
  <1>2. ledger'[p] = IF p \in DOMAIN r.lines THEN Append(ledger[p], row) ELSE ledger[p]
    BY DEF Move
  <1> HIDE DEF row
  <1>3. /\ Len(Append(ledger[p], row)) = Len(ledger[p]) + 1 /\ Len(ledger[p]) \in Nat
        /\ \A i \in 1..Len(ledger[p]) : Append(ledger[p], row)[i] = ledger[p][i]
    BY <1>1
  <1> QED
    BY <1>2, <1>3

LEMMA InventoryGrows == StockInv /\ [InventoryNext]_inventoryVars => Grows
  <1> SUFFICES ASSUME StockInv, [InventoryNext]_inventoryVars PROVE Grows
    OBVIOUS
  <1>1. ASSUME NEW r \in Adjustments, Adjust(r) PROVE Grows
    BY <1>1, MoveGrows DEF Adjust
  <1>2. ASSUME NEW r \in InvoiceRequests, Issue(r) PROVE Grows
    BY <1>2, MoveGrows DEF Issue, Number
  <1>3. ASSUME NEW p \in Products, NEW n \in 0..StockMax, Open(p, n) PROVE Grows
    <2>1. ledger[p] = <<>> /\ ledger' = [ledger EXCEPT ![p] = OpeningLedger(n)]
      BY <1>3 DEF Open, StockInv, Unborn
    <2>2. n \in Nat
      BY StockAssumption
    <2>3. Len(OpeningLedger(n)) \in Nat
      BY <2>2, OpeningTyped
    <2>4. ASSUME NEW q \in Products
          PROVE  /\ Len(ledger[q]) <= Len(ledger'[q])
                 /\ \A i \in 1..Len(ledger[q]) : ledger'[q][i] = ledger[q][i]
      <3>1. ledger[q] \in Seq(Movements) /\ Len(ledger[q]) \in Nat
        BY DEF StockInv, InventoryTypeOK
      <3>2. ledger'[q] = IF q = p THEN OpeningLedger(n) ELSE ledger[q]
        BY <2>1 DEF StockInv, InventoryTypeOK
      <3> QED
        BY <2>1, <2>3, <3>1, <3>2
    <2> QED
      BY <1>3, <2>4 DEF Open, Grows
  <1>4. CASE UNCHANGED inventoryVars
    <2>1. ASSUME NEW p \in Products PROVE Len(ledger[p]) \in Nat
      BY DEF StockInv, InventoryTypeOK
    <2> QED
      BY <1>4, <2>1 DEF Grows, inventoryVars
  <1> QED
    BY <1>1, <1>2, <1>3, <1>4 DEF InventoryNext

LEMMA StepGrows == TransactionInv /\ [Next]_vars => Grows
  BY StepImplements, InventoryGrows DEF TransactionInv

LEMMA CommittedStays ==
    ASSUME StockInv, Grows, StockInv', NEW e \in Events, IsCommitted(e)
    PROVE  IsCommitted(e)'
  <1>1. CASE e.event = "stock.updated"
    <2>1. e.product \in Products
      BY <1>1 DEF Events
    <2>2. Len(ledger[e.product]) \in Nat /\ Len(ledger'[e.product]) \in Nat
      BY <2>1 DEF StockInv, InventoryTypeOK
    <2> QED
      BY <1>1, <2>1, <2>2 DEF IsCommitted, Grows
  <1>2. CASE e.event = "product.created"
    <2>1. e.product \in Products
      BY <1>2 DEF Events
    <2>2. /\ ledger[e.product] \in Seq(Movements) /\ ledger'[e.product] \in Seq(Movements)
          /\ e.product \in products /\ products \subseteq products'
          /\ e.quantity > 0 => ledger[e.product] # <<>> /\ ledger[e.product][1].after = e.quantity
      BY <1>2, <2>1 DEF StockInv, InventoryTypeOK, IsCommitted, Grows
    <2>3. ASSUME e.quantity > 0
          PROVE  ledger'[e.product] # <<>> /\ ledger'[e.product][1].after = e.quantity
      <3>1. Len(ledger[e.product]) \in Nat /\ Len(ledger[e.product]) >= 1
        BY <2>2, <2>3
      <3>2. ledger'[e.product][1] = ledger[e.product][1] /\ Len(ledger'[e.product]) >= 1
        BY <2>1, <2>2, <3>1 DEF Grows
      <3> QED
        BY <2>2, <2>3, <3>2
    <2> QED
      BY <1>2, <2>2, <2>3 DEF IsCommitted
  <1>3. CASE e.event = "invoice.created"
    BY <1>3 DEF IsCommitted, Grows
  <1> QED
    BY <1>1, <1>2, <1>3 DEF Events

\* What a call that has committed announces is an event.
LEMMA AnnouncedTyped ==
    ASSUME CallTypeOK, NEW c \in Calls, request[c] \in Requests
    PROVE  Announced(c) \subseteq Events
  <1>1. StockUpdated(c) \subseteq Events
    BY DEF CallTypeOK, IsPartial, StockUpdated, Events
  <1>2. ASSUME request[c].reason = "OPENING" PROVE ProductCreated(request[c]) \in Events
    <2>1. request[c] \in ProductRequests
      BY <1>2, RequestSorts DEF Requests
    <2> QED
      BY <2>1, RequestSorts DEF ProductCreated, Events
  <1> QED
    BY <1>1, <1>2 DEF Announced

(***************************************************************************)
(* The steps.                                                              *)
(***************************************************************************)
Same(c) ==
    /\ phase'[c] = phase[c] /\ request'[c] = request[c] /\ number'[c] = number[c]
    /\ staged'[c] = staged[c] /\ outcome'[c] = outcome[c]

\* What was true of a call's effect and announcements stays true.
LEMMA EffectStays ==
    ASSUME TransactionInv, TransactionInv', Grows, NEW c \in Calls,
           request'[c] = request[c], number'[c] = number[c], staged'[c] = staged[c],
           request[c] \in Requests, Effected(c)
    PROVE  Announced(c)' = Announced(c) /\ Effected(c)'
  <1>1. Announced(c)' = Announced(c)
    BY DEF Announced, ProductCreated, StockUpdated
  <1>2. \A e \in Announced(c) : IsCommitted(e)'
    BY AnnouncedTyped, CommittedStays DEF Effected, TransactionInv
  <1>3. InvoiceOf(c)' = InvoiceOf(c) /\ invoices \subseteq invoices'
    BY DEF InvoiceOf, Grows
  <1> QED
    BY <1>1, <1>2, <1>3 DEF Effected

LEMMA OkStays ==
    ASSUME Grows, events \subseteq events', NEW c \in Calls,
           request'[c] = request[c], number'[c] = number[c], staged'[c] = staged[c], HasItsEffect(c)
    PROVE  HasItsEffect(c)'
  <1>1. /\ InvoiceOf(c)' = InvoiceOf(c) /\ StockUpdated(c)' = StockUpdated(c)
        /\ InvoiceCreated(c)' = InvoiceCreated(c)
        /\ products \subseteq products' /\ invoices \subseteq invoices'
    BY DEF InvoiceOf, StockUpdated, InvoiceCreated, Grows
  <1> QED
    BY <1>1 DEF HasItsEffect

LEMMA SameHistory ==
    ASSUME TransactionInv, TransactionInv', Grows, events \subseteq events',
           NEW c \in Calls, Same(c), History(c)
    PROVE  History(c)'
  <1>1. phase[c] \in Done => request[c] \in Requests
    BY DEF TransactionInv, CallInv, RequestInv
  <1>2. phase'[c] \in Done => Effected(c)' /\ Announced(c)' = Announced(c)
    BY <1>1, EffectStays DEF Same, History
  <1>3. outcome'[c] = "ok" => HasItsEffect(c)'
    BY OkStays DEF Same, History
  <1> QED
    BY <1>2, <1>3 DEF Same, History, Done

\* The step neither commits c nor takes back that it has committed.
Steady(c) ==
    /\ MayHaveCommitted(c) =>
         /\ MayHaveCommitted(c)'
         /\ request'[c] = request[c] /\ number'[c] = number[c] /\ staged'[c] = staged[c]
    /\ Owed(c)' => Owed(c) /\ request'[c] = request[c]

LEMMA SameSteady == ASSUME NEW c \in Calls, Same(c) PROVE Steady(c)
  BY DEF Same, Steady, MayHaveCommitted, Owed

\* The row of a call that stays committed stays its row.
LEMMA RowStays ==
    ASSUME NEW c \in Calls, Steady(c), NEW p, NEW row, IsRowOf(row, p, c)
    PROVE  IsRowOf(row, p, c)'
  <1>1. /\ MayHaveCommitted(c) /\ MayHaveCommitted(c)'
        /\ request'[c] = request[c] /\ number'[c] = number[c] /\ staged'[c] = staged[c]
    BY DEF IsRowOf, Steady
  <1>2. InvoiceOf(c)' = InvoiceOf(c) /\ (Opens(c, p) => Opens(c, p)')
    BY <1>1 DEF InvoiceOf, Opens
  <1> QED
    BY <1>1, <1>2 DEF IsRowOf

LEMMA OpensStays ==
    ASSUME NEW c \in Calls, Steady(c), NEW p, Opens(c, p)
    PROVE  Opens(c, p)'
  BY DEF Opens, Steady

\* A product that the step does not touch.
LEMMA RowsStay ==
    ASSUME NEW p \in Products, RowInv(p), UNCHANGED ledger[p],
           p \in products' <=> p \in products,
           \A c \in Calls : Steady(c) \/ (Owed(c)' /\ ~MayHaveCommitted(c) /\ ~WritesTo(request'[c], p))
    PROVE  RowInv(p)'
  <1>1. NewRows(p)' = NewRows(p)
    BY DEF NewRows
  <1>2. PICK author \in [NewRows(p) -> Calls] : AuthorInv(p, author)
    BY DEF RowInv
  <1>3. ASSUME NEW i \in NewRows(p) PROVE IsRowOf(ledger[p][i], p, author[i])'
    <2>1. PICK c \in Calls : c = author[i] /\ IsRowOf(ledger[p][i], p, c)
      BY <1>2, <1>3 DEF AuthorInv
    <2>2. PICK row : row = ledger[p][i]
      OBVIOUS
    <2>3. IsRowOf(row, p, c) /\ MayHaveCommitted(c)
      BY <2>1, <2>2 DEF IsRowOf
    <2>4. IsRowOf(row, p, c)'
      BY <2>3, RowStays
    <2> QED
      BY <2>1, <2>2, <2>4
  <1>4. ASSUME NEW c \in Calls, Owed(c)', WritesTo(request'[c], p)
        PROVE  \E i \in NewRows(p) : author[i] = c
    BY <1>2, <1>4 DEF AuthorInv, Steady
  <1>5. AuthorInv(p, author)'
    BY <1>1, <1>2, <1>3, <1>4 DEF AuthorInv
  <1>6. p \in products' \ DOMAIN OpeningStock => \E c \in Calls : Opens(c, p)'
    <2>1. p \in products \ DOMAIN OpeningStock =>
            \E c \in Calls : Opens(c, p) /\ MayHaveCommitted(c)
      BY DEF RowInv, Opens
    <2> QED
      BY <2>1, OpensStays
  <1> QED
    BY <1>1, <1>2, <1>5, <1>6 DEF RowInv

LEMMA QuietRows ==
    ASSUME AnswerInv, UNCHANGED inventoryVars, \A c \in Calls : Steady(c)
    PROVE  \A p \in Products : RowInv(p)'
  BY RowsStay DEF AnswerInv, inventoryVars

\* The row that a commit appends is that of its call, which had none before.
LEMMA CommittedRow ==
    ASSUME AnswerInv, TransactionInv', NEW c \in Calls, NEW p \in Products,
           phase[c] = "moving", phase'[c] = "committed",
           UNCHANGED <<products, request, number, staged, outcome>>,
           request[c].reason # "OPENING", p \in DOMAIN request[c].lines,
           DOMAIN staged[c] = DOMAIN request[c].lines, Move(request[c], staged[c], InvoiceOf(c)),
           \A d \in Calls \ {c} : Same(d)
    PROVE  RowInv(p)'
  <1> DEFINE n == Len(ledger[p])
  <1>0. PICK row : row = Movement(request[c], p, staged[c][p], InvoiceOf(c))
    OBVIOUS
  <1>1. ledger'[p] = Append(ledger[p], row) /\ quantity'[p] = staged[c][p]
    BY <1>0 DEF Move
  <1>2. ledger[p] \in Seq(Movements)
    BY DEF AnswerInv, TransactionInv, StockInv, InventoryTypeOK
  <1>3. row.after = staged[c][p] /\ row.after \in 0..StockMax
    BY <1>0, <1>1 DEF Movement, TransactionInv, StockInv, StockWithinColumn
  <1>4. IsRowOf(row, p, c)'
    <2>1. MayHaveCommitted(c)'
      BY DEF MayHaveCommitted, AnswerInv, History
    <2>2. InvoiceOf(c)' = InvoiceOf(c)
      BY DEF InvoiceOf
    <2> QED
      BY <1>0, <1>3, <2>1, <2>2 DEF IsRowOf
  <1>5. RowInv(p) /\ \A d \in Calls \ {c} : Steady(d)
    BY SameSteady DEF AnswerInv
  <1>6. PICK author \in [NewRows(p) -> Calls] : AuthorInv(p, author)
    BY <1>5 DEF RowInv
  <1>7. /\ n \in Nat /\ Len(ledger'[p]) = n + 1 /\ ledger'[p][n + 1] = row
        /\ \A i \in 1..n : ledger'[p][i] = ledger[p][i]
    BY <1>1, <1>2
  <1>8. NewRows(p)' = NewRows(p) \cup {n + 1} /\ n + 1 \notin NewRows(p) /\ NewRows(p) \subseteq 1..n
    <2>1. ASSUME p \in DOMAIN OpeningStock
          PROVE  Len(OpeningLedger(OpeningStock[p])) \in Nat /\ Len(OpeningLedger(OpeningStock[p])) <= n
      <3>1. OpeningStock[p] \in Nat
        BY <2>1, StockAssumption
      <3> QED
        BY <1>5, <2>1, <3>1, OpeningTyped DEF RowInv
    <2>2. PICK k \in 0..n : p \in DOMAIN OpeningStock => k = Len(OpeningLedger(OpeningStock[p]))
      BY <1>7, <2>1
    <2> QED
      BY <1>7, <2>2 DEF NewRows
  <1> DEFINE new == [i \in NewRows(p) \cup {n + 1} |-> IF i = n + 1 THEN c ELSE author[i]]
  <1>9. PICK m \in Nat : m = n + 1
    BY <1>7
  <1>10. /\ new[m] = c /\ m \in NewRows(p) \cup {n + 1}
         /\ \A i \in NewRows(p) : new[i] = author[i] /\ new[i] \in Calls \ {c}
         /\ new \in [NewRows(p) \cup {n + 1} -> Calls]
    <2>1. \A i \in NewRows(p) : author[i] # c
      BY <1>6 DEF AuthorInv, IsRowOf, MayHaveCommitted
    <2> QED
      BY <1>6, <1>8, <1>9, <2>1
  <1>11. PICK f \in [NewRows(p)' -> Calls] : f = new
    BY <1>8, <1>10
  <1> HIDE DEF new
  <1>12. ASSUME NEW i \in NewRows(p)' PROVE IsRowOf(ledger[p][i], p, f[i])'
    <2>1. CASE i = m
      BY <1>4, <1>7, <1>9, <1>10, <1>11, <2>1
    <2>2. CASE i # m
      <3>1. i \in NewRows(p) /\ ledger'[p][i] = ledger[p][i]
        BY <1>7, <1>8, <1>9, <1>12, <2>2
      <3>2. PICK d \in Calls \ {c} : d = f[i] /\ IsRowOf(ledger[p][i], p, d)
        BY <1>6, <1>10, <1>11, <3>1 DEF AuthorInv
      <3>3. PICK old : old = ledger[p][i]
        OBVIOUS
      <3>4. IsRowOf(old, p, d)'
        BY <1>5, <3>2, <3>3, RowStays
      <3> QED
        BY <3>1, <3>2, <3>3, <3>4
    <2> QED
      BY <2>1, <2>2
  <1>13. \A i, j \in NewRows(p)' : f[i] = f[j] => i = j
    BY <1>6, <1>8, <1>9, <1>10, <1>11 DEF AuthorInv
  <1>14. ASSUME NEW d \in Calls, Owed(d)', WritesTo(request'[d], p)
         PROVE  \E i \in NewRows(p)' : f[i] = d
    <2>1. CASE d = c
      BY <1>8, <1>9, <1>10, <1>11, <2>1
    <2>2. CASE d # c
      BY <1>5, <1>6, <1>8, <1>10, <1>11, <1>14, <2>2 DEF AuthorInv, Steady
    <2> QED
      BY <2>1, <2>2
  <1>15. AuthorInv(p, f)'
    BY <1>12, <1>13, <1>14 DEF AuthorInv
  <1>16. p \in products' \ DOMAIN OpeningStock => \E d \in Calls : Opens(d, p)'
    <2>1. ASSUME p \in products' \ DOMAIN OpeningStock PROVE \E d \in Calls \ {c} : Opens(d, p)
      BY <1>5, <2>1 DEF RowInv, Opens, MayHaveCommitted
    <2> QED
      BY <1>5, <2>1, OpensStays
  <1> QED
    BY <1>5, <1>7, <1>11, <1>15, <1>16 DEF RowInv

\* A new product's ledger is the opening row of the call that created it.
LEMMA CreatedRow ==
    ASSUME AnswerInv, TransactionInv', NEW c \in Calls, NEW p \in Products,
           phase[c] = "opening", phase'[c] = "committed",
           UNCHANGED <<request, number, staged, outcome>>,
           request[c].reason = "OPENING", request[c].product = p,
           request[c].quantity \in Nat, request[c].quantity <= StockMax,
           Open(p, request[c].quantity), \A d \in Calls \ {c} : Same(d)
    PROVE  RowInv(p)'
  <1> DEFINE q == request[c].quantity
  <1>1. /\ p \notin products /\ ledger[p] = <<>>
        /\ p \in products' /\ ledger'[p] = OpeningLedger(q)
    BY DEF Open, AnswerInv, TransactionInv, StockInv, Unborn, InventoryTypeOK
  <1>2. p \notin DOMAIN OpeningStock /\ RowInv(p) /\ \A d \in Calls \ {c} : Steady(d)
    BY <1>1, SameSteady DEF AnswerInv, RowInv
  <1>3. NewRows(p) = {} /\ NewRows(p)' = IF q = 0 THEN {} ELSE {1}
    <2>1. Len(<<>>) = 0 /\ \A x : Len(<<x>>) = 1
      OBVIOUS
    <2> QED
      BY <1>1, <1>2, <2>1 DEF NewRows, OpeningLedger
  <1>4. Opens(c, p)'
    BY DEF Opens, MayHaveCommitted, AnswerInv, History
  <1>5. PICK f \in [NewRows(p)' -> Calls] : \A i \in NewRows(p)' : f[i] = c
    <2>1. PICK f : f = [i \in NewRows(p)' |-> c]
      OBVIOUS
    <2> QED
      BY <2>1
  <1>6. ASSUME q # 0 PROVE IsRowOf(ledger[p][1], p, c)'
    <2>1. PICK row : row = ledger'[p][1]
      OBVIOUS
    <2>2. <<row>> = OpeningLedger(q) /\ row.after = q
      BY <1>1, <1>6, <2>1 DEF OpeningLedger
    <2>3. row.after \in 0..StockMax
      BY <2>2, StockAssumption
    <2>4. IsRowOf(row, p, c)'
      BY <1>4, <2>2, <2>3 DEF IsRowOf, Opens
    <2> QED
      BY <2>1, <2>4
  <1>7. ASSUME NEW d \in Calls, Owed(d)', WritesTo(request'[d], p)
        PROVE  \E i \in NewRows(p)' : f[i] = d
    <2>1. CASE d = c
      <3>1. q > 0
        BY <1>7, <2>1 DEF WritesTo
      <3> QED
        BY <1>3, <1>5, <2>1, <3>1
    <2>2. CASE d # c
      BY <1>2, <1>3, <1>7, <2>2 DEF RowInv, AuthorInv, Steady
    <2> QED
      BY <2>1, <2>2
  <1>8. AuthorInv(p, f)'
    BY <1>3, <1>5, <1>6, <1>7 DEF AuthorInv
  <1> QED
    BY <1>2, <1>4, <1>8 DEF RowInv

\* A step of c that commits and announces nothing.
LEMMA QuietStep ==
    ASSUME AnswerInv, TransactionInv', NEW c \in Calls,
           UNCHANGED <<inventoryVars, events>>, Grows,
           \A d \in Calls \ {c} : Same(d),
           phase[c] \notin {"answered", "lost", "committed", "published"},
           phase'[c] \notin Done, outcome'[c] # "ok", phase'[c] # "answered" => outcome'[c] = "none"
    PROVE  AnswerInv'
  <1>1. AnnouncedIsCommitted'
    BY CommittedStays DEF AnswerInv, AnnouncedIsCommitted, TransactionInv, CallTypeOK
  <1>2. ASSUME NEW v \in invoices' PROVE \E d \in Calls : IsInvoiceOf(v, d)'
    <2>1. PICK d \in Calls : IsInvoiceOf(v, d)
      BY <1>2 DEF AnswerInv, Somebodys, inventoryVars
    <2>2. d # c
      BY <2>1 DEF IsInvoiceOf, MayHaveCommitted
    <2> QED
      BY <2>1, <2>2 DEF IsInvoiceOf, MayHaveCommitted, InvoiceOf, Same
  <1>3. ASSUME NEW d \in Calls PROVE History(d)'
    <2>1. CASE d = c
      BY <2>1 DEF History, Done
    <2>2. CASE d # c
      BY <2>2, SameHistory DEF AnswerInv
    <2> QED
      BY <2>1, <2>2
  <1>4. \A p \in Products : RowInv(p)'
    <2>1. Steady(c)
      BY DEF Steady, MayHaveCommitted, Owed
    <2> QED
      BY <2>1, SameSteady, QuietRows
  <1> QED
    BY <1>1, <1>2, <1>3, <1>4 DEF AnswerInv, Somebodys

LEMMA RefusedStep ==
    ASSUME AnswerInv, TransactionInv', Grows, NEW c \in Calls, phase[c] \in InTransaction,
           NEW result \in Outcomes \ {"ok"}, RollBack(c, result)
    PROVE  AnswerInv'
  <1>1. /\ phase'[c] = "answered" /\ outcome'[c] = result
        /\ \A d \in Calls \ {c} : Same(d)
        /\ UNCHANGED <<inventoryVars, events>>
    BY DEF AnswerInv, TransactionInv, CallTypeOK, RollBack, Same
  <1>2. phase[c] \notin {"answered", "lost", "committed", "published"}
    BY DEF InTransaction
  <1> QED
    BY <1>1, <1>2, QuietStep DEF Done

LEMMA CommitAnswers ==
    ASSUME AnswerInv, TransactionInv', Grows, NEW c \in Calls, Commit(c)
    PROVE  AnswerInv'
  <1> DEFINE r == request[c]
  <1>1. /\ phase[c] = "moving" /\ phase' = [phase EXCEPT ![c] = "committed"]
        /\ UNCHANGED <<products, request, number, staged, report, outcome, events>>
        /\ IF IsInvoice(r) THEN Number(r, number[c]) ELSE UNCHANGED <<invoices, lastNumber>>
    BY DEF Commit, Step
  <1>2. /\ TransactionInv /\ r \in StockRequests /\ r \in Requests /\ r.reason # "OPENING"
        /\ DOMAIN staged[c] = DOMAIN r.lines /\ DOMAIN r.lines \subseteq Products
        /\ Move(r, staged[c], InvoiceOf(c))
    BY CommitFits, RequestSorts DEF AnswerInv, Commit
  <1>3. AnnouncedIsCommitted'
    BY <1>1, CommittedStays DEF AnswerInv, AnnouncedIsCommitted, TransactionInv, CallTypeOK
  <1>4. phase'[c] = "committed" /\ \A d \in Calls \ {c} : Same(d)
    BY <1>1, <1>2 DEF TransactionInv, CallTypeOK, Same
  <1>5. ASSUME NEW v \in invoices' PROVE \E d \in Calls : IsInvoiceOf(v, d)'
    <2>1. CASE v \in invoices
      <3>1. PICK d \in Calls : IsInvoiceOf(v, d)
        BY <2>1 DEF AnswerInv, Somebodys
      <3>2. d # c
        BY <3>1, <1>1 DEF IsInvoiceOf, MayHaveCommitted
      <3> QED
        BY <3>1, <3>2, <1>1, <1>4 DEF IsInvoiceOf, MayHaveCommitted, InvoiceOf, Same
    <2>2. CASE v \notin invoices
      <3>1. IsInvoice(r) /\ v = [id |-> <<SequenceKey(r), number[c]>>, lines |-> r.lines]
        BY <2>2, <1>1, <1>5 DEF Number
      <3>2. outcome[c] = "none"
        BY <1>1 DEF AnswerInv, History
      <3> QED
        BY <3>1, <3>2, <1>1, <1>4 DEF IsInvoiceOf, MayHaveCommitted, InvoiceOf
    <2> QED
      BY <2>1, <2>2
  <1>6. Effected(c)'
    <2>1. ASSUME NEW p \in DOMAIN staged[c]
          PROVE  \E i \in 1..Len(ledger'[p]) : ledger'[p][i].after = staged[c][p]
      <3> DEFINE row == Movement(r, p, staged[c][p], InvoiceOf(c))
      <3>1. p \in Products /\ ledger'[p] = Append(ledger[p], row)
        BY <1>2, <2>1 DEF Move
      <3>2. ledger[p] \in Seq(Movements) /\ row.after = staged[c][p]
        BY <1>2, <3>1 DEF TransactionInv, StockInv, InventoryTypeOK, Movement
      <3> HIDE DEF row
      <3>3. /\ Len(Append(ledger[p], row)) = Len(ledger[p]) + 1 /\ Len(ledger[p]) \in Nat
            /\ Append(ledger[p], row)[Len(ledger[p]) + 1] = row
        BY <3>2
      <3> QED
        BY <3>1, <3>2, <3>3
    <2>2. Announced(c)' = StockUpdated(c)
      BY <1>1, <1>2 DEF Announced, StockUpdated
    <2>3. ASSUME NEW e \in StockUpdated(c) PROVE IsCommitted(e)'
      <3>1. PICK p \in DOMAIN staged[c] :
               e = [event |-> "stock.updated", product |-> p, quantity |-> staged[c][p]]
        BY DEF StockUpdated
      <3>2. e.event = "stock.updated" /\ e.product = p /\ e.quantity = staged[c][p]
        BY <3>1
      <3>3. \E i \in 1..Len(ledger'[p]) : ledger'[p][i].after = e.quantity
        BY <2>1, <3>2
      <3> QED
        BY <3>2, <3>3 DEF IsCommitted
    <2>4. IsInvoice(r) => [id |-> InvoiceOf(c), lines |-> r.lines] \in invoices'
      BY <1>1 DEF Number, InvoiceOf
    <2>5. InvoiceOf(c)' = InvoiceOf(c)
      BY <1>1 DEF InvoiceOf
    <2> QED
      BY <1>1, <1>2, <2>2, <2>3, <2>4, <2>5 DEF Effected
  <1>7. History(c)'
    BY <1>1, <1>4, <1>6 DEF AnswerInv, History
  <1>8. ASSUME NEW d \in Calls, d # c PROVE History(d)'
    BY <1>1, <1>4, <1>8, SameHistory DEF AnswerInv
  <1>9. ASSUME NEW p \in Products PROVE RowInv(p)'
    <2>1. CASE p \in DOMAIN r.lines
      BY <1>1, <1>2, <1>4, <2>1, CommittedRow
    <2>2. CASE p \notin DOMAIN r.lines
      <3>1. ledger'[p] = ledger[p] /\ products' = products
        BY <1>1, <1>2, <2>2 DEF Move
      <3>2. Owed(c)' /\ ~MayHaveCommitted(c) /\ ~WritesTo(request'[c], p)
        BY <1>1, <1>2, <1>4, <2>2 DEF Owed, Done, MayHaveCommitted, WritesTo
      <3>3. RowInv(p)
        BY DEF AnswerInv
      <3> QED
        BY <1>4, <3>1, <3>2, <3>3, SameSteady, RowsStay
    <2> QED
      BY <2>1, <2>2
  <1> QED
    BY <1>3, <1>5, <1>7, <1>8, <1>9 DEF AnswerInv, Somebodys

LEMMA CreateAnswers ==
    ASSUME AnswerInv, TransactionInv', Grows, NEW c \in Calls, CreateProduct(c)
    PROVE  AnswerInv'
  <1> DEFINE r == request[c]
  <1>1. /\ phase[c] = "opening" /\ phase' = [phase EXCEPT ![c] = "committed"]
        /\ Open(r.product, r.quantity)
        /\ UNCHANGED <<request, number, staged, report, outcome, events>>
    BY DEF CreateProduct, Step
  <1>2. r \in ProductRequests /\ r.reason = "OPENING" /\ r.product \in Products /\ r.quantity \in Nat
    <2>1. r \in ProductRequests
      BY <1>1 DEF AnswerInv, TransactionInv, CallInv, RequestInv
    <2> QED
      BY <2>1, RequestSorts
  <1>3. AnnouncedIsCommitted'
    BY <1>1, CommittedStays DEF AnswerInv, AnnouncedIsCommitted, TransactionInv, CallTypeOK
  <1>4. phase'[c] = "committed" /\ \A d \in Calls \ {c} : Same(d)
    BY <1>1 DEF AnswerInv, TransactionInv, CallTypeOK, Same
  <1>5. ASSUME NEW v \in invoices' PROVE \E d \in Calls : IsInvoiceOf(v, d)'
    <2>1. PICK d \in Calls : IsInvoiceOf(v, d)
      BY <1>1, <1>5 DEF AnswerInv, Somebodys, Open
    <2>2. d # c
      BY <2>1, <1>1 DEF IsInvoiceOf, MayHaveCommitted
    <2> QED
      BY <2>1, <2>2, <1>1, <1>4 DEF IsInvoiceOf, MayHaveCommitted, InvoiceOf, Same
  <1>6. Effected(c)'
    <2>1. r.product \in products' /\ ledger'[r.product] = OpeningLedger(r.quantity)
      BY <1>1, <1>2 DEF Open, AnswerInv, TransactionInv, StockInv, InventoryTypeOK
    <2>2. r.quantity > 0 => ledger'[r.product] # <<>> /\ ledger'[r.product][1].after = r.quantity
      BY <1>2, <2>1 DEF OpeningLedger
    <2>3. ASSUME NEW e, e = ProductCreated(r) PROVE IsCommitted(e)'
      <3>1. e.event = "product.created" /\ e.product = r.product /\ e.quantity = r.quantity
        BY <2>3 DEF ProductCreated
      <3>2. e.product \in products'
        BY <2>1, <3>1
      <3>3. e.quantity > 0 => ledger'[e.product] # <<>> /\ ledger'[e.product][1].after = e.quantity
        BY <2>2, <3>1
      <3> QED
        BY <3>1, <3>2, <3>3 DEF IsCommitted
    <2>4. Announced(c)' = {ProductCreated(r)}
      BY <1>1, <1>2 DEF Announced
    <2> QED
      BY <1>1, <1>2, <2>3, <2>4 DEF Effected
  <1>7. History(c)'
    BY <1>1, <1>4, <1>6 DEF AnswerInv, History
  <1>8. ASSUME NEW d \in Calls, d # c PROVE History(d)'
    BY <1>1, <1>4, <1>8, SameHistory DEF AnswerInv
  <1>9. ASSUME NEW p \in Products PROVE RowInv(p)'
    <2>1. CASE p = r.product
      BY <1>1, <1>2, <1>4, <2>1, CreatedRow DEF CreateProduct
    <2>2. CASE p # r.product
      <3>1. ledger'[p] = ledger[p] /\ (p \in products' <=> p \in products)
        BY <1>1, <2>2 DEF Open, AnswerInv, TransactionInv, StockInv, InventoryTypeOK
      <3>2. Owed(c)' /\ ~MayHaveCommitted(c) /\ ~WritesTo(request'[c], p)
        BY <1>1, <1>2, <1>4, <2>2 DEF Owed, Done, MayHaveCommitted, WritesTo
      <3>3. RowInv(p)
        BY DEF AnswerInv
      <3> QED
        BY <1>4, <3>1, <3>2, <3>3, SameSteady, RowsStay
    <2> QED
      BY <2>1, <2>2
  <1> QED
    BY <1>3, <1>5, <1>7, <1>8, <1>9 DEF AnswerInv, Somebodys

LEMMA PublishAnswers ==
    ASSUME AnswerInv, TransactionInv', Grows, NEW c \in Calls, Publish(c)
    PROVE  AnswerInv'
  <1>1. /\ phase[c] = "committed" /\ phase' = [phase EXCEPT ![c] = "published"]
        /\ events' = events \cup Announced(c)
        /\ UNCHANGED <<inventoryVars, request, number, staged, report, outcome>>
    BY DEF Publish, Step, Announced
  <1>2. TransactionInv /\ request[c] \in Requests /\ Effected(c) /\ History(c)
    BY <1>1 DEF AnswerInv, TransactionInv, CallInv, RequestInv, History, Done
  <1>3. \A e \in Announced(c) : e \in Events /\ IsCommitted(e)
    BY <1>2, AnnouncedTyped DEF Effected, TransactionInv
  <1>4. AnnouncedIsCommitted'
    BY <1>1, <1>2, <1>3, CommittedStays DEF AnswerInv, AnnouncedIsCommitted, TransactionInv, CallTypeOK
  <1>5. phase'[c] = "published" /\ \A d \in Calls \ {c} : Same(d)
    BY <1>1, <1>2 DEF TransactionInv, CallTypeOK, Same
  <1>6. ASSUME NEW v \in invoices' PROVE \E d \in Calls : IsInvoiceOf(v, d)'
    <2>1. PICK d \in Calls : IsInvoiceOf(v, d)
      BY <1>1, <1>6 DEF AnswerInv, Somebodys, inventoryVars
    <2> QED
      BY <2>1, <1>1, <1>5 DEF IsInvoiceOf, MayHaveCommitted, InvoiceOf, Same
  <1>7. History(c)'
    <2>1. Announced(c)' = Announced(c) /\ Effected(c)'
      BY <1>1, <1>2, EffectStays
    <2> QED
      BY <1>1, <1>2, <1>5, <2>1 DEF History
  <1>8. ASSUME NEW d \in Calls, d # c PROVE History(d)'
    BY <1>1, <1>5, <1>8, SameHistory DEF AnswerInv
  <1>9. \A p \in Products : RowInv(p)'
    <2>1. Steady(c)
      BY <1>1, <1>5 DEF Steady, MayHaveCommitted, Owed, Done
    <2> QED
      BY <1>1, <1>5, <2>1, SameSteady, QuietRows
  <1> QED
    BY <1>4, <1>6, <1>7, <1>8, <1>9 DEF AnswerInv, Somebodys

\* A call whose transaction is over, with an answer or the loss of one.
LEMMA OverStep ==
    ASSUME AnswerInv, TransactionInv', Grows, NEW c \in Calls, phase[c] \in Done,
           phase' = [phase EXCEPT ![c] = "answered"],
           NEW result \in {"ok", "error"}, outcome' = [outcome EXCEPT ![c] = result],
           UNCHANGED <<inventoryVars, request, number, staged>>,
           events \subseteq events', AnnouncedIsCommitted', result = "ok" => HasItsEffect(c)'
    PROVE  AnswerInv'
  <1>1. /\ phase'[c] = "answered" /\ outcome'[c] = result
        /\ \A d \in Calls \ {c} : Same(d)
    BY DEF AnswerInv, TransactionInv, CallTypeOK, Same
  <1>2. ASSUME NEW v \in invoices' PROVE \E d \in Calls : IsInvoiceOf(v, d)'
    <2>1. PICK d \in Calls : IsInvoiceOf(v, d)
      BY <1>2 DEF AnswerInv, Somebodys, inventoryVars
    <2> QED
      BY <2>1, <1>1 DEF IsInvoiceOf, MayHaveCommitted, InvoiceOf, Same
  <1>3. History(c)'
    BY <1>1 DEF History, Done
  <1>4. ASSUME NEW d \in Calls, d # c PROVE History(d)'
    BY <1>1, <1>4, SameHistory DEF AnswerInv
  <1>5. \A p \in Products : RowInv(p)'
    <2>1. Steady(c)
      BY <1>1 DEF Steady, MayHaveCommitted, Owed, Done
    <2> QED
      BY <1>1, <2>1, SameSteady, QuietRows
  <1> QED
    BY <1>2, <1>3, <1>4, <1>5 DEF AnswerInv, Somebodys

LEMMA AnswerAnswers ==
    ASSUME AnswerInv, TransactionInv', Grows, NEW c \in Calls, Answer(c)
    PROVE  AnswerInv'
  <1> DEFINE r == request[c]
  <1>1. /\ phase[c] = "published" /\ phase' = [phase EXCEPT ![c] = "answered"]
        /\ outcome' = [outcome EXCEPT ![c] = "ok"]
        /\ events' = IF IsInvoice(r) THEN events \cup {InvoiceCreated(c)} ELSE events
        /\ UNCHANGED <<inventoryVars, request, number, staged>>
    BY DEF Answer, Step
  <1>2. /\ TransactionInv /\ r \in Requests /\ Effected(c) /\ Announced(c) \subseteq events
    BY <1>1 DEF AnswerInv, TransactionInv, CallInv, RequestInv, History, Done
  <1>3. IsInvoice(r) => /\ InvoiceCreated(c) \in Events
                        /\ r.reason # "OPENING"
                        /\ [id |-> InvoiceOf(c), lines |-> r.lines] \in invoices
    <2>1. IsInvoice(r) => r \in InvoiceRequests /\ r.reason # "OPENING" /\ number[c] \in Nat \ {0}
      BY <1>1, <1>2, RequestSorts DEF Requests, TransactionInv, CallTypeOK, CallInv, NumberInv, Done
    <2>2. IsInvoice(r) => InvoiceCreated(c) \in Events
      BY <2>1, InvoiceRequestType DEF InvoiceCreated, InvoiceOf, InvoiceIds, Events
    <2> QED
      BY <1>2, <2>1, <2>2 DEF Effected
  <1>4. AnnouncedIsCommitted'
    <2>1. ASSUME NEW e \in events PROVE IsCommitted(e)'
      BY <1>2, <2>1, CommittedStays DEF AnswerInv, AnnouncedIsCommitted, TransactionInv, CallTypeOK
    <2>2. ASSUME IsInvoice(r), NEW e, e = InvoiceCreated(c) PROVE IsCommitted(e)'
      <3>1. e.event = "invoice.created" /\ e.id = InvoiceOf(c)
        BY <2>2 DEF InvoiceCreated
      <3>2. [id |-> InvoiceOf(c), lines |-> r.lines] \in invoices'
        BY <1>1, <1>3, <2>2 DEF inventoryVars
      <3>3. \E v \in invoices' : v.id = e.id
        BY <3>1, <3>2
      <3> QED
        BY <3>1, <3>3 DEF IsCommitted
    <2> QED
      BY <1>1, <2>1, <2>2 DEF AnnouncedIsCommitted
  <1>5. HasItsEffect(c)'
    <2>1. HasItsEffect(c) \/ (IsInvoice(r) /\ InvoiceCreated(c) \notin events)
      <3>1. r.reason = "OPENING" =>
              r.product \in products /\ ProductCreated(r) \in events
        <4> SUFFICES ASSUME r.reason = "OPENING" PROVE r.product \in products /\ ProductCreated(r) \in events
          OBVIOUS
        <4>1. ProductCreated(r) \in events /\ IsCommitted(ProductCreated(r))
          BY <1>2 DEF Announced, Effected
        <4>2. PICK e : e = ProductCreated(r)
          OBVIOUS
        <4>3. e.event = "product.created" /\ e.product = r.product /\ IsCommitted(e)
          BY <4>1, <4>2 DEF ProductCreated
        <4> QED
          BY <4>1, <4>3 DEF IsCommitted
      <3> QED
        BY <1>2, <1>3, <3>1 DEF HasItsEffect, Announced, Effected
    <2>2. ASSUME IsInvoice(r) PROVE HasItsEffect(c)'
      <3>1. /\ InvoiceOf(c)' = InvoiceOf(c) /\ InvoiceCreated(c)' = InvoiceCreated(c)
            /\ StockUpdated(c)' = StockUpdated(c) /\ invoices' = invoices
        BY <1>1 DEF InvoiceOf, InvoiceCreated, StockUpdated, inventoryVars
      <3> QED
        BY <1>1, <1>2, <1>3, <2>2, <3>1 DEF HasItsEffect, Announced, Effected
    <2> QED
      BY <1>1, <2>1, <2>2, OkStays
  <1> QED
    BY <1>1, <1>4, <1>5, OverStep DEF Done

LEMMA LostAnswers ==
    ASSUME AnswerInv, TransactionInv', Grows, NEW c \in Calls, LoseAcknowledgement(c)
    PROVE  AnswerInv'
  <1>1. /\ phase[c] = "committed" /\ phase' = [phase EXCEPT ![c] = "answered"]
        /\ outcome' = [outcome EXCEPT ![c] = "error"]
        /\ UNCHANGED <<inventoryVars, request, number, staged, events>>
    BY DEF LoseAcknowledgement, Step
  <1>2. AnnouncedIsCommitted'
    BY <1>1, CommittedStays DEF AnswerInv, AnnouncedIsCommitted, TransactionInv, CallTypeOK
  <1> QED
    BY <1>1, <1>2, OverStep DEF Done

LEMMA CrashAnswers ==
    ASSUME AnswerInv, TransactionInv', Grows, Crash
    PROVE  AnswerInv'
  <1>1. /\ UNCHANGED <<inventoryVars, request, outcome, events>>
        /\ \A d \in Calls :
             /\ phase'[d] = IF phase[d] \in {"idle", "answered"} THEN phase[d] ELSE "lost"
             /\ phase[d] \notin InTransaction => number'[d] = number[d] /\ staged'[d] = staged[d]
    BY DEF Crash
  <1>2. AnnouncedIsCommitted'
    BY <1>1, CommittedStays DEF AnswerInv, AnnouncedIsCommitted, TransactionInv, CallTypeOK
  <1>3. ASSUME NEW v \in invoices' PROVE \E d \in Calls : IsInvoiceOf(v, d)'
    <2>1. PICK d \in Calls : IsInvoiceOf(v, d)
      BY <1>1, <1>3 DEF AnswerInv, Somebodys, inventoryVars
    <2> QED
      BY <2>1, <1>1 DEF IsInvoiceOf, MayHaveCommitted, InvoiceOf, InTransaction
  <1>4. ASSUME NEW d \in Calls PROVE History(d)'
    <2>1. outcome'[d] = "ok" => HasItsEffect(d)'
      <3>1. outcome[d] = "ok" => phase[d] = "answered" /\ HasItsEffect(d)
        BY DEF AnswerInv, History
      <3> QED
        BY <1>1, <3>1, OkStays DEF InTransaction
    <2> QED
      BY <1>1, <2>1 DEF AnswerInv, History, Done
  <1>5. \A p \in Products : RowInv(p)'
    <2>1. ASSUME NEW c \in Calls PROVE Steady(c)
      BY <1>1 DEF Steady, MayHaveCommitted, Owed, Done, InTransaction
    <2> QED
      BY <1>1, <2>1, QuietRows
  <1> QED
    BY <1>2, <1>3, <1>4, <1>5 DEF AnswerInv, Somebodys

LEMMA AnswerInvStep == AnswerInv /\ [Next]_vars => AnswerInv'
  <1> SUFFICES ASSUME AnswerInv, [Next]_vars PROVE AnswerInv'
    OBVIOUS
  <1>0. TransactionInv /\ TransactionInv' /\ Grows
    BY TransactionStep, StepGrows DEF AnswerInv
  <1>1. ASSUME NEW c \in Calls,
               MissProducts(c) \/ RejectInvoice(c) \/ ReportShortages(c) \/ RefuseProduct(c) \/ Timeout(c)
        PROVE  AnswerInv'
    <2>1. phase[c] \in InTransaction /\ \E result \in Outcomes \ {"ok"} : RollBack(c, result)
      BY <1>1 DEF MissProducts, RejectInvoice, ReportShortages, RefuseProduct, Timeout, InTransaction,
                  Outcomes
    <2> QED
      BY <1>0, <2>1, RefusedStep
  <1>2. ASSUME NEW c \in Calls, Explain(c), \E result : RollBack(c, result) PROVE AnswerInv'
    <2>1. phase[c] \in InTransaction
      BY <1>2 DEF Explain, InTransaction
    <2>2. \E result \in {"shortage", "limit", "not found"} : RollBack(c, result)
      <3>1. ~Step(c, "explaining", "moving")
        BY <1>0, <1>2 DEF RollBack, Step, TransactionInv, CallTypeOK
      <3> QED
        BY <1>2, <3>1 DEF Explain
    <2> QED
      BY <1>0, <2>1, <2>2, RefusedStep DEF Outcomes
  <1>3. ASSUME NEW c \in Calls,
               \/ Receive(c) \/ LoadProducts(c) \/ TakeNumber(c) \/ BeginUpdate(c) \/ FinishUpdate(c)
               \/ Explain(c) /\ ~\E result : RollBack(c, result)
        PROVE  AnswerInv'
    <2>1. /\ UNCHANGED <<inventoryVars, events, outcome>>
          /\ \E to \in {"opening", "loading", "moving", "numbering", "waiting", "explaining"} :
                phase' = [phase EXCEPT ![c] = to]
          /\ phase[c] \in {"idle", "loading", "numbering", "moving", "waiting", "explaining"}
      BY <1>3 DEF Receive, LoadProducts, TakeNumber, BeginUpdate, FinishUpdate, Explain, Step, FirstPhase
    <2>2. \A d \in Calls \ {c} : request'[d] = request[d] /\ number'[d] = number[d] /\ staged'[d] = staged[d]
      BY <1>0, <1>3
         DEF Receive, LoadProducts, TakeNumber, BeginUpdate, FinishUpdate, Explain, TransactionInv, CallTypeOK
    <2>3. \A d \in Calls \ {c} : Same(d)
      BY <1>0, <2>1, <2>2 DEF Same, TransactionInv, CallTypeOK
    <2>4. phase'[c] \notin Done \cup {"answered"} /\ outcome'[c] = "none"
      BY <1>0, <2>1 DEF Done, AnswerInv, History, TransactionInv, CallTypeOK
    <2> QED
      BY <1>0, <2>1, <2>3, <2>4, QuietStep
  <1>4. CASE UNCHANGED vars
    <2>1. \A d \in Calls : Same(d)
      BY <1>4 DEF vars, callVars, Same
    <2>2. UNCHANGED <<inventoryVars, events>>
      BY <1>4 DEF vars
    <2>3. AnnouncedIsCommitted'
      BY <1>0, <2>2, CommittedStays DEF AnswerInv, AnnouncedIsCommitted, TransactionInv, CallTypeOK
    <2>4. \A d \in Calls : History(d)'
      BY <1>0, <2>1, <2>2, SameHistory DEF AnswerInv
    <2>5. ASSUME NEW v \in invoices' PROVE \E d \in Calls : IsInvoiceOf(v, d)'
      <3>1. PICK d \in Calls : IsInvoiceOf(v, d)
        BY <2>2, <2>5 DEF AnswerInv, Somebodys, inventoryVars
      <3> QED
        BY <2>1, <3>1 DEF IsInvoiceOf, MayHaveCommitted, InvoiceOf, Same
    <2>6. \A p \in Products : RowInv(p)'
      BY <2>1, <2>2, SameSteady, QuietRows
    <2> QED
      BY <1>0, <2>3, <2>4, <2>5, <2>6 DEF AnswerInv, Somebodys
  <1> QED
    BY <1>0, <1>1, <1>2, <1>3, <1>4, CommitAnswers, CreateAnswers, PublishAnswers, AnswerAnswers,
       LostAnswers, CrashAnswers
       DEF Next, Proceed, Over

LEMMA AnswerInvInit == Init => AnswerInv
  <1> SUFFICES ASSUME Init PROVE AnswerInv
    OBVIOUS
  <1>1. TransactionInv
    BY TransactionInit
  <1>2. invoices = {} /\ events = {}
    BY DEF Init, InventoryInit
  <1>3. \A c \in Calls : phase[c] = "idle" /\ outcome[c] = "none"
    BY DEF Init
  <1>4. ASSUME NEW p \in Products PROVE RowInv(p)
    <2>1. products = DOMAIN OpeningStock /\ ledger[p] = OpeningLedger(quantity[p])
          /\ quantity[p] = IF p \in products THEN OpeningStock[p] ELSE 0
      BY DEF Init, InventoryInit
    <2>2. quantity[p] \in Nat
      BY <2>1, StockAssumption
    <2>3. NewRows(p) = {}
      <3>1. Len(OpeningLedger(0)) = 0 /\ Len(ledger[p]) \in Nat
        BY <2>1, <2>2, OpeningTyped DEF OpeningLedger
      <3> QED
        BY <2>1, <3>1 DEF NewRows
    <2>4. PICK f : f = [i \in {} |-> 0]
      OBVIOUS
    <2>5. f \in [NewRows(p) -> Calls]
      BY <2>3, <2>4
    <2>6. AuthorInv(p, f)
      BY <1>3, <2>3 DEF AuthorInv, Owed, Done
    <2>7. Len(ledger[p]) \in Nat
      BY <2>1, <2>2, OpeningTyped
    <2> QED
      BY <2>1, <2>5, <2>6, <2>7 DEF RowInv
  <1> QED
    BY <1>1, <1>2, <1>3, <1>4 DEF AnswerInv, AnnouncedIsCommitted, Somebodys, History, Done

-----------------------------------------------------------------------------
LEMMA AnswersInvariant == Spec => []AnswerInv
  BY AnswerInvInit, AnswerInvStep, PTL DEF Spec

\* Whatever a listener hears was committed before, and stays in the tables
\* (StockMovementsService.record, InvoiceIssuerService.publish).
THEOREM EventsAreCommitted == Spec => []AnnouncedIsCommitted
  <1>1. AnswerInv => AnnouncedIsCommitted
    BY DEF AnswerInv
  <1> QED
    BY <1>1, AnswersInvariant, PTL

\* OK means done, in the ledger and in the stock, and announced; and nothing in the
\* tables is the work of a refused call (StockMovementsService.record,
\* InvoiceIssuerService.issue, ProductsService.create).
THEOREM AnswersAreRight == Spec => []AnswersAreTrue
  <1>1. ASSUME AnswerInv, NEW p \in Products PROVE StockIsAnswered(p)
    <2>1. quantity[p] = Balance(ledger[p], Len(ledger[p]))
      BY <1>1 DEF AnswerInv, TransactionInv, StockInv, LedgerExplainsStock, Explains
    <2>2. PICK author \in [NewRows(p) -> Calls] : AuthorInv(p, author)
      BY <1>1 DEF AnswerInv, RowInv
    <2>3. Accounts(p, author)
      BY <2>2 DEF AuthorInv, Accounts, Owed
    <2> QED
      BY <1>1, <2>1, <2>2, <2>3 DEF AnswerInv, RowInv, StockIsAnswered
  <1>2. AnswerInv => AnswersAreTrue
    BY <1>1 DEF AnswerInv, History, Somebodys, AnswersAreTrue
  <1> QED
    BY <1>2, AnswersInvariant, PTL
=============================================================================
