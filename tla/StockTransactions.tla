------------------------- MODULE StockTransactions -------------------------
(***************************************************************************)
(* The calls that change stock, as the transactions the API runs against   *)
(* Postgres (READ COMMITTED): manual adjustments, purchases, sales and new *)
(* products, one statement at a time, with the row locks a statement takes *)
(* and the transaction holds until it ends.                                *)
(*                                                                         *)
(* A conditional UPDATE is two steps: it evaluates its guard on the        *)
(* committed row its snapshot sees, and when that row matches it waits for *)
(* the row lock and evaluates the guard again on the row it then finds.    *)
(***************************************************************************)
EXTENDS Inventory

CONSTANTS
    Calls,          \* HTTP calls, each of which asks for one thing
    NoCall,         \* the owner of a lock that nobody holds
    Workload,       \* the requests the clients may send
    MaxCrashes      \* how often the API process may die

ASSUME CallsAssumption ==
    /\ NoCall \notin Calls
    /\ Workload \subseteq Requests
    /\ MaxCrashes \in Nat

VARIABLES
    phase,          \* where a call is
    request,        \* what it asks for
    number,         \* the invoice number its transaction took; 0 before that
    staged,         \* quantities its transaction wrote, as the UPDATEs returned them
    report,         \* products whose UPDATE was refused, with the stock then read
    outcome,        \* how it was answered
    rowLock,        \* Product row -> the call whose transaction locked it
    seqLock,        \* InvoiceSequence row -> the call whose transaction locked it
    events,         \* what was emitted on the in-process event bus
    crashes

callVars == <<phase, request, number, staged, report, outcome>>
lockVars == <<rowLock, seqLock>>
vars == <<inventoryVars, callVars, lockVars, events, crashes>>

InTransaction == {"loading", "numbering", "moving", "waiting", "explaining", "opening"}

Phases == InTransaction \cup {"idle", "committed", "published", "answered", "lost"}

Outcomes == {"none", "ok", "bad request", "not found", "conflict", "shortage",
             "limit", "error", "timeout"}

NoRequest == [reason |-> "NONE"]

\* A function from some of the products to a quantity.
IsPartial(f) ==
    /\ DOMAIN f \subseteq Products
    /\ f = [p \in DOMAIN f |-> f[p]]
    /\ \A p \in DOMAIN f : f[p] \in Int

Nothing == [p \in {} |-> 0]

With(f, p, n) == [q \in DOMAIN f \cup {p} |-> IF q = p THEN n ELSE f[q]]

Events ==
    [event : {"stock.updated", "product.created"}, product : Products, quantity : Int]
        \cup [event : {"invoice.created"}, id : InvoiceIds]

TypeOK ==
    /\ InventoryTypeOK
    /\ phase \in [Calls -> Phases]
    /\ request \in [Calls -> Requests \cup {NoRequest}]
    /\ number \in [Calls -> Nat]
    /\ staged = [c \in Calls |-> staged[c]]
    /\ report = [c \in Calls |-> report[c]]
    /\ \A c \in Calls : IsPartial(staged[c]) /\ IsPartial(report[c])
    /\ outcome \in [Calls -> Outcomes]
    /\ rowLock \in [Products -> Calls \cup {NoCall}]
    /\ seqLock \in [SequenceKeys -> Calls \cup {NoCall}]
    /\ events \subseteq Events
    /\ crashes \in Nat

Init ==
    /\ InventoryInit
    /\ phase = [c \in Calls |-> "idle"]
    /\ request = [c \in Calls |-> NoRequest]
    /\ number = [c \in Calls |-> 0]
    /\ staged = [c \in Calls |-> Nothing]
    /\ report = [c \in Calls |-> Nothing]
    /\ outcome = [c \in Calls |-> "none"]
    /\ rowLock = [p \in Products |-> NoCall]
    /\ seqLock = [k \in SequenceKeys |-> NoCall]
    /\ events = {}
    /\ crashes = 0

(***************************************************************************)
(* What a transaction has left to do.                                      *)
(***************************************************************************)
Remaining(c) == DOMAIN request[c].lines \ (DOMAIN staged[c] \cup DOMAIN report[c])

\* MUTANT: a purchase takes its rows in the opposite order.
IsNextUnsorted(c, p) ==
    /\ p \in Remaining(c)
    /\ \A q \in Remaining(c) : IF request[c].reason = "PURCHASE" THEN q <= p ELSE p <= q

\* All invoice transactions take product rows in the order of their ids.
IsNext(c, p) == p \in Remaining(c) /\ \A q \in Remaining(c) : p <= q

Fitting(c, p) == Guard(MovementType(request[c]), request[c].lines[p], quantity[p])

\* MUTANT: the guard the snapshot satisfied is trusted after the lock wait.
FitsUnchecked(c, p) == TRUE

\* The guard, evaluated again on the row that the lock protects.
FitsStill(c, p) == Fitting(c, p)

\* MUTANT: an update that waits for nobody.
RowUnguarded(p) == TRUE

RowIsFree(p) == rowLock[p] = NoCall

\* MUTANT: the sequence row is never unlocked.
ReleaseRowsOnly(c) ==
    /\ rowLock' = [p \in Products |-> IF rowLock[p] = c THEN NoCall ELSE rowLock[p]]
    /\ UNCHANGED seqLock

ReleaseLocks(c) ==
    /\ rowLock' = [p \in Products |-> IF rowLock[p] = c THEN NoCall ELSE rowLock[p]]
    /\ seqLock' = [k \in SequenceKeys |-> IF seqLock[k] = c THEN NoCall ELSE seqLock[k]]

\* The callback threw, or the transaction ran out of time: nothing it wrote
\* survives, its invoice number included, and its locks are free.
RollBack(c, result) ==
    /\ phase' = [phase EXCEPT ![c] = "answered"]
    /\ outcome' = [outcome EXCEPT ![c] = result]
    /\ number' = [number EXCEPT ![c] = 0]
    /\ staged' = [staged EXCEPT ![c] = Nothing]
    /\ ReleaseLocks(c)
    /\ UNCHANGED <<inventoryVars, request, events, crashes>>

Step(c, from, to) ==
    /\ phase[c] = from
    /\ phase' = [phase EXCEPT ![c] = to]

(***************************************************************************)
(* A call and its transaction, one statement at a time.                    *)
(***************************************************************************)
FirstPhase(r) ==
    IF r.reason = "OPENING" THEN "opening" ELSE IF IsInvoice(r) THEN "loading" ELSE "moving"

Receive(c) ==
    \E r \in Workload :
        /\ Step(c, "idle", FirstPhase(r))
        /\ request' = [request EXCEPT ![c] = r]
        /\ UNCHANGED <<inventoryVars, number, staged, report, outcome, lockVars, events, crashes>>

\* An invoice reads all its products before it writes anything.
LoadProducts(c) ==
    /\ Step(c, "loading", "numbering")
    /\ DOMAIN request[c].lines \subseteq products
    /\ UNCHANGED <<inventoryVars, request, number, staged, report, outcome, lockVars, events, crashes>>

MissProducts(c) ==
    /\ phase[c] = "loading"
    /\ ~(DOMAIN request[c].lines \subseteq products)
    /\ RollBack(c, "not found")
    /\ UNCHANGED report

\* A date in the future, or a total above INVOICE_AMOUNT_MAX: dates and amounts
\* are data this module leaves out, so any invoice may be turned down for them.
RejectInvoice(c) ==
    /\ phase[c] = "numbering"
    /\ RollBack(c, "bad request")
    /\ UNCHANGED report

\* MUTANT: the number comes from a counter outside the transaction.
TakeNumberForGood(c) ==
    LET k == SequenceKey(request[c])
    IN  /\ Step(c, "numbering", "moving")
        /\ seqLock[k] = NoCall
        /\ number' = [number EXCEPT ![c] = lastNumber[k] + 1]
        /\ lastNumber' = [lastNumber EXCEPT ![k] = @ + 1]
        /\ UNCHANGED <<products, quantity, ledger, invoices, request, staged, report, outcome,
                       lockVars, events, crashes>>

\* MUTANT: the row is read and not locked.
TakeNumberUnlocked(c) ==
    LET k == SequenceKey(request[c])
    IN  /\ Step(c, "numbering", "moving")
        /\ number' = [number EXCEPT ![c] = lastNumber[k] + 1]
        /\ UNCHANGED <<inventoryVars, request, staged, report, outcome, lockVars, events, crashes>>

\* The statement increments the row and holds it until the transaction ends, and
\* the invoice is inserted with that number.
TakeNumber(c) ==
    LET k == SequenceKey(request[c])
    IN  /\ Step(c, "numbering", "moving")
        /\ seqLock[k] = NoCall
        /\ seqLock' = [seqLock EXCEPT ![k] = c]
        /\ number' = [number EXCEPT ![c] = lastNumber[k] + 1]
        /\ UNCHANGED <<inventoryVars, request, staged, report, outcome, rowLock, events, crashes>>

\* UPDATE ... WHERE id = $1 AND quantity >= $2, on the statement's snapshot.
BeginUpdate(c) ==
    /\ phase[c] = "moving"
    /\ \E p \in Products :
        /\ IsNext(c, p)
        /\ Step(c, "moving", IF p \in products /\ Fitting(c, p) THEN "waiting" ELSE "explaining")
        /\ UNCHANGED <<inventoryVars, request, number, staged, report, outcome, lockVars, events, crashes>>

\* The row lock is free: the guard is evaluated again on the latest committed
\* row. The lock is kept even when the row no longer matches.
FinishUpdate(c) ==
    /\ phase[c] = "waiting"
    /\ \E p \in Products :
        LET r == request[c]
            fits == FitsStill(c, p)
        IN  /\ IsNext(c, p)
            /\ Step(c, "waiting", IF fits THEN "moving" ELSE "explaining")
            /\ RowIsFree(p)
            /\ rowLock' = [rowLock EXCEPT ![p] = c]
            /\ staged' = IF fits
                         THEN [staged EXCEPT ![c] =
                                 With(@, p, Changed(MovementType(r), r.lines[p], quantity[p]))]
                         ELSE staged
            /\ UNCHANGED <<inventoryVars, request, number, report, outcome, seqLock, events, crashes>>

\* explainRejectedChange reads the product again, in a statement of its own. A
\* sale notes the shortage and goes on with its next line; what else is refused
\* ends the transaction at once.
Explain(c) ==
    /\ phase[c] = "explaining"
    /\ \E p \in Products :
        LET r == request[c]
            short == With(report[c], p, quantity[p])
        IN  /\ IsNext(c, p)
            /\ \/ /\ p \in products /\ r.reason = "SALE"
                  /\ Step(c, "explaining", "moving")
                  /\ report' = [report EXCEPT ![c] = short]
                  /\ UNCHANGED <<inventoryVars, request, number, staged, outcome, lockVars, events, crashes>>
               \/ /\ p \in products /\ r.reason # "SALE" /\ MovementType(r) = "OUT"
                  /\ RollBack(c, "shortage")
                  /\ report' = [report EXCEPT ![c] = short]
               \/ /\ p \in products /\ MovementType(r) = "IN"
                  /\ RollBack(c, "limit")
                  /\ UNCHANGED report
               \/ /\ p \notin products
                  /\ RollBack(c, "not found")
                  /\ UNCHANGED report

\* MUTANT: the first shortage ends the sale.
ReportFirstShortage(c) ==
    /\ phase[c] = "moving"
    /\ DOMAIN report[c] # {}
    /\ RollBack(c, "shortage")
    /\ UNCHANGED report

\* Every line was tried and some were refused: the sale fails as a whole.
ReportShortages(c) ==
    /\ phase[c] = "moving"
    /\ Remaining(c) = {}
    /\ DOMAIN report[c] # {}
    /\ RollBack(c, "shortage")
    /\ UNCHANGED report

\* MUTANT: the movements of an invoice do not name it.
InvoiceForgotten(c) == NoInvoice

\* The invoice the movements belong to.
InvoiceOf(c) ==
    IF IsInvoice(request[c]) THEN <<SequenceKey(request[c]), number[c]>> ELSE NoInvoice

\* Every line was taken: what the transaction wrote becomes visible at once.
Commit(c) ==
    LET r == request[c]
    IN  /\ Step(c, "moving", "committed")
        /\ Remaining(c) = {}
        /\ DOMAIN report[c] = {}
        /\ Move(r, staged[c], InvoiceOf(c))
        /\ IF IsInvoice(r) THEN Number(r, number[c]) ELSE UNCHANGED <<invoices, lastNumber>>
        /\ ReleaseLocks(c)
        /\ UNCHANGED <<products, request, number, staged, report, outcome, events, crashes>>

(***************************************************************************)
(* A new product and its opening movement are one nested write. Its id     *)
(* stands for its SKU, which is unique; the column bounds its quantity.    *)
(***************************************************************************)
\* MUTANT: nothing bounds the opening quantity.
CreateProductUnbounded(c) ==
    LET r == request[c]
    IN  /\ Step(c, "opening", "committed")
        /\ Open(r.product, r.quantity)
        /\ UNCHANGED <<request, number, staged, report, outcome, lockVars, events, crashes>>

CreateProduct(c) ==
    LET r == request[c]
    IN  /\ Step(c, "opening", "committed")
        /\ r.quantity <= StockMax
        /\ Open(r.product, r.quantity)
        /\ UNCHANGED <<request, number, staged, report, outcome, lockVars, events, crashes>>

RefuseProduct(c) ==
    /\ phase[c] = "opening"
    /\ \/ request[c].product \in products /\ RollBack(c, "conflict")
       \/ request[c].quantity > StockMax /\ RollBack(c, "error")
    /\ UNCHANGED report

(***************************************************************************)
(* After the commit: the events, then the answer.                          *)
(***************************************************************************)
StockUpdated(c) ==
    {[event |-> "stock.updated", product |-> p, quantity |-> staged[c][p]] : p \in DOMAIN staged[c]}

ProductCreated(r) ==
    [event |-> "product.created", product |-> r.product, quantity |-> r.quantity]

InvoiceCreated(c) == [event |-> "invoice.created", id |-> InvoiceOf(c)]

\* MUTANT: the ledger emits while the transaction is still open.
PublishEarly(c) ==
    /\ phase[c] \in {"moving", "committed"}
    /\ phase' = [phase EXCEPT ![c] = IF @ = "committed" THEN "published" ELSE @]
    /\ events' = events \cup (IF request[c].reason = "OPENING"
                              THEN {ProductCreated(request[c])}
                              ELSE StockUpdated(c))
    /\ UNCHANGED <<inventoryVars, request, number, staged, report, outcome, lockVars, crashes>>

\* One turn of the event loop emits the stock updates of every line.
Publish(c) ==
    /\ Step(c, "committed", "published")
    /\ events' = events \cup (IF request[c].reason = "OPENING"
                              THEN {ProductCreated(request[c])}
                              ELSE StockUpdated(c))
    /\ UNCHANGED <<inventoryVars, request, number, staged, report, outcome, lockVars, crashes>>

\* Once their listeners are done, the invoice is announced and the call answered.
Answer(c) ==
    /\ Step(c, "published", "answered")
    /\ outcome' = [outcome EXCEPT ![c] = "ok"]
    /\ events' = IF IsInvoice(request[c]) THEN events \cup {InvoiceCreated(c)} ELSE events
    /\ UNCHANGED <<inventoryVars, request, number, staged, report, lockVars, crashes>>

(***************************************************************************)
(* What goes wrong around a call.                                          *)
(***************************************************************************)
\* Prisma ends a transaction that has no connection or no more time.
Timeout(c) ==
    /\ phase[c] \in InTransaction
    /\ RollBack(c, "timeout")
    /\ UNCHANGED report

\* The COMMIT went through and the connection broke before its acknowledgement:
\* the call fails, and nothing of what it did is announced.
LoseAcknowledgement(c) ==
    /\ Step(c, "committed", "answered")
    /\ outcome' = [outcome EXCEPT ![c] = "error"]
    /\ UNCHANGED <<inventoryVars, request, number, staged, report, lockVars, events, crashes>>

\* The API process dies: Postgres rolls back what was open, and what was
\* committed but not yet announced is never announced.
Crash ==
    /\ crashes < MaxCrashes
    /\ crashes' = crashes + 1
    /\ phase' = [c \in Calls |-> IF phase[c] \in {"idle", "answered"} THEN phase[c] ELSE "lost"]
    /\ number' = [c \in Calls |-> IF phase[c] \in InTransaction THEN 0 ELSE number[c]]
    /\ staged' = [c \in Calls |-> IF phase[c] \in InTransaction THEN Nothing ELSE staged[c]]
    /\ rowLock' = [p \in Products |-> NoCall]
    /\ seqLock' = [k \in SequenceKeys |-> NoCall]
    /\ UNCHANGED <<inventoryVars, request, report, outcome, events>>

\* Nothing is left to do: the calls of this instance are over.
Over ==
    /\ \A c \in Calls : phase[c] \in {"answered", "lost"}
    /\ UNCHANGED vars

Proceed(c) ==
    \/ LoadProducts(c) \/ MissProducts(c)
    \/ TakeNumber(c)
    \/ BeginUpdate(c) \/ FinishUpdate(c) \/ Explain(c)
    \/ ReportShortages(c) \/ Commit(c)
    \/ CreateProduct(c) \/ RefuseProduct(c)
    \/ Publish(c) \/ Answer(c)

Next ==
    \/ \E c \in Calls :
          Receive(c) \/ Proceed(c) \/ RejectInvoice(c) \/ Timeout(c) \/ LoseAcknowledgement(c)
    \/ Crash
    \/ Over

Spec == Init /\ [][Next]_vars

\* The event loop runs every call whose statement has come back, and Postgres
\* grants a lock that is free. No timeout is needed, and none is assumed.
Fairness == \A c \in Calls : WF_vars(Proceed(c))

FairSpec == Spec /\ Fairness

-----------------------------------------------------------------------------
(***************************************************************************)
(* Properties. Those of the committed tables are stated in Inventory.      *)
(***************************************************************************)

\* No group of calls waits for each other's locks: every transaction takes its
\* sequence row before any product row, and product rows in the order of their
\* ids, so Postgres never has to break a deadlock (invoice-issuer.service.ts).
WaitsFor(c, d) ==
    \/ phase[c] = "numbering" /\ seqLock[SequenceKey(request[c])] = d
    \/ phase[c] = "waiting" /\ \E p \in Products : IsNext(c, p) /\ rowLock[p] = d

NoCircularWait ==
    \A S \in SUBSET Calls : S # {} => \E c \in S : \A d \in S : ~WaitsFor(c, d)

\* The order behind it: the rows a waiting transaction has locked all come
\* before the row it waits for, and none is locked before the sequence row.
LocksClimb ==
    \A c \in Calls :
        /\ phase[c] \in {"loading", "numbering"} =>
              /\ \A p \in Products : rowLock[p] # c
              /\ \A k \in SequenceKeys : seqLock[k] # c
        /\ \A p, q \in Products :
              phase[c] = "waiting" /\ IsNext(c, p) /\ rowLock[q] = c => q < p

\* A call that is now told of a shortage could have taken every other line.
ReportsEveryShortage(c) ==
    outcome[c] # "shortage" /\ outcome'[c] = "shortage" =>
        \A p \in DOMAIN request[c].lines \ DOMAIN report'[c] : Fitting(c, p)

\* When a sale fails for a shortage, its report names EVERY short line: a line
\* that is not in the report could have been taken from the stock of that very
\* moment, since its row was still locked (applyMovements keeps going).
ShortageReportComplete == [][\A c \in Calls : ReportsEveryShortage(c)]_vars

\* What a listener hears has been committed: a stock update announces a quantity
\* some ledger row left, an invoice or a product announced is in its table. The
\* ledger service has no event emitter; its callers emit only after the commit.
IsCommitted(e) ==
    CASE e.event = "stock.updated" ->
           \E i \in 1..Len(ledger[e.product]) : ledger[e.product][i].after = e.quantity
      [] e.event = "product.created" ->
           e.product \in products /\ (e.quantity > 0 => ledger[e.product] # <<>>
                                         /\ ledger[e.product][1].after = e.quantity)
      [] e.event = "invoice.created" -> \E v \in invoices : v.id = e.id

AnnouncedIsCommitted == \A e \in events : IsCommitted(e)

\* The ledger rows of p that were not there at the start.
NewRows(p) ==
    {i \in 1..Len(ledger[p]) :
        p \in DOMAIN OpeningStock => i > Len(OpeningLedger(OpeningStock[p]))}

\* Unless its caller was told that nothing happened: an "error" is also what a
\* caller hears whose commit lost its acknowledgement.
MayHaveCommitted(c) ==
    /\ phase[c] \in {"committed", "published", "answered", "lost"}
    /\ outcome[c] \in {"none", "ok", "error"}

Opens(c, p) ==
    LET r == request[c]
    IN  MayHaveCommitted(c) /\ r.reason = "OPENING" /\ r.product = p /\ r.quantity <= StockMax

\* The row is what the call did to p, and it left a stock the column holds.
IsRowOf(row, p, c) ==
    LET r == request[c]
    IN  /\ MayHaveCommitted(c)
        /\ row.after \in 0..StockMax
        /\ IF r.reason = "OPENING"
           THEN Opens(c, p) /\ <<row>> = OpeningLedger(r.quantity)
           ELSE p \in DOMAIN staged[c] /\ row = Movement(r, p, staged[c][p], InvoiceOf(c))

\* A request writes one row for each of its lines, or the opening movement.
WritesTo(r, p) ==
    IF r.reason = "OPENING" THEN p = r.product /\ r.quantity > 0 ELSE p \in DOMAIN r.lines

\* Every new row is the work of one call, no two rows of a product are that of the
\* same call, and a call that was answered OK has its row: `author` says whose.
Accounts(p, author) ==
    /\ \A i \in NewRows(p) : IsRowOf(ledger[p][i], p, author[i])
    /\ \A i, j \in NewRows(p) : author[i] = author[j] => i = j
    /\ \A c \in Calls :
         outcome[c] = "ok" /\ WritesTo(request[c], p) => \E i \in NewRows(p) : author[i] = c

StockIsAnswered(p) ==
    /\ quantity[p] = Balance(ledger[p], Len(ledger[p]))
    /\ \E author \in [NewRows(p) -> Calls] : Accounts(p, author)
    /\ p \in products \ DOMAIN OpeningStock => \E c \in Calls : Opens(c, p)

HasItsEffect(c) ==
    LET r == request[c]
    IN  IF r.reason = "OPENING"
        THEN r.product \in products /\ ProductCreated(r) \in events
        ELSE /\ StockUpdated(c) \subseteq events
             /\ DOMAIN staged[c] = DOMAIN r.lines
             /\ IsInvoice(r) =>
                  /\ InvoiceCreated(c) \in events
                  /\ [id |-> InvoiceOf(c), lines |-> r.lines] \in invoices

IsInvoiceOf(v, c) ==
    /\ IsInvoice(request[c])
    /\ v = [id |-> InvoiceOf(c), lines |-> request[c].lines]
    /\ MayHaveCommitted(c)

\* A call answered OK has had all its effect, on the stock and in the ledger, and
\* all of it was announced; a call that was refused has had none: every ledger
\* row, every product and every invoice since the start is that of a call which
\* was answered OK, never heard back, or lost its answer with the database's.
AnswersAreTrue ==
    /\ \A c \in Calls : outcome[c] = "ok" => HasItsEffect(c)
    /\ \A p \in Products : StockIsAnswered(p)
    /\ \A v \in invoices : \E c \in Calls : IsInvoiceOf(v, c)

\* Every call is answered, or lost with the process, without any timeout: locks
\* are always released, so the calls queueing for them get their turn.
EveryCallEnds ==
    \A c \in Calls :
        (phase[c] \notin {"idle"}) ~> (phase[c] \in {"answered", "lost"})
=============================================================================
