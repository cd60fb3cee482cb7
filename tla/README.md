# A verification of the inventory and invoicing system

TLA+ modules, TLC runs and TLAPS proofs for the program under `src/`: a NestJS API over Postgres and
Redis (`src/api`), a Next.js front end (`src/web`) and the event stream between them. `PROJECT.json`
lists components, runs, mutants, the source lines behind every definition, hazards, findings and theorems.

## 1. The system

Paths are relative to `src/api/src` unless they begin with `web/`.

| Component | State | Operations | What is hard about it | What makes it correct |
|---|---|---|---|---|
| Stock ledger (`stock-movements/stock-ledger.service.ts`) and adjustments (`stock-movements.service.ts`) | `Product.quantity`, `StockMovement` rows | `applyMovement` (conditional UPDATE, ledger row), `explainRejectedChange`, `record` | concurrent calls on one row under READ COMMITTED, the limits of the column | no oversell, no overflow, no lost update; the ledger explains the stock |
| Invoice issuing (`invoices/invoice-issuer.service.ts`, `invoice-number.service.ts`) | `Invoice`, `InvoiceLine`, `InvoiceSequence` rows | `issue`: load, total, number, insert, one movement per line, publish | several rows in one transaction, rollbacks after a number was taken, timeouts | all or nothing, gap-free numbers, no deadlock, complete shortage reports |
| Product catalogue (`products/products.service.ts`) | `Product` rows | `create` with its opening movement, `findPage`, `findLowStock` | products that appear while others ask for them, a commit whose acknowledgement is lost | opening stock is in the ledger, unique SKU |
| Low-stock cache (`products/low-stock.cache.ts`, `redis/redis.service.ts`) | one Redis key per threshold | `get`, `set`, `invalidateAll`, flush on `ready` | readers that race writers, outages, timeouts, an incremental SCAN | staleness is bounded, Redis never fails a request |
| Event stream (`events/stock-stream.service.ts`, `web/hooks/useStockStream.ts`) | open SSE connections, events under way | publish, connect, retry, complete on shutdown | lost and reordered events, reconnects | only committed changes are announced; the stream always reopens |
| Inventory dashboard (`web/lib/inventory.ts`, `web/components/InventoryDashboard.tsx`, `web/lib/snapshot.ts`) | table, low-stock panel, resync buffer | reducer, resync on open | snapshots that race events, overlapping resyncs | a page at rest shows the committed stock |
| Invoice list (`web/components/invoices/InvoicesView.tsx`, `web/lib/invoices.ts`) | rows, filters, cursor, number of the latest request | replace, append, merge, live rows | loads that supersede each other, a gap after a long outage | the rows are those of the filter, without gaps |
| Sales page (`web/components/sales/SalesView.tsx`) | product list | live updates, reload on open | a reload that overwrites a newer event, answers that overtake each other | shows the committed stock as far as a page without a buffer can |
| Invoice PDF store (`invoices/pdf/invoice-pdf.service.ts`) | files, generations in flight | render, temp file, rename, read or render | concurrent renders, crashes | a reader gets a whole file of the right invoice |
| Invoice PDF layout (`invoices/pdf/invoice-pdf.renderer.ts`) | the cursor on the page | header, table, totals, footers, page breaks | a row or a block that only just does not fit, lines read in any order | everything once, in order, on its page, nothing on top of something else |
| Pages (`invoices/invoices.service.ts`, `common/pagination`) | none | keyset pages | inserts between two pages | no row twice, none skipped |
| Money (`common/money.ts`, `web/lib/money.ts`) | none | lines, tax, totals, preview | rounding at half a cent | preview and invoice agree; the CHECKs hold |
| Dates (`invoices/invoice-date.ts`, `common/calendar-date.ts`) | none | business day of an invoice | midnight, time zones | never in the future, the right year's sequence |
| Invoice forms (`web/hooks/useInvoiceForm.ts`, `useLineItems.ts`) | lines, submit lifecycle | add, remove, submit, reset | an answer lost after the commit | a draft is invoiced once |
| Adjustment and product dialogs (`web/components/MovementForm.tsx`, `AddProductDialog.tsx`) | selection, entry, message and its timer, one request each | select, enter, submit, open, close | a table that changes under the form, timers and answers of earlier requests | nothing is sent twice unawares, cleared too early or left disabled |
| Row highlight (`web/hooks/useRecentlyChanged.ts`) | ids and timers | mark, expire | a change just before the end | one live timer per highlighted row |
| Configuration, error mapping, Swagger, wiring, Prisma client, static views | none of their own | | | not modelled, see section 7 |

How they interact. An HTTP call opens a transaction in Postgres; its statements take row locks that
are held until it commits. After the commit, in the same process, `stock.updated` is emitted on the
event bus: the cache invalidation and the SSE publication are its listeners, and the call awaits
them before it answers (an invoice then emits `invoice.created`, which also starts the PDF). Creating
a product awaits the invalidation and then emits `product.created`. Browsers hold one `EventSource`
and reload from REST whenever it opens.

## 2. Modules

    Stock  <--  Inventory  <--  StockTransactions  <--  MCStockTransactions,  StockTransactionsProofs

    ProductTable  <==  Dashboard  <--  MCDashboard,  DashboardProofs
         ^
      PageForms   <--  MCPageForms,  PageFormsProofs

    LowStockCache  <--  MCLowStockCache,  LowStockCacheProofs
    InvoiceList    <--  MCInvoiceList,  InvoiceListProofs
    InvoiceLayout  <--  InvoicePdf  <--  MCInvoicePdf,  InvoicePdfProofs
    Money  <--  InvoiceForm  <--  MCInvoiceForm,  InvoiceFormProofs

    NaturalLemmas  <--  every module of proofs but LowStockCacheProofs

`<--` is EXTENDS, read from right to left; `<==` is a refinement (`INSTANCE ... WITH`). `StockTransactions` refines
`Inventory` too: it extends it, and the mapping is the identity on the committed tables.

* **Stock**: the vocabulary: the requests clients can send, what a movement does to a quantity
  (`Guard`, `Changed`) and the ledger row it leaves (`Movement`).
* **Inventory**: the abstract specification of the API's tables. A request takes effect in one atomic step on every
  product it names, with its ledger rows, its invoice and its number, or not at all.
* **StockTransactions**: what the API really runs. Each call goes through the statements of its
  transaction: `LoadProducts`, `TakeNumber` (the `INSERT ... ON CONFLICT` that locks the sequence row), then
  per line `BeginUpdate` (the guard on the statement's snapshot), `FinishUpdate` (lock wait, guard again on
  the row it then finds), `Explain` (the second SELECT of a refused UPDATE), and `Commit`; then `Publish`
  and `Answer`. `Timeout` ends a transaction anywhere, `LoseAcknowledgement` fails a call whose COMMIT went
  through, `Crash` loses the process. Prices, notes, names
  and dates are left out; that an invoice may be refused for its date or its total is `RejectInvoice`. What a
  transaction writes is private (`staged`) until it commits, so the committed tables are Inventory's variables.
* **LowStockCache**: cache-aside readers (`Get`, `Query`, `Set`), writers that commit, invalidate and answer,
  `invalidateAll` batch by batch (`Scan`, `Unlink`, `GiveUp`), and a connection that drops, returns (`Reconnect`
  starts the flush) and whose commands may time out, having reached Redis or not. A list is known by the version
  of the stock it was read from. The API may start with or without a connection, and to entries it left behind (`Surviving`): with
  one, the first `ready` has already begun its flush. An invoice runs one invalidation per line at the same time; more writers stand for those.
* **ProductTable**: the abstract specification of a list of products on a page, as the forms on it see it: it grows at its
  end by products that exist, and is replaced by the first page of what was committed at some earlier moment.
* **Dashboard**: a page kept up to date by the stream, the dashboard or the sales page (`kind`). Calls commit and publish
  in any order, or lose their acknowledgement; a stream keeps order and loses what it holds when it breaks; the API
  restarts. The dashboard has the reducer and the resync with its two reads, buffer, supersession and failure
  (`Settled(f)` is what `.finally` leaves); the sales page shows every answer as it comes. The low-stock list is
  cut at `LowStockMaxItems` and may be old: `ReadLowStock` answers any list in `lists`, which are those of this moment and of all
  earlier ones, so that whatever LowStockCache's entries can hold is among them. The ghost variable `misread` has the products of
  which the last such answer said something else than the tables. The order of the panel's rows is left out. A row remembers the commit it is of, which is not displayed, so that properties can tell older rows from newer.
* **PageForms**: what is beside that table: the adjustment form (selection, entry, one request, the message and the timer that
  clears a success), the dialog that adds a product (which can be closed and opened again while it waits), and the highlight of
  changed rows with one timer per row. The table moves as ProductTable says, which Dashboard is shown to do.
  An answer may be lost while its request is still at work. Time is counted in ticks while a highlight is on.
* **InvoiceList**: invoices in the order of their creation, announced in any order or, when the acknowledgement of their COMMIT is
  lost or the process dies first (`LoseAcknowledgement`), never; the page's three kinds of load with
  their request numbers (`Load`, `Read`, `Show`, `FailLoad`), filters, live rows, and the merge on every open. Rows are a set:
  the list is sorted on display. Ghost variables say what happened to the rows since the filter changed, since the
  stream opened, whether a page replaced a live row, which invoices were never announced (`unannounced`) and up to which one the
  last first page was read (`seen`), so that the properties can name those cases.
* **InvoiceLayout**: what the renderer draws, as boxes on pages: the cursor through header, heading, rows, totals and footers,
  and where a page is begun. Texts are the heights they take; columns, fonts and colours are left out.
* **InvoicePdf**: the render an event starts and those of requests, each with its read, temporary file, rename and
  failures of the storage; the process may crash, and the database may be reset while the files stay. A document is known by the
  invoice it shows: InvoiceLayout draws the same whatever order the lines were read in, which `ServedIsReadable` checks.
  Errors while a document is drawn are left out.
* **Money**: rounding, lines, tax and totals, once as the API's decimals and once as the browser's integer cents. Parsing and
  formatting are left out: an amount is its number of cents.
* **InvoiceForm**: the form of a purchase or a sale with its lines, date and submission; the request at the API (`Begin` resolves the
  date, `Issue` commits); the answer, or its loss, after which the request may still be at work; midnight. The line that is edited is found by
  its place, which is the same as by its key since keys are distinct (`TypeOK`). Ghost variables number the drafts, remember the
  date the user picked for the present one, and count lost answers.

Definitions that begin `MUTANT:` are plausible bugs, used only to show that a property can fail; no specification uses them.

## 3. Runs

| Run | Question | Distinct states |
|---|---|---|
| `stock_contention` | Is stock safe, does nobody wait in a circle, are shortage reports complete, does every commit implement a step of Inventory, and does every call end? | 91,599 |
| `stock_effects` | Are numbers gap-free and invoices all-or-nothing, is only what committed announced, and is an answer true, through failures, timeouts, lost acknowledgements and a crash? | 261,055 |
| `low_stock_cache` | Where can a stale list come from, does staleness end, and does no request wait for Redis? | 209,446 |
| `dashboard_resync` | Does either page always come to rest, does it then show the committed stock, does no reload take a row back, and is it a ProductTable? | 689,183 |
| `page_forms` | Is nothing recorded twice unawares, do messages, input and highlights stay as long as they should, and does everything settle? | 649,729 |
| `pdf_files` | Is what is served and stored whole, the invoice's own and readable, and is every request for an invoice that exists served? | 287,768 |
| `invoice_rows` | Do the rows match the filter, without gaps, whatever loads overlap or fail and whatever is never announced? | 4,431,875 |
| `invoice_form` | Is a draft invoiced once, on the date the user wanted and for the total the user saw, whatever is lost or retried? | 190,502 |
| `read_your_writes`, `new_products`, `invoice_filter`, `adjusted_product` | Findings, section 6 | stop at the counterexample |

Bounds.

* **Transactions.** Three calls are enough for a holder, a waiter and a third that arrives; two products with stock and a
  third to be created are enough for two opposite lock orders; stock is at most 3, so both ends of the column
  are met with requests of 1 and 2; two years give four sequences. Each workload (`MCStockTransactions`) contains requests that
  fit, that do not fit, and that fit only if another call has not come first. Symmetry is used only for safety
  (calls are interchangeable).
* **Cache.** A reader, a writer and two keys, so that a SCAN can split and a store can fall before, between and after its batches;
  the writer changes the stock once, the connection drops once and one command times out. Either key may have survived from before.
  The counterexample's run has two readers, an empty cache and no faults, so that what it finds is the race and nothing else.
* **Dashboard.** One loaded product and one that may be created, whose id is the smaller: it was drawn first and commits later.
  A page of one row, two commits, one fault and one restart, so that up to three resyncs follow each other, and two in flight. The low-stock list holds one product of
  the two that may be low, and there are up to three lists an answer may come from.
* **Page forms.** One product from the start and one to come, two requests, one lost answer, two changes, highlights of one tick:
  enough to retry an adjustment, to reopen the dialog on an unanswered request, and to change a row again while it is lit.
* **PDFs.** Two invoices with one number, before and after a reset, two requests, a storage failure and a crash. The layout is evaluated
  for every invoice of up to four lines, of one row or three, read in any order, under headers of every height
  that leaves the heading its place: on pages of seven rows a document takes up to four of them. The margin has just room for the
  page's number.
* **Invoice list.** Three invoices of two types on pages of two; two more may be issued, and three loads
  started, so that a load can be superseded by one that is superseded itself. Two faults, each a break of the stream or an announcement that is
  lost, so that one can follow the other.
* **Invoice form.** Up to two lines of two products, submitted twice, which is enough to retry a draft or to fill in a second one,
  with a lost answer; the prices make a tax of half a cent, and totals on both sides of the limit.

Deadlock is checked in the transaction, cache and page form runs; on the dashboard, the invoice list, the PDFs and the invoice form nothing
is left to do once everything that is bounded has happened, so there `CHECK_DEADLOCK` is off.

## 4. Properties

* `StockWithinColumn`, `LedgerExplainsStock`: no oversell, no overflow, no lost or doubled update.
* `GapFreeNumbers`, `InvoiceAllOrNothing`: numbers 1 to n, each once; an invoice and its movements live and die together.
* `NoCircularWait`: no calls wait for each other in a circle, so Postgres never has to break a deadlock.
* `ShortageReportComplete` (action property): a refused sale names every line that was short.
* `AnnouncedIsCommitted`, `AnswersAreTrue`: events and answers come after the commit and say what it did. A call that was answered OK has had its whole
  effect, announced; every ledger row since the start belongs to one call that was not refused, no two rows of a product to the same one; every new product and
  every invoice is such a call's too; and stock is what the rows make of it, within its column. So a refused call has had no effect.
* `InventorySpec`, `IsProductTable`: the two refinements.
* `StaleOnlyByRace`: while commands answer in time, a list older than an answered change comes only from a reader
  overtaken between its query and its store; entries that survive an outage never outlive the flush.
* `StalenessEnds`, `RequestsEnd`: the TTL bounds staleness whatever was lost; Redis never holds a request.
* `TableIsRight`, `PanelIsRight`: a page at rest shows the committed stock, except for a product whose last two events
  were published in the wrong order (which the code's README admits and plans to solve with a version column), one whose last
  change was never published, and on the sales page one whose event raced a reload. The panel has one exception more: what
  the last list it read had wrong, because it came old from the cache (finding 1) or was cut at its limit, stays wrong until the next reload
  or event of that product (`misread`).
* `NothingTakenBack`: no reload of the dashboard replaces a row by an older one; this is what the resync's buffer is for.
* `MessagesStay`, `AnswersKeepInput`, `HighlightLasts` (action properties): a message is not cleared by the timer of another
  one, an answer clears no input but that of its own product, a highlight lasts its time since the latest change.
* `AdjustedOnce`: an adjustment is recorded at most once more than answers to it were lost; `SettlesDown`: nothing stays disabled,
  and no success message or highlight stays for ever.
* `RowsMatchFilter`, `RowsAreWhole`: once a filter's own page was shown only its rows come in, and the rows of a page at rest have no gap
  down to the cursor, except in the cases the findings name, after an outage longer than a page, and for an invoice whose announcement
  was lost, which is missing until a first page is read after it.
* `ServedIsOwnAndWhole`, `StoredStays`, `NoLitter`: a request gets the whole document of its own invoice, a stored file never changes, and
  temporary files outlive only a crash. `ServedIsReadable`: what is served has every line, total and footer once, lines in order
  below a heading, nothing off its page or on top of something else, and the totals together.
* `DraftsAreInvoiced`: a draft has at most one invoice more than answers were lost to it (requests carry no idempotency key, which the
  code's README admits), and the form is never cleared without one. `DateIsWanted`: no date that went stale past midnight, or was picked for an
  earlier draft. `PreviewIsInvoiced`: the total on screen is the total invoiced.
* `ComesToRest`, `EveryCallEnds`, `FoundIsServed`, `SubmittingEnds`: liveness.

Fairness. `StockTransactions` assumes weak fairness of each call's next statement: Node runs a callback whose result
is there, and Postgres grants a free lock. `EveryCallEnds` needs no strong fairness because the calls of an
instance are finitely many, so a lock is contended finitely often. Neither timeouts, crashes nor arrivals are assumed to happen.
`LowStockCache` assumes that readers and writers go on and that the TTL expires, never that Redis returns.
`Dashboard` assumes that committed calls publish, that a broken connection is tried again, that the
network delivers and that timers fire. `PageForms` assumes that the API works and answers, that time passes and timers fire, never that
users act. `InvoicePdf` assumes that renders and requests go on, never that storage works.
`InvoiceForm` assumes that the API goes on with a request it has and that an answer arrives or its loss is noticed. Breaks and restarts
are bounded, which says that they do not go on for ever.

## 5. Theorems

Every safety invariant and every action property of the passing runs is a theorem, for all values of the constants that the assumptions
allow. What the invariants add to the properties, module by module:

`StockTransactionsProofs` begins with Inventory: it keeps its types, stock stays in its column and is what the ledger says
(`StockIsExplained`), and invoices are sound (`InvoicesAreSound`). The invariant grows in three
layers: `StockInv` (types, limits, and `Unborn`: a product that does not exist has no stock and no rows),
`NumbersInv` (adds the gap-free numbers) and `RowsInv` (adds the tie between invoices and ledger rows).
The numbers are needed for the last one: a new invoice's number is fresh, so no row can already name it.
Then, for any number of calls and any workload:

* `TransactionsImplement`: `Spec => InventorySpec`. `TransactionInv` says, of each call, that it holds the locks its phase
  implies and that what it has staged is what its lines make of the committed stock. Since it holds the row lock, nobody
  else can change that row, so at `Commit` every line fits the stock of that moment (`CommitFits`): that is why a commit
  is one atomic step of Inventory, and every other step a stutter. If `FinishUpdate` does not
  wait for the lock, the lemma of that step fails.
* `TypeCorrect`; `StockIsSafe`, `NoUpdateIsLost`, `NumbersAreSafe` and `InvoicesAreSafe`, inherited through the refinement.
* `NoDeadlocks`, from `LocksAlwaysClimb`: its invariant `LocksInv` says that every locked row is below the row the call takes
  next, and `LocksBounded` that the locked rows have a largest: around a circle of waiting calls the rows would climb for ever.
* `ShortagesAreAllReported`: the action property, from `TransactionInv`.
* `EventsAreCommitted` and `AnswersAreRight`. The committed tables only grow (`Grows`), so what was true of
  them at a commit stays true; `AnswerInv` adds to that the history of each call: what it has committed by its phase
  (`History`), that every invoice in the tables is somebody's (`Somebodys`), which a lost acknowledgement needs, and of each product that its
  new ledger rows each have one author, a call that committed a line on it, that no call is the author of two, and that no committed line lacks its row.

`LowStockCacheProofs` proves `CacheTyped` and `StaleOnlyAfterRace`. `CacheInv` ties each entry to the invalidations: a list that was true
when it was stored and lacks a change belongs to a key that a writer of that change will still scan or unlink (`Covers`), and
that writer has no answer yet; or it survived an outage, and the flush that began with the connection has its key still before it.

`DashboardProofs` proves `DashboardTyped`, the refinement `PageIsProductTable`, `NoReloadTakesBack`, `TableEndsRight` and `PanelEndsRight`.
`BasicInv` says where rows and events come from: none is ahead of the tables (`ToldInv`), and what a stream or the buffer holds was
published. `RightInv` says that the last event of a product on its way, or in the buffer, is that of its last commit (`LastInv`), so that
a row of the page, or of the snapshot that will replace it, is right, will be told, or is replayed over (`PageInv`, `ResyncInv`), but for the
products the properties except. `ForwardInv` says of each row on display that the last event the buffer has of it, or else the
snapshot's row, is no older. The replay is a fold over the buffer: `Follows` says what the first n events make of a snapshot, and
`ReplayExists` and `ResyncedFollows` go through its prefixes. Of the low-stock list the proof knows only that it is one of `lists`, that is, anything of
  some moment: where it differs from the tables and no event in the buffer corrects it, the product is in `misread`.

`PageFormsProofs` proves `PageFormsTyped`, `MessagesAreKept`, `InputIsKept` and `HighlightsAreKept` for any products, durations and numbers of requests. In
`FormsInv` a pending timer is that of the message on display, at most one product is being added and the fields hold it or nothing, and
each highlighted row has one timer, which began when the row last changed: its age is what the timer has run. `AdjustmentsAreOnce`
rests on `DraftsInv`: the adjustments that were answered with success are of different drafts, all before the one that awaits its answer,
so that of one draft's recorded requests all but one had their answer lost.

`InvoiceListProofs` proves `ListTyped`, `RowsMatch` and `RowsStayWhole`. `ListInv` says that the request with the latest number asks for the page's filter, and that
an answer holds what its request asked for; rows of the filter before may stay only until the first page of the new one is shown.
`PageListInv` accounts for the invoices of the filter down to the cursor: those from before the page was opened are in the rows, and those issued
since are in the rows or on their way (`WholeInv`). To keep that, `AnswerInv` says of a page that was read that it has no gap, and that what was issued
since is on it, on its way, or in the rows it is merged into; only an answer that replaces rows may drop such a one, which is the case the
property excepts (`crossed`). An invoice that was never announced is on every first page read after it, which `seen` keeps account of.

`InvoicePdfProofs` proves for any invoices, numbers and requests `ServedIsSound` and `StoredFilesStay`. `PdfInv` says that a
temporary file belongs to one render, that a file under its final name is whole and of the invoice in its name, and that
what a request has in its hands is whole: a render renames only what it has finished writing itself. `NothingIsLittered` is inductive
given that. `ServedReadsWell` is `PrintedIsReadable`: every invoice whose header and rows each fit a page (`PrintedAssumption`: the API
limits the lengths of names, and line numbers are unique in the database) is laid out readably for any sizes of the page. `InOrderSorts` shows
that drawing by rank is a sort, `CursorSteps` that the cursor's recursive function exists and goes down the pages, and each kind of box lies
between two of its positions (`LineAt`, `SumAt`); so any two boxes are one before the other (`ReadsInOrder`, `ContentApart`), and
a label other than that of a heading is that of one box (`OnlyBoxes`).

`InvoiceFormProofs` proves that the preview is what the API calculates for any lines, prices and rate (`PreviewIsCalculated`), and that the tax is
the exact one to the nearest cent (`TaxIsNearest`). A sum of whole cents is a whole number of cents by induction on its
terms; `SumTyped` first shows that the recursive function of `SumMoney` exists. It
proves `PreviewsAreInvoiced` and `DatesAreWanted` from `FormInv`: a request carries the date that is picked or none,
and once begun a date between its submission and today; what was previewed for it is what its lines come to. `DraftsAreAlwaysInvoiced`
counts: `Possible(d)` are the requests of a draft that have an invoice or may still get one, and `CountInv` says that those the form does
not wait for are no more than answers to it were lost, plus the one that began the next draft. `FormTyped` needs that the keys of lines
are below the next one and that a draft ends with a request of its own, which bounds both.

`NaturalLemmas` holds the induction all of them use: the library's induction theorems take an operator as a parameter and cannot be
instantiated, so `UpTo` derives it from the least element of a set of naturals (`LeastNatural`); `LargestBelow` and `NthExists` follow.

The proofs rest on the named assumptions on the constants, which TLC evaluates in every run, and on
the library's theorems about finite sets, functions and sequences. Those about transactions rest on the model of Postgres in StockTransactions: READ
COMMITTED with row locks held to the end of a transaction, and a guard evaluated again after a lock wait.

Model-checked only: all liveness (`ComesToRest`, `EveryCallEnds`, `StalenessEnds`, `RequestsEnd`, `SettlesDown`, `FoundIsServed`,
`SubmittingEnds`), which is out of the prover's reach, and the counterexamples of the findings.

## 6. Findings

1. `read_your_writes`, from an empty cache after the flush of the start and with no fault: a list that was queried before a change can be stored after the change was invalidated and
   answered. The writer's own next read is then a hit on the old list, until the TTL ends, although
   the service says that awaiting its listeners gives read-your-writes consistency.
2. `new_products`: the dashboard's resync replays stock updates but not created products. A product created while
   a snapshot that was read before is in flight disappears from the table until the next resync, although the code says that it
   replays whatever arrived meanwhile (`InventoryDashboard.tsx:44`).
3. `invoice_filter`: the merge that follows an open of the stream takes the next request number, and so supersedes the request
   of a filter that was just chosen. Its answer is merged into the rows of the old filter, which stay, with no error shown.
4. `adjusted_product`: the adjustment form keeps the empty id of a table that had no product when it began. When the first product arrives,
   its select has no such option as the empty one and displays that product, but the adjustment is sent for none.

Smaller things met on the way, without a run of their own:

* The refused UPDATE's shortage is explained by a later SELECT (`stock-ledger.service.ts:107`), so a 409 may report at least as much
  available as was requested when stock arrives in between; `ShortageReportComplete` says what does hold.
* A product created between the two reads of a snapshot can have two rows in the low-stock panel until its next change: the panel's
  read knows it, the table's does not, and the event then adds it again. `PanelIsRight` therefore asks of a new product only that its rows are right.
* The adjustment form keeps its id in the same way as in finding 4 when a reload brings a table without that product.
* The invoice list drops live rows in the same way as finding 2 when a page that was read before them replaces the rows; `RowsAreWhole`
  leaves that case out (`overwritten`). After an outage in which more than a page of invoices was issued, the merged first page leaves a
  gap that no cursor visits (`InvoicesView.tsx:60`): `WithinAPage`.
* Closing the product dialog with Escape does not cancel the request: the product is added all the same, and a failure is shown
  when the dialog is opened again (`AddProductDialog.tsx:59`).
* Ids of invoices are drawn before their commit (`invoices.service.ts:28`), so a reader that has passed a place of the list can miss an
  invoice that commits there later. InvoiceList's invoices commit in the order of their ids.

## 7. What is not modelled

* The wait for running renders at a graceful shutdown; errors while a document is drawn; the wrapping of texts and the columns.
* Later cursor pages of products and a product's movement history: reads by one query each that no page of the web client combines.
* The calendar and the time zone of a day: days are numbers. Parsing and formatting of decimal strings.
* Configuration, invoice settings, error mapping, Swagger, and module wiring have no state that changes; the purchase
  and sale endpoints only shape an `IssueInvoiceInput`, which the requests stand for; the Prisma client appears as the statements
  it sends and as `Timeout` and `LoseAcknowledgement`; the seed is development data; static views render modelled state.
* Several API instances are out of scope, as the code says of itself.

## 8. What could follow

1. A composition of StockTransactions' publication with LowStockCache and Dashboard, which would say which old lists can reach the panel, and for how long.
2. Invoices that commit out of the order of their ids, in InvoiceList.
