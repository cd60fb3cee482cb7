----------------------------- MODULE Dashboard -----------------------------
(***************************************************************************)
(* A page kept up to date by the event stream: calls commit and then       *)
(* publish; a stream carries events in order and may break, losing what it *)
(* holds; every open of the stream starts a reload from REST.              *)
(*                                                                         *)
(* Pages do not interact, so there is one, of either kind. The dashboard   *)
(* replays the stock events that arrive during a reload over its answer    *)
(* and drops the answer to all but the latest; it has a low-stock panel.   *)
(* The sales page shows every answer as it comes. The low-stock list may  *)
(* come from the cache, in which LowStockCache tells what there may be,    *)
(* and is cut at a limit.                                                  *)
(***************************************************************************)
EXTENDS Integers, Sequences, FiniteSets, Functions

CONSTANTS
    Existing,       \* the products that exist from the start; an id is a number
    New,            \* the products that may be created
    Quantities, Threshold,
    PageSize,       \* PRODUCTS_PAGE_SIZE
    LowStockMaxItems, \* LOW_STOCK_MAX_ITEMS
    Fetches,        \* reloads that may be in flight at a time
    Absent, Unread, NoFetch, NoStream,
    MaxCommits,     \* how often stock changes or a product is created
    MaxFaults,      \* how often a stream breaks or is refused, a reload fails, or
                    \* the acknowledgement of a COMMIT is lost
    MaxRestarts     \* how often the API restarts

ASSUME DashboardAssumption ==
    /\ Existing \cup New \subseteq Nat /\ Existing \cap New = {}
    /\ IsFiniteSet(Existing) /\ IsFiniteSet(New)
    /\ Quantities \subseteq Int /\ Threshold \in Int
    /\ {PageSize, LowStockMaxItems, MaxCommits, MaxFaults, MaxRestarts} \subseteq Nat
    /\ NoFetch \notin Fetches
    /\ Absent \notin [quantity : Quantities, at : 0..MaxCommits]

VARIABLES
    kind,           \* which page it is
    stock,          \* committed: product -> its quantity, and the commit it is of
    commits,        \* number of commits so far
    pending,        \* events of committed calls that are not published yet
    published,      \* what was published, in that order
    lost,           \* commits whose call failed all the same, so never published
    lists,          \* low-stock lists that may be in the cache, or may be read
    conn,           \* readyState of the page's EventSource
    stream,         \* what the API has sent and the page has not received
    page,           \* the table of products, and the rows of the low-stock panel
    fetch,          \* the reloads in flight and what was read for them
    activeResync,   \* the latest reload, while it is in flight
    buffer,         \* stock events received since that reload began
    synced,         \* the latest open was followed by an answer
    raced,          \* products whose event, or reload, another reload may undo
    misread,        \* products of which the list last read was old or cut short, if
                    \* no event said otherwise
    faults, restarts

server == <<stock, commits, pending, published, lost, lists>>
client == <<page, fetch, activeResync, buffer, synced, raced, misread>>
vars == <<kind, server, conn, stream, client, faults, restarts>>

Products == Existing \cup New

\* `at` is the commit the event announces.
StockUpdates == [kind : {"stock"}, id : Products, quantity : Quantities, at : 1..MaxCommits]
Events == StockUpdates \cup
          [kind : {"created"}, id : Products, quantity : Quantities, at : 1..MaxCommits]

Opened == [kind |-> "opened"]

\* `at` is the commit the row is of: not shown, it is what properties tell rows by.
Rows == [id : Products, quantity : Quantities, at : 0..MaxCommits]

RowOf(r) == [id |-> r.id, quantity |-> r.quantity, at |-> r.at]

Has(table, p) == \E i \in DOMAIN table : table[i].id = p

Ids(table) == [i \in DOMAIN table |-> table[i].id]

Catalogue == {p \in Products : stock[p] # Absent}

Table == INSTANCE ProductTable WITH catalogue <- Catalogue, shown <- Ids(page.table)

\* A panel has the quantities of a product's rows; there should be one at most.
Panels == [Products -> Seq(Quantities)]

Pages == [table : Seq(Rows), low : Panels]

Snapshots == [table : {Unread} \cup Seq(Rows), low : {Unread} \cup Panels]

ASSUME NothingAssumption == NoStream \notin Seq(Events \cup {Opened}) /\ NoFetch \notin Snapshots

TypeOK ==
    /\ kind \in {"dashboard", "sales"}
    /\ stock \in [Products -> {Absent} \cup [quantity : Quantities, at : 0..MaxCommits]]
    /\ commits \in 0..MaxCommits
    /\ pending \subseteq Events
    /\ published \in Seq(Events)
    /\ lost \subseteq 1..MaxCommits
    /\ lists \subseteq Panels
    /\ conn \in {"connecting", "live", "closed"}
    /\ stream \in Seq(Events \cup {Opened}) \cup {NoStream}
    /\ page \in Pages
    /\ fetch \in [Fetches -> {NoFetch} \cup Snapshots]
    /\ activeResync \in Fetches \cup {NoFetch}
    /\ buffer \in Seq(StockUpdates)
    /\ synced \in BOOLEAN
    /\ raced \subseteq Products
    /\ misread \subseteq Products
    /\ faults \in 0..MaxFaults /\ restarts \in 0..MaxRestarts
    /\ IsInjective(Ids(page.table))

(***************************************************************************)
(* The reducer.                                                            *)
(***************************************************************************)
IsLowStock(quantity) == quantity < Threshold

\* The rows of a product in the panel; the sales page has none.
LowRow(quantity) == IF kind = "dashboard" /\ IsLowStock(quantity) THEN <<quantity>> ELSE <<>>

\* MUTANT: an update of a product outside the table is ignored.
ApplyStockUpdateShown(inventory, event) ==
    IF ~Has(inventory.table, event.id) THEN inventory
    ELSE [table |-> [i \in DOMAIN inventory.table |->
                        IF inventory.table[i].id = event.id THEN RowOf(event) ELSE inventory.table[i]],
          low |-> [inventory.low EXCEPT ![event.id] = LowRow(event.quantity)]]

\* A product outside the table still has its place in the panel.
ApplyStockUpdate(inventory, event) ==
    [table |-> [i \in DOMAIN inventory.table |->
                   IF inventory.table[i].id = event.id THEN RowOf(event) ELSE inventory.table[i]],
     low |-> [inventory.low EXCEPT ![event.id] = LowRow(event.quantity)]]

\* MUTANT: an event is added whether or not its product is there.
AddProductAgain(inventory, event) ==
    [table |-> Append(inventory.table, RowOf(event)), low |-> inventory.low]

AddProduct(inventory, event) ==
    IF Has(inventory.table, event.id)
    THEN inventory
    ELSE [table |-> Append(inventory.table, RowOf(event)),
          low |-> [inventory.low EXCEPT ![event.id] = @ \o LowRow(event.quantity)]]

\* MUTANT: the snapshot is shown as it was read.
ResyncedOnly(snapshot, replay) == snapshot

Resynced(snapshot, replay) ==
    LET resynced[n \in 0..Len(replay)] ==
            IF n = 0 THEN snapshot ELSE ApplyStockUpdate(resynced[n - 1], replay[n])
    IN  resynced[Len(replay)]

(***************************************************************************)
(* What GET /products and GET /products/low-stock answer.                  *)
(***************************************************************************)
TableRead ==
    LET ids == Table!FirstPage(Catalogue)
    IN  [i \in DOMAIN ids |-> [id |-> ids[i], quantity |-> stock[ids[i]].quantity, at |-> stock[ids[i]].at]]

LowList(tables) == [p \in Products |-> IF tables[p] = Absent THEN <<>> ELSE LowRow(tables[p].quantity)]

\* The lowest quantity comes first.
Before(list, q, p) ==
    list[q] # <<>> /\ (list[q][1] < list[p][1] \/ (list[q][1] = list[p][1] /\ q < p))

LowRead(tables) ==
    LET list == LowList(tables)
    IN  [p \in Products |->
            IF list[p] # <<>> /\ Cardinality({q \in Products : Before(list, q, p)}) < LowStockMaxItems
            THEN list[p] ELSE <<>>]

\* What an answer has otherwise than the tables, and no buffered event corrects.
Misread(list) ==
    {p \in Products : list[p] # LowList(stock)[p] /\ \A i \in DOMAIN buffer : buffer[i].id # p}

-----------------------------------------------------------------------------
\* The page is rendered on the server; its stream opens later, in the browser.
Init ==
    /\ kind \in {"dashboard", "sales"}
    /\ stock \in [Products -> {Absent} \cup [quantity : Quantities, at : {0}]]
    /\ Catalogue = Existing
    /\ commits = 0
    /\ pending = {}
    /\ published = <<>>
    /\ lost = {}
    /\ lists = {LowRead(stock)}
    /\ conn = "connecting"
    /\ stream = NoStream
    /\ page = [table |-> TableRead, low |-> LowRead(stock)]
    /\ fetch = [f \in Fetches |-> NoFetch]
    /\ activeResync = NoFetch
    /\ buffer = <<>>
    /\ synced = FALSE
    /\ raced = {}
    /\ misread = {}
    /\ faults = 0
    /\ restarts = 0

(***************************************************************************)
(* The API: commit, then publish.                                          *)
(***************************************************************************)
Commits(event) ==
    /\ commits < MaxCommits
    /\ commits' = event.at
    /\ stock' = [stock EXCEPT ![event.id] = [quantity |-> event.quantity, at |-> event.at]]
    /\ pending' = pending \cup {event}
    /\ lists' = lists \cup {LowRead(stock')}
    /\ UNCHANGED <<kind, published, lost, conn, stream, client, faults, restarts>>

ChangeStock(p) ==
    /\ p \in Catalogue
    /\ \E quantity \in Quantities \ {stock[p].quantity} :
          Commits([kind |-> "stock", id |-> p, quantity |-> quantity, at |-> commits + 1])

CreateProduct(p) ==
    /\ p \notin Catalogue
    /\ \E quantity \in Quantities :
          Commits([kind |-> "created", id |-> p, quantity |-> quantity, at |-> commits + 1])

\* Calls that committed one after the other may publish in any order. The event
\* goes to the streams that are open.
Publish(event) ==
    /\ event \in pending
    /\ pending' = pending \ {event}
    /\ published' = Append(published, event)
    /\ stream' = IF stream = NoStream THEN NoStream ELSE Append(stream, event)
    /\ UNCHANGED <<kind, stock, commits, lost, lists, conn, client, faults, restarts>>

\* The COMMIT went through and its acknowledgement is lost: the call fails, and
\* its caller never gets to publish.
LoseAcknowledgement(event) ==
    /\ event \in pending
    /\ faults < MaxFaults
    /\ faults' = faults + 1
    /\ pending' = pending \ {event}
    /\ lost' = lost \cup {event.at}
    /\ UNCHANGED <<kind, stock, commits, published, lists, conn, stream, client, restarts>>

\* The process goes down and comes back: events that were not published are lost,
\* streams break and requests fail.
Restart ==
    /\ restarts < MaxRestarts
    /\ restarts' = restarts + 1
    /\ pending' = {}
    /\ stream' = NoStream
    /\ conn' = IF conn = "closed" THEN "closed" ELSE "connecting"
    /\ fetch' = [f \in Fetches |-> NoFetch]
    /\ activeResync' = NoFetch
    /\ buffer' = <<>>
    /\ UNCHANGED <<kind, stock, commits, published, lost, lists, page, synced, raced, misread, faults>>

(***************************************************************************)
(* The stream.                                                             *)
(***************************************************************************)
Connect ==
    /\ conn = "connecting"
    /\ stream = NoStream
    /\ stream' = <<Opened>>
    /\ UNCHANGED <<kind, server, conn, client, faults, restarts>>

\* A network error: the browser tries again by itself.
Break ==
    /\ stream # NoStream
    /\ faults < MaxFaults
    /\ faults' = faults + 1
    /\ stream' = NoStream
    /\ conn' = "connecting"
    /\ UNCHANGED <<kind, server, client, restarts>>

\* An HTTP error: the browser gives up.
Refuse ==
    /\ conn = "connecting"
    /\ stream = NoStream
    /\ faults < MaxFaults
    /\ faults' = faults + 1
    /\ conn' = "closed"
    /\ UNCHANGED <<kind, server, stream, client, restarts>>

\* MUTANT: every error is left to the browser.
NeverRetry == FALSE /\ UNCHANGED vars

\* The retry timer after an HTTP error.
Retry ==
    /\ conn = "closed"
    /\ conn' = "connecting"
    /\ UNCHANGED <<kind, server, stream, client, faults, restarts>>

(***************************************************************************)
(* The page.                                                               *)
(***************************************************************************)
Received(k) ==
    /\ stream \notin {NoStream, <<>>}
    /\ Head(stream).kind = k
    /\ stream' = Tail(stream)

Reloading == \E f \in Fetches : fetch[f] # NoFetch

\* A reload that is still running goes on.
OnOpen ==
    /\ Received("opened")
    /\ conn' = "live"
    /\ \E f \in Fetches :
          /\ fetch[f] = NoFetch
          /\ fetch' = [fetch EXCEPT ![f] =
                [table |-> Unread,
                 low |-> IF kind = "dashboard" THEN Unread ELSE LowRead(stock)]]
          /\ activeResync' = f
    /\ buffer' = <<>>
    /\ synced' = FALSE
    /\ raced' = IF Reloading THEN Products ELSE {}
    /\ misread' = {}
    /\ UNCHANGED <<kind, server, page, faults, restarts>>

OnUpdate ==
    /\ Received("stock")
    /\ page' = ApplyStockUpdate(page, Head(stream))
    /\ buffer' = IF kind = "sales" \/ activeResync = NoFetch THEN buffer
                 ELSE Append(buffer, Head(stream))
    /\ raced' = IF Reloading THEN raced \cup {Head(stream).id} ELSE raced \ {Head(stream).id}
    /\ misread' = misread \ {Head(stream).id}
    /\ UNCHANGED <<kind, server, conn, fetch, activeResync, synced, faults, restarts>>

OnProductCreated ==
    /\ Received("created")
    /\ page' = AddProduct(page, Head(stream))
    /\ UNCHANGED <<kind, server, conn, fetch, activeResync, buffer, synced, raced, misread,
                   faults, restarts>>

\* The two requests of a snapshot are answered at moments of their own.
ReadProducts(f) ==
    /\ fetch[f] # NoFetch
    /\ fetch[f].table = Unread
    /\ fetch' = [fetch EXCEPT ![f].table = TableRead]
    /\ UNCHANGED <<kind, server, conn, stream, page, activeResync, buffer, synced, raced, misread,
                   faults, restarts>>

\* A hit answers what some client read at some time and stored after a commit that
\* should have removed it; a miss answers what there is.
ReadLowStock(f) ==
    /\ fetch[f] # NoFetch
    /\ fetch[f].low = Unread
    /\ \E list \in lists :
          /\ fetch' = [fetch EXCEPT ![f].low = list]
          /\ misread' = IF f = activeResync THEN misread \cup Misread(list) ELSE misread
    /\ UNCHANGED <<kind, server, conn, stream, page, activeResync, buffer, synced, raced,
                   faults, restarts>>

\* MUTANT: an answer that is only half there is shown.
CompleteEither(f) == fetch[f].table # Unread

Complete(f) == fetch[f].table # Unread /\ fetch[f].low # Unread

\* MUTANT: the dashboard shows the answer to a superseded reload as well.
ShowsAny(f) == TRUE

\* The dashboard drops the answer to a superseded reload.
Shows(f) == kind = "sales" \/ activeResync = f

Settled(f) ==
    /\ fetch' = [fetch EXCEPT ![f] = NoFetch]
    /\ activeResync' = IF activeResync = f THEN NoFetch ELSE activeResync
    /\ buffer' = IF activeResync = f THEN <<>> ELSE buffer
    /\ UNCHANGED <<kind, server, conn, stream, restarts>>

Resync(f) ==
    /\ fetch[f] # NoFetch
    /\ Complete(f)
    /\ IF Shows(f)
       THEN /\ page' = Resynced(fetch[f], buffer)
            /\ synced' = (synced \/ activeResync = f)
       ELSE UNCHANGED <<page, synced>>
    /\ Settled(f)
    /\ UNCHANGED <<raced, misread, faults>>

\* The page keeps what it has.
FailResync(f) ==
    /\ fetch[f] # NoFetch
    /\ faults < MaxFaults
    /\ faults' = faults + 1
    /\ Settled(f)
    /\ UNCHANGED <<page, synced, raced, misread>>

ReceiveNext == OnOpen \/ OnUpdate \/ OnProductCreated

Answered(f) == ReadProducts(f) \/ ReadLowStock(f) \/ Resync(f)

Next ==
    \/ \E p \in Products : ChangeStock(p) \/ CreateProduct(p)
    \/ \E event \in pending : Publish(event) \/ LoseAcknowledgement(event)
    \/ Restart \/ Connect \/ Break \/ Refuse \/ Retry
    \/ ReceiveNext
    \/ \E f \in Fetches : Answered(f) \/ FailResync(f)

Spec == Init /\ [][Next]_vars

\* A committed call goes on to publish, the network delivers, timers fire and the
\* API answers. Nothing says that anybody changes stock.
Fairness ==
    /\ WF_vars(\E event \in pending : Publish(event))
    /\ WF_vars(Connect) /\ WF_vars(Retry) /\ WF_vars(ReceiveNext)
    /\ \A f \in Fetches : WF_vars(Answered(f))

FairSpec == Spec /\ Fairness

-----------------------------------------------------------------------------
(***************************************************************************)
(* Properties.                                                             *)
(***************************************************************************)
\* Everything that was committed is published, delivered and shown.
AtRest ==
    /\ conn = "live" /\ stream = <<>>
    /\ pending = {}
    /\ \A f \in Fetches : Shows(f) => fetch[f] = NoFetch

\* The last event of p was published after that of a later commit.
Overtaken(p) ==
    \E j \in DOMAIN published :
        /\ published[j].id = p
        /\ \A i \in DOMAIN published : i > j => published[i].id # p
        /\ \E i \in DOMAIN published : published[i].id = p /\ published[i].at > published[j].at

\* What no page can know of p before its next reload or event.
Unknowable(p) == Overtaken(p) \/ stock[p].at \in lost

\* A page at rest whose last reload succeeded shows the committed stock, whatever
\* was lost while its stream was down, whenever the answer was read and however
\* often the stream was opened meanwhile. The exceptions are a product whose last
\* two events were published in the wrong order, one whose last change was never
\* published, and, on the sales page, one whose event arrived during a reload, or any
\* when reloads overlapped: SalesView keeps no buffer and supersedes nothing.
TableIsRight ==
    AtRest /\ synced =>
        \A i \in DOMAIN page.table :
            LET row == page.table[i]
            IN  \/ row.quantity = stock[row.id].quantity
                \/ Unknowable(row.id)
                \/ kind = "sales" /\ row.id \in raced

\* The same of the panel: it has exactly the low products that existed from the
\* start, at their committed stock, and nothing wrong about a new one. One more
\* exception: what the list last read had wrong already, because it came from the
\* cache and was old or because more products were low than LOW_STOCK_MAX_ITEMS, stays
\* wrong until the next reload or event of the product.
PanelIsRight ==
    kind = "dashboard" /\ AtRest /\ synced =>
        \A p \in Catalogue \ misread : Unknowable(p) \/
            IF p \in New
            THEN \A i \in DOMAIN page.low[p] : <<page.low[p][i]>> = LowRow(stock[p].quantity)
            ELSE page.low[p] = LowRow(stock[p].quantity)

\* InventoryDashboard.tsx: events that arrive during a reload are replayed, "otherwise
\* an event newer than the snapshot could be overwritten by it". No reload ever
\* takes a row of the dashboard back in time.
NothingTakenBack ==
    [][kind = "dashboard" /\ stream' = stream =>
          \A i \in DOMAIN page.table, j \in DOMAIN page'.table :
              page.table[i].id = page'.table[j].id => page.table[i].at <= page'.table[j].at]_vars

\* InventoryDashboard.tsx, of an open: "reload a snapshot and replay whatever arrived
\* meanwhile". With room on the first page, every product is in the table at rest.
EveryProductShown ==
    kind = "dashboard" /\ AtRest /\ synced /\ Cardinality(Catalogue) <= PageSize =>
        \A p \in Catalogue : Has(page.table, p)

\* Either page is a ProductTable to the forms it holds: products are added at the
\* end, never twice, or the table becomes the first page of some earlier moment.
IsProductTable == Table!TableSpec

\* Whatever breaks, the stream is opened again and every reload ends: the page
\* comes to rest when nobody changes stock any more.
ComesToRest == <>[]AtRest
=============================================================================
