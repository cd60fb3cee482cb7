---------------------------- MODULE InvoiceList ----------------------------
(***************************************************************************)
(* The invoice page: rows loaded page by page under a filter, live rows    *)
(* from the event stream, and a merge of the first page on every open.     *)
(* Several loads may be under way; only the latest may change the rows.    *)
(*                                                                         *)
(* An invoice is its place in the order of creation, 1, 2, 3, ...          *)
(***************************************************************************)
EXTENDS Integers, Sequences, FiniteSets

CONSTANTS
    Types, All,     \* the types of invoice, and the filter that asks for any
    FirstIssued,    \* the types of the invoices there are from the start
    PageSize,       \* INVOICES_PAGE_SIZE
    NoCursor, NoStream, Unread,
    MaxIssued,      \* how many invoices there may be
    MaxLoads,       \* how many loads a page may start
    MaxBreaks       \* how often its stream breaks, a load fails or an announcement is lost

ASSUME ListAssumption ==
    /\ All \notin Types
    /\ FirstIssued \in Seq(Types) /\ Len(FirstIssued) <= MaxIssued
    /\ PageSize \in Nat \ {0}
    /\ {MaxIssued, MaxLoads, MaxBreaks} \subseteq Nat
    /\ NoCursor \notin Nat

VARIABLES
    issued,         \* committed: the type of each invoice
    pending,        \* invoices whose invoice.created is not published yet
    unannounced,    \* invoices whose invoice.created never will be
    stream,         \* what the API has sent and the page has not received
    live,           \* the page's stream is open
    filter, rows, nextCursor, loadError,
    latest,         \* number of the latest request
    loads,          \* the requests under way
    filtered,       \* the rows were replaced since the filter last changed
    synced,         \* a first page was shown since the stream last opened
    overwritten,    \* the last first page had been asked for before a live row came
    seen,           \* how many invoices there were when it was read
    breaks

server == <<issued, pending, unannounced>>
view == <<filter, rows, nextCursor, loadError>>
ghosts == <<filtered, synced, overwritten, seen>>
vars == <<server, stream, live, view, latest, loads, ghosts, breaks>>

Filters == Types \cup {All}
Ids == 1..MaxIssued
Cursors == Ids \cup {NoCursor}
Opened == 0

ASSUME NothingAssumption == NoStream \notin Seq(Ids \cup {Opened})

Pages == [items : SUBSET Ids, next : Cursors]
Loads == [number : 1..MaxLoads, filter : Filters, mode : {"replace", "append", "merge"},
          cursor : Cursors, page : Pages \cup {Unread}, crossed : BOOLEAN, seen : 0..MaxIssued]

TypeOK ==
    /\ issued \in Seq(Types) /\ Len(issued) <= MaxIssued
    /\ pending \subseteq Ids /\ unannounced \subseteq Ids
    /\ stream \in Seq(Ids \cup {Opened}) \cup {NoStream}
    /\ live \in BOOLEAN
    /\ filter \in Filters
    /\ rows \subseteq Ids
    /\ nextCursor \in Cursors
    /\ loadError \in BOOLEAN
    /\ latest \in 0..MaxLoads
    /\ loads \subseteq Loads
    /\ {filtered, synced, overwritten} \subseteq BOOLEAN /\ seen \in 0..MaxIssued
    /\ breaks \in 0..MaxBreaks

Matches(i, f) == f = All \/ issued[i] = f

Matching(f) == {i \in DOMAIN issued : Matches(i, f)}

Older(cursor) == {i \in Ids : cursor = NoCursor \/ i < cursor}

\* The newest PageSize of S.
Newest(S) == {i \in S : Cardinality({j \in S : j > i}) < PageSize}

Smallest(S) == CHOOSE i \in S : \A j \in S : i <= j

\* GET /invoices: a page, newest first, and the last of it while there are more.
PageOf(f, cursor) ==
    LET found == Matching(f) \cap Older(cursor)
        items == Newest(found)
    IN  [items |-> items, next |-> IF items = found THEN NoCursor ELSE Smallest(items)]

Init ==
    /\ issued = FirstIssued
    /\ pending = {} /\ unannounced = {}
    /\ stream = NoStream /\ live = FALSE
    /\ filter = All
    /\ rows = PageOf(All, NoCursor).items
    /\ nextCursor = PageOf(All, NoCursor).next
    /\ loadError = FALSE
    /\ latest = 0 /\ loads = {}
    /\ filtered = TRUE /\ synced = FALSE /\ overwritten = FALSE
    /\ seen = Len(FirstIssued)
    /\ breaks = 0

(***************************************************************************)
(* The API and the stream.                                                 *)
(***************************************************************************)
Issue ==
    /\ Len(issued) < MaxIssued
    /\ \E type \in Types : issued' = Append(issued, type)
    /\ pending' = pending \cup {Len(issued) + 1}
    /\ UNCHANGED <<unannounced, stream, live, view, latest, loads, ghosts, breaks>>

Publish ==
    \E i \in pending :
        /\ pending' = pending \ {i}
        /\ stream' = IF stream = NoStream THEN NoStream ELSE Append(stream, i)
        /\ UNCHANGED <<issued, unannounced, live, view, latest, loads, ghosts, breaks>>

\* The COMMIT went through, its acknowledgement did not, so issue throws before it
\* publishes; or the process dies in between.
LoseAcknowledgement ==
    /\ breaks < MaxBreaks
    /\ breaks' = breaks + 1
    /\ \E i \in pending :
        /\ pending' = pending \ {i}
        /\ unannounced' = unannounced \cup {i}
    /\ UNCHANGED <<issued, stream, live, view, latest, loads, ghosts>>

Connect ==
    /\ stream = NoStream
    /\ stream' = <<Opened>>
    /\ UNCHANGED <<server, live, view, latest, loads, ghosts, breaks>>

Break ==
    /\ stream # NoStream
    /\ breaks < MaxBreaks
    /\ breaks' = breaks + 1
    /\ stream' = NoStream
    /\ live' = FALSE
    /\ UNCHANGED <<server, view, latest, loads, ghosts>>

(***************************************************************************)
(* load(filters, mode, cursor).                                            *)
(***************************************************************************)
Loading == \E load \in loads : load.number = latest

\* MUTANT: the request counter is incremented twice.
LoadTwice(f, mode, cursor) ==
    /\ latest < MaxLoads
    /\ latest' = latest + 2
    /\ loads' = loads \cup {[number |-> latest + 1, filter |-> f, mode |-> mode,
                             cursor |-> cursor, page |-> Unread, crossed |-> FALSE, seen |-> 0]}
    /\ loadError' = FALSE

Load(f, mode, cursor) ==
    /\ latest < MaxLoads
    /\ latest' = latest + 1
    /\ loads' = loads \cup {[number |-> latest + 1, filter |-> f, mode |-> mode,
                             cursor |-> cursor, page |-> Unread, crossed |-> FALSE, seen |-> 0]}
    /\ loadError' = FALSE

\* Union of two row lists, by id.
MergeRows(current, incoming) == current \cup incoming

\* The stream has opened: whatever was issued meanwhile is on the first page, if
\* it fits there.
OnOpen ==
    /\ stream \notin {NoStream, <<>>}
    /\ Head(stream) = Opened
    /\ stream' = Tail(stream)
    /\ live' = TRUE
    /\ Load(filter, "merge", NoCursor)
    /\ synced' = FALSE
    /\ UNCHANGED <<server, filter, rows, nextCursor, filtered, overwritten, seen, breaks>>

Accepts(i) == Matches(i, filter)

OnInvoiceCreated ==
    /\ stream \notin {NoStream, <<>>}
    /\ Head(stream) # Opened
    /\ stream' = Tail(stream)
    /\ rows' = IF Accepts(Head(stream)) THEN MergeRows(rows, {Head(stream)}) ELSE rows
    /\ loads' = {[load EXCEPT !.crossed = TRUE] : load \in loads}
    /\ UNCHANGED <<server, live, filter, nextCursor, loadError, latest, ghosts, breaks>>

ChangeFilters(f) ==
    /\ f # filter
    /\ filter' = f
    /\ Load(f, "replace", NoCursor)
    /\ filtered' = FALSE
    /\ UNCHANGED <<server, stream, live, rows, nextCursor, synced, overwritten, seen, breaks>>

LoadMore ==
    /\ nextCursor # NoCursor
    /\ ~Loading
    /\ Load(filter, "append", nextCursor)
    /\ UNCHANGED <<server, stream, live, filter, rows, nextCursor, ghosts, breaks>>

Read(load) ==
    /\ load.page = Unread
    /\ loads' = (loads \ {load}) \cup
                    {[load EXCEPT !.page = PageOf(load.filter, load.cursor), !.seen = Len(issued)]}
    /\ UNCHANGED <<server, stream, live, view, latest, ghosts, breaks>>

\* MUTANT: every answer may change the rows.
CountsAny(load) == TRUE

Counts(load) == load.number = latest

\* MUTANT: every answer moves the cursor.
NextCursorAlways(load) == load.page.next

\* A merge refreshes the first page and keeps any pages already loaded.
NextCursor(load) == IF load.mode = "merge" THEN nextCursor ELSE load.page.next

Show(load) ==
    /\ load.page # Unread
    /\ loads' = loads \ {load}
    /\ IF Counts(load)
       THEN /\ rows' = IF load.mode = "replace" THEN load.page.items
                       ELSE MergeRows(rows, load.page.items)
            /\ nextCursor' = NextCursor(load)
            /\ filtered' = (filtered \/ load.mode = "replace")
            /\ synced' = (synced \/ load.mode # "append")
            /\ overwritten' = IF load.mode = "append" THEN overwritten
                              ELSE load.mode = "replace" /\ load.crossed
            /\ seen' = IF load.mode = "append" THEN seen ELSE load.seen
       ELSE UNCHANGED <<rows, nextCursor, ghosts>>
    /\ UNCHANGED <<server, stream, live, filter, loadError, latest, breaks>>

FailLoad(load) ==
    /\ breaks < MaxBreaks
    /\ breaks' = breaks + 1
    /\ loads' = loads \ {load}
    /\ loadError' = (loadError \/ load.number = latest)
    /\ UNCHANGED <<server, stream, live, filter, rows, nextCursor, latest, ghosts>>

Next ==
    \/ Issue \/ Publish \/ LoseAcknowledgement \/ Connect \/ Break
    \/ OnOpen \/ OnInvoiceCreated
    \/ \E f \in Filters : ChangeFilters(f)
    \/ LoadMore
    \/ \E load \in loads : Read(load) \/ Show(load) \/ FailLoad(load)

Spec == Init /\ [][Next]_vars

-----------------------------------------------------------------------------
(***************************************************************************)
(* Properties.                                                             *)
(***************************************************************************)
AtRest == live /\ stream = <<>> /\ pending = {} /\ ~Loading

\* Once a filter's own page was shown, no row of another filter comes in: neither
\* a live one, nor an answer to a request for the filter before (latestRequest).
RowsMatchFilter == filtered => \A i \in rows : Matches(i, filter)

\* Not more was issued since the page was rendered than a merge can bring back.
WithinAPage == Len(issued) - Len(FirstIssued) <= PageSize

\* The rows of a page at rest are the invoices down to its cursor, without gaps,
\* whatever was missed, loaded, superseded or delivered twice; what they lack is
\* only an invoice that was never announced, and that since the last first page
\* was read. Three cases are left out: the filter's own page has not come, the
\* open was not followed by a first page, or a first page overwrote a live row.
RowsAreWhole ==
    AtRest /\ filtered /\ synced /\ ~overwritten /\ WithinAPage =>
        LET whole == Matching(filter) \ (IF nextCursor = NoCursor THEN {} ELSE Older(nextCursor))
        IN  rows \subseteq whole /\ whole \ rows \subseteq {i \in unannounced : i > seen}

\* The page's promise of its filters: at rest, and with no error shown, the rows
\* are those of the chosen filter.
FilterIsShown == AtRest /\ ~loadError => \A i \in rows : Matches(i, filter)
=============================================================================
