------------------------- MODULE InvoiceListProofs -------------------------
(***************************************************************************)
(* The rows of the invoice page match its filter, however many loads are   *)
(* under way and whatever the stream brings meanwhile.                     *)
(***************************************************************************)
EXTENDS InvoiceList, NaturalLemmas

Known == DOMAIN issued

LoadFields == {"number", "filter", "mode", "cursor", "page", "crossed", "seen"}

\* The latest request asks for the page's filter, and an answer has what was asked for.
LoadInv(load) ==
    /\ DOMAIN load = LoadFields
    /\ load.number \in Nat /\ load.number <= latest
    /\ load.number = latest => load.filter = filter
    /\ load.page # Unread => load.page.items \subseteq Matching(load.filter)

ServerInv == issued \in Seq(Types) /\ pending \subseteq Known /\ unannounced \subseteq Known
StreamInv == stream # NoStream => stream \in Seq(Known \cup {Opened})
LoadsInv == latest \in Nat /\ \A load \in loads : LoadInv(load)
RowsInv == rows \subseteq Known /\ RowsMatchFilter

ListInv == ServerInv /\ StreamInv /\ LoadsInv /\ RowsInv

\* A page has invoices of the filter only.
LEMMA PageMatches ==
    ASSUME NEW f, NEW cursor
    PROVE  PageOf(f, cursor).items \subseteq Matching(f)
  BY DEF PageOf, Newest

LEMMA ListInit == Init => ListInv
<1> SUFFICES ASSUME Init PROVE ListInv
  OBVIOUS
<1>1. rows \subseteq Matching(All)
  BY PageMatches DEF Init
<1> QED
  BY <1>1, ListAssumption
     DEF Init, ListInv, ServerInv, StreamInv, LoadsInv, RowsInv, RowsMatchFilter, Known, Matching, Matches

\* A request started now is the latest, and every other is overtaken.
LEMMA LoadKeeps ==
    ASSUME LoadsInv, NEW f, NEW mode, NEW cursor, Load(f, mode, cursor),
           filter' = f, UNCHANGED issued
    PROVE  LoadsInv'
<1> SUFFICES ASSUME NEW new,
                    new = [number |-> latest + 1, filter |-> f, mode |-> mode,
                           cursor |-> cursor, page |-> Unread, crossed |-> FALSE, seen |-> 0]
             PROVE  LoadsInv'
  OBVIOUS
<1>1. latest' = latest + 1 /\ latest \in Nat
  BY DEF Load, LoadsInv
<1>2. LoadInv(new)'
  BY <1>1 DEF LoadInv, LoadFields
<1>3. ASSUME NEW load \in loads PROVE LoadInv(load)'
  BY <1>1, <1>3 DEF LoadsInv, LoadInv, Matching, Matches
<1>4. loads' = loads \cup {new}
  BY DEF Load
<1>5. \A load \in loads' : LoadInv(load)'
  BY <1>2, <1>3, <1>4
<1> QED
  BY <1>1, <1>5 DEF LoadsInv

\* What an earlier reader found still matches when more was issued.
LEMMA IssueKeeps == ListInv /\ Issue => ListInv'
<1> SUFFICES ASSUME ListInv, Issue PROVE ListInv'
  OBVIOUS
<1> USE DEF ListInv
<1>1. PICK type \in Types : issued' = Append(issued, type)
  BY DEF Issue
<1>2. /\ issued \in Seq(Types) /\ issued' \in Seq(Types)
      /\ Known' = Known \cup {Len(issued) + 1}
      /\ \A i \in Known : issued'[i] = issued[i]
  BY <1>1 DEF Known, ServerInv
<1>3. \A f : Matching(f) \subseteq Matching(f)'
  BY <1>2 DEF Matching, Matches, Known
<1>4. ServerInv'
  BY <1>2 DEF Issue, ServerInv
<1>5. StreamInv'
  <2> SUFFICES ASSUME stream # NoStream PROVE stream \in Seq(Known' \cup {Opened})
    BY DEF Issue, StreamInv
  <2>1. stream \in Seq(Known \cup {Opened})
    BY DEF StreamInv
  <2> QED
    BY <1>2, <2>1
<1>6. LoadsInv'
  <2>1. ASSUME NEW load \in loads PROVE LoadInv(load)'
    <3>1. LoadInv(load)
      BY DEF LoadsInv
    <3> QED
      BY <1>3, <3>1 DEF LoadInv, Issue, view
  <2> QED
    BY <2>1 DEF LoadsInv, Issue
<1>7. RowsInv'
  BY <1>2 DEF RowsInv, RowsMatchFilter, Matches, Issue, view, ghosts
<1> QED
  BY <1>4, <1>5, <1>6, <1>7

\* The stream carries only what was issued; the requests and rows stay.
LEMMA StreamKeeps == ListInv /\ (Publish \/ LoseAcknowledgement \/ Connect \/ Break) => ListInv'
<1> SUFFICES ASSUME ListInv, Publish \/ LoseAcknowledgement \/ Connect \/ Break PROVE ListInv'
  OBVIOUS
<1> USE DEF ListInv
<1>1. /\ UNCHANGED <<issued, filter, rows, latest, loads, filtered>> /\ pending' \subseteq pending
      /\ unannounced' \subseteq unannounced \cup pending
  BY DEF Publish, LoseAcknowledgement, Connect, Break, view, ghosts, server
<1>2. StreamInv'
  <2>1. CASE Publish
    <3>1. PICK i \in pending : stream' = IF stream = NoStream THEN NoStream ELSE Append(stream, i)
      BY <2>1 DEF Publish
    <3>2. i \in Known
      BY DEF ServerInv
    <3> QED
      BY <1>1, <3>1, <3>2 DEF StreamInv, Known
  <2>2. CASE Connect
    BY <1>1, <2>2 DEF StreamInv, Connect, Known
  <2>3. CASE Break
    BY <2>3 DEF StreamInv, Break
  <2>4. CASE LoseAcknowledgement
    BY <1>1, <2>4 DEF StreamInv, LoseAcknowledgement, Known
  <2> QED
    BY <2>1, <2>2, <2>3, <2>4
<1> QED
  BY <1>1, <1>2 DEF ServerInv, LoadsInv, LoadInv, RowsInv, RowsMatchFilter, Matching, Matches, Known

LEMMA TailKeeps == ListInv /\ stream \notin {NoStream, <<>>} /\ stream' = Tail(stream)
                     /\ UNCHANGED issued => StreamInv'
  BY DEF ListInv, StreamInv, Known

LEMMA OpenKeeps == ListInv /\ OnOpen => ListInv'
<1> SUFFICES ASSUME ListInv, OnOpen PROVE ListInv'
  OBVIOUS
<1>1. UNCHANGED <<issued, pending, unannounced, filter, rows, filtered>>
  BY DEF OnOpen, server
<1>2. StreamInv'
  BY <1>1, TailKeeps DEF OnOpen
<1>3. LoadsInv'
  BY <1>1, LoadKeeps DEF OnOpen, ListInv
<1> QED
  BY <1>1, <1>2, <1>3 DEF ListInv, ServerInv, RowsInv, RowsMatchFilter, Matches, Known

\* A live row comes in only when the filter accepts it.
LEMMA CreatedKeeps == ListInv /\ OnInvoiceCreated => ListInv'
<1> SUFFICES ASSUME ListInv, OnInvoiceCreated PROVE ListInv'
  OBVIOUS
<1> USE DEF ListInv
<1>1. UNCHANGED <<issued, pending, unannounced, filter, latest, filtered>>
  BY DEF OnInvoiceCreated, server, ghosts
<1>2. StreamInv'
  BY <1>1, TailKeeps DEF OnInvoiceCreated
<1>3. LoadsInv'
  <2>1. ASSUME NEW load \in loads PROVE LoadInv([load EXCEPT !.crossed = TRUE])'
    <3>1. LoadInv(load)
      BY DEF LoadsInv
    <3> QED
      BY <1>1, <3>1 DEF LoadInv, LoadFields, Matching, Matches
  <2> QED
    BY <1>1, <2>1 DEF LoadsInv, OnInvoiceCreated
<1>4. Head(stream) \in Known
  BY DEF OnInvoiceCreated, StreamInv
<1>5. RowsInv'
  BY <1>1, <1>4 DEF RowsInv, RowsMatchFilter, OnInvoiceCreated, Accepts, Matches, MergeRows, Known
<1> QED
  BY <1>1, <1>2, <1>3, <1>5 DEF ServerInv, Known

\* The rows of the filter before are not called filtered.
LEMMA ChangeKeeps ==
    ASSUME ListInv, NEW f \in Filters, ChangeFilters(f)
    PROVE  ListInv'
<1>1. UNCHANGED <<issued, pending, unannounced, stream, rows>> /\ filter' = f /\ ~filtered'
  BY DEF ChangeFilters, server
<1>2. LoadsInv'
  BY <1>1, LoadKeeps DEF ChangeFilters, ListInv
<1> QED
  BY <1>1, <1>2 DEF ListInv, ServerInv, StreamInv, RowsInv, RowsMatchFilter, Known

LEMMA MoreKeeps == ListInv /\ LoadMore => ListInv'
<1> SUFFICES ASSUME ListInv, LoadMore PROVE ListInv'
  OBVIOUS
<1>1. UNCHANGED <<issued, pending, unannounced, stream, filter, rows, filtered>>
  BY DEF LoadMore, server, ghosts
<1>2. LoadsInv'
  BY <1>1, LoadKeeps DEF LoadMore, ListInv
<1> QED
  BY <1>1, <1>2 DEF ListInv, ServerInv, StreamInv, RowsInv, RowsMatchFilter, Matches, Known

LEMMA ReadKeeps ==
    ASSUME ListInv, NEW load \in loads, Read(load)
    PROVE  ListInv'
<1> DEFINE answered == [load EXCEPT !.page = PageOf(load.filter, load.cursor), !.seen = Len(issued)]
<1>1. UNCHANGED <<issued, pending, unannounced, stream, filter, rows, latest, filtered>>
  BY DEF Read, server, view, ghosts
<1>2. LoadInv(load)
  BY DEF ListInv, LoadsInv
<1>3. /\ DOMAIN answered = LoadFields
      /\ answered.number = load.number /\ answered.filter = load.filter
      /\ answered.page = PageOf(load.filter, load.cursor)
  BY <1>2 DEF LoadInv, LoadFields
<1>4. LoadInv(answered)
  BY <1>2, <1>3, PageMatches DEF LoadInv
<1>5. LoadsInv'
  BY <1>1, <1>4 DEF ListInv, LoadsInv, LoadInv, Read, Matching, Matches
<1> QED
  BY <1>1, <1>5 DEF ListInv, ServerInv, StreamInv, RowsInv, RowsMatchFilter, Matches, Known

\* An answer that counts was asked for under the page's filter.
LEMMA ShowKeeps ==
    ASSUME ListInv, NEW load \in loads, Show(load)
    PROVE  ListInv'
<1>1. UNCHANGED <<issued, pending, unannounced, stream, filter, latest>> /\ loads' \subseteq loads
  BY DEF Show, server
<1>2. LoadsInv'
  BY <1>1 DEF ListInv, LoadsInv, LoadInv, Matching, Matches
<1>3. RowsInv'
  <2>1. CASE Counts(load)
    <3>1. load.page.items \subseteq Matching(filter)
      BY <2>1 DEF ListInv, LoadsInv, LoadInv, Counts, Show
    <3>2. CASE load.mode = "replace"
      BY <1>1, <2>1, <3>1, <3>2 DEF RowsInv, RowsMatchFilter, Show, Matching, Matches, Known
    <3>3. CASE load.mode # "replace"
      <4>1. rows' = rows \cup load.page.items /\ (filtered' => filtered)
        BY <2>1, <3>3 DEF Show, MergeRows
      <4> QED
        BY <1>1, <3>1, <4>1 DEF ListInv, RowsInv, RowsMatchFilter, Matching, Matches, Known
    <3> QED
      BY <3>2, <3>3
  <2>2. CASE ~Counts(load)
    BY <1>1, <2>2 DEF ListInv, RowsInv, RowsMatchFilter, Matches, Show, ghosts, Known
  <2> QED
    BY <2>1, <2>2
<1> QED
  BY <1>1, <1>2, <1>3 DEF ListInv, ServerInv, StreamInv, Known

LEMMA FailKeeps ==
    ASSUME ListInv, NEW load \in loads, FailLoad(load)
    PROVE  ListInv'
<1>1. UNCHANGED <<issued, pending, unannounced, stream, filter, rows, latest, filtered>> /\ loads' \subseteq loads
  BY DEF FailLoad, server, ghosts
<1> QED
  BY <1>1 DEF ListInv, ServerInv, StreamInv, LoadsInv, LoadInv, RowsInv, RowsMatchFilter,
              Matching, Matches, Known

\* Every step of the page and of the API keeps the invariant of the invoice list.
LEMMA ListStep == ListInv /\ [Next]_vars => ListInv'
<1> SUFFICES ASSUME ListInv, [Next]_vars PROVE ListInv'
  OBVIOUS
<1>1. CASE Issue
  BY <1>1, IssueKeeps
<1>2. CASE Publish \/ LoseAcknowledgement \/ Connect \/ Break
  BY <1>2, StreamKeeps
<1>3. CASE OnOpen
  BY <1>3, OpenKeeps
<1>4. CASE OnInvoiceCreated
  BY <1>4, CreatedKeeps
<1>5. CASE \E f \in Filters : ChangeFilters(f)
  BY <1>5, ChangeKeeps
<1>6. CASE LoadMore
  BY <1>6, MoreKeeps
<1>7. CASE \E load \in loads : Read(load) \/ Show(load) \/ FailLoad(load)
  BY <1>7, ReadKeeps, ShowKeeps, FailKeeps
<1>8. CASE UNCHANGED vars
  BY <1>8 DEF vars, server, view, ghosts, ListInv, ServerInv, StreamInv, LoadsInv, LoadInv,
              RowsInv, RowsMatchFilter, Matching, Matches, Known
<1> QED
  BY <1>1, <1>2, <1>3, <1>4, <1>5, <1>6, <1>7, <1>8 DEF Next

\* Once the filter's own page was shown, no row of another filter is on the page:
\* of all answers InvoicesView takes the latest request's only, and of all live
\* rows those its filter accepts.
THEOREM RowsMatch == Spec => []RowsMatchFilter
<1>1. ListInv => RowsMatchFilter
  BY DEF ListInv, RowsInv
<1> QED
  BY <1>1, ListInit, ListStep, PTL DEF Spec

-----------------------------------------------------------------------------
(***************************************************************************)
(* The invariant: no row is missing down to the cursor, but those that are *)
(* on their way.                                                           *)
(***************************************************************************)
\* The invoices the page may have been rendered with.
Old == 1..Len(FirstIssued)

\* What was issued since comes over the stream.
LiveInv ==
    /\ Len(FirstIssued) <= Len(issued) /\ Len(issued) <= MaxIssued
    /\ pending \cap Old = {}
    /\ stream # NoStream => \A k \in DOMAIN stream : stream[k] \notin Old
    /\ live => stream # NoStream

\* The page has not heard of it yet, or never will.
Unheard(i) ==
    \/ i \in pending \/ i \in unannounced
    \/ stream # NoStream /\ \E k \in DOMAIN stream : stream[k] = i

Downto(cursor) == {i \in Ids : cursor = NoCursor \/ cursor <= i}

\* An answer has its page without gaps; of what was issued since it was read, the
\* event is on its way or came to rows that the answer keeps or, crossing it, drops.
AnswerInv(load) ==
    /\ load.seen \in 0..Len(issued)
    /\ load.page.next \in Known \cup {NoCursor}
    /\ load.page.items \subseteq Older(load.cursor) \cap Downto(load.page.next)
    /\ load.page.next # NoCursor => load.page.next \in load.page.items
    /\ Old \cap Matching(load.filter) \cap Older(load.cursor) \cap Downto(load.page.next)
          \subseteq load.page.items
    /\ load.mode = "replace" => Newest(Matching(load.filter)) \subseteq Downto(load.page.next)
    /\ load.mode = "merge" /\ load.number = latest /\ filtered => load.page.items \subseteq Downto(nextCursor)
    /\ load.mode # "append" /\ load.number = latest /\ live /\ WithinAPage =>
          \A i \in Matching(load.filter) \ Old :
              \/ i \in load.page.items
              \/ /\ load.seen < i
                 /\ Unheard(i) \/ IF load.mode = "replace" THEN load.crossed ELSE i \in rows

RequestInv(load) ==
    /\ load \in Loads
    /\ load.cursor \in Known \cup {NoCursor}
    /\ load.mode # "append" <=> load.cursor = NoCursor
    /\ load.mode = "append" /\ load.number = latest => load.cursor = nextCursor
    /\ load.page # Unread => AnswerInv(load)

RequestsInv ==
    /\ latest <= MaxLoads
    /\ \A load \in loads : RequestInv(load)
    /\ \A l, m \in loads : l.number = m.number => l = m

\* The rows go down to the cursor, below the first page.
WholeInv ==
    /\ nextCursor \in Known \cup {NoCursor}
    /\ seen \in 0..Len(issued)
    /\ filtered =>
         /\ Newest(Matching(filter)) \subseteq Downto(nextCursor)
         /\ WithinAPage => rows \subseteq Downto(nextCursor)
         /\ Old \cap Matching(filter) \cap Downto(nextCursor) \subseteq rows
         /\ live /\ synced /\ ~overwritten /\ WithinAPage =>
               \A i \in Matching(filter) \ Old : i \in rows \/ (seen < i /\ Unheard(i))

RestInv ==
    /\ filter \in Filters /\ live \in BOOLEAN /\ loadError \in BOOLEAN
    /\ filtered \in BOOLEAN /\ synced \in BOOLEAN /\ overwritten \in BOOLEAN
    /\ breaks \in 0..MaxBreaks

PageListInv == LiveInv /\ RequestsInv /\ WholeInv /\ RestInv

-----------------------------------------------------------------------------
(***************************************************************************)
(* What a page of invoices has.                                            *)
(***************************************************************************)
\* Invoices are numbered from 1 to MaxIssued.
LEMMA KnownIds ==
    ASSUME ServerInv, LiveInv
    PROVE  /\ Known = 1..Len(issued) /\ Len(issued) \in Nat
           /\ Known \subseteq Ids /\ Old \subseteq Known /\ Ids \subseteq Nat
           /\ \A f : Matching(f) \subseteq Known
<1>1. Len(issued) \in Nat /\ Known = 1..Len(issued)
  BY DEF ServerInv, Known
<1>2. Len(FirstIssued) \in Nat /\ MaxIssued \in Nat
  BY ListAssumption
<1>3. Known \subseteq Ids /\ Old \subseteq Known /\ Ids \subseteq Nat
  BY <1>1, <1>2 DEF LiveInv, Ids, Old
<1> QED
  BY <1>1, <1>3 DEF Matching, Known

\* Sets of invoices are finite.
LEMMA FiniteIds ==
    ASSUME NEW S \in SUBSET Ids
    PROVE  S \subseteq Nat /\ IsFiniteSet(S) /\ Cardinality(S) \in Nat
<1>1. MaxIssued \in Int /\ 1 \in Int
  BY ListAssumption
<1>2. IsFiniteSet(Ids) /\ Ids \subseteq Nat
  BY <1>1, FS_Interval DEF Ids
<1>3. IsFiniteSet(S)
  BY <1>2, FS_Subset
<1> QED
  BY <1>2, <1>3, FS_CardinalityType

\* Among fewer, one that is newest stays so.
LEMMA NewestOfFewer ==
    ASSUME NEW T \in SUBSET Ids, NEW S \in SUBSET T
    PROVE  Newest(T) \cap S \subseteq Newest(S)
<1> SUFFICES ASSUME NEW i \in Newest(T) \cap S PROVE i \in Newest(S)
  OBVIOUS
<1> DEFINE Above(R) == {j \in R : j > i}
<1>1. Above(S) \subseteq Above(T) /\ Above(T) \in SUBSET Ids /\ Above(S) \in SUBSET Ids
  OBVIOUS
<1>2. Cardinality(Above(T)) < PageSize
  BY DEF Newest
<1>3. Cardinality(Above(S)) <= Cardinality(Above(T))
  <2> HIDE DEF Above
  <2> QED
    BY <1>1, FiniteIds, FS_Subset
<1>4. Cardinality(Above(S)) < PageSize
  <2>1. Cardinality(Above(S)) \in Nat /\ Cardinality(Above(T)) \in Nat /\ PageSize \in Nat
    <3> HIDE DEF Above
    <3> QED
      BY <1>1, FiniteIds, ListAssumption
  <2> HIDE DEF Above
  <2> QED
    BY <1>2, <1>3, <2>1
<1> QED
  BY <1>4 DEF Newest

\* Whatever is newer than one of the newest is one of them.
LEMMA NewestUp ==
    ASSUME NEW S \in SUBSET Ids, NEW i \in Newest(S), NEW j \in S, i <= j
    PROVE  j \in Newest(S)
<1> DEFINE Above(k) == {l \in S : l > k}
<1>1. i \in S /\ S \subseteq Nat /\ Cardinality(Above(i)) < PageSize
  BY FiniteIds DEF Newest
<1>2. Above(j) \subseteq Above(i) /\ Above(i) \in SUBSET Ids /\ Above(j) \in SUBSET Ids
  <2>1. ASSUME NEW l \in S, l > j PROVE l > i
    <3>1. i \in Nat /\ j \in Nat /\ l \in Nat
      BY <1>1
    <3> QED
      BY <3>1, <2>1
  <2> QED
    BY <2>1
<1>3. Cardinality(Above(j)) <= Cardinality(Above(i))
  <2> HIDE DEF Above
  <2> QED
    BY <1>2, FiniteIds, FS_Subset
<1>4. Cardinality(Above(j)) < PageSize
  <2>1. Cardinality(Above(i)) \in Nat /\ Cardinality(Above(j)) \in Nat /\ PageSize \in Nat
    <3> HIDE DEF Above
    <3> QED
      BY <1>2, FiniteIds, ListAssumption
  <2> HIDE DEF Above
  <2> QED
    BY <1>1, <1>3, <2>1
<1> QED
  BY <1>4 DEF Newest

\* A page of something is not empty.
LEMMA NewestSome ==
    ASSUME NEW S \in SUBSET Ids, S # {}
    PROVE  Newest(S) # {}
<1>1. S \subseteq Nat /\ MaxIssued \in Nat /\ \A i \in S : i <= MaxIssued
  BY FiniteIds, ListAssumption DEF Ids
<1>2. PICK i \in S : \A j \in S : j <= i
  BY <1>1, LargestBelow
<1>3. {j \in S : j > i} = {}
  <2>1. \A j \in S : j \in Nat /\ ~ (j > i)
    BY <1>1, <1>2
  <2> QED
    BY <2>1
<1>4. Cardinality({}) = 0 /\ 0 < PageSize
  BY FS_EmptySet, ListAssumption
<1>5. Cardinality({j \in S : j > i}) < PageSize
  BY <1>3, <1>4
<1> QED
  BY <1>5 DEF Newest

LEMMA SmallestOf ==
    ASSUME NEW S \in SUBSET Ids, S # {}
    PROVE  Smallest(S) \in S /\ \A i \in S : Smallest(S) <= i
<1>1. S \in SUBSET Nat
  BY FiniteIds
<1>2. \E i \in S : \A j \in S : i <= j
  BY <1>1, LeastNatural
<1> QED
  BY <1>2 DEF Smallest

\* What was issued since the page was rendered, if it fits a page, is on the first.
LEMMA NewIsNewest ==
    ASSUME ServerInv, LiveInv, WithinAPage, NEW f, NEW i \in Matching(f) \ Old
    PROVE  i \in Newest(Matching(f))
<1> DEFINE Above == {j \in Matching(f) : j > i}
<1>1. i \in Nat /\ Len(issued) \in Nat /\ Len(FirstIssued) \in Nat /\ PageSize \in Nat
      /\ i > Len(FirstIssued) /\ i <= Len(issued)
  <2>1. i \in 1..Len(issued) /\ Len(issued) \in Nat
    BY KnownIds
  <2>2. Len(FirstIssued) \in Nat /\ PageSize \in Nat
    BY ListAssumption
  <2> QED
    BY <2>1, <2>2 DEF Old
<1>2. Above \subseteq (i + 1)..Len(issued)
  <2>1. Matching(f) \subseteq 1..Len(issued)
    BY KnownIds, Zenon
  <2>2. ASSUME NEW j \in 1..Len(issued), j > i PROVE j \in (i + 1)..Len(issued)
    BY <1>1, <2>2
  <2> QED
    BY <2>1, <2>2
<1>3. /\ IsFiniteSet((i + 1)..Len(issued))
      /\ Cardinality((i + 1)..Len(issued)) = IF i + 1 > Len(issued) THEN 0 ELSE Len(issued) - (i + 1) + 1
  <2>1. i + 1 \in Int /\ Len(issued) \in Int
    BY <1>1
  <2> QED
    BY <2>1, FS_Interval
<1>4. Cardinality((i + 1)..Len(issued)) = Len(issued) - i
  BY <1>1, <1>3
<1>5. Cardinality(Above) <= Cardinality((i + 1)..Len(issued)) /\ Cardinality(Above) \in Nat
  <2> HIDE DEF Above
  <2> QED
    BY <1>2, <1>3, FS_Subset, FS_CardinalityType
<1>6. Cardinality(Above) < PageSize
  <2> HIDE DEF Above
  <2> QED
    BY <1>1, <1>4, <1>5 DEF WithinAPage
<1> QED
  BY <1>6 DEF Newest

LEMMA PageFacts ==
    ASSUME ServerInv, LiveInv, NEW f, NEW cursor, NEW page, page = PageOf(f, cursor)
    PROVE  /\ page \in Pages
           /\ page.items = Newest(Matching(f) \cap Older(cursor))
           /\ page.next \in Known \cup {NoCursor}
           /\ page.items \subseteq Older(cursor) \cap Downto(page.next)
           /\ page.next # NoCursor => page.next \in page.items
           /\ Matching(f) \cap Older(cursor) \cap Downto(page.next) \subseteq page.items
<1> DEFINE found == Matching(f) \cap Older(cursor)
           items == Newest(found)
           next == IF items = found THEN NoCursor ELSE Smallest(items)
<1>1. page.items = items /\ page.next = next /\ page = [items |-> items, next |-> next]
  BY DEF PageOf
<1>2. found \in SUBSET Ids /\ items \subseteq found /\ found \subseteq Known
  BY KnownIds DEF Newest, Older
<1>3. items # found => Smallest(items) \in items /\ \A i \in items : Smallest(items) <= i
  <2> SUFFICES ASSUME items # found PROVE Smallest(items) \in items /\ \A i \in items : Smallest(items) <= i
    OBVIOUS
  <2>1. found # {}
    BY <1>2
  <2> HIDE DEF found
  <2>2. items # {} /\ items \in SUBSET Ids
    BY <1>2, <2>1, NewestSome
  <2> HIDE DEF items
  <2> QED
    BY <2>2, SmallestOf
<1>4. next \in Known \cup {NoCursor} /\ (next # NoCursor => next \in items)
  BY <1>2, <1>3
<1>5. items \subseteq Older(cursor) \cap Downto(next)
  <2>1. items \subseteq Older(cursor) /\ items \subseteq Ids
    BY <1>2
  <2>2. items \subseteq Downto(next)
    <3> HIDE DEF found, items
    <3> QED
      BY <1>3, <2>1 DEF Downto
  <2> QED
    BY <2>1, <2>2
<1>6. found \cap Downto(next) \subseteq items
  <2> SUFFICES ASSUME NEW i \in found, i \in Downto(next), items # found PROVE i \in items
    OBVIOUS
  <2>1. next = Smallest(items) /\ next \in items /\ next \in Known
    BY <1>2, <1>3
  <2>2. next # NoCursor
    BY <2>1, KnownIds, ListAssumption
  <2>3. next <= i
    <3> HIDE DEF next
    <3> QED
      BY <2>2 DEF Downto
  <2> HIDE DEF found, next
  <2> QED
    BY <1>2, <2>1, <2>3, NewestUp
<1>7. page \in Pages
  <2>1. items \in SUBSET Ids /\ next \in Cursors
    BY <1>2, <1>4, KnownIds DEF Cursors
  <2> HIDE DEF items, next
  <2> QED
    BY <1>1, <2>1 DEF Pages
<1>8. page.items = Newest(found)
  BY <1>1
<1> HIDE DEF next, items, found
<1>9. /\ page.next \in Known \cup {NoCursor}
      /\ page.items \subseteq Older(cursor) \cap Downto(page.next)
      /\ page.next # NoCursor => page.next \in page.items
      /\ found \cap Downto(page.next) \subseteq page.items
  BY <1>1, <1>4, <1>5, <1>6
<1> QED
  BY <1>7, <1>8, <1>9 DEF found

\* The first page of a filter is the newest of its invoices.
LEMMA FirstPage ==
    ASSUME ServerInv, LiveInv, NEW f
    PROVE  Matching(f) \cap Older(NoCursor) = Matching(f)
  BY KnownIds DEF Older

LEMMA PageListInit == Init => ServerInv /\ PageListInv
<1> SUFFICES ASSUME Init PROVE ServerInv /\ PageListInv
  OBVIOUS
<1>1. ServerInv
  BY ListInit DEF ListInv
<1>2. LiveInv
  BY ListAssumption DEF Init, LiveInv
<1>3. PICK page : page = PageOf(All, NoCursor)
  OBVIOUS
<1>4. rows = page.items /\ nextCursor = page.next /\ filter = All /\ ~live
  BY <1>3 DEF Init
<1>9. Matching(All) \cap Older(NoCursor) = Matching(All)
  BY <1>1, <1>2, FirstPage
<1>5. /\ rows = Newest(Matching(All))
      /\ nextCursor \in Known \cup {NoCursor}
      /\ rows \subseteq Downto(nextCursor)
      /\ Matching(All) \cap Downto(nextCursor) \subseteq rows
  <2>1. /\ page.items = Newest(Matching(All) \cap Older(NoCursor))
        /\ page.next \in Known \cup {NoCursor}
        /\ page.items \subseteq Older(NoCursor) \cap Downto(page.next)
        /\ Matching(All) \cap Older(NoCursor) \cap Downto(page.next) \subseteq page.items
    BY <1>1, <1>2, <1>3, PageFacts, Zenon
  <2> QED
    BY <1>4, <1>9, <2>1
<1>6. WholeInv
  <2>1. seen \in 0..Len(issued)
    BY ListAssumption DEF Init
  <2> QED
    BY <1>4, <1>5, <2>1 DEF WholeInv
<1>7. RequestsInv
  BY ListAssumption DEF Init, RequestsInv
<1>8. RestInv
  <2>1. MaxBreaks \in Nat /\ 0 \in 0..MaxBreaks
    BY ListAssumption
  <2> QED
    BY <2>1 DEF Init, RestInv, Filters
<1> QED
  BY <1>1, <1>2, <1>6, <1>7, <1>8 DEF PageListInv

\* A request started now is the latest, and no other may merge its answer.
LEMMA LoadKeepsRequests ==
    ASSUME ListInv, RequestsInv, NEW f \in Filters, NEW mode \in {"replace", "append", "merge"},
           NEW cursor, cursor \in Known \cup {NoCursor}, Known \subseteq Ids,
           mode # "append" <=> cursor = NoCursor, mode = "append" => cursor = nextCursor',
           Load(f, mode, cursor), UNCHANGED issued
    PROVE  RequestsInv'
<1>0. latest \in Nat /\ MaxLoads \in Nat /\ latest < MaxLoads /\ latest' = latest + 1
  BY ListAssumption DEF ListInv, LoadsInv, Load
<1>1. PICK new : new = [number |-> latest + 1, filter |-> f, mode |-> mode,
                        cursor |-> cursor, page |-> Unread, crossed |-> FALSE, seen |-> 0]
  OBVIOUS
<1>2. loads' = loads \cup {new}
  BY <1>1 DEF Load
<1>3. new \in Loads
  <2>1. latest + 1 \in 1..MaxLoads /\ cursor \in Cursors /\ Unread \in Pages \cup {Unread}
        /\ 0 \in 0..MaxIssued
    BY <1>0, ListAssumption DEF Cursors
  <2> QED
    BY <1>1, <2>1 DEF Loads
<1>4. RequestInv(new)'
  BY <1>1, <1>3 DEF RequestInv, Known
<1>5. ASSUME NEW load \in loads PROVE RequestInv(load)' /\ load.number \in Nat /\ load.number < new.number
  <2>1. RequestInv(load) /\ load.number \in Nat /\ load.number <= latest
    BY DEF RequestsInv, ListInv, LoadsInv, LoadInv
  <2>2. load.number # latest' /\ load.number < new.number
    BY <1>0, <1>1, <2>1
  <2>3. load.page # Unread => AnswerInv(load)'
    BY <2>1, <2>2 DEF RequestInv, AnswerInv, Matching, Matches, Known
  <2> QED
    BY <2>1, <2>2, <2>3 DEF RequestInv, Known
<1>6. \A load \in loads' : RequestInv(load)'
  BY <1>2, <1>4, <1>5
<1>7. \A l, m \in loads' : l.number = m.number => l = m
  <2>1. \A l \in loads : l.number \in Nat /\ l.number < new.number
    BY <1>5
  <2>2. new.number \in Nat
    BY <1>0, <1>1
  <2>3. \A l, m \in loads : l.number = m.number => l = m
    BY DEF RequestsInv
  <2>4. \A l \in loads : l.number # new.number
    BY <2>1, <2>2
  <2> QED
    BY <1>2, <2>3, <2>4
<1>8. latest' <= MaxLoads
  BY <1>0
<1> QED
  BY <1>6, <1>7, <1>8 DEF RequestsInv

\* What is issued now is not among the rows, but on its way.
LEMMA IssueWhole == ListInv /\ PageListInv /\ Issue => PageListInv'
<1> SUFFICES ASSUME ListInv, PageListInv, Issue PROVE PageListInv'
  OBVIOUS
<1>0. PICK n : n = Len(issued) + 1
  OBVIOUS
<1>1. PICK type \in Types : issued' = Append(issued, type)
  BY DEF Issue
<1>2. /\ UNCHANGED <<stream, live, filter, rows, nextCursor, loadError, latest, loads,
                     filtered, synced, overwritten, seen, breaks>>
      /\ pending' = pending \cup {n} /\ unannounced' = unannounced
  BY <1>0 DEF Issue, view, ghosts
<1>3. ServerInv /\ LiveInv /\ ServerInv'
  BY IssueKeeps DEF ListInv, PageListInv
<1>4. /\ Known = 1..Len(issued) /\ Len(issued) \in Nat /\ Known \subseteq Ids /\ Old \subseteq Known
      /\ \A f : Matching(f) \subseteq Known
  BY <1>3, KnownIds
<1>5. /\ Known' = Known \cup {n} /\ n \notin Known /\ n \in Ids /\ Len(issued') = n
      /\ \A i \in Known : issued'[i] = issued[i] /\ i < n
  <2>1. MaxIssued \in Nat /\ Len(issued) < MaxIssued
    BY ListAssumption DEF Issue
  <2> QED
    BY <1>0, <1>1, <1>3, <1>4, <2>1 DEF Known, ServerInv, Ids
<1>6. ASSUME NEW f
      PROVE  /\ Matching(f) \subseteq Matching(f)' /\ Matching(f)' \subseteq Matching(f) \cup {n}
             /\ Old \cap Matching(f)' = Old \cap Matching(f)
             /\ Newest(Matching(f)') \subseteq Newest(Matching(f)) \cup {n}
  <2>1. Matching(f) \subseteq Matching(f)' /\ Matching(f)' \subseteq Matching(f) \cup {n}
    BY <1>5 DEF Matching, Matches, Known
  <2>2. n \notin Old
    BY <1>4, <1>5
  <2>3. Matching(f)' \in SUBSET Ids
    BY <1>4, <1>5, <2>1
  <2>4. PICK T, S : T = Matching(f)' /\ S = Matching(f)
    OBVIOUS
  <2>5. Newest(T) \cap S \subseteq Newest(S) /\ Newest(T) \subseteq T
    <3>1. T \in SUBSET Ids /\ S \in SUBSET T
      BY <2>1, <2>3, <2>4
    <3> QED
      BY <3>1, NewestOfFewer DEF Newest
  <2> QED
    BY <2>1, <2>2, <2>4, <2>5
<1>7. WithinAPage' => WithinAPage
  <2>1. Len(FirstIssued) \in Nat /\ PageSize \in Nat
    BY ListAssumption
  <2> QED
    BY <1>4, <1>5, <2>1 DEF WithinAPage
<1>8. ASSUME NEW cursor \in Known \cup {NoCursor} PROVE n \in Downto(cursor)
  BY <1>0, <1>4, <1>5 DEF Downto
<1>9. /\ \A i : Unheard(i) => Unheard(i)'
      /\ Unheard(n)'
  BY <1>2 DEF Unheard
<1>10. LiveInv'
  <2>1. Len(issued') <= MaxIssued /\ Len(FirstIssued) <= Len(issued') /\ n \notin Old
    <3>1. MaxIssued \in Nat /\ Len(issued) < MaxIssued /\ Len(FirstIssued) \in Nat
      BY ListAssumption DEF Issue
    <3> QED
      BY <1>0, <1>3, <1>4, <1>5, <3>1 DEF LiveInv
  <2> QED
    BY <1>2, <1>3, <2>1 DEF LiveInv
<1>11. ASSUME NEW load \in loads PROVE RequestInv(load)'
  <2>1. RequestInv(load)
    BY DEF PageListInv, RequestsInv
  <2>2. ASSUME load.page # Unread PROVE AnswerInv(load)'
    <3> DEFINE next == load.page.next
               f == load.filter
    <3>1. AnswerInv(load)
      BY <2>1, <2>2 DEF RequestInv
    <3>2. next \in Known \cup {NoCursor}
      BY <3>1 DEF AnswerInv
    <3>3. next \in Known' \cup {NoCursor} /\ load.seen \in 0..Len(issued')
      BY <1>0, <1>4, <1>5, <3>1, <3>2 DEF AnswerInv
    <3>4. Old \cap Matching(f)' \cap Older(load.cursor) \cap Downto(next) \subseteq load.page.items
      BY <1>6, <3>1 DEF AnswerInv
    <3>5. load.mode = "replace" => Newest(Matching(f)') \subseteq Downto(next)
      BY <1>6, <1>8, <3>1, <3>2 DEF AnswerInv
    <3>6. ASSUME load.mode # "append", load.number = latest, live, WithinAPage',
                 NEW i \in Matching(f)' \ Old
          PROVE  \/ i \in load.page.items
                 \/ /\ load.seen < i
                    /\ Unheard(i)' \/ IF load.mode = "replace" THEN load.crossed ELSE i \in rows
      <4>1. CASE i = n
        BY <1>0, <1>4, <1>9, <3>1, <4>1 DEF AnswerInv
      <4>2. CASE i \in Matching(f) \ Old
        BY <1>7, <1>9, <3>1, <3>6, <4>2 DEF AnswerInv
      <4> QED
        BY <1>6, <3>6, <4>1, <4>2
    <3> QED
      BY <1>2, <3>1, <3>3, <3>4, <3>5, <3>6 DEF AnswerInv
  <2> QED
    BY <1>2, <1>5, <2>1, <2>2 DEF RequestInv
<1>12. RequestsInv'
  BY <1>2, <1>11 DEF PageListInv, RequestsInv
<1>13. WholeInv'
  <2>1. WholeInv /\ nextCursor \in Known \cup {NoCursor} /\ seen \in 0..Len(issued)
    BY DEF PageListInv, WholeInv
  <2>2. nextCursor \in Known' \cup {NoCursor} /\ seen \in 0..Len(issued')
    BY <1>0, <1>4, <1>5, <2>1
  <2>0. PICK f : f = filter
    OBVIOUS
  <2>3. Newest(Matching(f)) \subseteq Downto(nextCursor) => Newest(Matching(f)') \subseteq Downto(nextCursor)
    BY <1>6, <1>8, <2>1
  <2>4. Old \cap Matching(f)' = Old \cap Matching(f)
    BY <1>6
  <2>5. ASSUME filtered, live, synced, ~overwritten, WithinAPage', NEW i \in Matching(f)' \ Old
        PROVE  i \in rows \/ (seen < i /\ Unheard(i)')
    <3>1. CASE i = n
      BY <1>0, <1>4, <1>9, <2>1, <3>1
    <3>2. CASE i \in Matching(f) \ Old
      BY <1>7, <1>9, <2>0, <2>1, <2>5, <3>2 DEF WholeInv
    <3> QED
      BY <1>6, <2>5, <3>1, <3>2
  <2>6. filter' = f
    BY <1>2, <2>0
  <2> QED
    BY <1>2, <1>7, <2>0, <2>1, <2>2, <2>3, <2>4, <2>5, <2>6 DEF WholeInv
<1>14. RestInv'
  BY <1>2 DEF PageListInv, RestInv
<1> QED
  BY <1>10, <1>12, <1>13, <1>14 DEF PageListInv

\* What leaves the list of pending events goes over an open stream; no stream is
\* live before its open was received.
LEMMA StreamWhole == ListInv /\ PageListInv /\ (Publish \/ LoseAcknowledgement \/ Connect \/ Break) => PageListInv'
<1> SUFFICES ASSUME ListInv, PageListInv, Publish \/ LoseAcknowledgement \/ Connect \/ Break PROVE PageListInv'
  OBVIOUS
<1>1. /\ UNCHANGED <<issued, filter, rows, nextCursor, loadError, latest, loads,
                     filtered, synced, overwritten, seen>>
      /\ pending' \subseteq pending
  BY DEF Publish, LoseAcknowledgement, Connect, Break, view, ghosts, server
<1>2. LiveInv /\ RequestsInv /\ WholeInv /\ RestInv /\ StreamInv
  BY DEF PageListInv, ListInv
<1>3. LiveInv' /\ (live' => live /\ \A i : Unheard(i) => Unheard(i)')
  <2>1. CASE Publish
    <3>1. PICK p \in pending :
             /\ pending' = pending \ {p}
             /\ stream' = IF stream = NoStream THEN NoStream ELSE Append(stream, p)
             /\ UNCHANGED <<live, unannounced>>
      BY <2>1 DEF Publish
    <3>2. CASE stream = NoStream
      BY <1>1, <1>2, <3>1, <3>2 DEF LiveInv
    <3>3. CASE stream # NoStream
      <4>1. /\ stream \in Seq(Known \cup {Opened}) /\ stream' = Append(stream, p)
            /\ stream' # NoStream
        <5>1. stream \in Seq(Known \cup {Opened}) /\ stream' = Append(stream, p)
          BY <1>2, <3>1, <3>3 DEF StreamInv
        <5>2. p \in Ids /\ Known \subseteq Ids
          BY KnownIds, <1>2 DEF ListInv, ServerInv
        <5>3. stream' \in Seq(Ids \cup {Opened})
          BY <5>1, <5>2
        <5> QED
          BY <5>1, <5>3, NothingAssumption
      <4>2. /\ \A k \in DOMAIN stream : k \in DOMAIN stream' /\ stream'[k] = stream[k]
            /\ \A k \in DOMAIN stream' : k \in DOMAIN stream \/ stream'[k] = p
            /\ \E k \in DOMAIN stream' : stream'[k] = p
        <5>1. Len(stream) + 1 \in DOMAIN stream' /\ stream'[Len(stream) + 1] = p
          BY <4>1
        <5> QED
          BY <4>1, <5>1
      <4>3. ASSUME NEW i, Unheard(i) PROVE Unheard(i)'
        BY <3>1, <3>3, <4>1, <4>2, <4>3 DEF Unheard
      <4>4. LiveInv'
        BY <1>1, <1>2, <3>1, <3>3, <4>1, <4>2 DEF LiveInv
      <4> QED
        BY <3>1, <4>3, <4>4
    <3> QED
      BY <3>2, <3>3
  <2>2. CASE Connect
    <3>1. stream = NoStream /\ stream' = <<Opened>> /\ ~live /\ ~live' /\ pending' = pending
      BY <1>2, <2>2 DEF Connect, LiveInv, server
    <3>2. Opened \notin Old
      BY DEF Old, Opened
    <3> QED
      BY <1>1, <1>2, <3>1, <3>2 DEF LiveInv
  <2>3. CASE Break
    BY <1>1, <1>2, <2>3 DEF LiveInv, Break, server
  <2>4. CASE LoseAcknowledgement
    <3>1. PICK p \in pending :
             /\ pending' = pending \ {p} /\ unannounced' = unannounced \cup {p}
             /\ UNCHANGED <<stream, live>>
      BY <2>4 DEF LoseAcknowledgement
    <3> QED
      BY <1>1, <1>2, <3>1 DEF LiveInv, Unheard
  <2> QED
    BY <2>1, <2>2, <2>3, <2>4
<1>4. ASSUME NEW load \in loads PROVE RequestInv(load)'
  <2>1. RequestInv(load)
    BY <1>2 DEF RequestsInv
  <2>2. load.page # Unread => AnswerInv(load)'
    BY <1>1, <1>3, <2>1 DEF RequestInv, AnswerInv, Matching, Matches, Known, WithinAPage
  <2> QED
    BY <1>1, <2>1, <2>2 DEF RequestInv, Known
<1>5. RequestsInv'
  BY <1>1, <1>2, <1>4 DEF RequestsInv
<1>6. WholeInv'
  BY <1>1, <1>2, <1>3 DEF WholeInv, Matching, Matches, Known, WithinAPage
<1>7. RestInv'
  <2>1. breaks' = breaks \/ (breaks < MaxBreaks /\ breaks' = breaks + 1)
    BY DEF Publish, LoseAcknowledgement, Connect, Break
  <2>2. live' = live \/ live' = FALSE
    BY DEF Publish, LoseAcknowledgement, Connect, Break
  <2>3. MaxBreaks \in Nat /\ breaks \in 0..MaxBreaks /\ live \in BOOLEAN
    BY <1>2, ListAssumption DEF RestInv
  <2>4. breaks' \in 0..MaxBreaks
    BY <2>1, <2>3
  <2>5. live' \in BOOLEAN
    BY <2>2, <2>3
  <2> QED
    BY <1>1, <1>2, <2>4, <2>5 DEF RestInv
<1> QED
  BY <1>3, <1>5, <1>6, <1>7 DEF PageListInv

\* Taking an event off the stream leaves the others on it.
LEMMA TakeEvent ==
    ASSUME ListInv, LiveInv, stream \notin {NoStream, <<>>}, stream' = Tail(stream),
           UNCHANGED <<issued, pending, unannounced>>
    PROVE  /\ LiveInv'
           /\ \A i : Unheard(i) => i = Head(stream) \/ Unheard(i)'
<1>1. stream \in Seq(Known \cup {Opened}) /\ stream # <<>> /\ Known \subseteq Ids
  BY KnownIds DEF ListInv, StreamInv
<1>2. stream' # NoStream
  <2>1. stream' \in Seq(Ids \cup {Opened})
    BY <1>1
  <2> QED
    BY <2>1, NothingAssumption
<1>3. /\ \A k \in DOMAIN stream' : k + 1 \in DOMAIN stream /\ stream'[k] = stream[k + 1]
      /\ \A k \in DOMAIN stream : k = 1 \/ (k - 1 \in DOMAIN stream' /\ stream'[k - 1] = stream[k])
      /\ Head(stream) = stream[1]
  BY <1>1
<1>4. LiveInv'
  BY <1>2, <1>3 DEF LiveInv
<1>5. ASSUME NEW i, Unheard(i), i # Head(stream) PROVE Unheard(i)'
  <2>1. CASE i \in pending \cup unannounced
    BY <2>1 DEF Unheard
  <2>2. CASE \E k \in DOMAIN stream : stream[k] = i
    <3>1. PICK k \in DOMAIN stream : stream[k] = i
      BY <2>2
    <3>2. k - 1 \in DOMAIN stream' /\ stream'[k - 1] = i
      BY <1>3, <1>5, <3>1
    <3> QED
      BY <1>2, <3>2 DEF Unheard
  <2> QED
    BY <1>5, <2>1, <2>2 DEF Unheard
<1> QED
  BY <1>4, <1>5

\* A stream that opens says nothing of the first page before a merge shows it.
LEMMA OpenWhole == ListInv /\ PageListInv /\ OnOpen => PageListInv'
<1> SUFFICES ASSUME ListInv, PageListInv, OnOpen PROVE PageListInv'
  OBVIOUS
<1>1. /\ UNCHANGED <<issued, pending, unannounced, filter, rows, nextCursor, filtered, overwritten,
                     seen, breaks>>
      /\ ~synced' /\ synced' \in BOOLEAN /\ live' \in BOOLEAN
      /\ stream \notin {NoStream, <<>>} /\ stream' = Tail(stream)
      /\ Load(filter, "merge", NoCursor)
  BY DEF OnOpen, server
<1>2. ServerInv /\ LiveInv /\ RequestsInv /\ WholeInv /\ RestInv
  BY DEF PageListInv, ListInv
<1>3. LiveInv'
  BY <1>1, <1>2, TakeEvent
<1>4. RequestsInv'
  <2>1. Known \subseteq Ids /\ filter \in Filters
    BY <1>2, KnownIds DEF RestInv
  <2> QED
    BY <1>1, <1>2, <2>1, LoadKeepsRequests
<1>5. WholeInv'
  BY <1>1, <1>2 DEF WholeInv, Matching, Matches, Known, WithinAPage
<1>6. RestInv'
  <2>1. loadError' = FALSE
    BY <1>1 DEF Load
  <2> QED
    BY <1>1, <1>2, <2>1 DEF RestInv
<1> QED
  BY <1>3, <1>4, <1>5, <1>6 DEF PageListInv

\* A live row goes to the rows, and every answer read before it knows of it.
LEMMA CreatedWhole == ListInv /\ PageListInv /\ OnInvoiceCreated => PageListInv'
<1> SUFFICES ASSUME ListInv, PageListInv, OnInvoiceCreated PROVE PageListInv'
  OBVIOUS
<1>0. PICK n : n = Head(stream)
  OBVIOUS
<1>1. /\ UNCHANGED <<issued, pending, unannounced, live, filter, nextCursor, loadError, latest, filtered,
                     synced, overwritten, seen, breaks>>
      /\ stream \notin {NoStream, <<>>} /\ stream' = Tail(stream) /\ n # Opened
      /\ rows' = IF Accepts(n) THEN rows \cup {n} ELSE rows
      /\ loads' = {[load EXCEPT !.crossed = TRUE] : load \in loads}
  BY <1>0 DEF OnInvoiceCreated, server, ghosts, MergeRows
<1>2. ServerInv /\ LiveInv /\ RequestsInv /\ WholeInv /\ RestInv /\ StreamInv /\ LoadsInv
  BY DEF PageListInv, ListInv
<1>3. LiveInv' /\ \A i : Unheard(i) => i = n \/ Unheard(i)'
  BY <1>0, <1>1, <1>2, TakeEvent
<1>4. n \in Known \ Old
  <2>1. stream \in Seq(Known \cup {Opened}) /\ stream # <<>>
    BY <1>1, <1>2 DEF StreamInv
  <2>2. 1 \in DOMAIN stream /\ stream[1] = n /\ n \in Known \cup {Opened}
    BY <1>0, <2>1
  <2> QED
    BY <1>1, <1>2, <2>2 DEF LiveInv
<1>5. n \in Matching(filter) <=> Accepts(n)
  BY <1>4 DEF Matching, Accepts, Known
<1>6. n \in Matching(filter) => n \in rows'
  BY <1>1, <1>5
<1>7. ASSUME NEW load \in loads, NEW crossed, crossed = [load EXCEPT !.crossed = TRUE]
      PROVE  RequestInv(crossed)'
  <2>1. RequestInv(load) /\ DOMAIN load = LoadFields /\ load \in Loads
        /\ (load.number = latest => load.filter = filter)
    BY <1>2 DEF RequestsInv, RequestInv, LoadsInv, LoadInv
  <2>2. /\ crossed.number = load.number /\ crossed.filter = load.filter /\ crossed.mode = load.mode
        /\ crossed.cursor = load.cursor /\ crossed.page = load.page /\ crossed.crossed = TRUE
        /\ crossed.seen = load.seen
    BY <1>7, <2>1 DEF LoadFields
  <2>3. crossed \in Loads
    BY <1>7, <2>1 DEF Loads
  <2>4. ASSUME load.page # Unread PROVE AnswerInv(crossed)'
    <3>1. AnswerInv(load)
      BY <2>1, <2>4 DEF RequestInv
    <3>2. ASSUME load.mode # "append", load.number = latest, live, WithinAPage,
                 NEW i \in Matching(load.filter) \ Old
          PROVE  \/ i \in load.page.items
                 \/ load.seen < i /\ (Unheard(i)' \/ load.mode = "replace" \/ i \in rows')
      <4>1. \/ i \in load.page.items
            \/ load.seen < i /\ (Unheard(i) \/ load.mode = "replace" \/ i \in rows)
        BY <3>1, <3>2 DEF AnswerInv
      <4>2. i = n => i \in rows'
        BY <1>6, <2>1, <3>2
      <4> QED
        BY <1>1, <1>3, <4>1, <4>2
    <3>3. \A f : Matching(f)' = Matching(f)
      BY <1>1 DEF Matching, Matches
    <3>4. WithinAPage' = WithinAPage /\ Known' = Known
      BY <1>1 DEF WithinAPage, Known
    <3> QED
      BY <1>1, <2>2, <3>1, <3>2, <3>3, <3>4 DEF AnswerInv
  <2> QED
    BY <1>1, <2>1, <2>2, <2>3, <2>4 DEF RequestInv, Known
<1>8. RequestsInv'
  <2>1. \A load \in loads' : RequestInv(load)'
    BY <1>1, <1>7
  <2>2. ASSUME NEW l \in loads', NEW m \in loads', l.number = m.number PROVE l = m
    <3>1. PICK l0 \in loads : l = [l0 EXCEPT !.crossed = TRUE]
      BY <1>1
    <3>2. PICK m0 \in loads : m = [m0 EXCEPT !.crossed = TRUE]
      BY <1>1
    <3>3. DOMAIN l0 = LoadFields /\ DOMAIN m0 = LoadFields
      BY <1>2 DEF LoadsInv, LoadInv
    <3>4. l0.number = m0.number
      BY <2>2, <3>1, <3>2, <3>3 DEF LoadFields
    <3> QED
      BY <1>2, <3>1, <3>2, <3>4 DEF RequestsInv
  <2> QED
    BY <1>1, <1>2, <2>1, <2>2 DEF RequestsInv
<1>9. WholeInv'
  <2>1. \A f : Matching(f)' = Matching(f)
    BY <1>1 DEF Matching, Matches
  <2>2. WithinAPage' = WithinAPage /\ Known' = Known
    BY <1>1 DEF WithinAPage, Known
  <2>3. ASSUME filtered, WithinAPage PROVE rows' \subseteq Downto(nextCursor)
    <3>1. n \in Matching(filter) => n \in Newest(Matching(filter))
      BY <1>2, <1>4, <2>3, NewIsNewest
    <3>2. rows \subseteq Downto(nextCursor) /\ Newest(Matching(filter)) \subseteq Downto(nextCursor)
      BY <1>2, <2>3 DEF WholeInv
    <3> QED
      BY <1>1, <1>5, <3>1, <3>2
  <2>4. ASSUME filtered, live, synced, ~overwritten, WithinAPage, NEW i \in Matching(filter) \ Old
        PROVE  i \in rows' \/ (seen < i /\ Unheard(i)')
    <3>1. i \in rows \/ (seen < i /\ Unheard(i))
      BY <1>2, <2>4 DEF WholeInv
    <3> QED
      BY <1>1, <1>3, <1>6, <3>1
  <2>5. rows \subseteq rows'
    BY <1>1
  <2>6. PICK f : f = filter
    OBVIOUS
  <2> QED
    BY <1>1, <1>2, <2>1, <2>2, <2>3, <2>4, <2>5, <2>6 DEF WholeInv
<1>10. RestInv'
  BY <1>1, <1>2 DEF RestInv
<1> QED
  BY <1>3, <1>8, <1>9, <1>10 DEF PageListInv

\* Nothing is said of the rows before the new filter's own page.
LEMMA ChangeWhole ==
    ASSUME ListInv, PageListInv, NEW f \in Filters, ChangeFilters(f)
    PROVE  PageListInv'
<1>1. /\ UNCHANGED <<issued, pending, unannounced, stream, live, rows, nextCursor, synced, overwritten, seen, breaks>>
      /\ filter' = f /\ filtered' = FALSE /\ Load(f, "replace", NoCursor) /\ loadError' = FALSE
  BY DEF ChangeFilters, server, Load
<1>2. ServerInv /\ LiveInv /\ RequestsInv /\ WholeInv /\ RestInv
  BY DEF PageListInv, ListInv
<1>3. RequestsInv'
  <2>1. Known \subseteq Ids
    BY <1>2, KnownIds
  <2> QED
    BY <1>1, <1>2, <2>1, LoadKeepsRequests
<1>4. LiveInv'
  BY <1>1, <1>2 DEF LiveInv
<1>5. WholeInv'
  BY <1>1, <1>2 DEF WholeInv, Known
<1>6. RestInv'
  BY <1>1, <1>2 DEF RestInv
<1> QED
  BY <1>3, <1>4, <1>5, <1>6 DEF PageListInv

\* The next page is asked for from the cursor on.
LEMMA MoreWhole == ListInv /\ PageListInv /\ LoadMore => PageListInv'
<1> SUFFICES ASSUME ListInv, PageListInv, LoadMore PROVE PageListInv'
  OBVIOUS
<1>1. /\ UNCHANGED <<issued, pending, unannounced, stream, live, filter, rows, nextCursor, filtered, synced,
                     overwritten, seen, breaks>>
      /\ nextCursor # NoCursor /\ Load(filter, "append", nextCursor) /\ loadError' = FALSE
  BY DEF LoadMore, server, Load, ghosts
<1>2. ServerInv /\ LiveInv /\ RequestsInv /\ WholeInv /\ RestInv
  BY DEF PageListInv, ListInv
<1>3. RequestsInv'
  <2>1. Known \subseteq Ids /\ filter \in Filters /\ nextCursor \in Known \cup {NoCursor}
    BY <1>2, KnownIds DEF RestInv, WholeInv
  <2> QED
    BY <1>1, <1>2, <2>1, LoadKeepsRequests
<1>4. LiveInv'
  BY <1>1, <1>2 DEF LiveInv
<1>5. WholeInv'
  BY <1>1, <1>2 DEF WholeInv, Matching, Matches, Known, WithinAPage, Unheard
<1>6. RestInv'
  BY <1>1, <1>2 DEF RestInv
<1> QED
  BY <1>3, <1>4, <1>5, <1>6 DEF PageListInv

\* An answer is read whole, in one query: its page has no gap.
LEMMA ReadAnswer ==
    ASSUME ListInv, PageListInv, NEW load, load.mode \in {"replace", "append", "merge"},
           load.mode # "append" <=> load.cursor = NoCursor,
           load.number = latest => load.filter = filter,
           load.page = PageOf(load.filter, load.cursor), load.seen = Len(issued)
    PROVE  load.page \in Pages /\ AnswerInv(load)
<1>1. ServerInv /\ LiveInv /\ WholeInv
  BY DEF PageListInv, ListInv
<1>2. PICK page, f, cursor : page = load.page /\ f = load.filter /\ cursor = load.cursor
  OBVIOUS
<1>3. page = PageOf(f, cursor)
  BY <1>2
<1>4. /\ page \in Pages
      /\ page.items = Newest(Matching(f) \cap Older(cursor))
      /\ page.next \in Known \cup {NoCursor}
      /\ page.items \subseteq Older(cursor) \cap Downto(page.next)
      /\ page.next # NoCursor => page.next \in page.items
      /\ Matching(f) \cap Older(cursor) \cap Downto(page.next) \subseteq page.items
  BY <1>1, <1>3, PageFacts, Zenon
<1>5. cursor = NoCursor => page.items = Newest(Matching(f))
  BY <1>1, <1>4, FirstPage
<1>6. load.mode = "replace" => Newest(Matching(f)) \subseteq Downto(page.next)
  BY <1>2, <1>4, <1>5
<1>7. load.mode = "merge" /\ load.number = latest /\ filtered => page.items \subseteq Downto(nextCursor)
  BY <1>1, <1>2, <1>5 DEF WholeInv
<1>8. ASSUME load.mode # "append", WithinAPage, NEW i \in Matching(f) \ Old
      PROVE  i \in page.items
  BY <1>1, <1>2, <1>5, <1>8, NewIsNewest
<1>9. load.seen \in 0..Len(issued)
  BY <1>1, KnownIds
<1> QED
  BY <1>2, <1>4, <1>6, <1>7, <1>8, <1>9 DEF AnswerInv

LEMMA ReadWhole ==
    ASSUME ListInv, PageListInv, NEW load \in loads, Read(load)
    PROVE  PageListInv'
<1>1. /\ UNCHANGED <<issued, pending, unannounced, stream, live, filter, rows, nextCursor, loadError, latest,
                     filtered, synced, overwritten, seen, breaks>>
  BY DEF Read, server, view, ghosts
<1>2. ServerInv /\ LiveInv /\ RequestsInv /\ WholeInv /\ RestInv /\ LoadsInv
  BY DEF PageListInv, ListInv
<1>3. PICK answered : answered = [load EXCEPT !.page = PageOf(load.filter, load.cursor), !.seen = Len(issued)]
  OBVIOUS
<1>4. loads' = (loads \ {load}) \cup {answered}
  BY <1>3 DEF Read
<1>5. RequestInv(load) /\ DOMAIN load = LoadFields /\ load \in Loads
      /\ (load.number = latest => load.filter = filter)
  BY <1>2 DEF RequestsInv, RequestInv, LoadsInv, LoadInv
<1>6. /\ answered.number = load.number /\ answered.filter = load.filter /\ answered.mode = load.mode
      /\ answered.cursor = load.cursor /\ answered.crossed = load.crossed
      /\ answered.page = PageOf(load.filter, load.cursor) /\ answered.seen = Len(issued)
  BY <1>3, <1>5 DEF LoadFields
<1>7. load.mode \in {"replace", "append", "merge"}
  BY <1>5 DEF Loads
<1>8. answered.page \in Pages /\ AnswerInv(answered)
  BY <1>5, <1>6, <1>7, ReadAnswer DEF RequestInv
<1>9. answered \in Loads
  <2>1. Len(issued) \in 0..MaxIssued
    BY <1>2, KnownIds, ListAssumption DEF LiveInv
  <2> QED
    BY <1>3, <1>5, <1>6, <1>8, <2>1 DEF Loads
<1>10. RequestInv(answered)
  BY <1>5, <1>6, <1>8, <1>9 DEF RequestInv
<1>11. ASSUME NEW l, RequestInv(l) PROVE RequestInv(l)'
  <2>1. l.page # Unread => AnswerInv(l)'
    BY <1>1, <1>11 DEF RequestInv, AnswerInv, Matching, Matches, Known, WithinAPage, Unheard
  <2> QED
    BY <1>1, <1>11, <2>1 DEF RequestInv, Known
<1>12. RequestsInv'
  <2>1. \A l \in loads' : RequestInv(l)'
    BY <1>2, <1>4, <1>10, <1>11 DEF RequestsInv
  <2>2. \A l, m \in loads' : l.number = m.number => l = m
    BY <1>2, <1>4, <1>6 DEF RequestsInv
  <2> QED
    BY <1>1, <1>2, <2>1, <2>2 DEF RequestsInv
<1>13. LiveInv' /\ RestInv'
  BY <1>1, <1>2 DEF LiveInv, RestInv
<1>14. WholeInv'
  BY <1>1, <1>2 DEF WholeInv, Matching, Matches, Known, WithinAPage, Unheard
<1> QED
  BY <1>12, <1>13, <1>14 DEF PageListInv

\* Failed requests leave the rows.
LEMMA FailWhole ==
    ASSUME ListInv, PageListInv, NEW load \in loads, FailLoad(load)
    PROVE  PageListInv'
<1>1. /\ UNCHANGED <<issued, pending, unannounced, stream, live, filter, rows, nextCursor, latest,
                     filtered, synced, overwritten, seen>>
      /\ breaks < MaxBreaks /\ breaks' = breaks + 1
      /\ loads' = loads \ {load} /\ loadError' = (loadError \/ load.number = latest)
  BY DEF FailLoad, server, ghosts
<1>2. ServerInv /\ LiveInv /\ RequestsInv /\ WholeInv /\ RestInv /\ LoadsInv
  BY DEF PageListInv, ListInv
<1>3. ASSUME NEW l \in loads PROVE RequestInv(l)'
  <2>1. RequestInv(l)
    BY <1>2 DEF RequestsInv
  <2>2. l.page # Unread => AnswerInv(l)'
    BY <1>1, <2>1 DEF RequestInv, AnswerInv, Matching, Matches, Known, WithinAPage, Unheard
  <2> QED
    BY <1>1, <2>1, <2>2 DEF RequestInv, Known
<1>4. RequestsInv'
  BY <1>1, <1>2, <1>3 DEF RequestsInv
<1>5. LiveInv'
  BY <1>1, <1>2 DEF LiveInv
<1>6. WholeInv'
  BY <1>1, <1>2 DEF WholeInv, Matching, Matches, Known, WithinAPage, Unheard
<1>7. RestInv'
  <2>1. MaxBreaks \in Nat /\ breaks \in 0..MaxBreaks
    BY <1>2, ListAssumption DEF RestInv
  <2>2. breaks' \in 0..MaxBreaks
    BY <1>1, <2>1
  <2>3. loadError' \in BOOLEAN
    BY <1>1
  <2> QED
    BY <1>1, <1>2, <2>2, <2>3 DEF RestInv
<1> QED
  BY <1>4, <1>5, <1>6, <1>7 DEF PageListInv

\* An answer of an earlier request changes nothing.
LEMMA ShowStays ==
    ASSUME ListInv, PageListInv, NEW load \in loads, Show(load)
    PROVE  /\ RequestsInv' /\ LiveInv' /\ RestInv'
           /\ ~Counts(load) => WholeInv'
<1>1. /\ UNCHANGED <<issued, pending, unannounced, stream, filter, live, loadError, latest, breaks>>
      /\ loads' = loads \ {load}
  BY DEF Show, server
<1>2. ServerInv /\ LiveInv /\ RequestsInv /\ WholeInv /\ RestInv /\ LoadsInv
  BY DEF PageListInv, ListInv
<1>3. ASSUME ~Counts(load)
      PROVE  UNCHANGED <<rows, nextCursor, filtered, synced, overwritten, seen>>
  BY <1>3 DEF Show, ghosts
<1>4. ASSUME NEW l \in loads' PROVE RequestInv(l)'
  <2>1. RequestInv(l) /\ l \in loads /\ (l.number = load.number => l = load) /\ l # load
    BY <1>1, <1>2 DEF RequestsInv
  <2>2. ASSUME Counts(load) PROVE l.number # latest
    BY <2>1, <2>2 DEF Counts
  <2>3. l.page # Unread => AnswerInv(l)
    BY <2>1 DEF RequestInv
  <2>4. ASSUME AnswerInv(l) PROVE AnswerInv(l)'
    <3>1. CASE Counts(load)
      BY <1>1, <2>2, <2>4, <3>1 DEF AnswerInv, Matching, Matches, Known
    <3>2. CASE ~Counts(load)
      BY <1>1, <1>3, <2>4, <3>2 DEF AnswerInv, Matching, Matches, Known, WithinAPage, Unheard
    <3> QED
      BY <3>1, <3>2
  <2>5. l.mode = "append" /\ l.number = latest => l.cursor = nextCursor'
    BY <1>3, <2>1, <2>2 DEF RequestInv
  <2> QED
    BY <1>1, <2>1, <2>3, <2>4, <2>5 DEF RequestInv, Known
<1>5. RequestsInv'
  BY <1>1, <1>2, <1>4 DEF RequestsInv
<1>6. LiveInv'
  BY <1>1, <1>2 DEF LiveInv
<1>7. ~Counts(load) => WholeInv'
  BY <1>1, <1>2, <1>3 DEF WholeInv, Matching, Matches, Known, WithinAPage, Unheard
<1>8. RestInv'
  <2>1. CASE ~Counts(load)
    BY <1>1, <1>2, <1>3, <2>1 DEF RestInv
  <2>2. CASE Counts(load)
    <3>1. filtered' \in BOOLEAN
      BY <2>2 DEF Show
    <3>2. synced' \in BOOLEAN
      BY <2>2 DEF Show
    <3>3. overwritten' = overwritten \/ overwritten' = (load.mode = "replace" /\ load.crossed)
      BY <2>2 DEF Show
    <3>4. overwritten' \in BOOLEAN
      <4>1. overwritten \in BOOLEAN /\ (load.mode = "replace" /\ load.crossed) \in BOOLEAN
        BY <1>2 DEF RestInv
      <4> QED
        BY <3>3, <4>1
    <3> QED
      BY <1>1, <1>2, <3>1, <3>2, <3>4 DEF RestInv
  <2> QED
    BY <2>1, <2>2
<1> QED
  BY <1>5, <1>6, <1>7, <1>8

\* The latest answer closes the rows down to the cursor: a first page replaces
\* them or adds what they miss, a next page goes on where they end.
LEMMA ShowWhole ==
    ASSUME ListInv, PageListInv, NEW load \in loads, Show(load)
    PROVE  PageListInv'
<1>1. /\ UNCHANGED <<issued, pending, unannounced, stream, filter, live, latest>>
  BY DEF Show, server
<1>2. ServerInv /\ LiveInv /\ RequestsInv /\ WholeInv /\ LoadsInv
  BY DEF PageListInv, ListInv
<1>3. RequestsInv' /\ LiveInv' /\ RestInv' /\ (~Counts(load) => WholeInv')
  BY ShowStays
<1>4. ASSUME Counts(load) PROVE WholeInv'
  <2>1. PICK items, next, f, mode, cursor :
            /\ items = load.page.items /\ next = load.page.next
            /\ f = filter /\ mode = load.mode /\ cursor = load.cursor
    OBVIOUS
  <2>2. /\ load.number = latest /\ load.filter = f /\ load \in Loads /\ AnswerInv(load)
        /\ (mode # "append" <=> cursor = NoCursor)
        /\ (mode = "append" => cursor = nextCursor)
    BY <1>2, <1>4, <2>1 DEF Counts, RequestsInv, RequestInv, LoadsInv, LoadInv, Show
  <2>3. mode \in {"replace", "append", "merge"}
    BY <2>1, <2>2 DEF Loads
  <2>4. /\ next \in Known \cup {NoCursor} /\ load.seen \in 0..Len(issued)
        /\ items \subseteq Older(cursor) \cap Downto(next)
        /\ next # NoCursor => next \in items
        /\ Old \cap Matching(f) \cap Older(cursor) \cap Downto(next) \subseteq items
        /\ mode = "replace" => Newest(Matching(f)) \subseteq Downto(next)
        /\ mode = "merge" /\ filtered => items \subseteq Downto(nextCursor)
        /\ mode # "append" /\ live /\ WithinAPage =>
              \A i \in Matching(f) \ Old :
                 \/ i \in items
                 \/ /\ load.seen < i
                    /\ Unheard(i) \/ IF mode = "replace" THEN load.crossed ELSE i \in rows
    BY <2>1, <2>2 DEF AnswerInv
  <2>5. /\ \A g : Matching(g)' = Matching(g)
        /\ WithinAPage' = WithinAPage /\ Known' = Known
        /\ \A i : Unheard(i)' <=> Unheard(i)
    BY <1>1 DEF Matching, Matches, WithinAPage, Known, Unheard
  <2>6. Old \subseteq Ids /\ Known \subseteq Ids /\ Ids \subseteq Nat /\ NoCursor \notin Nat
    <3>1. Old \subseteq Known /\ Known \subseteq Ids /\ Ids \subseteq Nat
      BY <1>2, KnownIds
    <3> QED
      BY <3>1, ListAssumption
  <2>7. /\ nextCursor \in Known \cup {NoCursor} /\ seen \in 0..Len(issued)
        /\ filtered =>
             /\ Newest(Matching(f)) \subseteq Downto(nextCursor)
             /\ WithinAPage => rows \subseteq Downto(nextCursor)
             /\ Old \cap Matching(f) \cap Downto(nextCursor) \subseteq rows
             /\ live /\ synced /\ ~overwritten /\ WithinAPage =>
                   \A i \in Matching(f) \ Old : i \in rows \/ (seen < i /\ Unheard(i))
    BY <1>2, <2>1 DEF WholeInv
  <2>8. /\ nextCursor' = IF mode = "merge" THEN nextCursor ELSE next
        /\ rows' = IF mode = "replace" THEN items ELSE rows \cup items
        /\ filtered' = (filtered \/ mode = "replace")
        /\ synced' = (synced \/ mode # "append")
        /\ overwritten' = IF mode = "append" THEN overwritten ELSE mode = "replace" /\ load.crossed
        /\ seen' = IF mode = "append" THEN seen ELSE load.seen
    BY <1>4, <2>1 DEF Show, NextCursor, MergeRows
  <2>9. /\ nextCursor' \in Known \cup {NoCursor} /\ seen' \in 0..Len(issued)
        /\ filtered' =>
             /\ Newest(Matching(f)) \subseteq Downto(nextCursor')
             /\ WithinAPage => rows' \subseteq Downto(nextCursor')
             /\ Old \cap Matching(f) \cap Downto(nextCursor') \subseteq rows'
             /\ live /\ synced' /\ ~overwritten' /\ WithinAPage =>
                   \A i \in Matching(f) \ Old : i \in rows' \/ (seen' < i /\ Unheard(i))
    <3>1. CASE mode = "replace"
      <4>1. nextCursor' = next /\ rows' = items /\ (overwritten' <=> load.crossed) /\ seen' = load.seen
        BY <2>8, <3>1
      <4>2. Old \cap Older(cursor) = Old
        BY <2>2, <2>6, <3>1 DEF Older
      <4>3. Old \cap Matching(f) \cap Downto(next) \subseteq items
        BY <2>4, <4>2
      <4>4. ~load.crossed /\ live /\ WithinAPage =>
               \A i \in Matching(f) \ Old : i \in items \/ (load.seen < i /\ Unheard(i))
        BY <2>4, <3>1
      <4> QED
        BY <2>4, <3>1, <4>1, <4>3, <4>4
    <3>2. CASE mode = "merge"
      <4>1. /\ nextCursor' = nextCursor /\ rows' = rows \cup items /\ (filtered' <=> filtered)
            /\ seen' = load.seen
        BY <2>8, <3>2
      <4>2. live /\ WithinAPage =>
               \A i \in Matching(f) \ Old : i \in rows \cup items \/ (load.seen < i /\ Unheard(i))
        BY <2>4, <3>2
      <4>3. filtered => items \subseteq Downto(nextCursor)
        BY <2>4, <3>2
      <4>4. load.seen \in 0..Len(issued)
        BY <2>4
      <4> QED
        BY <2>7, <4>1, <4>2, <4>3, <4>4
    <3>3. CASE mode = "append"
      <4>1. /\ nextCursor' = next /\ rows' = rows \cup items
            /\ (filtered' <=> filtered) /\ (synced' <=> synced) /\ (overwritten' <=> overwritten)
            /\ seen' = seen
        BY <2>8, <3>3
      <4>2. cursor = nextCursor /\ nextCursor \in Known
        BY <2>2, <2>7, <3>3
      <4>3. \A i \in Ids : nextCursor <= i \/ i < nextCursor
        BY <2>6, <4>2
      <4>4. Downto(nextCursor) \subseteq Downto(next)
        <5>1. CASE next = NoCursor
          BY <5>1 DEF Downto
        <5>2. CASE next # NoCursor
          <6>1. next \in Older(cursor) /\ next \in Known
            BY <2>4, <5>2
          <6>2. next \in Nat /\ nextCursor \in Nat /\ nextCursor # NoCursor
            BY <2>6, <4>2, <6>1
          <6>3. next < nextCursor
            BY <4>2, <6>1, <6>2 DEF Older
          <6>4. ASSUME NEW i \in Ids, nextCursor <= i PROVE next <= i
            <7>1. i \in Nat
              BY <2>6
            <7> QED
              BY <6>2, <6>3, <6>4, <7>1
          <6> QED
            BY <6>2, <6>4 DEF Downto
        <5> QED
          BY <5>1, <5>2
      <4>5. ASSUME filtered PROVE Old \cap Matching(f) \cap Downto(next) \subseteq rows \cup items
        <5> SUFFICES ASSUME NEW i \in Old \cap Matching(f) \cap Downto(next), i \notin rows
                     PROVE  i \in items
          OBVIOUS
        <5>1. i \notin Downto(nextCursor) /\ i \in Ids
          BY <2>6, <2>7, <4>5
        <5>2. i \in Older(cursor)
          BY <4>2, <4>3, <5>1 DEF Downto, Older
        <5> QED
          BY <2>4, <5>2
      <4>6. filtered => Newest(Matching(f)) \subseteq Downto(next)
        BY <2>7, <4>4
      <4>7. filtered /\ WithinAPage => rows \cup items \subseteq Downto(next)
        BY <2>4, <2>7, <4>4
      <4> QED
        BY <2>4, <2>7, <4>1, <4>5, <4>6, <4>7
    <3> QED
      BY <2>3, <3>1, <3>2, <3>3
  <2> QED
    BY <1>1, <2>1, <2>5, <2>9 DEF WholeInv
<1> QED
  BY <1>3, <1>4 DEF PageListInv

\* Every step keeps the rows whole but for what is on its way.
LEMMA PageListStep == ListInv /\ PageListInv /\ [Next]_vars => PageListInv'
<1> SUFFICES ASSUME ListInv, PageListInv, [Next]_vars PROVE PageListInv'
  OBVIOUS
<1>1. CASE Issue
  BY <1>1, IssueWhole
<1>2. CASE Publish \/ LoseAcknowledgement \/ Connect \/ Break
  BY <1>2, StreamWhole
<1>3. CASE OnOpen
  BY <1>3, OpenWhole
<1>4. CASE OnInvoiceCreated
  BY <1>4, CreatedWhole
<1>5. CASE \E f \in Filters : ChangeFilters(f)
  BY <1>5, ChangeWhole
<1>6. CASE LoadMore
  BY <1>6, MoreWhole
<1>7. CASE \E load \in loads : Read(load) \/ Show(load) \/ FailLoad(load)
  BY <1>7, ReadWhole, ShowWhole, FailWhole
<1>8. CASE UNCHANGED vars
  <2>1. UNCHANGED <<issued, pending, unannounced, stream, live, filter, rows, nextCursor, loadError, latest,
                    loads, filtered, synced, overwritten, seen, breaks>>
    BY <1>8 DEF vars, server, view, ghosts
  <2>2. ASSUME NEW l, RequestInv(l) PROVE RequestInv(l)'
    <3>1. l.page # Unread => AnswerInv(l)'
      BY <2>1, <2>2 DEF RequestInv, AnswerInv, Matching, Matches, Known, WithinAPage, Unheard
    <3> QED
      BY <2>1, <2>2, <3>1 DEF RequestInv, Known
  <2>3. RequestsInv'
    BY <2>1, <2>2 DEF PageListInv, RequestsInv
  <2>4. LiveInv' /\ RestInv'
    BY <2>1 DEF PageListInv, LiveInv, RestInv
  <2>5. WholeInv'
    BY <2>1 DEF PageListInv, WholeInv, Matching, Matches, Known, WithinAPage, Unheard
  <2> QED
    BY <2>3, <2>4, <2>5 DEF PageListInv
<1> QED
  BY <1>1, <1>2, <1>3, <1>4, <1>5, <1>6, <1>7, <1>8 DEF Next

LEMMA PageListHolds == Spec => [](ListInv /\ PageListInv)
<1>1. Init => ListInv /\ PageListInv
  BY ListInit, PageListInit
<1>2. ListInv /\ PageListInv /\ [Next]_vars => ListInv' /\ PageListInv'
  BY ListStep, PageListStep
<1> QED
  BY <1>1, <1>2, PTL DEF Spec

\* The invoice page, its requests and its stream keep their types, for any number
\* of invoices, loads and breaks.
THEOREM ListTyped == Spec => []TypeOK
<1>1. ASSUME ListInv, PageListInv PROVE TypeOK
  <2>1. /\ ServerInv /\ StreamInv /\ LoadsInv /\ RowsInv
        /\ LiveInv /\ RequestsInv /\ WholeInv /\ RestInv
    BY <1>1 DEF ListInv, PageListInv
  <2>2. Known \subseteq Ids
    BY <2>1, KnownIds
  <2>3. issued \in Seq(Types) /\ Len(issued) <= MaxIssued /\ pending \subseteq Ids /\ rows \subseteq Ids
    BY <2>1, <2>2 DEF ServerInv, LiveInv, RowsInv
  <2>4. stream \in Seq(Ids \cup {Opened}) \cup {NoStream}
    BY <2>1, <2>2 DEF StreamInv
  <2>5. nextCursor \in Cursors
    BY <2>1, <2>2 DEF WholeInv, Cursors
  <2>6. latest \in 0..MaxLoads
    BY <2>1, ListAssumption DEF LoadsInv, RequestsInv
  <2>7. loads \subseteq Loads
    BY <2>1 DEF RequestsInv, RequestInv
  <2>8. {filtered, synced, overwritten} \subseteq BOOLEAN /\ seen \in 0..MaxIssued
        /\ unannounced \subseteq Ids
    <3>1. Len(issued) \in Nat /\ MaxIssued \in Nat /\ Len(issued) <= MaxIssued
      BY <2>1, KnownIds, ListAssumption DEF LiveInv
    <3>2. seen \in 0..MaxIssued
      BY <2>1, <3>1 DEF WholeInv
    <3> QED
      BY <2>1, <2>2, <3>2 DEF RestInv, ServerInv
  <2> QED
    BY <2>1, <2>3, <2>4, <2>5, <2>6, <2>7, <2>8 DEF TypeOK, RestInv
<1> QED
  BY <1>1, PageListHolds, PTL

\* The rows of a page at rest are the invoices down to its cursor, without gaps:
\* what was missed while the stream was down came with the merge of the open, what
\* was issued since over the stream unless its announcement was lost, and no
\* overtaken load moved the cursor.
THEOREM RowsStayWhole == Spec => []RowsAreWhole
<1>1. ASSUME ListInv, PageListInv PROVE RowsAreWhole
  <2> DEFINE whole == Matching(filter) \ (IF nextCursor = NoCursor THEN {} ELSE Older(nextCursor))
  <2> SUFFICES ASSUME AtRest, filtered, synced, ~overwritten, WithinAPage
               PROVE  rows \subseteq whole /\ whole \ rows \subseteq {i \in unannounced : i > seen}
    BY DEF RowsAreWhole
  <2>1. ServerInv /\ RowsInv /\ LiveInv /\ WholeInv
    BY <1>1 DEF ListInv, PageListInv
  <2>2. /\ Known \subseteq Ids /\ Ids \subseteq Nat /\ Matching(filter) \subseteq Known
        /\ nextCursor \in Known \cup {NoCursor}
        /\ Len(issued) \in Nat /\ seen \in 0..Len(issued)
    BY <2>1, KnownIds DEF WholeInv
  <2>3. rows \subseteq Matching(filter) /\ rows \subseteq Downto(nextCursor)
    BY <2>1 DEF RowsInv, RowsMatchFilter, Matching, WholeInv, Known
  <2>4. ASSUME NEW i \in Matching(filter) \cap Downto(nextCursor), i \notin rows
        PROVE  i \in unannounced /\ i > seen
    <3>1. Unheard(i) => i \in unannounced
      <4>1. DOMAIN stream = {} /\ pending = {}
        BY DEF AtRest
      <4> QED
        BY <4>1 DEF Unheard
    <3>2. live
      BY DEF AtRest
    <3>3. seen < i /\ Unheard(i)
      <4>1. Old \cap Matching(filter) \cap Downto(nextCursor) \subseteq rows
        BY <2>1 DEF WholeInv
      <4>2. i \in Matching(filter) \ Old
        BY <2>4, <4>1
      <4>3. \A j \in Matching(filter) \ Old : j \in rows \/ (seen < j /\ Unheard(j))
        BY <2>1, <3>2 DEF WholeInv
      <4> QED
        BY <2>4, <4>2, <4>3
    <3>4. i \in Nat
      BY <2>2
    <3>5. seen \in Nat
      <4>1. PICK n : n = Len(issued)
        OBVIOUS
      <4> QED
        BY <2>2, <4>1
    <3> QED
      BY <3>1, <3>3, <3>4, <3>5
  <2>5. Matching(filter) \cap Downto(nextCursor) = whole
    <3>1. CASE nextCursor = NoCursor
      BY <2>2, <3>1 DEF Downto
    <3>2. CASE nextCursor # NoCursor
      <4>1. \A i \in Ids : nextCursor <= i <=> ~ (i < nextCursor)
        BY <2>2, <3>2
      <4> QED
        BY <2>2, <3>2, <4>1 DEF Downto, Older
    <3> QED
      BY <3>1, <3>2
  <2> QED
    BY <2>3, <2>4, <2>5
<1> QED
  BY <1>1, PageListHolds, PTL
=============================================================================
