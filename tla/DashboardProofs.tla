-------------------------- MODULE DashboardProofs --------------------------
(***************************************************************************)
(* What a page shows is right, for any products, quantities, reloads and   *)
(* faults: it only lacks what it is still to be told, and a reload takes   *)
(* nothing back, because what arrived meanwhile is replayed over it.       *)
(***************************************************************************)
EXTENDS Dashboard, NaturalLemmas

(***************************************************************************)
(* The replay.                                                             *)
(***************************************************************************)
\* The k-th of the first n events is the last one of its product.
IsLast(events, n, k) == k \in 1..n /\ \A j \in 1..n : j > k => events[j].id # events[k].id

\* The page has the rows of the snapshot, each as the last of the first n events
\* of its product left it.
Follows(snapshot, replay, n, after) ==
    /\ after \in Pages
    /\ DOMAIN after.table = DOMAIN snapshot.table
    /\ \A i \in DOMAIN snapshot.table :
          \/ /\ after.table[i] = snapshot.table[i]
             /\ \A k \in 1..n : replay[k].id # snapshot.table[i].id
          \/ \E k \in 1..n : /\ IsLast(replay, n, k)
                             /\ replay[k].id = snapshot.table[i].id
                             /\ after.table[i] = RowOf(replay[k])
    /\ \A p \in Products :
          \/ after.low[p] = snapshot.low[p] /\ \A k \in 1..n : replay[k].id # p
          \/ \E k \in 1..n : /\ IsLast(replay, n, k)
                             /\ replay[k].id = p
                             /\ after.low[p] = LowRow(replay[k].quantity)

LEMMA SeqIs ==
    ASSUME NEW S, NEW n \in Nat, NEW f \in [1..n -> S]
    PROVE  f \in Seq(S) /\ Len(f) = n
  OBVIOUS

LEMMA EventTyped ==
    ASSUME NEW event \in Events
    PROVE  /\ event.id \in Products /\ event.quantity \in Quantities /\ event.at \in 1..MaxCommits
           /\ event.kind \in {"stock", "created"}
           /\ event.kind = "stock" <=> event \in StockUpdates
           /\ RowOf(event) \in Rows
           /\ RowOf(event).id = event.id /\ RowOf(event).at = event.at
           /\ RowOf(event).quantity = event.quantity
  BY DashboardAssumption DEF Events, StockUpdates, RowOf, Rows

LEMMA LowRowTyped ==
    ASSUME NEW quantity \in Quantities
    PROVE  LowRow(quantity) \in Seq(Quantities)
  BY DEF LowRow

\* A stock event replaces the row of its product, and what the panel has of it.
LEMMA Apply ==
    ASSUME NEW inventory \in Pages, NEW event \in StockUpdates
    PROVE  /\ ApplyStockUpdate(inventory, event) \in Pages
           /\ DOMAIN ApplyStockUpdate(inventory, event).table = DOMAIN inventory.table
           /\ \A i \in DOMAIN inventory.table :
                 ApplyStockUpdate(inventory, event).table[i] =
                    IF inventory.table[i].id = event.id THEN RowOf(event) ELSE inventory.table[i]
           /\ \A p \in Products :
                 ApplyStockUpdate(inventory, event).low[p] =
                    IF p = event.id THEN LowRow(event.quantity) ELSE inventory.low[p]
  <1> DEFINE table == [i \in DOMAIN inventory.table |->
                          IF inventory.table[i].id = event.id THEN RowOf(event) ELSE inventory.table[i]]
             low == [inventory.low EXCEPT ![event.id] = LowRow(event.quantity)]
  <1>1. inventory.table \in Seq(Rows) /\ inventory.low \in [Products -> Seq(Quantities)]
    BY DEF Pages, Panels
  <1>2. RowOf(event) \in Rows /\ event.id \in Products /\ LowRow(event.quantity) \in Seq(Quantities)
    BY EventTyped, LowRowTyped DEF Events
  <1>3. table \in Seq(Rows)
    <2>1. DOMAIN inventory.table = 1..Len(inventory.table) /\ Len(inventory.table) \in Nat
      BY <1>1
    <2>2. \A i \in 1..Len(inventory.table) : table[i] \in Rows
      BY <1>1, <1>2, <2>1
    <2>3. table \in [1..Len(inventory.table) -> Rows]
      BY <2>1, <2>2
    <2> HIDE DEF table
    <2> QED
      BY <2>1, <2>3
  <1>4. low \in Panels
    BY <1>1, <1>2 DEF Panels
  <1>5. ApplyStockUpdate(inventory, event) = [table |-> table, low |-> low]
    BY DEF ApplyStockUpdate
  <1>6. \A p \in Products :
           low[p] = IF p = event.id THEN LowRow(event.quantity) ELSE inventory.low[p]
    BY <1>1, <1>2
  <1> QED
    BY <1>3, <1>4, <1>5, <1>6 DEF Pages

LEMMA FollowsNext ==
    ASSUME NEW snapshot \in Pages, NEW replay \in Seq(StockUpdates),
           NEW n \in 0..Len(replay), n < Len(replay),
           NEW before, Follows(snapshot, replay, n, before)
    PROVE  Follows(snapshot, replay, n + 1, ApplyStockUpdate(before, replay[n + 1]))
  <1> DEFINE event == replay[n + 1]
             after == ApplyStockUpdate(before, event)
  <1>1. event \in StockUpdates /\ before \in Pages
    BY DEF Follows
  <1>2. \A k \in 1..n : k \in 1..(n + 1) /\ k # n + 1
    OBVIOUS
  <1>3. n + 1 \in 1..(n + 1) /\ \A k \in 1..(n + 1) : k \in 1..n \/ k = n + 1
    OBVIOUS
  <1>4. IsLast(replay, n + 1, n + 1)
    BY DEF IsLast
  <1>5. ASSUME NEW k \in 1..n, IsLast(replay, n, k), replay[k].id # event.id
        PROVE  IsLast(replay, n + 1, k)
    BY <1>3, <1>5 DEF IsLast
  <1> HIDE DEF event, after
  <1>6. ASSUME NEW i \in DOMAIN snapshot.table
        PROVE  \/ /\ after.table[i] = snapshot.table[i]
                  /\ \A k \in 1..(n + 1) : replay[k].id # snapshot.table[i].id
               \/ \E k \in 1..(n + 1) : /\ IsLast(replay, n + 1, k)
                                        /\ replay[k].id = snapshot.table[i].id
                                        /\ after.table[i] = RowOf(replay[k])
    <2>1. i \in DOMAIN before.table
      BY DEF Follows
    <2>2. after.table[i] = IF before.table[i].id = event.id THEN RowOf(event) ELSE before.table[i]
      BY <1>1, <2>1, Apply DEF after
    <2>3. before.table[i].id = snapshot.table[i].id
      <3>1. \/ before.table[i] = snapshot.table[i]
            \/ \E k \in 1..n : replay[k].id = snapshot.table[i].id /\ before.table[i] = RowOf(replay[k])
        BY DEF Follows
      <3>2. \A k \in 1..n : RowOf(replay[k]).id = replay[k].id
        BY DEF RowOf
      <3> QED
        BY <3>1, <3>2
    <2>4. CASE before.table[i].id = event.id
      BY <1>3, <1>4, <2>2, <2>3, <2>4 DEF event
    <2>5. CASE before.table[i].id # event.id
      BY <1>2, <1>3, <1>5, <2>2, <2>3, <2>5 DEF Follows, event
    <2> QED
      BY <2>4, <2>5
  <1>7. ASSUME NEW p \in Products
        PROVE  \/ after.low[p] = snapshot.low[p] /\ \A k \in 1..(n + 1) : replay[k].id # p
               \/ \E k \in 1..(n + 1) : /\ IsLast(replay, n + 1, k)
                                        /\ replay[k].id = p
                                        /\ after.low[p] = LowRow(replay[k].quantity)
    <2>1. after.low[p] = IF p = event.id THEN LowRow(event.quantity) ELSE before.low[p]
      BY <1>1, Apply DEF after
    <2>2. CASE p = event.id
      BY <1>3, <1>4, <2>1, <2>2 DEF event
    <2>3. CASE p # event.id
      BY <1>2, <1>3, <1>5, <2>1, <2>3 DEF Follows, event
    <2> QED
      BY <2>2, <2>3
  <1>8. after \in Pages /\ DOMAIN after.table = DOMAIN snapshot.table
    BY <1>1, Apply DEF after, Follows
  <1> QED
    BY <1>6, <1>7, <1>8 DEF Follows, after, event

Replays(snapshot, replay, n) ==
    {g \in [0..n -> Pages] :
        \A i \in 0..n : g[i] = IF i = 0 THEN snapshot ELSE ApplyStockUpdate(g[i - 1], replay[i])}

\* The recursive function of Resynced exists: its prefixes are built one by one.
LEMMA ReplayExists ==
    ASSUME NEW snapshot \in Pages, NEW replay \in Seq(StockUpdates)
    PROVE  Replays(snapshot, replay, Len(replay)) # {}
  <1> DEFINE N == Len(replay)
             S == {n \in 0..N : Replays(snapshot, replay, n) # {}}
  <1>1. N \in Nat
    OBVIOUS
  <1>2. 0 \in S
    <2>1. [i \in 0..0 |-> snapshot] \in Replays(snapshot, replay, 0)
      BY DEF Replays
    <2> QED
      BY <2>1
  <1>3. ASSUME NEW n \in 0..N, n < N, n \in S PROVE n + 1 \in S
    <2>1. PICK g : g \in Replays(snapshot, replay, n)
      BY <1>3
    <2>2. /\ g \in [0..n -> Pages]
          /\ \A i \in 0..n : g[i] = IF i = 0 THEN snapshot ELSE ApplyStockUpdate(g[i - 1], replay[i])
      BY <2>1 DEF Replays
    <2> DEFINE next == ApplyStockUpdate(g[n], replay[n + 1])
               h == [i \in 0..(n + 1) |-> IF i = n + 1 THEN next ELSE g[i]]
    <2>3. replay[n + 1] \in StockUpdates
      BY <1>3
    <2>4. next \in Pages
      BY <2>2, <2>3, Apply
    <2> HIDE DEF next
    <2>5. h \in [0..(n + 1) -> Pages]
      BY <2>2, <2>4
    <2>6. ASSUME NEW i \in 0..(n + 1)
          PROVE  h[i] = IF i = 0 THEN snapshot ELSE ApplyStockUpdate(h[i - 1], replay[i])
      <3>1. CASE i = n + 1
        <4>1. i # 0 /\ h[i] = next /\ h[i - 1] = g[n]
          BY <3>1
        <4> QED
          BY <3>1, <4>1 DEF next
      <3>2. CASE i # n + 1
        <4>1. i \in 0..n /\ h[i] = g[i] /\ (i # 0 => h[i - 1] = g[i - 1])
          BY <3>2
        <4> QED
          BY <2>2, <4>1
      <3> QED
        BY <3>1, <3>2
    <2>7. h \in Replays(snapshot, replay, n + 1)
      BY <2>5, <2>6 DEF Replays
    <2> QED
      BY <1>3, <2>7
  <1>4. N \in S
    <2> HIDE DEF N, S
    <2>1. 0..N \subseteq S
      BY <1>1, <1>2, <1>3, UpTo
    <2> QED
      BY <1>1, <2>1
  <1> QED
    BY <1>4

\* Each row of a resynced page, and each product's place in its panel, is as the
\* last replayed event of its product left it, or as it was in the snapshot.
LEMMA ResyncedFollows ==
    ASSUME NEW snapshot \in Pages, NEW replay \in Seq(StockUpdates)
    PROVE  Follows(snapshot, replay, Len(replay), Resynced(snapshot, replay))
  <1> DEFINE N == Len(replay)
             Def(g) == [n \in 0..Len(replay) |->
                           IF n = 0 THEN snapshot ELSE ApplyStockUpdate(g[n - 1], replay[n])]
             r == CHOOSE g : g = Def(g)
  <1>1. N \in Nat
    OBVIOUS
  <1>2. PICK g : g \in Replays(snapshot, replay, N)
    BY ReplayExists
  <1>3. g = Def(g)
    <2>1. g \in [0..N -> Pages]
      BY <1>2 DEF Replays
    <2>2. \A i \in 0..N : g[i] = IF i = 0 THEN snapshot ELSE ApplyStockUpdate(g[i - 1], replay[i])
      BY <1>2 DEF Replays
    <2>3. g = [i \in 0..N |-> g[i]]
      BY <2>1
    <2> QED
      BY <2>2, <2>3
  <1>4. r = Def(r)
    BY <1>3
  <1>5. Resynced(snapshot, replay) = r[Len(replay)]
    BY DEF Resynced
  <1> HIDE DEF r
  <1> DEFINE T == {n \in 0..N : Follows(snapshot, replay, n, r[n])}
  <1>6. 0 \in T
    <2>1. r[0] = snapshot
      BY <1>4
    <2>2. Follows(snapshot, replay, 0, snapshot)
      BY DEF Follows
    <2> QED
      BY <2>1, <2>2
  <1>7. ASSUME NEW n \in 0..N, n < N, n \in T PROVE n + 1 \in T
    <2>1. r[n + 1] = ApplyStockUpdate(r[n], replay[n + 1])
      BY <1>4, <1>7
    <2> QED
      BY <1>7, <2>1, FollowsNext
  <1>8. N \in T
    <2> HIDE DEF N, T
    <2>1. 0..N \subseteq T
      BY <1>1, <1>6, <1>7, UpTo
    <2> QED
      BY <1>1, <2>1
  <1> QED
    BY <1>5, <1>8

-----------------------------------------------------------------------------
(***************************************************************************)
(* The invariant: what has been told.                                      *)
(***************************************************************************)
HasRead(f) == fetch[f] # NoFetch /\ fetch[f].table # Unread

StockRow(p) == [id |-> p, quantity |-> stock[p].quantity, at |-> stock[p].at]

Published == {published[i] : i \in DOMAIN published}

Announced == pending \cup Published

\* Every row anywhere: of the tables, of events, on the page and in snapshots.
Told ==
    {StockRow(p) : p \in Catalogue} \cup {RowOf(e) : e \in Announced}
    \cup {page.table[i] : i \in DOMAIN page.table}
    \cup UNION {{fetch[f].table[i] : i \in DOMAIN fetch[f].table} : f \in {g \in Fetches : HasRead(g)}}

\* No row is ahead of the tables, one of the last commit is right, and none is
\* older than the event that announces the product.
ToldInv ==
    /\ Existing \subseteq Catalogue
    /\ \A row \in Told :
          /\ row.id \in Catalogue /\ row.at <= stock[row.id].at
          /\ row.at = stock[row.id].at => row.quantity = stock[row.id].quantity
    /\ \A p \in Catalogue : stock[p].at <= commits
    /\ \A e \in Announced : e.kind = "created" =>
          e.id \in New /\ \A row \in Told : row.id = e.id => e.at <= row.at

IsEvent(i) == i \in DOMAIN stream /\ stream[i] # Opened

\* A stream begins with its open and carries published events.
StreamInv ==
    /\ stream # NoStream =>
         /\ conn # "closed"
         /\ conn = "connecting" => stream # <<>> /\ stream[1] = Opened
         /\ \A i \in DOMAIN stream :
               IF stream[i] = Opened THEN i = 1 /\ conn = "connecting" ELSE stream[i] \in Published
    /\ conn = "live" => stream # NoStream
    /\ \A i \in DOMAIN buffer : buffer[i] \in Published
    /\ activeResync = NoFetch \/ kind = "sales" => buffer = <<>>

\* A snapshot's table was the first page of products at some moment.
IsFirstPage(products, table) ==
    \E S \in SUBSET products : Existing \subseteq S /\ Ids(table) = Table!FirstPage(S)

SnapshotInv ==
    /\ \A f \in Fetches : HasRead(f) => IsFirstPage(Catalogue, fetch[f].table)
    /\ \A f \in Fetches : fetch[f] # NoFetch /\ f # activeResync => kind = "dashboard" \/ raced = Products

(***************************************************************************)
(* The invariant: what is known of the last commit of a product.           *)
(***************************************************************************)
\* Nothing is promised of p: the announcement is under way or never comes, or was
\* overtaken.
Excused(p) ==
    \/ \E e \in pending : e.kind = "stock" /\ e.id = p /\ e.at = stock[p].at
    \/ Unknowable(p)

\* What is known of p as of that commit is right, or nothing is promised.
Known(p, at) == Excused(p) \/ at = stock[p].at

\* Whatever is announced of a product, so is its last commit, or it is lost.
AnnouncedInv ==
    \A e \in pending :
        stock[e.id].at \in lost \/ \E g \in Announced : g.id = e.id /\ g.at = stock[e.id].at

\* The last event of a product on its way to the page is that of its last commit.
LastInStream ==
    stream # NoStream =>
        \A i \in DOMAIN stream :
            IsEvent(i) /\ (\A j \in DOMAIN stream : j > i => stream[j].id # stream[i].id) =>
                Known(stream[i].id, stream[i].at)

\* So is the last one in the buffer, if none is on its way.
LastInBuffer ==
    conn = "live" =>
        \A i \in DOMAIN buffer :
            /\ \A j \in DOMAIN buffer : j > i => buffer[j].id # buffer[i].id
            /\ \A j \in DOMAIN stream : stream[j].id # buffer[i].id
            => Known(buffer[i].id, buffer[i].at)

LastInv == LastInStream /\ LastInBuffer

\* A stock event of p is still to come, or is kept for the replay.
ToCome(p) == \E i \in DOMAIN stream : IsEvent(i) /\ stream[i].kind = "stock" /\ stream[i].id = p

Buffered(p) == \E i \in DOMAIN buffer : buffer[i].id = p

Trusted(p) == kind = "dashboard" \/ p \notin raced

Fine(p, at) == Known(p, at) \/ ToCome(p)

RowInv(row) == Fine(row.id, row.at)

\* What the panel has of p is right.
IsRight(rows, p) ==
    IF p \in New THEN \A i \in DOMAIN rows : <<rows[i]>> = LowRow(stock[p].quantity)
    ELSE rows = LowRow(stock[p].quantity)

PanelRow(rows, p) == Excused(p) \/ ToCome(p) \/ IsRight(rows, p)

PageInv ==
    conn = "live" /\ synced =>
        /\ \A i \in DOMAIN page.table : Trusted(page.table[i].id) => RowInv(page.table[i])
        /\ kind = "dashboard" => \A p \in Catalogue \ misread : PanelRow(page.low[p], p)

\* The same of the snapshot that will be shown, once the buffer is replayed over it.
ResyncInv ==
    conn = "live" /\ activeResync # NoFetch /\ fetch[activeResync] # NoFetch =>
        LET snapshot == fetch[activeResync]
        IN  /\ snapshot.table # Unread => \A i \in DOMAIN snapshot.table :
                  Trusted(snapshot.table[i].id) => Buffered(snapshot.table[i].id) \/ RowInv(snapshot.table[i])
            /\ snapshot.low # Unread /\ kind = "dashboard" => \A p \in Catalogue \ misread :
                  Buffered(p) \/ PanelRow(snapshot.low[p], p)

\* A product that does not exist is in no panel and in no list.
UnknownInv ==
    \A p \in Products \ Catalogue :
        /\ page.low[p] = <<>>
        /\ \A list \in lists : list[p] = <<>>
        /\ \A f \in Fetches : fetch[f] # NoFetch /\ fetch[f].low # Unread => fetch[f].low[p] = <<>>

Mentions(events, p) == \E k \in 1..Len(events) : events[k].id = p

\* The replayed snapshot will be no older than a row of the page.
Forward(row, events, snapshot) ==
    /\ \A k \in 1..Len(events) :
          IsLast(events, Len(events), k) /\ events[k].id = row.id => row.at <= events[k].at
    /\ ~Mentions(events, row.id) /\ snapshot # NoFetch /\ snapshot.table # Unread =>
          \A j \in DOMAIN snapshot.table : snapshot.table[j].id = row.id => row.at <= snapshot.table[j].at

ForwardInv ==
    kind = "dashboard" /\ activeResync # NoFetch =>
        \A i \in DOMAIN page.table : Forward(page.table[i], buffer, fetch[activeResync])

BasicInv == TypeOK /\ ToldInv /\ StreamInv /\ SnapshotInv

RightInv == AnnouncedInv /\ LastInv /\ PageInv /\ ResyncInv /\ UnknownInv

DashboardInv == BasicInv /\ RightInv /\ ForwardInv

(***************************************************************************)
(* What is read, and what is added.                                        *)
(***************************************************************************)
\* The cardinality ProductTable means is that of FiniteSets.
LEMMA TableCardinality ==
    ASSUME NEW S
    PROVE  Table!Cardinality(S) = Cardinality(S)
  BY DEF Table!Cardinality, Cardinality

LEMMA FirstPageIs ==
    ASSUME NEW S \in SUBSET Products
    PROVE  Table!FirstPage(S) \in Seq(S) /\ IsInjective(Table!FirstPage(S))
  <1> DEFINE n == IF Cardinality(S) < PageSize THEN Cardinality(S) ELSE PageSize
             ids == Table!FirstPage(S)
             Below(p) == {q \in S : q < p}
  <1>1. S \in SUBSET Nat /\ IsFiniteSet(S)
    <2>1. IsFiniteSet(Products) /\ Products \subseteq Nat
      BY DashboardAssumption, FS_Union DEF Products
    <2> QED
      BY <2>1, FS_Subset
  <1>2. n \in Nat /\ n <= Cardinality(S)
    BY <1>1, FS_CardinalityType, DashboardAssumption
  <1>3. ids = [i \in 1..n |-> Table!Nth(S, i)]
    BY TableCardinality DEF Table!FirstPage
  <1> HIDE DEF n
  <1>4. ASSUME NEW i \in 1..n
        PROVE  Table!Nth(S, i) \in S /\ Cardinality(Below(Table!Nth(S, i))) = i - 1
    <2>1. i \in 1..Cardinality(S)
      BY <1>1, <1>2, FS_CardinalityType
    <2>2. \E p \in S : Cardinality(Below(p)) = i - 1
      BY <1>1, <2>1, NthExists
    <2>3. Table!Nth(S, i) = CHOOSE p \in S : Cardinality(Below(p)) = i - 1
      BY DEF Table!Nth, Table!Cardinality, Cardinality
    <2> DEFINE Is(p) == Cardinality(Below(p)) = i - 1
    <2>4. (\E p \in S : Is(p)) /\ Table!Nth(S, i) = CHOOSE p \in S : Is(p)
      BY <2>2, <2>3
    <2> HIDE DEF Is
    <2>5. Table!Nth(S, i) \in S /\ Is(Table!Nth(S, i))
      BY <2>4
    <2> QED
      BY <2>5 DEF Is
  <1> HIDE DEF Below
  <1>5. ids \in Seq(S)
    <2>1. ids \in [1..n -> S]
      BY <1>3, <1>4
    <2> HIDE DEF ids
    <2> QED
      BY <1>2, <2>1, SeqIs
  <1>6. IsInjective(ids)
    <2>1. ASSUME NEW i \in 1..n, NEW j \in 1..n, Table!Nth(S, i) = Table!Nth(S, j) PROVE i = j
      <3>1. i - 1 = j - 1
        BY <1>4, <2>1
      <3> QED
        BY <1>2, <3>1
    <2> QED
      BY <1>3, <2>1 DEF IsInjective
  <1> QED
    BY <1>5, <1>6

LEMMA TableReadIs ==
    ASSUME stock \in [Products -> {Absent} \cup [quantity : Quantities, at : 0..MaxCommits]]
    PROVE  /\ TableRead \in Seq(Rows)
           /\ \A i \in DOMAIN TableRead : TableRead[i].id \in Catalogue /\ TableRead[i] = StockRow(TableRead[i].id)
           /\ Ids(TableRead) = Table!FirstPage(Catalogue)
           /\ IsInjective(Ids(TableRead))
  <1> DEFINE ids == Table!FirstPage(Catalogue)
             row(i) == [id |-> ids[i], quantity |-> stock[ids[i]].quantity, at |-> stock[ids[i]].at]
  <1>1. ids \in Seq(Catalogue) /\ IsInjective(ids)
    BY FirstPageIs DEF Catalogue
  <1>2. TableRead = [i \in DOMAIN ids |-> row(i)]
    BY DEF TableRead
  <1> HIDE DEF ids
  <1>3. DOMAIN ids = 1..Len(ids) /\ Len(ids) \in Nat /\ \A i \in DOMAIN ids : ids[i] \in Catalogue
    BY <1>1
  <1>4. \A i \in DOMAIN ids : row(i) \in Rows /\ row(i).id = ids[i] /\ row(i) = StockRow(ids[i])
    BY <1>3 DEF Rows, StockRow, Catalogue
  <1> HIDE DEF row
  <1>5. TableRead \in Seq(Rows)
    BY <1>2, <1>3, <1>4
  <1>6. Ids(TableRead) = ids
    BY <1>1, <1>2, <1>3, <1>4 DEF Ids
  <1> QED
    BY <1>1, <1>2, <1>3, <1>4, <1>5, <1>6 DEF ids

LEMMA LowReadIs ==
    ASSUME NEW tables \in [Products -> {Absent} \cup [quantity : Quantities, at : 0..MaxCommits]]
    PROVE  /\ LowRead(tables) \in Panels
           /\ \A p \in Products :
                 /\ LowList(tables)[p] = IF tables[p] = Absent THEN <<>> ELSE LowRow(tables[p].quantity)
                 /\ tables[p] = Absent => LowRead(tables)[p] = <<>>
  <1>1. PICK list : list = LowList(tables)
    OBVIOUS
  <1>2. \A p \in Products :
           list[p] = IF tables[p] = Absent THEN <<>> ELSE LowRow(tables[p].quantity)
    BY <1>1 DEF LowList
  <1>3. ASSUME NEW p \in Products PROVE list[p] \in Seq(Quantities)
    <2>1. CASE tables[p] = Absent
      <3>1. list[p] = <<>>
        BY <1>2, <2>1
      <3>2. <<>> \in Seq(Quantities)
        OBVIOUS
      <3> QED
        BY <3>1, <3>2
    <2>2. CASE tables[p] # Absent
      <3>1. PICK quantity : quantity = tables[p].quantity
        OBVIOUS
      <3>2. quantity \in Quantities
        BY <2>2, <3>1
      <3> QED
        BY <1>2, <2>2, <3>1, <3>2, LowRowTyped
    <2> QED
      BY <2>1, <2>2
  <1> DEFINE within(p) ==
        list[p] # <<>> /\ Cardinality({q \in Products : Before(list, q, p)}) < LowStockMaxItems
  <1>4. LowRead(tables) = [p \in Products |-> IF within(p) THEN list[p] ELSE <<>>]
    BY <1>1 DEF LowRead
  <1>5. \A p \in Products : ~within(p) \/ list[p] # <<>>
    OBVIOUS
  <1> HIDE DEF within
  <1>6. <<>> \in Seq(Quantities)
    OBVIOUS
  <1>7. LowRead(tables) \in Panels
    BY <1>3, <1>4, <1>6 DEF Panels
  <1> QED
    BY <1>1, <1>2, <1>4, <1>5, <1>7

\* A product is added at the end, unless it is there.
LEMMA Add ==
    ASSUME NEW inventory \in Pages, NEW event \in Events
    PROVE  /\ AddProduct(inventory, event) \in Pages
           /\ Has(inventory.table, event.id) => AddProduct(inventory, event) = inventory
           /\ ~Has(inventory.table, event.id) =>
                 /\ AddProduct(inventory, event).table = Append(inventory.table, RowOf(event))
                 /\ \A p \in Products :
                       AddProduct(inventory, event).low[p] =
                          IF p = event.id THEN inventory.low[p] \o LowRow(event.quantity)
                          ELSE inventory.low[p]
  <1>1. inventory.table \in Seq(Rows) /\ inventory.low \in [Products -> Seq(Quantities)]
    BY DEF Pages, Panels
  <1>2. RowOf(event) \in Rows /\ event.id \in Products /\ LowRow(event.quantity) \in Seq(Quantities)
    BY EventTyped, LowRowTyped
  <1> DEFINE low == [inventory.low EXCEPT ![event.id] = @ \o LowRow(event.quantity)]
  <1>3. inventory.low[event.id] \o LowRow(event.quantity) \in Seq(Quantities)
    BY <1>1, <1>2
  <1>4. low \in Panels
    BY <1>1, <1>3 DEF Panels
  <1>5. \A p \in Products : low[p] = IF p = event.id THEN inventory.low[p] \o LowRow(event.quantity)
                                     ELSE inventory.low[p]
    BY <1>1
  <1>6. Append(inventory.table, RowOf(event)) \in Seq(Rows)
    BY <1>1, <1>2
  <1>7. AddProduct(inventory, event) =
          IF Has(inventory.table, event.id) THEN inventory
          ELSE [table |-> Append(inventory.table, RowOf(event)), low |-> low]
    BY DEF AddProduct
  <1> HIDE DEF low
  <1> QED
    BY <1>4, <1>5, <1>6, <1>7 DEF Pages

LEMMA AppendIds ==
    ASSUME NEW table \in Seq(Rows), NEW row \in Rows
    PROVE  /\ DOMAIN Append(table, row) = 1..(Len(table) + 1) /\ DOMAIN table = 1..Len(table)
           /\ Len(table) \in Nat
           /\ \A i \in DOMAIN table : Append(table, row)[i] = table[i]
           /\ Append(table, row)[Len(table) + 1] = row
           /\ Ids(Append(table, row)) = Append(Ids(table), row.id)
           /\ IsInjective(Ids(table)) /\ ~Has(table, row.id) => IsInjective(Ids(Append(table, row)))
  <1>1. /\ DOMAIN Append(table, row) = 1..(Len(table) + 1) /\ DOMAIN table = 1..Len(table)
        /\ Len(table) \in Nat
        /\ \A i \in DOMAIN table : Append(table, row)[i] = table[i]
        /\ Append(table, row)[Len(table) + 1] = row
    OBVIOUS
  <1>2. Ids(table) \in Seq(Products) /\ DOMAIN Ids(table) = 1..Len(table) /\ Len(Ids(table)) = Len(table)
    <2>1. \A i \in 1..Len(table) : table[i] \in Rows
      OBVIOUS
    <2>2. \A r \in Rows : r.id \in Products
      BY DEF Rows
    <2>3. Ids(table) = [i \in 1..Len(table) |-> table[i].id]
      BY <1>1 DEF Ids
    <2>4. Ids(table) \in [1..Len(table) -> Products]
      BY <2>1, <2>2, <2>3
    <2> QED
      BY <1>1, <2>4, SeqIs
  <1>3. \A i \in DOMAIN table : Ids(table)[i] = table[i].id
    BY DEF Ids
  <1>4. \A i \in 1..(Len(table) + 1) : Ids(Append(table, row))[i] = Append(table, row)[i].id
    BY <1>1 DEF Ids
  <1>5. DOMAIN Ids(Append(table, row)) = 1..(Len(table) + 1)
    BY <1>1 DEF Ids
  <1>6. row.id \in Products
    BY DEF Rows
  <1>7. Ids(Append(table, row)) = Append(Ids(table), row.id)
    <2>1. Append(Ids(table), row.id) \in Seq(Products) /\ Len(Append(Ids(table), row.id)) = Len(table) + 1
          /\ \A i \in 1..(Len(table) + 1) :
                Append(Ids(table), row.id)[i] = IF i = Len(table) + 1 THEN row.id ELSE Ids(table)[i]
      BY <1>1, <1>2, <1>6
    <2>2. \A i \in 1..(Len(table) + 1) :
             Ids(Append(table, row))[i] = IF i = Len(table) + 1 THEN row.id ELSE Ids(table)[i]
      BY <1>1, <1>3, <1>4
    <2>3. Ids(Append(table, row)) = [i \in 1..(Len(table) + 1) |-> Ids(Append(table, row))[i]]
      BY <1>1 DEF Ids
    <2>4. Append(Ids(table), row.id) = [i \in 1..(Len(table) + 1) |-> Append(Ids(table), row.id)[i]]
      BY <2>1
    <2> QED
      BY <2>1, <2>2, <2>3, <2>4
  <1>8. ASSUME IsInjective(Ids(table)), ~Has(table, row.id) PROVE IsInjective(Ids(Append(table, row)))
    <2>1. \A i, j \in 1..Len(table) : table[i].id = table[j].id => i = j
      BY <1>1, <1>2, <1>3, <1>8 DEF IsInjective
    <2>2. \A i \in 1..Len(table) : table[i].id # row.id
      BY <1>1, <1>8 DEF Has
    <2>3. ASSUME NEW i \in 1..(Len(table) + 1), NEW j \in 1..(Len(table) + 1),
                 Append(table, row)[i].id = Append(table, row)[j].id
          PROVE  i = j
      <3>1. \A k \in 1..(Len(table) + 1) : k \in 1..Len(table) \/ k = Len(table) + 1
        BY <1>1
      <3> QED
        BY <1>1, <2>1, <2>2, <2>3, <3>1
    <2> QED
      BY <1>4, <1>5, <2>3 DEF IsInjective
  <1> QED
    BY <1>1, <1>7, <1>8

-----------------------------------------------------------------------------
(***************************************************************************)
(* Types.                                                                  *)
(***************************************************************************)
LEMMA FirstPageInjective ==
    ASSUME NEW table, IsFirstPage(Catalogue, table)
    PROVE  IsInjective(Ids(table))
  <1>1. PICK S \in SUBSET Catalogue : Ids(table) = Table!FirstPage(S)
    BY DEF IsFirstPage
  <1>2. S \in SUBSET Products
    BY DEF Catalogue
  <1> QED
    BY <1>1, <1>2, FirstPageIs

LEMMA InitTyped ==
    ASSUME Init
    PROVE  TypeOK
  <1>1. stock \in [Products -> {Absent} \cup [quantity : Quantities, at : 0..MaxCommits]]
    <2>1. MaxCommits \in Nat
      BY DashboardAssumption
    <2>2. {Absent} \cup [quantity : Quantities, at : {0}]
             \subseteq {Absent} \cup [quantity : Quantities, at : 0..MaxCommits]
      BY <2>1
    <2> QED
      BY <2>2 DEF Init
  <1>2. page = [table |-> TableRead, low |-> LowRead(stock)] /\ lists = {LowRead(stock)}
    BY DEF Init
  <1>3. page \in Pages /\ IsInjective(Ids(page.table)) /\ lists \subseteq Panels
    <2>1. LowRead(stock) \in Panels
      BY <1>1, LowReadIs
    <2> QED
      BY <1>1, <1>2, <2>1, TableReadIs DEF Pages
  <1>4. commits \in 0..MaxCommits /\ faults \in 0..MaxFaults /\ restarts \in 0..MaxRestarts
    BY DashboardAssumption DEF Init
  <1>5. fetch \in [Fetches -> {NoFetch} \cup Snapshots]
    BY DEF Init
  <1>6. /\ kind \in {"dashboard", "sales"} /\ pending \subseteq Events /\ published \in Seq(Events)
        /\ lost \subseteq 1..MaxCommits /\ conn \in {"connecting", "live", "closed"}
    BY DEF Init
  <1>7. stream \in Seq(Events \cup {Opened}) \cup {NoStream} /\ activeResync \in Fetches \cup {NoFetch}
    BY DEF Init
  <1>8. buffer \in Seq(StockUpdates) /\ raced \subseteq Products /\ misread \subseteq Products
    BY DEF Init
  <1>9. synced \in BOOLEAN
    BY DEF Init
  <1> QED
    BY <1>1, <1>3, <1>4, <1>5, <1>6, <1>7, <1>8, <1>9 DEF TypeOK

\* What a page takes from its stream.
LEMMA ReceivedIs ==
    ASSUME TypeOK, NEW k, Received(k)
    PROVE  /\ stream \in Seq(Events \cup {Opened}) /\ Len(stream) \in Nat /\ Len(stream) > 0
           /\ DOMAIN stream = 1..Len(stream)
           /\ Head(stream) = stream[1] /\ stream[1].kind = k
           /\ stream' \in Seq(Events \cup {Opened}) /\ stream' # NoStream
           /\ DOMAIN stream' = 1..(Len(stream) - 1)
           /\ \A i \in DOMAIN stream' : i + 1 \in DOMAIN stream /\ stream'[i] = stream[i + 1]
           /\ k = "stock" => Head(stream) \in StockUpdates
           /\ k = "created" => Head(stream) \in Events /\ Head(stream) \notin StockUpdates
           /\ k \in {"stock", "created"} => Head(stream) \in Events /\ Head(stream) # Opened
           /\ k = "opened" => Head(stream) = Opened
  <1>1. stream \in Seq(Events \cup {Opened}) /\ stream # <<>> /\ stream' = Tail(stream)
    BY DEF Received, TypeOK
  <1>2. stream' \in Seq(Events \cup {Opened}) /\ stream' # NoStream
    BY <1>1, NothingAssumption
  <1>3. /\ Len(stream) \in Nat /\ Len(stream) > 0 /\ DOMAIN stream = 1..Len(stream)
        /\ Head(stream) = stream[1]
        /\ DOMAIN stream' = 1..(Len(stream) - 1)
        /\ \A i \in DOMAIN stream' : i + 1 \in DOMAIN stream /\ stream'[i] = stream[i + 1]
    BY <1>1
  <1>4. Head(stream).kind = k /\ Head(stream) \in Events \cup {Opened}
    BY <1>1, <1>3 DEF Received
  <1>5. Opened.kind = "opened"
    BY DEF Opened
  <1>6. \A e \in StockUpdates : e.kind = "stock"
    BY DEF StockUpdates
  <1>7. \A e \in Events : e \notin StockUpdates => e.kind = "created"
    BY DEF Events
  <1> QED
    BY <1>1, <1>2, <1>3, <1>4, <1>5, <1>6, <1>7 DEF Events

LEMMA PagesOf ==
    ASSUME TypeOK
    PROVE  /\ page.table \in Seq(Rows) /\ page.low \in Panels
           /\ \A f \in Fetches :
                 /\ fetch[f] # NoFetch => fetch[f] \in Snapshots
                 /\ HasRead(f) => fetch[f].table \in Seq(Rows)
                 /\ fetch[f] # NoFetch /\ Complete(f) => fetch[f] \in Pages
  BY DEF TypeOK, Pages, Snapshots, HasRead, Complete

LEMMA CommitTyped ==
    ASSUME TypeOK, NEW event \in Events, event.at = commits + 1, Commits(event)
    PROVE  TypeOK'
  <1>1. commits' = event.at /\ event.at \in 1..MaxCommits /\ event.id \in Products
        /\ event.quantity \in Quantities
    BY EventTyped DEF Commits
  <1>2. commits' \in 0..MaxCommits
    BY <1>1
  <1> DEFINE new == [quantity |-> event.quantity, at |-> event.at]
  <1>3. new \in [quantity : Quantities, at : 0..MaxCommits]
    BY <1>1
  <1>4. stock' = [stock EXCEPT ![event.id] = new]
    BY DEF Commits
  <1> HIDE DEF new
  <1>5. stock' \in [Products -> {Absent} \cup [quantity : Quantities, at : 0..MaxCommits]]
    BY <1>1, <1>3, <1>4 DEF TypeOK
  <1>6. pending' \subseteq Events
    BY DEF Commits, TypeOK
  <1>7. UNCHANGED <<kind, published, lost, conn, stream, client, faults, restarts>>
    BY DEF Commits
  <1>8. lists' \subseteq Panels
    <2>1. PICK tables : tables = stock'
      OBVIOUS
    <2>2. LowRead(tables) \in Panels
      BY <1>5, <2>1, LowReadIs
    <2>3. lists' = lists \cup {LowRead(tables)}
      BY <2>1 DEF Commits
    <2> QED
      BY <2>2, <2>3 DEF TypeOK
  <1> QED
    BY <1>2, <1>5, <1>6, <1>7, <1>8 DEF TypeOK, client, Ids

LEMMA PublishTyped ==
    ASSUME TypeOK, NEW event \in pending, Publish(event)
    PROVE  TypeOK'
  <1>1. event \in Events
    BY DEF TypeOK
  <1>2. pending' \subseteq Events
    BY DEF Publish, TypeOK
  <1>3. published' \in Seq(Events)
    BY <1>1 DEF Publish, TypeOK
  <1>4. stream' \in Seq(Events \cup {Opened}) \cup {NoStream}
    <2>1. CASE stream = NoStream
      BY <2>1 DEF Publish
    <2>2. CASE stream # NoStream
      BY <1>1, <2>2 DEF Publish, TypeOK
    <2> QED
      BY <2>1, <2>2
  <1>5. UNCHANGED <<kind, stock, commits, lost, lists, conn, client, faults, restarts>>
    BY DEF Publish
  <1> QED
    BY <1>2, <1>3, <1>4, <1>5 DEF TypeOK, client, Ids

LEMMA SettledTyped ==
    ASSUME TypeOK, NEW f \in Fetches, Settled(f)
    PROVE  /\ fetch' \in [Fetches -> {NoFetch} \cup Snapshots]
           /\ activeResync' \in Fetches \cup {NoFetch}
           /\ buffer' \in Seq(StockUpdates)
           /\ UNCHANGED <<kind, server, conn, stream, restarts>>
  <1>1. fetch' = [fetch EXCEPT ![f] = NoFetch] /\ fetch \in [Fetches -> {NoFetch} \cup Snapshots]
    BY DEF Settled, TypeOK
  <1>2. activeResync' \in Fetches \cup {NoFetch}
    BY DEF Settled, TypeOK
  <1>3. buffer' \in Seq(StockUpdates)
    BY DEF Settled, TypeOK
  <1>4. UNCHANGED <<kind, server, conn, stream, restarts>>
    BY DEF Settled
  <1> QED
    BY <1>1, <1>2, <1>3, <1>4

\* Where the page has the products it had, it has none twice.
LEMMA SameIds ==
    ASSUME NEW before, NEW after, IsInjective(Ids(before)), DOMAIN after = DOMAIN before,
           \A i \in DOMAIN before : after[i].id = before[i].id
    PROVE  Ids(after) = Ids(before) /\ IsInjective(Ids(after))
  BY DEF Ids

\* A replay changes no product of the snapshot.
LEMMA ResyncedIds ==
    ASSUME TypeOK, NEW f \in Fetches, fetch[f] # NoFetch, Complete(f)
    PROVE  /\ Resynced(fetch[f], buffer) \in Pages
           /\ Ids(Resynced(fetch[f], buffer).table) = Ids(fetch[f].table)
  <1> DEFINE snapshot == fetch[f]
             after == Resynced(snapshot, buffer)
  <1>1. snapshot \in Pages /\ buffer \in Seq(StockUpdates)
    BY PagesOf DEF TypeOK
  <1>2. Follows(snapshot, buffer, Len(buffer), after)
    BY <1>1, ResyncedFollows
  <1> HIDE DEF snapshot, after
  <1>3. ASSUME NEW i \in DOMAIN snapshot.table
        PROVE  after.table[i].id = snapshot.table[i].id
    <2>1. \/ after.table[i] = snapshot.table[i]
          \/ \E k \in 1..Len(buffer) :
                buffer[k].id = snapshot.table[i].id /\ after.table[i] = RowOf(buffer[k])
      BY <1>2 DEF Follows
    <2>2. \A k \in 1..Len(buffer) : RowOf(buffer[k]).id = buffer[k].id
      BY DEF RowOf
    <2> QED
      BY <2>1, <2>2
  <1>4. Ids(after.table) = Ids(snapshot.table)
    BY <1>2, <1>3 DEF Follows, Ids
  <1> QED
    BY <1>2, <1>4 DEF Follows, snapshot, after

LEMMA OnOpenTyped ==
    ASSUME TypeOK, OnOpen
    PROVE  TypeOK'
  <1>1. PICK f \in Fetches :
           /\ fetch[f] = NoFetch
           /\ fetch' = [fetch EXCEPT ![f] =
                 [table |-> Unread, low |-> IF kind = "dashboard" THEN Unread ELSE LowRead(stock)]]
           /\ activeResync' = f
    BY DEF OnOpen
  <1>2. LowRead(stock) \in Panels
    BY LowReadIs DEF TypeOK
  <1> DEFINE new == [table |-> Unread, low |-> IF kind = "dashboard" THEN Unread ELSE LowRead(stock)]
  <1>3. new \in Snapshots
    BY <1>2 DEF Snapshots
  <1> HIDE DEF new
  <1>4. fetch' \in [Fetches -> {NoFetch} \cup Snapshots]
    <2>1. fetch' = [fetch EXCEPT ![f] = new]
      BY <1>1 DEF new
    <2> QED
      BY <1>3, <2>1 DEF TypeOK
  <1>5. stream' \in Seq(Events \cup {Opened})
    BY ReceivedIs DEF OnOpen
  <1>6. activeResync' \in Fetches \cup {NoFetch} /\ conn' \in {"connecting", "live", "closed"}
    BY <1>1 DEF OnOpen
  <1>7. buffer' \in Seq(StockUpdates) /\ raced' \subseteq Products /\ misread' \subseteq Products
    BY DEF OnOpen
  <1>8. synced' \in BOOLEAN
    BY DEF OnOpen
  <1>9. UNCHANGED <<kind, server, page, faults, restarts>>
    BY DEF OnOpen
  <1> QED
    BY <1>4, <1>5, <1>6, <1>7, <1>8, <1>9 DEF TypeOK, server, Ids

LEMMA OnUpdateTyped ==
    ASSUME TypeOK, OnUpdate
    PROVE  TypeOK'
  <1> DEFINE event == Head(stream)
  <1>1. event \in StockUpdates /\ event \in Events /\ stream' \in Seq(Events \cup {Opened})
    BY ReceivedIs DEF OnUpdate
  <1>2. event.id \in Products
    BY <1>1, EventTyped
  <1>3. page' = ApplyStockUpdate(page, event) /\ page \in Pages
    BY DEF OnUpdate, TypeOK
  <1> HIDE DEF event
  <1>4. page' \in Pages
    BY <1>1, <1>3, Apply
  <1>5. IsInjective(Ids(page'.table))
    <2>1. /\ DOMAIN page'.table = DOMAIN page.table
          /\ \A i \in DOMAIN page.table :
                page'.table[i] = IF page.table[i].id = event.id THEN RowOf(event) ELSE page.table[i]
      BY <1>1, <1>3, Apply
    <2>2. \A i \in DOMAIN page.table : page'.table[i].id = page.table[i].id
      BY <2>1 DEF RowOf
    <2>3. IsInjective(Ids(page.table))
      BY DEF TypeOK
    <2> QED
      BY <2>1, <2>2, <2>3, SameIds
  <1>6. buffer' \in Seq(StockUpdates)
    BY <1>1 DEF OnUpdate, TypeOK, event
  <1>7. raced' \subseteq Products /\ misread' \subseteq Products
    BY <1>2 DEF OnUpdate, TypeOK, event
  <1>8. UNCHANGED <<kind, server, conn, fetch, activeResync, synced, faults, restarts>>
    BY DEF OnUpdate
  <1> QED
    BY <1>1, <1>4, <1>5, <1>6, <1>7, <1>8 DEF TypeOK, server, Ids

LEMMA OnProductCreatedTyped ==
    ASSUME TypeOK, OnProductCreated
    PROVE  TypeOK'
  <1> DEFINE event == Head(stream)
  <1>1. event \in Events /\ stream' \in Seq(Events \cup {Opened})
    BY ReceivedIs DEF OnProductCreated
  <1>2. page' = AddProduct(page, event) /\ page \in Pages /\ page.table \in Seq(Rows)
    BY PagesOf DEF OnProductCreated, TypeOK
  <1> HIDE DEF event
  <1>3. page' \in Pages
    BY <1>1, <1>2, Add
  <1>4. IsInjective(Ids(page'.table))
    <2>1. IsInjective(Ids(page.table))
      BY DEF TypeOK
    <2>2. CASE Has(page.table, event.id)
      BY <1>1, <1>2, <2>1, <2>2, Add
    <2>3. CASE ~Has(page.table, event.id)
      <3>1. page'.table = Append(page.table, RowOf(event)) /\ RowOf(event) \in Rows /\ RowOf(event).id = event.id
        BY <1>1, <1>2, <2>3, Add, EventTyped
      <3> QED
        BY <1>2, <2>1, <2>3, <3>1, AppendIds
    <2> QED
      BY <2>2, <2>3
  <1>5. UNCHANGED <<kind, server, conn, fetch, activeResync, buffer, synced, raced, misread, faults, restarts>>
    BY DEF OnProductCreated
  <1> QED
    BY <1>1, <1>3, <1>4, <1>5 DEF TypeOK, server, Ids

LEMMA ReadTyped ==
    ASSUME TypeOK, NEW f \in Fetches, ReadProducts(f) \/ ReadLowStock(f)
    PROVE  TypeOK'
  <1>1. fetch[f] \in Snapshots /\ fetch \in [Fetches -> {NoFetch} \cup Snapshots]
    BY PagesOf DEF ReadProducts, ReadLowStock, TypeOK
  <1>2. TableRead \in Seq(Rows) /\ lists \subseteq Panels
    BY TableReadIs DEF TypeOK
  <1>3. [fetch[f] EXCEPT !.table = TableRead] \in Snapshots
    BY <1>1, <1>2 DEF Snapshots
  <1>4. \A list \in lists : [fetch[f] EXCEPT !.low = list] \in Snapshots
    BY <1>1, <1>2 DEF Snapshots
  <1>5. fetch' \in [Fetches -> {NoFetch} \cup Snapshots]
    BY <1>1, <1>3, <1>4 DEF ReadProducts, ReadLowStock
  <1>6. UNCHANGED <<kind, server, conn, stream, page, activeResync, buffer, synced, raced, faults, restarts>>
    BY DEF ReadProducts, ReadLowStock
  <1>7. misread' \subseteq Products
    BY DEF ReadProducts, ReadLowStock, TypeOK, Misread
  <1> QED
    BY <1>5, <1>6, <1>7 DEF TypeOK, server, Ids

LEMMA ResyncTyped ==
    ASSUME TypeOK, SnapshotInv, NEW f \in Fetches, Resync(f) \/ FailResync(f)
    PROVE  TypeOK'
  <1>1. /\ fetch' \in [Fetches -> {NoFetch} \cup Snapshots] /\ activeResync' \in Fetches \cup {NoFetch}
        /\ buffer' \in Seq(StockUpdates)
        /\ UNCHANGED <<kind, server, conn, stream, restarts>>
    BY SettledTyped DEF Resync, FailResync
  <1>2. UNCHANGED <<raced, misread>>
    BY DEF Resync, FailResync
  <1>3. faults' \in 0..MaxFaults
    BY DashboardAssumption DEF Resync, FailResync, TypeOK
  <1>4. ASSUME UNCHANGED page PROVE page' \in Pages /\ IsInjective(Ids(page'.table))
    BY <1>4 DEF TypeOK
  <1>5. ASSUME page' # page PROVE page' \in Pages /\ IsInjective(Ids(page'.table))
    <2>1. Resync(f) /\ page' = Resynced(fetch[f], buffer) /\ fetch[f] # NoFetch /\ Complete(f)
      BY <1>5 DEF Resync, FailResync
    <2>2. IsInjective(Ids(fetch[f].table))
      <3>1. HasRead(f)
        BY <2>1 DEF HasRead, Complete
      <3> QED
        BY <3>1, FirstPageInjective DEF SnapshotInv
    <2>3. page' \in Pages /\ IsInjective(Ids(page'.table))
      BY <2>1, <2>2, ResyncedIds
    <2> QED
      BY <2>3
  <1>6. page' \in Pages /\ IsInjective(Ids(page'.table))
    BY <1>4, <1>5
  <1>7. synced' \in BOOLEAN
    <2>1. synced' = synced \/ synced' = (synced \/ activeResync = f)
      BY DEF Resync, FailResync
    <2>2. synced \in BOOLEAN
      BY DEF TypeOK
    <2> QED
      BY <2>1, <2>2, Zenon
  <1> QED
    BY <1>1, <1>2, <1>3, <1>6, <1>7 DEF TypeOK, server, Ids

LEMMA StepTyped ==
    ASSUME TypeOK, SnapshotInv, [Next]_vars
    PROVE  TypeOK'
  <1>1. CASE UNCHANGED vars
    BY <1>1 DEF TypeOK, vars, server, client, Ids
  <1>2. ASSUME NEW p \in Products, ChangeStock(p) PROVE TypeOK'
    <2>1. PICK quantity \in Quantities :
             Commits([kind |-> "stock", id |-> p, quantity |-> quantity, at |-> commits + 1])
      BY <1>2 DEF ChangeStock
    <2>2. commits + 1 \in 1..MaxCommits
      BY <2>1, DashboardAssumption DEF Commits, TypeOK
    <2>3. [kind |-> "stock", id |-> p, quantity |-> quantity, at |-> commits + 1] \in Events
      BY <2>2 DEF Events, StockUpdates
    <2> QED
      BY <2>1, <2>3, CommitTyped
  <1>3. ASSUME NEW p \in Products, CreateProduct(p) PROVE TypeOK'
    <2>1. PICK quantity \in Quantities :
             Commits([kind |-> "created", id |-> p, quantity |-> quantity, at |-> commits + 1])
      BY <1>3 DEF CreateProduct
    <2>2. commits + 1 \in 1..MaxCommits
      BY <2>1, DashboardAssumption DEF Commits, TypeOK
    <2>3. [kind |-> "created", id |-> p, quantity |-> quantity, at |-> commits + 1] \in Events
      BY <2>2 DEF Events
    <2> QED
      BY <2>1, <2>3, CommitTyped
  <1>4. ASSUME NEW event \in pending, LoseAcknowledgement(event) PROVE TypeOK'
    <2>1. event.at \in 1..MaxCommits
      BY EventTyped DEF TypeOK
    <2>2. faults' \in 0..MaxFaults
      BY <1>4, DashboardAssumption DEF LoseAcknowledgement, TypeOK
    <2>4. pending' \subseteq Events /\ lost' \subseteq 1..MaxCommits
      BY <1>4, <2>1 DEF LoseAcknowledgement, TypeOK
    <2>3. UNCHANGED <<kind, stock, commits, published, lists, conn, stream, client, restarts>>
      BY <1>4 DEF LoseAcknowledgement
    <2> QED
      BY <2>2, <2>3, <2>4 DEF TypeOK, client, Ids
  <1>5. CASE Restart
    <2>1. restarts' \in 0..MaxRestarts /\ pending' \subseteq Events /\ stream' = NoStream
      BY <1>5, DashboardAssumption DEF Restart, TypeOK
    <2>2. conn' \in {"connecting", "live", "closed"} /\ activeResync' \in Fetches \cup {NoFetch}
      BY <1>5 DEF Restart
    <2>3. fetch' \in [Fetches -> {NoFetch} \cup Snapshots] /\ buffer' \in Seq(StockUpdates)
      BY <1>5 DEF Restart
    <2>4. UNCHANGED <<kind, stock, commits, published, lost, lists, page, synced, raced, misread, faults>>
      BY <1>5 DEF Restart
    <2> QED
      BY <2>1, <2>2, <2>3, <2>4 DEF TypeOK, Ids
  <1>6. CASE Connect
    <2>1. stream' \in Seq(Events \cup {Opened})
      BY <1>6 DEF Connect
    <2>2. UNCHANGED <<kind, server, conn, client, faults, restarts>>
      BY <1>6 DEF Connect
    <2> QED
      BY <2>1, <2>2 DEF TypeOK, server, client, Ids
  <1>7. CASE Break \/ Refuse \/ Retry
    <2>1. stream' = NoStream \/ stream' = stream
      BY <1>7 DEF Break, Refuse, Retry
    <2>2. conn' \in {"connecting", "live", "closed"} /\ faults' \in 0..MaxFaults
      BY <1>7, DashboardAssumption DEF Break, Refuse, Retry, TypeOK
    <2>3. UNCHANGED <<kind, server, client, restarts>>
      BY <1>7 DEF Break, Refuse, Retry
    <2> QED
      BY <2>1, <2>2, <2>3 DEF TypeOK, server, client, Ids
  <1> QED
    BY <1>1, <1>2, <1>3, <1>4, <1>5, <1>6, <1>7, PublishTyped, OnOpenTyped, OnUpdateTyped,
       OnProductCreatedTyped, ReadTyped, ResyncTyped
       DEF Next, ReceiveNext, Answered

-----------------------------------------------------------------------------
(***************************************************************************)
(* What has been told stays true.                                          *)
(***************************************************************************)
LEMMA ToldKinds ==
    /\ \A p \in Catalogue : StockRow(p) \in Told
    /\ \A e \in Announced : RowOf(e) \in Told
    /\ \A i \in DOMAIN page.table : page.table[i] \in Told
    /\ \A f \in Fetches : HasRead(f) => \A i \in DOMAIN fetch[f].table : fetch[f].table[i] \in Told
  BY DEF Told

LEMMA RowTyped ==
    ASSUME TypeOK, NEW row \in Told
    PROVE  row \in Rows /\ row.id \in Products /\ row.quantity \in Quantities /\ row.at \in 0..MaxCommits
           /\ row.at \in Int
  <1>1. \A p \in Catalogue : StockRow(p) \in Rows
    BY DEF Catalogue, StockRow, Rows, TypeOK
  <1>2. \A e \in Announced : RowOf(e) \in Rows
    <2>1. Announced \subseteq Events
      BY DEF Announced, Published, TypeOK
    <2> QED
      BY <2>1, EventTyped
  <1>3. \A i \in DOMAIN page.table : page.table[i] \in Rows
    BY PagesOf
  <1>4. \A f \in Fetches : HasRead(f) => \A i \in DOMAIN fetch[f].table : fetch[f].table[i] \in Rows
    BY PagesOf
  <1>5. row \in Rows
    BY <1>1, <1>2, <1>3, <1>4 DEF Told
  <1> QED
    BY <1>5 DEF Rows

\* A step that commits nothing and tells nothing new.
LEMMA ToldKept ==
    ASSUME ToldInv, UNCHANGED <<stock, commits>>, Announced' \subseteq Announced,
           \A i \in DOMAIN page'.table : page'.table[i] \in Told,
           \A f \in Fetches : HasRead(f)' =>
              \A i \in DOMAIN fetch'[f].table : fetch'[f].table[i] \in Told
    PROVE  ToldInv'
  <1>1. Catalogue' = Catalogue /\ \A p : StockRow(p)' = StockRow(p)
    BY DEF Catalogue, StockRow
  <1>2. ASSUME NEW row \in Told' PROVE row \in Told
    <2>1. \/ \E p \in Catalogue : row = StockRow(p)
          \/ \E e \in Announced : row = RowOf(e)
          \/ \E i \in DOMAIN page'.table : row = page'.table[i]
          \/ \E f \in Fetches : HasRead(f)' /\ \E i \in DOMAIN fetch'[f].table : row = fetch'[f].table[i]
      BY <1>1 DEF Told, RowOf
    <2> QED
      BY <2>1, ToldKinds
  <1> QED
    BY <1>1, <1>2 DEF ToldInv

LEMMA ToldUnchanged ==
    ASSUME ToldInv, UNCHANGED <<stock, commits, page, fetch>>, Announced' \subseteq Announced
    PROVE  ToldInv'
  <1>1. \A f \in Fetches : HasRead(f)' = HasRead(f)
    BY DEF HasRead
  <1>2. \A f \in Fetches : HasRead(f)' =>
           \A i \in DOMAIN fetch'[f].table : fetch'[f].table[i] \in Told
    BY <1>1, ToldKinds
  <1>3. \A i \in DOMAIN page'.table : page'.table[i] \in Told
    BY ToldKinds
  <1> QED
    BY <1>2, <1>3, ToldKept

\* A commit tells one row, later than every other.
LEMMA CommitTold ==
    ASSUME TypeOK, ToldInv, NEW event \in Events, event.at = commits + 1, Commits(event),
           event.kind = "created" <=> event.id \notin Catalogue
    PROVE  ToldInv' /\ Catalogue' = Catalogue \cup {event.id}
           /\ stock'[event.id] = [quantity |-> event.quantity, at |-> event.at]
           /\ (\A p \in Products : p # event.id => stock'[p] = stock[p])
           /\ Announced' = Announced \cup {event} /\ Published' = Published
           /\ \A row \in Told' : row \in Told \/ row = RowOf(event)
  <1> DEFINE new == [quantity |-> event.quantity, at |-> event.at]
             p == event.id
  <1>1. /\ p \in Products /\ event.at = commits' /\ event.at = commits + 1 /\ commits \in Nat
        /\ new.at = event.at /\ new.quantity = event.quantity /\ new # Absent
        /\ RowOf(event).id = p /\ RowOf(event).at = event.at /\ RowOf(event).quantity = event.quantity
        /\ event.at \in 1..MaxCommits /\ event.quantity \in Quantities
    <2>1. commits \in Nat /\ event.at \in 1..MaxCommits /\ event.quantity \in Quantities /\ p \in Products
      BY EventTyped DEF TypeOK
    <2>2. new \in [quantity : Quantities, at : 0..MaxCommits]
      BY <2>1
    <2> QED
      BY <2>1, <2>2, DashboardAssumption DEF Commits, RowOf
  <1>2. stock' = [stock EXCEPT ![p] = new]
    BY DEF Commits
  <1> HIDE DEF new, p
  <1>3. stock'[p] = new /\ \A q \in Products : q # p => stock'[q] = stock[q]
    BY <1>1, <1>2 DEF TypeOK
  <1>4. Catalogue' = Catalogue \cup {p}
    BY <1>1, <1>3 DEF Catalogue
  <1>5. pending' = pending \cup {event} /\ UNCHANGED <<published, page, fetch>>
    BY DEF Commits, client
  <1>6. Announced' = Announced \cup {event} /\ Published' = Published
    BY <1>5 DEF Announced, Published
  <1>7. ASSUME NEW row \in Told' PROVE row \in Told \/ row = RowOf(event)
    <2>1. \/ \E q \in Catalogue' : row = StockRow(q)'
          \/ \E e \in Announced' : row = RowOf(e)
          \/ \E i \in DOMAIN page.table : row = page.table[i]
          \/ \E f \in Fetches : HasRead(f) /\ \E i \in DOMAIN fetch[f].table : row = fetch[f].table[i]
      BY <1>5 DEF Told, RowOf, HasRead
    <2>2. ASSUME NEW q \in Catalogue', row = StockRow(q)' PROVE row \in Told \/ row = RowOf(event)
      <3>1. CASE q = p
        BY <1>1, <1>3, <2>2, <3>1 DEF StockRow, RowOf, p
      <3>2. CASE q # p
        <4>1. q \in Catalogue /\ stock'[q] = stock[q]
          BY <1>3, <1>4, <3>2 DEF Catalogue
        <4>2. StockRow(q)' = StockRow(q)
          BY <4>1 DEF StockRow
        <4> QED
          BY <2>2, <4>1, <4>2, ToldKinds
      <3> QED
        BY <3>1, <3>2
    <2> QED
      BY <1>6, <2>1, <2>2, ToldKinds
  <1>8. \A q \in Catalogue : q # p => stock'[q] = stock[q]
    BY <1>3 DEF Catalogue
  <1>9. \A q \in Catalogue : stock[q].at \in Nat /\ stock[q].at <= commits
    BY DEF ToldInv, Catalogue, TypeOK
  <1>10. \A q \in Catalogue' : stock'[q].at <= commits'
    BY <1>1, <1>3, <1>4, <1>8, <1>9
  <1>11. ASSUME NEW row \in Told'
         PROVE  /\ row.id \in Catalogue' /\ row.at <= stock'[row.id].at
                /\ row.at = stock'[row.id].at => row.quantity = stock'[row.id].quantity
    <2>1. CASE row = RowOf(event)
      BY <1>1, <1>3, <1>4, <2>1
    <2>2. CASE row \in Told
      <3>1. /\ row.id \in Catalogue /\ row.at <= stock[row.id].at
            /\ row.at = stock[row.id].at => row.quantity = stock[row.id].quantity
        BY <2>2 DEF ToldInv
      <3>2. CASE row.id = p
        <4>1. row.at \in Int
          BY <2>2, RowTyped
        <4>2. stock[p].at <= commits /\ stock[p].at \in Nat
          BY <1>9, <3>1, <3>2
        <4>3. row.at < event.at
          BY <1>1, <3>1, <3>2, <4>1, <4>2
        <4> QED
          BY <1>1, <1>3, <1>4, <3>2, <4>1, <4>3
      <3>3. CASE row.id # p
        BY <1>4, <1>8, <3>1, <3>3
      <3> QED
        BY <3>2, <3>3
    <2> QED
      BY <1>7, <2>1, <2>2
  <1>12. ASSUME NEW e \in Announced', e.kind = "created"
         PROVE  e.id \in New /\ \A row \in Told' : row.id = e.id => e.at <= row.at
    <2>1. CASE e \in Announced
      <3>1. e.id \in New /\ \A row \in Told : row.id = e.id => e.at <= row.at
        BY <1>12, <2>1 DEF ToldInv
      <3>2. e.id = p => e.at <= event.at
        <4>1. SUFFICES ASSUME e.id = p PROVE e.at <= event.at
          OBVIOUS
        <4>2. e.id \in Catalogue /\ e.at <= stock[e.id].at /\ e.at \in Int
          <5>1. RowOf(e) \in Told /\ RowOf(e).id = e.id /\ RowOf(e).at = e.at
            BY <2>1, ToldKinds DEF RowOf
          <5> QED
            BY <5>1, RowTyped DEF ToldInv
        <4> QED
          BY <1>1, <1>9, <4>2
      <3> QED
        BY <1>1, <1>7, <3>1, <3>2
    <2>2. CASE e = event
      <3>1. p \notin Catalogue /\ p \in New
        BY <1>1, <1>12, <2>2 DEF ToldInv, Products, p
      <3>2. \A row \in Told : row.id # p
        BY <3>1 DEF ToldInv
      <3> QED
        BY <1>1, <1>7, <2>2, <3>1, <3>2 DEF p
    <2> QED
      BY <1>6, <2>1, <2>2
  <1>13. Existing \subseteq Catalogue'
    BY <1>4 DEF ToldInv
  <1>14. ToldInv'
    BY <1>10, <1>11, <1>12, <1>13 DEF ToldInv
  <1> QED
    BY <1>3, <1>4, <1>6, <1>7, <1>14 DEF p, new

LEMMA PublishIs ==
    ASSUME TypeOK, NEW event \in pending, Publish(event)
    PROVE  /\ event \in Events /\ event # Opened
           /\ Published' = Published \cup {event} /\ Announced' = Announced
           /\ DOMAIN published = 1..Len(published) /\ Len(published) \in Nat
           /\ DOMAIN published' = 1..(Len(published) + 1)
           /\ published'[Len(published) + 1] = event
           /\ \A i \in DOMAIN published : published'[i] = published[i]
  <1>1. event \in Events /\ published \in Seq(Events) /\ published' = Append(published, event)
    BY DEF TypeOK, Publish
  <1>2. event # Opened
    BY <1>1, EventTyped DEF Opened
  <1>3. /\ DOMAIN published = 1..Len(published) /\ Len(published) \in Nat
        /\ DOMAIN published' = 1..(Len(published) + 1)
        /\ published'[Len(published) + 1] = event
        /\ \A i \in DOMAIN published : published'[i] = published[i]
    BY <1>1
  <1>4. \A i \in DOMAIN published' : i \in DOMAIN published \/ i = Len(published) + 1
    BY <1>3
  <1>5. Len(published) + 1 \in DOMAIN published' /\ DOMAIN published \subseteq DOMAIN published'
    BY <1>3
  <1>6. Published' = Published \cup {event}
    BY <1>3, <1>4, <1>5 DEF Published
  <1>7. pending' = pending \ {event}
    BY DEF Publish
  <1>8. Announced' = Announced
    BY <1>6, <1>7 DEF Announced
  <1> QED
    BY <1>1, <1>2, <1>3, <1>6, <1>8

\* What the page takes from the stream was published.
LEMMA HeadPublished ==
    ASSUME TypeOK, StreamInv, NEW k \in {"stock", "created"}, Received(k)
    PROVE  Head(stream) \in Published /\ conn = "live"
  <1>1. stream # NoStream /\ 1 \in DOMAIN stream /\ Head(stream) = stream[1] /\ stream[1] # Opened
    BY ReceivedIs DEF Received
  <1> QED
    BY <1>1 DEF StreamInv, TypeOK

LEMMA ResyncedTold ==
    ASSUME TypeOK, StreamInv, NEW f \in Fetches, fetch[f] # NoFetch, Complete(f)
    PROVE  \A i \in DOMAIN Resynced(fetch[f], buffer).table : Resynced(fetch[f], buffer).table[i] \in Told
  <1> DEFINE snapshot == fetch[f]
             after == Resynced(snapshot, buffer)
  <1>1. snapshot \in Pages /\ buffer \in Seq(StockUpdates) /\ HasRead(f)
    BY PagesOf DEF TypeOK, HasRead, Complete
  <1>2. Follows(snapshot, buffer, Len(buffer), after)
    BY <1>1, ResyncedFollows
  <1>3. \A i \in DOMAIN snapshot.table : snapshot.table[i] \in Told
    BY <1>1, ToldKinds
  <1>4. \A k \in 1..Len(buffer) : RowOf(buffer[k]) \in Told
    BY <1>1, ToldKinds DEF StreamInv, Announced
  <1> HIDE DEF snapshot, after
  <1>5. \A i \in DOMAIN after.table : after.table[i] \in Told
    BY <1>2, <1>3, <1>4 DEF Follows
  <1> QED
    BY <1>5 DEF after, snapshot

LEMMA SettledKeeps ==
    ASSUME TypeOK, NEW f \in Fetches, Settled(f)
    PROVE  /\ fetch'[f] = NoFetch
           /\ \A g \in Fetches : g # f => fetch'[g] = fetch[g]
           /\ \A g \in Fetches : fetch'[g] # NoFetch => fetch'[g] = fetch[g] /\ g # f
           /\ \A g \in Fetches : HasRead(g)' => HasRead(g) /\ fetch'[g] = fetch[g]
           /\ activeResync' = NoFetch \/ (activeResync' = activeResync /\ activeResync # f)
           /\ activeResync' = NoFetch => buffer' = <<>> \/ (activeResync = NoFetch /\ buffer' = buffer)
           /\ activeResync' # NoFetch => buffer' = buffer /\ fetch'[activeResync] = fetch[activeResync]
           /\ \A g \in Fetches : fetch'[g] # NoFetch => (g = activeResync <=> g = activeResync')
  <1>1. fetch' = [fetch EXCEPT ![f] = NoFetch] /\ DOMAIN fetch = Fetches
    BY DEF Settled, TypeOK
  <1>2. fetch'[f] = NoFetch /\ \A g \in Fetches : g # f => fetch'[g] = fetch[g]
    BY <1>1
  <1>3. /\ activeResync' = IF activeResync = f THEN NoFetch ELSE activeResync
        /\ buffer' = IF activeResync = f THEN <<>> ELSE buffer
    BY DEF Settled
  <1>4. activeResync \in Fetches \cup {NoFetch} /\ NoFetch \notin Fetches
    BY DashboardAssumption DEF TypeOK
  <1>5. \A g \in Fetches : HasRead(g)' => HasRead(g) /\ fetch'[g] = fetch[g]
    BY <1>2 DEF HasRead
  <1> QED
    BY <1>2, <1>3, <1>4, <1>5

LEMMA ReadIs ==
    ASSUME TypeOK, NEW f \in Fetches, ReadProducts(f) \/ ReadLowStock(f)
    PROVE  /\ UNCHANGED <<kind, server, conn, stream, page, activeResync, buffer, synced, raced, faults, restarts>>
           /\ misread \subseteq misread'
           /\ fetch[f] # NoFetch /\ fetch'[f] # NoFetch
           /\ \A g \in Fetches : g # f => fetch'[g] = fetch[g]
           /\ \/ /\ fetch'[f].table = TableRead /\ fetch'[f].low = fetch[f].low
                 /\ fetch[f].table = Unread /\ ReadProducts(f)
              \/ /\ fetch'[f].table = fetch[f].table
                 /\ fetch[f].low = Unread /\ ReadLowStock(f)
                 /\ fetch'[f].low \in lists
                 /\ f = activeResync => Misread(fetch'[f].low) \subseteq misread'
  <1>1. fetch[f] \in Snapshots /\ fetch \in [Fetches -> {NoFetch} \cup Snapshots] /\ fetch[f] # NoFetch
    BY PagesOf DEF ReadProducts, ReadLowStock, TypeOK
  <1>2. fetch'[f] # NoFetch
    <2>1. TableRead \in Seq(Rows) /\ lists \subseteq Panels
      BY TableReadIs DEF TypeOK
    <2>2. [fetch[f] EXCEPT !.table = TableRead] \in Snapshots
      BY <1>1, <2>1 DEF Snapshots
    <2>3. \A list \in lists : [fetch[f] EXCEPT !.low = list] \in Snapshots
      BY <1>1, <2>1 DEF Snapshots
    <2> QED
      BY <1>1, <2>2, <2>3, NothingAssumption DEF ReadProducts, ReadLowStock
  <1>3. UNCHANGED <<kind, server, conn, stream, page, activeResync, buffer, synced, raced, faults, restarts>>
    BY DEF ReadProducts, ReadLowStock
  <1>4. CASE ReadProducts(f)
    <2>1. fetch' = [fetch EXCEPT ![f] = [fetch[f] EXCEPT !.table = TableRead]] /\ fetch[f].table = Unread
          /\ misread' = misread
      BY <1>4 DEF ReadProducts
    <2> QED
      BY <1>1, <1>2, <1>3, <1>4, <2>1 DEF Snapshots
  <1>5. CASE ReadLowStock(f)
    <2>1. PICK list \in lists :
             /\ fetch' = [fetch EXCEPT ![f] = [fetch[f] EXCEPT !.low = list]] /\ fetch[f].low = Unread
             /\ misread' = IF f = activeResync THEN misread \cup Misread(list) ELSE misread
      BY <1>5 DEF ReadLowStock
    <2>2. fetch'[f].low = list /\ fetch'[f].table = fetch[f].table
          /\ \A g \in Fetches : g # f => fetch'[g] = fetch[g]
      BY <1>1, <2>1 DEF Snapshots
    <2>3. misread \subseteq misread' /\ (f = activeResync => Misread(list) \subseteq misread')
      BY <2>1
    <2> QED
      BY <1>1, <1>2, <1>3, <1>5, <2>1, <2>2, <2>3
  <1> QED
    BY <1>4, <1>5

LEMMA ChangeStockIs ==
    ASSUME TypeOK, NEW p \in Products, ChangeStock(p)
    PROVE  \E quantity \in Quantities :
              LET event == [kind |-> "stock", id |-> p, quantity |-> quantity, at |-> commits + 1]
              IN  /\ event \in Events /\ event.at = commits + 1 /\ event.kind = "stock"
                  /\ event.id = p /\ p \in Catalogue
                  /\ Commits(event)
  <1>1. PICK quantity \in Quantities :
           Commits([kind |-> "stock", id |-> p, quantity |-> quantity, at |-> commits + 1])
    BY DEF ChangeStock
  <1>2. commits + 1 \in 1..MaxCommits
    BY <1>1, DashboardAssumption DEF Commits, TypeOK
  <1>3. [kind |-> "stock", id |-> p, quantity |-> quantity, at |-> commits + 1] \in Events
    BY <1>2 DEF Events, StockUpdates
  <1> QED
    BY <1>1, <1>3 DEF ChangeStock

LEMMA CreateProductIs ==
    ASSUME TypeOK, NEW p \in Products, CreateProduct(p)
    PROVE  \E quantity \in Quantities :
              LET event == [kind |-> "created", id |-> p, quantity |-> quantity, at |-> commits + 1]
              IN  /\ event \in Events /\ event.at = commits + 1 /\ event.kind = "created"
                  /\ event.id = p /\ p \notin Catalogue
                  /\ Commits(event)
  <1>1. PICK quantity \in Quantities :
           Commits([kind |-> "created", id |-> p, quantity |-> quantity, at |-> commits + 1])
    BY DEF CreateProduct
  <1>2. commits + 1 \in 1..MaxCommits
    BY <1>1, DashboardAssumption DEF Commits, TypeOK
  <1>3. [kind |-> "created", id |-> p, quantity |-> quantity, at |-> commits + 1] \in Events
    BY <1>2 DEF Events
  <1> QED
    BY <1>1, <1>3 DEF CreateProduct

\* A reload begins with nothing read but, on the sales page, what it will not show.
LEMMA OpenFetches ==
    ASSUME TypeOK, OnOpen
    PROVE  /\ activeResync' \in Fetches /\ fetch[activeResync'] = NoFetch
           /\ fetch'[activeResync'].table = Unread
           /\ fetch'[activeResync'].low = (IF kind = "dashboard" THEN Unread ELSE LowRead(stock))
           /\ \A g \in Fetches : g # activeResync' => fetch'[g] = fetch[g]
           /\ \A g \in Fetches : HasRead(g)' => HasRead(g) /\ fetch'[g] = fetch[g]
  <1>1. PICK f \in Fetches :
           /\ fetch[f] = NoFetch
           /\ fetch' = [fetch EXCEPT ![f] =
                 [table |-> Unread, low |-> IF kind = "dashboard" THEN Unread ELSE LowRead(stock)]]
           /\ activeResync' = f
    BY DEF OnOpen
  <1>2. fetch'[f] = [table |-> Unread, low |-> IF kind = "dashboard" THEN Unread ELSE LowRead(stock)]
        /\ \A g \in Fetches : g # f => fetch'[g] = fetch[g]
    BY <1>1 DEF TypeOK
  <1>3. \A g \in Fetches : HasRead(g)' => HasRead(g) /\ fetch'[g] = fetch[g]
    BY <1>2 DEF HasRead
  <1> QED
    BY <1>1, <1>2, <1>3

LEMMA UpdatedRows ==
    ASSUME TypeOK, OnUpdate
    PROVE  /\ DOMAIN page'.table = DOMAIN page.table
           /\ \A i \in DOMAIN page.table :
                 page'.table[i] = IF page.table[i].id = Head(stream).id THEN RowOf(Head(stream)) ELSE page.table[i]
           /\ \A p \in Products :
                 page'.low[p] = IF p = Head(stream).id THEN LowRow(Head(stream).quantity) ELSE page.low[p]
  <1>1. Head(stream) \in StockUpdates /\ page \in Pages /\ page' = ApplyStockUpdate(page, Head(stream))
    BY ReceivedIs DEF OnUpdate, TypeOK
  <1> QED
    BY <1>1, Apply

LEMMA AddedRows ==
    ASSUME TypeOK, OnProductCreated
    PROVE  /\ Has(page.table, Head(stream).id) => page' = page
           /\ ~Has(page.table, Head(stream).id) =>
                 /\ page'.table = Append(page.table, RowOf(Head(stream)))
                 /\ \A p \in Products :
                       page'.low[p] = IF p = Head(stream).id
                                      THEN page.low[p] \o LowRow(Head(stream).quantity) ELSE page.low[p]
           /\ DOMAIN page.table \subseteq DOMAIN page'.table
           /\ \A i \in DOMAIN page.table : page'.table[i] = page.table[i]
           /\ \A i \in DOMAIN page'.table : i \in DOMAIN page.table \/ page'.table[i] = RowOf(Head(stream))
  <1> DEFINE event == Head(stream)
  <1>1. event \in Events /\ page \in Pages /\ page' = AddProduct(page, event) /\ page.table \in Seq(Rows)
    BY ReceivedIs, PagesOf DEF OnProductCreated, TypeOK
  <1> HIDE DEF event
  <1>2. Has(page.table, event.id) => page' = page
    BY <1>1, Add
  <1>3. ~Has(page.table, event.id) =>
           /\ page'.table = Append(page.table, RowOf(event))
           /\ \A p \in Products : page'.low[p] = IF p = event.id THEN page.low[p] \o LowRow(event.quantity)
                                                 ELSE page.low[p]
    BY <1>1, Add
  <1>4. RowOf(event) \in Rows
    BY <1>1, EventTyped
  <1>5. ~Has(page.table, event.id) =>
           /\ DOMAIN page'.table = 1..(Len(page.table) + 1) /\ DOMAIN page.table = 1..Len(page.table)
           /\ Len(page.table) \in Nat
           /\ \A i \in DOMAIN page.table : page'.table[i] = page.table[i]
           /\ page'.table[Len(page.table) + 1] = RowOf(event)
    BY <1>1, <1>3, <1>4, AppendIds
  <1>6. /\ DOMAIN page.table \subseteq DOMAIN page'.table
        /\ \A i \in DOMAIN page.table : page'.table[i] = page.table[i]
        /\ \A i \in DOMAIN page'.table : i \in DOMAIN page.table \/ page'.table[i] = RowOf(event)
    BY <1>2, <1>5
  <1> QED
    BY <1>2, <1>3, <1>6 DEF event

LEMMA ToldStep ==
    ASSUME TypeOK, ToldInv, StreamInv, Next
    PROVE  ToldInv'
  <1>1. ASSUME NEW p \in Products, ChangeStock(p) PROVE ToldInv'
    BY <1>1, ChangeStockIs, CommitTold
  <1>2. ASSUME NEW p \in Products, CreateProduct(p) PROVE ToldInv'
    BY <1>2, CreateProductIs, CommitTold
  <1>3. ASSUME NEW event \in pending, Publish(event) PROVE ToldInv'
    <2>1. UNCHANGED <<stock, commits, page, fetch>> /\ Announced' \subseteq Announced
      BY <1>3, PublishIs DEF Publish, client
    <2> QED
      BY <2>1, ToldUnchanged
  <1>4. ASSUME NEW event \in pending, LoseAcknowledgement(event) PROVE ToldInv'
    <2>1. UNCHANGED <<stock, commits, page, fetch>> /\ Announced' \subseteq Announced
      BY <1>4 DEF LoseAcknowledgement, client, Announced, Published
    <2> QED
      BY <2>1, ToldUnchanged
  <1>5. CASE Restart
    <2>1. UNCHANGED <<stock, commits, page>> /\ Announced' \subseteq Announced
      BY <1>5 DEF Restart, Announced, Published
    <2>2. \A f \in Fetches : ~HasRead(f)'
      BY <1>5 DEF Restart, HasRead
    <2> QED
      BY <2>1, <2>2, ToldKept, ToldKinds
  <1>6. CASE Connect \/ Break \/ Refuse \/ Retry
    <2>1. UNCHANGED <<stock, commits, page, fetch>> /\ Announced' \subseteq Announced
      BY <1>6 DEF Connect, Break, Refuse, Retry, server, client, Announced, Published
    <2> QED
      BY <2>1, ToldUnchanged
  <1>7. CASE OnOpen
    <2>1. UNCHANGED <<stock, commits, page>> /\ Announced' \subseteq Announced
      BY <1>7 DEF OnOpen, server, Announced, Published
    <2>2. \A f \in Fetches : HasRead(f)' => HasRead(f) /\ fetch'[f] = fetch[f]
      BY <1>7, OpenFetches
    <2> QED
      BY <2>1, <2>2, ToldKept, ToldKinds
  <1>8. CASE OnUpdate \/ OnProductCreated
    <2>1. UNCHANGED <<stock, commits, fetch>> /\ Announced' \subseteq Announced
      BY <1>8 DEF OnUpdate, OnProductCreated, server, Announced, Published
    <2>2. \A f \in Fetches : HasRead(f)' => HasRead(f) /\ fetch'[f] = fetch[f]
      BY <2>1 DEF HasRead
    <2>3. RowOf(Head(stream)) \in Told
      BY <1>8, HeadPublished, ToldKinds DEF OnUpdate, OnProductCreated, Announced
    <2>4. \A i \in DOMAIN page'.table : page'.table[i] \in Told
      BY <1>8, <2>3, UpdatedRows, AddedRows, ToldKinds
    <2> QED
      BY <2>1, <2>2, <2>4, ToldKept, ToldKinds
  <1>9. ASSUME NEW f \in Fetches, ReadProducts(f) \/ ReadLowStock(f) PROVE ToldInv'
    <2>1. UNCHANGED <<stock, commits, page>> /\ Announced' \subseteq Announced
      BY <1>9, ReadIs DEF server, Announced, Published
    <2>2. \A i \in DOMAIN TableRead : TableRead[i] \in Told
      BY TableReadIs, ToldKinds DEF TypeOK
    <2>3. ASSUME NEW g \in Fetches, HasRead(g)', NEW i \in DOMAIN fetch'[g].table
          PROVE  fetch'[g].table[i] \in Told
      <3>1. CASE g = f /\ fetch'[f].table = TableRead
        BY <2>2, <3>1
      <3>2. CASE ~(g = f /\ fetch'[f].table = TableRead)
        <4>1. fetch'[g].table = fetch[g].table /\ (fetch[g] # NoFetch \/ fetch'[g] = fetch[g])
          BY <1>9, <3>2, ReadIs
        <4>2. HasRead(g)
          BY <2>3, <4>1 DEF HasRead
        <4> QED
          BY <4>1, <4>2, ToldKinds
      <3> QED
        BY <3>1, <3>2
    <2> QED
      BY <2>1, <2>3, ToldKept, ToldKinds
  <1>10. ASSUME NEW f \in Fetches, Resync(f) \/ FailResync(f) PROVE ToldInv'
    <2>1. UNCHANGED <<stock, commits>> /\ Announced' \subseteq Announced
      BY <1>10 DEF Resync, FailResync, Settled, server, Announced, Published
    <2>2. \A g \in Fetches : HasRead(g)' => HasRead(g) /\ fetch'[g] = fetch[g]
      BY <1>10, SettledKeeps DEF Resync, FailResync
    <2>3. \A i \in DOMAIN page'.table : page'.table[i] \in Told
      <3>1. \/ page' = page
            \/ page' = Resynced(fetch[f], buffer) /\ fetch[f] # NoFetch /\ Complete(f)
        BY <1>10 DEF Resync, FailResync
      <3> QED
        BY <3>1, ResyncedTold, ToldKinds
    <2> QED
      BY <2>1, <2>2, <2>3, ToldKept, ToldKinds
  <1> QED
    BY <1>1, <1>2, <1>3, <1>4, <1>5, <1>6, <1>7, <1>8, <1>9, <1>10
       DEF Next, ReceiveNext, Answered

LEMMA StreamStep ==
    ASSUME TypeOK, StreamInv, Next
    PROVE  StreamInv'
  <1>1. ASSUME NEW p \in Products, ChangeStock(p) \/ CreateProduct(p) PROVE StreamInv'
    <2>1. UNCHANGED <<kind, published, conn, stream, activeResync, buffer>>
      BY <1>1 DEF ChangeStock, CreateProduct, Commits, client
    <2> QED
      BY <2>1 DEF StreamInv, Published
  <1>2. ASSUME NEW event \in pending, Publish(event) PROVE StreamInv'
    <2>1. event # Opened /\ Published' = Published \cup {event}
      BY <1>2, PublishIs
    <2>2. UNCHANGED <<kind, conn, activeResync, buffer>>
          /\ stream' = IF stream = NoStream THEN NoStream ELSE Append(stream, event)
      BY <1>2 DEF Publish, client
    <2>3. CASE stream = NoStream
      BY <2>1, <2>2, <2>3 DEF StreamInv
    <2>4. CASE stream # NoStream
      <3>1. stream \in Seq(Events \cup {Opened}) /\ stream' = Append(stream, event)
        BY <2>2, <2>4 DEF TypeOK
      <3>2. /\ DOMAIN stream = 1..Len(stream) /\ DOMAIN stream' = 1..(Len(stream) + 1) /\ Len(stream) \in Nat
            /\ \A i \in DOMAIN stream : stream'[i] = stream[i]
            /\ stream'[Len(stream) + 1] = event
            /\ stream # <<>> => 1 \in DOMAIN stream /\ stream' # <<>>
        BY <3>1
      <3>3. \A i \in DOMAIN stream' : i \in DOMAIN stream \/ i = Len(stream) + 1
        BY <3>2
      <3>4. conn = "connecting" => stream' # <<>> /\ stream'[1] = Opened
        BY <2>4, <3>2 DEF StreamInv
      <3>5. \A i \in DOMAIN stream' :
               IF stream'[i] = Opened THEN i = 1 /\ conn = "connecting" ELSE stream'[i] \in Published'
        BY <2>1, <2>4, <3>2, <3>3 DEF StreamInv
      <3>6. stream' # NoStream
        <4>1. event \in Events
          BY <1>2, PublishIs
        <4>2. stream' \in Seq(Events \cup {Opened})
          BY <3>1, <4>1
        <4> QED
          BY <4>2, NothingAssumption
      <3> QED
        BY <2>1, <2>2, <2>4, <3>4, <3>5, <3>6 DEF StreamInv
    <2> QED
      BY <2>3, <2>4
  <1>3. ASSUME NEW event \in pending, LoseAcknowledgement(event) PROVE StreamInv'
    <2>1. UNCHANGED <<kind, published, conn, stream, activeResync, buffer>>
      BY <1>3 DEF LoseAcknowledgement, client
    <2> QED
      BY <2>1 DEF StreamInv, Published
  <1>4. CASE Restart
    <2>1. stream' = NoStream /\ conn' \in {"closed", "connecting"} /\ buffer' = <<>>
      BY <1>4 DEF Restart
    <2> QED
      BY <2>1 DEF StreamInv
  <1>5. CASE Connect
    <2>1. /\ stream' = <<Opened>> /\ conn' = "connecting"
          /\ UNCHANGED <<kind, published, activeResync, buffer>>
      BY <1>5 DEF Connect, server, client
    <2>2. DOMAIN stream' = {1} /\ stream'[1] = Opened /\ stream' # <<>>
      BY <2>1
    <2> QED
      BY <2>1, <2>2 DEF StreamInv, Published
  <1>6. CASE Break \/ Refuse \/ Retry
    <2>1. /\ stream' = NoStream /\ conn' \in {"closed", "connecting"}
          /\ UNCHANGED <<kind, published, activeResync, buffer>>
      BY <1>6 DEF Break, Refuse, Retry, server, client, StreamInv
    <2> QED
      BY <2>1 DEF StreamInv, Published
  <1>7. CASE OnOpen
    <2>1. conn' = "live" /\ buffer' = <<>> /\ UNCHANGED published /\ stream # NoStream
      BY <1>7 DEF OnOpen, server, Received
    <2>2. stream' # NoStream /\ \A i \in DOMAIN stream' : i + 1 \in DOMAIN stream /\ stream'[i] = stream[i + 1]
      BY <1>7, ReceivedIs DEF OnOpen
    <2>3. \A i \in DOMAIN stream' : i + 1 # 1 /\ stream'[i] \in Published
      <3>1. DOMAIN stream' \subseteq Nat \ {0}
        BY <1>7, ReceivedIs DEF OnOpen
      <3> QED
        BY <2>1, <2>2, <3>1 DEF StreamInv
    <2>4. \A i \in DOMAIN stream' : stream'[i] # Opened
      <3>1. DOMAIN stream' \subseteq Nat \ {0}
        BY <1>7, ReceivedIs DEF OnOpen
      <3> QED
        BY <2>1, <2>2, <3>1 DEF StreamInv
    <2> QED
      BY <2>1, <2>2, <2>3, <2>4 DEF StreamInv, Published
  <1>8. CASE OnUpdate \/ OnProductCreated
    <2>1. PICK k \in {"stock", "created"} : Received(k)
      BY <1>8 DEF OnUpdate, OnProductCreated
    <2>2. /\ conn = "live" /\ Head(stream) \in Published /\ stream # NoStream
          /\ UNCHANGED <<kind, published, conn, activeResync>>
      BY <1>8, <2>1, HeadPublished DEF OnUpdate, OnProductCreated, server, Received
    <2>3. stream' # NoStream /\ \A i \in DOMAIN stream' : i + 1 \in DOMAIN stream /\ stream'[i] = stream[i + 1]
      BY <2>1, ReceivedIs
    <2>4. \A i \in DOMAIN stream' : stream'[i] # Opened /\ stream'[i] \in Published
      BY <2>2, <2>3 DEF StreamInv
    <2>5. (\A i \in DOMAIN buffer' : buffer'[i] \in Published)
          /\ (activeResync = NoFetch \/ kind = "sales" => buffer' = <<>>)
      <3>1. CASE buffer' = buffer
        BY <3>1 DEF StreamInv
      <3>2. CASE buffer' # buffer
        <4>1. buffer' = Append(buffer, Head(stream)) /\ kind # "sales" /\ activeResync # NoFetch
          BY <1>8, <3>2 DEF OnUpdate, OnProductCreated
        <4>2. buffer \in Seq(StockUpdates)
          BY DEF TypeOK
        <4>3. \A i \in DOMAIN buffer' : (i \in DOMAIN buffer /\ buffer'[i] = buffer[i]) \/ buffer'[i] = Head(stream)
          BY <4>1, <4>2
        <4> QED
          BY <2>2, <4>1, <4>3 DEF StreamInv
      <3> QED
        BY <3>1, <3>2
    <2> QED
      BY <2>2, <2>3, <2>4, <2>5 DEF StreamInv, Published
  <1>9. ASSUME NEW f \in Fetches, ReadProducts(f) \/ ReadLowStock(f) PROVE StreamInv'
    <2>1. UNCHANGED <<kind, published, conn, stream, activeResync, buffer>>
      BY <1>9, ReadIs DEF server
    <2> QED
      BY <2>1 DEF StreamInv, Published
  <1>10. ASSUME NEW f \in Fetches, Resync(f) \/ FailResync(f) PROVE StreamInv'
    <2>1. /\ UNCHANGED <<kind, published, conn, stream>>
          /\ activeResync' = IF activeResync = f THEN NoFetch ELSE activeResync
          /\ buffer' = IF activeResync = f THEN <<>> ELSE buffer
      BY <1>10 DEF Resync, FailResync, Settled, server
    <2> QED
      BY <2>1 DEF StreamInv, Published
  <1> QED
    BY <1>1, <1>2, <1>3, <1>4, <1>5, <1>6, <1>7, <1>8, <1>9, <1>10
       DEF Next, ReceiveNext, Answered

LEMMA FirstPageKept ==
    ASSUME NEW table, IsFirstPage(Catalogue, table), Catalogue \subseteq Catalogue'
    PROVE  IsFirstPage(Catalogue', table)
  <1>1. PICK S \in SUBSET Catalogue : Existing \subseteq S /\ Ids(table) = Table!FirstPage(S)
    BY DEF IsFirstPage
  <1>2. S \in SUBSET Catalogue'
    BY <1>1
  <1> QED
    BY <1>1, <1>2 DEF IsFirstPage

LEMMA CatalogueGrows ==
    ASSUME TypeOK, ToldInv, Next
    PROVE  Catalogue \subseteq Catalogue'
  <1>1. CASE UNCHANGED stock
    BY <1>1 DEF Catalogue
  <1>2. ASSUME NEW p \in Products, ChangeStock(p) PROVE Catalogue \subseteq Catalogue'
    <2>1. PICK event \in Events :
             event.at = commits + 1 /\ event.kind = "stock" /\ event.id \in Catalogue /\ Commits(event)
      BY <1>2, ChangeStockIs
    <2> QED
      BY <2>1, CommitTold
  <1>3. ASSUME NEW p \in Products, CreateProduct(p) PROVE Catalogue \subseteq Catalogue'
    <2>1. PICK event \in Events :
             event.at = commits + 1 /\ event.kind = "created" /\ event.id \notin Catalogue /\ Commits(event)
      BY <1>3, CreateProductIs
    <2> QED
      BY <2>1, CommitTold
  <1> QED
    BY <1>1, <1>2, <1>3 DEF Next, Publish, LoseAcknowledgement, Restart, Connect, Break, Refuse, Retry,
       ReceiveNext, OnOpen, OnUpdate, OnProductCreated, Answered, ReadProducts, ReadLowStock,
       Resync, FailResync, Settled, server

LEMMA SnapshotStep ==
    ASSUME TypeOK, ToldInv, SnapshotInv, Next
    PROVE  SnapshotInv'
  <1>1. Catalogue \subseteq Catalogue'
    BY CatalogueGrows
  <1>2. \A f \in Fetches : HasRead(f) => IsFirstPage(Catalogue', fetch[f].table)
    BY <1>1, FirstPageKept DEF SnapshotInv
  <1>3. ASSUME UNCHANGED <<kind, fetch, activeResync, raced>> PROVE SnapshotInv'
    BY <1>1, <1>3, FirstPageKept DEF SnapshotInv, HasRead
  <1>4. CASE Restart
    BY <1>4 DEF Restart, SnapshotInv, HasRead
  <1>5. CASE OnOpen
    <2>1. \A f \in Fetches : HasRead(f)' => IsFirstPage(Catalogue', fetch'[f].table)
      BY <1>1, <1>5, OpenFetches, FirstPageKept DEF SnapshotInv
    <2>2. \A f \in Fetches : fetch'[f] # NoFetch /\ f # activeResync' => raced' = Products
      BY <1>5, OpenFetches DEF OnOpen, Reloading
    <2> QED
      BY <2>1, <2>2 DEF SnapshotInv
  <1>6. CASE OnUpdate
    <2>1. UNCHANGED <<kind, fetch, activeResync>>
          /\ raced' = IF Reloading THEN raced \cup {Head(stream).id} ELSE raced \ {Head(stream).id}
      BY <1>6 DEF OnUpdate
    <2>2. raced' \subseteq Products
      BY <1>6, OnUpdateTyped DEF TypeOK
    <2>3. \A f \in Fetches : fetch[f] # NoFetch => raced \subseteq raced'
      BY <2>1 DEF Reloading
    <2>4. \A f \in Fetches : HasRead(f)' => IsFirstPage(Catalogue', fetch'[f].table)
      BY <1>1, <2>1, FirstPageKept DEF SnapshotInv, HasRead
    <2> QED
      BY <2>1, <2>2, <2>3, <2>4 DEF SnapshotInv
  <1>7. ASSUME NEW f \in Fetches, ReadProducts(f) \/ ReadLowStock(f) PROVE SnapshotInv'
    <2>1. UNCHANGED <<kind, stock, activeResync, raced>>
      BY <1>7, ReadIs DEF server
    <2>2. IsFirstPage(Catalogue', TableRead)
      <3>1. IsFirstPage(Catalogue, TableRead)
        BY TableReadIs DEF IsFirstPage, TypeOK, ToldInv
      <3> QED
        BY <1>1, <3>1, FirstPageKept
    <2>3. ASSUME NEW g \in Fetches, HasRead(g)' PROVE IsFirstPage(Catalogue', fetch'[g].table)
      <3>1. CASE g = f /\ fetch'[f].table = TableRead
        BY <2>2, <3>1
      <3>2. CASE ~(g = f /\ fetch'[f].table = TableRead)
        <4>1. fetch'[g].table = fetch[g].table /\ (fetch[g] # NoFetch \/ fetch'[g] = fetch[g])
          BY <1>7, <3>2, ReadIs
        <4>2. HasRead(g)
          BY <2>3, <4>1 DEF HasRead
        <4> QED
          BY <1>1, <4>1, <4>2, FirstPageKept DEF SnapshotInv
      <3> QED
        BY <3>1, <3>2
    <2>4. \A g \in Fetches : fetch'[g] # NoFetch => fetch[g] # NoFetch
      BY <1>7, ReadIs
    <2> QED
      BY <2>1, <2>3, <2>4 DEF SnapshotInv
  <1>8. ASSUME NEW f \in Fetches, Resync(f) \/ FailResync(f) PROVE SnapshotInv'
    <2>1. Settled(f) /\ UNCHANGED <<kind, raced>>
      BY <1>8 DEF Resync, FailResync, Settled
    <2>2. \A g \in Fetches : HasRead(g)' => IsFirstPage(Catalogue', fetch'[g].table)
      BY <1>1, <2>1, SettledKeeps, FirstPageKept DEF SnapshotInv
    <2>3. \A g \in Fetches : fetch'[g] # NoFetch /\ g # activeResync' =>
             fetch[g] # NoFetch /\ g # activeResync
      BY <2>1, SettledKeeps
    <2> QED
      BY <2>1, <2>2, <2>3 DEF SnapshotInv
  <1> QED
    BY <1>3, <1>4, <1>5, <1>6, <1>7, <1>8
       DEF Next, ChangeStock, CreateProduct, Commits, Publish, LoseAcknowledgement, Connect, Break,
           Refuse, Retry, ReceiveNext, OnProductCreated, Answered, client

LEMMA BasicInit ==
    ASSUME Init
    PROVE  BasicInv
  <1>1. TypeOK
    BY InitTyped
  <1>2. page.table = TableRead /\ Catalogue = Existing /\ pending = {} /\ Published = {}
        /\ commits = 0 /\ \A f \in Fetches : fetch[f] = NoFetch
    BY DEF Init, Published
  <1>3. Announced = {} /\ \A f \in Fetches : ~HasRead(f)
    BY <1>2 DEF Announced, HasRead
  <1>4. ASSUME NEW row \in Told PROVE row.id \in Catalogue /\ row = StockRow(row.id)
    <2>1. \/ \E p \in Catalogue : row = StockRow(p)
          \/ \E i \in DOMAIN TableRead : row = TableRead[i]
      BY <1>2, <1>3 DEF Told
    <2>2. \A p \in Catalogue : StockRow(p).id = p
      BY DEF StockRow
    <2> QED
      BY <1>1, <2>1, <2>2, TableReadIs DEF TypeOK
  <1>5. ASSUME NEW row \in Told
        PROVE  /\ row.id \in Catalogue /\ row.at <= stock[row.id].at
               /\ row.at = stock[row.id].at => row.quantity = stock[row.id].quantity
    <2>1. row.at \in Int
      BY <1>1, RowTyped
    <2>2. row.at = stock[row.id].at /\ row.quantity = stock[row.id].quantity
      BY <1>4 DEF StockRow
    <2> QED
      BY <1>4, <2>1, <2>2
  <1>6. \A p \in Catalogue : stock[p].at <= commits
    <2>1. ASSUME NEW p \in Catalogue PROVE stock[p].at = 0
      <3>1. stock[p] \in [quantity : Quantities, at : {0}]
        BY DEF Init, Catalogue
      <3> QED
        BY <3>1
    <2> QED
      BY <1>2, <2>1
  <1>7. ToldInv
    BY <1>2, <1>3, <1>5, <1>6 DEF ToldInv
  <1>8. StreamInv
    BY DEF Init, StreamInv
  <1>9. SnapshotInv
    BY <1>2, <1>3 DEF SnapshotInv
  <1> QED
    BY <1>1, <1>7, <1>8, <1>9 DEF BasicInv

LEMMA BasicStep ==
    ASSUME BasicInv, [Next]_vars
    PROVE  BasicInv'
  <1>1. TypeOK'
    BY StepTyped DEF BasicInv
  <1>2. CASE UNCHANGED vars
    <2>1. UNCHANGED <<Told, Announced, Published, Catalogue>>
      BY <1>2 DEF vars, server, client, Told, Announced, Published, Catalogue, StockRow, HasRead, RowOf
    <2>2. ToldInv'
      BY <1>2, <2>1 DEF BasicInv, ToldInv, vars, server
    <2>3. StreamInv'
      BY <1>2, <2>1 DEF BasicInv, StreamInv, vars, client
    <2>4. SnapshotInv'
      BY <1>2, <2>1, FirstPageKept DEF BasicInv, SnapshotInv, HasRead, vars, client
    <2> QED
      BY <1>1, <2>2, <2>3, <2>4 DEF BasicInv
  <1>3. CASE Next
    BY <1>1, <1>3, ToldStep, StreamStep, SnapshotStep DEF BasicInv
  <1> QED
    BY <1>2, <1>3

LEMMA BasicAlways ==
    Spec => []BasicInv
  <1>1. Init => BasicInv
    BY BasicInit
  <1>2. BasicInv /\ [Next]_vars => BasicInv'
    BY BasicStep
  <1> QED
    BY <1>1, <1>2, PTL DEF Spec

\* Every variable has its type, and no product is in the table twice: neither an
\* event of one that is there, nor a replay over a page of a snapshot adds it again.
THEOREM DashboardTyped ==
    Spec => []TypeOK
  <1>1. BasicInv => TypeOK
    BY DEF BasicInv
  <1> QED
    BY <1>1, BasicAlways, PTL

-----------------------------------------------------------------------------
(***************************************************************************)
(* The table is a ProductTable.                                            *)
(***************************************************************************)
LEMMA TableAtStart ==
    ASSUME Init
    PROVE  Table!TableInit
  <1>1. Catalogue = Existing /\ page.table = TableRead
    BY DEF Init
  <1>2. Ids(TableRead) = Table!FirstPage(Catalogue)
    BY InitTyped, TableReadIs DEF TypeOK
  <1> QED
    BY <1>1, <1>2 DEF Table!TableInit

LEMMA TableStep ==
    ASSUME BasicInv, [Next]_vars
    PROVE  [Table!TableNext]_(Table!tableVars)
  <1> USE DEF BasicInv
  <1>1. ASSUME UNCHANGED <<stock, page>> PROVE UNCHANGED Table!tableVars
    BY <1>1 DEF Table!tableVars, Catalogue, Ids
  <1>2. ASSUME NEW p \in Products, ChangeStock(p) PROVE UNCHANGED Table!tableVars
    <2>1. PICK event \in Events :
             /\ event.at = commits + 1 /\ event.kind = "stock" /\ event.id \in Catalogue /\ Commits(event)
      BY <1>2, ChangeStockIs
    <2>2. Catalogue' = Catalogue
      <3>1. event.kind = "created" <=> event.id \notin Catalogue
        BY <2>1
      <3>2. Catalogue' = Catalogue \cup {event.id}
        BY <2>1, <3>1, CommitTold
      <3> QED
        BY <2>1, <3>2
    <2>3. UNCHANGED page
      BY <2>1 DEF Commits, client
    <2> QED
      BY <2>2, <2>3 DEF Table!tableVars, Ids
  <1>3. ASSUME NEW p \in Products, CreateProduct(p) PROVE Table!Create(p) /\ p \in New
    <2>1. PICK event \in Events :
             /\ event.at = commits + 1 /\ event.kind = "created" /\ event.id = p /\ p \notin Catalogue
             /\ Commits(event)
      BY <1>3, CreateProductIs
    <2>2. Catalogue' = Catalogue \cup {p}
      BY <2>1, CommitTold
    <2>3. UNCHANGED page
      BY <2>1 DEF Commits, client
    <2>4. p \in New
      BY <2>1 DEF ToldInv, Products
    <2> QED
      BY <2>1, <2>2, <2>3, <2>4 DEF Table!Create, Ids
  <1>4. CASE OnUpdate
    <2>1. UNCHANGED stock
      BY <1>4 DEF OnUpdate, server
    <2>2. Ids(page'.table) = Ids(page.table)
      <3>1. DOMAIN page'.table = DOMAIN page.table
            /\ \A i \in DOMAIN page.table : page'.table[i].id = page.table[i].id
        BY <1>4, UpdatedRows DEF RowOf
      <3> QED
        BY <3>1 DEF Ids
    <2>3. UNCHANGED Table!tableVars
      BY <2>1, <2>2 DEF Table!tableVars, Catalogue, Ids
    <2> QED
      BY <2>3
  <1>5. CASE OnProductCreated
    <2> DEFINE event == Head(stream)
    <2>1. UNCHANGED stock
      BY <1>5 DEF OnProductCreated, server
    <2>2. event \in Events /\ event \in Announced /\ event.kind = "created"
      BY <1>5, ReceivedIs, HeadPublished DEF OnProductCreated, Announced
    <2>3. event.id \in New /\ event.id \in Catalogue
      <3>1. RowOf(event) \in Told /\ RowOf(event).id = event.id
        BY <2>2, ToldKinds DEF RowOf
      <3> QED
        BY <2>2, <3>1 DEF ToldInv
    <2>4. CASE Has(page.table, event.id)
      <3>1. UNCHANGED page
        BY <1>5, <2>4, AddedRows
      <3> QED
        BY <1>1, <2>1, <3>1
    <2>5. CASE ~Has(page.table, event.id)
      <3>1. page'.table = Append(page.table, RowOf(event)) /\ page.table \in Seq(Rows)
            /\ RowOf(event) \in Rows /\ RowOf(event).id = event.id
        BY <1>5, <2>2, <2>5, AddedRows, PagesOf, EventTyped
      <3>2. Ids(page'.table) = Append(Ids(page.table), event.id)
        BY <3>1, AppendIds
      <3>3. ~Table!IsShown(event.id)
        BY <2>5 DEF Table!IsShown, Has, Ids
      <3>4. Catalogue' = Catalogue
        BY <2>1 DEF Catalogue
      <3> HIDE DEF event
      <3>5. Ids(page.table)' = Append(Ids(page.table), event.id)
        BY <3>2 DEF Ids
      <3>6. Table!ShowNew(event.id)
        BY <2>3, <3>3, <3>4, <3>5 DEF Table!ShowNew
      <3> QED
        BY <2>3, <3>6 DEF Table!TableNext
    <2> QED
      BY <2>4, <2>5
  <1>6. ASSUME NEW f \in Fetches, Resync(f) PROVE Table!Reload \/ UNCHANGED Table!tableVars
    <2>1. UNCHANGED stock
      BY <1>6 DEF Resync, Settled, server
    <2>2. CASE UNCHANGED page
      BY <1>1, <2>1, <2>2
    <2>3. CASE page' # page
      <3>1. page' = Resynced(fetch[f], buffer) /\ fetch[f] # NoFetch /\ Complete(f)
        BY <1>6, <2>3 DEF Resync
      <3>2. Ids(page'.table) = Ids(fetch[f].table)
        BY <3>1, ResyncedIds
      <3>3. IsFirstPage(Catalogue, fetch[f].table)
        BY <3>1 DEF SnapshotInv, HasRead, Complete
      <3>4. PICK S \in SUBSET Catalogue : Existing \subseteq S /\ Ids(fetch[f].table) = Table!FirstPage(S)
        BY <3>3 DEF IsFirstPage
      <3>5. Catalogue' = Catalogue
        BY <2>1 DEF Catalogue
      <3>6. Ids(page.table)' = Table!FirstPage(S)
        BY <3>2, <3>4 DEF Ids
      <3> QED
        BY <3>4, <3>5, <3>6 DEF Table!Reload
    <2> QED
      BY <2>2, <2>3
  <1>7. CASE UNCHANGED vars
    BY <1>1, <1>7 DEF vars, server, client
  <1>8. ASSUME NEW event \in pending, Publish(event) \/ LoseAcknowledgement(event)
        PROVE  UNCHANGED <<stock, page>>
    BY <1>8 DEF Publish, LoseAcknowledgement, client
  <1>9. ASSUME Restart \/ Connect \/ Break \/ Refuse \/ Retry \/ OnOpen PROVE UNCHANGED <<stock, page>>
    BY <1>9 DEF Restart, Connect, Break, Refuse, Retry, OnOpen, server, client
  <1>10. ASSUME NEW f \in Fetches, ReadProducts(f) \/ ReadLowStock(f) \/ FailResync(f)
         PROVE  UNCHANGED <<stock, page>>
    BY <1>10 DEF ReadProducts, ReadLowStock, FailResync, Settled, server
  <1> QED
    BY <1>1, <1>2, <1>3, <1>4, <1>5, <1>6, <1>7, <1>8, <1>9, <1>10
       DEF Next, ReceiveNext, Answered, Table!TableNext

\* The list of a page is what the forms on it take it for: it gains, at its end,
\* products that exist and that it has not, or becomes the first page of products
\* of some moment, whatever was replayed over it.
THEOREM PageIsProductTable ==
    Spec => IsProductTable
  <1>1. Init => Table!TableInit
    BY TableAtStart
  <1>2. BasicInv /\ [Next]_vars => [Table!TableNext]_(Table!tableVars)
    BY TableStep
  <1> QED
    BY <1>1, <1>2, BasicAlways, PTL DEF Spec, IsProductTable, Table!TableSpec

-----------------------------------------------------------------------------
(***************************************************************************)
(* No reload takes a row back.                                             *)
(***************************************************************************)
LEMMA AppendBuffer ==
    ASSUME NEW events \in Seq(StockUpdates), NEW event \in StockUpdates
    PROVE  /\ Append(events, event) \in Seq(StockUpdates)
           /\ Len(Append(events, event)) = Len(events) + 1 /\ Len(events) \in Nat
           /\ Append(events, event)[Len(events) + 1] = event
           /\ \A k \in 1..Len(events) : k \in 1..(Len(events) + 1) /\ Append(events, event)[k] = events[k]
           /\ \A k \in 1..(Len(events) + 1) : k \in 1..Len(events) \/ k = Len(events) + 1
           /\ \A k \in 1..(Len(events) + 1) :
                 IsLast(Append(events, event), Len(events) + 1, k) =>
                    k = Len(events) + 1 \/ (events[k].id # event.id /\ IsLast(events, Len(events), k))
  <1> DEFINE n == Len(events)
             all == Append(events, event)
  <1>1. /\ all \in Seq(StockUpdates) /\ Len(all) = n + 1 /\ n \in Nat
        /\ all[n + 1] = event
        /\ \A k \in 1..n : k \in 1..(n + 1) /\ all[k] = events[k]
        /\ \A k \in 1..(n + 1) : k \in 1..n \/ k = n + 1
    OBVIOUS
  <1> HIDE DEF all, n
  <1>2. ASSUME NEW k \in 1..n, IsLast(all, n + 1, k)
        PROVE  events[k].id # event.id /\ IsLast(events, n, k)
    <2>1. n + 1 \in 1..(n + 1) /\ n + 1 > k
      BY <1>1
    <2> QED
      BY <1>1, <1>2, <2>1 DEF IsLast
  <1>3. \A k \in 1..(n + 1) : IsLast(all, n + 1, k) =>
           k = n + 1 \/ (events[k].id # event.id /\ IsLast(events, n, k))
    BY <1>1, <1>2
  <1> QED
    BY <1>1, <1>3 DEF all, n

LEMMA ForwardStep ==
    ASSUME BasicInv, ForwardInv, [Next]_vars
    PROVE  ForwardInv'
  <1> USE DEF BasicInv
  <1>1. ASSUME UNCHANGED <<kind, page, fetch, activeResync, buffer>> PROVE ForwardInv'
    BY <1>1 DEF ForwardInv
  <1>2. ASSUME activeResync' = NoFetch PROVE ForwardInv'
    BY <1>2 DEF ForwardInv
  <1>3. CASE OnOpen
    <2>1. buffer' = <<>> /\ fetch'[activeResync'].table = Unread
      BY <1>3, OpenFetches DEF OnOpen
    <2>2. 1..Len(buffer') = {}
      BY <2>1
    <2> QED
      BY <2>1, <2>2 DEF ForwardInv, Forward
  <1>4. CASE OnUpdate
    <2> DEFINE event == Head(stream)
    <2>1. SUFFICES ASSUME kind = "dashboard", activeResync # NoFetch PROVE ForwardInv'
      BY <1>4 DEF ForwardInv, OnUpdate
    <2>2. UNCHANGED <<kind, fetch, activeResync>> /\ buffer' = Append(buffer, event)
          /\ event \in StockUpdates /\ buffer \in Seq(StockUpdates) /\ event.at \in Int
      BY <1>4, <2>1, ReceivedIs, EventTyped DEF OnUpdate, TypeOK
    <2> HIDE DEF event
    <2>3. SUFFICES ASSUME NEW i \in DOMAIN page'.table PROVE Forward(page'.table[i], buffer', fetch'[activeResync'])
      BY DEF ForwardInv
    <2>4. i \in DOMAIN page.table
          /\ page'.table[i] = IF page.table[i].id = event.id THEN RowOf(event) ELSE page.table[i]
      BY <1>4, UpdatedRows DEF event
    <2>5. Forward(page.table[i], buffer, fetch[activeResync])
      BY <2>1, <2>4 DEF ForwardInv
    <2>6. Mentions(buffer', event.id) /\ \A p : Mentions(buffer, p) => Mentions(buffer', p)
      <3>1. Len(buffer) \in Nat /\ Len(buffer') = Len(buffer) + 1 /\ buffer'[Len(buffer) + 1] = event
            /\ \A k \in 1..Len(buffer) : k \in 1..Len(buffer') /\ buffer'[k] = buffer[k]
        BY <2>2, AppendBuffer
      <3>2. Len(buffer) + 1 \in 1..Len(buffer')
        BY <3>1
      <3> QED
        BY <3>1, <3>2 DEF Mentions
    <2> DEFINE snapshot == fetch[activeResync]
    <2>8. ASSUME NEW k \in 1..Len(buffer'), IsLast(buffer', Len(buffer'), k), buffer'[k].id = page'.table[i].id
          PROVE  page'.table[i].at <= buffer'[k].at
      <3>1. Len(buffer') = Len(buffer) + 1 /\ Len(buffer) \in Nat /\ buffer'[Len(buffer) + 1] = event
            /\ k \in 1..(Len(buffer) + 1)
            /\ (k = Len(buffer) + 1 \/ (k \in 1..Len(buffer) /\ buffer[k].id # event.id
                                         /\ IsLast(buffer, Len(buffer), k) /\ buffer'[k] = buffer[k]))
        BY <2>2, <2>8, AppendBuffer
      <3>2. RowOf(event).id = event.id /\ RowOf(event).at = event.at
        BY DEF RowOf
      <3>3. CASE k = Len(buffer) + 1
        BY <2>2, <2>4, <2>8, <3>1, <3>2, <3>3
      <3>4. CASE k # Len(buffer) + 1
        BY <2>4, <2>5, <2>8, <3>1, <3>2, <3>4 DEF Forward
      <3> QED
        BY <3>3, <3>4
    <2>9. ASSUME ~Mentions(buffer', page'.table[i].id), snapshot # NoFetch, snapshot.table # Unread,
                 NEW j \in DOMAIN snapshot.table, snapshot.table[j].id = page'.table[i].id
          PROVE  page'.table[i].at <= snapshot.table[j].at
      <3>1. RowOf(event).id = event.id
        BY DEF RowOf
      <3>2. page'.table[i] = page.table[i]
        BY <2>4, <2>6, <2>9, <3>1
      <3> QED
        BY <2>5, <2>6, <2>9, <3>2 DEF Forward
    <2> QED
      BY <2>2, <2>8, <2>9 DEF Forward
  <1>5. CASE OnProductCreated
    <2> DEFINE event == Head(stream)
    <2>1. SUFFICES ASSUME kind = "dashboard", activeResync # NoFetch PROVE ForwardInv'
      BY <1>5 DEF ForwardInv, OnProductCreated
    <2>2. UNCHANGED <<kind, fetch, activeResync, buffer>>
          /\ event.kind = "created" /\ event \in Announced
      BY <1>5, ReceivedIs, HeadPublished DEF OnProductCreated, Announced
    <2>3. SUFFICES ASSUME NEW i \in DOMAIN page'.table PROVE Forward(page'.table[i], buffer', fetch'[activeResync'])
      BY DEF ForwardInv
    <2> DEFINE snapshot == fetch[activeResync]
    <2>4. Forward(page'.table[i], buffer, snapshot)
      <3>1. CASE i \in DOMAIN page.table
        BY <1>5, <2>1, <3>1, AddedRows DEF ForwardInv
      <3>2. CASE i \notin DOMAIN page.table
        <4>1. page'.table[i] = RowOf(event)
          BY <1>5, <3>2, AddedRows
        <4>2. RowOf(event).id = event.id /\ RowOf(event).at = event.at
          BY DEF RowOf
        <4>3. \A row \in Told : row.id = event.id => event.at <= row.at
          BY <2>2 DEF ToldInv
        <4>4. \A k \in 1..Len(buffer) : RowOf(buffer[k]) \in Told /\ RowOf(buffer[k]).id = buffer[k].id
                                        /\ RowOf(buffer[k]).at = buffer[k].at
          <5>1. DOMAIN buffer = 1..Len(buffer)
            BY DEF TypeOK
          <5> QED
            BY <5>1, ToldKinds DEF StreamInv, Announced, RowOf
        <4>5. snapshot # NoFetch /\ snapshot.table # Unread =>
                 \A j \in DOMAIN snapshot.table : snapshot.table[j] \in Told
          BY <2>1, ToldKinds DEF TypeOK, HasRead
        <4> HIDE DEF event, snapshot
        <4> QED
          BY <4>1, <4>2, <4>3, <4>4, <4>5 DEF Forward
      <3> QED
        BY <3>1, <3>2
    <2> QED
      BY <2>2, <2>4
  <1>6. ASSUME NEW f \in Fetches, ReadProducts(f) \/ ReadLowStock(f) PROVE ForwardInv'
    <2>1. UNCHANGED <<kind, stock, page, activeResync, buffer>>
      BY <1>6, ReadIs DEF server
    <2>2. SUFFICES ASSUME kind = "dashboard", activeResync # NoFetch, NEW i \in DOMAIN page.table
                   PROVE  Forward(page.table[i], buffer, fetch'[activeResync])
      BY <2>1 DEF ForwardInv
    <2>3. Forward(page.table[i], buffer, fetch[activeResync])
      BY <2>2 DEF ForwardInv
    <2>4. activeResync \in Fetches
      BY <2>2 DEF TypeOK
    <2>5. CASE fetch'[activeResync].table = fetch[activeResync].table
      <3>1. fetch'[activeResync] # NoFetch => fetch[activeResync] # NoFetch
        BY <1>6, <2>4, ReadIs
      <3> QED
        BY <2>3, <2>5, <3>1 DEF Forward
    <2>6. CASE fetch'[activeResync].table = TableRead
      <3>1. page.table[i] \in Told
        BY ToldKinds
      <3>2. ASSUME NEW j \in DOMAIN TableRead, TableRead[j].id = page.table[i].id
            PROVE  page.table[i].at <= TableRead[j].at
        <4>1. TableRead[j] = StockRow(TableRead[j].id)
          BY TableReadIs DEF TypeOK
        <4>2. TableRead[j].at = stock[page.table[i].id].at
          BY <3>2, <4>1 DEF StockRow
        <4> QED
          BY <3>1, <4>2 DEF ToldInv
      <3> QED
        BY <2>3, <2>6, <3>2 DEF Forward
    <2> QED
      BY <1>6, <2>4, <2>5, <2>6, ReadIs
  <1>7. ASSUME NEW f \in Fetches, Resync(f) \/ FailResync(f) PROVE ForwardInv'
    <2>1. Settled(f) /\ UNCHANGED kind
      BY <1>7 DEF Resync, FailResync, Settled
    <2>2. CASE activeResync' = NoFetch
      BY <1>2, <2>2
    <2>3. CASE activeResync' # NoFetch /\ kind # "dashboard"
      BY <2>1, <2>3 DEF ForwardInv
    <2>4. CASE activeResync' # NoFetch /\ kind = "dashboard"
      <3>1. activeResync' = activeResync /\ activeResync # f /\ buffer' = buffer
            /\ fetch'[activeResync] = fetch[activeResync]
        BY <2>1, <2>4, SettledKeeps
      <3>2. UNCHANGED page
        BY <1>7, <2>4, <3>1 DEF Resync, FailResync, Shows
      <3> QED
        BY <2>1, <3>1, <3>2 DEF ForwardInv
    <2> QED
      BY <2>2, <2>3, <2>4
  <1>8. CASE UNCHANGED vars
    BY <1>1, <1>8 DEF vars, client
  <1>9. ASSUME NEW p \in Products, ChangeStock(p) \/ CreateProduct(p) PROVE ForwardInv'
    BY <1>1, <1>9 DEF ChangeStock, CreateProduct, Commits, client
  <1>10. ASSUME NEW event \in pending, Publish(event) \/ LoseAcknowledgement(event) PROVE ForwardInv'
    BY <1>1, <1>10 DEF Publish, LoseAcknowledgement, client
  <1>11. CASE Restart
    BY <1>2, <1>11 DEF Restart
  <1>12. CASE Connect \/ Break \/ Refuse \/ Retry
    BY <1>1, <1>12 DEF Connect, Break, Refuse, Retry, client
  <1> QED
    BY <1>3, <1>4, <1>5, <1>6, <1>7, <1>8, <1>9, <1>10, <1>11, <1>12 DEF Next, ReceiveNext, Answered

LEMMA ForwardAlways ==
    Spec => [](BasicInv /\ ForwardInv)
  <1>1. Init => ForwardInv
    BY DEF Init, ForwardInv
  <1>2. BasicInv /\ ForwardInv /\ [Next]_vars => ForwardInv'
    BY ForwardStep
  <1> QED
    BY <1>1, <1>2, BasicAlways, PTL DEF Spec

\* A row of the dashboard that a reload replaces is at least as new as it was: the
\* events that arrived meanwhile are replayed, and what the page had from before
\* the reload began cannot be newer than what the reload reads.
THEOREM NoReloadTakesBack ==
    Spec => NothingTakenBack
  <1> DEFINE A == kind = "dashboard" /\ stream' = stream =>
                    \A i \in DOMAIN page.table, j \in DOMAIN page'.table :
                        page.table[i].id = page'.table[j].id => page.table[i].at <= page'.table[j].at
  <1>1. ASSUME BasicInv, ForwardInv, [Next]_vars PROVE A
    <2>1. SUFFICES ASSUME kind = "dashboard", stream' = stream,
                          NEW i \in DOMAIN page.table, NEW j \in DOMAIN page'.table,
                          page.table[i].id = page'.table[j].id
                   PROVE  page.table[i].at <= page'.table[j].at
      OBVIOUS
    <2>2. CASE UNCHANGED page
      <3>1. i = j
        <4>1. IsInjective(Ids(page.table)) /\ page'.table = page.table
          BY <1>1, <2>2 DEF BasicInv, TypeOK
        <4> QED
          BY <2>1, <4>1 DEF IsInjective, Ids
      <3>2. page.table[i].at \in Int
        BY <1>1, ToldKinds, RowTyped DEF BasicInv
      <3> QED
        BY <2>2, <3>1, <3>2
    <2>3. CASE page' # page
      <3>1. PICK f \in Fetches : Resync(f)
        <4>1. ASSUME NEW k, Received(k) PROVE FALSE
          <5>1. DOMAIN stream = 1..Len(stream) /\ DOMAIN stream' = 1..(Len(stream) - 1) /\ Len(stream) \in Nat
                /\ Len(stream) > 0
            BY <1>1, <4>1, ReceivedIs DEF BasicInv
          <5>2. Len(stream) \in 1..Len(stream) /\ Len(stream) \notin 1..(Len(stream) - 1)
            BY <5>1
          <5> QED
            BY <2>1, <5>1, <5>2
        <4> QED
          BY <1>1, <2>3, <4>1
             DEF vars, Next, ChangeStock, CreateProduct, Commits, Publish, LoseAcknowledgement, Restart,
                 Connect, Break, Refuse, Retry, ReceiveNext, OnOpen, OnUpdate, OnProductCreated,
                 Answered, ReadProducts, ReadLowStock, FailResync, server, client
      <3>2. page' = Resynced(fetch[f], buffer) /\ fetch[f] # NoFetch /\ Complete(f) /\ activeResync = f
        BY <2>1, <2>3, <3>1 DEF Resync, Shows
      <3>3. fetch[f] \in Pages /\ buffer \in Seq(StockUpdates) /\ fetch[f].table # Unread
        BY <1>1, <3>2, PagesOf DEF BasicInv, TypeOK, Complete
      <3>4. Follows(fetch[f], buffer, Len(buffer), page')
        BY <3>2, <3>3, ResyncedFollows
      <3>5. Forward(page.table[i], buffer, fetch[f])
        <4>1. activeResync # NoFetch
          BY <3>2, DashboardAssumption
        <4> QED
          BY <1>1, <2>1, <3>2, <4>1 DEF ForwardInv
      <3>6. j \in DOMAIN fetch[f].table
        BY <3>4 DEF Follows
      <3>7. CASE /\ page'.table[j] = fetch[f].table[j]
                 /\ \A k \in 1..Len(buffer) : buffer[k].id # fetch[f].table[j].id
        <4>1. ~Mentions(buffer, page.table[i].id)
          BY <2>1, <3>7 DEF Mentions
        <4> QED
          BY <2>1, <3>2, <3>3, <3>5, <3>6, <3>7, <4>1 DEF Forward
      <3>8. CASE \E k \in 1..Len(buffer) : /\ IsLast(buffer, Len(buffer), k)
                                           /\ buffer[k].id = fetch[f].table[j].id
                                           /\ page'.table[j] = RowOf(buffer[k])
        <4>1. PICK k \in 1..Len(buffer) : IsLast(buffer, Len(buffer), k) /\ page'.table[j] = RowOf(buffer[k])
          BY <3>8
        <4>2. page'.table[j].id = buffer[k].id /\ page'.table[j].at = buffer[k].at
          BY <4>1 DEF RowOf
        <4> QED
          BY <2>1, <3>5, <4>1, <4>2 DEF Forward
      <3> QED
        BY <3>4, <3>6, <3>7, <3>8 DEF Follows
    <2> QED
      BY <2>2, <2>3
  <1>2. BasicInv /\ ForwardInv /\ [Next]_vars => [A]_vars
    BY <1>1
  <1> HIDE DEF A
  <1>3. Spec => [][A]_vars
    BY <1>2, ForwardAlways, PTL DEF Spec
  <1> QED
    BY <1>3 DEF NothingTakenBack, A

-----------------------------------------------------------------------------
(***************************************************************************)
(* What the page lacks is still to come.                                   *)
(***************************************************************************)
LEMMA PublishStream ==
    ASSUME TypeOK, NEW event \in pending, Publish(event), stream # NoStream
    PROVE  /\ DOMAIN stream = 1..Len(stream) /\ Len(stream) \in Nat
           /\ DOMAIN stream' = 1..(Len(stream) + 1) /\ Len(stream) + 1 \in DOMAIN stream'
           /\ stream'[Len(stream) + 1] = event
           /\ \A i \in DOMAIN stream : i \in DOMAIN stream' /\ stream'[i] = stream[i]
           /\ \A i \in DOMAIN stream' : i \in DOMAIN stream \/ i = Len(stream) + 1
           /\ stream' # NoStream
  <1>1. stream \in Seq(Events \cup {Opened}) /\ stream' = Append(stream, event) /\ event \in Events
    BY DEF Publish, TypeOK
  <1>2. stream' \in Seq(Events \cup {Opened})
    BY <1>1
  <1> QED
    BY <1>1, <1>2, NothingAssumption

\* An event that comes out does not undo that an earlier one was overtaken, unless
\* it is a later one of its product.
LEMMA OvertakenKept ==
    ASSUME TypeOK, ToldInv, NEW event \in pending, Publish(event),
           NEW p, p # event.id \/ event.kind = "created", Overtaken(p)
    PROVE  Overtaken(p)'
  <1> DEFINE n == Len(published)
  <1>1. /\ DOMAIN published = 1..n /\ n \in Nat /\ DOMAIN published' = 1..(n + 1)
        /\ published'[n + 1] = event /\ \A i \in DOMAIN published : published'[i] = published[i]
    BY PublishIs
  <1>2. PICK j \in DOMAIN published :
           /\ published[j].id = p
           /\ \A i \in DOMAIN published : i > j => published[i].id # p
           /\ \E i \in DOMAIN published : published[i].id = p /\ published[i].at > published[j].at
    BY DEF Overtaken
  <1>3. PICK i \in DOMAIN published : published[i].id = p /\ published[i].at > published[j].at
    BY <1>2
  <1> HIDE DEF n
  <1>4. \A k \in DOMAIN published' : k \in DOMAIN published \/ k = n + 1
    BY <1>1
  <1>5. j \in DOMAIN published' /\ i \in DOMAIN published' /\ n + 1 \in DOMAIN published'
    BY <1>1
  <1>6. CASE p # event.id
    <2>1. \A k \in DOMAIN published' : k > j => published'[k].id # p
      BY <1>1, <1>2, <1>4, <1>6
    <2> QED
      BY <1>1, <1>2, <1>3, <1>5, <2>1 DEF Overtaken
  <1>7. CASE p = event.id
    <2>1. RowOf(published[j]) \in Told /\ RowOf(published[j]).id = p
          /\ RowOf(published[j]).at = published[j].at
      BY <1>2, ToldKinds DEF Announced, Published, RowOf
    <2>2. event.at <= published[j].at
      BY <1>7, <2>1 DEF ToldInv, Announced
    <2>3. event.at \in Int /\ published[i].at \in Int /\ published[j].at \in Int
      <3>1. event \in Events /\ published[i] \in Events /\ published[j] \in Events
        BY DEF TypeOK
      <3>2. \A e \in Events : e.at \in Int
        BY EventTyped
      <3> QED
        BY <3>1, <3>2
    <2>4. published'[i].at > published'[n + 1].at /\ published'[n + 1].id = p /\ published'[i].id = p
      BY <1>1, <1>3, <1>7, <2>2, <2>3
    <2>5. \A k \in DOMAIN published' : k > n + 1 => published'[k].id # p
      BY <1>1
    <2> QED
      BY <1>5, <2>4, <2>5 DEF Overtaken
  <1> QED
    BY <1>6, <1>7

\* What is excused stays so, unless an event of the product comes out.
LEMMA ExcusedPublish ==
    ASSUME TypeOK, ToldInv, NEW event \in pending, Publish(event),
           NEW p, p # event.id \/ event.kind = "created", Excused(p)
    PROVE  Excused(p)'
  <1>1. pending' = pending \ {event} /\ UNCHANGED <<stock, lost>>
    BY DEF Publish
  <1>2. ASSUME NEW e \in pending, e.kind = "stock", e.id = p, e.at = stock[p].at PROVE Excused(p)'
    <2>1. e \in pending'
      BY <1>1, <1>2
    <2> QED
      BY <1>1, <1>2, <2>1 DEF Excused
  <1>3. ASSUME Unknowable(p) PROVE Unknowable(p)'
    BY <1>1, <1>3, OvertakenKept DEF Unknowable
  <1> QED
    BY <1>2, <1>3 DEF Excused

LEMMA ExcusedLose ==
    ASSUME NEW event \in pending, LoseAcknowledgement(event), NEW p, Excused(p)
    PROVE  Excused(p)'
  <1>1. pending' = pending \ {event} /\ lost' = lost \cup {event.at} /\ UNCHANGED <<stock, published>>
    BY DEF LoseAcknowledgement
  <1>2. Overtaken(p)' = Overtaken(p)
    BY <1>1 DEF Overtaken
  <1>3. CASE Unknowable(p)
    BY <1>1, <1>2, <1>3 DEF Excused, Unknowable
  <1>4. ASSUME NEW e \in pending, e.kind = "stock", e.id = p, e.at = stock[p].at PROVE Excused(p)'
    <2>1. CASE e = event
      BY <1>1, <1>4, <2>1 DEF Excused, Unknowable
    <2>2. CASE e # event
      <3>1. e \in pending'
        BY <1>1, <2>2
      <3> QED
        BY <1>1, <1>4, <3>1 DEF Excused
    <2> QED
      BY <2>1, <2>2
  <1> QED
    BY <1>3, <1>4 DEF Excused

LEMMA ExcusedCommit ==
    ASSUME TypeOK, ToldInv, NEW event \in Events, event.at = commits + 1, Commits(event),
           event.kind = "created" <=> event.id \notin Catalogue
    PROVE  /\ event.kind = "stock" => Excused(event.id)'
           /\ \A p \in Products : p # event.id /\ Excused(p) => Excused(p)'
  <1>1. /\ stock'[event.id] = [quantity |-> event.quantity, at |-> event.at]
        /\ \A p \in Products : p # event.id => stock'[p] = stock[p]
    BY CommitTold
  <1>2. pending' = pending \cup {event} /\ UNCHANGED <<published, lost>>
    BY DEF Commits
  <1>3. ASSUME event.kind = "stock" PROVE Excused(event.id)'
    <2>1. event \in pending' /\ event.at = stock'[event.id].at
      BY <1>1, <1>2
    <2> QED
      BY <1>3, <2>1 DEF Excused
  <1>4. ASSUME NEW p \in Products, p # event.id, Excused(p) PROVE Excused(p)'
    <2>1. Overtaken(p)' = Overtaken(p) /\ stock'[p] = stock[p]
      BY <1>1, <1>2, <1>4 DEF Overtaken
    <2> QED
      BY <1>2, <1>4, <2>1 DEF Excused, Unknowable
  <1> QED
    BY <1>3, <1>4

LEMMA ExcusedSame ==
    ASSUME UNCHANGED server
    PROVE  \A p : Excused(p)' = Excused(p)
  BY DEF server, Excused, Unknowable, Overtaken

\* The last event of a product in the stream is that of its last commit.
LEMMA LastComes ==
    ASSUME TypeOK, StreamInv, LastInv, stream # NoStream, NEW i \in DOMAIN stream, IsEvent(i)
    PROVE  \E k \in DOMAIN stream :
              /\ k >= i /\ IsEvent(k) /\ stream[k].id = stream[i].id
              /\ Excused(stream[i].id) \/ stream[k].at = stock[stream[i].id].at
  <1> DEFINE p == stream[i].id
             T == {k \in DOMAIN stream : IsEvent(k) /\ stream[k].id = p}
  <1>1. DOMAIN stream = 1..Len(stream) /\ Len(stream) \in Nat
    BY DEF TypeOK
  <1>2. T \in SUBSET Nat /\ T # {} /\ \A k \in T : k <= Len(stream)
    BY <1>1
  <1>3. PICK k \in T : \A j \in T : j <= k
    <2> HIDE DEF T
    <2> QED
      BY <1>1, <1>2, LargestBelow
  <1>4. ASSUME NEW j \in DOMAIN stream, j > k PROVE stream[j].id # p
    <2>1. j # 1 /\ ~(j <= k)
      BY <1>1, <1>3, <1>4
    <2>2. IsEvent(j)
      BY <2>1 DEF StreamInv, IsEvent
    <2> QED
      BY <1>3, <2>1, <2>2
  <1>5. k \in DOMAIN stream /\ IsEvent(k) /\ stream[k].id = p /\ k >= i
    BY <1>1, <1>3
  <1>6. Excused(p) \/ stream[k].at = stock[p].at
    BY <1>4, <1>5 DEF LastInv, LastInStream, Known
  <1> QED
    BY <1>5, <1>6

\* What is told of a product is right when only its creation is still to come.
LEMMA OnlyCreationComes ==
    ASSUME BasicInv, LastInv, stream # NoStream, NEW row \in Told,
           NEW i \in DOMAIN stream, IsEvent(i), stream[i].id = row.id,
           \A k \in DOMAIN stream : IsEvent(k) /\ k >= i /\ stream[k].id = row.id => stream[k].kind = "created"
    PROVE  Known(row.id, row.at)
  <1>1. PICK k \in DOMAIN stream :
           /\ k >= i /\ IsEvent(k) /\ stream[k].id = row.id
           /\ Excused(row.id) \/ stream[k].at = stock[row.id].at
    BY LastComes DEF BasicInv
  <1>2. stream[k] \in Announced /\ stream[k].kind = "created"
    BY <1>1 DEF BasicInv, StreamInv, IsEvent, Announced
  <1>3. stream[k].at <= row.at /\ row.at <= stock[row.id].at
    BY <1>1, <1>2 DEF BasicInv, ToldInv
  <1>4. row.at \in Int /\ row.id \in Catalogue
    BY RowTyped DEF BasicInv, ToldInv
  <1>5. stock[row.id].at \in Int
    BY <1>4 DEF BasicInv, TypeOK, Catalogue
  <1> QED
    BY <1>1, <1>3, <1>4, <1>5 DEF Known

\* What the page takes from the stream is right, excused, or not the last of its
\* product.
LEMMA HeadIsRight ==
    ASSUME BasicInv, LastInv, NEW k \in {"stock", "created"}, Received(k),
           NEW event, event = Head(stream), NEW p, p = event.id
    PROVE  ToCome(p)' \/ Known(p, event.at)
  <1>1. /\ stream # NoStream /\ 1 \in DOMAIN stream /\ stream[1] = event /\ event # Opened
        /\ DOMAIN stream = 1..Len(stream) /\ Len(stream) \in Nat
        /\ DOMAIN stream' = 1..(Len(stream) - 1)
        /\ \A i \in DOMAIN stream' : i + 1 \in DOMAIN stream /\ stream'[i] = stream[i + 1]
    BY ReceivedIs DEF BasicInv, Received
  <1>2. RowOf(event) \in Told /\ RowOf(event).id = p /\ RowOf(event).at = event.at
    BY HeadPublished, ToldKinds DEF BasicInv, Announced, RowOf
  <1>3. SUFFICES ASSUME ~ToCome(p)' PROVE Excused(p) \/ event.at = stock[p].at
    BY DEF Known
  <1>4. ASSUME NEW j \in DOMAIN stream, IsEvent(j), j > 1, stream[j].id = p PROVE stream[j].kind = "created"
    <2>1. j - 1 \in DOMAIN stream' /\ stream'[j - 1] = stream[j]
      BY <1>1, <1>4
    <2>4. stream'[j - 1] # Opened /\ stream'[j - 1].id = p
      BY <1>4, <2>1 DEF IsEvent
    <2>2. stream[j].kind # "stock"
      <3>1. ~(stream'[j - 1].kind = "stock")
        BY <1>3, <2>1, <2>4 DEF ToCome, IsEvent
      <3> QED
        BY <2>1, <3>1
    <2>3. stream[j] \in Events
      <3>1. stream \in Seq(Events \cup {Opened})
        BY <1>1 DEF BasicInv, TypeOK
      <3> QED
        BY <1>1, <1>4, <3>1 DEF IsEvent
    <2> QED
      BY <2>2, <2>3, EventTyped
  <1>5. CASE \E j \in DOMAIN stream : IsEvent(j) /\ j > 1 /\ stream[j].id = p
    <2>1. PICK j \in DOMAIN stream : IsEvent(j) /\ j > 1 /\ stream[j].id = p
      BY <1>5
    <2>2. \A l \in DOMAIN stream : IsEvent(l) /\ l >= j /\ stream[l].id = p => stream[l].kind = "created"
      <3>1. \A l \in DOMAIN stream : l >= j => l > 1
        BY <1>1, <2>1
      <3> QED
        BY <1>4, <3>1
    <2>3. Known(RowOf(event).id, RowOf(event).at)
      BY <1>1, <1>2, <2>1, <2>2, OnlyCreationComes
    <2> QED
      BY <1>2, <2>3 DEF Known
  <1>6. CASE \A j \in DOMAIN stream : IsEvent(j) /\ j > 1 => stream[j].id # p
    <2>1. IsEvent(1)
      BY <1>1 DEF IsEvent
    <2>2. PICK l \in DOMAIN stream :
             /\ l >= 1 /\ IsEvent(l) /\ stream[l].id = p
             /\ Excused(p) \/ stream[l].at = stock[p].at
      BY <1>1, <2>1, LastComes DEF BasicInv
    <2>3. l = 1
      BY <1>1, <1>6, <2>2
    <2> QED
      BY <1>1, <2>2, <2>3
  <1> QED
    BY <1>5, <1>6

LEMMA CommitIs ==
    ASSUME TypeOK, NEW p \in Products, ChangeStock(p) \/ CreateProduct(p)
    PROVE  \E event \in Events :
              /\ event.at = commits + 1 /\ Commits(event)
              /\ event.kind \in {"stock", "created"}
              /\ event.kind = "created" <=> event.id \notin Catalogue
  <1>1. CASE ChangeStock(p)
    <2>1. PICK event \in Events :
             event.at = commits + 1 /\ Commits(event) /\ event.kind = "stock" /\ event.id \in Catalogue
      BY <1>1, ChangeStockIs
    <2>2. event.kind = "created" <=> event.id \notin Catalogue
      BY <2>1
    <2> QED
      BY <2>1, <2>2
  <1>2. CASE CreateProduct(p)
    <2>1. PICK event \in Events :
             event.at = commits + 1 /\ Commits(event) /\ event.kind = "created" /\ event.id \notin Catalogue
      BY <1>2, CreateProductIs
    <2>2. event.kind = "created" <=> event.id \notin Catalogue
      BY <2>1
    <2> QED
      BY <2>1, <2>2
  <1> QED
    BY <1>1, <1>2

LEMMA KnownCommit ==
    ASSUME TypeOK, ToldInv, NEW event \in Events, event.at = commits + 1, Commits(event),
           event.kind \in {"stock", "created"}, event.kind = "created" <=> event.id \notin Catalogue,
           NEW p \in Catalogue
    PROVE  /\ \A at : Known(p, at) => Known(p, at)'
           /\ \A rows : Excused(p) \/ IsRight(rows, p) => (Excused(p) \/ IsRight(rows, p))'
  <1>1. p \in Products
    BY DEF Catalogue
  <1>2. CASE p = event.id
    <2>1. event.kind = "stock"
      BY <1>2
    <2>2. Excused(p)'
      BY <1>2, <2>1, ExcusedCommit
    <2> QED
      BY <2>2 DEF Known
  <1>3. CASE p # event.id
    <2>1. stock'[p] = stock[p]
      BY <1>1, <1>3, CommitTold
    <2>2. Excused(p) => Excused(p)'
      BY <1>1, <1>3, ExcusedCommit
    <2>3. UNCHANGED kind
      BY DEF Commits
    <2>4. \A rows : IsRight(rows, p)' = IsRight(rows, p)
      BY <2>1, <2>3 DEF IsRight, LowRow
    <2> QED
      BY <2>1, <2>2, <2>4 DEF Known
  <1> QED
    BY <1>2, <1>3

LEMMA KnownPublish ==
    ASSUME TypeOK, ToldInv, NEW event \in pending, Publish(event),
           NEW p, p # event.id \/ event.kind = "created"
    PROVE  /\ \A at : Known(p, at) => Known(p, at)'
           /\ \A rows : Excused(p) \/ IsRight(rows, p) => (Excused(p) \/ IsRight(rows, p))'
  <1>1. UNCHANGED <<kind, stock>>
    BY DEF Publish
  <1>2. Excused(p) => Excused(p)'
    BY ExcusedPublish
  <1>3. \A rows : IsRight(rows, p)' = IsRight(rows, p)
    BY <1>1 DEF IsRight, LowRow
  <1> QED
    BY <1>1, <1>2, <1>3 DEF Known

LEMMA KnownLose ==
    ASSUME NEW event \in pending, LoseAcknowledgement(event), NEW p
    PROVE  /\ \A at : Known(p, at) => Known(p, at)'
           /\ \A rows : Excused(p) \/ IsRight(rows, p) => (Excused(p) \/ IsRight(rows, p))'
  <1>1. UNCHANGED <<kind, stock>>
    BY DEF LoseAcknowledgement
  <1>2. Excused(p) => Excused(p)'
    BY ExcusedLose
  <1>3. \A rows : IsRight(rows, p)' = IsRight(rows, p)
    BY <1>1 DEF IsRight, LowRow
  <1> QED
    BY <1>1, <1>2, <1>3 DEF Known

LEMMA KnownSame ==
    ASSUME UNCHANGED <<kind, server>>
    PROVE  /\ \A p, at : Known(p, at)' = Known(p, at)
           /\ \A p, rows : IsRight(rows, p)' = IsRight(rows, p)
           /\ \A p : Excused(p)' = Excused(p)
  <1>1. \A p : Excused(p)' = Excused(p)
    BY ExcusedSame
  <1>2. UNCHANGED <<kind, stock>>
    BY DEF server
  <1>3. \A p, rows : IsRight(rows, p)' = IsRight(rows, p)
    BY <1>2 DEF IsRight, LowRow
  <1> QED
    BY <1>1, <1>2, <1>3 DEF Known

\* What is published is of the last commit, or comes after it, or something of that
\* commit is to follow or is lost.
LEMMA PublishedIsKnown ==
    ASSUME BasicInv, AnnouncedInv, NEW event \in pending, Publish(event)
    PROVE  Known(event.id, event.at)'
  <1> DEFINE p == event.id
             n == Len(published)
  <1> USE DEF BasicInv
  <1>1. pending' = pending \ {event} /\ UNCHANGED <<stock, lost>>
    BY DEF Publish
  <1>2. event \in Announced /\ event.at \in Int
    BY EventTyped, PublishIs DEF Announced
  <1>3. event.at <= stock[p].at /\ p \in Catalogue
    <2>1. RowOf(event) \in Told /\ RowOf(event).id = p /\ RowOf(event).at = event.at
      BY <1>2, ToldKinds DEF RowOf
    <2> QED
      BY <2>1 DEF ToldInv
  <1>4. stock[p].at \in Int
    BY <1>3 DEF TypeOK, Catalogue
  <1>5. CASE stock[p].at \in lost
    BY <1>1, <1>5 DEF Known, Excused, Unknowable
  <1>6. ASSUME NEW g \in Announced, g.id = p, g.at = stock[p].at PROVE Known(p, event.at)'
    <2>1. CASE g = event
      BY <1>1, <1>6, <2>1 DEF Known
    <2>2. CASE g \in pending /\ g # event /\ g.kind = "stock"
      <3>1. g \in pending'
        BY <1>1, <2>2
      <3> QED
        BY <1>1, <1>6, <2>2, <3>1 DEF Known, Excused
    <2>3. CASE g.kind = "created"
      <3>1. g.at <= event.at
        <4>1. RowOf(event) \in Told /\ RowOf(event).id = p /\ RowOf(event).at = event.at
          BY <1>2, ToldKinds DEF RowOf
        <4> QED
          BY <1>6, <2>3, <4>1 DEF ToldInv
      <3>2. event.at = stock[p].at
        BY <1>2, <1>3, <1>4, <1>6, <3>1
      <3> QED
        BY <1>1, <3>2 DEF Known
    <2>4. CASE g \in Published
      <3>1. PICK i \in DOMAIN published : published[i] = g
        BY <2>4 DEF Published
      <3>2. /\ DOMAIN published = 1..n /\ n \in Nat /\ DOMAIN published' = 1..(n + 1)
            /\ published'[n + 1] = event /\ \A k \in DOMAIN published : published'[k] = published[k]
        BY PublishIs
      <3> HIDE DEF n
      <3>3. CASE event.at = stock[p].at
        BY <1>1, <3>3 DEF Known
      <3>4. CASE event.at # stock[p].at
        <4>1. g.at > event.at
          BY <1>2, <1>3, <1>4, <1>6, <3>4
        <4>2. i \in DOMAIN published' /\ n + 1 \in DOMAIN published' /\ published'[i] = g
              /\ \A k \in DOMAIN published' : ~(k > n + 1)
          BY <3>1, <3>2
        <4>3. Overtaken(p)'
          BY <1>6, <3>2, <4>1, <4>2 DEF Overtaken
        <4> QED
          BY <4>3 DEF Known, Excused, Unknowable
      <3> QED
        BY <3>3, <3>4
    <2>5. g \in pending \/ g \in Published
      BY DEF Announced
    <2>6. g \in pending => g.kind \in {"stock", "created"}
      BY EventTyped DEF TypeOK
    <2> QED
      BY <2>1, <2>2, <2>3, <2>4, <2>5, <2>6
  <1> QED
    BY <1>5, <1>6 DEF AnnouncedInv

LEMMA AnnouncedStep ==
    ASSUME BasicInv, AnnouncedInv, Next
    PROVE  AnnouncedInv'
  <1> USE DEF BasicInv
  <1>1. ASSUME NEW p \in Products, ChangeStock(p) \/ CreateProduct(p) PROVE AnnouncedInv'
    <2>1. PICK event \in Events :
             /\ event.at = commits + 1 /\ Commits(event)
             /\ event.kind = "created" <=> event.id \notin Catalogue
      BY <1>1, CommitIs
    <2>2. /\ stock'[event.id] = [quantity |-> event.quantity, at |-> event.at]
          /\ (\A q \in Products : q # event.id => stock'[q] = stock[q])
          /\ Announced' = Announced \cup {event}
      BY <2>1, CommitTold
    <2>3. pending' = pending \cup {event} /\ UNCHANGED lost
      BY <2>1 DEF Commits
    <2>4. SUFFICES ASSUME NEW e \in pending'
                   PROVE  \/ stock'[e.id].at \in lost
                          \/ \E g \in Announced' : g.id = e.id /\ g.at = stock'[e.id].at
      BY <2>3 DEF AnnouncedInv
    <2>5. CASE e.id = event.id
      BY <2>2, <2>5
    <2>6. CASE e.id # event.id
      <3>1. e \in pending /\ e.id \in Products
        BY <2>3, <2>6, EventTyped DEF TypeOK
      <3> QED
        BY <2>2, <2>6, <3>1 DEF AnnouncedInv
    <2> QED
      BY <2>5, <2>6
  <1>2. ASSUME NEW event \in pending, Publish(event) PROVE AnnouncedInv'
    <2>1. Announced' = Announced /\ pending' \subseteq pending /\ UNCHANGED <<stock, lost>>
      BY <1>2, PublishIs DEF Publish
    <2> QED
      BY <2>1 DEF AnnouncedInv
  <1>3. ASSUME NEW event \in pending, LoseAcknowledgement(event) PROVE AnnouncedInv'
    <2>1. /\ pending' = pending \ {event} /\ lost' = lost \cup {event.at}
          /\ UNCHANGED <<stock, published>>
      BY <1>3 DEF LoseAcknowledgement
    <2>2. \A g \in Announced : g = event \/ g \in Announced'
      BY <2>1 DEF Announced, Published
    <2> QED
      BY <2>1, <2>2 DEF AnnouncedInv
  <1>4. CASE Restart
    BY <1>4 DEF Restart, AnnouncedInv
  <1>5. ASSUME UNCHANGED server PROVE AnnouncedInv'
    BY <1>5 DEF server, AnnouncedInv, Announced, Published
  <1> QED
    BY <1>1, <1>2, <1>3, <1>4, <1>5
       DEF Next, Connect, Break, Refuse, Retry, ReceiveNext, OnOpen, OnUpdate, OnProductCreated,
           Answered, ReadProducts, ReadLowStock, Resync, FailResync, Settled

\* What the page is told is told of products that exist.
LEMMA ToldOf ==
    ASSUME BasicInv
    PROVE  /\ \A e \in Announced : e.id \in Catalogue
           /\ \A i \in DOMAIN stream : stream # NoStream /\ IsEvent(i) =>
                 stream[i] \in Announced /\ stream[i].id \in Catalogue
           /\ \A i \in DOMAIN buffer : buffer[i] \in Announced /\ buffer[i].id \in Catalogue
           /\ \A i \in DOMAIN page.table : page.table[i].id \in Catalogue
           /\ \A f \in Fetches : HasRead(f) =>
                 \A i \in DOMAIN fetch[f].table : fetch[f].table[i].id \in Catalogue
  <1> USE DEF BasicInv
  <1>1. \A e \in Announced : RowOf(e).id = e.id
    BY DEF RowOf
  <1>2. \A row \in Told : row.id \in Catalogue
    BY DEF ToldInv
  <1>3. \A e \in Announced : e.id \in Catalogue
    BY <1>1, <1>2, ToldKinds
  <1>4. \A i \in DOMAIN stream : stream # NoStream /\ IsEvent(i) => stream[i] \in Announced
    BY DEF StreamInv, IsEvent, Announced
  <1>5. \A i \in DOMAIN buffer : buffer[i] \in Announced
    BY DEF StreamInv, Announced
  <1> QED
    BY <1>2, <1>3, <1>4, <1>5, ToldKinds

LEMMA LastInStreamStep ==
    ASSUME BasicInv, AnnouncedInv, LastInv, Next
    PROVE  LastInStream'
  <1> USE DEF BasicInv
  <1>1. ASSUME NEW p \in Products, ChangeStock(p) \/ CreateProduct(p) PROVE LastInStream'
    <2>1. PICK event \in Events :
             /\ event.at = commits + 1 /\ Commits(event) /\ event.kind \in {"stock", "created"}
             /\ event.kind = "created" <=> event.id \notin Catalogue
      BY <1>1, CommitIs
    <2>2. \A q \in Catalogue : \A at : Known(q, at) => Known(q, at)'
      BY <2>1, KnownCommit
    <2>3. UNCHANGED stream
      BY <2>1 DEF Commits
    <2>4. \A i \in DOMAIN stream : stream # NoStream /\ IsEvent(i) => stream[i].id \in Catalogue
      BY ToldOf
    <2> QED
      BY <2>2, <2>3, <2>4 DEF LastInv, LastInStream, IsEvent
  <1>2. ASSUME NEW event \in pending, Publish(event) PROVE LastInStream'
    <2>1. CASE stream = NoStream
      BY <1>2, <2>1 DEF Publish, LastInStream
    <2>2. CASE stream # NoStream
      <3> DEFINE n == Len(stream)
      <3>1. /\ n \in Nat /\ DOMAIN stream = 1..n /\ n + 1 \in DOMAIN stream' /\ stream'[n + 1] = event
            /\ \A i \in DOMAIN stream : i \in DOMAIN stream' /\ stream'[i] = stream[i]
            /\ \A i \in DOMAIN stream' : i \in DOMAIN stream \/ i = n + 1
        BY <1>2, <2>2, PublishStream
      <3> HIDE DEF n
      <3>2. SUFFICES ASSUME NEW i \in DOMAIN stream', stream'[i] # Opened,
                            \A j \in DOMAIN stream' : j > i => stream'[j].id # stream'[i].id,
                            NEW e, e = stream'[i]
                     PROVE  Known(e.id, e.at)'
        BY DEF LastInStream, IsEvent, Known, Excused, Unknowable, Overtaken
      <3>3. CASE i = n + 1
        BY <1>2, <3>1, <3>2, <3>3, PublishedIsKnown
      <3>4. CASE i # n + 1
        <4>1. i \in DOMAIN stream /\ e = stream[i] /\ IsEvent(i) /\ event.id # e.id
          BY <3>1, <3>2, <3>4 DEF IsEvent
        <4>2. \A j \in DOMAIN stream : j > i => stream[j].id # stream[i].id
          BY <3>1, <3>2, <4>1
        <4>3. Known(e.id, e.at)
          BY <2>2, <4>1, <4>2 DEF LastInv, LastInStream
        <4> QED
          BY <1>2, <4>1, <4>3, KnownPublish
      <3> QED
        BY <3>3, <3>4
    <2> QED
      BY <2>1, <2>2
  <1>3. ASSUME NEW event \in pending, LoseAcknowledgement(event) PROVE LastInStream'
    <2>1. \A q, at : Known(q, at) => Known(q, at)'
      BY <1>3, KnownLose
    <2>2. UNCHANGED stream
      BY <1>3 DEF LoseAcknowledgement
    <2> QED
      BY <2>1, <2>2 DEF LastInv, LastInStream, IsEvent
  <1>4. ASSUME stream' = NoStream PROVE LastInStream'
    BY <1>4 DEF LastInStream
  <1>5. CASE Connect
    <2>1. DOMAIN stream' = {1} /\ stream'[1] = Opened
      BY <1>5 DEF Connect
    <2> QED
      BY <2>1 DEF LastInStream, IsEvent
  <1>6. ASSUME UNCHANGED <<kind, server, stream>> PROVE LastInStream'
    <2>1. \A q, at : Known(q, at)' = Known(q, at)
      BY <1>6, KnownSame
    <2> QED
      BY <1>6, <2>1 DEF LastInv, LastInStream, IsEvent
  <1>7. CASE ReceiveNext
    <2>1. PICK k : Received(k)
      BY <1>7 DEF ReceiveNext, OnOpen, OnUpdate, OnProductCreated
    <2>2. UNCHANGED <<kind, server>>
      BY <1>7 DEF ReceiveNext, OnOpen, OnUpdate, OnProductCreated
    <2>3. \A q, at : Known(q, at)' = Known(q, at)
      BY <2>2, KnownSame
    <2>4. /\ stream # NoStream /\ DOMAIN stream = 1..Len(stream) /\ Len(stream) \in Nat
          /\ DOMAIN stream' = 1..(Len(stream) - 1)
          /\ \A i \in DOMAIN stream' : i + 1 \in DOMAIN stream /\ stream'[i] = stream[i + 1]
      BY <2>1, ReceivedIs DEF Received
    <2>5. SUFFICES ASSUME NEW i \in DOMAIN stream', stream'[i] # Opened,
                          \A j \in DOMAIN stream' : j > i => stream'[j].id # stream'[i].id
                   PROVE  Known(stream'[i].id, stream'[i].at)
      BY <2>3 DEF LastInStream, IsEvent
    <2>6. i + 1 \in DOMAIN stream /\ IsEvent(i + 1) /\ stream[i + 1] = stream'[i]
      BY <2>4, <2>5 DEF IsEvent
    <2>7. ASSUME NEW j \in DOMAIN stream, j > i + 1 PROVE stream[j].id # stream[i + 1].id
      <3>1. j - 1 \in DOMAIN stream' /\ j - 1 > i /\ stream'[j - 1] = stream[j]
        <4>1. j - 1 \in DOMAIN stream' /\ j - 1 > i
          BY <2>4, <2>7
        <4>2. stream'[j - 1] = stream[(j - 1) + 1] /\ (j - 1) + 1 = j
          BY <2>4, <4>1
        <4> QED
          BY <4>1, <4>2
      <3> QED
        BY <2>5, <2>6, <3>1
    <2> QED
      BY <2>4, <2>6, <2>7 DEF LastInv, LastInStream
  <1> QED
    BY <1>1, <1>2, <1>3, <1>4, <1>5, <1>6, <1>7
       DEF Next, Restart, Break, Refuse, Retry, Answered, ReadProducts, ReadLowStock, Resync,
           FailResync, Settled

LEMMA LastInBufferStep ==
    ASSUME BasicInv, AnnouncedInv, LastInv, Next
    PROVE  LastInBuffer'
  <1> USE DEF BasicInv
  <1>1. ASSUME NEW p \in Products, ChangeStock(p) \/ CreateProduct(p) PROVE LastInBuffer'
    <2>1. PICK event \in Events :
             /\ event.at = commits + 1 /\ Commits(event) /\ event.kind \in {"stock", "created"}
             /\ event.kind = "created" <=> event.id \notin Catalogue
      BY <1>1, CommitIs
    <2>2. \A q \in Catalogue : \A at : Known(q, at) => Known(q, at)'
      BY <2>1, KnownCommit
    <2>3. UNCHANGED <<conn, stream, buffer>>
      BY <2>1 DEF Commits, client
    <2>4. \A i \in DOMAIN buffer : buffer[i].id \in Catalogue
      BY ToldOf
    <2> QED
      BY <2>2, <2>3, <2>4 DEF LastInv, LastInBuffer
  <1>2. ASSUME NEW event \in pending, Publish(event) PROVE LastInBuffer'
    <2>1. UNCHANGED <<conn, buffer>>
      BY <1>2 DEF Publish, client
    <2>2. SUFFICES ASSUME conn = "live", NEW i \in DOMAIN buffer,
                          \A j \in DOMAIN buffer : j > i => buffer[j].id # buffer[i].id,
                          \A j \in DOMAIN stream' : stream'[j].id # buffer[i].id
                   PROVE  Known(buffer[i].id, buffer[i].at)'
      BY <2>1 DEF LastInBuffer
    <2>3. /\ Len(stream) + 1 \in DOMAIN stream' /\ stream'[Len(stream) + 1] = event
          /\ \A j \in DOMAIN stream : j \in DOMAIN stream' /\ stream'[j] = stream[j]
      BY <1>2, <2>2, PublishStream DEF StreamInv
    <2>4. event.id # buffer[i].id /\ \A j \in DOMAIN stream : stream[j].id # buffer[i].id
      BY <2>2, <2>3
    <2>5. PICK e : e = buffer[i]
      OBVIOUS
    <2>6. Known(e.id, e.at)
      BY <2>2, <2>4, <2>5 DEF LastInv, LastInBuffer
    <2>7. Known(e.id, e.at)'
      BY <1>2, <2>4, <2>5, <2>6, KnownPublish
    <2> QED
      BY <2>1, <2>5, <2>7
  <1>3. ASSUME NEW event \in pending, LoseAcknowledgement(event) PROVE LastInBuffer'
    <2>1. \A q, at : Known(q, at) => Known(q, at)'
      BY <1>3, KnownLose
    <2>2. UNCHANGED <<conn, stream, buffer>>
      BY <1>3 DEF LoseAcknowledgement, client
    <2> QED
      BY <2>1, <2>2 DEF LastInv, LastInBuffer
  <1>4. ASSUME buffer' = <<>> \/ conn' # "live" PROVE LastInBuffer'
    BY <1>4 DEF LastInBuffer
  <1>5. ASSUME UNCHANGED <<kind, server, conn, stream, buffer>> PROVE LastInBuffer'
    <2>1. \A q, at : Known(q, at)' = Known(q, at)
      BY <1>5, KnownSame
    <2> QED
      BY <1>5, <2>1 DEF LastInv, LastInBuffer
  <1>6. CASE OnUpdate \/ OnProductCreated
    <2>1. PICK k \in {"stock", "created"} : Received(k)
      BY <1>6 DEF OnUpdate, OnProductCreated
    <2>2. UNCHANGED <<kind, server, conn>> /\ conn = "live"
      BY <1>6, <2>1, HeadPublished DEF OnUpdate, OnProductCreated
    <2>3. \A q, at : Known(q, at)' = Known(q, at)
      BY <2>2, KnownSame
    <2>4. /\ stream # NoStream /\ DOMAIN stream = 1..Len(stream) /\ Len(stream) \in Nat
          /\ DOMAIN stream' = 1..(Len(stream) - 1)
          /\ \A i \in DOMAIN stream' : i + 1 \in DOMAIN stream /\ stream'[i] = stream[i + 1]
          /\ Head(stream) = stream[1] /\ 1 \in DOMAIN stream /\ Head(stream) # Opened
      BY <2>1, ReceivedIs DEF Received
    <2> DEFINE event == Head(stream)
    <2>5. ASSUME NEW p, \A j \in DOMAIN stream' : stream'[j].id # p PROVE ~ToCome(p)'
      BY <2>5 DEF ToCome, IsEvent
    <2>6. \A j \in DOMAIN stream : j = 1 \/ (j - 1 \in DOMAIN stream' /\ stream'[j - 1] = stream[j])
      <3>1. \A j \in DOMAIN stream : j = 1 \/ (j - 1 \in DOMAIN stream' /\ (j - 1) + 1 = j)
        BY <2>4
      <3> QED
        BY <2>4, <3>1
    <2>7. ASSUME NEW p, p = event.id, \A j \in DOMAIN stream' : stream'[j].id # p
          PROVE  Known(p, event.at)
      BY <2>1, <2>5, <2>7, HeadIsRight
    <2>8. ASSUME NEW i \in DOMAIN buffer,
                 \A j \in DOMAIN buffer : j > i => buffer[j].id # buffer[i].id,
                 \A j \in DOMAIN stream' : stream'[j].id # buffer[i].id,
                 event.id # buffer[i].id
          PROVE  Known(buffer[i].id, buffer[i].at)
      <3>1. \A j \in DOMAIN stream : stream[j].id # buffer[i].id
        BY <2>4, <2>6, <2>8
      <3> QED
        BY <2>2, <2>8, <3>1 DEF LastInv, LastInBuffer
    <2>9. CASE buffer' = buffer
      <3>1. SUFFICES ASSUME NEW i \in DOMAIN buffer,
                            \A j \in DOMAIN buffer : j > i => buffer[j].id # buffer[i].id,
                            \A j \in DOMAIN stream' : stream'[j].id # buffer[i].id
                     PROVE  Known(buffer[i].id, buffer[i].at)
        BY <2>3, <2>9 DEF LastInBuffer
      <3>2. CASE event.id # buffer[i].id
        BY <2>8, <3>1, <3>2
      <3>3. CASE event.id = buffer[i].id
        <4>1. event.kind = "created"
          <5>1. i \in DOMAIN buffer => ~OnUpdate
            <6>1. buffer # <<>>
              BY <3>1
            <6>2. kind # "sales" /\ activeResync # NoFetch
              BY <6>1 DEF StreamInv
            <6>3. OnUpdate => buffer' = Append(buffer, event)
              BY <6>2 DEF OnUpdate
            <6>4. Append(buffer, event) # buffer
              <7>1. buffer \in Seq(StockUpdates)
                BY DEF TypeOK
              <7>2. Len(Append(buffer, event)) = Len(buffer) + 1 /\ Len(buffer) \in Nat
                BY <7>1
              <7> HIDE DEF event
              <7> QED
                BY <7>2
            <6> QED
              BY <2>9, <6>3, <6>4
          <5> QED
            BY <1>6, <5>1 DEF OnProductCreated, Received
        <4>2. PICK e : e = buffer[i]
          OBVIOUS
        <4>3. e \in Announced /\ event \in Announced
          BY <2>1, <4>2, ToldOf, HeadPublished DEF Announced
        <4>4. RowOf(e) \in Told /\ RowOf(e).id = e.id /\ RowOf(e).at = e.at
          BY <4>3, ToldKinds DEF RowOf
        <4>5. event.at <= e.at /\ e.at <= stock[e.id].at /\ e.id \in Catalogue
          BY <3>3, <4>1, <4>2, <4>3, <4>4 DEF ToldInv
        <4>6. e.at \in Int /\ stock[e.id].at \in Int
          BY <4>4, <4>5, RowTyped DEF TypeOK, Catalogue
        <4>7. Known(e.id, event.at)
          BY <2>7, <3>1, <3>3, <4>2
        <4>8. Known(e.id, e.at)
          BY <4>5, <4>6, <4>7 DEF Known
        <4> QED
          BY <4>2, <4>8
      <3> QED
        BY <3>2, <3>3
    <2>10. CASE buffer' # buffer
      <3>1. buffer' = Append(buffer, event) /\ buffer \in Seq(StockUpdates)
        BY <1>6, <2>10 DEF OnUpdate, OnProductCreated, TypeOK
      <3> DEFINE n == Len(buffer)
      <3>2. /\ n \in Nat /\ DOMAIN buffer' = 1..(n + 1) /\ DOMAIN buffer = 1..n
            /\ n + 1 \in DOMAIN buffer' /\ buffer'[n + 1] = event
            /\ \A j \in DOMAIN buffer : j \in DOMAIN buffer' /\ buffer'[j] = buffer[j]
            /\ \A j \in DOMAIN buffer' : j \in DOMAIN buffer \/ j = n + 1
        BY <3>1
      <3> HIDE DEF n, event
      <3>3. SUFFICES ASSUME NEW i \in DOMAIN buffer',
                            \A j \in DOMAIN buffer' : j > i => buffer'[j].id # buffer'[i].id,
                            \A j \in DOMAIN stream' : stream'[j].id # buffer'[i].id
                     PROVE  Known(buffer'[i].id, buffer'[i].at)
        BY <2>3 DEF LastInBuffer
      <3>4. CASE i = n + 1
        BY <2>7, <3>2, <3>3, <3>4
      <3>5. CASE i # n + 1
        <4>1. i \in DOMAIN buffer /\ buffer'[i] = buffer[i] /\ n + 1 > i
          BY <3>2, <3>5
        <4>2. event.id # buffer[i].id
          BY <3>2, <3>3, <4>1
        <4>3. \A j \in DOMAIN buffer : j > i => buffer[j].id # buffer[i].id
          BY <3>2, <3>3, <4>1
        <4> QED
          BY <2>8, <3>3, <4>1, <4>2, <4>3
      <3> QED
        BY <3>4, <3>5
    <2> QED
      BY <2>9, <2>10
  <1>7. ASSUME NEW f \in Fetches, Resync(f) \/ FailResync(f) PROVE LastInBuffer'
    <2>1. UNCHANGED <<kind, server, conn, stream>> /\ (buffer' = <<>> \/ buffer' = buffer)
      BY <1>7 DEF Resync, FailResync, Settled
    <2> QED
      BY <1>4, <1>5, <2>1
  <1>8. CASE OnOpen \/ Restart
    BY <1>4, <1>8 DEF OnOpen, Restart
  <1>9. CASE Connect \/ Break \/ Refuse \/ Retry
    BY <1>4, <1>9 DEF Connect, Break, Refuse, Retry
  <1>10. ASSUME NEW f \in Fetches, ReadProducts(f) \/ ReadLowStock(f) PROVE LastInBuffer'
    BY <1>5, <1>10 DEF ReadProducts, ReadLowStock
  <1> QED
    BY <1>1, <1>2, <1>3, <1>6, <1>7, <1>8, <1>9, <1>10 DEF Next, ReceiveNext, Answered

\* What is fine stays so, whatever the API does,
LEMMA FineServer ==
    ASSUME BasicInv, stream # NoStream,
           \/ \E p \in Products : ChangeStock(p) \/ CreateProduct(p)
           \/ \E event \in pending : Publish(event) \/ LoseAcknowledgement(event),
           NEW p \in Catalogue
    PROVE  /\ \A at : Fine(p, at) => Fine(p, at)'
           /\ \A rows : PanelRow(rows, p) => PanelRow(rows, p)'
  <1> USE DEF BasicInv
  <1>1. ASSUME NEW q \in Products, ChangeStock(q) \/ CreateProduct(q)
        PROVE  /\ \A at : Fine(p, at) => Fine(p, at)'
               /\ \A rows : PanelRow(rows, p) => PanelRow(rows, p)'
    <2>1. PICK event \in Events :
             /\ event.at = commits + 1 /\ Commits(event) /\ event.kind \in {"stock", "created"}
             /\ event.kind = "created" <=> event.id \notin Catalogue
      BY <1>1, CommitIs
    <2>2. /\ \A at : Known(p, at) => Known(p, at)'
          /\ \A rows : Excused(p) \/ IsRight(rows, p) => (Excused(p) \/ IsRight(rows, p))'
      BY <2>1, KnownCommit
    <2>3. UNCHANGED stream
      BY <2>1 DEF Commits
    <2>4. ToCome(p)' = ToCome(p)
      BY <2>3 DEF ToCome, IsEvent
    <2> QED
      BY <2>2, <2>4 DEF Fine, PanelRow
  <1>2. ASSUME NEW event \in pending, Publish(event)
        PROVE  /\ \A at : Fine(p, at) => Fine(p, at)'
               /\ \A rows : PanelRow(rows, p) => PanelRow(rows, p)'
    <2>1. /\ Len(stream) + 1 \in DOMAIN stream' /\ stream'[Len(stream) + 1] = event
          /\ \A j \in DOMAIN stream : j \in DOMAIN stream' /\ stream'[j] = stream[j]
          /\ event # Opened /\ event \in Events
      BY <1>2, PublishStream, PublishIs
    <2>2. ToCome(p) => ToCome(p)'
      BY <2>1 DEF ToCome, IsEvent
    <2>3. CASE p # event.id \/ event.kind = "created"
      <3>1. /\ \A at : Known(p, at) => Known(p, at)'
            /\ \A rows : Excused(p) \/ IsRight(rows, p) => (Excused(p) \/ IsRight(rows, p))'
        BY <1>2, <2>3, KnownPublish
      <3> QED
        BY <2>2, <3>1 DEF Fine, PanelRow
    <2>4. CASE p = event.id /\ event.kind = "stock"
      <3>1. ToCome(p)'
        BY <2>1, <2>4 DEF ToCome, IsEvent
      <3> QED
        BY <3>1 DEF Fine, PanelRow
    <2> QED
      BY <2>1, <2>3, <2>4, EventTyped
  <1>3. ASSUME NEW event \in pending, LoseAcknowledgement(event)
        PROVE  /\ \A at : Fine(p, at) => Fine(p, at)'
               /\ \A rows : PanelRow(rows, p) => PanelRow(rows, p)'
    <2>1. /\ \A at : Known(p, at) => Known(p, at)'
          /\ \A rows : Excused(p) \/ IsRight(rows, p) => (Excused(p) \/ IsRight(rows, p))'
      BY <1>3, KnownLose
    <2>2. UNCHANGED stream
      BY <1>3 DEF LoseAcknowledgement
    <2>3. ToCome(p)' = ToCome(p)
      BY <2>2 DEF ToCome, IsEvent
    <2> QED
      BY <2>1, <2>3 DEF Fine, PanelRow
  <1> QED
    BY <1>1, <1>2, <1>3

LEMMA FineSame ==
    ASSUME UNCHANGED <<kind, server, stream>>
    PROVE  /\ \A p, at : Fine(p, at)' = Fine(p, at)
           /\ \A rows, p : PanelRow(rows, p)' = PanelRow(rows, p)
  <1>1. /\ \A p, at : Known(p, at)' = Known(p, at)
        /\ \A p, rows : IsRight(rows, p)' = IsRight(rows, p)
        /\ \A p : Excused(p)' = Excused(p)
    BY KnownSame
  <1>2. \A p : ToCome(p)' = ToCome(p)
    BY DEF ToCome, IsEvent
  <1> QED
    BY <1>1, <1>2 DEF Fine, PanelRow

\* and when the page takes an event, but for what that event is about.
LEMMA FineReceived ==
    ASSUME TypeOK, NEW k \in {"stock", "created"}, Received(k), UNCHANGED <<kind, server>>,
           NEW p, p # Head(stream).id \/ k = "created"
    PROVE  /\ \A at : Fine(p, at) => Fine(p, at)'
           /\ \A rows : PanelRow(rows, p) => PanelRow(rows, p)'
  <1>1. /\ \A at : Known(p, at)' = Known(p, at)
        /\ \A rows : IsRight(rows, p)' = IsRight(rows, p)
        /\ Excused(p)' = Excused(p)
    BY KnownSame
  <1>2. ToCome(p) => ToCome(p)'
    <2>1. SUFFICES ASSUME NEW i \in DOMAIN stream, stream[i] # Opened, stream[i].kind = "stock",
                          stream[i].id = p
                   PROVE  ToCome(p)'
      BY DEF ToCome, IsEvent
    <2>2. /\ DOMAIN stream = 1..Len(stream) /\ Len(stream) \in Nat
          /\ DOMAIN stream' = 1..(Len(stream) - 1)
          /\ \A j \in DOMAIN stream' : stream'[j] = stream[j + 1]
          /\ Head(stream) = stream[1] /\ stream[1].kind = k
      BY ReceivedIs
    <2>3. i # 1
      BY <2>1, <2>2
    <2>4. i - 1 \in DOMAIN stream' /\ (i - 1) + 1 = i
      BY <2>2, <2>3
    <2>5. stream'[i - 1] = stream[i]
      BY <2>2, <2>4
    <2> QED
      BY <2>1, <2>4, <2>5 DEF ToCome, IsEvent
  <1> QED
    BY <1>1, <1>2 DEF Fine, PanelRow

\* Nothing is wrong in the panel about a product that is new to it.
LEMMA NothingIsRight ==
    ASSUME ToldInv, NEW p \in Products \ Catalogue
    PROVE  p \in New /\ \A q \in New : IsRight(<<>>, q) /\ IsRight(<<>>, q)'
  BY DEF ToldInv, Products, IsRight

\* An event that is right makes the panel right.
LEMMA RightRow ==
    ASSUME BasicInv, NEW event \in Announced, event.at = stock[event.id].at
    PROVE  /\ event.quantity = stock[event.id].quantity
           /\ IsRight(LowRow(event.quantity), event.id)
           /\ \A rows \in Seq(Quantities) : event.id \in New /\ IsRight(rows, event.id) =>
                 IsRight(rows \o LowRow(event.quantity), event.id)
  <1> DEFINE p == event.id
             right == LowRow(stock[p].quantity)
  <1>1. event.quantity = stock[p].quantity
    <2>1. RowOf(event) \in Told /\ RowOf(event).id = p /\ RowOf(event).at = event.at
          /\ RowOf(event).quantity = event.quantity
      BY ToldKinds DEF RowOf
    <2> QED
      BY <2>1 DEF BasicInv, ToldInv
  <1>2. \A i \in DOMAIN right : <<right[i]>> = right
    BY DEF LowRow
  <1>3. right \in Seq(Quantities)
    <2>1. event \in Events
      BY DEF BasicInv, TypeOK, Announced, Published
    <2> QED
      BY <1>1, <2>1, EventTyped, LowRowTyped
  <1> HIDE DEF right
  <1>4. IsRight(right, p)
    BY <1>2 DEF IsRight, right
  <1>5. ASSUME NEW rows \in Seq(Quantities), p \in New, IsRight(rows, p)
        PROVE  IsRight(rows \o right, p)
    <2>1. \A i \in DOMAIN rows : <<rows[i]>> = right
      BY <1>5 DEF IsRight, right
    <2>2. \A i \in DOMAIN (rows \o right) :
             \/ i \in DOMAIN rows /\ (rows \o right)[i] = rows[i]
             \/ i - Len(rows) \in DOMAIN right /\ (rows \o right)[i] = right[i - Len(rows)]
      BY <1>3
    <2>3. \A i \in DOMAIN (rows \o right) : <<(rows \o right)[i]>> = right
      BY <1>2, <2>1, <2>2
    <2> QED
      BY <1>5, <2>3 DEF IsRight, right
  <1> QED
    BY <1>1, <1>4, <1>5 DEF right

LEMMA UnknownStep ==
    ASSUME BasicInv, UnknownInv, Next
    PROVE  UnknownInv'
  <1> USE DEF BasicInv
  <1>1. Catalogue \subseteq Catalogue'
    BY CatalogueGrows
  <1>2. ASSUME UNCHANGED <<page, fetch, lists>> PROVE UnknownInv'
    BY <1>1, <1>2 DEF UnknownInv
  <1>3. CASE Restart
    BY <1>1, <1>3 DEF Restart, UnknownInv
  <1>4. CASE OnOpen
    <2>1. UNCHANGED <<stock, page, lists>>
      BY <1>4 DEF OnOpen, server
    <2>2. \A p \in Products \ Catalogue : LowRead(stock)[p] = <<>>
      BY LowReadIs DEF TypeOK, Catalogue
    <2>3. \A f \in Fetches : f # activeResync' => fetch'[f] = fetch[f]
      BY <1>4, OpenFetches
    <2>4. fetch'[activeResync'].low = (IF kind = "dashboard" THEN Unread ELSE LowRead(stock))
      BY <1>4, OpenFetches
    <2> QED
      BY <1>1, <2>1, <2>2, <2>3, <2>4 DEF UnknownInv
  <1>5. CASE OnUpdate \/ OnProductCreated
    <2>1. Head(stream).id \in Catalogue /\ UNCHANGED <<fetch, lists>>
      BY <1>5, HeadPublished, ToldOf DEF OnUpdate, OnProductCreated, Announced, server
    <2>2. \A p \in Products \ Catalogue : page'.low[p] = page.low[p]
      BY <1>5, <2>1, UpdatedRows, AddedRows
    <2> QED
      BY <1>1, <2>1, <2>2 DEF UnknownInv
  <1>6. ASSUME NEW f \in Fetches, ReadProducts(f) \/ ReadLowStock(f) PROVE UnknownInv'
    <2>1. UNCHANGED <<page, lists>>
      BY <1>6, ReadIs DEF server
    <2>2. \A p \in Products \ Catalogue, list \in lists : list[p] = <<>>
      BY DEF UnknownInv
    <2>3. fetch[f] # NoFetch /\ (fetch'[f].low \in lists \/ fetch'[f].low = fetch[f].low)
          /\ \A g \in Fetches : g # f => fetch'[g] = fetch[g]
      BY <1>6, ReadIs
    <2> QED
      BY <1>1, <2>1, <2>2, <2>3 DEF UnknownInv
  <1>7. ASSUME NEW f \in Fetches, Resync(f) \/ FailResync(f) PROVE UnknownInv'
    <2>1. UNCHANGED lists /\ \A g \in Fetches : fetch'[g] # NoFetch => fetch'[g] = fetch[g]
      BY <1>7, SettledKeeps DEF Resync, FailResync, Settled, server
    <2>2. CASE UNCHANGED page
      BY <1>1, <2>1, <2>2 DEF UnknownInv
    <2>3. CASE page' # page
      <3>1. page' = Resynced(fetch[f], buffer) /\ fetch[f] # NoFetch /\ Complete(f)
        BY <1>7, <2>3 DEF Resync, FailResync
      <3>2. fetch[f] \in Pages /\ buffer \in Seq(StockUpdates)
        BY <3>1, PagesOf DEF TypeOK
      <3>3. Follows(fetch[f], buffer, Len(buffer), page')
        BY <3>1, <3>2, ResyncedFollows
      <3>4. \A i \in 1..Len(buffer) : buffer[i].id \in Catalogue
        <4>1. DOMAIN buffer = 1..Len(buffer)
          BY <3>2
        <4> QED
          BY <4>1, ToldOf
      <3>5. \A p \in Products \ Catalogue : page'.low[p] = fetch[f].low[p]
        BY <3>3, <3>4 DEF Follows
      <3> QED
        BY <1>1, <2>1, <3>1, <3>5 DEF UnknownInv, Complete
    <2> QED
      BY <2>2, <2>3
  <1>8. ASSUME NEW p \in Products, ChangeStock(p) \/ CreateProduct(p) PROVE UnknownInv'
    <2>1. UNCHANGED <<page, fetch>>
      BY <1>8 DEF ChangeStock, CreateProduct, Commits, client
    <2>2. PICK tables : tables = stock'
      OBVIOUS
    <2>3. lists' = lists \cup {LowRead(tables)}
      BY <1>8, <2>2 DEF ChangeStock, CreateProduct, Commits
    <2>4. TypeOK'
      BY StepTyped
    <2>5. tables \in [Products -> {Absent} \cup [quantity : Quantities, at : 0..MaxCommits]]
      BY <2>2, <2>4 DEF TypeOK
    <2>6. \A q \in Products \ Catalogue' : LowRead(tables)[q] = <<>>
      BY <2>2, <2>5, LowReadIs DEF Catalogue
    <2> QED
      BY <1>1, <2>1, <2>3, <2>6 DEF UnknownInv
  <1> QED
    BY <1>2, <1>3, <1>4, <1>5, <1>6, <1>7, <1>8
       DEF Next, Publish, LoseAcknowledgement, Connect, Break, Refuse, Retry, ReceiveNext, Answered,
           client, server

\* The last event of a product in the buffer is right, if none is to come.
LEMMA BufferIsRight ==
    ASSUME BasicInv, LastInv, conn = "live", NEW k \in 1..Len(buffer), IsLast(buffer, Len(buffer), k),
           NEW event, event = buffer[k]
    PROVE  Fine(event.id, event.at)
  <1> USE DEF BasicInv
  <1>1. DOMAIN buffer = 1..Len(buffer) /\ stream # NoStream
    BY DEF TypeOK, StreamInv
  <1>2. event \in Announced
    BY <1>1, ToldOf
  <1>3. CASE \A j \in DOMAIN stream : stream[j].id # event.id
    BY <1>1, <1>3 DEF LastInv, LastInBuffer, IsLast, Fine
  <1>4. CASE \E j \in DOMAIN stream : stream[j].id = event.id
    <2>1. PICK i \in DOMAIN stream : stream[i].id = event.id
      BY <1>4
    <2>2. \A j \in DOMAIN stream : IsEvent(j) /\ stream[j] \in Events
      <3>1. \A j \in DOMAIN stream : IsEvent(j) /\ stream[j] \in Published
        BY <1>1 DEF StreamInv, IsEvent
      <3> QED
        BY <3>1 DEF TypeOK, Published
    <2>3. RowOf(event) \in Told /\ RowOf(event).id = event.id /\ RowOf(event).at = event.at
      BY <1>2, ToldKinds DEF RowOf
    <2>4. CASE ToCome(event.id)
      BY <2>4 DEF Fine
    <2>5. CASE ~ToCome(event.id)
      <3>1. \A j \in DOMAIN stream : stream[j].id = event.id => stream[j].kind # "stock"
        BY <2>2, <2>5 DEF ToCome
      <3>2. \A j \in DOMAIN stream : stream[j].id = event.id => stream[j].kind = "created"
        BY <2>2, <3>1, EventTyped
      <3>3. Known(RowOf(event).id, RowOf(event).at)
        BY <1>1, <2>1, <2>2, <2>3, <3>2, OnlyCreationComes
      <3> QED
        BY <2>3, <3>3 DEF Fine
    <2> QED
      BY <2>4, <2>5
  <1> QED
    BY <1>3, <1>4

\* The answer to a reload, with what arrived meanwhile replayed over it, is right.
LEMMA ResyncedPage ==
    ASSUME BasicInv, RightInv, NEW f \in Fetches, Resync(f) \/ FailResync(f)
    PROVE  PageInv'
  <1> USE DEF BasicInv, RightInv
  <1>1. UNCHANGED <<kind, server, conn, stream, raced, misread>>
    BY DEF Resync, FailResync, Settled
  <1>2. /\ \A p, at : Fine(p, at)' = Fine(p, at)
        /\ \A rows, p : PanelRow(rows, p)' = PanelRow(rows, p)
    BY <1>1, FineSame
  <1>3. Catalogue' = Catalogue
    BY <1>1 DEF Catalogue, server
  <1>4. CASE UNCHANGED <<page, synced>>
    BY <1>1, <1>2, <1>3, <1>4 DEF PageInv, RowInv, Trusted
  <1>5. CASE ~UNCHANGED <<page, synced>>
    <2>1. /\ page' = Resynced(fetch[f], buffer) /\ fetch[f] # NoFetch /\ Complete(f)
          /\ kind = "sales" \/ activeResync = f
          /\ synced' = (synced \/ activeResync = f)
      BY <1>5 DEF Resync, FailResync, Shows
    <2>2. SUFFICES ASSUME conn = "live" PROVE PageInv'
      BY <1>1 DEF PageInv
    <2>3. fetch[f] \in Pages /\ buffer \in Seq(StockUpdates) /\ DOMAIN buffer = 1..Len(buffer)
          /\ fetch[f].table # Unread /\ fetch[f].low # Unread
      BY <2>1, PagesOf DEF TypeOK, Complete
    <2>4. Follows(fetch[f], buffer, Len(buffer), page')
      BY <2>1, <2>3, ResyncedFollows
    <2>5. ASSUME NEW i \in DOMAIN page'.table, Trusted(page'.table[i].id)
          PROVE  RowInv(page'.table[i])
      <3>1. i \in DOMAIN fetch[f].table
        BY <2>4 DEF Follows
      <3>2. CASE /\ page'.table[i] = fetch[f].table[i]
                 /\ \A k \in 1..Len(buffer) : buffer[k].id # fetch[f].table[i].id
        <4>1. ~Buffered(fetch[f].table[i].id)
          BY <2>3, <3>2 DEF Buffered
        <4>2. CASE activeResync = f
          <5>1. activeResync # NoFetch
            BY <4>2, DashboardAssumption
          <5> QED
            BY <2>1, <2>2, <2>3, <2>5, <3>1, <3>2, <4>1, <4>2, <5>1 DEF ResyncInv
        <4>3. CASE activeResync # f
          <5>1. kind = "sales" /\ raced = Products
            BY <2>1, <4>3 DEF SnapshotInv, TypeOK
          <5>2. page'.table[i].id \in Products
            <6>1. HasRead(f)
              BY <2>1 DEF HasRead, Complete
            <6> QED
              BY <3>1, <3>2, <6>1, ToldOf DEF Catalogue
          <5> QED
            BY <2>5, <5>1, <5>2 DEF Trusted
        <4> QED
          BY <4>2, <4>3
      <3>3. CASE \E k \in 1..Len(buffer) : /\ IsLast(buffer, Len(buffer), k)
                                           /\ buffer[k].id = fetch[f].table[i].id
                                           /\ page'.table[i] = RowOf(buffer[k])
        <4>1. PICK k \in 1..Len(buffer) : IsLast(buffer, Len(buffer), k) /\ page'.table[i] = RowOf(buffer[k])
          BY <3>3
        <4>2. PICK event : event = buffer[k]
          OBVIOUS
        <4>3. Fine(event.id, event.at)
          BY <2>2, <4>1, <4>2, BufferIsRight
        <4>4. page'.table[i].id = event.id /\ page'.table[i].at = event.at
          BY <4>1, <4>2 DEF RowOf
        <4> QED
          BY <4>3, <4>4 DEF RowInv
      <3> QED
        BY <2>4, <3>1, <3>2, <3>3 DEF Follows
    <2>6. ASSUME kind = "dashboard", NEW p \in Catalogue \ misread PROVE PanelRow(page'.low[p], p)
      <3>1. p \in Products /\ activeResync = f /\ activeResync # NoFetch
        BY <2>1, <2>6, DashboardAssumption DEF Catalogue
      <3>2. CASE page'.low[p] = fetch[f].low[p] /\ \A k \in 1..Len(buffer) : buffer[k].id # p
        <4>1. ~Buffered(p)
          BY <2>3, <3>2 DEF Buffered
        <4> QED
          BY <2>1, <2>2, <2>3, <2>6, <3>1, <3>2, <4>1 DEF ResyncInv
      <3>3. CASE \E k \in 1..Len(buffer) : /\ IsLast(buffer, Len(buffer), k)
                                           /\ buffer[k].id = p
                                           /\ page'.low[p] = LowRow(buffer[k].quantity)
        <4>1. PICK k \in 1..Len(buffer) : /\ IsLast(buffer, Len(buffer), k)
                                          /\ buffer[k].id = p
                                          /\ page'.low[p] = LowRow(buffer[k].quantity)
          BY <3>3
        <4>2. PICK event : event = buffer[k]
          OBVIOUS
        <4>3. Fine(event.id, event.at)
          BY <2>2, <4>1, <4>2, BufferIsRight
        <4>4. event \in Announced
          BY <2>3, <4>1, <4>2, ToldOf
        <4>5. CASE event.at = stock[p].at
          BY <4>1, <4>2, <4>4, <4>5, RightRow DEF PanelRow
        <4>6. CASE event.at # stock[p].at
          BY <4>1, <4>2, <4>3, <4>6 DEF Fine, Known, PanelRow
        <4> QED
          BY <4>5, <4>6
      <3> QED
        BY <2>4, <3>1, <3>2, <3>3 DEF Follows
    <2>7. ASSUME NEW i \in DOMAIN page'.table, Trusted(page.table[i].id)'
          PROVE  RowInv(page.table[i])'
      BY <1>1, <1>2, <2>5, <2>7 DEF Trusted, RowInv
    <2>8. ASSUME kind = "dashboard", NEW p \in Catalogue \ misread PROVE PanelRow(page.low[p], p)'
      BY <1>2, <2>6, <2>8
    <2> QED
      BY <1>1, <1>3, <2>7, <2>8 DEF PageInv
  <1> QED
    BY <1>4, <1>5

LEMMA PageStep ==
    ASSUME BasicInv, RightInv, Next
    PROVE  PageInv'
  <1> USE DEF BasicInv, RightInv
  <1>1. ASSUME conn' # "live" \/ synced' = FALSE PROVE PageInv'
    BY <1>1 DEF PageInv
  <1>2. ASSUME UNCHANGED <<kind, server, conn, stream, page, synced, raced>>, misread \subseteq misread'
        PROVE  PageInv'
    <2>1. /\ \A p, at : Fine(p, at)' = Fine(p, at)
          /\ \A rows, p : PanelRow(rows, p)' = PanelRow(rows, p)
      BY <1>2, FineSame
    <2>2. Catalogue' = Catalogue
      BY <1>2 DEF Catalogue, server
    <2> QED
      BY <1>2, <2>1, <2>2 DEF PageInv, RowInv, Trusted
  <1>3. ASSUME \/ \E p \in Products : ChangeStock(p) \/ CreateProduct(p)
               \/ \E event \in pending : Publish(event) \/ LoseAcknowledgement(event)
        PROVE  PageInv'
    <2>1. UNCHANGED <<kind, conn, page, synced, raced, misread>>
      BY <1>3 DEF ChangeStock, CreateProduct, Commits, Publish, LoseAcknowledgement, client
    <2>2. SUFFICES ASSUME conn = "live", synced PROVE PageInv'
      BY <2>1 DEF PageInv
    <2>3. stream # NoStream
      BY <2>2 DEF StreamInv
    <2>4. \A p \in Catalogue : /\ \A at : Fine(p, at) => Fine(p, at)'
                               /\ \A rows : PanelRow(rows, p) => PanelRow(rows, p)'
      BY <1>3, <2>3, FineServer
    <2>5. ASSUME NEW i \in DOMAIN page.table, Trusted(page.table[i].id) PROVE RowInv(page.table[i])'
      <3>1. page.table[i].id \in Catalogue
        BY ToldOf
      <3>2. PICK row : row = page.table[i]
        OBVIOUS
      <3>3. Fine(row.id, row.at)
        BY <2>2, <2>5, <3>2 DEF PageInv, RowInv
      <3>4. Fine(row.id, row.at)'
        BY <2>4, <3>1, <3>2, <3>3
      <3> QED
        BY <2>1, <3>2, <3>4 DEF RowInv
    <2>6. ASSUME kind = "dashboard", NEW p \in Catalogue' \ misread PROVE PanelRow(page.low[p], p)'
      <3>1. CASE p \in Catalogue
        <4>1. PICK rows : rows = page.low[p]
          OBVIOUS
        <4>2. PanelRow(rows, p)
          BY <2>2, <2>6, <3>1, <4>1 DEF PageInv
        <4>3. PanelRow(rows, p)'
          BY <2>4, <3>1, <4>2
        <4> QED
          BY <2>1, <4>1, <4>3
      <3>2. CASE p \notin Catalogue
        <4>1. p \in Products
          BY DEF Catalogue
        <4>2. page.low[p] = <<>>
          BY <3>2, <4>1 DEF UnknownInv
        <4>3. p \in New /\ IsRight(<<>>, p)'
          BY <3>2, <4>1, NothingIsRight
        <4>4. PICK rows : rows = <<>>
          OBVIOUS
        <4>5. PanelRow(rows, p)'
          BY <4>3, <4>4 DEF PanelRow
        <4> QED
          BY <2>1, <4>2, <4>4, <4>5
      <3> QED
        BY <3>1, <3>2
    <2> QED
      BY <2>1, <2>5, <2>6 DEF PageInv, Trusted
  <1>4. CASE OnUpdate
    <2>1. PICK event : event = Head(stream)
      OBVIOUS
    <2>2. PICK p : p = event.id
      OBVIOUS
    <2>3. /\ Received("stock") /\ UNCHANGED <<kind, server, conn, synced>>
          /\ raced' = IF Reloading THEN raced \cup {p} ELSE raced \ {p}
          /\ misread' = misread \ {p}
      BY <1>4, <2>1, <2>2 DEF OnUpdate
    <2>4. event \in Announced /\ p \in Catalogue
      BY <2>1, <2>2, <2>3, HeadPublished, ToldOf DEF Announced
    <2>5. ToCome(p)' \/ Known(p, event.at)
      BY <2>1, <2>2, <2>3, HeadIsRight
    <2>6. /\ \A q, at : Known(q, at)' = Known(q, at)
          /\ \A q, rows : IsRight(rows, q)' = IsRight(rows, q)
          /\ \A q : Excused(q)' = Excused(q)
      BY <2>3, KnownSame
    <2>7. \A q : q # p => /\ \A at : Fine(q, at) => Fine(q, at)'
                          /\ \A rows : PanelRow(rows, q) => PanelRow(rows, q)'
      BY <2>1, <2>2, <2>3, FineReceived
    <2>8. SUFFICES ASSUME conn = "live", synced PROVE PageInv'
      BY <2>3 DEF PageInv
    <2>9. /\ DOMAIN page'.table = DOMAIN page.table
          /\ \A i \in DOMAIN page.table :
                page'.table[i] = IF page.table[i].id = p THEN RowOf(event) ELSE page.table[i]
          /\ \A q \in Products :
                page'.low[q] = IF q = p THEN LowRow(event.quantity) ELSE page.low[q]
      BY <1>4, <2>1, <2>2, UpdatedRows
    <2>10. ASSUME NEW i \in DOMAIN page'.table, Trusted(page.table[i].id)'
           PROVE  RowInv(page.table[i])'
      <3>1. PICK row : row = page'.table[i]
        OBVIOUS
      <3>2. CASE page.table[i].id = p
        <4>1. row.id = p /\ row.at = event.at
          BY <2>2, <2>9, <2>10, <3>1, <3>2 DEF RowOf
        <4>2. Fine(p, event.at)'
          BY <2>5, <2>6 DEF Fine
        <4> QED
          BY <3>1, <4>1, <4>2 DEF RowInv
      <3>3. CASE page.table[i].id # p
        <4>1. row = page.table[i] /\ row.id # p
          BY <2>9, <2>10, <3>1, <3>3
        <4>2. Trusted(row.id)
          BY <2>3, <2>10, <3>1, <4>1 DEF Trusted
        <4>3. Fine(row.id, row.at)
          BY <2>8, <2>9, <2>10, <4>1, <4>2 DEF PageInv, RowInv
        <4>4. Fine(row.id, row.at)'
          BY <2>7, <4>1, <4>3
        <4> QED
          BY <3>1, <4>4 DEF RowInv
      <3> QED
        BY <3>2, <3>3
    <2>11. ASSUME kind = "dashboard", NEW q \in Catalogue \ misread' PROVE PanelRow(page.low[q], q)'
      <3>1. q \in Products
        BY DEF Catalogue
      <3>2. PICK rows : rows = page'.low[q]
        OBVIOUS
      <3>3. CASE q = p
        <4>1. CASE event.at = stock[p].at
          <5>1. IsRight(rows, p)
            BY <2>2, <2>4, <2>9, <3>1, <3>2, <3>3, <4>1, RightRow
          <5> QED
            BY <2>6, <3>2, <3>3, <5>1 DEF PanelRow
        <4>2. CASE event.at # stock[p].at
          <5>1. Excused(p)' \/ ToCome(p)'
            BY <2>5, <2>6, <4>2 DEF Known
          <5> QED
            BY <3>3, <5>1 DEF PanelRow
        <4> QED
          BY <4>1, <4>2
      <3>4. CASE q # p
        <4>1. rows = page.low[q]
          BY <2>9, <3>1, <3>2, <3>4
        <4>2. PanelRow(rows, q)
          BY <2>3, <2>8, <2>11, <3>4, <4>1 DEF PageInv
        <4>3. PanelRow(rows, q)'
          BY <2>7, <3>4, <4>2
        <4> QED
          BY <3>2, <4>3
      <3> QED
        BY <3>3, <3>4
    <2>12. Catalogue' = Catalogue
      BY <2>3 DEF Catalogue, server
    <2> QED
      BY <2>3, <2>10, <2>11, <2>12 DEF PageInv
  <1>5. CASE OnProductCreated
    <2>1. PICK event : event = Head(stream)
      OBVIOUS
    <2>2. PICK p : p = event.id
      OBVIOUS
    <2>3. Received("created") /\ UNCHANGED <<kind, server, conn, synced, raced, misread>>
      BY <1>5, <2>1, <2>2 DEF OnProductCreated
    <2>4. event \in Announced /\ p \in Catalogue /\ event.kind = "created" /\ event \in Events
      BY <2>1, <2>2, <2>3, HeadPublished, ReceivedIs, ToldOf DEF Announced, Received
    <2>5. p \in New
      BY <2>2, <2>4, ToldKinds DEF ToldInv
    <2>6. ToCome(p)' \/ Known(p, event.at)
      BY <2>1, <2>2, <2>3, HeadIsRight
    <2>7. /\ \A q, at : Known(q, at)' = Known(q, at)
          /\ \A q, rows : IsRight(rows, q)' = IsRight(rows, q)
          /\ \A q : Excused(q)' = Excused(q)
      BY <2>3, KnownSame
    <2>8. \A q : /\ \A at : Fine(q, at) => Fine(q, at)'
                 /\ \A rows : PanelRow(rows, q) => PanelRow(rows, q)'
      BY <2>3, FineReceived
    <2>9. SUFFICES ASSUME conn = "live", synced PROVE PageInv'
      BY <2>3 DEF PageInv
    <2>10. ASSUME NEW i \in DOMAIN page'.table, Trusted(page.table[i].id)'
           PROVE  RowInv(page.table[i])'
      <3>1. PICK row : row = page'.table[i]
        OBVIOUS
      <3>2. CASE i \in DOMAIN page.table
        <4>1. row = page.table[i]
          BY <1>5, <3>1, <3>2, AddedRows
        <4>2. Trusted(row.id)
          BY <2>3, <2>10, <3>1 DEF Trusted
        <4>3. Fine(row.id, row.at)
          BY <2>9, <3>2, <4>1, <4>2 DEF PageInv, RowInv
        <4>4. Fine(row.id, row.at)'
          BY <2>8, <4>3
        <4> QED
          BY <3>1, <4>4 DEF RowInv
      <3>3. CASE i \notin DOMAIN page.table
        <4>1. row = RowOf(event)
          BY <1>5, <2>1, <2>10, <3>1, <3>3, AddedRows
        <4>2. row.id = p /\ row.at = event.at
          BY <2>2, <4>1 DEF RowOf
        <4>3. Fine(p, event.at)'
          BY <2>6, <2>7 DEF Fine
        <4> QED
          BY <3>1, <4>2, <4>3 DEF RowInv
      <3> QED
        BY <3>2, <3>3
    <2>11. ASSUME kind = "dashboard", NEW q \in Catalogue \ misread' PROVE PanelRow(page.low[q], q)'
      <3>1. q \in Products
        BY DEF Catalogue
      <3>2. PICK rows : rows = page.low[q]
        OBVIOUS
      <3>3. PICK rows2 : rows2 = page'.low[q]
        OBVIOUS
      <3>4. PanelRow(rows, q)
        BY <2>3, <2>9, <2>11, <3>2 DEF PageInv
      <3>5. PanelRow(rows, q)'
        BY <2>8, <3>4
      <3>6. CASE rows2 = rows
        BY <3>3, <3>5, <3>6
      <3>7. CASE rows2 # rows
        <4>1. q = p /\ rows2 = rows \o LowRow(event.quantity)
          BY <1>5, <2>1, <2>2, <3>1, <3>2, <3>3, <3>7, AddedRows
        <4>2. CASE ToCome(p)' \/ Excused(p)'
          BY <3>3, <4>1, <4>2 DEF PanelRow
        <4>3. CASE ~ToCome(p)' /\ ~Excused(p)'
          <5>1. event.at = stock[p].at
            BY <2>6, <2>7, <4>3 DEF Known
          <5>2. IsRight(rows, p)
            BY <2>7, <3>5, <4>1, <4>3 DEF PanelRow
          <5>3. rows \in Seq(Quantities)
            BY <3>1, <3>2 DEF TypeOK, Pages, Panels
          <5>4. IsRight(rows2, p)
            BY <2>2, <2>4, <2>5, <4>1, <5>1, <5>2, <5>3, RightRow
          <5> QED
            BY <2>7, <3>3, <4>1, <5>4 DEF PanelRow
        <4> QED
          BY <4>2, <4>3
      <3> QED
        BY <3>6, <3>7
    <2>12. Catalogue' = Catalogue
      BY <2>3 DEF Catalogue, server
    <2> QED
      BY <2>3, <2>10, <2>11, <2>12 DEF PageInv
  <1>6. ASSUME NEW f \in Fetches, ReadProducts(f) \/ ReadLowStock(f) PROVE PageInv'
    BY <1>2, <1>6, ReadIs
  <1>7. ASSUME NEW f \in Fetches, Resync(f) \/ FailResync(f) PROVE PageInv'
    BY <1>7, ResyncedPage
  <1>8. CASE Restart \/ Connect \/ Break \/ Refuse \/ Retry
    BY <1>1, <1>8 DEF Restart, Connect, Break, Refuse, Retry
  <1>9. CASE OnOpen
    BY <1>1, <1>9 DEF OnOpen
  <1> QED
    BY <1>3, <1>4, <1>5, <1>6, <1>7, <1>8, <1>9 DEF Next, ReceiveNext, Answered

\* A snapshot that is kept stays right when what it is missing is buffered.
LEMMA ResyncKept ==
    ASSUME BasicInv, RightInv, Next, UNCHANGED <<kind, activeResync>>, conn = "live",
           activeResync # NoFetch, fetch[activeResync] # NoFetch, fetch'[activeResync] = fetch[activeResync],
           \A p \in Catalogue :
              Trusted(p)' =>
                 /\ Trusted(p) /\ (Buffered(p) => Buffered(p)')
                 /\ kind = "dashboard" /\ p \in misread => p \in misread' \/ Buffered(p)'
                 /\ Buffered(p)' \/ (/\ \A at : Fine(p, at) => Fine(p, at)'
                                     /\ \A rows : PanelRow(rows, p) => PanelRow(rows, p)')
    PROVE  ResyncInv'
  <1> USE DEF BasicInv, RightInv
  <1>1. PICK snapshot : snapshot = fetch[activeResync]
    OBVIOUS
  <1>2. activeResync \in Fetches
    BY DEF TypeOK
  <1>3. ASSUME snapshot.table # Unread, NEW i \in DOMAIN snapshot.table, Trusted(snapshot.table[i].id)'
        PROVE  Buffered(snapshot.table[i].id)' \/ RowInv(snapshot.table[i])'
    <2>1. PICK row : row = snapshot.table[i]
      OBVIOUS
    <2>2. row.id \in Catalogue
      BY <1>1, <1>2, <1>3, <2>1, ToldOf DEF HasRead
    <2>3. Trusted(row.id)'
      BY <1>3, <2>1
    <2>4. Buffered(row.id) \/ Fine(row.id, row.at)
      BY <1>1, <1>3, <2>1, <2>2, <2>3 DEF ResyncInv, RowInv
    <2>5. Buffered(row.id)' \/ Fine(row.id, row.at)'
      BY <2>2, <2>3, <2>4
    <2> QED
      BY <2>1, <2>5 DEF RowInv
  <1>4. ASSUME snapshot.low # Unread, kind = "dashboard", NEW p \in Catalogue' \ misread'
        PROVE  Buffered(p)' \/ PanelRow(snapshot.low[p], p)'
    <2>1. PICK rows : rows = snapshot.low[p]
      OBVIOUS
    <2>2. CASE p \in Catalogue
      <3>1. Trusted(p)'
        BY <1>4 DEF Trusted
      <3>2. p \in misread \/ Buffered(p) \/ PanelRow(rows, p)
        BY <1>1, <1>4, <2>1, <2>2 DEF ResyncInv
      <3>3. Buffered(p)' \/ PanelRow(rows, p)'
        BY <1>4, <2>2, <3>1, <3>2
      <3> QED
        BY <2>1, <3>3
    <2>3. CASE p \notin Catalogue
      <3>1. p \in Products \ Catalogue
        BY <2>3 DEF Catalogue
      <3>2. rows = <<>>
        BY <1>1, <1>2, <1>4, <2>1, <3>1 DEF UnknownInv
      <3>3. p \in New /\ IsRight(<<>>, p)'
        BY <3>1, NothingIsRight
      <3>4. PanelRow(rows, p)'
        BY <3>2, <3>3 DEF PanelRow
      <3> QED
        BY <2>1, <3>4
    <2> QED
      BY <2>2, <2>3
  <1>5. snapshot = fetch'[activeResync']
    BY <1>1
  <1> QED
    BY <1>3, <1>4, <1>5 DEF ResyncInv

LEMMA ResyncStep ==
    ASSUME BasicInv, RightInv, Next
    PROVE  ResyncInv'
  <1> USE DEF BasicInv, RightInv
  <1>1. ASSUME conn' # "live" \/ activeResync' = NoFetch PROVE ResyncInv'
    BY <1>1 DEF ResyncInv
  <1>2. ASSUME UNCHANGED <<kind, server, conn, stream, raced>>, misread \subseteq misread',
               activeResync' # NoFetch => /\ UNCHANGED <<activeResync, buffer>>
                                          /\ fetch'[activeResync] = fetch[activeResync]
        PROVE  ResyncInv'
    <2>1. SUFFICES ASSUME conn = "live", activeResync' # NoFetch, fetch'[activeResync'] # NoFetch
                   PROVE  ResyncInv'
      BY <1>2 DEF ResyncInv
    <2>2. /\ \A p, at : Fine(p, at)' = Fine(p, at)
          /\ \A rows, p : PanelRow(rows, p)' = PanelRow(rows, p)
      BY <1>2, FineSame
    <2>3. \A p : Trusted(p)' = Trusted(p) /\ Buffered(p)' = Buffered(p)
      BY <1>2, <2>1 DEF Trusted, Buffered
    <2> QED
      BY <1>2, <2>1, <2>2, <2>3, ResyncKept
  <1>3. ASSUME \/ \E p \in Products : ChangeStock(p) \/ CreateProduct(p)
               \/ \E event \in pending : Publish(event) \/ LoseAcknowledgement(event)
        PROVE  ResyncInv'
    <2>1. UNCHANGED <<kind, conn, fetch, activeResync, buffer, raced, misread>>
      BY <1>3 DEF ChangeStock, CreateProduct, Commits, Publish, LoseAcknowledgement, client
    <2>2. SUFFICES ASSUME conn = "live", activeResync # NoFetch, fetch[activeResync] # NoFetch
                   PROVE  ResyncInv'
      BY <2>1 DEF ResyncInv
    <2>3. stream # NoStream
      BY <2>2 DEF StreamInv
    <2>4. \A p \in Catalogue : /\ \A at : Fine(p, at) => Fine(p, at)'
                               /\ \A rows : PanelRow(rows, p) => PanelRow(rows, p)'
      BY <1>3, <2>3, FineServer
    <2>5. \A p : Trusted(p)' = Trusted(p) /\ Buffered(p)' = Buffered(p)
      BY <2>1 DEF Trusted, Buffered
    <2> QED
      BY <2>1, <2>2, <2>4, <2>5, ResyncKept
  <1>4. CASE OnOpen
    <2>1. /\ fetch'[activeResync'].table = Unread
          /\ kind = "dashboard" => fetch'[activeResync'].low = Unread
      BY <1>4, OpenFetches
    <2>2. kind' = kind
      BY <1>4 DEF OnOpen
    <2> QED
      BY <2>1, <2>2 DEF ResyncInv
  <1>5. CASE OnUpdate
    <2>1. PICK event : event = Head(stream)
      OBVIOUS
    <2>2. PICK p : p = event.id
      OBVIOUS
    <2>3. /\ Received("stock") /\ UNCHANGED <<kind, server, conn, fetch, activeResync>>
          /\ raced' = IF Reloading THEN raced \cup {p} ELSE raced \ {p}
          /\ misread' = misread \ {p}
          /\ buffer' = IF kind = "sales" \/ activeResync = NoFetch THEN buffer ELSE Append(buffer, event)
      BY <1>5, <2>1, <2>2 DEF OnUpdate
    <2>4. SUFFICES ASSUME conn = "live", activeResync # NoFetch, fetch[activeResync] # NoFetch
                   PROVE  ResyncInv'
      BY <2>3 DEF ResyncInv
    <2>5. Reloading
      BY <2>4 DEF Reloading, TypeOK
    <2>6. \A q : q # p => /\ \A at : Fine(q, at) => Fine(q, at)'
                          /\ \A rows : PanelRow(rows, q) => PanelRow(rows, q)'
      BY <2>1, <2>2, <2>3, FineReceived
    <2>7. \A q : Trusted(q)' => Trusted(q) /\ (kind = "sales" => q # p)
      BY <2>3, <2>5 DEF Trusted
    <2>8. (\A q : Buffered(q) => Buffered(q)') /\ (kind # "sales" => Buffered(p)')
      <3>1. CASE kind = "sales"
        BY <2>3, <3>1 DEF Buffered
      <3>2. CASE kind # "sales"
        <4>1. buffer' = Append(buffer, event) /\ buffer \in Seq(StockUpdates) /\ event \in StockUpdates
          BY <2>1, <2>3, <2>4, <3>2, ReceivedIs DEF TypeOK
        <4>2. /\ Len(buffer) + 1 \in DOMAIN buffer' /\ buffer'[Len(buffer) + 1] = event
              /\ \A j \in DOMAIN buffer : j \in DOMAIN buffer' /\ buffer'[j] = buffer[j]
          BY <4>1
        <4> QED
          BY <2>2, <4>2 DEF Buffered
      <3> QED
        BY <3>1, <3>2
    <2> QED
      BY <2>3, <2>4, <2>6, <2>7, <2>8, ResyncKept
  <1>6. CASE OnProductCreated
    <2>1. /\ Received("created")
          /\ UNCHANGED <<kind, server, conn, fetch, activeResync, buffer, raced, misread>>
      BY <1>6 DEF OnProductCreated
    <2>2. SUFFICES ASSUME conn = "live", activeResync # NoFetch, fetch[activeResync] # NoFetch
                   PROVE  ResyncInv'
      BY <2>1 DEF ResyncInv
    <2>3. \A q : /\ \A at : Fine(q, at) => Fine(q, at)'
                 /\ \A rows : PanelRow(rows, q) => PanelRow(rows, q)'
      BY <2>1, FineReceived
    <2>4. \A p : Trusted(p)' = Trusted(p) /\ Buffered(p)' = Buffered(p)
      BY <2>1 DEF Trusted, Buffered
    <2> QED
      BY <2>1, <2>2, <2>3, <2>4, ResyncKept
  <1>7. ASSUME NEW f \in Fetches, ReadProducts(f) \/ ReadLowStock(f) PROVE ResyncInv'
    <2>1. UNCHANGED <<kind, server, conn, stream, activeResync, buffer, raced>> /\ misread \subseteq misread'
      BY <1>7, ReadIs
    <2>2. CASE activeResync # f
      <3>1. activeResync # NoFetch => fetch'[activeResync] = fetch[activeResync]
        BY <1>7, <2>2, ReadIs DEF TypeOK
      <3> QED
        BY <1>2, <2>1, <3>1
    <2>3. CASE activeResync = f
      <3>1. SUFFICES ASSUME conn = "live" PROVE ResyncInv'
        BY <2>1 DEF ResyncInv
      <3>2. f # NoFetch /\ fetch[f] # NoFetch
        BY <1>7, DashboardAssumption, ReadIs
      <3>3. /\ \A p, at : Fine(p, at)' = Fine(p, at)
            /\ \A rows, p : PanelRow(rows, p)' = PanelRow(rows, p)
        BY <2>1, FineSame
      <3>4. \A p : Trusted(p)' = Trusted(p) /\ Buffered(p)' = Buffered(p)
        BY <2>1 DEF Trusted, Buffered
      <3>5. PICK snapshot : snapshot = fetch[f]
        OBVIOUS
      <3>6. PICK after : after = fetch'[f]
        OBVIOUS
      <3>7. ASSUME after.table # Unread, NEW i \in DOMAIN after.table, Trusted(after.table[i].id)'
            PROVE  Buffered(after.table[i].id)' \/ RowInv(after.table[i])'
        <4>1. CASE after.table = snapshot.table
          BY <2>3, <3>1, <3>2, <3>3, <3>4, <3>5, <3>7, <4>1 DEF ResyncInv, RowInv
        <4>2. CASE after.table # snapshot.table
          <5>1. after.table = TableRead
            BY <1>7, <3>5, <3>6, <4>2, ReadIs
          <5>2. after.table[i] = StockRow(after.table[i].id)
            BY <3>7, <5>1, TableReadIs DEF TypeOK
          <5>3. after.table[i].at = stock[after.table[i].id].at
            BY <5>2 DEF StockRow
          <5>4. Fine(after.table[i].id, after.table[i].at)
            BY <5>3 DEF Fine, Known
          <5> QED
            BY <3>3, <5>4 DEF RowInv
        <4> QED
          BY <4>1, <4>2
      <3>8. ASSUME after.low # Unread, kind = "dashboard", NEW p \in Catalogue \ misread'
            PROVE  Buffered(p)' \/ PanelRow(after.low[p], p)'
        <4>1. CASE after.low = snapshot.low
          BY <2>1, <2>3, <3>1, <3>2, <3>3, <3>4, <3>5, <3>8, <4>1 DEF ResyncInv
        <4>2. CASE after.low # snapshot.low
          <5>1. p \in Products /\ p \notin Misread(after.low) /\ stock[p] # Absent
            BY <1>7, <2>3, <3>5, <3>6, <3>8, <4>2, ReadIs DEF Catalogue
          <5>2. Buffered(p) \/ after.low[p] = LowList(stock)[p]
            BY <5>1 DEF Misread, Buffered
          <5>3. LowList(stock)[p] = LowRow(stock[p].quantity)
            BY <5>1, LowReadIs DEF TypeOK
          <5>4. Buffered(p) \/ PanelRow(after.low[p], p)
            <6>1. PICK rows : rows = LowRow(stock[p].quantity)
              OBVIOUS
            <6>2. \A i \in DOMAIN rows : <<rows[i]>> = rows
              BY <6>1 DEF LowRow
            <6>3. IsRight(rows, p)
              BY <6>1, <6>2 DEF IsRight
            <6> QED
              BY <5>2, <5>3, <6>1, <6>3 DEF PanelRow
          <5> QED
            BY <3>3, <3>4, <5>4
        <4> QED
          BY <4>1, <4>2
      <3>9. Catalogue' = Catalogue /\ after = fetch'[activeResync']
        BY <2>1, <2>3, <3>6 DEF Catalogue, server
      <3> QED
        BY <2>1, <3>7, <3>8, <3>9 DEF ResyncInv
    <2> QED
      BY <2>2, <2>3
  <1>8. ASSUME NEW f \in Fetches, Resync(f) \/ FailResync(f) PROVE ResyncInv'
    <2>1. Settled(f) /\ UNCHANGED <<kind, server, conn, stream, raced, misread>>
      BY <1>8 DEF Resync, FailResync, Settled
    <2>2. activeResync' # NoFetch => /\ UNCHANGED <<activeResync, buffer>>
                                     /\ fetch'[activeResync] = fetch[activeResync]
      BY <2>1, SettledKeeps
    <2> QED
      BY <1>2, <2>1, <2>2
  <1>9. CASE Restart \/ Break \/ Refuse \/ Retry
    BY <1>1, <1>9 DEF Restart, Break, Refuse, Retry
  <1>10. CASE Connect
    BY <1>1, <1>10 DEF Connect
  <1> QED
    BY <1>3, <1>4, <1>5, <1>6, <1>7, <1>8, <1>9, <1>10 DEF Next, ReceiveNext, Answered

LEMMA RightInit ==
    ASSUME Init
    PROVE  RightInv
  <1>1. /\ pending = {} /\ conn = "connecting" /\ stream = NoStream /\ synced = FALSE
        /\ page.low = LowRead(stock) /\ lists = {LowRead(stock)} /\ \A f \in Fetches : fetch[f] = NoFetch
    BY DEF Init
  <1>2. AnnouncedInv
    BY <1>1 DEF AnnouncedInv
  <1>3. LastInv
    BY <1>1 DEF LastInv, LastInStream, LastInBuffer
  <1>4. PageInv /\ ResyncInv
    BY <1>1 DEF PageInv, ResyncInv
  <1>5. UnknownInv
    <2>1. \A p \in Products \ Catalogue : LowRead(stock)[p] = <<>>
      BY LowReadIs, InitTyped DEF TypeOK, Catalogue
    <2> QED
      BY <1>1, <2>1 DEF UnknownInv
  <1> QED
    BY <1>2, <1>3, <1>4, <1>5 DEF RightInv

LEMMA RightStep ==
    ASSUME BasicInv, RightInv, [Next]_vars
    PROVE  RightInv'
  <1>1. CASE Next
    <2>1. AnnouncedInv' /\ UnknownInv'
      BY <1>1, AnnouncedStep, UnknownStep DEF RightInv
    <2>2. LastInv'
      BY <1>1, LastInStreamStep, LastInBufferStep DEF RightInv, LastInv
    <2>3. PageInv' /\ ResyncInv'
      BY <1>1, PageStep, ResyncStep
    <2> QED
      BY <2>1, <2>2, <2>3 DEF RightInv
  <1>2. CASE UNCHANGED vars
    <2>1. /\ UNCHANGED <<kind, stock, pending, published, lost, conn, stream, page, fetch,
                         activeResync, buffer, synced, raced, misread, lists>>
          /\ UNCHANGED <<kind, server>> /\ UNCHANGED <<kind, server, stream>>
      BY <1>2 DEF vars, server, client
    <2>2. UNCHANGED <<Catalogue, Announced>>
      BY <2>1 DEF Catalogue, Announced, Published
    <2>3. /\ \A p, at : Fine(p, at)' = Fine(p, at) /\ Known(p, at)' = Known(p, at)
          /\ \A rows, p : PanelRow(rows, p)' = PanelRow(rows, p)
      BY <2>1, FineSame, KnownSame
    <2>4. \A p : Trusted(p)' = Trusted(p) /\ Buffered(p)' = Buffered(p)
      BY <2>1 DEF Trusted, Buffered
    <2>5. AnnouncedInv'
      BY <2>1, <2>2 DEF RightInv, AnnouncedInv
    <2>6. LastInStream'
      BY <2>1, <2>3 DEF RightInv, LastInv, LastInStream, IsEvent
    <2>7. LastInBuffer'
      BY <2>1, <2>3 DEF RightInv, LastInv, LastInBuffer
    <2>8. PageInv'
      BY <2>1, <2>2, <2>3, <2>4 DEF RightInv, PageInv, RowInv
    <2>9. ResyncInv'
      BY <2>1, <2>2, <2>3, <2>4 DEF RightInv, ResyncInv, RowInv
    <2>10. UnknownInv'
      BY <2>1, <2>2 DEF RightInv, UnknownInv
    <2> QED
      BY <2>5, <2>6, <2>7, <2>8, <2>9, <2>10 DEF RightInv, LastInv
  <1> QED
    BY <1>1, <1>2

LEMMA RightAlways ==
    Spec => [](BasicInv /\ RightInv)
  <1>1. Init => RightInv
    BY RightInit
  <1>2. BasicInv /\ RightInv /\ [Next]_vars => RightInv'
    BY RightStep
  <1> QED
    BY <1>1, <1>2, BasicAlways, PTL DEF Spec

LEMMA NothingPromisedAtRest ==
    ASSUME AtRest, NEW p
    PROVE  ~ToCome(p) /\ (Excused(p) => Unknowable(p))
  BY DEF AtRest, ToCome, IsEvent, Excused

\* A page at rest after a reload that succeeded shows the committed quantity of each
\* product in its table, unless the product's last events were published in the
\* wrong order, its last change was never published, or, on the sales page, its
\* event arrived during a reload or reloads overlapped.
THEOREM TableEndsRight ==
    Spec => []TableIsRight
  <1>1. BasicInv /\ RightInv => TableIsRight
    <2>1. SUFFICES ASSUME BasicInv, RightInv, AtRest, synced, NEW i \in DOMAIN page.table,
                          NEW row, row = page.table[i]
                   PROVE  \/ row.quantity = stock[row.id].quantity
                          \/ Unknowable(row.id)
                          \/ kind = "sales" /\ row.id \in raced
      BY DEF TableIsRight
    <2>2. CASE Trusted(row.id)
      <3>1. Known(row.id, row.at)
        BY <2>1, <2>2, NothingPromisedAtRest DEF RightInv, PageInv, RowInv, Fine, AtRest
      <3>2. Excused(row.id) \/ row.at = stock[row.id].at
        BY <3>1 DEF Known
      <3>3. row \in Told
        BY <2>1, ToldKinds
      <3> QED
        BY <2>1, <3>2, <3>3, NothingPromisedAtRest DEF BasicInv, ToldInv
    <2>3. CASE ~Trusted(row.id)
      BY <2>1, <2>3 DEF Trusted, BasicInv, TypeOK
    <2> QED
      BY <2>2, <2>3
  <1> QED
    BY <1>1, RightAlways, PTL

\* And the dashboard's panel has exactly the low products that existed from the start,
\* each at its committed stock, and nothing wrong about one created since, but for
\* what the list last read had wrong, from the cache or because it was cut.
THEOREM PanelEndsRight ==
    Spec => []PanelIsRight
  <1>1. BasicInv /\ RightInv => PanelIsRight
    <2>1. SUFFICES ASSUME BasicInv, RightInv, AtRest, synced, kind = "dashboard",
                          NEW p \in Catalogue \ misread
                   PROVE  Unknowable(p) \/ IsRight(page.low[p], p)
      BY DEF PanelIsRight, IsRight
    <2>2. PanelRow(page.low[p], p)
      BY <2>1 DEF RightInv, PageInv, AtRest
    <2> QED
      BY <2>1, <2>2, NothingPromisedAtRest DEF PanelRow
  <1> QED
    BY <1>1, RightAlways, PTL
=============================================================================
