-------------------------- MODULE InvoicePdfProofs --------------------------
(***************************************************************************)
(* Whatever fails, crashes or is rendered at the same time, a request gets *)
(* the whole document of its own invoice, and a stored file never changes. *)
(*                                                                         *)
(* The invariant: a file under a final name is the document its name says, *)
(* and what a task is about to rename is the whole document of its own.    *)
(*                                                                         *)
(* That document reads well, whatever its lines: the cursor goes down the  *)
(* pages, and each box lies between where it was and where it is then.     *)
(***************************************************************************)
EXTENDS InvoicePdf, NaturalLemmas

FilesInv == \A i \in Invoices : stored[PathFor(i)] \in {NoFile, i}

TaskInv(t) ==
    /\ at[t] # "idle" => invoice[t] \in Invoices
    /\ at[t] = "rename" => temp[t] = invoice[t]

PdfInv ==
    /\ TypeOK
    /\ FilesInv
    /\ \A t \in Tasks : TaskInv(t)
    /\ ServedIsOwnAndWhole

\* Two invoices never share a file: the id is part of the name.
LEMMA PathIsOwn ==
    ASSUME NEW i \in Invoices, NEW j \in Invoices, PathFor(i) = PathFor(j)
    PROVE  i = j
  BY DEF PathFor

LEMMA PdfInit == Init => PdfInv
<1> SUFFICES ASSUME Init PROVE PdfInv
  OBVIOUS
<1>1. TypeOK
  <2>1. MaxFaults \in Nat /\ MaxCrashes \in Nat /\ MaxResets \in Nat
    BY PdfAssumption
  <2>2. faults \in 0..MaxFaults /\ crashes \in 0..MaxCrashes /\ resets \in 0..MaxResets
    BY <2>1 DEF Init
  <2>3. stored \in [Names -> Invoices \cup {NoFile}]
    BY DEF Init
  <2> QED
    BY <2>2, <2>3 DEF Init, TypeOK, Documents
<1>2. FilesInv /\ (\A t \in Tasks : TaskInv(t)) /\ ServedIsOwnAndWhole
  BY DEF Init, FilesInv, TaskInv, ServedIsOwnAndWhole, Names, Tasks
<1> QED
  BY <1>1, <1>2 DEF PdfInv

\* Every step but the rename leaves the files alone, and the rename puts the
\* document of its own invoice under that invoice's name.
LEMMA PdfStep == PdfInv /\ [Next]_vars => PdfInv'
<1> SUFFICES ASSUME PdfInv, [Next]_vars PROVE PdfInv'
  OBVIOUS
<1> USE DEF PdfInv
<1>0. MaxFaults \in Nat /\ MaxCrashes \in Nat /\ MaxResets \in Nat
  BY PdfAssumption
<1>1. CASE UNCHANGED vars
  BY <1>1 DEF vars, TypeOK, FilesInv, TaskInv, ServedIsOwnAndWhole
<1>2. CASE \E i \in Invoices : OnInvoiceCreated(i)
  <2> PICK i \in Invoices : OnInvoiceCreated(i)
    BY <1>2
  <2>1. TypeOK'
    BY DEF OnInvoiceCreated, Step, bounds, TypeOK, Tasks
  <2>2. (\A t \in Tasks : TaskInv(t)')
    BY DEF OnInvoiceCreated, Step, TypeOK, TaskInv, Tasks
  <2>3. FilesInv' /\ ServedIsOwnAndWhole'
    BY DEF OnInvoiceCreated, Step, TypeOK, FilesInv, ServedIsOwnAndWhole, Tasks
  <2> QED
    BY <2>1, <2>2, <2>3
<1>3. CASE \E r \in Requests : GetPdf(r)
  <2> PICK r \in Requests : GetPdf(r)
    BY <1>3
  <2> PICK i \in issued : /\ Step(r, "idle", "find")
                          /\ invoice' = [invoice EXCEPT ![r] = i]
                          /\ UNCHANGED <<rows, issued, served, stored, temp, litter, bounds>>
    BY DEF GetPdf
  <2>1. TypeOK'
    BY DEF Step, bounds, TypeOK, Tasks
  <2>2. (\A t \in Tasks : TaskInv(t)')
    BY DEF Step, TypeOK, TaskInv, Tasks
  <2>3. FilesInv' /\ ServedIsOwnAndWhole'
    BY DEF Step, TypeOK, FilesInv, ServedIsOwnAndWhole, Tasks
  <2> QED
    BY <2>1, <2>2, <2>3
<1>4. CASE \E r \in Requests : ReadStored(r)
  <2> PICK r \in Requests : ReadStored(r)
    BY <1>4
  <2>1. invoice[r] \in Invoices /\ stored[PathFor(invoice[r])] \in {NoFile, invoice[r]}
    BY DEF ReadStored, TaskInv, FilesInv, Tasks
  <2>2. TypeOK'
    <3>1. faults' \in 0..MaxFaults
      BY <1>0 DEF ReadStored, TypeOK
    <3>2. served' \in [Requests -> Documents]
      BY <2>1 DEF ReadStored, TypeOK, Documents
    <3>3. at' \in [Tasks -> {"idle", "find", "read", "render"} \cup Storing \cup Ended]
      BY DEF ReadStored, Step, TypeOK, Ended
    <3> QED
      BY <3>1, <3>2, <3>3 DEF ReadStored, TypeOK
  <2>3. (\A t \in Tasks : TaskInv(t)') /\ FilesInv'
    BY DEF ReadStored, Step, TypeOK, TaskInv, FilesInv, Tasks, PathFor
  <2>4. ServedIsOwnAndWhole'
    BY <2>1 DEF ReadStored, Step, TypeOK, ServedIsOwnAndWhole, Tasks
  <2> QED
    BY <2>2, <2>3, <2>4
<1>5. CASE \E t \in Tasks : FindInvoice(t)
  <2> PICK t \in Tasks : FindInvoice(t)
    BY <1>5
  <2>1. TypeOK'
    BY DEF FindInvoice, Step, bounds, TypeOK, Tasks, Ended
  <2>2. (\A u \in Tasks : TaskInv(u)') /\ FilesInv' /\ ServedIsOwnAndWhole'
    BY DEF FindInvoice, Step, TypeOK, TaskInv, FilesInv, ServedIsOwnAndWhole, Tasks
  <2> QED
    BY <2>1, <2>2
<1>6. CASE \E t \in Tasks : Render(t) \/ BeginWrite(t) \/ EndWrite(t)
  <2> PICK t \in Tasks : Render(t) \/ BeginWrite(t) \/ EndWrite(t)
    BY <1>6
  <2>1. invoice[t] \in Invoices
    BY DEF Render, BeginWrite, EndWrite, Step, TaskInv
  <2>2. TypeOK'
    BY <2>1 DEF Render, BeginWrite, EndWrite, Step, bounds, TypeOK, Storing, Documents
  <2>3. (\A u \in Tasks : TaskInv(u)')
    BY DEF Render, BeginWrite, EndWrite, Step, TypeOK, TaskInv
  <2>4. FilesInv' /\ ServedIsOwnAndWhole'
    BY DEF Render, BeginWrite, EndWrite, Step, TypeOK, FilesInv, ServedIsOwnAndWhole, Tasks
  <2> QED
    BY <2>2, <2>3, <2>4
<1>7. CASE \E t \in Tasks : Rename(t)
  <2> PICK t \in Tasks : Rename(t)
    BY <1>7
  <2>1. invoice[t] \in Invoices /\ temp[t] = invoice[t]
    BY DEF Rename, TaskInv
  <2>2. PathFor(invoice[t]) \in Names
    BY <2>1 DEF Names
  <2>3. TypeOK'
    BY <2>1, <2>2 DEF Rename, Delivered, bounds, TypeOK, Ended, Documents
  <2>4. FilesInv'
    <3> SUFFICES ASSUME NEW i \in Invoices PROVE stored'[PathFor(i)] \in {NoFile, i}
      BY DEF FilesInv, PathFor
    <3>1. PathFor(i) \in Names
      BY DEF Names
    <3>2. CASE i = invoice[t]
      BY <2>1, <2>2, <3>2 DEF Rename, TypeOK
    <3>3. CASE i # invoice[t]
      <4>1. PathFor(i) # PathFor(invoice[t])
        BY <2>1, <3>3, PathIsOwn
      <4> QED
        BY <2>2, <3>1, <4>1 DEF Rename, TypeOK, FilesInv
    <3> QED
      BY <3>2, <3>3
  <2>5. (\A u \in Tasks : TaskInv(u)')
    BY DEF Rename, Delivered, TypeOK, TaskInv
  <2>6. ServedIsOwnAndWhole'
    BY DEF Rename, Delivered, TypeOK, ServedIsOwnAndWhole, Tasks
  <2> QED
    BY <2>3, <2>4, <2>5, <2>6
<1>8. CASE \E t \in Tasks : FailStoring(t)
  <2> PICK t \in Tasks : FailStoring(t)
    BY <1>8
  <2>1. invoice[t] \in Invoices
    BY DEF FailStoring, Storing, TaskInv
  <2>2. TypeOK'
    <3>1. faults' \in 0..MaxFaults
      BY <1>0 DEF FailStoring, TypeOK
    <3>2. served' \in [Requests -> Documents] /\ temp' \in [Tasks -> Documents] /\ litter' \in BOOLEAN
      BY <2>1 DEF FailStoring, Delivered, TypeOK, Documents
    <3>3. at' \in [Tasks -> {"idle", "find", "read", "render"} \cup Storing \cup Ended]
      BY DEF FailStoring, Delivered, TypeOK, Ended
    <3> QED
      BY <3>1, <3>2, <3>3 DEF FailStoring, TypeOK
  <2>3. (\A u \in Tasks : TaskInv(u)')
    BY <2>1 DEF FailStoring, Delivered, TypeOK, TaskInv
  <2>4. FilesInv' /\ ServedIsOwnAndWhole'
    BY DEF FailStoring, Delivered, TypeOK, FilesInv, ServedIsOwnAndWhole, Tasks, PathFor
  <2> QED
    BY <2>2, <2>3, <2>4
<1>9. CASE Crash \/ ResetDatabase
  <2>1. TypeOK'
    <3>1. crashes' \in 0..MaxCrashes /\ resets' \in 0..MaxResets
      BY <1>0, <1>9 DEF Crash, ResetDatabase, TypeOK
    <3>2. at' \in [Tasks -> {"idle", "find", "read", "render"} \cup Storing \cup Ended]
      BY <1>9 DEF Crash, ResetDatabase, TypeOK, Ended
    <3> QED
      BY <1>9, <3>1, <3>2 DEF Crash, ResetDatabase, TypeOK
  <2>2. (\A t \in Tasks : TaskInv(t)')
    BY <1>9 DEF Crash, ResetDatabase, TypeOK, TaskInv, Ended
  <2>3. FilesInv' /\ ServedIsOwnAndWhole'
    BY <1>9 DEF Crash, ResetDatabase, TypeOK, FilesInv, ServedIsOwnAndWhole, Ended, Tasks
  <2> QED
    BY <2>1, <2>2, <2>3
<1> QED
  BY <1>1, <1>2, <1>3, <1>4, <1>5, <1>6, <1>7, <1>8, <1>9 DEF Next, RenderAndStore

LEMMA PdfInvariance == Spec => []PdfInv
  BY PdfInit, PdfStep, PTL DEF Spec

-----------------------------------------------------------------------------
\* A served request has the whole document of the invoice it asked for.
THEOREM ServedIsSound == Spec => []ServedIsOwnAndWhole
<1>1. PdfInv => ServedIsOwnAndWhole
  BY DEF PdfInv
<1> QED
  BY <1>1, PdfInvariance, PTL

\* Only a rename touches a stored file, and it writes the document that is there.
THEOREM StoredFilesStay == Spec => StoredStays
<1> DEFINE Stays == \A n \in Names : stored[n] # NoFile => stored'[n] = stored[n]
<1>1. PdfInv /\ PdfInv' /\ [Next]_vars => [Stays]_vars
  <2> SUFFICES ASSUME PdfInv, PdfInv', [Next]_vars, NEW n \in Names, stored[n] # NoFile
               PROVE  stored'[n] = stored[n]
    OBVIOUS
  <2>1. PICK i \in Invoices : n = PathFor(i)
    BY DEF Names
  <2>2. stored[n] = i /\ stored'[n] \in {NoFile, i}
    BY <2>1 DEF PdfInv, FilesInv, PathFor
  <2>3. stored'[n] # NoFile
    <3>1. CASE \E t \in Tasks : Rename(t)
      <4> PICK t \in Tasks : Rename(t)
        BY <3>1
      <4>1. temp[t] = invoice[t] /\ invoice[t] \in Invoices
        BY DEF PdfInv, TaskInv, Rename
      <4> QED
        BY <4>1, <2>2, PdfAssumption DEF Rename, PdfInv, TypeOK
    <3>2. CASE ~\E t \in Tasks : Rename(t)
      BY <3>2, <2>2 DEF Next, vars, RenderAndStore, OnInvoiceCreated, GetPdf, ReadStored, FindInvoice,
         Render, BeginWrite, EndWrite, FailStoring, Crash, ResetDatabase
    <3> QED
      BY <3>1, <3>2
  <2> QED
    BY <2>2, <2>3
<1>2. Spec => [][Next]_vars
  BY DEF Spec
<1> QED
  BY <1>1, <1>2, PdfInvariance, PTL DEF StoredStays

\* Whoever stores a file removes what it leaves, or it is renamed: a temporary file
\* without its task is that of a crash, or of a removal that failed.
THEOREM NothingIsLittered == Spec => []NoLitter
<1>1. Init => NoLitter
  BY DEF Init, NoLitter
<1>2. PdfInv /\ NoLitter /\ [Next]_vars => NoLitter'
  <2> SUFFICES ASSUME PdfInv, NoLitter, [Next]_vars, crashes' = 0, ~litter'
               PROVE  \A t \in Tasks : temp'[t] # NoFile => at'[t] \in Storing
    BY DEF NoLitter
  <2> USE DEF NoLitter
  <2>0. TypeOK
    BY DEF PdfInv
  <2>1. ASSUME crashes = 0, ~litter,
               \/ \E i \in Invoices : OnInvoiceCreated(i)
               \/ \E r \in Requests : GetPdf(r) \/ ReadStored(r)
               \/ \E t \in Tasks : FindInvoice(t) \/ Render(t)
        PROVE  \A t \in Tasks : temp'[t] # NoFile => at'[t] \in Storing
    BY <2>0, <2>1 DEF TypeOK, OnInvoiceCreated, GetPdf, ReadStored, FindInvoice, Render, Step, Storing, Tasks
  <2>2. ASSUME crashes = 0, ~litter, NEW t \in Tasks, BeginWrite(t) \/ EndWrite(t)
        PROVE  \A u \in Tasks : temp'[u] # NoFile => at'[u] \in Storing
    BY <2>0, <2>2 DEF TypeOK, BeginWrite, EndWrite, Step, Storing
  <2>3. ASSUME crashes = 0, ~litter, NEW t \in Tasks, Rename(t)
        PROVE  \A u \in Tasks : temp'[u] # NoFile => at'[u] \in Storing
    BY <2>0, <2>3 DEF TypeOK, Rename, Delivered
  <2>4. ASSUME crashes = 0, ~litter, NEW t \in Tasks, FailStoring(t)
        PROVE  \A u \in Tasks : temp'[u] # NoFile => at'[u] \in Storing
    BY <2>0, <2>4 DEF TypeOK, FailStoring, Delivered
  <2>5. CASE Crash
    <3>1. crashes \in Nat /\ crashes' = crashes + 1
      BY <2>0, <2>5, PdfAssumption DEF Crash, TypeOK
    <3> QED
      BY <3>1
  <2>6. CASE ResetDatabase \/ UNCHANGED vars
    BY <2>6 DEF ResetDatabase, vars
  <2>7. ASSUME ~Crash PROVE crashes' = crashes /\ (~litter' => ~litter)
    BY <2>0, <2>7 DEF Next, vars, bounds, RenderAndStore, OnInvoiceCreated, GetPdf, ReadStored, FindInvoice,
       Render, BeginWrite, EndWrite, Rename, FailStoring, ResetDatabase, TypeOK
  <2> QED
    BY <2>1, <2>2, <2>3, <2>4, <2>5, <2>6, <2>7 DEF Next, RenderAndStore
<1> QED
  BY <1>1, <1>2, PdfInvariance, PTL DEF Spec

-----------------------------------------------------------------------------
(***************************************************************************)
(* The lines are drawn in the order of their numbers.                      *)
(***************************************************************************)
\* What the layout is given: lines with a number each, that fit a page.
Fit(lines) ==
    /\ lines \in Seq(Line)
    /\ \A j, k \in DOMAIN lines : lines[j].lineNumber = lines[k].lineNumber => j = k
    /\ \A k \in DOMAIN lines : Margin + HeadingHeight + lines[k].height <= PageBottom

\* The same lines, in the order of their numbers.
Sorts(lines, sorted) ==
    /\ DOMAIN sorted = 1..Len(lines)
    /\ \A n \in 1..Len(lines) : \E k \in 1..Len(lines) : sorted[n] = lines[k]
    /\ \A k \in 1..Len(lines) : \E n \in 1..Len(lines) : sorted[n] = lines[k]
    /\ \A m, n \in 1..Len(lines) : m < n => sorted[m].lineNumber < sorted[n].lineNumber

\* `sort` gives each line a place, by its number.
LEMMA InOrderSorts ==
    ASSUME NEW lines, Fit(lines), NEW sorted, sorted = InOrder(lines)
    PROVE  Sorts(lines, sorted)
<1> DEFINE N == Len(lines)
           D == 1..Len(lines)
           Num(k) == lines[k].lineNumber
           Before(k) == {j \in D : Num(j) < Num(k)}
<1>1. /\ N \in Nat /\ DOMAIN lines = D
      /\ \A k \in D : Num(k) \in Nat
      /\ \A j, k \in D : Num(j) = Num(k) => j = k
  <2>1. lines \in Seq(Line) /\ \A j, k \in DOMAIN lines : lines[j].lineNumber = lines[k].lineNumber => j = k
    BY DEF Fit
  <2>2. N \in Nat /\ DOMAIN lines = D /\ \A k \in D : lines[k] \in Line
    BY <2>1
  <2> QED
    BY <2>1, <2>2 DEF Line
<1>0. PICK rank : rank = [k \in D |-> Cardinality(Before(k))]
  OBVIOUS
<1>2. IsFiniteSet(D) /\ Cardinality(D) = N
  <2>1. 1 \in Int /\ N \in Int
    BY <1>1
  <2>2. IsFiniteSet(1..N) /\ Cardinality(1..N) = IF 1 > N THEN 0 ELSE N - 1 + 1
    <3> HIDE DEF N
    <3> QED
      BY <2>1, FS_Interval
  <2> QED
    BY <1>1, <2>2
<1> HIDE DEF N, D, Num
<1>3. ASSUME NEW k \in D PROVE IsFiniteSet(Before(k)) /\ rank[k] \in Nat /\ rank[k] = Cardinality(Before(k))
  <2>1. IsFiniteSet(Before(k))
    BY <1>2, FS_Subset
  <2> HIDE DEF Before
  <2> QED
    BY <1>0, <2>1, FS_CardinalityType
<1>4. ASSUME NEW j \in D, NEW k \in D, Num(j) < Num(k) PROVE rank[j] < rank[k]
  <2> DEFINE B == Before(j) \cup {j}
  <2>0. Num(j) \in Nat
    BY <1>1
  <2>1. j \notin Before(j) /\ IsFiniteSet(Before(j))
    BY <1>3, <2>0
  <2>2. IsFiniteSet(B) /\ Cardinality(B) = rank[j] + 1
    <3> HIDE DEF Before
    <3> QED
      BY <1>3, <2>1, FS_AddElement
  <2>3. B \subseteq Before(k)
    <3>1. \A i \in D : Num(i) < Num(j) => Num(i) < Num(k)
      BY <1>1, <1>4
    <3> QED
      BY <1>4, <3>1
  <2>4. Cardinality(B) <= rank[k]
    <3> HIDE DEF B, Before
    <3> QED
      BY <1>3, <2>3, FS_Subset
  <2> HIDE DEF B, Before
  <2> QED
    BY <1>3, <2>2, <2>4
<1>5. ASSUME NEW k \in D PROVE rank[k] + 1 \in D
  <2> DEFINE B == Before(k) \cup {k}
  <2>1. k \notin Before(k) /\ IsFiniteSet(Before(k))
    BY <1>1, <1>3
  <2>2. Cardinality(B) = rank[k] + 1
    <3> HIDE DEF Before
    <3> QED
      BY <1>3, <2>1, FS_AddElement
  <2>3. B \subseteq D
    OBVIOUS
  <2>4. Cardinality(B) <= N
    <3> HIDE DEF B
    <3> QED
      BY <1>2, <2>3, FS_Subset
  <2> HIDE DEF B, Before
  <2>5. rank[k] + 1 \in 1..N
    BY <1>1, <1>3, <2>2, <2>4
  <2> QED
    BY <2>5 DEF D, N
<1>6. ASSUME NEW j \in D, NEW k \in D, rank[j] = rank[k] PROVE j = k
  <2>1. ~ (Num(j) < Num(k)) /\ ~ (Num(k) < Num(j))
    <3> HIDE DEF Before
    <3> QED
      BY <1>3, <1>4, <1>6
  <2> QED
    BY <1>1, <2>1
<1> HIDE DEF Before
<1>7. ASSUME NEW n \in D PROVE \E k \in D : rank[k] = n - 1
  <2> DEFINE f == [k \in D |-> rank[k] + 1]
  <2>1. f \in [D -> D]
    BY <1>5
  <2>2. IsInjective(f)
    <3>1. \A j, k \in D : rank[j] + 1 = rank[k] + 1 => j = k
      BY <1>3, <1>6
    <3> QED
      BY <3>1 DEF IsInjective
  <2>3. f \in Injection(D, D)
    BY <2>1, <2>2 DEF Injection
  <2>4. f \in Surjection(D, D)
    <3> HIDE DEF f
    <3> QED
      BY <1>2, <2>3, FS_Injection
  <2>5. PICK k \in D : f[k] = n
    BY <2>4 DEF Surjection
  <2>6. rank[k] + 1 = n /\ rank[k] \in Nat
    BY <1>3, <2>5
  <2> QED
    BY <2>6
<1>8. ASSUME NEW n \in D PROVE \E k \in D : sorted[n] = lines[k] /\ rank[k] = n - 1
  <2> DEFINE Is(k) == rank[k] = n - 1
             c == CHOOSE k \in D : Is(k)
  <2>1. sorted[n] = lines[c]
    <3>1. \A k \in D : Is(k) <=> Cardinality({j \in DOMAIN lines : lines[j].lineNumber < lines[k].lineNumber}) = n - 1
      BY <1>0, <1>1 DEF Num, Before
    <3>2. c = CHOOSE k \in DOMAIN lines :
                 Cardinality({j \in DOMAIN lines : lines[j].lineNumber < lines[k].lineNumber}) = n - 1
      BY <1>1, <3>1
    <3> QED
      BY <1>1, <3>2 DEF InOrder
  <2>2. \E k \in D : Is(k)
    BY <1>7
  <2> HIDE DEF Is
  <2>3. c \in D /\ Is(c)
    BY <2>2
  <2> HIDE DEF c
  <2> QED
    BY <2>1, <2>3 DEF Is
<1>9. DOMAIN sorted = D
  BY <1>1 DEF InOrder
<1>10. ASSUME NEW k \in D PROVE \E n \in D : sorted[n] = lines[k]
  <2>1. PICK n \in D : n = rank[k] + 1
    BY <1>5
  <2>2. PICK j \in D : sorted[n] = lines[j] /\ rank[j] = n - 1
    BY <1>8
  <2>3. j = k
    BY <1>3, <1>6, <2>1, <2>2
  <2> QED
    BY <2>2, <2>3
<1>11. ASSUME NEW m \in D, NEW n \in D, m < n PROVE sorted[m].lineNumber < sorted[n].lineNumber
  <2>1. PICK j \in D : sorted[m] = lines[j] /\ rank[j] = m - 1
    BY <1>8
  <2>2. PICK k \in D : sorted[n] = lines[k] /\ rank[k] = n - 1
    BY <1>8
  <2>3. rank[j] < rank[k] /\ rank[j] \in Nat /\ rank[k] \in Nat
    <3>1. m \in Nat /\ n \in Nat
      BY DEF D
    <3> QED
      BY <1>3, <1>11, <2>1, <2>2, <3>1
  <2>4. ~ (Num(k) < Num(j)) /\ Num(k) # Num(j)
    <3>1. Num(k) = Num(j) => k = j
      BY <1>1
    <3> QED
      BY <1>4, <2>3, <3>1
  <2>5. Num(j) < Num(k)
    BY <1>1, <2>4
  <2> QED
    BY <2>1, <2>2, <2>5 DEF Num
<1> QED
  BY <1>8, <1>9, <1>10, <1>11 DEF D, Sorts

-----------------------------------------------------------------------------
(***************************************************************************)
(* The cursor goes down the pages.                                         *)
(***************************************************************************)
Positions == [page : Nat \ {0}, y : Nat]

\* The cursor below something of a height, drawn where the table goes on.
Below(cursor, height) ==
    LET place == Place(cursor, height, Continued)
    IN  [place EXCEPT !.y = @ + height]

TableTop(inv) == Margin + inv.header + HeadingHeight

\* A cursor within the table: below the heading of its page.
InTable(inv, cursor) ==
    /\ cursor \in Positions
    /\ Continued <= cursor.y /\ cursor.y <= PageBottom
    /\ cursor.page = 1 => TableTop(inv) <= cursor.y

LEMMA Sizes ==
    /\ PageHeight \in Nat /\ Margin \in Nat /\ Margin > 0 /\ FooterHeight \in Nat /\ FooterHeight > 0
    /\ NumberDrop \in Nat /\ NumberHeight \in Nat /\ NumberDrop > 0 /\ NumberHeight > 0
    /\ HeadingHeight \in Nat /\ HeadingHeight > 0 /\ Gap \in Nat /\ TotalHeight \in Nat /\ TotalHeight > 0
    /\ PageBottom \in Nat /\ PageBottom >= Margin + HeadingHeight + 3 * TotalHeight
    /\ PageBottom = PageHeight - Margin - FooterHeight
    /\ NumberDrop + NumberHeight <= Margin
    /\ Continued = Margin + HeadingHeight /\ Continued \in Nat
<1>1. /\ PageHeight \in Nat \ {0} /\ Margin \in Nat \ {0} /\ FooterHeight \in Nat \ {0}
      /\ NumberDrop \in Nat \ {0} /\ NumberHeight \in Nat \ {0} /\ HeadingHeight \in Nat \ {0}
      /\ Gap \in Nat \ {0} /\ TotalHeight \in Nat \ {0}
      /\ PageBottom >= Margin + HeadingHeight + 3 * TotalHeight
      /\ NumberDrop + NumberHeight <= Margin
  BY LayoutAssumption
<1> QED
  BY <1>1 DEF PageBottom, Continued

LEMMA BelowInTable ==
    ASSUME NEW inv, TableTop(inv) \in Nat, TableTop(inv) >= Continued,
           NEW cursor, InTable(inv, cursor),
           NEW height \in Nat \ {0}, Continued + height <= PageBottom,
           NEW after, after = Below(cursor, height)
    PROVE  /\ InTable(inv, after)
           /\ after.page \in {cursor.page, cursor.page + 1}
           /\ after.page = cursor.page => after.y = cursor.y + height
           /\ after.page # cursor.page => after.y = Continued + height
<1>1. cursor.page \in Nat \ {0} /\ cursor.y \in Nat /\ cursor = [page |-> cursor.page, y |-> cursor.y]
  BY DEF InTable, Positions
<1>2. CASE cursor.y + height <= PageBottom
  <2>1. after = [page |-> cursor.page, y |-> cursor.y + height]
    BY <1>1, <1>2 DEF Below, Place
  <2>2. after \in Positions
    BY <1>1, <2>1 DEF Positions
  <2> QED
    BY <1>1, <1>2, <2>1, <2>2, Sizes DEF InTable
<1>3. CASE ~ (cursor.y + height <= PageBottom)
  <2>1. after = [page |-> cursor.page + 1, y |-> Continued + height]
    BY <1>1, <1>3 DEF Below, Place
  <2>2. after \in Positions
    BY <1>1, <2>1, Sizes DEF Positions
  <2> QED
    BY <1>1, <1>3, <2>1, <2>2, Sizes DEF InTable
<1> QED
  BY <1>2, <1>3

\* The positions after each of the first lines.
Tracks(inv, sorted, n) ==
    {g \in [0..n -> Positions] :
        \A i \in 0..n : /\ InTable(inv, g[i])
                        /\ g[i] = IF i = 0 THEN [page |-> 1, y |-> TableTop(inv)]
                                  ELSE Below(g[i - 1], sorted[i].height)}

Printable(inv) ==
    /\ Fit(inv.lines)
    /\ inv.header \in Nat \ {0} /\ Margin + inv.header + HeadingHeight <= PageBottom

\* The recursive function of Cursor exists: its prefixes are built one by one.
LEMMA TrackExists ==
    ASSUME NEW inv, Printable(inv), NEW sorted, NEW N \in Nat,
           \A n \in 1..N : sorted[n].height \in Nat \ {0} /\ Continued + sorted[n].height <= PageBottom
    PROVE  Tracks(inv, sorted, N) # {}
<1> DEFINE S == {n \in 0..N : Tracks(inv, sorted, n) # {}}
<1>0. TableTop(inv) \in Nat /\ Continued <= TableTop(inv) /\ TableTop(inv) <= PageBottom
  BY Sizes DEF Printable, TableTop
<1>1. 0 \in S
  <2> DEFINE first == [page |-> 1, y |-> TableTop(inv)]
             g == [i \in 0..0 |-> first]
  <2>1. first \in Positions /\ InTable(inv, first)
    BY <1>0 DEF Positions, InTable
  <2>2. g \in Tracks(inv, sorted, 0)
    <3>1. g \in [0..0 -> Positions]
      BY <2>1
    <3>2. \A i \in 0..0 : i = 0 /\ g[i] = first
      OBVIOUS
    <3> HIDE DEF first, g
    <3>3. \A i \in 0..0 : InTable(inv, g[i]) /\ g[i] = IF i = 0 THEN first ELSE Below(g[i - 1], sorted[i].height)
      BY <2>1, <3>2
    <3> QED
      BY <3>1, <3>3 DEF Tracks, first
  <2> QED
    BY <2>2
<1>2. ASSUME NEW n \in 0..N, n < N, n \in S PROVE n + 1 \in S
  <2>1. PICK g : g \in Tracks(inv, sorted, n)
    BY <1>2
  <2>2. /\ g \in [0..n -> Positions]
        /\ \A i \in 0..n : /\ InTable(inv, g[i])
                           /\ g[i] = IF i = 0 THEN [page |-> 1, y |-> TableTop(inv)]
                                     ELSE Below(g[i - 1], sorted[i].height)
    BY <2>1 DEF Tracks
  <2> DEFINE next == Below(g[n], sorted[n + 1].height)
             h == [i \in 0..(n + 1) |-> IF i = n + 1 THEN next ELSE g[i]]
  <2>3. InTable(inv, next)
    <3>1. sorted[n + 1].height \in Nat \ {0} /\ Continued + sorted[n + 1].height <= PageBottom
      BY <1>2
    <3>2. InTable(inv, g[n])
      BY <2>2
    <3> QED
      BY <1>0, <3>1, <3>2, BelowInTable
  <2> HIDE DEF next
  <2>4. h \in [0..(n + 1) -> Positions]
    BY <2>2, <2>3 DEF InTable
  <2>5. ASSUME NEW i \in 0..(n + 1)
        PROVE  /\ InTable(inv, h[i])
               /\ h[i] = IF i = 0 THEN [page |-> 1, y |-> TableTop(inv)]
                         ELSE Below(h[i - 1], sorted[i].height)
    <3>1. CASE i = n + 1
      <4>1. i # 0 /\ h[i] = next /\ h[i - 1] = g[n]
        BY <3>1
      <4> QED
        BY <2>3, <3>1, <4>1 DEF next
    <3>2. CASE i # n + 1
      <4>1. i \in 0..n /\ h[i] = g[i] /\ (i # 0 => h[i - 1] = g[i - 1])
        BY <3>2
      <4> QED
        BY <2>2, <4>1
    <3> QED
      BY <3>1, <3>2
  <2> HIDE DEF h
  <2>6. h \in Tracks(inv, sorted, n + 1)
    BY <2>4, <2>5 DEF Tracks
  <2> QED
    BY <1>2, <2>6
<1>3. N \in S
  <2> HIDE DEF S
  <2>1. 0..N \subseteq S
    BY <1>1, <1>2, UpTo
  <2> QED
    BY <2>1
<1> QED
  BY <1>3

\* What holds of the lines as they are drawn.
LEMMA SortedFit ==
    ASSUME NEW lines, Fit(lines), NEW sorted, sorted = InOrder(lines)
    PROVE  /\ sorted \in Seq(Line) /\ Len(sorted) = Len(lines) /\ Len(lines) \in Nat
           /\ \A n \in 1..Len(lines) :
                 /\ sorted[n].height \in Nat \ {0} /\ sorted[n].lineNumber \in Nat
                 /\ Continued + sorted[n].height <= PageBottom
<1>0. Sorts(lines, sorted)
  BY InOrderSorts
<1>1. /\ DOMAIN sorted = 1..Len(lines)
      /\ \A n \in 1..Len(lines) : \E k \in 1..Len(lines) : sorted[n] = lines[k]
  BY <1>0 DEF Sorts
<1>2. /\ Len(lines) \in Nat
      /\ \A k \in 1..Len(lines) : lines[k] \in Line /\ Margin + HeadingHeight + lines[k].height <= PageBottom
  <2>1. lines \in Seq(Line) /\ \A k \in DOMAIN lines : Margin + HeadingHeight + lines[k].height <= PageBottom
    BY DEF Fit
  <2> QED
    BY <2>1
<1>3. \A n \in 1..Len(lines) : sorted[n] \in Line /\ Margin + HeadingHeight + sorted[n].height <= PageBottom
  BY <1>1, <1>2
<1>4. sorted = [n \in 1..Len(lines) |-> sorted[n]]
  BY <1>1 DEF InOrder
<1>5. sorted \in Seq(Line) /\ Len(sorted) = Len(lines)
  <2> DEFINE N == Len(lines)
  <2>1. N \in Nat /\ sorted \in [1..N -> Line]
    BY <1>2, <1>3, <1>4
  <2> HIDE DEF N
  <2>2. sorted \in Seq(Line) /\ Len(sorted) = N
    BY <2>1
  <2> QED
    BY <2>2 DEF N
<1> QED
  BY <1>2, <1>3, <1>5, Sizes DEF Line

\* Each line's cursor is below that of the line before, on its page or the next.
LEMMA CursorSteps ==
    ASSUME NEW inv, Printable(inv), NEW sorted, sorted = InOrder(inv.lines),
           NEW N, N = Len(inv.lines), NEW C, C = Cursor(inv)
    PROVE  /\ C[0] = [page |-> 1, y |-> TableTop(inv)]
           /\ \A n \in 1..N : C[n] = Below(C[n - 1], sorted[n].height)
           /\ \A n \in 0..N : InTable(inv, C[n])
<1> DEFINE Def(g) == [n \in 0..Len(sorted) |->
                        IF n = 0 THEN [page |-> 1, y |-> Margin + inv.header + HeadingHeight]
                        ELSE LET place == Place(g[n - 1], sorted[n].height, Continued)
                             IN  [place EXCEPT !.y = @ + sorted[n].height]]
           r == CHOOSE g : g = Def(g)
<1>1. /\ N \in Nat /\ Len(sorted) = N
      /\ \A n \in 1..N : sorted[n].height \in Nat \ {0} /\ Continued + sorted[n].height <= PageBottom
  BY SortedFit DEF Printable
<1>2. PICK t : t \in Tracks(inv, sorted, N)
  BY <1>1, TrackExists
<1>3. \A g : Def(g) = [n \in 0..N |-> IF n = 0 THEN [page |-> 1, y |-> TableTop(inv)]
                                       ELSE Below(g[n - 1], sorted[n].height)]
  BY <1>1 DEF Below, TableTop
<1>4. t = Def(t)
  <2>1. t = [n \in 0..N |-> t[n]]
    BY <1>2 DEF Tracks
  <2>2. \A i \in 0..N : t[i] = IF i = 0 THEN [page |-> 1, y |-> TableTop(inv)]
                               ELSE Below(t[i - 1], sorted[i].height)
    BY <1>2 DEF Tracks
  <2> HIDE DEF Def
  <2> QED
    BY <1>3, <2>1, <2>2
<1>5. C = r
  BY DEF Cursor
<1>6. r = Def(r)
  <2> HIDE DEF Def
  <2> QED
    BY <1>4
<1> HIDE DEF Def, r
<1>7. \A n \in 0..N : C[n] = IF n = 0 THEN [page |-> 1, y |-> TableTop(inv)] ELSE Below(C[n - 1], sorted[n].height)
  BY <1>3, <1>5, <1>6
<1>8. 0 \in 0..N /\ \A n \in 1..N : n \in 0..N /\ n # 0
  BY <1>1
<1>9. C[0] = [page |-> 1, y |-> TableTop(inv)] /\ \A n \in 1..N : C[n] = Below(C[n - 1], sorted[n].height)
  BY <1>7, <1>8
<1>10. TableTop(inv) \in Nat /\ Continued <= TableTop(inv) /\ TableTop(inv) <= PageBottom
  BY Sizes DEF Printable, TableTop
<1> DEFINE T == {n \in 0..N : InTable(inv, C[n])}
<1>11. 0 \in T
  BY <1>8, <1>9, <1>10 DEF InTable, Positions
<1>12. ASSUME NEW n \in 0..N, n < N, n \in T PROVE n + 1 \in T
  <2>1. n + 1 \in 1..N /\ n + 1 \in 0..N /\ C[n + 1] = Below(C[n], sorted[n + 1].height)
    BY <1>1, <1>9, <1>12
  <2>2. InTable(inv, C[n + 1])
    BY <1>1, <1>10, <1>12, <2>1, BelowInTable
  <2> QED
    BY <2>1, <2>2
<1>13. \A n \in 0..N : InTable(inv, C[n])
  <2> HIDE DEF T
  <2>1. 0..N \subseteq T
    BY <1>1, <1>11, <1>12, UpTo
  <2> QED
    BY <2>1 DEF T
<1> QED
  BY <1>9, <1>13

\* Reading on from a position one comes to the other.
ReadsOn(c, d) == c.page < d.page \/ (c.page = d.page /\ c.y <= d.y)

\* The cursor never goes back.
LEMMA CursorClimbs ==
    ASSUME NEW N \in Nat, NEW C, \A n \in 0..N : C[n] \in Positions,
           \A n \in 1..N : ReadsOn(C[n - 1], C[n])
    PROVE  \A m, n \in 0..N : m <= n => ReadsOn(C[m], C[n])
<1> DEFINE S == {n \in 0..N : \A m \in 0..n : ReadsOn(C[m], C[n])}
<1>0. \A n \in 0..N : C[n].page \in Nat /\ C[n].y \in Nat
  BY DEF Positions
<1>1. 0 \in S
  BY <1>0 DEF ReadsOn
<1>2. ASSUME NEW n \in 0..N, n < N, n \in S PROVE n + 1 \in S
  <2>1. n + 1 \in 1..N /\ n + 1 \in 0..N
    BY <1>2
  <2>2. ReadsOn(C[n], C[n + 1])
    <3>1. ReadsOn(C[(n + 1) - 1], C[n + 1]) /\ (n + 1) - 1 = n
      BY <2>1
    <3> QED
      BY <3>1
  <2>3. ASSUME NEW m \in 0..(n + 1) PROVE ReadsOn(C[m], C[n + 1])
    <3>1. CASE m = n + 1
      BY <1>0, <2>1, <3>1 DEF ReadsOn
    <3>2. CASE m # n + 1
      <4>1. m \in 0..n /\ ReadsOn(C[m], C[n])
        BY <1>2, <3>2
      <4>2. m \in 0..N
        BY <4>1
      <4> QED
        BY <1>0, <2>1, <2>2, <4>1, <4>2 DEF ReadsOn
    <3> QED
      BY <3>1, <3>2
  <2> QED
    BY <2>1, <2>3
<1>3. 0..N \subseteq S
  <2> HIDE DEF S
  <2> QED
    BY <1>1, <1>2, UpTo
<1> QED
  BY <1>3

HeaderBox(inv) == Box(<<"header">>, 1, Margin, inv.header)
HeadingBox(inv, p) == Box(<<"heading">>, p, IF p = 1 THEN Margin + inv.header ELSE Margin, HeadingHeight)
LineBox(sorted, C, n) ==
    Box(<<"line", sorted[n].lineNumber>>, C[n].page, C[n].y - sorted[n].height, sorted[n].height)
SumBox(labels, place, n) == Box(<<labels[n]>>, place.page, place.y + (n - 1) * TotalHeight, TotalHeight)
NumberBox(p, P) == Box(<<"page", p, P>>, p, PageHeight - Margin + NumberDrop, NumberHeight)

Content(inv, N, sorted, C, labels, place) ==
    {HeaderBox(inv)} \cup {HeadingBox(inv, p) : p \in 1..C[N].page}
       \cup {LineBox(sorted, C, n) : n \in 1..N} \cup {SumBox(labels, place, n) : n \in DOMAIN labels}

\* A document: the lines in their order, the cursor after each, and the totals below
\* the last or on a page of their own.
Drawing(inv, N, sorted, C, labels, place) ==
    /\ Printable(inv)
    /\ N = Len(inv.lines) /\ N \in Nat /\ Sorts(inv.lines, sorted)
    /\ \A n \in 1..N : sorted[n].height \in Nat \ {0} /\ sorted[n].lineNumber \in Nat
    /\ \A n \in 0..N : InTable(inv, C[n])
    /\ \A n \in 1..N :
          \/ C[n].page = C[n - 1].page /\ C[n].y = C[n - 1].y + sorted[n].height
          \/ C[n].page = C[n - 1].page + 1 /\ C[n].y = Continued + sorted[n].height
    /\ \A m, n \in 0..N : m <= n => ReadsOn(C[m], C[n])
    /\ C[0].page = 1
    /\ labels = IF inv.taxed THEN <<"subtotal", "tax", "total">> ELSE <<"subtotal", "total">>
    /\ place \in Positions /\ Margin <= place.y /\ place.y + Len(labels) * TotalHeight <= PageBottom
    /\ \/ place.page = C[N].page /\ C[N].y <= place.y
       \/ place.page = C[N].page + 1

LEMMA DrawingOf ==
    ASSUME NEW inv, Printable(inv)
    PROVE  \E N, sorted, C, labels, place :
              /\ Drawing(inv, N, sorted, C, labels, place)
              /\ RenderInvoicePdf(inv)
                    = Content(inv, N, sorted, C, labels, place)
                        \cup Footers(Content(inv, N, sorted, C, labels, place))
<1>1. PICK N, sorted, C : N = Len(inv.lines) /\ sorted = InOrder(inv.lines) /\ C = Cursor(inv)
  OBVIOUS
<1>2. PICK labels : labels = IF inv.taxed THEN <<"subtotal", "tax", "total">> ELSE <<"subtotal", "total">>
  OBVIOUS
<1>3. PICK below : below = [C[N] EXCEPT !.y = @ + Gap]
  OBVIOUS
<1>4. PICK place : place = Place(below, Len(labels) * TotalHeight, Margin)
  OBVIOUS
<1>5. Fit(inv.lines)
  BY DEF Printable
<1>6. Sorts(inv.lines, sorted)
  BY <1>1, <1>5, InOrderSorts
<1>7. /\ N \in Nat
      /\ \A n \in 1..N : /\ sorted[n].height \in Nat \ {0} /\ sorted[n].lineNumber \in Nat
                         /\ Continued + sorted[n].height <= PageBottom
  BY <1>1, <1>5, SortedFit
<1>8. /\ C[0] = [page |-> 1, y |-> TableTop(inv)]
      /\ \A n \in 1..N : C[n] = Below(C[n - 1], sorted[n].height)
      /\ \A n \in 0..N : InTable(inv, C[n])
  BY <1>1, CursorSteps
<1>9. ASSUME NEW n \in 1..N
      PROVE  /\ C[n].page \in {C[n - 1].page, C[n - 1].page + 1}
             /\ C[n].page = C[n - 1].page => C[n].y = C[n - 1].y + sorted[n].height
             /\ C[n].page # C[n - 1].page => C[n].y = Continued + sorted[n].height
  <2>1. TableTop(inv) \in Nat /\ TableTop(inv) >= Continued
    BY Sizes DEF Printable, TableTop
  <2>2. n - 1 \in 0..N
    BY <1>7
  <2>3. InTable(inv, C[n - 1]) /\ C[n] = Below(C[n - 1], sorted[n].height)
    BY <1>8, <2>2
  <2> QED
    BY <1>7, <2>1, <2>3, BelowInTable
<1>10. \A m, n \in 0..N : m <= n => ReadsOn(C[m], C[n])
  <2>1. \A n \in 0..N : C[n] \in Positions
    BY <1>8 DEF InTable
  <2>2. ASSUME NEW n \in 1..N PROVE ReadsOn(C[n - 1], C[n])
    <3>1. n - 1 \in 0..N /\ n \in 0..N
      BY <1>7
    <3>2. C[n - 1].page \in Nat /\ C[n - 1].y \in Nat
      BY <2>1, <3>1 DEF Positions
    <3>3. sorted[n].height \in Nat
      BY <1>7
    <3> QED
      BY <1>9, <3>2, <3>3 DEF ReadsOn
  <2> QED
    BY <1>7, <2>1, <2>2, CursorClimbs
<1>11. Len(labels) \in {2, 3}
  <2>1. CASE inv.taxed
    BY <1>2, <2>1
  <2>2. CASE ~inv.taxed
    BY <1>2, <2>2
  <2> QED
    BY <2>1, <2>2
<1>12. /\ place \in Positions /\ Margin <= place.y /\ place.y + Len(labels) * TotalHeight <= PageBottom
       /\ \/ place.page = C[N].page /\ C[N].y <= place.y
          \/ place.page = C[N].page + 1
  <2>1. C[N] \in Positions /\ Continued <= C[N].y
    BY <1>7, <1>8 DEF InTable
  <2>2. below = [page |-> C[N].page, y |-> C[N].y + Gap]
    BY <1>3, <2>1 DEF Positions
  <2>3. PICK tall \in Nat : tall = Len(labels) * TotalHeight /\ tall <= 3 * TotalHeight
    <3>1. 2 * TotalHeight \in Nat /\ 3 * TotalHeight \in Nat /\ 2 * TotalHeight <= 3 * TotalHeight
      BY Sizes
    <3>2. CASE Len(labels) = 2
      BY <3>1, <3>2
    <3>3. CASE Len(labels) = 3
      BY <3>1, <3>3
    <3> QED
      BY <1>11, <3>2, <3>3
  <2>4. CASE C[N].y + Gap + tall <= PageBottom
    <3>1. place = [page |-> C[N].page, y |-> C[N].y + Gap]
      BY <1>4, <2>2, <2>3, <2>4 DEF Place
    <3>2. place \in Positions
      BY <2>1, <3>1, Sizes DEF Positions
    <3> QED
      BY <2>1, <2>3, <2>4, <3>1, <3>2, Sizes DEF Positions
  <2>5. CASE ~ (C[N].y + Gap + tall <= PageBottom)
    <3>1. place = [page |-> C[N].page + 1, y |-> Margin]
      BY <1>4, <2>2, <2>3, <2>5 DEF Place
    <3>2. place \in Positions
      BY <2>1, <3>1, Sizes DEF Positions
    <3> QED
      BY <2>1, <2>3, <3>1, <3>2, Sizes DEF Positions
  <2> QED
    BY <2>4, <2>5
<1>13. Drawing(inv, N, sorted, C, labels, place)
  <2>1. C[0].page = 1
    BY <1>8
  <2>2. \A n \in 1..N :
           \/ C[n].page = C[n - 1].page /\ C[n].y = C[n - 1].y + sorted[n].height
           \/ C[n].page = C[n - 1].page + 1 /\ C[n].y = Continued + sorted[n].height
    <3>1. ASSUME NEW n \in 1..N
          PROVE  \/ C[n].page = C[n - 1].page /\ C[n].y = C[n - 1].y + sorted[n].height
                 \/ C[n].page = C[n - 1].page + 1 /\ C[n].y = Continued + sorted[n].height
      <4>1. n - 1 \in 0..N
        BY <1>7
      <4>2. C[n - 1].page \in Nat
        BY <1>8, <4>1 DEF InTable, Positions
      <4> QED
        BY <1>9, <4>2
    <3> QED
      BY <3>1
  <2> QED
    BY <1>1, <1>2, <1>6, <1>7, <1>8, <1>10, <1>12, <2>1, <2>2 DEF Drawing
<1>14. Headings(inv) = {HeadingBox(inv, p) : p \in 1..C[N].page}
  BY <1>1 DEF Headings, HeadingBox
<1>15. Drawn(Rows(inv)) = {LineBox(sorted, C, n) : n \in 1..N}
  <2>1. DOMAIN sorted = 1..N
    BY <1>1, <1>6 DEF Sorts
  <2>2. Rows(inv) = [n \in 1..N |-> LineBox(sorted, C, n)]
    BY <1>1, <2>1 DEF Rows, LineBox
  <2> QED
    BY <2>2 DEF Drawn
<1>16. Drawn(Totals(inv)) = {SumBox(labels, place, n) : n \in DOMAIN labels}
  <2>1. Totals(inv) = [n \in DOMAIN labels |-> SumBox(labels, place, n)]
    BY <1>1, <1>2, <1>3, <1>4 DEF Totals, SumBox
  <2> QED
    BY <2>1 DEF Drawn
<1>17. RenderInvoicePdf(inv)
          = Content(inv, N, sorted, C, labels, place) \cup Footers(Content(inv, N, sorted, C, labels, place))
  BY <1>14, <1>15, <1>16, Zenon DEF RenderInvoicePdf, Content, HeaderBox
<1> QED
  BY <1>13, <1>17

-----------------------------------------------------------------------------
(***************************************************************************)
(* Where each kind of box is.                                              *)
(***************************************************************************)
\* What is drawn at a cursor or further on.
From(c, b) == c.page < b.page \/ (c.page = b.page /\ c.y <= b.top)

LEMMA HeaderAt ==
    ASSUME NEW inv, Printable(inv), NEW b, b = HeaderBox(inv)
    PROVE  /\ b.what = <<"header">> /\ b.page = 1 /\ b.top = Margin /\ b.bottom = Margin + inv.header
           /\ b.bottom \in Nat /\ b.bottom <= PageBottom
           /\ TableTop(inv) = b.bottom + HeadingHeight
<1>1. inv.header \in Nat \ {0} /\ Margin + inv.header + HeadingHeight <= PageBottom
  BY DEF Printable
<1>2. b = [what |-> <<"header">>, page |-> 1, top |-> Margin, bottom |-> Margin + inv.header]
  BY DEF HeaderBox, Box
<1> QED
  BY <1>1, <1>2, Sizes DEF TableTop

LEMMA HeadingAt ==
    ASSUME NEW inv, Printable(inv), NEW p \in Nat \ {0}, NEW b, b = HeadingBox(inv, p)
    PROVE  /\ b.what = <<"heading">> /\ b.page = p
           /\ b.top \in Nat /\ b.bottom \in Nat /\ b.top >= Margin /\ b.bottom <= PageBottom
           /\ p = 1 => b.top = Margin + inv.header /\ b.bottom = TableTop(inv)
           /\ p # 1 => b.bottom = Continued
<1>1. inv.header \in Nat \ {0} /\ Margin + inv.header + HeadingHeight <= PageBottom
  BY DEF Printable
<1>2. CASE p = 1
  <2>1. b = [what |-> <<"heading">>, page |-> p, top |-> Margin + inv.header,
             bottom |-> Margin + inv.header + HeadingHeight]
    BY <1>2 DEF HeadingBox, Box
  <2> QED
    BY <1>1, <1>2, <2>1, Sizes DEF TableTop
<1>3. CASE p # 1
  <2>1. b = [what |-> <<"heading">>, page |-> p, top |-> Margin, bottom |-> Margin + HeadingHeight]
    BY <1>3 DEF HeadingBox, Box
  <2> QED
    BY <1>1, <1>3, <2>1, Sizes
<1> QED
  BY <1>2, <1>3

LEMMA LineAt ==
    ASSUME NEW inv, NEW N, NEW sorted, NEW C, NEW labels, NEW place,
           Drawing(inv, N, sorted, C, labels, place),
           NEW n \in 1..N, NEW b, b = LineBox(sorted, C, n)
    PROVE  /\ b.what = <<"line", sorted[n].lineNumber>> /\ b.page = C[n].page /\ b.bottom = C[n].y
           /\ b.page \in 1..C[N].page /\ b.top \in Nat /\ b.bottom \in Nat
           /\ Continued <= b.top /\ b.bottom <= PageBottom
           /\ b.page = 1 => TableTop(inv) <= b.top
           /\ From(C[n - 1], b)
<1>1. N \in Nat /\ n \in 0..N /\ n - 1 \in 0..N /\ N \in 0..N
  BY DEF Drawing
<1>2. /\ sorted[n].height \in Nat \ {0}
      /\ InTable(inv, C[n]) /\ InTable(inv, C[n - 1]) /\ InTable(inv, C[N])
      /\ \/ C[n].page = C[n - 1].page /\ C[n].y = C[n - 1].y + sorted[n].height
         \/ C[n].page = C[n - 1].page + 1 /\ C[n].y = Continued + sorted[n].height
  BY <1>1 DEF Drawing
<1>3. ReadsOn(C[n], C[N])
  <2>1. n <= N
    BY <1>1
  <2> QED
    BY <1>1, <2>1 DEF Drawing
<1>4. PICK h : h = sorted[n].height
  OBVIOUS
<1>5. b = [what |-> <<"line", sorted[n].lineNumber>>, page |-> C[n].page, top |-> C[n].y - h,
           bottom |-> (C[n].y - h) + h]
  BY <1>4 DEF LineBox, Box
<1>6. /\ C[n].page \in Nat \ {0} /\ C[n].y \in Nat /\ C[n - 1].page \in Nat \ {0} /\ C[n - 1].y \in Nat
      /\ C[N].page \in Nat \ {0} /\ C[N].y \in Nat /\ C[n].y <= PageBottom
      /\ Continued <= C[n - 1].y /\ (C[n - 1].page = 1 => TableTop(inv) <= C[n - 1].y)
  BY <1>2 DEF InTable, Positions
<1>7. C[n].page <= C[N].page
  BY <1>3, <1>6 DEF ReadsOn
<1>8. b.what = <<"line", sorted[n].lineNumber>> /\ b.page = C[n].page /\ b.top = C[n].y - h /\ b.bottom = C[n].y
  BY <1>2, <1>4, <1>5, <1>6
<1> HIDE DEF Drawing
<1>9. CASE C[n].page = C[n - 1].page /\ C[n].y = C[n - 1].y + h
  BY <1>2, <1>4, <1>6, <1>7, <1>8, <1>9, Sizes DEF From
<1>10. CASE C[n].page = C[n - 1].page + 1 /\ C[n].y = Continued + h
  BY <1>2, <1>4, <1>6, <1>7, <1>8, <1>10, Sizes DEF From
<1> QED
  BY <1>2, <1>4, <1>9, <1>10

LEMMA SumAt ==
    ASSUME NEW inv, NEW N, NEW sorted, NEW C, NEW labels, NEW place,
           Drawing(inv, N, sorted, C, labels, place),
           NEW n \in DOMAIN labels, NEW b, b = SumBox(labels, place, n)
    PROVE  /\ b.what = <<labels[n]>> /\ b.page = place.page /\ b.page \in {C[N].page, C[N].page + 1}
           /\ b.page \in Nat \ {0} /\ b.top \in Nat /\ b.bottom \in Nat
           /\ Margin <= b.top /\ b.bottom <= PageBottom
           /\ From(C[N], b)
           /\ b.top = place.y + (n - 1) * TotalHeight /\ b.bottom = place.y + n * TotalHeight
           /\ n \in {1, 2, 3}
<1>1. /\ place \in Positions /\ Margin <= place.y /\ place.y + Len(labels) * TotalHeight <= PageBottom
      /\ \/ place.page = C[N].page /\ C[N].y <= place.y
         \/ place.page = C[N].page + 1
  BY DEF Drawing
<1>2. C[N].page \in Nat \ {0} /\ C[N].y \in Nat
  <2>1. N \in 0..N
    BY DEF Drawing
  <2> QED
    BY <2>1 DEF Drawing, InTable, Positions
<1>3. place.page \in Nat \ {0} /\ place.y \in Nat
  BY <1>1 DEF Positions
<1>4. /\ Len(labels) = 2 \/ Len(labels) = 3
      /\ n = 1 \/ n = 2 \/ (n = 3 /\ Len(labels) = 3)
  <2>1. labels = IF inv.taxed THEN <<"subtotal", "tax", "total">> ELSE <<"subtotal", "total">>
    BY DEF Drawing
  <2>2. CASE inv.taxed
    BY <2>1, <2>2
  <2>3. CASE ~inv.taxed
    BY <2>1, <2>3
  <2> QED
    BY <2>2, <2>3
<1>5. b = [what |-> <<labels[n]>>, page |-> place.page, top |-> place.y + (n - 1) * TotalHeight,
           bottom |-> place.y + (n - 1) * TotalHeight + TotalHeight]
  BY DEF SumBox, Box
<1>6. /\ 1 * TotalHeight = TotalHeight /\ 0 * TotalHeight = 0 /\ 2 * TotalHeight = TotalHeight + TotalHeight
      /\ 3 * TotalHeight = TotalHeight + TotalHeight + TotalHeight
  BY Sizes
<1>7. PICK before, all \in Nat :
         /\ before = (n - 1) * TotalHeight /\ all = Len(labels) * TotalHeight
         /\ before + TotalHeight = n * TotalHeight /\ before + TotalHeight <= all
  <2>1. CASE n = 1
    BY <1>4, <1>6, <2>1, Sizes
  <2>2. CASE n = 2
    BY <1>4, <1>6, <2>2, Sizes
  <2>3. CASE n = 3 /\ Len(labels) = 3
    BY <1>6, <2>3, Sizes
  <2> QED
    BY <1>4, <2>1, <2>2, <2>3
<1>8. b.what = <<labels[n]>> /\ b.page = place.page /\ b.top = place.y + before
         /\ b.bottom = place.y + before + TotalHeight
  BY <1>5, <1>7
<1>9. b.top \in Nat /\ b.bottom \in Nat /\ Margin <= b.top /\ b.bottom <= PageBottom
  <2>1. Margin <= place.y /\ place.y + all <= PageBottom
    BY <1>1, <1>7
  <2>2. before \in Nat /\ all \in Nat /\ before + TotalHeight <= all
    BY <1>7
  <2> QED
    BY <1>3, <1>8, <2>1, <2>2, Sizes
<1>10. From(C[N], b) /\ b.page \in {C[N].page, C[N].page + 1}
  BY <1>1, <1>2, <1>3, <1>7, <1>8 DEF From
<1>11. b.bottom = place.y + n * TotalHeight /\ n \in {1, 2, 3}
  BY <1>3, <1>4, <1>7, <1>8, Sizes
<1> QED
  BY <1>3, <1>7, <1>8, <1>9, <1>10, <1>11

LEMMA NumberAt ==
    ASSUME NEW p \in Nat \ {0}, NEW P, NEW b, b = NumberBox(p, P)
    PROVE  /\ b.what = <<"page", p, P>> /\ b.page = p
           /\ b.top \in Nat /\ b.bottom \in Nat
           /\ Margin <= b.top /\ PageBottom <= b.top /\ b.bottom <= PageHeight
<1>1. b = [what |-> <<"page", p, P>>, page |-> p, top |-> PageHeight - Margin + NumberDrop,
           bottom |-> PageHeight - Margin + NumberDrop + NumberHeight]
  BY DEF NumberBox, Box
<1> QED
  BY <1>1, Sizes

-----------------------------------------------------------------------------
(***************************************************************************)
(* The boxes follow one another.                                           *)
(***************************************************************************)
Reads(inv, N, sorted, C, labels, place) ==
    /\ \A p \in 1..C[N].page : ReadBefore(HeaderBox(inv), HeadingBox(inv, p))
    /\ \A n \in 1..N : ReadBefore(HeaderBox(inv), LineBox(sorted, C, n))
    /\ \A n \in DOMAIN labels : ReadBefore(HeaderBox(inv), SumBox(labels, place, n))
    /\ \A p, q \in 1..C[N].page : p < q => ReadBefore(HeadingBox(inv, p), HeadingBox(inv, q))
    /\ \A p \in 1..C[N].page, n \in 1..N :
          IF p <= C[n].page THEN ReadBefore(HeadingBox(inv, p), LineBox(sorted, C, n))
          ELSE ReadBefore(LineBox(sorted, C, n), HeadingBox(inv, p))
    /\ \A p \in 1..C[N].page, n \in DOMAIN labels : ReadBefore(HeadingBox(inv, p), SumBox(labels, place, n))
    /\ \A m, n \in 1..N : m < n => ReadBefore(LineBox(sorted, C, m), LineBox(sorted, C, n))
    /\ \A m \in 1..N, n \in DOMAIN labels : ReadBefore(LineBox(sorted, C, m), SumBox(labels, place, n))
    /\ \A m, n \in DOMAIN labels : m < n => ReadBefore(SumBox(labels, place, m), SumBox(labels, place, n))

LEMMA ReadsInOrder ==
    ASSUME NEW inv, NEW N, NEW sorted, NEW C, NEW labels, NEW place,
           Drawing(inv, N, sorted, C, labels, place)
    PROVE  Reads(inv, N, sorted, C, labels, place)
<1>0. /\ Printable(inv) /\ N \in Nat
      /\ \A n \in 0..N : InTable(inv, C[n]) /\ C[n].page \in Nat \ {0} /\ C[n].y \in Nat
      /\ \A m, n \in 0..N : m <= n => ReadsOn(C[m], C[n])
      /\ C[N].page \in Nat \ {0} /\ C[N].y \in Nat
      /\ C[N].page = 1 => TableTop(inv) <= C[N].y
      /\ Continued <= C[N].y
  <2>1. Printable(inv) /\ N \in Nat
    BY DEF Drawing
  <2>2. \A n \in 0..N : InTable(inv, C[n]) /\ C[n].page \in Nat \ {0} /\ C[n].y \in Nat
    BY DEF Drawing, InTable, Positions
  <2>3. \A m, n \in 0..N : m <= n => ReadsOn(C[m], C[n])
    BY DEF Drawing
  <2>4. N \in 0..N
    BY <2>1
  <2> QED
    BY <2>1, <2>2, <2>3, <2>4 DEF InTable
<1>1. \A p \in 1..C[N].page : p \in Nat \ {0}
  BY <1>0
<1>2. TableTop(inv) \in Nat
  BY <1>0, Sizes DEF Printable, TableTop
<1>3. ASSUME NEW p \in 1..C[N].page PROVE ReadBefore(HeaderBox(inv), HeadingBox(inv, p))
  <2>1. PICK a, b : a = HeaderBox(inv) /\ b = HeadingBox(inv, p)
    OBVIOUS
  <2>2. a.page = 1 /\ a.bottom = Margin + inv.header /\ a.bottom \in Nat
    BY <1>0, <2>1, HeaderAt
  <2>3. b.page = p /\ (p = 1 => b.top = Margin + inv.header)
    BY <1>0, <1>1, <2>1, HeadingAt
  <2>4. ReadBefore(a, b)
    BY <1>1, <2>2, <2>3 DEF ReadBefore
  <2> QED
    BY <2>1, <2>4
<1>4. ASSUME NEW n \in 1..N PROVE ReadBefore(HeaderBox(inv), LineBox(sorted, C, n))
  <2>1. PICK a, b : a = HeaderBox(inv) /\ b = LineBox(sorted, C, n)
    OBVIOUS
  <2>2. a.page = 1 /\ a.bottom \in Nat /\ TableTop(inv) = a.bottom + HeadingHeight
    BY <1>0, <2>1, HeaderAt
  <2>3. b.page \in 1..C[N].page /\ b.top \in Nat /\ (b.page = 1 => TableTop(inv) <= b.top)
    BY <2>1, LineAt
  <2>4. ReadBefore(a, b)
    BY <1>0, <2>2, <2>3, Sizes DEF ReadBefore
  <2> QED
    BY <2>1, <2>4
<1>5. ASSUME NEW n \in DOMAIN labels PROVE ReadBefore(HeaderBox(inv), SumBox(labels, place, n))
  <2>1. PICK a, b : a = HeaderBox(inv) /\ b = SumBox(labels, place, n)
    OBVIOUS
  <2>2. a.page = 1 /\ a.bottom \in Nat /\ TableTop(inv) = a.bottom + HeadingHeight
    BY <1>0, <2>1, HeaderAt
  <2>3. b.page \in Nat \ {0} /\ b.top \in Nat /\ From(C[N], b)
    BY <2>1, SumAt
  <2>4. ReadBefore(a, b)
    BY <1>0, <2>2, <2>3, Sizes DEF ReadBefore, From
  <2> QED
    BY <2>1, <2>4
<1>6. ASSUME NEW p \in 1..C[N].page, NEW q \in 1..C[N].page, p < q
      PROVE  ReadBefore(HeadingBox(inv, p), HeadingBox(inv, q))
  <2>1. PICK a, b : a = HeadingBox(inv, p) /\ b = HeadingBox(inv, q)
    OBVIOUS
  <2>2. a.page = p /\ b.page = q
    BY <1>0, <1>1, <2>1, HeadingAt
  <2> QED
    BY <1>6, <2>1, <2>2 DEF ReadBefore
<1>7. ASSUME NEW p \in 1..C[N].page, NEW n \in 1..N
      PROVE  IF p <= C[n].page THEN ReadBefore(HeadingBox(inv, p), LineBox(sorted, C, n))
             ELSE ReadBefore(LineBox(sorted, C, n), HeadingBox(inv, p))
  <2>1. PICK a, b : a = HeadingBox(inv, p) /\ b = LineBox(sorted, C, n)
    OBVIOUS
  <2>2. /\ a.page = p /\ a.bottom \in Nat
        /\ p = 1 => a.bottom = TableTop(inv)
        /\ p # 1 => a.bottom = Continued
    BY <1>0, <1>1, <2>1, HeadingAt
  <2>3. /\ b.page = C[n].page /\ b.page \in 1..C[N].page /\ b.top \in Nat /\ Continued <= b.top
        /\ b.page = 1 => TableTop(inv) <= b.top
    BY <2>1, LineAt
  <2>4. IF p <= b.page THEN ReadBefore(a, b) ELSE ReadBefore(b, a)
    BY <1>0, <1>1, <2>2, <2>3 DEF ReadBefore
  <2> QED
    BY <2>1, <2>3, <2>4
<1>8. ASSUME NEW p \in 1..C[N].page, NEW n \in DOMAIN labels
      PROVE  ReadBefore(HeadingBox(inv, p), SumBox(labels, place, n))
  <2>1. PICK a, b : a = HeadingBox(inv, p) /\ b = SumBox(labels, place, n)
    OBVIOUS
  <2>2. /\ a.page = p /\ a.bottom \in Nat
        /\ p = 1 => a.bottom = TableTop(inv)
        /\ p # 1 => a.bottom = Continued
    BY <1>0, <1>1, <2>1, HeadingAt
  <2>3. b.page \in Nat \ {0} /\ b.top \in Nat /\ From(C[N], b)
    BY <2>1, SumAt
  <2>4. ReadBefore(a, b)
    BY <1>0, <1>1, <1>2, <2>2, <2>3 DEF ReadBefore, From
  <2> QED
    BY <2>1, <2>4
<1>9. ASSUME NEW m \in 1..N, NEW n \in 1..N, m < n
      PROVE  ReadBefore(LineBox(sorted, C, m), LineBox(sorted, C, n))
  <2>1. PICK a, b : a = LineBox(sorted, C, m) /\ b = LineBox(sorted, C, n)
    OBVIOUS
  <2>2. a.page = C[m].page /\ a.bottom = C[m].y
    BY <2>1, LineAt
  <2>3. b.page \in 1..C[N].page /\ b.top \in Nat /\ From(C[n - 1], b)
    BY <2>1, LineAt
  <2>4. m \in 0..N /\ n - 1 \in 0..N /\ m <= n - 1
    BY <1>0, <1>9
  <2>5. /\ C[m].page \in Nat /\ C[m].y \in Nat /\ C[n - 1].page \in Nat /\ C[n - 1].y \in Nat
        /\ ReadsOn(C[m], C[n - 1])
    BY <1>0, <2>4
  <2>6. b.page \in Nat
    BY <1>0, <2>3
  <2>7. ReadBefore(a, b)
    BY <2>2, <2>3, <2>5, <2>6 DEF ReadBefore, From, ReadsOn
  <2> QED
    BY <2>1, <2>7
<1>10. ASSUME NEW m \in 1..N, NEW n \in DOMAIN labels
       PROVE  ReadBefore(LineBox(sorted, C, m), SumBox(labels, place, n))
  <2>1. PICK a, b : a = LineBox(sorted, C, m) /\ b = SumBox(labels, place, n)
    OBVIOUS
  <2>2. a.page = C[m].page /\ a.bottom = C[m].y
    BY <2>1, LineAt
  <2>3. b.page \in Nat \ {0} /\ b.top \in Nat /\ From(C[N], b)
    BY <2>1, SumAt
  <2>4. m \in 0..N /\ N \in 0..N /\ m <= N
    BY <1>0
  <2>5. C[m].page \in Nat /\ C[m].y \in Nat /\ ReadsOn(C[m], C[N])
    BY <1>0, <2>4
  <2>6. ReadBefore(a, b)
    BY <1>0, <2>2, <2>3, <2>5 DEF ReadBefore, From, ReadsOn
  <2> QED
    BY <2>1, <2>6
<1>11. ASSUME NEW m \in DOMAIN labels, NEW n \in DOMAIN labels, m < n
       PROVE  ReadBefore(SumBox(labels, place, m), SumBox(labels, place, n))
  <2>1. PICK a, b : a = SumBox(labels, place, m) /\ b = SumBox(labels, place, n)
    OBVIOUS
  <2>2. a.page = place.page /\ a.bottom = place.y + m * TotalHeight /\ m \in {1, 2, 3}
    BY <2>1, SumAt
  <2>3. b.page = place.page /\ b.top = place.y + (n - 1) * TotalHeight /\ n \in {1, 2, 3}
    BY <2>1, SumAt
  <2>4. place.y \in Nat
    BY DEF Drawing, Positions
  <2>5. a.bottom <= b.top
    <3>1. /\ 1 * TotalHeight = TotalHeight /\ 2 * TotalHeight = TotalHeight + TotalHeight
      BY Sizes
    <3>2. (m = 1 /\ n = 2) \/ (m = 1 /\ n = 3) \/ (m = 2 /\ n = 3)
      BY <1>11, <2>2, <2>3
    <3>3. CASE m = 1 /\ n = 2
      BY <2>2, <2>3, <2>4, <3>1, <3>3, Sizes
    <3>4. CASE m = 1 /\ n = 3
      BY <2>2, <2>3, <2>4, <3>1, <3>4, Sizes
    <3>5. CASE m = 2 /\ n = 3
      BY <2>2, <2>3, <2>4, <3>1, <3>5, Sizes
    <3> QED
      BY <3>2, <3>3, <3>4, <3>5
  <2> QED
    BY <2>1, <2>2, <2>3, <2>5 DEF ReadBefore
<1> QED
  BY <1>3, <1>4, <1>5, <1>6, <1>7, <1>8, <1>9, <1>10, <1>11 DEF Reads

\* Boxes of which one is read before the other, if they are two.
Apart(a, b) == a = b \/ ReadBefore(a, b) \/ ReadBefore(b, a)

\* Which box of a document is which.
LEMMA Kinds ==
    ASSUME NEW inv, NEW N, NEW sorted, NEW C, NEW labels, NEW place,
           NEW b \in Content(inv, N, sorted, C, labels, place)
    PROVE  \/ b = HeaderBox(inv)
           \/ \E p \in 1..C[N].page : b = HeadingBox(inv, p)
           \/ \E n \in 1..N : b = LineBox(sorted, C, n)
           \/ \E n \in DOMAIN labels : b = SumBox(labels, place, n)
BY DEF Content

LEMMA ContentApart ==
    ASSUME NEW inv, NEW N, NEW sorted, NEW C, NEW labels, NEW place,
           Drawing(inv, N, sorted, C, labels, place),
           NEW a \in Content(inv, N, sorted, C, labels, place),
           NEW b \in Content(inv, N, sorted, C, labels, place)
    PROVE  Apart(a, b)
<1> DEFINE Header(x) == x = HeaderBox(inv)
           Heading(x, p) == p \in 1..C[N].page /\ x = HeadingBox(inv, p)
           Row(x, n) == n \in 1..N /\ x = LineBox(sorted, C, n)
           Sum(x, n) == n \in DOMAIN labels /\ x = SumBox(labels, place, n)
<1>0. Reads(inv, N, sorted, C, labels, place)
  BY ReadsInOrder
<1>1. N \in Nat /\ C[N].page \in Nat
  <2>1. N \in Nat /\ N \in 0..N
    BY DEF Drawing
  <2> QED
    BY <2>1 DEF Drawing, InTable, Positions
<1>2. \A x, y : Header(x) =>
         /\ \A p : Heading(y, p) => ReadBefore(x, y)
         /\ \A n : Row(y, n) => ReadBefore(x, y)
         /\ \A n : Sum(y, n) => ReadBefore(x, y)
         /\ Header(y) => x = y
  BY <1>0 DEF Reads
<1>3. \A x, y, p : Heading(x, p) =>
         /\ \A q : Heading(y, q) => Apart(x, y)
         /\ \A n : Row(y, n) => Apart(x, y)
         /\ \A n : Sum(y, n) => ReadBefore(x, y)
  <2>1. ASSUME NEW x, NEW y, NEW p, NEW q, Heading(x, p), Heading(y, q) PROVE Apart(x, y)
    <3>1. p = q \/ p < q \/ q < p
      BY <1>1, <2>1
    <3> QED
      BY <1>0, <2>1, <3>1 DEF Reads, Apart
  <2>2. \A x, y, p, n : Heading(x, p) /\ Row(y, n) => Apart(x, y)
    BY <1>0 DEF Reads, Apart
  <2>3. \A x, y, p, n : Heading(x, p) /\ Sum(y, n) => ReadBefore(x, y)
    BY <1>0 DEF Reads
  <2> HIDE DEF Heading, Row, Sum
  <2> QED
    BY <2>1, <2>2, <2>3
<1>4. \A x, y, m : Row(x, m) =>
         /\ \A n : Row(y, n) => Apart(x, y)
         /\ \A n : Sum(y, n) => ReadBefore(x, y)
  <2>1. ASSUME NEW x, NEW y, NEW m, NEW n, Row(x, m), Row(y, n) PROVE Apart(x, y)
    <3>1. m = n \/ m < n \/ n < m
      BY <1>1, <2>1
    <3> QED
      BY <1>0, <2>1, <3>1 DEF Reads, Apart
  <2>2. \A x, y, m, n : Row(x, m) /\ Sum(y, n) => ReadBefore(x, y)
    BY <1>0 DEF Reads
  <2> HIDE DEF Row, Sum
  <2> QED
    BY <2>1, <2>2
<1>5. \A x, y, m, n : Sum(x, m) /\ Sum(y, n) => Apart(x, y)
  <2>1. ASSUME NEW x, NEW y, NEW m, NEW n, Sum(x, m), Sum(y, n) PROVE Apart(x, y)
    <3>1. m \in {1, 2, 3} /\ n \in {1, 2, 3}
      BY <2>1, SumAt
    <3>2. m = n \/ m < n \/ n < m
      BY <3>1
    <3> QED
      BY <1>0, <2>1, <3>2 DEF Reads, Apart
  <2> HIDE DEF Sum
  <2> QED
    BY <2>1
<1>6. /\ Header(a) \/ (\E p : Heading(a, p)) \/ (\E n : Row(a, n)) \/ (\E n : Sum(a, n))
      /\ Header(b) \/ (\E p : Heading(b, p)) \/ (\E n : Row(b, n)) \/ (\E n : Sum(b, n))
  BY Kinds
<1> HIDE DEF Header, Heading, Row, Sum
<1>7. \A x, y : Apart(x, y) => Apart(y, x)
  BY DEF Apart
<1>8. \A x, y : ReadBefore(x, y) \/ x = y => Apart(x, y)
  BY DEF Apart
<1> QED
  BY <1>2, <1>3, <1>4, <1>5, <1>6, <1>7, <1>8

\* Everything but the page numbers is above them, on the pages up to that of the totals.
LEMMA ContentWithin ==
    ASSUME NEW inv, NEW N, NEW sorted, NEW C, NEW labels, NEW place,
           Drawing(inv, N, sorted, C, labels, place),
           NEW b \in Content(inv, N, sorted, C, labels, place)
    PROVE  /\ b.page \in 1..place.page /\ b.top \in Nat /\ b.bottom \in Nat
           /\ Margin <= b.top /\ b.bottom <= PageBottom
           /\ b.what[1] # "page"
<1>1. N \in 0..N /\ Printable(inv)
  BY DEF Drawing
<1>2. C[N].page \in Nat \ {0} /\ place.page \in Nat \ {0} /\ C[N].page <= place.page
  <2>1. C[N].page \in Nat \ {0} /\ place.page \in Nat \ {0}
    BY <1>1 DEF Drawing, InTable, Positions
  <2>2. place.page = C[N].page \/ place.page = C[N].page + 1
    BY DEF Drawing
  <2> QED
    BY <2>1, <2>2
<1>3. CASE b = HeaderBox(inv)
  <2>1. b.what[1] = "header"
    BY <1>1, <1>3, HeaderAt
  <2> QED
    BY <1>1, <1>2, <1>3, <2>1, HeaderAt, Sizes
<1>4. ASSUME NEW p \in 1..C[N].page, b = HeadingBox(inv, p)
      PROVE  /\ b.page \in 1..place.page /\ b.top \in Nat /\ b.bottom \in Nat
             /\ Margin <= b.top /\ b.bottom <= PageBottom
             /\ b.what[1] # "page"
  <2>0. p \in Nat \ {0}
    BY <1>2
  <2>1. /\ b.what = <<"heading">> /\ b.page = p
        /\ b.top \in Nat /\ b.bottom \in Nat /\ b.top >= Margin /\ b.bottom <= PageBottom
    BY <1>1, <1>4, <2>0, HeadingAt
  <2>2. b.what[1] = "heading"
    BY <2>1
  <2> QED
    BY <1>2, <2>1, <2>2, Sizes
<1>5. ASSUME NEW n \in 1..N, b = LineBox(sorted, C, n)
      PROVE  /\ b.page \in 1..place.page /\ b.top \in Nat /\ b.bottom \in Nat
             /\ Margin <= b.top /\ b.bottom <= PageBottom
             /\ b.what[1] # "page"
  <2>1. /\ b.what = <<"line", sorted[n].lineNumber>>
        /\ b.page \in 1..C[N].page /\ b.top \in Nat /\ b.bottom \in Nat
        /\ Continued <= b.top /\ b.bottom <= PageBottom
    BY <1>5, LineAt
  <2>2. b.what[1] = "line"
    BY <2>1
  <2> QED
    BY <1>2, <2>1, <2>2, Sizes
<1>6. ASSUME NEW n \in DOMAIN labels, b = SumBox(labels, place, n)
      PROVE  /\ b.page \in 1..place.page /\ b.top \in Nat /\ b.bottom \in Nat
             /\ Margin <= b.top /\ b.bottom <= PageBottom
             /\ b.what[1] # "page"
  <2>1. /\ b.what = <<labels[n]>> /\ b.page = place.page
        /\ b.top \in Nat /\ b.bottom \in Nat /\ Margin <= b.top /\ b.bottom <= PageBottom
    BY <1>6, SumAt
  <2>2. b.what[1] # "page"
    <3>1. labels = IF inv.taxed THEN <<"subtotal", "tax", "total">> ELSE <<"subtotal", "total">>
      BY DEF Drawing
    <3>2. labels[n] \in {"subtotal", "tax", "total"}
      BY <1>6, <3>1
    <3> QED
      BY <2>1, <3>2
  <2> QED
    BY <1>2, <2>1, <2>2
<1> QED
  BY <1>3, <1>4, <1>5, <1>6, Kinds

\* Each page up to that of the totals has something on it.
LEMMA PagesUsed ==
    ASSUME NEW inv, NEW N, NEW sorted, NEW C, NEW labels, NEW place,
           Drawing(inv, N, sorted, C, labels, place),
           NEW p \in 1..place.page
    PROVE  \E b \in Content(inv, N, sorted, C, labels, place) : b.page = p
<1>1. N \in 0..N /\ Printable(inv)
  BY DEF Drawing
<1>2. C[N].page \in Nat \ {0} /\ place.page \in {C[N].page, C[N].page + 1}
  <2>1. C[N].page \in Nat \ {0}
    BY <1>1 DEF Drawing, InTable, Positions
  <2>2. place.page = C[N].page \/ place.page = C[N].page + 1
    BY DEF Drawing
  <2> QED
    BY <2>1, <2>2
<1>3. CASE p \in 1..C[N].page
  <2>1. PICK b : b = HeadingBox(inv, p)
    OBVIOUS
  <2>2. p \in Nat \ {0}
    BY <1>2, <1>3
  <2>3. b.page = p
    BY <1>1, <2>1, <2>2, HeadingAt
  <2> QED
    BY <1>3, <2>1, <2>3 DEF Content
<1>4. CASE p \notin 1..C[N].page
  <2>1. p = place.page
    BY <1>2, <1>4
  <2>2. 1 \in DOMAIN labels
    BY DEF Drawing
  <2>3. PICK b : b = SumBox(labels, place, 1)
    OBVIOUS
  <2>4. b.page = place.page
    BY <2>2, <2>3, SumAt
  <2> QED
    BY <2>1, <2>2, <2>3, <2>4 DEF Content
<1> QED
  BY <1>3, <1>4

LEMMA FootersOf ==
    ASSUME NEW inv, NEW N, NEW sorted, NEW C, NEW labels, NEW place,
           Drawing(inv, N, sorted, C, labels, place)
    PROVE  Footers(Content(inv, N, sorted, C, labels, place))
              = {NumberBox(p, place.page) : p \in 1..place.page}
<1> DEFINE boxes == Content(inv, N, sorted, C, labels, place)
           pages == {b.page : b \in boxes}
           Last(p) == \A b \in boxes : b.page <= p
<1>1. place.page \in Nat \ {0}
  BY DEF Drawing, Positions
<1>2. \A b \in boxes : b.page \in 1..place.page
  BY ContentWithin
<1>3. place.page \in pages
  <2>1. place.page \in 1..place.page
    BY <1>1
  <2>2. \E b \in boxes : b.page = place.page
    BY <2>1, PagesUsed
  <2> QED
    BY <2>2
<1>4. Last(place.page)
  BY <1>1, <1>2
<1>5. \A p \in pages : Last(p) => p = place.page
  <2>1. ASSUME NEW p \in pages, Last(p) PROVE p = place.page
    <3>1. p \in 1..place.page
      BY <1>2
    <3>2. place.page <= p
      BY <1>3, <2>1
    <3> QED
      BY <1>1, <3>1, <3>2
  <2> QED
    BY <2>1
<1> HIDE DEF boxes
<1>6. (CHOOSE p \in pages : Last(p)) = place.page
  <2> HIDE DEF pages, Last
  <2> QED
    BY <1>3, <1>4, <1>5
<1> QED
  BY <1>6 DEF Footers, NumberBox, boxes

\* A document is its content and the number of each page.
Document(boxes, inv, N, sorted, C, labels, place) ==
    /\ Drawing(inv, N, sorted, C, labels, place)
    /\ boxes = Content(inv, N, sorted, C, labels, place) \cup {NumberBox(p, place.page) : p \in 1..place.page}

\* Nothing is drawn over another, nor outside of the margins but the numbers.
LEMMA PlacedWell ==
    ASSUME NEW boxes, NEW inv, NEW N, NEW sorted, NEW C, NEW labels, NEW place,
           Document(boxes, inv, N, sorted, C, labels, place)
    PROVE  WellPlaced(boxes)
<1> DEFINE content == Content(inv, N, sorted, C, labels, place)
           P == place.page
<1>0. Drawing(inv, N, sorted, C, labels, place) /\ boxes = content \cup {NumberBox(p, P) : p \in 1..P}
  BY DEF Document
<1>1. P \in Nat \ {0}
  BY <1>0 DEF Drawing, Positions
<1>2. ASSUME NEW b \in content
      PROVE  /\ b.page \in 1..P /\ b.bottom \in Nat /\ Margin <= b.top /\ b.bottom <= PageBottom
             /\ b.what[1] # "page"
  BY <1>0, ContentWithin
<1>3. ASSUME NEW p \in 1..P, NEW b, b = NumberBox(p, P)
      PROVE  /\ b.page = p /\ b.top \in Nat /\ Margin <= b.top /\ PageBottom <= b.top /\ b.bottom <= PageHeight
             /\ b.what[1] = "page"
  <2>1. p \in Nat \ {0}
    BY <1>1
  <2>2. /\ b.what = <<"page", p, P>> /\ b.page = p /\ b.top \in Nat
        /\ Margin <= b.top /\ PageBottom <= b.top /\ b.bottom <= PageHeight
    BY <1>3, <2>1, NumberAt
  <2>3. b.what[1] = "page"
    BY <2>2
  <2> QED
    BY <2>2, <2>3
<1>4. PageBottom <= PageHeight - Margin /\ PageHeight \in Nat /\ Margin \in Nat /\ PageBottom \in Nat
  BY Sizes
<1>5. \A b \in boxes : b \in content \/ \E p \in 1..P : b = NumberBox(p, P)
  BY <1>0
<1> HIDE DEF content, P
<1>6. ASSUME NEW b \in boxes
      PROVE  Margin <= b.top /\ b.bottom <= IF b.what[1] = "page" THEN PageHeight ELSE PageHeight - Margin
  <2>1. CASE b \in content
    BY <1>2, <1>4, <2>1
  <2>2. CASE \E p \in 1..P : b = NumberBox(p, P)
    BY <1>3, <2>2
  <2> QED
    BY <1>5, <2>1, <2>2
<1>7. ASSUME NEW a \in boxes, NEW b \in boxes PROVE Apart(a, b)
  <2>1. \A x, y, p : x \in content /\ p \in 1..P /\ y = NumberBox(p, P) => Apart(x, y) /\ Apart(y, x)
    <3>1. ASSUME NEW x \in content, NEW p \in 1..P, NEW y, y = NumberBox(p, P)
          PROVE  ReadBefore(x, y) \/ ReadBefore(y, x)
      <4>1. x.page \in Nat /\ x.bottom \in Nat /\ x.bottom <= PageBottom
        BY <1>1, <1>2
      <4>2. y.page = p /\ y.top \in Nat /\ PageBottom <= y.top
        BY <1>3, <3>1
      <4>3. CASE x.page <= p
        BY <1>1, <1>4, <4>1, <4>2, <4>3 DEF ReadBefore
      <4>4. CASE ~ (x.page <= p)
        BY <1>1, <4>1, <4>2, <4>4 DEF ReadBefore
      <4> QED
        BY <4>3, <4>4
    <3> QED
      BY <3>1 DEF Apart
  <2>2. ASSUME NEW p \in 1..P, NEW q \in 1..P, a = NumberBox(p, P), b = NumberBox(q, P) PROVE Apart(a, b)
    <3>1. a.page = p /\ b.page = q
      BY <1>3, <2>2
    <3>2. p = q \/ p < q \/ q < p
      BY <1>1
    <3> QED
      BY <2>2, <3>1, <3>2 DEF Apart, ReadBefore
  <2>3. a \in content /\ b \in content => Apart(a, b)
    BY <1>0, ContentApart DEF content
  <2> QED
    BY <1>5, <2>1, <2>2, <2>3
<1> QED
  BY <1>6, <1>7 DEF WellPlaced, Apart

-----------------------------------------------------------------------------
(***************************************************************************)
(* Which box has which label.                                              *)
(***************************************************************************)
\* The one box of a label is the box of that label.
LEMMA OneBox ==
    ASSUME NEW boxes, NEW b \in boxes, NEW what, b.what = what, \A c \in boxes : c.what = what => c = b
    PROVE  Cardinality({c \in boxes : c.what = what}) = 1 /\ The(boxes, what) = b
<1>1. {c \in boxes : c.what = what} = {b}
  OBVIOUS
<1>2. Cardinality({b}) = 1
  BY FS_Singleton
<1>3. The(boxes, what) = b
  <2> DEFINE Is(c) == c.what = what
  <2>1. Is(b) /\ \A c \in boxes : Is(c) => c = b
    OBVIOUS
  <2>2. The(boxes, what) = CHOOSE c \in boxes : Is(c)
    BY DEF The
  <2> HIDE DEF Is
  <2> QED
    BY <2>1, <2>2
<1> QED
  BY <1>1, <1>2, <1>3

\* The totals, by their labels.
LEMMA Labels ==
    ASSUME NEW inv, NEW labels,
           labels = IF inv.taxed THEN <<"subtotal", "tax", "total">> ELSE <<"subtotal", "total">>
    PROVE  /\ \A n \in DOMAIN labels : labels[n] \in {"subtotal", "tax", "total"}
           /\ \A m, n \in DOMAIN labels : labels[m] = labels[n] => m = n
           /\ 1 \in DOMAIN labels /\ labels[1] = "subtotal"
           /\ inv.taxed => \E n \in DOMAIN labels : labels[n] = "tax"
           /\ \E last \in DOMAIN labels :
                 labels[last] = "total" /\ \A n \in DOMAIN labels : n \in Nat /\ (n # last => n < last)
<1>1. CASE inv.taxed
  <2>1. labels = <<"subtotal", "tax", "total">> /\ DOMAIN labels = {1, 2, 3}
    BY <1>1
  <2>2. labels[1] = "subtotal" /\ labels[2] = "tax" /\ labels[3] = "total"
    BY <2>1
  <2> QED
    BY <2>1, <2>2
<1>2. CASE ~inv.taxed
  <2>1. labels = <<"subtotal", "total">> /\ DOMAIN labels = {1, 2}
    BY <1>2
  <2>2. labels[1] = "subtotal" /\ labels[2] = "total"
    BY <2>1
  <2> QED
    BY <1>2, <2>1, <2>2
<1> QED
  BY <1>1, <1>2

LEMMA Labelled ==
    ASSUME NEW boxes, NEW inv, NEW N, NEW sorted, NEW C, NEW labels, NEW place,
           Document(boxes, inv, N, sorted, C, labels, place),
           NEW b \in boxes
    PROVE  \/ b = HeaderBox(inv) /\ b.what[1] = "header"
           \/ b.what[1] = "heading"
           \/ \E n \in 1..N : /\ b = LineBox(sorted, C, n)
                              /\ b.what[1] = "line" /\ b.what[2] = sorted[n].lineNumber
           \/ \E n \in DOMAIN labels : b = SumBox(labels, place, n) /\ b.what[1] = labels[n]
           \/ \E p \in 1..place.page : /\ b = NumberBox(p, place.page)
                                       /\ b.what[1] = "page" /\ b.what[2] = p
<1>0. Drawing(inv, N, sorted, C, labels, place)
  BY DEF Document
<1>1. /\ Printable(inv) /\ N \in 0..N
      /\ C[N].page \in Nat \ {0} /\ place.page \in Nat \ {0}
  <2>1. Printable(inv) /\ N \in 0..N
    BY <1>0 DEF Drawing
  <2> QED
    BY <1>0, <2>1 DEF Drawing, InTable, Positions
<1>2. \/ b \in Content(inv, N, sorted, C, labels, place)
      \/ \E p \in 1..place.page : b = NumberBox(p, place.page)
  BY DEF Document
<1>3. CASE b = HeaderBox(inv)
  <2>1. b.what = <<"header">>
    BY <1>1, <1>3, HeaderAt
  <2> QED
    BY <1>3, <2>1
<1>4. CASE \E p \in 1..C[N].page : b = HeadingBox(inv, p)
  <2>1. PICK p \in 1..C[N].page : b = HeadingBox(inv, p)
    BY <1>4
  <2>2. p \in Nat \ {0}
    BY <1>1
  <2>3. b.what = <<"heading">>
    BY <1>1, <2>1, <2>2, HeadingAt
  <2> QED
    BY <2>3
<1>5. CASE \E n \in 1..N : b = LineBox(sorted, C, n)
  <2>1. PICK n \in 1..N : b = LineBox(sorted, C, n)
    BY <1>5
  <2>2. b.what = <<"line", sorted[n].lineNumber>>
    BY <1>0, <2>1, LineAt
  <2>3. b.what[1] = "line" /\ b.what[2] = sorted[n].lineNumber
    BY <2>2
  <2> QED
    BY <2>1, <2>3
<1>6. CASE \E n \in DOMAIN labels : b = SumBox(labels, place, n)
  <2>1. PICK n \in DOMAIN labels : b = SumBox(labels, place, n)
    BY <1>6
  <2>2. b.what = <<labels[n]>>
    BY <1>0, <2>1, SumAt
  <2>3. b.what[1] = labels[n]
    BY <2>2
  <2> QED
    BY <2>1, <2>3
<1>7. CASE \E p \in 1..place.page : b = NumberBox(p, place.page)
  <2>1. PICK p \in 1..place.page : b = NumberBox(p, place.page)
    BY <1>7
  <2>2. p \in Nat \ {0}
    BY <1>1
  <2>3. b.what = <<"page", p, place.page>>
    BY <2>1, <2>2, NumberAt
  <2>4. b.what[1] = "page" /\ b.what[2] = p
    BY <2>3
  <2> QED
    BY <2>1, <2>4
<1> QED
  BY <1>2, <1>3, <1>4, <1>5, <1>6, <1>7, Kinds

\* A box is the only one with its label, but for the headings.
IsOnly(boxes, b, what) == b \in boxes /\ b.what = what /\ \A c \in boxes : c.what = what => c = b

LEMMA OnlyBoxes ==
    ASSUME NEW boxes, NEW inv, NEW N, NEW sorted, NEW C, NEW labels, NEW place,
           Document(boxes, inv, N, sorted, C, labels, place)
    PROVE  /\ IsOnly(boxes, HeaderBox(inv), <<"header">>)
           /\ \A n \in 1..N : IsOnly(boxes, LineBox(sorted, C, n), <<"line", sorted[n].lineNumber>>)
           /\ \A n \in DOMAIN labels : IsOnly(boxes, SumBox(labels, place, n), <<labels[n]>>)
           /\ \A p \in 1..place.page : IsOnly(boxes, NumberBox(p, place.page), <<"page", p, place.page>>)
<1>0. /\ Drawing(inv, N, sorted, C, labels, place)
      /\ boxes = Content(inv, N, sorted, C, labels, place) \cup {NumberBox(p, place.page) : p \in 1..place.page}
  BY DEF Document
<1>1. /\ Printable(inv) /\ N \in Nat /\ place.page \in Nat \ {0}
      /\ \A m, n \in 1..N : m < n => sorted[m].lineNumber < sorted[n].lineNumber
      /\ \A n \in 1..N : sorted[n].lineNumber \in Nat
      /\ labels = IF inv.taxed THEN <<"subtotal", "tax", "total">> ELSE <<"subtotal", "total">>
  BY <1>0 DEF Drawing, Positions, Sorts
<1>2. /\ \A n \in DOMAIN labels : labels[n] \in {"subtotal", "tax", "total"}
      /\ \A m, n \in DOMAIN labels : labels[m] = labels[n] => m = n
  BY <1>1, Labels
<1>3. IsOnly(boxes, HeaderBox(inv), <<"header">>)
  <2>1. PICK b : b = HeaderBox(inv)
    OBVIOUS
  <2>2. b \in boxes
    BY <1>0, <2>1 DEF Content
  <2>3. b.what = <<"header">>
    BY <1>1, <2>1, HeaderAt
  <2>4. ASSUME NEW c \in boxes, c.what = <<"header">> PROVE c = b
    <3>1. c.what[1] = "header"
      BY <2>4
    <3> QED
      BY <1>2, <2>1, <3>1, Labelled
  <2> QED
    BY <2>1, <2>2, <2>3, <2>4 DEF IsOnly
<1>4. ASSUME NEW n \in 1..N PROVE IsOnly(boxes, LineBox(sorted, C, n), <<"line", sorted[n].lineNumber>>)
  <2>1. PICK b : b = LineBox(sorted, C, n)
    OBVIOUS
  <2>2. b \in boxes
    BY <1>0, <2>1 DEF Content
  <2>3. b.what = <<"line", sorted[n].lineNumber>>
    BY <1>0, <2>1, LineAt
  <2>4. ASSUME NEW c \in boxes, c.what = <<"line", sorted[n].lineNumber>> PROVE c = b
    <3>1. c.what[1] = "line" /\ c.what[2] = sorted[n].lineNumber
      BY <2>4
    <3>2. PICK m \in 1..N : c = LineBox(sorted, C, m) /\ c.what[2] = sorted[m].lineNumber
      BY <1>2, <3>1, Labelled
    <3>3. m = n
      <4>1. ~ (m < n) /\ ~ (n < m)
        BY <1>1, <3>1, <3>2
      <4> QED
        BY <1>1, <4>1
    <3> QED
      BY <2>1, <3>2, <3>3
  <2> QED
    BY <2>1, <2>2, <2>3, <2>4 DEF IsOnly
<1>5. ASSUME NEW n \in DOMAIN labels PROVE IsOnly(boxes, SumBox(labels, place, n), <<labels[n]>>)
  <2>1. PICK b : b = SumBox(labels, place, n)
    OBVIOUS
  <2>2. b \in boxes
    BY <1>0, <2>1 DEF Content
  <2>3. b.what = <<labels[n]>>
    BY <1>0, <2>1, SumAt
  <2>4. ASSUME NEW c \in boxes, c.what = <<labels[n]>> PROVE c = b
    <3>1. c.what[1] = labels[n]
      BY <2>4
    <3>2. PICK m \in DOMAIN labels : c = SumBox(labels, place, m) /\ c.what[1] = labels[m]
      BY <1>2, <3>1, Labelled
    <3> QED
      BY <1>2, <2>1, <3>1, <3>2
  <2> QED
    BY <2>1, <2>2, <2>3, <2>4 DEF IsOnly
<1>6. ASSUME NEW p \in 1..place.page PROVE IsOnly(boxes, NumberBox(p, place.page), <<"page", p, place.page>>)
  <2>1. PICK b : b = NumberBox(p, place.page)
    OBVIOUS
  <2>2. b \in boxes
    BY <1>0, <2>1
  <2>3. b.what = <<"page", p, place.page>>
    <3>1. p \in Nat \ {0}
      BY <1>1
    <3> QED
      BY <2>1, <3>1, NumberAt
  <2>4. ASSUME NEW c \in boxes, c.what = <<"page", p, place.page>> PROVE c = b
    <3>1. c.what[1] = "page" /\ c.what[2] = p
      BY <2>4
    <3>2. PICK q \in 1..place.page : c = NumberBox(q, place.page) /\ c.what[2] = q
      BY <1>2, <3>1, Labelled
    <3> QED
      BY <2>1, <3>1, <3>2
  <2> QED
    BY <2>1, <2>2, <2>3, <2>4 DEF IsOnly
<1> QED
  BY <1>3, <1>4, <1>5, <1>6

\* A label that one box has, and which.
LEMMA TheBox ==
    ASSUME NEW boxes, NEW b, NEW what, IsOnly(boxes, b, what)
    PROVE  Cardinality({c \in boxes : c.what = what}) = 1 /\ The(boxes, what) = b
BY OneBox DEF IsOnly

-----------------------------------------------------------------------------
(***************************************************************************)
(* The documents are readable.                                             *)
(***************************************************************************)
LEMMA ReadInOrder ==
    ASSUME NEW boxes, NEW inv, NEW N, NEW sorted, NEW C, NEW labels, NEW place,
           Document(boxes, inv, N, sorted, C, labels, place)
    PROVE  InReadingOrder(boxes, inv)
<1> DEFINE lines == {<<"line", inv.lines[k].lineNumber>> : k \in DOMAIN inv.lines}
           sums == {<<"subtotal">>, <<"total">>} \cup (IF inv.taxed THEN {<<"tax">>} ELSE {})
           Row(n) == LineBox(sorted, C, n)
           Sum(n) == SumBox(labels, place, n)
<1>0. Drawing(inv, N, sorted, C, labels, place)
  BY DEF Document
<1>1. /\ IsOnly(boxes, HeaderBox(inv), <<"header">>)
      /\ \A n \in 1..N : IsOnly(boxes, Row(n), <<"line", sorted[n].lineNumber>>)
      /\ \A n \in DOMAIN labels : IsOnly(boxes, Sum(n), <<labels[n]>>)
  BY OnlyBoxes
<1>2. Reads(inv, N, sorted, C, labels, place)
  BY <1>0, ReadsInOrder
<1>3. /\ 1 \in DOMAIN labels /\ labels[1] = "subtotal"
      /\ inv.taxed => \E n \in DOMAIN labels : labels[n] = "tax"
      /\ \E last \in DOMAIN labels :
            labels[last] = "total" /\ \A n \in DOMAIN labels : n \in Nat /\ (n # last => n < last)
  <2>1. labels = IF inv.taxed THEN <<"subtotal", "tax", "total">> ELSE <<"subtotal", "total">>
    BY <1>0 DEF Drawing
  <2> QED
    BY <2>1, Labels
<1>4. PICK last \in DOMAIN labels :
         labels[last] = "total" /\ \A n \in DOMAIN labels : n # last => n < last
  BY <1>3
<1>5. \A s \in sums : \E n \in DOMAIN labels : s = <<labels[n]>>
  BY <1>3, <1>4
<1>6. \A w \in lines : \E n \in 1..N : w = <<"line", sorted[n].lineNumber>>
  <2>1. DOMAIN inv.lines = 1..N /\ \A k \in 1..N : \E n \in 1..N : sorted[n] = inv.lines[k]
    <3>1. inv.lines \in Seq(Line) /\ N = Len(inv.lines) /\ Sorts(inv.lines, sorted)
      BY <1>0 DEF Drawing, Printable, Fit
    <3> QED
      BY <3>1 DEF Sorts
  <2> QED
    BY <2>1
<1>7. /\ N \in Nat /\ \A n \in 1..N : sorted[n].lineNumber \in Nat
      /\ \A m, n \in 1..N : m < n => sorted[m].lineNumber < sorted[n].lineNumber
  BY <1>0 DEF Drawing, Sorts
<1> HIDE DEF lines, sums, Row, Sum
<1>8. HasEach(boxes, lines \cup sums \cup {<<"header">>})
  <2>1. ASSUME NEW w \in lines \cup sums \cup {<<"header">>} PROVE \E b : IsOnly(boxes, b, w)
    BY <1>1, <1>5, <1>6
  <2>2. ASSUME NEW w \in lines \cup sums \cup {<<"header">>}
        PROVE  Cardinality({b \in boxes : b.what = w}) = 1
    BY <2>1, TheBox
  <2> QED
    BY <2>2 DEF HasEach
<1>9. /\ \A n \in 1..N : The(boxes, <<"line", sorted[n].lineNumber>>) = Row(n)
      /\ \A n \in DOMAIN labels : The(boxes, <<labels[n]>>) = Sum(n)
  BY <1>1, TheBox
<1>10. The(boxes, <<"subtotal">>) = Sum(1) /\ The(boxes, <<"total">>) = Sum(last)
  BY <1>3, <1>4, <1>9
<1>11. ASSUME NEW v \in lines, NEW w \in lines, v[2] < w[2]
       PROVE  ReadBefore(The(boxes, v), The(boxes, w))
  <2>1. PICK m \in 1..N : v = <<"line", sorted[m].lineNumber>>
    BY <1>6
  <2>2. PICK n \in 1..N : w = <<"line", sorted[n].lineNumber>>
    BY <1>6
  <2>3. m < n
    <3>1. sorted[m].lineNumber < sorted[n].lineNumber
      BY <1>11, <2>1, <2>2
    <3>2. m # n /\ ~ (n < m)
      BY <1>7, <3>1
    <3> QED
      BY <1>7, <3>2
  <2>4. ReadBefore(Row(m), Row(n))
    BY <1>2, <2>3 DEF Reads, Row
  <2> QED
    BY <1>9, <2>1, <2>2, <2>4
<1>12. ASSUME NEW w \in lines
       PROVE  /\ ReadBefore(The(boxes, w), The(boxes, <<"subtotal">>))
              /\ \E h \in boxes : /\ h.what = <<"heading">> /\ h.page = The(boxes, w).page
                                  /\ ReadBefore(h, The(boxes, w))
  <2>1. PICK n \in 1..N : w = <<"line", sorted[n].lineNumber>>
    BY <1>6
  <2>2. The(boxes, w) = Row(n)
    BY <1>9, <2>1
  <2>3. ReadBefore(Row(n), Sum(1))
    BY <1>2, <1>3 DEF Reads, Row, Sum
  <2>4. PICK p : p = C[n].page
    OBVIOUS
  <2>5. p \in 1..C[N].page /\ p \in Nat \ {0} /\ Row(n).page = p
    <3>1. Row(n).page = C[n].page /\ Row(n).page \in 1..C[N].page
      BY <1>0, LineAt DEF Row
    <3>2. n \in 0..N
      BY <1>7
    <3>3. C[n].page \in Nat \ {0}
      BY <1>0, <3>2 DEF Drawing, InTable, Positions
    <3> QED
      BY <2>4, <3>1, <3>3
  <2>6. PICK h : h = HeadingBox(inv, p)
    OBVIOUS
  <2>7. h \in boxes
    BY <2>5, <2>6 DEF Document, Content
  <2>8. h.what = <<"heading">> /\ h.page = p
    <3>1. Printable(inv)
      BY <1>0 DEF Drawing
    <3> QED
      BY <2>5, <2>6, <3>1, HeadingAt
  <2>9. ReadBefore(h, Row(n))
    <3>1. p <= C[n].page
      BY <2>4, <2>5
    <3> QED
      BY <1>2, <2>5, <2>6, <3>1 DEF Reads, Row
  <2> QED
    BY <1>10, <2>2, <2>3, <2>5, <2>7, <2>8, <2>9
<1>13. ASSUME NEW s \in sums \ {<<"total">>}
       PROVE  /\ The(boxes, s).page = The(boxes, <<"total">>).page
              /\ ReadBefore(The(boxes, s), The(boxes, <<"total">>))
  <2>1. PICK n \in DOMAIN labels : s = <<labels[n]>>
    BY <1>5
  <2>2. n < last
    <3>1. n # last
      BY <1>4, <1>13, <2>1
    <3> QED
      BY <1>4, <3>1
  <2>3. Sum(n).page = place.page /\ Sum(last).page = place.page
    BY <1>0, SumAt DEF Sum
  <2>4. ReadBefore(Sum(n), Sum(last))
    BY <1>2, <2>2 DEF Reads, Sum
  <2> QED
    BY <1>9, <1>10, <2>1, <2>3, <2>4
<1> QED
  BY <1>8, <1>11, <1>12, <1>13 DEF InReadingOrder, lines, sums

LEMMA AreNumbered ==
    ASSUME NEW boxes, NEW inv, NEW N, NEW sorted, NEW C, NEW labels, NEW place,
           Document(boxes, inv, N, sorted, C, labels, place)
    PROVE  Numbered(boxes)
<1> DEFINE content == Content(inv, N, sorted, C, labels, place)
           P == place.page
           pages == {b.page : b \in boxes}
<1>0. Drawing(inv, N, sorted, C, labels, place) /\ boxes = content \cup {NumberBox(p, P) : p \in 1..P}
  BY DEF Document
<1>1. P \in Nat \ {0}
  BY <1>0 DEF Drawing, Positions
<1>2. \A p \in 1..P : NumberBox(p, P) \in boxes /\ NumberBox(p, P).page = p
  <2>1. ASSUME NEW p \in 1..P PROVE NumberBox(p, P) \in boxes /\ NumberBox(p, P).page = p
    <3>1. p \in Nat \ {0}
      BY <1>1
    <3>2. NumberBox(p, P) \in boxes
      BY <1>0
    <3> QED
      BY <3>1, <3>2, NumberAt
  <2> QED
    BY <2>1
<1>3. \A b \in content : b.page \in 1..P /\ b.bottom <= PageBottom
  BY <1>0, ContentWithin
<1>4. \A p \in 1..P : \E b \in content : b.page = p
  BY <1>0, PagesUsed
<1>5. \A p \in 1..P : IsOnly(boxes, NumberBox(p, P), <<"page", p, P>>)
  BY OnlyBoxes
<1> HIDE DEF content, P
<1>6. pages = 1..P
  BY <1>0, <1>2, <1>3
<1> HIDE DEF pages
<1>7. Cardinality(pages) = P
  <2>1. 1 \in Int /\ P \in Int
    BY <1>1
  <2>2. Cardinality(1..P) = IF 1 > P THEN 0 ELSE P - 1 + 1
    BY <2>1, FS_Interval
  <2>3. Cardinality(1..P) = P
    BY <1>1, <2>2
  <2> QED
    BY <1>6, <2>3
<1>8. HasEach(boxes, {<<"page", p, P>> : p \in pages})
  <2>1. ASSUME NEW w \in {<<"page", p, P>> : p \in pages} PROVE Cardinality({b \in boxes : b.what = w}) = 1
    <3>1. PICK p \in 1..P : w = <<"page", p, P>>
      BY <1>6
    <3> QED
      BY <1>5, <3>1, TheBox
  <2> QED
    BY <2>1 DEF HasEach
<1>9. \A p \in pages : \E b \in boxes : b.page = p /\ b.bottom <= PageBottom
  BY <1>0, <1>3, <1>4, <1>6
<1> QED
  BY <1>6, <1>7, <1>8, <1>9 DEF Numbered, pages

\* Every invoice that fits the page is laid out readably: whatever the number and the
\* heights of its lines, and wherever the pages break.
THEOREM PrintedIsReadable == Unreadable = {}
<1>1. ASSUME NEW inv \in Printed PROVE Readable(inv)
  <2>1. Printable(inv)
    <3>1. /\ inv.lines \in Seq(Line)
          /\ \A j, k \in DOMAIN inv.lines : inv.lines[j].lineNumber = inv.lines[k].lineNumber => j = k
          /\ \A k \in DOMAIN inv.lines : Margin + HeadingHeight + inv.lines[k].height <= PageBottom
          /\ inv.header \in Nat \ {0} /\ Margin + inv.header + HeadingHeight <= PageBottom
      BY PrintedAssumption
    <3> QED
      BY <3>1 DEF Printable, Fit
  <2>2. PICK N, sorted, C, labels, place :
           /\ Drawing(inv, N, sorted, C, labels, place)
           /\ RenderInvoicePdf(inv)
                 = Content(inv, N, sorted, C, labels, place)
                     \cup Footers(Content(inv, N, sorted, C, labels, place))
    BY <2>1, DrawingOf
  <2>3. PICK boxes : boxes = RenderInvoicePdf(inv)
    OBVIOUS
  <2>4. Document(boxes, inv, N, sorted, C, labels, place)
    BY <2>2, <2>3, FootersOf DEF Document
  <2>5. WellPlaced(boxes) /\ InReadingOrder(boxes, inv) /\ Numbered(boxes)
    BY <2>4, PlacedWell, ReadInOrder, AreNumbered
  <2> QED
    BY <2>3, <2>5 DEF Readable
<1> QED
  BY <1>1 DEF Unreadable

\* What a request is served reads well: its invoice is one of those printed, whatever
\* the number and the heights of its lines and wherever its pages break.
THEOREM ServedReadsWell == Spec => []ServedIsReadable
<1>1. ServedIsReadable
  BY PrintedIsReadable DEF ServedIsReadable
<1> QED
  BY <1>1, PTL
=============================================================================
