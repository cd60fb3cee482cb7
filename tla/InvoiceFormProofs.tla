------------------------- MODULE InvoiceFormProofs -------------------------
(***************************************************************************)
(* What the browser previews is what the API calculates; and every invoice *)
(* has the date its user wanted and the totals its user saw, however long  *)
(* the page stays open and whatever is lost or retried.                    *)
(***************************************************************************)
EXTENDS InvoiceForm, NaturalLemmas, SequenceTheorems

(***************************************************************************)
(* What the browser previews is what the API calculates, for every amount. *)
(***************************************************************************)
Partial(v, n) ==
    {f \in [0..n -> Nat] : \A i \in 0..n : f[i] = IF i = 0 THEN 0 ELSE f[i - 1] + v[i]}

LEMMA SumTyped ==
    ASSUME NEW v \in Seq(Nat)
    PROVE  SumMoney(v) \in Nat
<1> DEFINE N == Len(v)
           S == {n \in 0..N : Partial(v, n) # {}}
<1>1. N \in Nat
  OBVIOUS
<1>2. 0 \in S
  <2>1. [i \in 0..0 |-> 0] \in Partial(v, 0)
    BY DEF Partial
  <2> QED
    BY <2>1
<1>3. \A n \in 0..N : n < N /\ n \in S => n + 1 \in S
  <2> SUFFICES ASSUME NEW n \in 0..N, n < N, n \in S PROVE n + 1 \in S
    OBVIOUS
  <2>1. PICK f : f \in Partial(v, n)
    OBVIOUS
  <2> DEFINE g == [i \in 0..(n + 1) |-> IF i = n + 1 THEN f[n] + v[n + 1] ELSE f[i]]
  <2>2. v[n + 1] \in Nat
    OBVIOUS
  <2>3. f \in [0..n -> Nat] /\ \A i \in 0..n : f[i] = IF i = 0 THEN 0 ELSE f[i - 1] + v[i]
    BY <2>1 DEF Partial
  <2>4. g \in [0..(n + 1) -> Nat]
    BY <2>2, <2>3
  <2>5. ASSUME NEW i \in 0..(n + 1) PROVE g[i] = IF i = 0 THEN 0 ELSE g[i - 1] + v[i]
    <3>1. CASE i = n + 1
      BY <3>1
    <3>2. CASE i # n + 1
      <4>1. i \in 0..n /\ g[i] = f[i] /\ (i # 0 => g[i - 1] = f[i - 1])
        BY <3>2
      <4> QED
        BY <4>1, <2>3
    <3> QED
      BY <3>1, <3>2
  <2>6. g \in Partial(v, n + 1)
    BY <2>4, <2>5 DEF Partial
  <2> QED
    BY <2>6
<1>4. N \in S
  <2> HIDE DEF N, S
  <2>1. 0..N \subseteq S
    BY <1>1, <1>2, <1>3, UpTo
  <2> QED
    BY <1>1, <2>1
<1>5. PICK f : f \in Partial(v, N)
  BY <1>4
<1> DEFINE Def(f_) == [n \in 0..Len(v) |-> IF n = 0 THEN 0 ELSE f_[n - 1] + v[n]]
           s == CHOOSE f_ : f_ = Def(f_)
<1>6. f = Def(f)
  BY <1>5 DEF Partial
<1>7. s = Def(s)
  BY <1>6
<1>8. SumMoney(v) = s[Len(v)]
  BY DEF SumMoney
<1> DEFINE T == {n \in 0..N : s[n] \in Nat}
<1> HIDE DEF s
<1>9. 0 \in T /\ \A n \in 0..N : n < N /\ n \in T => n + 1 \in T
  <2>1. s[0] = 0
    BY <1>7
  <2>2. ASSUME NEW n \in 0..N, n < N, n \in T PROVE n + 1 \in T
    <3>1. s[n + 1] = s[n] + v[n + 1]
      BY <1>7, <2>2
    <3> QED
      BY <3>1, <2>2
  <2> QED
    BY <2>1, <2>2
<1>10. N \in T
  <2> HIDE DEF N, T
  <2>1. 0..N \subseteq T
    BY <1>1, <1>9, UpTo
  <2> QED
    BY <1>1, <2>1
<1> QED
  BY <1>8, <1>10

\* A price that has no more than two decimals is rounded to itself.
LEMMA RoundCents ==
    ASSUME NEW n \in Nat
    PROVE  RoundMoney(n * RateScale) = n
  BY DEF RoundMoney, RateScale

LEMMA RoundBoth ==
    ASSUME NEW n \in Nat
    PROVE  /\ RoundMoney(n) = (n + RateScale \div 2) \div RateScale
           /\ RoundMoney(n) \in Nat
           /\ 2 * n - 10000 <= 20000 * RoundMoney(n) /\ 20000 * RoundMoney(n) <= 2 * n + 10000
<1> DEFINE q == n \div 10000
           r == n % 10000
<1>1. q \in Nat /\ r \in 0..9999 /\ n = 10000 * q + r
  OBVIOUS
<1>2. RateScale = 10000 /\ RateScale \div 2 = 5000
  BY DEF RateScale
<1>3. RoundMoney(n) = IF 2 * r >= 10000 THEN q + 1 ELSE q
  BY <1>2 DEF RoundMoney
<1> HIDE DEF q, r
<1>4. (n + 5000) \div 10000 = IF 2 * r >= 10000 THEN q + 1 ELSE q
  BY <1>1
<1> QED
  BY <1>1, <1>2, <1>3, <1>4

LEMMA ProductTyped ==
    ASSUME NEW a \in Nat, NEW b \in Nat
    PROVE  a * b \in Nat
  OBVIOUS

\* The tax of the preview is the API's tax, at every amount and rate, half a
\* cent included (taxCents, calculateTax).
THEOREM TaxIsPreviewed ==
    ASSUME NEW subtotal \in Nat, NEW rate \in Nat
    PROVE  TaxCents(subtotal, rate) = CalculateTax(subtotal, rate)
<1>1. subtotal * rate \in Nat
  BY ProductTyped
<1> QED
  BY <1>1, RoundBoth DEF TaxCents, CalculateTax

\* The tax is the exact product rounded to the nearest cent (roundMoney).
THEOREM TaxIsNearest ==
    ASSUME NEW subtotal \in Nat, NEW rate \in Nat
    PROVE  LET tax == CalculateTax(subtotal, rate)
               exact == subtotal * rate
           IN  2 * exact - 10000 <= 20000 * tax /\ 20000 * tax <= 2 * exact + 10000
<1> DEFINE n == subtotal * rate
<1>1. n \in Nat
  BY ProductTyped
<1>2. CalculateTax(subtotal, rate) = RoundMoney(n)
  BY DEF CalculateTax
<1> HIDE DEF n
<1>3. 2 * n - 10000 <= 20000 * RoundMoney(n) /\ 20000 * RoundMoney(n) <= 2 * n + 10000
  BY <1>1, RoundBoth
<1> QED
  BY <1>2, <1>3 DEF n

\* What is previewed for lines that are filled in is what the API calculates, to
\* the cent (previewTotals, calculateInvoiceTotals).
THEOREM PreviewIsCalculated ==
    ASSUME NEW priced \in Seq([quantity : Nat, unitPrice : Nat]), NEW rate \in Nat
    PROVE  PreviewTotals(priced, rate) = CalculateInvoiceTotals(priced, rate)
<1> DEFINE cents == [i \in DOMAIN priced |-> priced[i].unitPrice * priced[i].quantity]
           totals == [i \in DOMAIN priced |-> CalculateLine(priced[i])]
<1>0. \A i \in DOMAIN priced : priced[i] \in [quantity : Nat, unitPrice : Nat]
  <2> DEFINE R == [quantity : Nat, unitPrice : Nat]
  <2>1. priced \in Seq(R)
    OBVIOUS
  <2> HIDE DEF R
  <2>2. \A i \in DOMAIN priced : priced[i] \in R
    BY <2>1
  <2> QED
    BY <2>2 DEF R
<1>1. ASSUME NEW i \in DOMAIN priced
      PROVE  /\ CalculateLine(priced[i]) = priced[i].unitPrice * priced[i].quantity
             /\ priced[i].unitPrice * priced[i].quantity \in Nat
  <2>1. priced[i] \in [quantity : Nat, unitPrice : Nat]
    BY <1>0
  <2>2. priced[i].unitPrice \in Nat /\ priced[i].quantity \in Nat
    BY <2>1
  <2>3. RoundMoney(priced[i].unitPrice * RateScale) = priced[i].unitPrice
    BY <2>2, RoundCents
  <2> QED
    BY <2>2, <2>3, ProductTyped DEF CalculateLine
<1>2. totals = cents
  BY <1>1
<1>3. cents \in Seq(Nat)
  BY <1>1
<1>4. SumMoney(cents) \in Nat
  BY <1>3, SumTyped
<1>5. TaxCents(SumMoney(cents), rate) = CalculateTax(SumMoney(cents), rate)
  BY <1>4, TaxIsPreviewed
<1> QED
  BY <1>2, <1>5, Zenon DEF PreviewTotals, CalculateInvoiceTotals

(***************************************************************************)
(* The form and its requests.                                              *)
(***************************************************************************)
Fields == [key : Nat, product : Products \cup {NoProduct},
           quantity : Quantities \cup {Empty}, cost : Costs \cup {Empty}]

CallFields == {"number", "lines", "date", "at", "submittedOn", "draft", "chosen", "previewed"}

\* The date is the one that was picked, or else one resolved since the submission.
DateInv(call) ==
    /\ call.submittedOn \in Int /\ call.submittedOn <= today
    /\ call.at = "sent" => call.date = call.chosen
    /\ call.at # "sent" =>
          IF call.chosen = NoDate THEN call.date \in Int /\ call.submittedOn <= call.date /\ call.date <= today
          ELSE call.date = call.chosen

\* What a request carries is what the user wanted and saw.
CallInv(call) ==
    /\ DOMAIN call = CallFields
    /\ DateInv(call)
    /\ call.previewed = CalculateInvoiceTotals(call.lines, TaxRate)

FormInv ==
    /\ lines \in Seq(Fields) /\ nextKey \in Nat
    /\ today \in Int
    /\ chosen = SentDate
    /\ \A call \in calls : CallInv(call)
    /\ DateIsWanted
    /\ PreviewIsInvoiced

LEMMA EmptyLineTyped ==
    ASSUME NEW key \in Nat
    PROVE  EmptyLine(key) \in Fields
  BY DEF EmptyLine, Fields

LEMMA FormInit == Init => FormInv
<1> SUFFICES ASSUME Init PROVE FormInv
  OBVIOUS
<1>1. lines \in Seq(Fields) /\ nextKey \in Nat
  BY EmptyLineTyped DEF Init
<1> QED
  BY <1>1, FormAssumption DEF Init, FormInv, SentDate, DateIsWanted, PreviewIsInvoiced

\* The form is submitted only when all lines are filled in.
LEMMA EnteredTyped ==
    ASSUME lines \in Seq(Fields), IsFilledIn
    PROVE  Entered \in Seq([quantity : Nat, unitPrice : Nat])
<1>1. \A i \in DOMAIN lines : Entered[i] \in [quantity : Nat, unitPrice : Nat]
  BY DEF IsFilledIn, IsComplete, Entered
<1>2. DOMAIN Entered = 1..Len(lines) /\ Len(lines) \in Nat
  BY DEF Entered
<1> DEFINE R == [quantity : Nat, unitPrice : Nat]
<1>3. Entered = [i \in 1..Len(lines) |-> Entered[i]]
  BY <1>2 DEF Entered
<1> HIDE DEF R
<1>4. \A i \in 1..Len(lines) : Entered[i] \in R
  BY <1>1, <1>2 DEF R
<1>5. Entered \in [1..Len(lines) -> R]
  BY <1>3, <1>4
<1>6. Entered \in Seq(R)
  BY <1>2, <1>5
<1> QED
  BY <1>6 DEF R

\* A refused request, or one that keeps its date once it has begun.
LEMMA NowKeeps ==
    ASSUME NEW call \in calls, NEW at, NEW resolved,
           \A c \in calls : CallInv(c), today' = today,
           DateInv([call EXCEPT !.at = at, !.date = resolved])
    PROVE  \A c \in Now(call, at, resolved) : CallInv(c)'
<1> DEFINE now == [call EXCEPT !.at = at, !.date = resolved]
<1>1. DOMAIN call = CallFields /\ CallInv(call)
  BY DEF CallInv
<1>2. DOMAIN now = CallFields /\ now.previewed = call.previewed /\ now.lines = call.lines
  BY <1>1 DEF CallFields
<1>3. CallInv(now)
  BY <1>1, <1>2 DEF CallInv
<1>4. \A c \in Now(call, at, resolved) : CallInv(c)
  BY <1>3 DEF Now
<1> QED
  BY <1>4 DEF CallInv, DateInv

LEMMA FormStep == FormInv /\ [Next]_vars => FormInv'
<1> SUFFICES ASSUME FormInv, [Next]_vars PROVE FormInv'
  OBVIOUS
<1> USE DEF FormInv
<1>1. CASE Add
  <2>1. lines' \in Seq(Fields) /\ nextKey' \in Nat
    BY <1>1, EmptyLineTyped DEF Add
  <2> QED
    BY <1>1, <2>1 DEF Add, ghosts, SentDate, DateIsWanted, PreviewIsInvoiced, CallInv, DateInv
<1>2. ASSUME NEW i \in DOMAIN lines, RemoveLine(i) PROVE FormInv'
  <2>1. lines' \in Seq(Fields)
    BY <1>2 DEF RemoveLine, RemoveAt
  <2> QED
    BY <1>2, <2>1 DEF RemoveLine, ghosts, SentDate, DateIsWanted, PreviewIsInvoiced, CallInv, DateInv
<1>3. ASSUME NEW i \in DOMAIN lines, Update(i) PROVE FormInv'
  <2>1. PICK line \in Edits(lines[i]) : lines' = [lines EXCEPT ![i] = line]
    BY <1>3 DEF Update
  <2>2. lines[i] \in Fields
    OBVIOUS
  <2>3. line \in Fields
    BY <2>1, <2>2 DEF Edits, Fields
  <2>4. lines' \in Seq(Fields)
    BY <2>1, <2>3
  <2> QED
    BY <1>3, <2>4 DEF Update, ghosts, SentDate, DateIsWanted, PreviewIsInvoiced, CallInv, DateInv
<1>4. ASSUME NEW day \in Days, SetDate(day) PROVE FormInv'
  BY <1>4 DEF SetDate, items, SentDate, DateIsWanted, PreviewIsInvoiced, CallInv, DateInv
<1>5. CASE Submit
  <2>1. PreviewTotals(Entered, TaxRate) = CalculateInvoiceTotals(Entered, TaxRate)
    BY <1>5, EnteredTyped, PreviewIsCalculated, FormAssumption DEF Submit
  <2> DEFINE call == [number |-> submits + 1, lines |-> Entered, date |-> SentDate,
                      at |-> "sent", submittedOn |-> today, draft |-> draft,
                      chosen |-> chosen, previewed |-> PreviewTotals(Entered, TaxRate)]
  <2>2. CallInv(call)
    BY <2>1 DEF CallInv, DateInv, CallFields
  <2>3. calls' = calls \cup {call} /\ today' = today
    BY <1>5 DEF Submit
  <2>4. \A c \in calls' : CallInv(c)'
    <3> HIDE DEF call
    <3> QED
      BY <2>2, <2>3 DEF CallInv, DateInv
  <2> QED
    BY <1>5, <2>4 DEF Submit, items, ghosts, SentDate, DateIsWanted, PreviewIsInvoiced
<1>6. ASSUME NEW call \in calls, Begin(call) PROVE FormInv'
  <2>1. CallInv(call)
    OBVIOUS
  <2>2. today' = today
    BY <1>6 DEF Begin
  <2>3. CASE IsInFuture(call.date)
    <3>1. DateInv([call EXCEPT !.at = "refused", !.date = call.date])
      BY <1>6, <2>1, <2>3 DEF Begin, CallInv, DateInv, CallFields, IsInFuture
    <3>2. \A c \in calls' : CallInv(c)'
      BY <1>6, <2>2, <2>3, <3>1, NowKeeps DEF Begin
    <3> QED
      BY <1>6, <3>2 DEF Begin, items, ghosts, SentDate, DateIsWanted, PreviewIsInvoiced
  <2>4. CASE ~IsInFuture(call.date)
    <3>1. DateInv([call EXCEPT !.at = "begun", !.date = ResolveInvoiceDate(call.date)])
      BY <1>6, <2>1, <2>4 DEF Begin, CallInv, DateInv, CallFields, ResolveInvoiceDate
    <3>2. \A c \in calls' : CallInv(c)'
      BY <1>6, <2>2, <2>4, <3>1, NowKeeps DEF Begin
    <3> QED
      BY <1>6, <3>2 DEF Begin, items, ghosts, SentDate, DateIsWanted, PreviewIsInvoiced
  <2> QED
    BY <2>3, <2>4
<1>7. ASSUME NEW call \in calls, Issue(call) \/ Refuse(call) PROVE FormInv'
  <2>1. CallInv(call) /\ call.at = "begun" /\ today' = today
    BY <1>7 DEF Issue, Refuse
  <2>2. \A at \in {"created", "refused"} : DateInv([call EXCEPT !.at = at, !.date = call.date])
    BY <2>1 DEF CallInv, DateInv, CallFields
  <2>3. \A c \in calls' : CallInv(c)'
    BY <1>7, <2>1, <2>2, NowKeeps DEF Issue, Refuse
  <2>4. DateIsWanted'
    BY <1>7, <2>1 DEF Issue, Refuse, DateIsWanted, DateInv, CallInv
  <2>5. PreviewIsInvoiced'
    BY <1>7, <2>1 DEF Issue, Refuse, PreviewIsInvoiced, CallInv
  <2> QED
    BY <1>7, <2>3, <2>4, <2>5 DEF Issue, Refuse, items, ghosts, SentDate
<1>8. ASSUME NEW call \in calls, Succeed(call) PROVE FormInv'
  <2>1. lines' \in Seq(Fields) /\ nextKey' \in Nat
    BY <1>8, EmptyLineTyped DEF Succeed, Reset
  <2> QED
    BY <1>8, <2>1 DEF Succeed, SentDate, DateIsWanted, PreviewIsInvoiced, CallInv, DateInv
<1>9. ASSUME NEW call \in calls, BeRefused(call) \/ LoseAnswer(call) PROVE FormInv'
  BY <1>9 DEF BeRefused, LoseAnswer, items, ghosts, SentDate, DateIsWanted, PreviewIsInvoiced, CallInv, DateInv
<1>10. CASE Midnight
  BY <1>10 DEF Midnight, items, ghosts, SentDate, DateIsWanted, PreviewIsInvoiced, CallInv, DateInv
<1>11. CASE UNCHANGED vars
  BY <1>11 DEF vars, items, ghosts, SentDate, DateIsWanted, PreviewIsInvoiced, CallInv, DateInv
<1> QED
  BY <1>1, <1>2, <1>3, <1>4, <1>5, <1>6, <1>7, <1>8, <1>9, <1>10, <1>11
  DEF Next, FillIn, Process, Receive

LEMMA FormAlways == Spec => []FormInv
  BY FormInit, FormStep, PTL DEF Spec

\* An invoice has the totals its form showed when it was submitted, to the cent, at
\* any prices and any tax rate (useInvoiceForm, lib/money.ts, common/money.ts).
THEOREM PreviewsAreInvoiced == Spec => []PreviewIsInvoiced
<1>1. FormInv => PreviewIsInvoiced
  BY DEF FormInv
<1> QED
  BY <1>1, FormAlways, PTL

\* An invoice has the date its user picked, or the day it was issued: nothing that
\* was picked before, and no day the page has outlived (SentDate, resolveInvoiceDate).
THEOREM DatesAreWanted == Spec => []DateIsWanted
<1>1. FormInv => DateIsWanted
  BY DEF FormInv
<1> QED
  BY <1>1, FormAlways, PTL

(***************************************************************************)
(* Counting the invoices of a draft by the requests that may have one.     *)
(***************************************************************************)
\* The requests of a draft that have an invoice or may still get one.
Possible(d) ==
    {v.number : v \in {w \in invoices : w.draft = d}}
    \cup {c.number : c \in {e \in calls : e.draft = d /\ e.at \in {"sent", "begun"}}}

RequestsInv ==
    /\ submits \in Nat /\ draft \in Nat /\ losses \in [Drafts -> Nat]
    /\ ~submitting => waiting = NoCall
    /\ \A c \in calls : /\ DOMAIN c = CallFields
                        /\ c.number \in 1..submits /\ c.draft \in 0..draft
                        /\ c.number = waiting => c.draft = draft
    /\ \A c, e \in calls : c.number = e.number => c = e

InvoicesInv ==
    /\ \A v \in invoices : /\ v.number \in 1..submits /\ v.draft \in 0..draft
                           /\ v.number = waiting => v.draft = draft
    /\ \A v, w \in invoices : v.number = w.number => v = w
    /\ \A c \in calls :
          IF c.at = "created" THEN \E v \in invoices : v.number = c.number /\ v.draft = c.draft
          ELSE \A v \in invoices : v.number # c.number

\* Of the requests the form does not wait for, each but one had its answer lost, and
\* that one began the next draft.
CountInv ==
    \A d \in Drafts :
        /\ Cardinality(Possible(d) \ {waiting}) <= losses[d] + (IF d < draft THEN 1 ELSE 0)
        /\ d < draft => \E v \in invoices : v.draft = d

DraftsInv == RequestsInv /\ InvoicesInv /\ CountInv

LEMMA PossibleNumbers ==
    ASSUME RequestsInv, InvoicesInv, NEW d
    PROVE  /\ Possible(d) \subseteq 1..submits
           /\ IsFiniteSet(Possible(d)) /\ Cardinality(Possible(d)) \in Nat
           /\ \A x : IsFiniteSet(Possible(d) \ {x}) /\ Cardinality(Possible(d) \ {x}) \in Nat
           /\ \A x : Cardinality(Possible(d)) <= 1 + Cardinality(Possible(d) \ {x})
           /\ d \notin 0..draft => Possible(d) = {}
<1>1. Possible(d) \subseteq 1..submits
  BY DEF Possible, RequestsInv, InvoicesInv
<1>2. IsFiniteSet(1..submits)
  BY FS_Interval DEF RequestsInv
<1>3. IsFiniteSet(Possible(d)) /\ Cardinality(Possible(d)) \in Nat
  BY <1>1, <1>2, FS_Subset, FS_CardinalityType
<1>4. ASSUME NEW x
      PROVE  /\ IsFiniteSet(Possible(d) \ {x}) /\ Cardinality(Possible(d) \ {x}) \in Nat
             /\ Cardinality(Possible(d)) <= 1 + Cardinality(Possible(d) \ {x})
  <2>1. IsFiniteSet(Possible(d) \ {x})
    BY <1>3, FS_Subset
  <2>2. Cardinality(Possible(d) \ {x}) \in Nat
    BY <2>1, FS_CardinalityType
  <2>3. CASE x \in Possible(d)
    <3> DEFINE S == Possible(d) \ {x}
    <3>1. Possible(d) = S \cup {x} /\ x \notin S
      BY <2>3
    <3>2. Cardinality(S \cup {x}) = Cardinality(S) + 1
      BY <2>1, <3>1, FS_AddElement
    <3> QED
      BY <2>1, <2>2, <3>1, <3>2
  <2>4. CASE x \notin Possible(d)
    <3>1. Possible(d) \ {x} = Possible(d)
      BY <2>4
    <3> QED
      BY <1>3, <3>1
  <2> QED
    BY <2>1, <2>2, <2>3, <2>4
<1>5. d \notin 0..draft => Possible(d) = {}
  BY DEF Possible, RequestsInv, InvoicesInv
<1> QED
  BY <1>1, <1>3, <1>4, <1>5

LEMMA DraftsInit == Init => DraftsInv
<1> SUFFICES ASSUME Init PROVE DraftsInv
  OBVIOUS
<1>1. RequestsInv /\ InvoicesInv
  BY DEF Init, RequestsInv, InvoicesInv
<1>2. \A d \in Drafts : Possible(d) \ {waiting} = {} /\ losses[d] = 0 /\ ~(d < draft)
  BY FormAssumption DEF Init, Possible, Drafts
<1> QED
  BY <1>1, <1>2, FS_EmptySet DEF DraftsInv, CountInv

\* The requests that may have an invoice grow only by the one that is submitted.
LEMMA CountKept ==
    ASSUME DraftsInv, RequestsInv', InvoicesInv', UNCHANGED <<draft, losses>>,
           invoices \subseteq invoices',
           \A d \in Drafts : Possible(d)' \ {waiting'} \subseteq Possible(d) \ {waiting}
    PROVE  DraftsInv'
<1>1. ASSUME NEW d \in Drafts
      PROVE  Cardinality(Possible(d)' \ {waiting'}) <= losses'[d] + (IF d < draft' THEN 1 ELSE 0)
  <2> DEFINE bound == losses[d] + (IF d < draft THEN 1 ELSE 0)
             S == Possible(d) \ {waiting}
             T == Possible(d)' \ {waiting'}
  <2>1. IsFiniteSet(S) /\ Cardinality(S) \in Nat
    BY PossibleNumbers DEF DraftsInv
  <2>2. T \in SUBSET S
    OBVIOUS
  <2>3. Cardinality(T) <= Cardinality(S) /\ Cardinality(T) \in Nat
    <3> HIDE DEF S, T
    <3> QED
      BY <2>1, <2>2, FS_Subset, FS_CardinalityType
  <2>4. Cardinality(S) <= bound
    BY DEF DraftsInv, CountInv
  <2>5. losses[d] \in Nat
    BY DEF DraftsInv, RequestsInv
  <2> HIDE DEF S, T
  <2>6. Cardinality(T) <= bound
    BY <2>1, <2>3, <2>4, <2>5
  <2> QED
    BY <2>6 DEF T
<1>2. ASSUME NEW d \in Drafts, d < draft' PROVE \E v \in invoices' : v.draft = d
  BY <1>2 DEF DraftsInv, CountInv
<1> QED
  BY <1>1, <1>2 DEF DraftsInv, CountInv

LEMMA SubmitCounts == DraftsInv /\ Submit => DraftsInv'
<1> SUFFICES ASSUME DraftsInv, Submit PROVE DraftsInv'
  OBVIOUS
<1> SUFFICES ASSUME NEW call,
                    call = [number |-> submits + 1, lines |-> Entered, date |-> SentDate,
                            at |-> "sent", submittedOn |-> today, draft |-> draft,
                            chosen |-> chosen, previewed |-> PreviewTotals(Entered, TaxRate)]
             PROVE  DraftsInv'
  OBVIOUS
<1>1. /\ calls' = calls \cup {call} /\ submits' = submits + 1 /\ waiting' = submits + 1 /\ submitting'
      /\ UNCHANGED <<draft, losses, invoices>>
      /\ waiting = NoCall /\ submits \in Nat /\ draft \in Nat
  BY DEF Submit, ghosts, Enabled, DraftsInv, RequestsInv
<1>2. /\ DOMAIN call = CallFields /\ call.number = submits + 1 /\ call.draft = draft /\ call.at = "sent"
  BY DEF CallFields
<1>3. RequestsInv'
  BY <1>1, <1>2 DEF DraftsInv, RequestsInv
<1>4. InvoicesInv'
  BY <1>1, <1>2 DEF DraftsInv, InvoicesInv
<1>5. ASSUME NEW d \in Drafts PROVE Possible(d)' \ {waiting'} \subseteq Possible(d) \ {waiting}
  <2>1. Possible(d)' \subseteq Possible(d) \cup {waiting'}
    BY <1>1, <1>2 DEF Possible
  <2>2. waiting \notin Possible(d)
    BY <1>1, PossibleNumbers, FormAssumption DEF DraftsInv
  <2> QED
    BY <2>1, <2>2
<1> QED
  BY <1>1, <1>3, <1>4, <1>5, CountKept

\* A request at the API changes its state and date, and is the only one to get an invoice.
LEMMA NowFields ==
    ASSUME RequestsInv, NEW call \in calls, NEW at, NEW resolved
    PROVE  LET now == [call EXCEPT !.at = at, !.date = resolved]
           IN  /\ DOMAIN now = CallFields /\ now.at = at
               /\ now.number = call.number /\ now.draft = call.draft
  BY DEF RequestsInv, CallFields

LEMMA ProcessCounts ==
    ASSUME DraftsInv, NEW call \in calls, Process(call)
    PROVE  DraftsInv'
<1> DEFINE Becomes(at, resolved) ==
      /\ at \in {"begun", "created", "refused"}
      /\ calls' = Now(call, at, resolved)
      /\ IF at = "created"
         THEN \E v : v.number = call.number /\ v.draft = call.draft /\ invoices' = invoices \cup {v}
         ELSE UNCHANGED invoices
      /\ call.at \in {"sent", "begun"}
<1>0. \E at, resolved : Becomes(at, resolved)
  <2>1. CASE Begin(call)
    <3>1. Becomes("refused", call.date) \/ Becomes("begun", ResolveInvoiceDate(call.date))
      BY <2>1 DEF Begin
    <3> HIDE DEF Becomes
    <3> QED
      BY <3>1
  <2>2. CASE Issue(call)
    <3>1. \E v : v.number = call.number /\ v.draft = call.draft /\ invoices' = invoices \cup {v}
      BY <2>2 DEF Issue
    <3>2. Becomes("created", call.date)
      BY <2>2, <3>1 DEF Issue
    <3> HIDE DEF Becomes
    <3> QED
      BY <3>2
  <2>3. CASE Refuse(call)
    <3>1. Becomes("refused", call.date)
      BY <2>3 DEF Refuse
    <3> HIDE DEF Becomes
    <3> QED
      BY <3>1
  <2> QED
    BY <2>1, <2>2, <2>3 DEF Process
<1>1. PICK at, resolved : Becomes(at, resolved)
  BY <1>0
<1>2. UNCHANGED <<submits, submitting, waiting, draft, losses>>
  BY DEF Process, Begin, Issue, Refuse, status, ghosts
<1> SUFFICES ASSUME NEW now, now = [call EXCEPT !.at = at, !.date = resolved]
             PROVE  DraftsInv'
  OBVIOUS
<1>3. /\ DOMAIN now = CallFields /\ now.at = at
      /\ now.number = call.number /\ now.draft = call.draft
  BY NowFields DEF DraftsInv
<1>4. calls' = (calls \ {call}) \cup {now}
  BY <1>1 DEF Now
<1>5. RequestsInv'
  <2>1. /\ DOMAIN call = CallFields /\ call.number \in 1..submits /\ call.draft \in 0..draft
        /\ call.number = waiting => call.draft = draft
        /\ \A c \in calls : c.number = call.number => c = call
    BY DEF DraftsInv, RequestsInv
  <2>2. ASSUME NEW c \in calls'
        PROVE  /\ DOMAIN c = CallFields
               /\ c.number \in 1..submits /\ c.draft \in 0..draft
               /\ c.number = waiting => c.draft = draft
    <3>1. CASE c = now
      <4> HIDE DEF CallFields
      <4> QED
        BY <1>3, <2>1, <3>1
    <3>2. CASE c # now
      BY <1>4, <3>2 DEF DraftsInv, RequestsInv
    <3> QED
      BY <3>1, <3>2
  <2>3. ASSUME NEW c \in calls', NEW e \in calls', c.number = e.number PROVE c = e
    <3>1. c \in calls \ {call} \/ c = now
      BY <1>4
    <3>2. e \in calls \ {call} \/ e = now
      BY <1>4
    <3>3. \A x \in calls \ {call} : x.number # now.number
      BY <1>3, <2>1
    <3> QED
      BY <2>3, <3>1, <3>2, <3>3 DEF DraftsInv, RequestsInv
  <2> QED
    BY <1>2, <2>2, <2>3 DEF DraftsInv, RequestsInv
<1>6. /\ call.number \in 1..submits /\ call.draft \in 0..draft
      /\ call.number = waiting => call.draft = draft
      /\ \A v \in invoices : v.number # call.number
  BY <1>1 DEF DraftsInv, RequestsInv, InvoicesInv
<1>7. InvoicesInv' /\ \A d \in Drafts : Possible(d)' \subseteq Possible(d)
  <2>1. CASE at = "created"
    <3>1. PICK v : v.number = call.number /\ v.draft = call.draft /\ invoices' = invoices \cup {v}
      BY <1>1, <2>1
    <3>2. InvoicesInv'
      <4>1. \A w \in invoices' : /\ w.number \in 1..submits /\ w.draft \in 0..draft
                                 /\ w.number = waiting => w.draft = draft
        BY <1>6, <3>1 DEF DraftsInv, InvoicesInv
      <4>2. \A u, w \in invoices' : u.number = w.number => u = w
        BY <1>6, <3>1 DEF DraftsInv, InvoicesInv
      <4>3. ASSUME NEW c \in calls'
            PROVE  IF c.at = "created" THEN \E w \in invoices' : w.number = c.number /\ w.draft = c.draft
                   ELSE \A w \in invoices' : w.number # c.number
        <5>1. CASE c = now
          BY <1>3, <2>1, <3>1, <5>1
        <5>2. CASE c # now
          <6>1. c \in calls /\ c.number # call.number
            BY <1>3, <1>4, <5>2 DEF DraftsInv, RequestsInv
          <6> QED
            BY <3>1, <6>1 DEF DraftsInv, InvoicesInv
        <5> QED
          BY <5>1, <5>2
      <4> QED
        BY <1>2, <4>1, <4>2, <4>3 DEF InvoicesInv
    <3>3. \A d \in Drafts : Possible(d)' \subseteq Possible(d)
      BY <1>1, <1>3, <1>4, <2>1, <3>1 DEF Possible
    <3> QED
      BY <3>2, <3>3
  <2>2. CASE at # "created"
    <3>1. InvoicesInv'
      <4>1. invoices' = invoices
        BY <1>1, <2>2
      <4>2. ASSUME NEW c \in calls'
            PROVE  IF c.at = "created" THEN \E w \in invoices : w.number = c.number /\ w.draft = c.draft
                   ELSE \A w \in invoices : w.number # c.number
        <5>1. CASE c = now
          BY <1>3, <1>6, <2>2, <5>1
        <5>2. CASE c # now
          BY <1>4, <5>2 DEF DraftsInv, InvoicesInv
        <5> QED
          BY <5>1, <5>2
      <4> QED
        BY <1>2, <4>1, <4>2 DEF DraftsInv, InvoicesInv
    <3>2. \A d \in Drafts : Possible(d)' \subseteq Possible(d)
      BY <1>1, <1>3, <1>4, <2>2 DEF Possible
    <3> QED
      BY <3>1, <3>2
  <2> QED
    BY <2>1, <2>2
<1>8. invoices \subseteq invoices'
  BY <1>1
<1> QED
  BY <1>2, <1>5, <1>7, <1>8, CountKept

\* The answer of success is the only one that is not counted as lost.
LEMMA SucceedCounts ==
    ASSUME DraftsInv, NEW call \in calls, Succeed(call)
    PROVE  DraftsInv'
<1>1. /\ call.number = waiting /\ call.at = "created" /\ calls' = calls \ {call}
      /\ waiting' = NoCall /\ draft' = draft + 1
      /\ UNCHANGED <<submits, invoices, losses>>
      /\ draft \in Nat /\ call.draft = draft
  BY DEF Succeed, DraftsInv, RequestsInv
<1>2. RequestsInv'
  BY <1>1, FormAssumption DEF DraftsInv, RequestsInv
<1>3. InvoicesInv'
  BY <1>1, FormAssumption DEF DraftsInv, InvoicesInv
<1>4. ASSUME NEW d \in Drafts
      PROVE  Cardinality(Possible(d)' \ {waiting'}) <= losses'[d] + (IF d < draft' THEN 1 ELSE 0)
  <2>1. d \in Nat /\ losses[d] \in Nat
    BY FormAssumption DEF Drafts, DraftsInv, RequestsInv
  <2>2. Possible(d)' = Possible(d)
    BY <1>1 DEF Possible
  <2>3. NoCall \notin Possible(d)
    BY PossibleNumbers, FormAssumption DEF DraftsInv
  <2>4. Possible(d)' \ {waiting'} = Possible(d)
    BY <1>1, <2>2, <2>3
  <2>5. Cardinality(Possible(d)) <= losses[d] + (IF d < draft' THEN 1 ELSE 0)
    <3>1. /\ Cardinality(Possible(d)) \in Nat
          /\ Cardinality(Possible(d) \ {waiting}) \in Nat
          /\ Cardinality(Possible(d)) <= 1 + Cardinality(Possible(d) \ {waiting})
      BY PossibleNumbers DEF DraftsInv
    <3>2. Cardinality(Possible(d) \ {waiting}) <= losses[d] + (IF d < draft THEN 1 ELSE 0)
      BY DEF DraftsInv, CountInv
    <3>3. CASE d < draft
      <4>1. waiting \notin Possible(d)
        BY <2>1, <3>3, <1>1 DEF Possible, DraftsInv, RequestsInv, InvoicesInv
      <4>2. Possible(d) \ {waiting} = Possible(d)
        BY <4>1
      <4>3. Cardinality(Possible(d)) <= losses[d] + 1
        BY <3>2, <3>3, <4>2
      <4> QED
        BY <1>1, <2>1, <3>3, <4>3
    <3>4. CASE d = draft
      BY <1>1, <2>1, <3>1, <3>2, <3>4
    <3>5. CASE d > draft
      <4>1. Possible(d) = {}
        BY <1>1, <2>1, <3>5, PossibleNumbers DEF DraftsInv
      <4> QED
        BY <1>1, <2>1, <4>1, FS_EmptySet
    <3> QED
      BY <1>1, <2>1, <3>3, <3>4, <3>5
  <2> QED
    BY <1>1, <2>4, <2>5
<1>5. ASSUME NEW d \in Drafts, d < draft' PROVE \E v \in invoices' : v.draft = d
  <2>1. \E v \in invoices : v.draft = draft
    BY <1>1 DEF DraftsInv, InvoicesInv
  <2>2. d < draft \/ d = draft
    BY <1>1, <1>5, FormAssumption DEF Drafts
  <2> QED
    BY <1>1, <2>1, <2>2 DEF DraftsInv, CountInv
<1> QED
  BY <1>2, <1>3, <1>4, <1>5 DEF DraftsInv, CountInv

LEMMA RefusalCounts ==
    ASSUME DraftsInv, NEW call \in calls, BeRefused(call)
    PROVE  DraftsInv'
<1>1. /\ call.number = waiting /\ call.at = "refused" /\ calls' = calls \ {call}
      /\ waiting' = NoCall
      /\ UNCHANGED <<submits, invoices, losses, draft>>
  BY DEF BeRefused, Fail, ghosts
<1>2. RequestsInv'
  BY <1>1, FormAssumption DEF DraftsInv, RequestsInv
<1>3. InvoicesInv'
  BY <1>1, FormAssumption DEF DraftsInv, InvoicesInv
<1>4. ASSUME NEW d \in Drafts PROVE Possible(d)' \ {waiting'} \subseteq Possible(d) \ {waiting}
  <2>1. Possible(d)' \subseteq Possible(d)
    BY <1>1 DEF Possible
  <2>2. waiting \notin Possible(d)
    BY <1>1 DEF Possible, DraftsInv, RequestsInv, InvoicesInv
  <2> QED
    BY <2>1, <2>2
<1> QED
  BY <1>1, <1>2, <1>3, <1>4, CountKept

\* The request whose answer is lost may have its invoice, and is counted.
LEMMA LossCounts ==
    ASSUME DraftsInv, NEW call \in calls, LoseAnswer(call)
    PROVE  DraftsInv'
<1>1. /\ call.number = waiting /\ calls' \subseteq calls
      /\ waiting' = NoCall /\ losses' = [losses EXCEPT ![draft] = @ + 1]
      /\ UNCHANGED <<submits, invoices, draft>>
      /\ losses \in [Drafts -> Nat] /\ call.draft = draft /\ draft \in Nat
  BY DEF LoseAnswer, Fail, DraftsInv, RequestsInv
<1>2. RequestsInv'
  <2>1. losses' \in [Drafts -> Nat]
    <3>1. \A d \in Drafts : losses'[d] = losses[d] \/ losses'[d] = losses[d] + 1
      BY <1>1
    <3>2. \A d \in Drafts : losses'[d] \in Nat
      BY <1>1, <3>1
    <3> QED
      BY <1>1, <3>2
  <2> QED
    BY <1>1, <2>1, FormAssumption DEF DraftsInv, RequestsInv
<1>3. InvoicesInv'
  BY <1>1, FormAssumption DEF DraftsInv, InvoicesInv
<1>4. ASSUME NEW d \in Drafts
      PROVE  Cardinality(Possible(d)' \ {waiting'}) <= losses'[d] + (IF d < draft' THEN 1 ELSE 0)
  <2> DEFINE S == Possible(d) \ {waiting}
             T == Possible(d)' \ {waiting'}
             more == IF d < draft THEN 1 ELSE 0
  <2>0. d \in Nat /\ losses[d] \in Nat /\ more \in Nat
    BY FormAssumption DEF Drafts, DraftsInv, RequestsInv
  <2>1. /\ IsFiniteSet(Possible(d)) /\ Cardinality(Possible(d)) \in Nat
        /\ IsFiniteSet(S) /\ Cardinality(S) \in Nat
        /\ Cardinality(Possible(d)) <= 1 + Cardinality(S)
    BY PossibleNumbers DEF DraftsInv
  <2>2. T \subseteq Possible(d)
    BY <1>1 DEF Possible
  <2>3. Cardinality(S) <= losses[d] + more
    BY DEF DraftsInv, CountInv
  <2>4. CASE d = draft
    <3>1. losses'[d] = losses[d] + 1
      BY <1>1, <2>4
    <3>2. Cardinality(T) <= Cardinality(Possible(d)) /\ Cardinality(T) \in Nat
      <4> HIDE DEF T
      <4> QED
        BY <2>1, <2>2, FS_Subset, FS_CardinalityType
    <3> HIDE DEF S, T, more
    <3>3. Cardinality(T) <= losses'[d] + more
      BY <2>0, <2>1, <2>3, <3>1, <3>2
    <3> QED
      BY <1>1, <3>3 DEF T, more
  <2>5. CASE d # draft
    <3>1. losses'[d] = losses[d]
      BY <1>1, <2>5
    <3>2. waiting \notin Possible(d)
      BY <1>1, <2>5 DEF Possible, DraftsInv, RequestsInv, InvoicesInv
    <3>3. T \subseteq S
      BY <2>2, <3>2
    <3>4. Cardinality(T) <= Cardinality(S) /\ Cardinality(T) \in Nat
      <4> HIDE DEF S, T
      <4> QED
        BY <2>1, <3>3, FS_Subset, FS_CardinalityType
    <3> HIDE DEF S, T, more
    <3>5. Cardinality(T) <= losses'[d] + more
      BY <2>0, <2>1, <2>3, <3>1, <3>4
    <3> QED
      BY <1>1, <3>5 DEF T, more
  <2> QED
    BY <2>4, <2>5
<1>5. \A d \in Drafts : d < draft' => \E v \in invoices' : v.draft = d
  BY <1>1 DEF DraftsInv, CountInv
<1> QED
  BY <1>2, <1>3, <1>4, <1>5 DEF DraftsInv, CountInv

LEMMA DraftsStep == DraftsInv /\ [Next]_vars => DraftsInv'
<1> SUFFICES ASSUME DraftsInv, [Next]_vars PROVE DraftsInv'
  OBVIOUS
<1>1. CASE FillIn \/ Midnight \/ UNCHANGED vars
  <2>1. UNCHANGED <<submitting, waiting, submits, calls, invoices, draft, losses>>
    BY <1>1 DEF FillIn, Add, RemoveLine, Update, SetDate, Midnight, vars, status, ghosts
  <2> QED
    BY <2>1 DEF DraftsInv, RequestsInv, InvoicesInv, CountInv, Possible
<1>2. CASE Submit
  BY <1>2, SubmitCounts
<1>3. CASE \E call \in calls : Process(call) \/ Receive(call) \/ LoseAnswer(call)
  BY <1>3, ProcessCounts, SucceedCounts, RefusalCounts, LossCounts DEF Receive
<1> QED
  BY <1>1, <1>2, <1>3 DEF Next

\* Invoices of a draft are no more than the requests that may have one.
LEMMA DraftsCounted ==
    ASSUME DraftsInv, NEW d \in Drafts
    PROVE  Cardinality({v \in invoices : v.draft = d}) <= 1 + losses[d]
<1> DEFINE own == {v \in invoices : v.draft = d}
           number == [v \in own |-> v.number]
<1>1. /\ IsFiniteSet(Possible(d)) /\ Cardinality(Possible(d)) \in Nat
      /\ Cardinality(Possible(d) \ {waiting}) \in Nat
      /\ Cardinality(Possible(d)) <= 1 + Cardinality(Possible(d) \ {waiting})
  BY PossibleNumbers DEF DraftsInv
<1>2. number \in Injection(own, Possible(d))
  BY DEF Injection, IsInjective, Possible, DraftsInv, InvoicesInv
<1>3. IsFiniteSet(own) /\ Cardinality(own) <= Cardinality(Possible(d)) /\ Cardinality(own) \in Nat
  <2> HIDE DEF own, number
  <2> QED
    BY <1>1, <1>2, FS_Injection, FS_CardinalityType
<1>4. Cardinality(Possible(d)) <= 1 + losses[d]
  <2>1. d \in Nat /\ losses[d] \in Nat /\ draft \in Nat
    BY FormAssumption DEF Drafts, DraftsInv, RequestsInv
  <2>2. Cardinality(Possible(d) \ {waiting}) <= losses[d] + (IF d < draft THEN 1 ELSE 0)
    BY DEF DraftsInv, CountInv
  <2>3. CASE d < draft
    <3>1. waiting \notin Possible(d)
      BY <2>1, <2>3 DEF Possible, DraftsInv, RequestsInv, InvoicesInv
    <3>2. Possible(d) \ {waiting} = Possible(d)
      BY <3>1
    <3>3. Cardinality(Possible(d)) <= losses[d] + 1
      BY <2>2, <2>3, <3>2
    <3> QED
      BY <1>1, <2>1, <3>3
  <2>4. CASE ~(d < draft)
    BY <1>1, <2>1, <2>2, <2>4
  <2> QED
    BY <2>3, <2>4
<1>5. losses[d] \in Nat
  BY DEF DraftsInv, RequestsInv
<1> HIDE DEF own
<1>6. Cardinality(own) <= 1 + losses[d]
  BY <1>1, <1>3, <1>4, <1>5
<1> QED
  BY <1>6 DEF own

\* useInvoiceForm.ts: whatever is lost, retried or still at work, a draft has at most one
\* invoice more than answers to it were lost, and none is given up without one.
THEOREM DraftsAreAlwaysInvoiced == Spec => []DraftsAreInvoiced
<1>1. DraftsInv => DraftsAreInvoiced
  BY DraftsCounted DEF DraftsAreInvoiced, DraftsInv, CountInv
<1> QED
  BY <1>1, DraftsInit, DraftsStep, PTL DEF Spec

-----------------------------------------------------------------------------
(***************************************************************************)
(* The types: what bounds the keys of lines and the number of drafts.      *)
(***************************************************************************)
\* A key is that of one line only, and was given out.
LinesInv ==
    /\ lines \in Seq(Lines) /\ Len(lines) \in 1..MaxLines
    /\ nextKey \in Nat /\ nextKey <= MaxKeys + draft
    /\ \A i \in DOMAIN lines : lines[i].key < nextKey
    /\ \A i, j \in DOMAIN lines : lines[i].key = lines[j].key => i = j

\* A draft ends with a request of its own, which the form waits for.
StatusInv ==
    /\ submits \in 0..MaxSubmits
    /\ waiting \in 1..MaxSubmits \cup {NoCall}
    /\ draft \in Nat /\ draft <= submits
    /\ waiting # NoCall => draft < submits

ScalarsInv ==
    /\ type \in {"PURCHASE", "SALE"}
    /\ date \in Days /\ today \in Days /\ chosen \in Dates
    /\ dateTouched \in BOOLEAN /\ submitting \in BOOLEAN /\ error \in BOOLEAN
    /\ created \in 1..MaxSubmits \cup {NoCall}
    /\ losses \in [Drafts -> 0..MaxLosses]

CallsInv == calls \subseteq Calls /\ invoices \subseteq Invoices

TypeInv == LinesInv /\ StatusInv /\ ScalarsInv /\ CallsInv

LEMMA KeysCount ==
    ASSUME LinesInv
    PROVE  Cardinality(LineKeys) = Len(lines)
<1> DEFINE n == Len(lines)
           f == [i \in 1..n |-> lines[i].key]
<1>1. n \in Nat /\ DOMAIN lines = 1..n
  BY DEF LinesInv
<1>2. f \in Bijection(1..n, LineKeys)
  <2>1. f \in [1..n -> LineKeys]
    BY <1>1 DEF LineKeys
  <2>2. \A a, b \in 1..n : f[a] = f[b] => a = b
    BY <1>1 DEF LinesInv
  <2>3. \A k \in LineKeys : \E i \in 1..n : f[i] = k
    BY <1>1 DEF LineKeys
  <2> HIDE DEF f
  <2> QED
    BY <2>1, <2>2, <2>3 DEF Bijection, Injection, Surjection, IsInjective
<1>3. ExistsBijection(1..n, LineKeys)
  <2> HIDE DEF f
  <2> QED
    BY <1>2 DEF ExistsBijection
<1> HIDE DEF n, f
<1>4. IsFiniteSet(1..n) /\ Cardinality(1..n) = n
  <2>1. 1 \in Int /\ n \in Int
    BY <1>1
  <2>2. IsFiniteSet(1..n) /\ Cardinality(1..n) = IF 1 > n THEN 0 ELSE n - 1 + 1
    BY <2>1, FS_Interval
  <2> QED
    BY <1>1, <2>2
<1>5. Cardinality(LineKeys) = n
  BY <1>3, <1>4, FS_Bijection
<1> QED
  BY <1>5 DEF n

LEMMA TypeInvTyped == TypeInv => TypeOK
<1> SUFFICES ASSUME TypeInv PROVE TypeOK
  OBVIOUS
<1> USE DEF TypeInv
<1>1. Cardinality(LineKeys) = Len(lines)
  BY KeysCount
<1>2. draft \in Drafts /\ nextKey \in Keys
  BY FormAssumption DEF LinesInv, StatusInv, Drafts, Keys
<1>3. {dateTouched, submitting, error} \subseteq BOOLEAN
  BY DEF ScalarsInv
<1>4. {created, waiting} \subseteq 1..MaxSubmits \cup {NoCall}
  BY DEF ScalarsInv, StatusInv
<1> QED
  BY <1>1, <1>2, <1>3, <1>4 DEF TypeOK, LinesInv, StatusInv, ScalarsInv, CallsInv

LEMMA EmptyLineIsLine ==
    ASSUME NEW key \in Keys
    PROVE  EmptyLine(key) \in Lines /\ EmptyLine(key).key = key
  BY DEF EmptyLine, Lines

LEMMA TypeInit == Init => TypeInv
<1> SUFFICES ASSUME Init PROVE TypeInv
  OBVIOUS
<1>1. lines = <<EmptyLine(0)>> /\ nextKey = 1 /\ draft = 0
  BY DEF Init
<1>2. 0 \in Keys
  BY FormAssumption DEF Keys
<1>3. LinesInv
  <2>1. EmptyLine(0) \in Lines /\ EmptyLine(0).key = 0
    BY <1>2, EmptyLineIsLine
  <2>2. nextKey \in Nat /\ nextKey <= MaxKeys + draft
    BY <1>1, FormAssumption
  <2>3. lines \in Seq(Lines) /\ Len(lines) = 1 /\ DOMAIN lines = {1} /\ lines[1] = EmptyLine(0)
    BY <1>1, <2>1
  <2>4. Len(lines) \in 1..MaxLines
    BY <2>3, FormAssumption
  <2> QED
    BY <1>1, <2>1, <2>2, <2>3, <2>4 DEF LinesInv
<1>4. StatusInv
  BY FormAssumption DEF Init, StatusInv
<1>5. ScalarsInv
  <2>1. losses \in [Drafts -> 0..MaxLosses]
    BY FormAssumption DEF Init
  <2>2. date \in Days /\ today \in Days
    BY FormAssumption DEF Init, Days
  <2> QED
    BY <2>1, <2>2 DEF Init, ScalarsInv, Dates
<1>6. CallsInv
  BY DEF Init, CallsInv
<1> QED
  BY <1>3, <1>4, <1>5, <1>6 DEF TypeInv

\* What the form sends has its types.
LEMMA EnteredIs ==
    ASSUME lines \in Seq(Lines), IsFilledIn
    PROVE  /\ Entered \in Seq(PricedLines)
           /\ PreviewTotals(Entered, TaxRate) \in Totals
<1> DEFINE n == Len(lines)
           cents == [i \in DOMAIN Entered |-> Entered[i].unitPrice * Entered[i].quantity]
<1>1. n \in Nat /\ DOMAIN Entered = 1..n /\ DOMAIN lines = 1..n
  BY DEF Entered
<1>2. \A i \in 1..n : Entered[i] = [quantity |-> lines[i].quantity, unitPrice |-> UnitPrice(lines[i])]
  BY <1>1 DEF Entered
<1>3. \A i \in 1..n : Entered[i].unitPrice \in Nat /\ Entered[i].quantity \in Nat
  BY <1>1 DEF IsFilledIn, IsComplete
<1>4. ASSUME NEW i \in 1..n PROVE Entered[i] \in PricedLines
  <2>1. PICK quantity, unitPrice : Entered[i] = [quantity |-> quantity, unitPrice |-> unitPrice]
    BY <1>2
  <2>2. quantity \in Nat /\ unitPrice \in Nat
    BY <1>3, <2>1
  <2> QED
    BY <2>1, <2>2 DEF PricedLines
<1>5. Entered \in Seq(PricedLines)
  <2>1. Entered \in [1..n -> PricedLines]
    <3>1. Entered = [i \in 1..n |-> Entered[i]]
      BY <1>1 DEF Entered
    <3> QED
      BY <1>4, <3>1
  <2> QED
    BY <1>1, <2>1
<1>6. cents \in Seq(Nat)
  <2>1. \A i \in 1..n : cents[i] \in Nat
    <3>1. \A x, y \in Nat : x * y \in Nat
      OBVIOUS
    <3> QED
      BY <1>1, <1>3, <3>1
  <2>2. cents = [i \in 1..n |-> cents[i]]
    BY <1>1
  <2> HIDE DEF cents
  <2>3. cents \in [1..n -> Nat]
    BY <2>1, <2>2
  <2> QED
    BY <1>1, <2>3
<1>7. SumMoney(cents) \in Nat
  <2> HIDE DEF cents
  <2> QED
    BY <1>6, SumTyped
<1>8. TaxCents(SumMoney(cents), TaxRate) \in Nat
  <2> DEFINE x == SumMoney(cents)
  <2> HIDE DEF x
  <2>1. x * TaxRate \in Nat
    <3>1. \A a, b \in Nat : a * b \in Nat
      OBVIOUS
    <3> QED
      BY <1>7, <3>1, FormAssumption DEF x
  <2>2. \A a \in Nat : (a + 10000 \div 2) \div 10000 \in Nat
    OBVIOUS
  <2> QED
    BY <2>1, <2>2 DEF TaxCents, RateScale, x
<1> HIDE DEF cents
<1>9. PreviewTotals(Entered, TaxRate) =
        [lineTotals |-> cents, subtotal |-> SumMoney(cents), tax |-> TaxCents(SumMoney(cents), TaxRate),
         total |-> SumMoney(cents) + TaxCents(SumMoney(cents), TaxRate)]
  BY DEF PreviewTotals, cents
<1>10. SumMoney(cents) + TaxCents(SumMoney(cents), TaxRate) \in Nat
  BY <1>7, <1>8
<1> QED
  BY <1>5, <1>6, <1>7, <1>8, <1>9, <1>10 DEF Totals

LEMMA RemovedLine ==
    ASSUME NEW S, NEW s \in Seq(S), NEW i \in DOMAIN s
    PROVE  /\ RemoveAt(s, i) \in Seq(S) /\ Len(RemoveAt(s, i)) = Len(s) - 1
           /\ \A j \in 1..(Len(s) - 1) : RemoveAt(s, i)[j] = IF j < i THEN s[j] ELSE s[j + 1]
<1> DEFINE n == Len(s)
           before == SubSeq(s, 1, i - 1)
           after == SubSeq(s, i + 1, n)
           rest == before \o after
<1>1. RemoveAt(s, i) = rest /\ i \in 1..n /\ n \in Nat
  BY DEF RemoveAt
<1>2. before \in Seq(S) /\ Len(before) = i - 1 /\ \A j \in 1..(i - 1) : before[j] = s[j]
  <2>1. \A j \in 1..(i - 1) : s[j] \in S
    BY <1>1
  <2>2. /\ before \in Seq(S) /\ Len(before) = IF 1 <= i - 1 THEN (i - 1) - 1 + 1 ELSE 0
        /\ \A j \in 1..((i - 1) - 1 + 1) : before[j] = s[1 + j - 1]
    BY <1>1, <2>1, SubSeqProperties
  <2> QED
    BY <1>1, <2>2
<1>3. after \in Seq(S) /\ Len(after) = n - i /\ \A j \in 1..(n - i) : after[j] = s[i + j]
  <2>1. \A j \in (i + 1)..n : s[j] \in S
    BY <1>1
  <2>2. /\ after \in Seq(S) /\ Len(after) = IF i + 1 <= n THEN n - (i + 1) + 1 ELSE 0
        /\ \A j \in 1..(n - (i + 1) + 1) : after[j] = s[i + 1 + j - 1]
    BY <1>1, <2>1, SubSeqProperties
  <2> QED
    BY <1>1, <2>2
<1> HIDE DEF before, after, n
<1>4. /\ rest \in Seq(S) /\ Len(rest) = Len(before) + Len(after)
      /\ \A j \in 1..(Len(before) + Len(after)) :
            rest[j] = IF j <= Len(before) THEN before[j] ELSE after[j - Len(before)]
  BY <1>2, <1>3, ConcatProperties
<1> HIDE DEF rest
<1>5. ASSUME NEW j \in 1..(n - 1) PROVE rest[j] = IF j < i THEN s[j] ELSE s[j + 1]
  <2>1. CASE j < i
    BY <1>1, <1>2, <1>3, <1>4, <1>5, <2>1
  <2>2. CASE ~(j < i)
    <3>1. j - (i - 1) \in 1..(n - i) /\ i + (j - (i - 1)) = j + 1 /\ j \in 1..((i - 1) + (n - i)) /\ ~(j <= i - 1)
      BY <1>1, <1>5, <2>2
    <3>2. rest[j] = after[j - (i - 1)]
      BY <1>2, <1>3, <1>4, <3>1
    <3> QED
      BY <1>3, <2>2, <3>1, <3>2
  <2> QED
    BY <2>1, <2>2
<1>6. Len(rest) = n - 1
  BY <1>1, <1>2, <1>3, <1>4
<1> QED
  BY <1>1, <1>4, <1>5, <1>6 DEF n, rest

LEMMA LinesStep ==
    ASSUME TypeInv, DraftsInv, Next
    PROVE  LinesInv'
<1> USE DEF TypeInv, LinesInv
<1>1. CASE UNCHANGED <<lines, nextKey, draft>>
  BY <1>1
<1>2. CASE Add
  <2>1. /\ Len(lines) < MaxLines /\ nextKey < MaxKeys
        /\ lines' = Append(lines, EmptyLine(nextKey)) /\ nextKey' = nextKey + 1 /\ draft' = draft
    BY <1>2 DEF Add, CanAdd, ghosts
  <2>2. draft \in Nat
    BY DEF StatusInv
  <2>3. nextKey \in Keys
    BY <2>1, FormAssumption DEF Keys
  <2>4. EmptyLine(nextKey) \in Lines /\ EmptyLine(nextKey).key = nextKey
    BY <2>3, EmptyLineIsLine
  <2> DEFINE n == Len(lines)
  <2>5. /\ lines' \in Seq(Lines) /\ Len(lines') = n + 1 /\ n \in Nat /\ DOMAIN lines = 1..n
        /\ lines'[n + 1] = EmptyLine(nextKey)
        /\ \A i \in 1..n : lines'[i] = lines[i]
    BY <2>1, <2>4
  <2> HIDE DEF n
  <2>6. DOMAIN lines' = 1..(n + 1) /\ \A i \in 1..(n + 1) : i \in 1..n \/ i = n + 1
    BY <2>5
  <2>7. ASSUME NEW i \in 1..n PROVE lines[i].key \in Int /\ lines[i].key < nextKey
    <3>1. lines[i] \in Lines /\ lines[i].key < nextKey
      BY <2>5
    <3>2. lines[i].key \in Keys
      BY <3>1 DEF Lines
    <3> QED
      BY <3>1, <3>2 DEF Keys
  <2>8. Len(lines') \in 1..MaxLines
    BY <2>1, <2>5, FormAssumption DEF n
  <2>9. nextKey' \in Nat /\ nextKey' <= MaxKeys + draft'
    BY <2>1, <2>2, FormAssumption
  <2>10. \A i \in DOMAIN lines' : lines'[i].key < nextKey'
    BY <2>1, <2>4, <2>5, <2>6, <2>7
  <2>11. ASSUME NEW i \in DOMAIN lines', NEW j \in DOMAIN lines', lines'[i].key = lines'[j].key PROVE i = j
    <3>1. CASE i \in 1..n /\ j \in 1..n
      BY <2>5, <2>11, <3>1
    <3>2. CASE i = n + 1 /\ j \in 1..n
      BY <2>1, <2>4, <2>5, <2>7, <2>11, <3>2
    <3>3. CASE i \in 1..n /\ j = n + 1
      BY <2>1, <2>4, <2>5, <2>7, <2>11, <3>3
    <3> QED
      BY <2>6, <3>1, <3>2, <3>3
  <2> QED
    BY <2>5, <2>8, <2>9, <2>10, <2>11
<1>3. ASSUME NEW i \in DOMAIN lines, RemoveLine(i) PROVE LinesInv'
  <2>1. lines' = RemoveAt(lines, i) /\ Len(lines) > 1 /\ UNCHANGED <<nextKey, draft>>
    BY <1>3 DEF RemoveLine, ghosts
  <2> DEFINE n == Len(lines)
  <2>2. n \in Nat /\ DOMAIN lines = 1..n
    OBVIOUS
  <2>3. /\ lines' \in Seq(Lines) /\ Len(lines') = n - 1
        /\ \A j \in 1..(n - 1) : lines'[j] = IF j < i THEN lines[j] ELSE lines[j + 1]
    BY <2>1, RemovedLine
  <2> HIDE DEF n
  <2>4. DOMAIN lines' = 1..(n - 1)
    BY <2>2, <2>3
  <2>5. Len(lines') \in 1..MaxLines
    BY <2>1, <2>2, <2>3, FormAssumption DEF n
  <2> DEFINE place(j) == IF j < i THEN j ELSE j + 1
  <2>6. \A j \in DOMAIN lines' : place(j) \in DOMAIN lines /\ lines'[j] = lines[place(j)]
    BY <2>2, <2>3, <2>4
  <2>7. \A j, k \in DOMAIN lines' : place(j) = place(k) => j = k
    BY <2>2, <2>4
  <2> HIDE DEF place
  <2> QED
    BY <2>1, <2>3, <2>5, <2>6, <2>7
<1>4. ASSUME NEW i \in DOMAIN lines, Update(i) PROVE LinesInv'
  <2>1. UNCHANGED <<nextKey, draft>>
    BY <1>4 DEF Update, ghosts
  <2>2. PICK line \in Edits(lines[i]) : lines' = [lines EXCEPT ![i] = line]
    BY <1>4 DEF Update
  <2>3. lines[i] \in Lines
    OBVIOUS
  <2>4. line \in Lines /\ line.key = lines[i].key
    BY <2>2, <2>3 DEF Edits, Lines
  <2>5. lines' \in Seq(Lines) /\ Len(lines') = Len(lines) /\ DOMAIN lines' = DOMAIN lines
    BY <2>2, <2>4
  <2>6. \A j \in DOMAIN lines : lines'[j].key = lines[j].key
    BY <2>2, <2>4
  <2> QED
    BY <2>1, <2>5, <2>6
<1>5. ASSUME NEW call \in calls, Succeed(call) PROVE LinesInv'
  <2>1. /\ lines' = <<EmptyLine(nextKey)>> /\ nextKey' = nextKey + 1 /\ draft' = draft + 1
        /\ call.number = waiting
    BY <1>5 DEF Succeed, Reset
  <2>2. call.number \in Nat
    BY DEF DraftsInv, RequestsInv
  <2>3. draft \in Nat /\ draft < MaxSubmits
    BY <2>1, <2>2, FormAssumption DEF StatusInv
  <2>4. nextKey \in Keys
    BY <2>3, FormAssumption DEF Keys
  <2>5. EmptyLine(nextKey) \in Lines /\ EmptyLine(nextKey).key = nextKey
    BY <2>4, EmptyLineIsLine
  <2>6. lines' \in Seq(Lines) /\ Len(lines') = 1 /\ DOMAIN lines' = {1} /\ lines'[1] = EmptyLine(nextKey)
    BY <2>1, <2>5
  <2>7. Len(lines') \in 1..MaxLines
    BY <2>6, FormAssumption
  <2>8. nextKey' \in Nat /\ nextKey' <= MaxKeys + draft' /\ nextKey < nextKey'
    BY <2>1, <2>3, FormAssumption
  <2> QED
    BY <2>5, <2>6, <2>7, <2>8
<1>6. ASSUME NEW day \in Days, SetDate(day) PROVE LinesInv'
  BY <1>1, <1>6 DEF SetDate, items
<1>7. CASE Submit \/ Midnight
  BY <1>1, <1>7 DEF Submit, Midnight, items, ghosts
<1>8. ASSUME NEW call \in calls, Process(call) \/ BeRefused(call) \/ LoseAnswer(call) PROVE LinesInv'
  BY <1>1, <1>8 DEF Process, Begin, Issue, Refuse, BeRefused, LoseAnswer, items, ghosts
<1> QED
  BY <1>2, <1>3, <1>4, <1>5, <1>6, <1>7, <1>8 DEF Next, FillIn, Receive

LEMMA StatusStep ==
    ASSUME TypeInv, DraftsInv, Next
    PROVE  StatusInv' /\ ScalarsInv'
<1> USE DEF TypeInv, StatusInv
<1>1. CASE FillIn
  <2>1. UNCHANGED <<type, status, submits, today, draft, losses>>
    BY <1>1 DEF FillIn, Add, RemoveLine, Update, SetDate, ghosts
  <2>2. UNCHANGED <<date, dateTouched, chosen>> \/ (date' \in Days /\ chosen' = date' /\ dateTouched' = TRUE)
    BY <1>1 DEF FillIn, Add, RemoveLine, Update, SetDate, ghosts
  <2> QED
    BY <2>1, <2>2 DEF ScalarsInv, status, Dates
<1>2. CASE Submit
  <2>1. /\ submits < MaxSubmits /\ submits' = submits + 1 /\ waiting' = submits + 1 /\ draft' = draft
    BY <1>2 DEF Submit, ghosts
  <2>2. StatusInv'
    BY <2>1, FormAssumption
  <2>3. ScalarsInv'
    BY <1>2 DEF Submit, ScalarsInv, ghosts
  <2> QED
    BY <2>2, <2>3
<1>3. ASSUME NEW call \in calls, Process(call) PROVE StatusInv' /\ ScalarsInv'
  BY <1>3 DEF Process, Begin, Issue, Refuse, ScalarsInv, status, ghosts
<1>4. ASSUME NEW call \in calls, Succeed(call) PROVE StatusInv' /\ ScalarsInv'
  <2>1. /\ call.number = waiting /\ created' = call.number /\ waiting' = NoCall
        /\ draft' = draft + 1 /\ submits' = submits
    BY <1>4 DEF Succeed
  <2>2. call.number \in 1..submits
    BY DEF DraftsInv, RequestsInv
  <2>3. call.number \in 1..MaxSubmits /\ waiting # NoCall
    BY <2>1, <2>2, FormAssumption
  <2>4. StatusInv'
    BY <2>1, <2>3, FormAssumption
  <2>5. SettingsToday \in Days
    BY FormAssumption DEF Days
  <2>6. created' \in 1..MaxSubmits \cup {NoCall}
    BY <2>1, <2>3
  <2>7. ScalarsInv'
    BY <1>4, <2>5, <2>6 DEF Succeed, ScalarsInv, Dates
  <2> QED
    BY <2>4, <2>7
<1>5. ASSUME NEW call \in calls, BeRefused(call) PROVE StatusInv' /\ ScalarsInv'
  BY <1>5 DEF BeRefused, Fail, ScalarsInv, ghosts
<1>6. ASSUME NEW call \in calls, LoseAnswer(call) PROVE StatusInv' /\ ScalarsInv'
  <2>1. UNCHANGED <<type, date, dateTouched, created, submits, today, draft, chosen>>
        /\ waiting' = NoCall /\ submitting' = FALSE /\ error' = TRUE
    BY <1>6 DEF LoseAnswer, Fail
  <2>2. losses' \in [Drafts -> 0..MaxLosses]
    <3>1. losses[draft] < MaxLosses /\ losses' = [losses EXCEPT ![draft] = @ + 1] /\ draft \in Drafts
      BY <1>6, FormAssumption DEF LoseAnswer, Drafts
    <3>2. losses \in [Drafts -> 0..MaxLosses] /\ losses[draft] + 1 \in 0..MaxLosses
      BY <3>1, FormAssumption DEF ScalarsInv
    <3> QED
      BY <3>1, <3>2
  <2>3. StatusInv'
    BY <2>1
  <2>4. ScalarsInv'
    BY <2>1, <2>2 DEF ScalarsInv
  <2> QED
    BY <2>3, <2>4
<1>7. CASE Midnight
  <2>1. today' \in Days
    BY <1>7, FormAssumption DEF Midnight, ScalarsInv, Days
  <2>2. UNCHANGED <<type, date, dateTouched, status, submits, ghosts>>
    BY <1>7 DEF Midnight
  <2> QED
    BY <2>1, <2>2 DEF ScalarsInv, status, ghosts
<1> QED
  BY <1>1, <1>2, <1>3, <1>4, <1>5, <1>6, <1>7 DEF Next, Receive

LEMMA CallsStep ==
    ASSUME TypeInv, FormInv, Next
    PROVE  CallsInv'
<1> USE DEF TypeInv
<1>1. CASE calls' \subseteq calls /\ UNCHANGED invoices
  BY <1>1 DEF CallsInv
<1>2. CASE Submit
  <2> DEFINE call == [number |-> submits + 1, lines |-> Entered, date |-> SentDate,
                      at |-> "sent", submittedOn |-> today, draft |-> draft,
                      chosen |-> chosen, previewed |-> PreviewTotals(Entered, TaxRate)]
  <2>1. calls' = calls \cup {call} /\ UNCHANGED invoices /\ submits < MaxSubmits /\ IsFilledIn
    BY <1>2 DEF Submit
  <2>2. Entered \in Seq(PricedLines) /\ PreviewTotals(Entered, TaxRate) \in Totals
    BY <2>1, EnteredIs DEF LinesInv
  <2>3. submits + 1 \in 1..MaxSubmits /\ draft \in Drafts
    BY <2>1, FormAssumption DEF StatusInv, Drafts
  <2>4. SentDate \in Dates /\ today \in Days /\ chosen \in Dates
    BY DEF ScalarsInv, SentDate, Dates
  <2>5. call \in Calls
    BY <2>2, <2>3, <2>4 DEF Calls
  <2> QED
    BY <2>1, <2>5 DEF CallsInv
<1>3. ASSUME NEW call \in calls, NEW at \in {"begun", "created", "refused"}, NEW resolved \in Dates
      PROVE  Now(call, at, resolved) \subseteq Calls
  <2>1. call \in Calls
    BY DEF CallsInv
  <2>2. [call EXCEPT !.at = at, !.date = resolved] \in Calls
    BY <1>3, <2>1 DEF Calls
  <2> QED
    BY <2>2 DEF Now, CallsInv
<1>4. ASSUME NEW call \in calls, Begin(call) PROVE CallsInv'
  <2>1. call.date \in Dates /\ ResolveInvoiceDate(call.date) \in Dates /\ UNCHANGED invoices
    BY <1>4 DEF Begin, CallsInv, Calls, ResolveInvoiceDate, ScalarsInv, Dates
  <2>2. \/ calls' = Now(call, "refused", call.date)
        \/ calls' = Now(call, "begun", ResolveInvoiceDate(call.date))
    BY <1>4 DEF Begin
  <2> QED
    BY <1>3, <2>1, <2>2 DEF CallsInv
<1>5. ASSUME NEW call \in calls, Issue(call) \/ Refuse(call) PROVE CallsInv'
  <2>1. call \in Calls /\ call.date \in Dates /\ CallInv(call) /\ call.at = "begun"
    BY <1>5 DEF Issue, Refuse, CallsInv, Calls, FormInv
  <2>2. calls' = Now(call, "created", call.date) \/ calls' = Now(call, "refused", call.date)
    BY <1>5 DEF Issue, Refuse
  <2>3. calls' \subseteq Calls
    BY <1>3, <2>1, <2>2
  <2>4. CASE UNCHANGED invoices
    BY <2>3, <2>4 DEF CallsInv
  <2>5. CASE Issue(call)
    <3> DEFINE totals == CalculateInvoiceTotals(call.lines, TaxRate)
               invoice == [number |-> call.number, date |-> call.date, totals |-> totals,
                           issuedOn |-> today, submittedOn |-> call.submittedOn, draft |-> call.draft,
                           chosen |-> call.chosen, previewed |-> call.previewed]
    <3>1. totals = call.previewed
      BY <2>1 DEF CallInv
    <3> HIDE DEF totals
    <3>2. invoices' = invoices \cup {invoice}
      BY <2>5 DEF Issue, totals
    <3>3. call.date \in Days
      <4>1. call.date = call.chosen \/ call.date \in Int
        BY <2>1 DEF CallInv, DateInv
      <4>2. call.date # NoDate
        BY <2>1, <4>1, FormAssumption DEF CallInv, DateInv
      <4> QED
        BY <2>1, <4>2 DEF Dates
    <3>4. today \in Days
      BY DEF ScalarsInv
    <3>5. invoice \in Invoices
      BY <2>1, <3>1, <3>3, <3>4 DEF Calls, Invoices
    <3> QED
      BY <2>3, <3>2, <3>5 DEF CallsInv
  <2> QED
    BY <1>5, <2>4, <2>5 DEF Refuse
<1>6. ASSUME NEW call \in calls, Receive(call) \/ LoseAnswer(call) PROVE CallsInv'
  BY <1>1, <1>6 DEF Receive, Succeed, BeRefused, LoseAnswer
<1>7. CASE FillIn \/ Midnight
  BY <1>1, <1>7 DEF FillIn, Add, RemoveLine, Update, SetDate, Midnight
<1> QED
  BY <1>2, <1>4, <1>5, <1>6, <1>7 DEF Next, Process

LEMMA DraftsAlways == Spec => []DraftsInv
  BY DraftsInit, DraftsStep, PTL DEF Spec

\* Every variable has its type: a line that is added has a key no other line has,
\* whatever was removed and however often the form was reset (useLineItems), and no
\* draft begins but by a request of its own.
THEOREM FormTyped == Spec => []TypeOK
<1>1. Init => TypeInv
  BY TypeInit
<1>2. TypeInv /\ FormInv /\ DraftsInv /\ [Next]_vars => TypeInv'
  <2>1. ASSUME TypeInv, FormInv, DraftsInv, Next PROVE TypeInv'
    BY <2>1, LinesStep, StatusStep, CallsStep DEF TypeInv
  <2>2. ASSUME TypeInv, UNCHANGED vars PROVE TypeInv'
    BY <2>2 DEF TypeInv, LinesInv, StatusInv, ScalarsInv, CallsInv, vars, items, status, ghosts
  <2> QED
    BY <2>1, <2>2
<1> QED
  BY <1>1, <1>2, TypeInvTyped, FormAlways, DraftsAlways, PTL DEF Spec
=============================================================================
