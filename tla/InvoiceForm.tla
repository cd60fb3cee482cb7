---------------------------- MODULE InvoiceForm ----------------------------
(***************************************************************************)
(* The form that issues a purchase or a sale: its editable lines, its      *)
(* date, the totals it previews, and the life of a submission, whose       *)
(* answer may be lost while the API goes on with the request.              *)
(*                                                                         *)
(* A draft is what the user fills in between two resets of the form. Names *)
(* of parties are left out, and so is what is in stock: a request may be   *)
(* refused at any time.                                                    *)
(***************************************************************************)
EXTENDS Integers, Sequences, FiniteSets, SequencesExt, Money

CONSTANTS
    Products, NoProduct,
    Price,          \* product -> catalogue price in cents; no operation changes it
    TaxRate,        \* settings.taxRate, in units of 1 / RateScale
    Quantities,     \* what may be entered as a quantity
    Costs,          \* what may be entered as a unit cost
    MaxLines,       \* INVOICE_MAX_LINES
    AmountMax,      \* INVOICE_AMOUNT_MAX
    FirstDay,       \* the earliest day a user picks
    SettingsToday,  \* settings.today: the business day the page was rendered
    LastDay,        \* how long the page stays open
    NoDate, NoCall,
    MaxKeys,        \* no line is added beyond this key
    MaxSubmits,     \* how often the user submits
    MaxLosses       \* how often an answer is lost

ASSUME FormAssumption ==
    /\ NoProduct \notin Products
    /\ Price \in [Products -> Nat]
    /\ TaxRate \in Nat
    /\ Quantities \subseteq Nat \ {0} /\ Costs \subseteq Nat \ {0}
    /\ MaxLines \in Nat \ {0}
    /\ {AmountMax, MaxSubmits, MaxLosses} \subseteq Nat /\ MaxKeys \in Nat \ {0}
    /\ {FirstDay, SettingsToday, LastDay} \subseteq Int
    /\ FirstDay <= SettingsToday /\ SettingsToday <= LastDay
    /\ NoDate \notin Int /\ NoCall \notin Nat

VARIABLES
    type,           \* which of the two forms it is
    lines, nextKey, \* useLineItems
    date, dateTouched,
    submitting, error, created,
    waiting,        \* the request the form waits for
    submits,        \* how many there were
    calls,          \* requests on their way, at the API, or answered by it
    today,          \* the business day
    invoices,       \* committed
    draft, chosen,  \* the draft, and the date the user has picked for it
    losses          \* draft -> how many of its answers were lost

items == <<lines, nextKey>>
status == <<submitting, error, created, waiting>>
ghosts == <<draft, chosen, losses>>
vars == <<type, items, date, dateTouched, status, submits, calls, today, invoices, ghosts>>

Days == FirstDay..LastDay
Dates == Days \cup {NoDate}
Drafts == 0..MaxSubmits
Keys == 0..(MaxKeys + MaxSubmits)

Lines == [key : Keys, product : Products \cup {NoProduct},
          quantity : Quantities \cup {Empty}, cost : Costs \cup {Empty}]

\* `date` is the one that was sent until the API has resolved it.
Calls == [number : 1..MaxSubmits, lines : Seq(PricedLines), date : Dates,
          at : {"sent", "begun", "created", "refused"},
          submittedOn : Days, draft : Drafts, chosen : Dates, previewed : Totals]

Invoices == [number : 1..MaxSubmits, date : Days, totals : Totals, issuedOn : Days,
             submittedOn : Days, draft : Drafts, chosen : Dates, previewed : Totals]

LineKeys == {lines[i].key : i \in DOMAIN lines}

TypeOK ==
    /\ type \in {"PURCHASE", "SALE"}
    /\ lines \in Seq(Lines) /\ Len(lines) \in 1..MaxLines
    /\ Cardinality(LineKeys) = Len(lines)
    /\ nextKey \in Keys
    /\ date \in Days
    /\ {dateTouched, submitting, error} \subseteq BOOLEAN
    /\ {created, waiting} \subseteq 1..MaxSubmits \cup {NoCall}
    /\ submits \in 0..MaxSubmits
    /\ calls \subseteq Calls
    /\ today \in Days
    /\ invoices \subseteq Invoices
    /\ draft \in Drafts
    /\ chosen \in Dates
    /\ losses \in [Drafts -> 0..MaxLosses]

EmptyLine(key) == [key |-> key, product |-> NoProduct, quantity |-> Empty, cost |-> Empty]

Init ==
    /\ type \in {"PURCHASE", "SALE"}
    /\ lines = <<EmptyLine(0)>> /\ nextKey = 1
    /\ date = SettingsToday /\ dateTouched = FALSE
    /\ submitting = FALSE /\ error = FALSE /\ created = NoCall
    /\ waiting = NoCall
    /\ submits = 0 /\ calls = {}
    /\ today = SettingsToday
    /\ invoices = {}
    /\ draft = 0 /\ chosen = NoDate
    /\ losses = [d \in Drafts |-> 0]

\* MUTANT: the form stays enabled while it waits.
EnabledAlways == TRUE

\* <fieldset disabled={form.submitting}>
Enabled == ~submitting

(***************************************************************************)
(* Filling in.                                                             *)
(***************************************************************************)
CanAdd == Len(lines) < MaxLines

\* MUTANT: the key of a line is its place.
AddByPlace ==
    /\ Enabled /\ CanAdd
    /\ lines' = Append(lines, EmptyLine(Len(lines)))
    /\ UNCHANGED nextKey
    /\ UNCHANGED <<type, date, dateTouched, status, submits, calls, today, invoices, ghosts>>

Add ==
    /\ Enabled /\ CanAdd
    /\ nextKey < MaxKeys
    /\ lines' = Append(lines, EmptyLine(nextKey))
    /\ nextKey' = nextKey + 1
    /\ UNCHANGED <<type, date, dateTouched, status, submits, calls, today, invoices, ghosts>>

\* One line always stays to fill in. A key is that of one line only.
RemoveLine(i) ==
    /\ Enabled
    /\ Len(lines) > 1
    /\ lines' = RemoveAt(lines, i)
    /\ UNCHANGED <<type, nextKey, date, dateTouched, status, submits, calls, today, invoices, ghosts>>

ChosenElsewhere(key) == {lines[i].product : i \in {j \in DOMAIN lines : lines[j].key # key}}

\* What a line may become by one input; a sale has no cost to enter.
Edits(line) ==
    {[line EXCEPT !.product = p] : p \in Products \ ChosenElsewhere(line.key)}
    \cup {[line EXCEPT !.quantity = n] : n \in Quantities}
    \cup {[line EXCEPT !.cost = c] : c \in IF type = "PURCHASE" THEN Costs ELSE {}}

Update(i) ==
    /\ Enabled
    /\ \E line \in Edits(lines[i]) \ {lines[i]} : lines' = [lines EXCEPT ![i] = line]
    /\ UNCHANGED <<type, nextKey, date, dateTouched, status, submits, calls, today, invoices, ghosts>>

SetDate(day) ==
    /\ Enabled
    /\ day # date /\ day <= SettingsToday
    /\ date' = day
    /\ dateTouched' = TRUE
    /\ chosen' = day
    /\ UNCHANGED <<type, items, status, submits, calls, today, invoices, draft, losses>>

(***************************************************************************)
(* Submitting.                                                             *)
(***************************************************************************)
\* A sale is previewed, and priced by the API, from the catalogue.
UnitPrice(line) ==
    IF type = "PURCHASE" THEN line.cost
    ELSE IF line.product = NoProduct THEN Empty ELSE Price[line.product]

Entered == [i \in DOMAIN lines |->
                [quantity |-> lines[i].quantity, unitPrice |-> UnitPrice(lines[i])]]

\* Every field is required.
IsFilledIn ==
    \A i \in DOMAIN lines : lines[i].product # NoProduct /\ IsComplete(Entered[i])

\* MUTANT: the date of the form, picked or not.
SentDateAlways == date

\* Only a date the user picked.
SentDate == IF dateTouched THEN date ELSE NoDate

Submit ==
    /\ Enabled
    /\ IsFilledIn
    /\ submits < MaxSubmits
    /\ submits' = submits + 1
    /\ submitting' = TRUE /\ error' = FALSE /\ created' = NoCall
    /\ waiting' = submits + 1
    /\ calls' = calls \cup {[number |-> submits + 1, lines |-> Entered, date |-> SentDate,
                             at |-> "sent", submittedOn |-> today, draft |-> draft,
                             chosen |-> chosen, previewed |-> PreviewTotals(Entered, TaxRate)]}
    /\ UNCHANGED <<type, items, date, dateTouched, today, invoices, ghosts>>

(***************************************************************************)
(* The API.                                                                *)
(***************************************************************************)
IsInFuture(requested) == requested # NoDate /\ requested > today

\* The date asked for, or the business day now.
ResolveInvoiceDate(requested) == IF requested = NoDate THEN today ELSE requested

Now(call, at, resolved) == (calls \ {call}) \cup {[call EXCEPT !.at = at, !.date = resolved]}

\* The date is resolved before the transaction begins.
Begin(call) ==
    /\ call.at = "sent"
    /\ calls' = IF IsInFuture(call.date) THEN Now(call, "refused", call.date)
                ELSE Now(call, "begun", ResolveInvoiceDate(call.date))
    /\ UNCHANGED <<type, items, date, dateTouched, status, submits, today, invoices, ghosts>>

Issue(call) ==
    /\ call.at = "begun"
    /\ LET totals == CalculateInvoiceTotals(call.lines, TaxRate)
       IN  /\ totals.total <= AmountMax
           /\ invoices' = invoices \cup
                {[number |-> call.number, date |-> call.date, totals |-> totals,
                  issuedOn |-> today, submittedOn |-> call.submittedOn, draft |-> call.draft,
                  chosen |-> call.chosen, previewed |-> call.previewed]}
    /\ calls' = Now(call, "created", call.date)
    /\ UNCHANGED <<type, items, date, dateTouched, status, submits, today, ghosts>>

\* For want of stock, or for its total.
Refuse(call) ==
    /\ call.at = "begun"
    /\ calls' = Now(call, "refused", call.date)
    /\ UNCHANGED <<type, items, date, dateTouched, status, submits, today, invoices, ghosts>>

Midnight ==
    /\ today < LastDay
    /\ today' = today + 1
    /\ UNCHANGED <<type, items, date, dateTouched, status, submits, calls, invoices, ghosts>>

(***************************************************************************)
(* The answer.                                                             *)
(***************************************************************************)
Reset == lines' = <<EmptyLine(nextKey)>> /\ nextKey' = nextKey + 1

\* MUTANT: only a success ends the submission.
FailBusy == error' = TRUE /\ UNCHANGED <<submitting, created>> /\ waiting' = NoCall

\* The input is kept for correction.
Fail == error' = TRUE /\ submitting' = FALSE /\ UNCHANGED created /\ waiting' = NoCall

Succeed(call) ==
    /\ call.number = waiting /\ call.at = "created"
    /\ created' = call.number
    /\ date' = SettingsToday /\ dateTouched' = FALSE
    /\ Reset
    /\ submitting' = FALSE /\ waiting' = NoCall
    /\ calls' = calls \ {call}
    /\ draft' = draft + 1 /\ chosen' = NoDate
    /\ UNCHANGED <<type, error, submits, today, invoices, losses>>

BeRefused(call) ==
    /\ call.number = waiting /\ call.at = "refused"
    /\ Fail
    /\ calls' = calls \ {call}
    /\ UNCHANGED <<type, items, date, dateTouched, submits, today, invoices, ghosts>>

\* The connection is lost: the request may never arrive, may still be under way,
\* or its answer is lost.
LoseAnswer(call) ==
    /\ call.number = waiting
    /\ losses[draft] < MaxLosses
    /\ losses' = [losses EXCEPT ![draft] = @ + 1]
    /\ Fail
    /\ \/ calls' = calls \ {call}
       \/ call.at \in {"sent", "begun"} /\ UNCHANGED calls
    /\ UNCHANGED <<type, items, date, dateTouched, submits, today, invoices, draft, chosen>>

FillIn ==
    \/ Add
    \/ \E i \in DOMAIN lines : RemoveLine(i) \/ Update(i)
    \/ \E day \in Days : SetDate(day)

Process(call) == Begin(call) \/ Issue(call) \/ Refuse(call)
Receive(call) == Succeed(call) \/ BeRefused(call)

Next ==
    \/ FillIn \/ Submit
    \/ \E call \in calls : Process(call) \/ Receive(call) \/ LoseAnswer(call)
    \/ Midnight

Spec == Init /\ [][Next]_vars

\* The API answers a request that has arrived, and the answer arrives if the
\* connection holds.
Fairness == WF_vars(\E call \in calls : Process(call)) /\ WF_vars(\E call \in calls : Receive(call))

FairSpec == Spec /\ Fairness

-----------------------------------------------------------------------------
(***************************************************************************)
(* Properties.                                                             *)
(***************************************************************************)
\* "Submits once (the form is disabled meanwhile, so no double invoices)": a draft
\* is invoiced once more than answers were lost to it, at most, and the form
\* only begins a new draft when there is an invoice of the last one.
DraftsAreInvoiced ==
    \A d \in Drafts :
        LET own == {v \in invoices : v.draft = d}
        IN  Cardinality(own) <= 1 + losses[d] /\ (d < draft => own # {})

\* "If the page stayed open past midnight, the default would silently backdate the
\* invoice": an invoice has the date its user picked, or else a day no earlier than it
\* was submitted, whatever was picked for earlier drafts, failed or retried.
DateIsWanted ==
    \A v \in invoices :
        IF v.chosen = NoDate THEN v.submittedOn <= v.date /\ v.date <= v.issuedOn
        ELSE v.date = v.chosen

\* "Mirrors the API's rules exactly": the invoice has the totals the form
\* showed when it was submitted, to the cent.
PreviewIsInvoiced == \A v \in invoices : v.totals = v.previewed

\* Whatever comes of a submission, the form can be used again.
SubmittingEnds == submitting ~> ~submitting
=============================================================================
