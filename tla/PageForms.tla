----------------------------- MODULE PageForms -----------------------------
(***************************************************************************)
(* The interactive parts of the dashboard beside its table: the form for   *)
(* stock adjustments, the dialog that adds a product, and the highlight of *)
(* rows that just changed. They share the table of products, which lives   *)
(* by ProductTable; each form has one request at a time, whose answer may  *)
(* be lost while the request is still at work.                             *)
(***************************************************************************)
EXTENDS ProductTable

CONSTANTS
    Empty,          \* a blank field, and the id of no product
    Duration,       \* CHANGE_HIGHLIGHT_MS, in ticks
    MaxPosts,       \* requests sent by the two forms
    MaxLost,        \* answers that are lost
    MaxChanges      \* events that reach the page

ASSUME PageFormsAssumption ==
    /\ Empty \notin Products
    /\ Duration \in Nat \ {0}
    /\ {MaxPosts, MaxLost, MaxChanges} \subseteq Nat

VARIABLES
    productId,      \* MovementForm: the selected product
    filled,         \* the quantity is entered
    recording,      \* submitting
    feedback,       \* the message under the form, and the request it is about
    timers,         \* requests whose success message a pending timer will clear
    open,           \* AddProductDialog is open
    fields,         \* the product it has the fields of; other fields go with it
    adding,         \* submitting
    refusal,        \* the product whose creation failed, while an error is kept
    calls,          \* the requests of both forms, in order
    changedIds,     \* useRecentlyChanged: the highlighted rows
    expiries,       \* its pending timers, and how long each has left
    age,            \* ticks since a row changed, up to Duration
    changes         \* number of events so far

form == <<productId, filled, recording, feedback, timers>>
dialog == <<open, fields, adding, refusal>>
highlight == <<changedIds, expiries, age, changes>>
vars == <<tableVars, form, dialog, calls, highlight>>

Choices == Products \cup {Empty}

\* `shown` is the product on display when an adjustment was sent, `draft` the
\* number of the adjustment the user was entering.
Calls ==
    [form : {"adjust", "create"}, product : Choices, shown : Choices, draft : Nat,
     state : {"sent", "done", "refused"}, answer : {"awaited", "given", "lost"}]

NoFeedback == [kind |-> "none", of |-> 0]

Posts == 1..MaxPosts

TypeOK ==
    /\ catalogue \subseteq Products /\ shown \in Seq(Products)
    /\ productId \in Choices
    /\ filled \in BOOLEAN /\ recording \in BOOLEAN
    /\ feedback \in [kind : {"success", "error"}, of : Posts] \cup {NoFeedback}
    /\ timers \subseteq Posts
    /\ open \in BOOLEAN /\ adding \in BOOLEAN
    /\ fields \in Choices /\ refusal \in Choices
    /\ calls \in Seq(Calls) /\ Len(calls) <= MaxPosts
    /\ changedIds \subseteq Products
    /\ expiries \subseteq [id : Products, left : 0..Duration]
    /\ age \in [Products -> 0..Duration]
    /\ changes \in 0..MaxChanges
    \* One timer for each highlighted row.
    /\ changedIds = {t.id : t \in expiries}
    /\ \A s, t \in expiries : s.id = t.id => s = t

Init ==
    /\ TableInit
    /\ productId = IF shown = <<>> THEN Empty ELSE shown[1]
    /\ filled = FALSE /\ recording = FALSE
    /\ feedback = NoFeedback /\ timers = {}
    /\ open = FALSE /\ adding = FALSE
    /\ fields = Empty /\ refusal = Empty
    /\ calls = <<>>
    /\ changedIds = {} /\ expiries = {}
    /\ age = [p \in Products |-> Duration]
    /\ changes = 0

Awaited(f) == {i \in DOMAIN calls : calls[i].form = f /\ calls[i].answer = "awaited"}

Post(f, product, display, draft) ==
    /\ Len(calls) < MaxPosts
    /\ calls' = Append(calls, [form |-> f, product |-> product, shown |-> display,
                               draft |-> draft, state |-> "sent", answer |-> "awaited"])

(***************************************************************************)
(* The adjustment form.                                                    *)
(***************************************************************************)
\* A select whose value is no option of its displays the first one.
Display ==
    IF IsShown(productId) THEN productId ELSE IF shown = <<>> THEN Empty ELSE shown[1]

\* MUTANT: the fields stay enabled while a request is under way.
EnabledAlways == shown # <<>>

Enabled == ~recording /\ shown # <<>>

\* MUTANT: the timer of an earlier message goes on.
TimersKept(message) ==
    timers \cup (IF message.kind = "success" THEN {message.of} ELSE {})

\* The effect on the message: its cleanup clears the timer of the one before.
TimersFor(message) == IF message.kind = "success" THEN {message.of} ELSE {}

Say(message) ==
    /\ feedback' = message
    /\ timers' = TimersFor(message)

SelectProduct(p) ==
    /\ Enabled
    /\ IsShown(p) /\ p # Display
    /\ productId' = p
    /\ UNCHANGED <<tableVars, filled, recording, feedback, timers, dialog, calls, highlight>>

EnterQuantity ==
    /\ Enabled
    /\ filled' = ~filled
    /\ UNCHANGED <<tableVars, productId, recording, feedback, timers, dialog, calls, highlight>>

\* The number of the adjustment being entered: a success begins the next.
Draft ==
    1 + Cardinality({i \in DOMAIN calls :
                        calls[i].form = "adjust" /\ calls[i].state = "done" /\ calls[i].answer = "given"})

SubmitAdjustment ==
    /\ Enabled /\ filled
    /\ Post("adjust", productId, Display, Draft)
    /\ recording' = TRUE
    /\ Say(NoFeedback)
    /\ UNCHANGED <<tableVars, productId, filled, dialog, highlight>>

\* MUTANT: only a success enables the form again.
BusyUnlessDone(succeeded) == ~succeeded

\* `finally`: whatever came of the request, the form is enabled again.
BusyAfter(succeeded) == FALSE

\* The answer, or its loss, which the form cannot tell from a failure.
EndAdjustment(i, succeeded) ==
    /\ i \in Awaited("adjust")
    /\ recording' = BusyAfter(succeeded)
    /\ filled' = IF succeeded THEN FALSE ELSE filled
    /\ Say([kind |-> IF succeeded THEN "success" ELSE "error", of |-> i])
    /\ UNCHANGED <<tableVars, productId, dialog, highlight>>

ClearMessage(i) ==
    /\ i \in timers
    /\ feedback' = NoFeedback
    /\ timers' = timers \ {i}
    /\ UNCHANGED <<tableVars, productId, filled, recording, dialog, calls, highlight>>

(***************************************************************************)
(* The dialog that adds a product.                                         *)
(***************************************************************************)
OpenDialog ==
    /\ ~open
    /\ open' = TRUE
    /\ UNCHANGED <<tableVars, form, fields, adding, refusal, calls, highlight>>

\* MUTANT: closing the dialog also forgets that a request is under way.
ClosedForgetting == open' = FALSE /\ fields' = Empty /\ refusal' = Empty /\ adding' = FALSE

\* `adding` outlives the dialog: only the answer resets it.
Closed == open' = FALSE /\ fields' = Empty /\ refusal' = Empty /\ adding' = adding

\* Cancel, Escape or a click beside the dialog, the last two also while adding.
CloseDialog ==
    /\ open
    /\ Closed
    /\ UNCHANGED <<tableVars, form, calls, highlight>>

TypeProduct(p) ==
    /\ open /\ ~adding
    /\ fields' = p
    /\ UNCHANGED <<tableVars, form, open, adding, refusal, calls, highlight>>

SubmitProduct ==
    /\ open /\ ~adding /\ fields # Empty
    /\ Post("create", fields, Empty, 0)
    /\ adding' = TRUE
    /\ refusal' = Empty
    /\ UNCHANGED <<tableVars, form, open, fields, highlight>>

\* A success closes the dialog; a failure keeps the input for correction.
EndProduct(i, succeeded) ==
    /\ i \in Awaited("create")
    /\ adding' = BusyAfter(succeeded)
    /\ IF succeeded
       THEN open' = FALSE /\ fields' = Empty /\ refusal' = Empty
       ELSE refusal' = calls[i].product /\ UNCHANGED <<open, fields>>
    /\ UNCHANGED <<tableVars, form, highlight>>

(***************************************************************************)
(* The requests at the API. Whether stock allows an adjustment is the      *)
(* subject of StockTransactions, so one may always be refused.             *)
(***************************************************************************)
Decide(i, state) ==
    /\ calls[i].state = "sent"
    /\ calls' = [calls EXCEPT ![i].state = state]
    /\ UNCHANGED <<form, dialog, highlight>>

Adjust(i) ==
    /\ calls[i].form = "adjust"
    /\ \/ calls[i].product \in catalogue /\ Decide(i, "done")
       \/ Decide(i, "refused")
    /\ UNCHANGED tableVars

\* SKUs are unique: a product that is there is refused.
Add(i) ==
    /\ calls[i].form = "create"
    /\ \/ Create(calls[i].product) /\ Decide(i, "done")
       \/ calls[i].product \in catalogue /\ Decide(i, "refused") /\ UNCHANGED tableVars

Work(i) == Adjust(i) \/ Add(i)

Answer(i) ==
    /\ calls[i].state # "sent"
    /\ calls' = [calls EXCEPT ![i].answer = "given"]
    /\ \/ EndAdjustment(i, calls[i].state = "done")
       \/ EndProduct(i, calls[i].state = "done")

\* A network error, whatever becomes of the request.
LoseAnswer(i) ==
    /\ Cardinality({j \in DOMAIN calls : calls[j].answer = "lost"}) < MaxLost
    /\ calls' = [calls EXCEPT ![i].answer = "lost"]
    /\ EndAdjustment(i, FALSE) \/ EndProduct(i, FALSE)

(***************************************************************************)
(* The highlight, and the events that reach the page.                      *)
(***************************************************************************)
\* MUTANT: a repeat change leaves the timer of the first one.
OthersAndOwn(p) == expiries

\* clearTimeout(timers.get(id)).
Others(p) == {t \in expiries : t.id # p}

MarkChanged(p) ==
    /\ changes < MaxChanges
    /\ changes' = changes + 1
    /\ changedIds' = changedIds \cup {p}
    /\ expiries' = Others(p) \cup {[id |-> p, left |-> Duration]}
    /\ age' = [age EXCEPT ![p] = 0]
    /\ UNCHANGED <<form, dialog, calls>>

OnUpdate(p) ==
    /\ p \in catalogue
    /\ MarkChanged(p)
    /\ UNCHANGED tableVars

OnProductCreated(p) ==
    /\ p \in catalogue
    /\ \/ ShowNew(p)
       \/ IsShown(p) /\ UNCHANGED tableVars
    /\ MarkChanged(p)

Expire(t) ==
    /\ t \in expiries /\ t.left = 0
    /\ expiries' = expiries \ {t}
    /\ changedIds' = changedIds \ {t.id}
    /\ UNCHANGED <<tableVars, form, dialog, calls, age, changes>>

Tick ==
    /\ expiries # {}
    /\ expiries' = {[t EXCEPT !.left = IF @ = 0 THEN 0 ELSE @ - 1] : t \in expiries}
    /\ age' = [p \in Products |-> IF age[p] = Duration THEN Duration ELSE age[p] + 1]
    /\ UNCHANGED <<tableVars, form, dialog, calls, changedIds, changes>>

\* Others create products, and the page reloads its table.
TableMoves ==
    /\ (\E p \in New : Create(p)) \/ Reload
    /\ UNCHANGED <<form, dialog, calls, highlight>>

-----------------------------------------------------------------------------
Next ==
    \/ \E p \in Products : SelectProduct(p) \/ TypeProduct(p) \/ OnUpdate(p)
    \/ \E p \in New : OnProductCreated(p)
    \/ EnterQuantity \/ SubmitAdjustment
    \/ OpenDialog \/ CloseDialog \/ SubmitProduct
    \/ \E i \in DOMAIN calls : Work(i) \/ Answer(i) \/ LoseAnswer(i)
    \/ \E i \in timers : ClearMessage(i)
    \/ \E t \in expiries : Expire(t)
    \/ Tick
    \/ TableMoves

Spec == Init /\ [][Next]_vars

\* The API works and answers, time passes and timers fire. Users need do nothing.
Fairness ==
    /\ \A i \in Posts :
          /\ WF_vars(i \in DOMAIN calls /\ Work(i))
          /\ WF_vars(i \in DOMAIN calls /\ Answer(i))
          /\ WF_vars(ClearMessage(i))
    /\ WF_vars(\E t \in expiries : Expire(t))
    /\ WF_vars(Tick)

FairSpec == Spec /\ Fairness

-----------------------------------------------------------------------------
(***************************************************************************)
(* Properties.                                                             *)
(***************************************************************************)
Adjustments(d) == {i \in DOMAIN calls : calls[i].form = "adjust" /\ calls[i].draft = d}

\* An adjustment the user enters is recorded at most once more than answers to it
\* were lost: nothing but a lost answer lets it be sent again after it was recorded.
AdjustedOnce ==
    \A d \in 1..MaxPosts :
        Cardinality({i \in Adjustments(d) : calls[i].state = "done"})
          <= 1 + Cardinality({i \in Adjustments(d) : calls[i].answer = "lost"})

\* A message under the form goes away when the next adjustment is sent, or by the
\* timer of its own success: no error, and no later success, is cut short by the
\* timer of an earlier one.
MessagesStay ==
    [][feedback # NoFeedback /\ feedback' = NoFeedback =>
          \/ recording' /\ ~recording
          \/ feedback.kind = "success" /\ feedback.of \in timers \ timers']_vars

\* However the dialog is closed and opened again while a product is being added,
\* an answer clears no input but that of the product it is about.
AnswersKeepInput ==
    [][\A i \in Awaited("create") :
          calls'[i].answer # "awaited" => fields' = fields \/ fields = calls[i].product]_vars

\* A row is highlighted for the full duration since its latest change.
HighlightLasts == [][\A p \in changedIds \ changedIds' : age[p] = Duration]_vars

\* What a test of the form asserts: the product the select displays is the one that
\* the adjustment is sent for.
AdjustsWhatIsShown ==
    \A i \in DOMAIN calls : calls[i].form = "adjust" => calls[i].product = calls[i].shown

\* Whatever is refused or lost, the forms can be used again, success messages go
\* away and highlights end.
SettlesDown ==
    <>[](~recording /\ ~adding /\ feedback.kind # "success" /\ changedIds = {})
=============================================================================
