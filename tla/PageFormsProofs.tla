-------------------------- MODULE PageFormsProofs --------------------------
(***************************************************************************)
(* The forms and the highlight, for any products, any number of requests   *)
(* and any duration: a message, an input and a highlight last as long as   *)
(* they should, because each timer and each request is known to be alone.  *)
(***************************************************************************)
EXTENDS PageForms, NaturalLemmas

\* The requests are a sequence, whatever they ask for.
CallsOf(P, D) ==
    [form : {"adjust", "create"}, product : P, shown : P, draft : D,
     state : {"sent", "done", "refused"}, answer : {"awaited", "given", "lost"}]

CallsInv == \E P, D : calls \in Seq(CallsOf(P, D))

\* A pending timer is that of the message on display.
MessageInv == timers # {} => feedback.kind = "success" /\ timers = {feedback.of}

\* While a product is being added there is one request for it, and the fields
\* hold that product or, after the dialog was closed, nothing.
DialogInv ==
    /\ \A i \in Awaited("create") : adding /\ fields \in {Empty, calls[i].product}
    /\ \A i, j \in Awaited("create") : i = j

\* A highlighted row has one timer, which began when the row last changed.
HighlightInv ==
    /\ changedIds = {t.id : t \in expiries}
    /\ \A s, t \in expiries : s.id = t.id => s = t
    /\ expiries \subseteq [id : Products, left : 0..Duration]
    /\ age \in [Products -> 0..Duration]
    /\ \A t \in expiries : age[t.id] = Duration - t.left

FormsInv == CallsInv /\ MessageInv /\ DialogInv /\ HighlightInv

LEMMA Distinct == NoFeedback.kind # "success" /\ Duration \in Nat
  BY PageFormsAssumption DEF NoFeedback

LEMMA FormsInit == Init => FormsInv
  <1> SUFFICES ASSUME Init PROVE FormsInv
    OBVIOUS
  <1>1. CallsInv
    <2>1. calls \in Seq(CallsOf({}, {}))
      BY DEF Init
    <2> QED
      BY <2>1 DEF CallsInv
  <1>2. MessageInv /\ DialogInv
    BY DEF Init, MessageInv, DialogInv, Awaited
  <1>3. HighlightInv
    BY Distinct DEF Init, HighlightInv
  <1> QED
    BY <1>1, <1>2, <1>3 DEF FormsInv

(***************************************************************************)
(* Requests.                                                               *)
(***************************************************************************)
LEMMA PostCalls ==
    ASSUME CallsInv, NEW f \in {"adjust", "create"}, NEW product, NEW display, NEW draft,
           Post(f, product, display, draft)
    PROVE  /\ CallsInv'
           /\ \A i \in DOMAIN calls : i \in DOMAIN calls' /\ calls'[i] = calls[i]
           /\ \A i \in DOMAIN calls' \ DOMAIN calls :
                 /\ calls'[i].form = f /\ calls'[i].product = product /\ calls'[i].draft = draft
                 /\ calls'[i].state = "sent" /\ calls'[i].answer = "awaited"
           /\ \A i, j \in DOMAIN calls' \ DOMAIN calls : i = j
  <1> DEFINE call == [form |-> f, product |-> product, shown |-> display, draft |-> draft,
                      state |-> "sent", answer |-> "awaited"]
  <1>1. PICK P, D : calls \in Seq(CallsOf(P, D))
    BY DEF CallsInv
  <1> DEFINE S == CallsOf(P \cup {product, display}, D \cup {draft})
  <1>2. /\ calls' = Append(calls, call) /\ call \in S
        /\ call.form = f /\ call.product = product /\ call.draft = draft
        /\ call.state = "sent" /\ call.answer = "awaited"
    BY DEF Post, CallsOf
  <1>3. calls \in Seq(S)
    <2>1. CallsOf(P, D) \subseteq S
      BY DEF CallsOf
    <2> HIDE DEF S
    <2> QED
      BY <1>1, <2>1
  <1> HIDE DEF call
  <1>4. /\ Append(calls, call) \in Seq(S)
        /\ Len(Append(calls, call)) = Len(calls) + 1 /\ Len(calls) \in Nat
        /\ Append(calls, call)[Len(calls) + 1] = call
        /\ \A i \in 1..Len(calls) : Append(calls, call)[i] = calls[i]
    <2> HIDE DEF S
    <2> QED
      BY <1>2, <1>3
  <1>5. DOMAIN calls = 1..Len(calls) /\ DOMAIN calls' = 1..(Len(calls) + 1)
    <2> HIDE DEF S
    <2> QED
      BY <1>2, <1>3, <1>4
  <1> QED
    BY <1>2, <1>4, <1>5 DEF CallsInv

\* A step of the request itself leaves all but its state or its answer.
LEMMA UpdateCalls ==
    ASSUME CallsInv, NEW i \in DOMAIN calls,
           \/ \E x \in {"done", "refused"} : calls' = [calls EXCEPT ![i].state = x]
           \/ \E x \in {"given", "lost"} : calls' = [calls EXCEPT ![i].answer = x]
    PROVE  /\ CallsInv' /\ DOMAIN calls' = DOMAIN calls
           /\ \A j \in DOMAIN calls : j # i => calls'[j] = calls[j]
           /\ calls'[i].form = calls[i].form /\ calls'[i].product = calls[i].product
           /\ calls'[i].answer # calls[i].answer => calls'[i].answer # "awaited"
  <1>1. PICK P, D : calls \in Seq(CallsOf(P, D))
    BY DEF CallsInv
  <1>2. calls[i] \in CallsOf(P, D) /\ DOMAIN calls = 1..Len(calls) /\ Len(calls) \in Nat
    BY <1>1
  <1>3. /\ calls'[i] \in CallsOf(P, D)
        /\ calls'[i].form = calls[i].form /\ calls'[i].product = calls[i].product
        /\ calls'[i].answer # calls[i].answer => calls'[i].answer # "awaited"
    <2>1. ASSUME NEW x \in {"done", "refused"}, calls' = [calls EXCEPT ![i].state = x]
          PROVE  calls'[i] = [calls[i] EXCEPT !.state = x]
      BY <1>1, <2>1
    <2>2. ASSUME NEW x \in {"given", "lost"}, calls' = [calls EXCEPT ![i].answer = x]
          PROVE  calls'[i] = [calls[i] EXCEPT !.answer = x]
      BY <1>1, <2>2
    <2> QED
      BY <1>2, <2>1, <2>2 DEF CallsOf
  <1>4. /\ DOMAIN calls' = DOMAIN calls
        /\ \A j \in DOMAIN calls : j # i => calls'[j] = calls[j]
        /\ calls' = [j \in DOMAIN calls |-> calls'[j]]
    BY <1>1
  <1>5. calls' \in Seq(CallsOf(P, D))
    <2>1. \A j \in 1..Len(calls) : calls'[j] \in CallsOf(P, D)
      BY <1>1, <1>2, <1>3, <1>4
    <2> QED
      BY <1>2, <1>4, <2>1
  <1> QED
    BY <1>3, <1>4, <1>5 DEF CallsInv

(***************************************************************************)
(* The steps, in groups of those that concern the same invariant.          *)
(***************************************************************************)
\* What the steps of the requests at the API and of the table leave alone.
LEMMA WorkStep ==
    ASSUME NEW i \in DOMAIN calls, Work(i)
    PROVE  /\ UNCHANGED <<form, dialog, highlight>>
           /\ \E x \in {"done", "refused"} : calls' = [calls EXCEPT ![i].state = x]
  BY DEF Work, Adjust, Add, Decide

LEMMA AnswerStep ==
    ASSUME NEW i \in DOMAIN calls, Answer(i) \/ LoseAnswer(i)
    PROVE  /\ \E x \in {"given", "lost"} : calls' = [calls EXCEPT ![i].answer = x]
           /\ \E succeeded \in BOOLEAN : EndAdjustment(i, succeeded) \/ EndProduct(i, succeeded)
  BY DEF Answer, LoseAnswer

LEMMA CallsStep == CallsInv /\ [Next]_vars => CallsInv'
  <1> SUFFICES ASSUME CallsInv, [Next]_vars PROVE CallsInv'
    OBVIOUS
  <1>1. ASSUME SubmitAdjustment \/ SubmitProduct PROVE CallsInv'
    BY <1>1, PostCalls DEF SubmitAdjustment, SubmitProduct
  <1>2. ASSUME NEW i \in DOMAIN calls, Work(i) \/ Answer(i) \/ LoseAnswer(i) PROVE CallsInv'
    BY <1>2, UpdateCalls, WorkStep, AnswerStep
  <1>3. ASSUME UNCHANGED calls PROVE CallsInv'
    BY <1>3 DEF CallsInv
  <1>4. ASSUME \/ \E p \in Products : SelectProduct(p) \/ TypeProduct(p) \/ OnUpdate(p)
               \/ \E p \in New : OnProductCreated(p)
               \/ EnterQuantity \/ OpenDialog \/ CloseDialog
               \/ \E i \in timers : ClearMessage(i)
               \/ \E t \in expiries : Expire(t)
               \/ Tick \/ TableMoves \/ UNCHANGED vars
        PROVE  UNCHANGED calls
    BY <1>4 DEF SelectProduct, TypeProduct, OnUpdate, OnProductCreated, MarkChanged, EnterQuantity,
                OpenDialog, CloseDialog, ClearMessage, Expire, Tick, TableMoves, vars
  <1> QED
    BY <1>1, <1>2, <1>3, <1>4 DEF Next

LEMMA MessageStep == MessageInv /\ [Next]_vars => MessageInv'
  <1> SUFFICES ASSUME MessageInv, [Next]_vars PROVE MessageInv'
    OBVIOUS
  <1>1. ASSUME NEW message, Say(message) PROVE MessageInv'
    BY <1>1 DEF Say, TimersFor, MessageInv
  <1>2. ASSUME NEW i \in timers, ClearMessage(i) PROVE MessageInv'
    BY <1>2 DEF ClearMessage, MessageInv
  <1>3. ASSUME UNCHANGED <<feedback, timers>> PROVE MessageInv'
    BY <1>3 DEF MessageInv
  <1>4. ASSUME NEW i \in DOMAIN calls, Work(i) \/ Answer(i) \/ LoseAnswer(i) PROVE MessageInv'
    <2>1. CASE Work(i)
      BY <1>3, <2>1 DEF Work, Adjust, Add, Decide, form
    <2>2. ASSUME NEW succeeded \in BOOLEAN, EndAdjustment(i, succeeded) PROVE MessageInv'
      BY <1>1, <2>2 DEF EndAdjustment
    <2>3. ASSUME NEW succeeded \in BOOLEAN, EndProduct(i, succeeded) PROVE MessageInv'
      BY <1>3, <2>3 DEF EndProduct, form
    <2> QED
      BY <1>4, <2>1, <2>2, <2>3, AnswerStep
  <1>5. ASSUME SubmitAdjustment PROVE MessageInv'
    BY <1>1, <1>5 DEF SubmitAdjustment
  <1>6. ASSUME \/ \E p \in Products : SelectProduct(p) \/ TypeProduct(p) \/ OnUpdate(p)
               \/ \E p \in New : OnProductCreated(p)
               \/ EnterQuantity \/ OpenDialog \/ CloseDialog \/ SubmitProduct
               \/ \E t \in expiries : Expire(t)
               \/ Tick \/ TableMoves \/ UNCHANGED vars
        PROVE  UNCHANGED <<feedback, timers>>
    BY <1>6 DEF SelectProduct, TypeProduct, OnUpdate, OnProductCreated, MarkChanged, EnterQuantity,
                OpenDialog, CloseDialog, SubmitProduct, Expire, Tick, TableMoves, vars, form
  <1> QED
    BY <1>2, <1>3, <1>4, <1>5, <1>6 DEF Next

LEMMA DialogStep == CallsInv /\ DialogInv /\ [Next]_vars => DialogInv'
  <1> SUFFICES ASSUME CallsInv, DialogInv, [Next]_vars PROVE DialogInv'
    OBVIOUS
  <1>1. ASSUME NEW i \in DOMAIN calls, Work(i) PROVE DialogInv'
    <2>1. UNCHANGED <<adding, fields>>
      BY <1>1, WorkStep DEF dialog
    <2>2. \A j \in DOMAIN calls : calls'[j].form = calls[j].form /\ calls'[j].product = calls[j].product
      BY <1>1, WorkStep, UpdateCalls
    <2>3. Awaited("create")' \subseteq Awaited("create")
      BY <1>1, <2>2, WorkStep, UpdateCalls DEF Awaited
    <2> QED
      BY <2>1, <2>2, <2>3 DEF DialogInv, Awaited
  <1>2. ASSUME NEW i \in DOMAIN calls, Answer(i) \/ LoseAnswer(i) PROVE DialogInv'
    <2>1. /\ DOMAIN calls' = DOMAIN calls /\ calls'[i].answer # "awaited"
          /\ \A j \in DOMAIN calls \ {i} : calls'[j] = calls[j]
      <3>1. PICK x \in {"given", "lost"} : calls' = [calls EXCEPT ![i].answer = x]
        BY <1>2, AnswerStep
      <3>2. calls'[i].answer = x
        <4>1. PICK P, D : calls \in Seq(CallsOf(P, D))
          BY DEF CallsInv
        <4>2. calls[i] \in CallsOf(P, D) /\ calls'[i] = [calls[i] EXCEPT !.answer = x]
          BY <3>1, <4>1
        <4> QED
          BY <4>2 DEF CallsOf
      <3> QED
        BY <3>1, <3>2
    <2>2. Awaited("create")' \subseteq Awaited("create") \ {i}
      BY <2>1 DEF Awaited
    <2>3. ASSUME NEW succeeded \in BOOLEAN, EndAdjustment(i, succeeded) PROVE DialogInv'
      BY <2>1, <2>2, <2>3 DEF EndAdjustment, DialogInv, dialog, Awaited
    <2>4. ASSUME NEW succeeded \in BOOLEAN, EndProduct(i, succeeded) PROVE DialogInv'
      <3>1. Awaited("create") = {i}
        BY <2>4 DEF EndProduct, DialogInv
      <3> QED
        BY <2>2, <3>1 DEF DialogInv
    <2> QED
      BY <1>2, <2>3, <2>4, AnswerStep
  <1>3. ASSUME SubmitAdjustment PROVE DialogInv'
    <2>1. UNCHANGED <<adding, fields>> /\ Post("adjust", productId, Display, Draft)
      BY <1>3 DEF SubmitAdjustment, dialog
    <2>2. /\ Awaited("create")' \subseteq Awaited("create")
          /\ \A i \in Awaited("create") : calls'[i] = calls[i]
      BY <2>1, PostCalls DEF Awaited
    <2> QED
      BY <2>1, <2>2 DEF DialogInv
  <1>4. ASSUME SubmitProduct PROVE DialogInv'
    <2>1. ~adding /\ adding' /\ fields' = fields /\ Post("create", fields, Empty, 0)
      BY <1>4 DEF SubmitProduct
    <2>2. Awaited("create") = {}
      BY <2>1 DEF DialogInv
    <2>3. Awaited("create")' \subseteq DOMAIN calls' \ DOMAIN calls
      BY <2>1, <2>2, PostCalls DEF Awaited
    <2> QED
      BY <2>1, <2>3, PostCalls DEF DialogInv
  <1>5. ASSUME NEW p \in Products, TypeProduct(p) PROVE DialogInv'
    BY <1>5 DEF TypeProduct, DialogInv, Awaited
  <1>6. ASSUME CloseDialog PROVE DialogInv'
    BY <1>6 DEF CloseDialog, Closed, DialogInv, Awaited
  <1>7. ASSUME UNCHANGED <<calls, adding, fields>> PROVE DialogInv'
    BY <1>7 DEF DialogInv, Awaited
  <1>8. ASSUME \/ \E p \in Products : SelectProduct(p) \/ OnUpdate(p)
               \/ \E p \in New : OnProductCreated(p)
               \/ EnterQuantity \/ OpenDialog
               \/ \E i \in timers : ClearMessage(i)
               \/ \E t \in expiries : Expire(t)
               \/ Tick \/ TableMoves \/ UNCHANGED vars
        PROVE  UNCHANGED <<calls, adding, fields>>
    BY <1>8 DEF SelectProduct, OnUpdate, OnProductCreated, MarkChanged, EnterQuantity,
                OpenDialog, ClearMessage, Expire, Tick, TableMoves, vars, dialog
  <1> QED
    BY <1>1, <1>2, <1>3, <1>4, <1>5, <1>6, <1>7, <1>8 DEF Next

LEMMA HighlightStep == HighlightInv /\ [Next]_vars => HighlightInv'
  <1> SUFFICES ASSUME HighlightInv, [Next]_vars PROVE HighlightInv'
    OBVIOUS
  <1>0. Duration \in Nat
    BY Distinct
  <1>1. ASSUME NEW p \in Products, MarkChanged(p) PROVE HighlightInv'
    <2> DEFINE timer == [id |-> p, left |-> Duration]
    <2>1. /\ changedIds' = changedIds \cup {p}
          /\ expiries' = Others(p) \cup {timer}
          /\ age' = [age EXCEPT ![p] = 0]
      BY <1>1 DEF MarkChanged
    <2>2. timer \in [id : Products, left : 0..Duration] /\ timer.id = p /\ timer.left = Duration
      BY <1>0
    <2> HIDE DEF timer
    <2>3. changedIds' = {t.id : t \in expiries'}
      BY <2>1, <2>2 DEF HighlightInv, Others
    <2>4. \A s, t \in expiries' : s.id = t.id => s = t
      BY <2>1, <2>2 DEF HighlightInv, Others
    <2>5. /\ expiries' \subseteq [id : Products, left : 0..Duration]
          /\ age' \in [Products -> 0..Duration]
      BY <1>0, <2>1, <2>2 DEF HighlightInv, Others
    <2>6. \A t \in expiries' : age'[t.id] = Duration - t.left
      BY <1>0, <2>1, <2>2 DEF HighlightInv, Others
    <2> QED
      BY <2>3, <2>4, <2>5, <2>6 DEF HighlightInv
  <1>2. ASSUME NEW t \in expiries, Expire(t) PROVE HighlightInv'
    BY <1>2 DEF Expire, HighlightInv
  <1>3. ASSUME Tick PROVE HighlightInv'
    <2> DEFINE Later(t) == [t EXCEPT !.left = IF t.left = 0 THEN 0 ELSE t.left - 1]
    <2>1. /\ changedIds' = changedIds
          /\ expiries' = {Later(t) : t \in expiries}
          /\ age' = [p \in Products |-> IF age[p] = Duration THEN Duration ELSE age[p] + 1]
      BY <1>3 DEF Tick
    <2>2. ASSUME NEW t \in expiries
          PROVE  /\ Later(t) \in [id : Products, left : 0..Duration] /\ Later(t).id = t.id
                 /\ Later(t).left = IF t.left = 0 THEN 0 ELSE t.left - 1
                 /\ t.id \in Products /\ t.left \in 0..Duration
      BY <1>0 DEF HighlightInv
    <2> HIDE DEF Later
    <2>3. changedIds' = {t.id : t \in expiries'}
      BY <2>1, <2>2 DEF HighlightInv
    <2>4. \A s, t \in expiries' : s.id = t.id => s = t
      BY <2>1, <2>2 DEF HighlightInv
    <2>5. /\ expiries' \subseteq [id : Products, left : 0..Duration]
          /\ age' \in [Products -> 0..Duration]
      BY <1>0, <2>1, <2>2 DEF HighlightInv
    <2>6. \A t \in expiries : age'[t.id] = Duration - Later(t).left
      BY <1>0, <2>1, <2>2 DEF HighlightInv
    <2> QED
      BY <2>1, <2>2, <2>3, <2>4, <2>5, <2>6 DEF HighlightInv
  <1>4. ASSUME UNCHANGED <<changedIds, expiries, age>> PROVE HighlightInv'
    BY <1>4 DEF HighlightInv
  <1>5. ASSUME NEW p, OnUpdate(p) \/ OnProductCreated(p) PROVE MarkChanged(p)
    BY <1>5 DEF OnUpdate, OnProductCreated
  <1>6. ASSUME NEW i \in DOMAIN calls, Work(i) \/ Answer(i) \/ LoseAnswer(i)
        PROVE  UNCHANGED <<changedIds, expiries, age>>
    BY <1>6, WorkStep, AnswerStep DEF EndAdjustment, EndProduct, highlight
  <1>7. ASSUME \/ \E p \in Products : SelectProduct(p) \/ TypeProduct(p)
               \/ EnterQuantity \/ SubmitAdjustment \/ OpenDialog \/ CloseDialog \/ SubmitProduct
               \/ \E i \in timers : ClearMessage(i)
               \/ TableMoves \/ UNCHANGED vars
        PROVE  UNCHANGED <<changedIds, expiries, age>>
    BY <1>7 DEF SelectProduct, TypeProduct, EnterQuantity, SubmitAdjustment, OpenDialog,
                CloseDialog, SubmitProduct, ClearMessage, TableMoves, vars, highlight
  <1>8. New \subseteq Products
    BY DEF Products
  <1> QED
    BY <1>1, <1>2, <1>3, <1>4, <1>5, <1>6, <1>7, <1>8 DEF Next

LEMMA FormsStep == FormsInv /\ [Next]_vars => FormsInv'
  BY CallsStep, MessageStep, DialogStep, HighlightStep DEF FormsInv

LEMMA FormsInvariant == Spec => []FormsInv
  BY FormsInit, FormsStep, PTL DEF Spec

(***************************************************************************)
(* Adjustments: those that were answered with success are of different     *)
(* drafts, all before the draft that is entered or awaits its answer.      *)
(***************************************************************************)
Recorded ==
    {i \in DOMAIN calls :
        calls[i].form = "adjust" /\ calls[i].state = "done" /\ calls[i].answer = "given"}

DraftsInv ==
    /\ \A i \in Awaited("adjust") : recording /\ calls[i].draft = Draft
    /\ \A i, j \in Awaited("adjust") : i = j
    /\ \A i \in Recorded : calls[i].draft \in Nat /\ calls[i].draft < Draft
    /\ \A i, j \in Recorded : calls[i].draft = calls[j].draft => i = j
    /\ \A i \in DOMAIN calls : calls[i].answer = "given" => calls[i].state # "sent"

AdjustInv == CallsInv /\ DraftsInv

\* A step of the request sets one field.
LEMMA FieldSet ==
    ASSUME CallsInv, NEW i \in DOMAIN calls, NEW x
    PROVE  /\ calls' = [calls EXCEPT ![i].state = x] =>
                /\ calls'[i].state = x /\ calls'[i].answer = calls[i].answer
                /\ calls'[i].form = calls[i].form /\ calls'[i].draft = calls[i].draft
           /\ calls' = [calls EXCEPT ![i].answer = x] =>
                /\ calls'[i].answer = x /\ calls'[i].state = calls[i].state
                /\ calls'[i].form = calls[i].form /\ calls'[i].draft = calls[i].draft
  <1>1. PICK P, D : calls \in Seq(CallsOf(P, D))
    BY DEF CallsInv
  <1>2. calls[i] \in CallsOf(P, D)
    BY <1>1
  <1>3. ASSUME calls' = [calls EXCEPT ![i].state = x] PROVE calls'[i] = [calls[i] EXCEPT !.state = x]
    BY <1>1, <1>3
  <1>4. ASSUME calls' = [calls EXCEPT ![i].answer = x] PROVE calls'[i] = [calls[i] EXCEPT !.answer = x]
    BY <1>1, <1>4
  <1> QED
    BY <1>2, <1>3, <1>4 DEF CallsOf

\* There are finitely many requests, so drafts can be counted.
LEMMA FewCalls ==
    ASSUME CallsInv
    PROVE  IsFiniteSet(DOMAIN calls) /\ IsFiniteSet(Recorded) /\ Draft = 1 + Cardinality(Recorded) /\ Draft \in Nat
  <1>1. PICK P, D : calls \in Seq(CallsOf(P, D))
    BY DEF CallsInv
  <1>2. DOMAIN calls = 1..Len(calls) /\ Len(calls) \in Nat
    BY <1>1
  <1>3. IsFiniteSet(DOMAIN calls)
    BY <1>2, FS_Interval
  <1>4. IsFiniteSet(Recorded)
    BY <1>3, FS_Subset DEF Recorded
  <1>5. Draft = 1 + Cardinality(Recorded)
    BY DEF Draft, Recorded
  <1> QED
    BY <1>3, <1>4, <1>5, FS_CardinalityType

LEMMA AdjustInit == Init => AdjustInv
  BY FormsInit DEF FormsInv, AdjustInv, DraftsInv, Init, Awaited, Recorded

\* What neither sends nor answers an adjustment keeps its draft.
LEMMA DraftsKept ==
    ASSUME AdjustInv, Recorded' = Recorded, Awaited("adjust")' \subseteq Awaited("adjust"),
           Awaited("adjust")' # {} => recording' = recording,
           DOMAIN calls \subseteq DOMAIN calls',
           \A i \in DOMAIN calls : calls'[i].draft = calls[i].draft,
           \A i \in DOMAIN calls' : calls'[i].answer = "given" => calls'[i].state # "sent"
    PROVE  DraftsInv'
  <1>1. Draft' = Draft
    BY DEF Draft, Recorded
  <1>2. Recorded \subseteq DOMAIN calls /\ Awaited("adjust") \subseteq DOMAIN calls
    BY DEF Recorded, Awaited
  <1> QED
    BY <1>1, <1>2 DEF AdjustInv, DraftsInv

LEMMA AdjustWork ==
    ASSUME AdjustInv, NEW i \in DOMAIN calls, Work(i)
    PROVE  DraftsInv'
  <1>1. PICK x \in {"done", "refused"} : calls' = [calls EXCEPT ![i].state = x]
    BY WorkStep
  <1>2. calls[i].state = "sent"
    BY DEF Work, Adjust, Add, Decide
  <1>3. /\ DOMAIN calls' = DOMAIN calls /\ \A j \in DOMAIN calls : j # i => calls'[j] = calls[j]
        /\ calls'[i].state = x /\ calls'[i].answer = calls[i].answer
        /\ calls'[i].form = calls[i].form /\ calls'[i].draft = calls[i].draft
    BY <1>1, UpdateCalls, FieldSet DEF AdjustInv
  <1>4. calls[i].answer # "given"
    BY <1>2 DEF AdjustInv, DraftsInv
  <1>5. Recorded' = Recorded /\ Awaited("adjust")' = Awaited("adjust")
    BY <1>2, <1>3, <1>4 DEF Recorded, Awaited
  <1>6. recording' = recording
    BY WorkStep DEF form
  <1>7. \A j \in DOMAIN calls' : calls'[j].answer = "given" => calls'[j].state # "sent"
    BY <1>3, <1>4 DEF AdjustInv, DraftsInv
  <1> QED
    BY <1>3, <1>5, <1>6, <1>7, DraftsKept

LEMMA AdjustSubmit ==
    ASSUME AdjustInv, SubmitAdjustment
    PROVE  DraftsInv'
  <1>1. Post("adjust", productId, Display, Draft) /\ recording' /\ ~recording
    BY DEF SubmitAdjustment, Enabled
  <1>2. Awaited("adjust") = {}
    BY <1>1 DEF AdjustInv, DraftsInv
  <1>3. /\ \A i \in DOMAIN calls : i \in DOMAIN calls' /\ calls'[i] = calls[i]
        /\ \A i \in DOMAIN calls' \ DOMAIN calls :
              calls'[i].draft = Draft /\ calls'[i].state = "sent" /\ calls'[i].answer = "awaited"
        /\ \A i, j \in DOMAIN calls' \ DOMAIN calls : i = j
    BY <1>1, PostCalls DEF AdjustInv
  <1>4. Recorded' = Recorded
    BY <1>3 DEF Recorded
  <1>5. Draft' = Draft
    BY <1>4 DEF Draft, Recorded
  <1>6. Awaited("adjust")' \subseteq DOMAIN calls' \ DOMAIN calls
    BY <1>2, <1>3 DEF Awaited
  <1>7. Recorded \subseteq DOMAIN calls
    BY DEF Recorded
  <1> QED
    BY <1>1, <1>3, <1>4, <1>5, <1>6, <1>7 DEF AdjustInv, DraftsInv

\* Only an answer of success begins the next draft, and its own was the last.
LEMMA AdjustEnd ==
    ASSUME AdjustInv, NEW i \in DOMAIN calls, Answer(i) \/ LoseAnswer(i)
    PROVE  DraftsInv'
  <1>1. PICK x \in {"given", "lost"} :
            calls' = [calls EXCEPT ![i].answer = x] /\ (x = "given" => calls[i].state # "sent")
    BY DEF Answer, LoseAnswer
  <1>2. /\ DOMAIN calls' = DOMAIN calls /\ \A j \in DOMAIN calls : j # i => calls'[j] = calls[j]
        /\ calls'[i].answer = x /\ calls'[i].state = calls[i].state
        /\ calls'[i].form = calls[i].form /\ calls'[i].draft = calls[i].draft
    BY <1>1, UpdateCalls, FieldSet DEF AdjustInv
  <1>3. \A j \in DOMAIN calls' : calls'[j].answer = "given" => calls'[j].state # "sent"
    BY <1>1, <1>2 DEF AdjustInv, DraftsInv
  <1>4. ASSUME NEW succeeded \in BOOLEAN, EndProduct(i, succeeded) PROVE DraftsInv'
    <2>1. calls[i].form = "create" /\ recording' = recording
      BY <1>4 DEF EndProduct, Awaited, form
    <2>2. Recorded' = Recorded /\ Awaited("adjust")' = Awaited("adjust")
      BY <1>2, <2>1 DEF Recorded, Awaited
    <2> QED
      BY <1>2, <1>3, <2>1, <2>2, DraftsKept
  <1>5. ASSUME NEW succeeded \in BOOLEAN, EndAdjustment(i, succeeded) PROVE DraftsInv'
    <2>1. i \in Awaited("adjust") /\ calls[i].form = "adjust" /\ calls[i].answer = "awaited"
      BY <1>5 DEF EndAdjustment, Awaited
    <2>2. calls[i].draft = Draft /\ Awaited("adjust")' = {}
      BY <1>2, <2>1 DEF AdjustInv, DraftsInv, Awaited
    <2>3. CASE x = "given" /\ calls[i].state = "done"
      <3>1. Recorded' = Recorded \cup {i} /\ i \notin Recorded
        BY <1>2, <2>1, <2>3 DEF Recorded
      <3>2. Draft' = Draft + 1
        <4>1. CallsInv'
          BY <1>1, UpdateCalls DEF AdjustInv
        <4>2. Draft' = 1 + Cardinality(Recorded')
          BY DEF Draft, Recorded
        <4>3. Cardinality(Recorded') = Cardinality(Recorded) + 1
          BY <3>1, FewCalls, FS_AddElement DEF AdjustInv
        <4> QED
          BY <4>2, <4>3, FewCalls, FS_CardinalityType DEF AdjustInv
      <3>3. Draft \in Nat /\ Recorded \subseteq DOMAIN calls
        BY FewCalls DEF AdjustInv, Recorded
      <3>4. \A j \in Recorded : calls[j].draft < Draft /\ calls'[j].draft = calls[j].draft
        BY <1>2, <3>1, <3>3 DEF AdjustInv, DraftsInv
      <3>5. \A j \in Recorded' : calls'[j].draft \in Nat /\ calls'[j].draft < Draft'
        <4>1. \A j \in Recorded : calls[j].draft \in Nat
          BY DEF AdjustInv, DraftsInv
        <4> QED
          BY <1>2, <2>2, <3>1, <3>2, <3>3, <3>4, <4>1
      <3>6. \A j, k \in Recorded' : calls'[j].draft = calls'[k].draft => j = k
        BY <1>2, <2>2, <3>1, <3>3, <3>4 DEF AdjustInv, DraftsInv
      <3> QED
        BY <1>3, <2>2, <3>5, <3>6 DEF DraftsInv
    <2>4. CASE ~(x = "given" /\ calls[i].state = "done")
      <3>1. Recorded' = Recorded
        BY <1>2, <2>1, <2>4 DEF Recorded
      <3> QED
        BY <1>2, <1>3, <2>2, <3>1, DraftsKept
    <2> QED
      BY <2>3, <2>4
  <1> QED
    BY <1>4, <1>5, AnswerStep

LEMMA AdjustStep == AdjustInv /\ [Next]_vars => AdjustInv'
  <1> SUFFICES ASSUME AdjustInv, [Next]_vars PROVE DraftsInv'
    BY CallsStep DEF AdjustInv
  <1>1. ASSUME NEW i \in DOMAIN calls, Work(i) \/ Answer(i) \/ LoseAnswer(i) PROVE DraftsInv'
    BY <1>1, AdjustWork, AdjustEnd
  <1>2. ASSUME SubmitProduct PROVE DraftsInv'
    <2>1. Post("create", fields, Empty, 0) /\ recording' = recording
      BY <1>2 DEF SubmitProduct, form
    <2>2. /\ \A i \in DOMAIN calls : i \in DOMAIN calls' /\ calls'[i] = calls[i]
          /\ \A i \in DOMAIN calls' \ DOMAIN calls :
                calls'[i].form = "create" /\ calls'[i].answer = "awaited"
      BY <2>1, PostCalls DEF AdjustInv
    <2>3. Recorded' = Recorded /\ Awaited("adjust")' = Awaited("adjust")
      BY <2>2 DEF Recorded, Awaited
    <2>4. \A i \in DOMAIN calls' : calls'[i].answer = "given" => calls'[i].state # "sent"
      BY <2>2 DEF AdjustInv, DraftsInv
    <2> QED
      BY <2>1, <2>2, <2>3, <2>4, DraftsKept
  <1>3. ASSUME UNCHANGED <<calls, recording>> PROVE DraftsInv'
    BY <1>3 DEF AdjustInv, DraftsInv, Draft, Recorded, Awaited
  <1>4. ASSUME \/ \E p \in Products : SelectProduct(p) \/ TypeProduct(p) \/ OnUpdate(p)
               \/ \E p \in New : OnProductCreated(p)
               \/ EnterQuantity \/ OpenDialog \/ CloseDialog
               \/ \E i \in timers : ClearMessage(i)
               \/ \E t \in expiries : Expire(t)
               \/ Tick \/ TableMoves \/ UNCHANGED vars
        PROVE  UNCHANGED <<calls, recording>>
    BY <1>4 DEF SelectProduct, TypeProduct, OnUpdate, OnProductCreated, MarkChanged, EnterQuantity,
                OpenDialog, CloseDialog, ClearMessage, Expire, Tick, TableMoves, vars, form
  <1> QED
    BY <1>1, <1>2, <1>3, <1>4, AdjustSubmit DEF Next

\* Of the requests for one draft that were recorded, at most one was not lost.
LEMMA OneKept ==
    ASSUME AdjustInv, NEW d
    PROVE  Cardinality({i \in Adjustments(d) : calls[i].state = "done"})
             <= 1 + Cardinality({i \in Adjustments(d) : calls[i].answer = "lost"})
  <1> DEFINE Done == {i \in Adjustments(d) : calls[i].state = "done"}
             Lost == {i \in Adjustments(d) : calls[i].answer = "lost"}
             Kept == {i \in Adjustments(d) : calls[i].state = "done" /\ calls[i].answer # "lost"}
  <1>1. \A i \in Kept : i \in Recorded \/ i \in Awaited("adjust")
    <2>1. PICK P, D : calls \in Seq(CallsOf(P, D))
      BY DEF AdjustInv, CallsInv
    <2>2. \A i \in DOMAIN calls : calls[i] \in CallsOf(P, D)
      BY <2>1
    <2>3. \A i \in DOMAIN calls : calls[i].answer \in {"awaited", "given", "lost"}
      BY <2>2 DEF CallsOf
    <2> QED
      BY <2>3 DEF Adjustments, Recorded, Awaited
  <1>2. \A i, j \in Kept : i = j
    <2>1. \A i \in Kept : calls[i].draft = d
      BY DEF Adjustments
    <2>2. Draft \in Nat
      BY FewCalls DEF AdjustInv
    <2> QED
      BY <1>1, <2>1, <2>2 DEF AdjustInv, DraftsInv
  <1>3. IsFiniteSet(Done) /\ IsFiniteSet(Lost)
    BY FewCalls, FS_Subset DEF AdjustInv, Adjustments
  <1>4. IsFiniteSet(Kept) /\ Cardinality(Kept) <= 1
    <2>1. CASE Kept = {}
      BY <2>1, FS_EmptySet
    <2>2. CASE Kept # {}
      <3>1. PICK i \in Kept : Kept = {i}
        BY <1>2, <2>2
      <3>2. IsFiniteSet({i}) /\ Cardinality({i}) = 1
        BY FS_Singleton
      <3> HIDE DEF Kept
      <3> QED
        BY <3>1, <3>2
    <2> QED
      BY <2>1, <2>2
  <1>5. Done \subseteq Kept \cup Lost
    OBVIOUS
  <1> HIDE DEF Done, Lost, Kept
  <1>6. IsFiniteSet(Kept \cup Lost) /\ Cardinality(Kept \cup Lost) <= 1 + Cardinality(Lost)
    <2>1. /\ IsFiniteSet(Kept \cup Lost)
          /\ Cardinality(Kept \cup Lost) = Cardinality(Kept) + Cardinality(Lost) - Cardinality(Kept \cap Lost)
      BY <1>3, <1>4, FS_Union
    <2>2. IsFiniteSet(Kept \cap Lost)
      BY <1>3, FS_Subset
    <2>3. {Cardinality(Kept), Cardinality(Lost), Cardinality(Kept \cap Lost)} \subseteq Nat
      BY <1>3, <1>4, <2>2, FS_CardinalityType
    <2> QED
      BY <1>4, <2>1, <2>3
  <1>7. Cardinality(Done) <= Cardinality(Kept \cup Lost)
    BY <1>5, <1>6, FS_Subset
  <1>8. Cardinality(Done) \in Nat /\ Cardinality(Kept \cup Lost) \in Nat /\ Cardinality(Lost) \in Nat
    BY <1>3, <1>6, FS_CardinalityType
  <1>9. Cardinality(Done) <= 1 + Cardinality(Lost)
    BY <1>6, <1>7, <1>8
  <1> QED
    BY <1>9 DEF Done, Lost

(***************************************************************************)
(* What follows of each step.                                              *)
(***************************************************************************)
LEMMA MessageKept ==
    ASSUME MessageInv, [Next]_vars, feedback # NoFeedback, feedback' = NoFeedback
    PROVE  \/ recording' /\ ~recording
           \/ feedback.kind = "success" /\ feedback.of \in timers \ timers'
  <1>1. ASSUME SubmitAdjustment PROVE recording' /\ ~recording
    BY <1>1 DEF SubmitAdjustment, Enabled
  <1>2. ASSUME NEW i \in timers, ClearMessage(i)
        PROVE  feedback.kind = "success" /\ feedback.of \in timers \ timers'
    BY <1>2 DEF ClearMessage, MessageInv
  <1>3. ASSUME NEW i \in DOMAIN calls, Work(i) \/ Answer(i) \/ LoseAnswer(i) PROVE FALSE
    <2>1. CASE Work(i)
      BY <2>1, WorkStep DEF form
    <2>2. ASSUME NEW succeeded \in BOOLEAN, EndAdjustment(i, succeeded) PROVE FALSE
      <3> DEFINE message == [kind |-> IF succeeded THEN "success" ELSE "error", of |-> i]
      <3>1. feedback' = message
        BY <2>2 DEF EndAdjustment, Say
      <3>2. message.kind # NoFeedback.kind
        BY DEF NoFeedback
      <3> QED
        BY <3>1, <3>2
    <2>3. ASSUME NEW succeeded \in BOOLEAN, EndProduct(i, succeeded) PROVE FALSE
      BY <2>3 DEF EndProduct, form
    <2> QED
      BY <1>3, <2>1, <2>2, <2>3, AnswerStep
  <1>4. ASSUME \/ \E p \in Products : SelectProduct(p) \/ TypeProduct(p) \/ OnUpdate(p)
               \/ \E p \in New : OnProductCreated(p)
               \/ EnterQuantity \/ OpenDialog \/ CloseDialog \/ SubmitProduct
               \/ \E t \in expiries : Expire(t)
               \/ Tick \/ TableMoves \/ UNCHANGED vars
        PROVE  UNCHANGED feedback
    BY <1>4 DEF SelectProduct, TypeProduct, OnUpdate, OnProductCreated, MarkChanged, EnterQuantity,
                OpenDialog, CloseDialog, SubmitProduct, Expire, Tick, TableMoves, vars, form
  <1> QED
    BY <1>1, <1>2, <1>3, <1>4 DEF Next

LEMMA InputKept ==
    ASSUME CallsInv, DialogInv, [Next]_vars, NEW i \in Awaited("create"),
           calls'[i].answer # "awaited"
    PROVE  fields' = fields \/ fields = calls[i].product
  <1>0. i \in DOMAIN calls /\ calls[i].answer = "awaited"
    BY DEF Awaited
  <1>1. ASSUME NEW j \in DOMAIN calls, Answer(j) \/ LoseAnswer(j) PROVE fields' = fields \/ fields = calls[i].product
    <2>1. fields \in {Empty, calls[i].product}
      BY DEF DialogInv
    <2>2. ASSUME NEW succeeded \in BOOLEAN, EndAdjustment(j, succeeded) PROVE fields' = fields
      BY <2>2 DEF EndAdjustment, dialog
    <2>3. ASSUME NEW succeeded \in BOOLEAN, EndProduct(j, succeeded) PROVE fields' \in {Empty, fields}
      BY <2>3 DEF EndProduct
    <2> QED
      BY <1>1, <2>1, <2>2, <2>3, AnswerStep
  <1>2. ASSUME NEW j \in DOMAIN calls, Work(j) PROVE fields' = fields
    BY <1>2, WorkStep DEF dialog
  <1>3. ASSUME SubmitAdjustment \/ SubmitProduct PROVE fields' = fields
    BY <1>3 DEF SubmitAdjustment, SubmitProduct, dialog
  <1>4. ASSUME \/ \E p \in Products : SelectProduct(p) \/ TypeProduct(p) \/ OnUpdate(p)
               \/ \E p \in New : OnProductCreated(p)
               \/ EnterQuantity \/ OpenDialog \/ CloseDialog
               \/ \E k \in timers : ClearMessage(k)
               \/ \E t \in expiries : Expire(t)
               \/ Tick \/ TableMoves \/ UNCHANGED vars
        PROVE  UNCHANGED calls
    BY <1>4 DEF SelectProduct, TypeProduct, OnUpdate, OnProductCreated, MarkChanged, EnterQuantity,
                OpenDialog, CloseDialog, ClearMessage, Expire, Tick, TableMoves, vars
  <1> QED
    BY <1>0, <1>1, <1>2, <1>3, <1>4 DEF Next

LEMMA HighlightKept ==
    ASSUME HighlightInv, [Next]_vars, NEW p \in changedIds \ changedIds'
    PROVE  age[p] = Duration
  <1>1. ASSUME NEW t \in expiries, Expire(t) PROVE age[p] = Duration
    <2>1. p = t.id /\ t.left = 0
      BY <1>1 DEF Expire
    <2> QED
      BY <2>1, Distinct DEF HighlightInv
  <1>2. ASSUME NEW q, OnUpdate(q) \/ OnProductCreated(q) PROVE FALSE
    BY <1>2 DEF OnUpdate, OnProductCreated, MarkChanged
  <1>3. ASSUME NEW i \in DOMAIN calls, Work(i) \/ Answer(i) \/ LoseAnswer(i)
        PROVE  FALSE
    BY <1>3, WorkStep, AnswerStep DEF EndAdjustment, EndProduct, highlight
  <1>4. ASSUME \/ \E q \in Products : SelectProduct(q) \/ TypeProduct(q)
               \/ EnterQuantity \/ SubmitAdjustment \/ OpenDialog \/ CloseDialog \/ SubmitProduct
               \/ \E i \in timers : ClearMessage(i)
               \/ Tick \/ TableMoves \/ UNCHANGED vars
        PROVE  FALSE
    BY <1>4 DEF SelectProduct, TypeProduct, EnterQuantity, SubmitAdjustment, OpenDialog,
                CloseDialog, SubmitProduct, ClearMessage, Tick, TableMoves, vars, highlight
  <1> QED
    BY <1>1, <1>2, <1>3, <1>4 DEF Next

(***************************************************************************)
(* Theorems.                                                               *)
(***************************************************************************)
\* MovementForm.tsx clears a message only by the next submit or by the message's own
\* timer: the cleanup of its effect leaves no timer of an earlier one.
THEOREM MessagesAreKept == Spec => MessagesStay
  <1>1. FormsInv /\ [Next]_vars =>
            [feedback # NoFeedback /\ feedback' = NoFeedback =>
                \/ recording' /\ ~recording
                \/ feedback.kind = "success" /\ feedback.of \in timers \ timers']_vars
    BY MessageKept DEF FormsInv
  <1> QED
    BY <1>1, FormsInvariant, PTL DEF Spec, MessagesStay

\* AddProductDialog.tsx, closed and opened at will while a product is being added:
\* one request at a time, and its answer clears no other product's input.
THEOREM InputIsKept == Spec => AnswersKeepInput
  <1>1. FormsInv /\ [Next]_vars =>
            [\A i \in Awaited("create") :
                calls'[i].answer # "awaited" => fields' = fields \/ fields = calls[i].product]_vars
    BY InputKept DEF FormsInv
  <1> QED
    BY <1>1, FormsInvariant, PTL DEF Spec, AnswersKeepInput

\* useRecentlyChanged.ts: each change begins the highlight of its row anew, however
\* many changes there are and however they fall.
THEOREM HighlightsAreKept == Spec => HighlightLasts
  <1>1. FormsInv /\ [Next]_vars => [\A p \in changedIds \ changedIds' : age[p] = Duration]_vars
    BY HighlightKept DEF FormsInv
  <1> QED
    BY <1>1, FormsInvariant, PTL DEF Spec, HighlightLasts

\* MovementForm.tsx has one request at a time and keeps its input until one succeeds:
\* an adjustment is recorded again only if an answer to it was lost.
THEOREM AdjustmentsAreOnce == Spec => []AdjustedOnce
  <1>1. AdjustInv => AdjustedOnce
    BY OneKept DEF AdjustedOnce
  <1> QED
    BY <1>1, AdjustInit, AdjustStep, PTL DEF Spec

-----------------------------------------------------------------------------
(***************************************************************************)
(* The types: above all, that a page of products is one, and that what the *)
(* forms say is about a request that was sent.                             *)
(***************************************************************************)
TableTyped == catalogue \subseteq Products /\ shown \in Seq(Products)

CallsTyped == calls \in Seq(Calls) /\ Len(calls) <= MaxPosts

FieldsTyped ==
    /\ productId \in Choices /\ fields \in Choices /\ refusal \in Choices
    /\ filled \in BOOLEAN /\ recording \in BOOLEAN /\ open \in BOOLEAN /\ adding \in BOOLEAN
    /\ feedback \in [kind : {"success", "error"}, of : Posts] \cup {NoFeedback}
    /\ timers \subseteq Posts
    /\ changes \in 0..MaxChanges

TypeInv == TableTyped /\ CallsTyped /\ FieldsTyped

\* The first page of a set of products has products of it.
LEMMA FirstPageTyped ==
    ASSUME NEW S \in SUBSET Products
    PROVE  FirstPage(S) \in Seq(S)
  <1> DEFINE n == IF Cardinality(S) < PageSize THEN Cardinality(S) ELSE PageSize
             page == FirstPage(S)
  <1>1. S \in SUBSET Nat /\ IsFiniteSet(S)
    <2>1. IsFiniteSet(Products) /\ Products \subseteq Nat
      BY ProductTableAssumption, FS_Union DEF Products
    <2> QED
      BY <2>1, FS_Subset
  <1>2. n \in Nat /\ n <= Cardinality(S)
    BY <1>1, FS_CardinalityType, ProductTableAssumption
  <1>3. page = [i \in 1..n |-> Nth(S, i)]
    BY DEF FirstPage
  <1> HIDE DEF n
  <1>4. ASSUME NEW i \in 1..n PROVE Nth(S, i) \in S
    <2> DEFINE Is(p) == Cardinality({q \in S : q < p}) = i - 1
    <2>1. i \in 1..Cardinality(S)
      BY <1>1, <1>2, FS_CardinalityType
    <2>2. (\E p \in S : Is(p)) /\ Nth(S, i) = CHOOSE p \in S : Is(p)
      BY <1>1, <2>1, NthExists DEF Nth
    <2> HIDE DEF Is
    <2> QED
      BY <2>2
  <1>5. page \in [1..n -> S]
    BY <1>3, <1>4
  <1> HIDE DEF page
  <1>6. page \in Seq(S)
    BY <1>2, <1>5
  <1> QED
    BY <1>6 DEF page

LEMMA FirstPageOf ==
    ASSUME NEW S \in SUBSET Products
    PROVE  FirstPage(S) \in Seq(Products)
  <1> DEFINE page == FirstPage(S)
  <1>1. page \in Seq(S)
    BY FirstPageTyped
  <1> HIDE DEF page
  <1>2. page \in Seq(Products)
    BY <1>1
  <1> QED
    BY <1>2 DEF page

LEMMA TypeInit == Init => TypeInv
  <1> SUFFICES ASSUME Init PROVE TypeInv
    OBVIOUS
  <1>1. TableTyped
    <2>1. Existing \subseteq Products
      BY DEF Products
    <2> QED
      BY <2>1, FirstPageOf DEF Init, TableInit, TableTyped
  <1>2. productId \in Choices
    BY <1>1 DEF Init, TableTyped, Choices
  <1>3. CallsTyped
    BY PageFormsAssumption DEF Init, CallsTyped
  <1>4. FieldsTyped
    <2>1. changes \in 0..MaxChanges /\ timers \subseteq Posts
      BY PageFormsAssumption DEF Init
    <2>2. filled \in BOOLEAN /\ recording \in BOOLEAN /\ open \in BOOLEAN /\ adding \in BOOLEAN
      BY DEF Init
    <2>3. feedback = NoFeedback /\ fields \in Choices /\ refusal \in Choices
      BY DEF Init, Choices
    <2> QED
      BY <1>2, <2>1, <2>2, <2>3 DEF FieldsTyped
  <1> QED
    BY <1>1, <1>3, <1>4 DEF TypeInv

LEMMA TableStep ==
    ASSUME TableTyped, [Next]_vars
    PROVE  TableTyped'
  <1> USE DEF TableTyped
  <1>1. ASSUME NEW p \in New, Create(p) PROVE TableTyped'
    BY <1>1 DEF Create, Products
  <1>2. CASE Reload
    <2>1. PICK S \in SUBSET catalogue : shown' = FirstPage(S)
      BY <1>2 DEF Reload
    <2>2. S \in SUBSET Products
      OBVIOUS
    <2> QED
      BY <1>2, <2>1, <2>2, FirstPageOf DEF Reload
  <1>3. ASSUME NEW p \in New, ShowNew(p) PROVE TableTyped'
    <2>1. p \in Products
      BY DEF Products
    <2> QED
      BY <1>3, <2>1 DEF ShowNew
  <1>4. CASE UNCHANGED tableVars
    BY <1>4 DEF tableVars
  <1>5. ASSUME NEW i \in DOMAIN calls, Work(i) PROVE TableTyped'
    BY <1>4, <1>5, <1>1 DEF Work, Adjust, Add, Create
  <1>6. ASSUME NEW i \in DOMAIN calls, Answer(i) \/ LoseAnswer(i) PROVE UNCHANGED tableVars
    BY <1>6, AnswerStep DEF EndAdjustment, EndProduct
  <1>7. ASSUME \/ \E p \in Products : SelectProduct(p) \/ TypeProduct(p) \/ OnUpdate(p)
               \/ EnterQuantity \/ SubmitAdjustment \/ OpenDialog \/ CloseDialog \/ SubmitProduct
               \/ \E i \in timers : ClearMessage(i)
               \/ \E t \in expiries : Expire(t)
               \/ Tick \/ UNCHANGED vars
        PROVE  UNCHANGED tableVars
    BY <1>7 DEF SelectProduct, TypeProduct, OnUpdate, EnterQuantity, SubmitAdjustment, OpenDialog,
                CloseDialog, SubmitProduct, ClearMessage, Expire, Tick, vars
  <1> QED
    BY <1>1, <1>2, <1>3, <1>4, <1>5, <1>6, <1>7 DEF Next, TableMoves, OnProductCreated

LEMMA PostTyped ==
    ASSUME CallsTyped, NEW f \in {"adjust", "create"}, NEW product \in Choices, NEW display \in Choices,
           NEW draft \in Nat, Post(f, product, display, draft)
    PROVE  CallsTyped'
  <1> DEFINE call == [form |-> f, product |-> product, shown |-> display, draft |-> draft,
                      state |-> "sent", answer |-> "awaited"]
  <1>1. calls' = Append(calls, call) /\ Len(calls) < MaxPosts /\ calls \in Seq(Calls)
    BY DEF Post, CallsTyped
  <1>2. call \in Calls
    BY DEF Calls
  <1> HIDE DEF call
  <1>3. calls' \in Seq(Calls) /\ Len(calls') = Len(calls) + 1 /\ Len(calls) \in Nat
    BY <1>1, <1>2
  <1> QED
    BY <1>1, <1>3, PageFormsAssumption DEF CallsTyped

LEMMA CallsTypedStep ==
    ASSUME TypeInv, CallsInv, Next
    PROVE  CallsTyped'
  <1>1. CASE SubmitAdjustment
    <2>1. Display \in Choices
      <3>1. \A i \in DOMAIN shown : shown[i] \in Products
        BY DEF TypeInv, TableTyped
      <3>2. shown # <<>> => 1 \in DOMAIN shown
        BY DEF TypeInv, TableTyped
      <3> QED
        BY <3>1, <3>2 DEF Display, TypeInv, FieldsTyped, Choices
    <2>2. Draft \in Nat
      BY FewCalls
    <2> QED
      BY <1>1, <2>1, <2>2, PostTyped DEF SubmitAdjustment, TypeInv, FieldsTyped
  <1>2. CASE SubmitProduct
    <2>1. Empty \in Choices /\ 0 \in Nat
      BY DEF Choices
    <2> QED
      BY <1>2, <2>1, PostTyped DEF SubmitProduct, TypeInv, FieldsTyped
  <1>3. ASSUME NEW i \in DOMAIN calls, Work(i) \/ Answer(i) \/ LoseAnswer(i) PROVE CallsTyped'
    <2>1. calls \in Seq(Calls) /\ calls[i] \in Calls /\ Len(calls) <= MaxPosts
      BY DEF TypeInv, CallsTyped
    <2>2. PICK call \in Calls : calls' = [calls EXCEPT ![i] = call]
      <3>1. CASE Work(i)
        <4>1. PICK x \in {"done", "refused"} : calls' = [calls EXCEPT ![i].state = x]
          BY <3>1, WorkStep
        <4>2. [calls[i] EXCEPT !.state = x] \in Calls
          BY <2>1 DEF Calls
        <4> QED
          BY <4>1, <4>2
      <3>2. CASE Answer(i) \/ LoseAnswer(i)
        <4>1. PICK x \in {"given", "lost"} : calls' = [calls EXCEPT ![i].answer = x]
          BY <3>2, AnswerStep
        <4>2. [calls[i] EXCEPT !.answer = x] \in Calls
          BY <2>1 DEF Calls
        <4> QED
          BY <4>1, <4>2
      <3> QED
        BY <1>3, <3>1, <3>2
    <2>3. calls' \in Seq(Calls) /\ Len(calls') = Len(calls)
      BY <2>1, <2>2
    <2> QED
      BY <2>1, <2>3 DEF CallsTyped
  <1>4. CASE UNCHANGED calls
    BY <1>4 DEF TypeInv, CallsTyped
  <1>5. ASSUME \/ \E p \in Products : SelectProduct(p) \/ TypeProduct(p) \/ OnUpdate(p)
               \/ \E p \in New : OnProductCreated(p)
               \/ EnterQuantity \/ OpenDialog \/ CloseDialog
               \/ \E i \in timers : ClearMessage(i)
               \/ \E t \in expiries : Expire(t)
               \/ Tick \/ TableMoves
        PROVE  UNCHANGED calls
    BY <1>5 DEF SelectProduct, TypeProduct, OnUpdate, OnProductCreated, MarkChanged, EnterQuantity,
                OpenDialog, CloseDialog, ClearMessage, Expire, Tick, TableMoves
  <1> QED
    BY <1>1, <1>2, <1>3, <1>4, <1>5 DEF Next

LEMMA FieldsStep ==
    ASSUME TypeInv, Next
    PROVE  FieldsTyped'
  <1> USE DEF FieldsTyped
  <1>1. calls \in Seq(Calls) /\ Len(calls) <= MaxPosts /\ FieldsTyped
    BY DEF TypeInv, CallsTyped
  <1>2. \A i \in DOMAIN calls : i \in Posts /\ calls[i].product \in Choices
    <2>1. DOMAIN calls \subseteq Posts
      BY <1>1, PageFormsAssumption DEF Posts
    <2>2. \A i \in DOMAIN calls : calls[i] \in Calls
      BY <1>1
    <2> QED
      BY <2>1, <2>2 DEF Calls
  <1>3. Empty \in Choices /\ Products \subseteq Choices
    BY DEF Choices
  <1>4. ASSUME NEW p \in Products, SelectProduct(p) PROVE FieldsTyped'
    BY <1>1, <1>3, <1>4 DEF SelectProduct, dialog, highlight
  <1>5. CASE EnterQuantity
    BY <1>1, <1>5 DEF EnterQuantity, dialog, highlight
  <1>6. CASE SubmitAdjustment
    BY <1>1, <1>6 DEF SubmitAdjustment, Say, TimersFor, NoFeedback, dialog, highlight
  <1>7. ASSUME NEW i \in DOMAIN calls, NEW succeeded \in BOOLEAN, EndAdjustment(i, succeeded) PROVE FieldsTyped'
    <2> DEFINE message == [kind |-> IF succeeded THEN "success" ELSE "error", of |-> i]
    <2>1. message \in [kind : {"success", "error"}, of : Posts] /\ message.of \in Posts
      BY <1>2
    <2>2. feedback' = message /\ timers' = TimersFor(message)
      BY <1>7 DEF EndAdjustment, Say
    <2> HIDE DEF message
    <2>3. timers' \subseteq Posts
      BY <2>1, <2>2 DEF TimersFor
    <2>4. recording' \in BOOLEAN /\ filled' \in BOOLEAN
      BY <1>1, <1>7 DEF EndAdjustment, BusyAfter
    <2> QED
      BY <1>1, <1>7, <2>1, <2>2, <2>3, <2>4 DEF EndAdjustment, dialog, highlight
  <1>8. ASSUME NEW i \in DOMAIN calls, NEW succeeded \in BOOLEAN, EndProduct(i, succeeded) PROVE FieldsTyped'
    <2>1. fields' \in Choices /\ refusal' \in Choices
      BY <1>1, <1>2, <1>3, <1>8 DEF EndProduct
    <2>2. open' \in BOOLEAN /\ adding' \in BOOLEAN
      BY <1>1, <1>8 DEF EndProduct, BusyAfter
    <2> QED
      BY <1>1, <1>8, <2>1, <2>2 DEF EndProduct, form, highlight
  <1>9. ASSUME NEW i \in timers, ClearMessage(i) PROVE FieldsTyped'
    BY <1>1, <1>9 DEF ClearMessage, dialog, highlight
  <1>10. CASE OpenDialog \/ CloseDialog \/ SubmitProduct \/ \E p \in Products : TypeProduct(p)
    <2>1. fields' \in Choices /\ refusal' \in Choices
      BY <1>1, <1>3, <1>10 DEF OpenDialog, CloseDialog, Closed, SubmitProduct, TypeProduct
    <2>2. open' \in BOOLEAN /\ adding' \in BOOLEAN
      BY <1>1, <1>10 DEF OpenDialog, CloseDialog, Closed, SubmitProduct, TypeProduct
    <2>3. UNCHANGED <<form, changes>>
      BY <1>10 DEF OpenDialog, CloseDialog, SubmitProduct, TypeProduct, highlight
    <2> QED
      BY <1>1, <2>1, <2>2, <2>3 DEF form
  <1>11. ASSUME NEW p, OnUpdate(p) \/ OnProductCreated(p) PROVE FieldsTyped'
    <2>1. UNCHANGED <<form, dialog>> /\ changes' \in 0..MaxChanges
      BY <1>1, <1>11, PageFormsAssumption DEF OnUpdate, OnProductCreated, MarkChanged
    <2> QED
      BY <1>1, <2>1 DEF form, dialog
  <1>12. ASSUME UNCHANGED <<form, dialog, changes>> PROVE FieldsTyped'
    BY <1>1, <1>12 DEF form, dialog
  <1>13. ASSUME Tick \/ TableMoves \/ \E t \in expiries : Expire(t) PROVE FieldsTyped'
    BY <1>12, <1>13 DEF Tick, TableMoves, Expire, highlight
  <1>14. ASSUME NEW i \in DOMAIN calls, Work(i) PROVE FieldsTyped'
    BY <1>12, <1>14, WorkStep DEF highlight
  <1>15. ASSUME NEW i \in DOMAIN calls, Answer(i) \/ LoseAnswer(i) PROVE FieldsTyped'
    BY <1>7, <1>8, <1>15, AnswerStep
  <1> QED
    BY <1>4, <1>5, <1>6, <1>9, <1>10, <1>11, <1>13, <1>14, <1>15 DEF Next

LEMMA TypeStep == TypeInv /\ FormsInv /\ [Next]_vars => TypeInv'
  <1>1. ASSUME TypeInv, FormsInv, Next PROVE TypeInv'
    BY <1>1, TableStep, CallsTypedStep, FieldsStep DEF TypeInv, FormsInv
  <1>2. ASSUME TypeInv, UNCHANGED vars PROVE TypeInv'
    BY <1>2 DEF TypeInv, TableTyped, CallsTyped, FieldsTyped, vars, tableVars, form, dialog, highlight
  <1> QED
    BY <1>1, <1>2

\* Every variable has its type: the table is filled with products only, a message
\* is about a request that was sent, and each highlighted row has one timer
\* (MovementForm, AddProductDialog, useRecentlyChanged).
THEOREM PageFormsTyped == Spec => []TypeOK
  <1>1. TypeInv /\ FormsInv => TypeOK
    BY DEF TypeInv, FormsInv, HighlightInv, TypeOK, TableTyped, CallsTyped, FieldsTyped
  <1> QED
    BY <1>1, TypeInit, TypeStep, FormsInvariant, PTL DEF Spec
=============================================================================
