------------------------- MODULE OrdersSettledProofs -------------------------
(* What a request has settled stays, although every other request writes   *)
(* back all columns of the copy it has loaded: for every set of orders,    *)
(* handlers, workers, accounts, carts and edits; deletions and failures    *)
(* included.                                                               *)
EXTENDS OrdersProofs, FiniteSetTheorems

USE DEF None, Keep

(* Steps at which a handler is going to ask for, or to set, confirmed_at.  *)
Renewing == {"check", "confirm", "form"}

(* What h may write back of order o.                                       *)
Writes(h, o) == target[h] = o /\ pc[h] \notin {"confirmation", "invoice", "destroy"}

(* The copy of h is still the same, or is just read from the row, or is    *)
(* that of a create request, which sums another line.                      *)
CopyStep(h, o) ==
    \/ /\ Writes(h, o)
       /\ copy'[h] = copy[h]
       /\ pc[h] \in Renewing => pc'[h] \in Renewing
    \/ copy'[h] = row[o]
    \/ /\ Writes(h, o) /\ pc[h] = "items"
       /\ \E n \in DOMAIN cart[o] : copy[h].total = 1 .. (n - 1)
       /\ copy'[h].confirmed = copy[h].confirmed

(* Staff type an amount into the form of o.                                *)
Types(h, o) == pc[h] = "form" /\ target[h] = o /\ row'[o].total = Typed

(* The row of o is still the same, or what h makes of its copy.            *)
RowStep(h, o) ==
    /\ Writes(h, o)
    /\ row'[o].total = copy[h].total \/ Types(h, o)
    /\ \/ pc[h] \notin Renewing /\ row'[o].confirmed = copy[h].confirmed
       \/ row'[o].confirmed \in Suppliers
       \/ row'[o].confirmed = row[o].confirmed

OrderStep(o) ==
    /\ cart'[o] = cart[o]
    /\ row'[o] = row[o] \/ \E h \in Handlers : RowStep(h, o)
    /\ \A h \in Handlers : Writes(h, o)' => CopyStep(h, o)

LEMMA SameStep ==
    ASSUME NEW o \in OrderIds, UNCHANGED <<pc, target, copy, row, cart>>
    PROVE  OrderStep(o)
  BY DEF OrderStep, CopyStep, Writes

(* The last statement of h.                                                *)
LEMMA AnswerStep ==
    ASSUME TypeInv, NEW o \in OrderIds, NEW h \in Handlers, Answer(h), cart' = cart,
           row'[o] = row[o] \/ RowStep(h, o)
    PROVE  OrderStep(o)
<1>1. None # o
  BY OrdersAssumption
<1>2. /\ target' = [target EXCEPT ![h] = None]
      /\ copy' = [copy EXCEPT ![h] = NoRow]
      /\ pc' = [pc EXCEPT ![h] = "idle"]
  BY DEF Answer
<1>3. ASSUME NEW g \in Handlers, Writes(g, o)' PROVE CopyStep(g, o)
  <2>1. g # h
    BY <1>1, <1>2, <1>3 DEF Writes, TypeInv, TypeOK
  <2>2. pc'[g] = pc[g] /\ target'[g] = target[g] /\ copy'[g] = copy[g]
    BY <1>2, <2>1 DEF TypeInv, TypeOK
  <2> QED
    BY <1>3, <2>2 DEF Writes, CopyStep
<1> QED
  BY <1>3 DEF OrderStep

(* A save() of the copy of h.                                              *)
LEMMA SaveStep ==
    ASSUME TypeInv, NEW o \in OrderIds, NEW h \in Handlers, NEW r,
           pc[h] \in {"confirm", "cancel", "update", "form", "total"},
           Save(target[h], r),
           r.total = copy[h].total \/ (pc[h] = "form" /\ r.total = Typed),
           \/ pc[h] \notin Renewing /\ r.confirmed = copy[h].confirmed
           \/ r.confirmed \in Suppliers
           \/ r.confirmed = row[target[h]].confirmed
    PROVE  row'[o] = row[o] \/ RowStep(h, o)
  BY DEF Save, RowStep, Types, Writes, TypeInv, TypeOK

LEMMA LoadStep ==
    ASSUME TypeInv, NEW o \in OrderIds, NEW h \in Handlers, NEW u, NEW p \in OrderIds,
           NEW step, NEW e, Load(h, u, p, step, e)
    PROVE  OrderStep(o)
<1>1. /\ UNCHANGED <<row, cart>>
      /\ \A g \in Handlers \ {h} :
             pc'[g] = pc[g] /\ target'[g] = target[g] /\ copy'[g] = copy[g]
      /\ target'[h] = p /\ copy'[h] = row[p]
  BY DEF Load, database, history, TypeInv, TypeOK
<1> QED
  BY <1>1 DEF OrderStep, CopyStep, Writes

LEMMA EveryStep ==
    ASSUME TypeInv, TotalInv, [Next]_vars, NEW o \in OrderIds, Exists(o), Exists(o)'
    PROVE  OrderStep(o)
<1>1. CASE UNCHANGED vars
  BY <1>1, SameStep DEF vars
<1>2. CASE \E h \in Handlers : Arrive(h)
  <2> PICK h \in Handlers : Arrive(h)
    BY <1>2
  <2>1. ASSUME NEW u, NEW p \in OrderIds, NEW e,
               \/ LoadForConfirm(h, u, p)
               \/ LoadForCancel(h, u, p)
               \/ LoadForDestroy(h, u, p)
               \/ AdminOpen(h, u, p)
               \/ LoadForUpdate(h, u, p, e)
        PROVE  OrderStep(o)
    BY <2>1, LoadStep DEF LoadForConfirm, LoadForCancel, LoadForDestroy, AdminOpen,
                          LoadForUpdate
  <2>2. ASSUME NEW u, NEW c, NEW e, NEW s, BeginCreate(h, u, c, e) \/ LoadToggle(h, s)
        PROVE  OrderStep(o)
    <3>1. /\ UNCHANGED <<row, cart, target, copy>> /\ pc[h] = "idle"
          /\ \A g \in Handlers \ {h} : pc'[g] = pc[g]
      BY <2>2 DEF BeginCreate, LoadToggle, database, history, TypeInv, TypeOK
    <3> QED
      BY <3>1 DEF OrderStep, CopyStep, Writes, Renewing
  <2> QED
    BY <2>1, <2>2 DEF Arrive
<1>3. CASE \E h \in Handlers : Continue(h)
  <2> PICK h \in Handlers : Continue(h)
    BY <1>3
  <2>1. CASE InsertOrder(h)
    <3> PICK p \in OrderIds : InsertOrder(h)!(p)
      BY <2>1 DEF InsertOrder
    <3>1. p # o
      BY DEF TotalInv, Fresh, Exists
    <3>2. /\ row'[o] = row[o] /\ cart'[o] = cart[o]
          /\ \A g \in Handlers \ {h} :
                 pc'[g] = pc[g] /\ target'[g] = target[g] /\ copy'[g] = copy[g]
          /\ target'[h] = p
      BY <3>1 DEF TypeInv, TypeOK
    <3> QED
      BY <3>1, <3>2 DEF OrderStep, CopyStep, Writes
  <2>2. CASE InsertItem(h)
    <3> PICK n \in DOMAIN basket[h] : InsertItem(h)!(n)
      BY <2>2 DEF InsertItem
    <3>1. copy[h] \in Row /\ pc[h] = "items"
      BY DEF StoreLine, TypeInv, RequestShape, Holding, Placing
    <3>2. Summed(copy[h], n).confirmed = copy[h].confirmed
      BY <3>1 DEF Summed, Row
    <3>3. /\ UNCHANGED <<row, cart, target>>
          /\ \A g \in Handlers \ {h} : pc'[g] = pc[g] /\ copy'[g] = copy[g]
          /\ copy'[h].confirmed = copy[h].confirmed
      BY <3>2 DEF StoreLine, history, TypeInv, TypeOK
    <3>4. \E m \in DOMAIN cart[target[h]] : copy[h].total = 1 .. (m - 1)
      BY <3>1 DEF TotalInv, PlacingShape
    <3> QED
      BY <3>1, <3>3, <3>4 DEF OrderStep, CopyStep, Writes
  <2>3. CASE SaveTotal(h)
    <3>1. /\ UNCHANGED <<cart, target, copy>> /\ pc[h] = "total"
          /\ \A g \in Handlers \ {h} : pc'[g] = pc[g]
          /\ pc'[h] = "confirmation" /\ Save(target[h], copy[h])
      BY <2>3 DEF SaveTotal, history, TypeInv, TypeOK
    <3>2. row'[o] = row[o] \/ RowStep(h, o)
      BY <3>1, SaveStep DEF Renewing
    <3> QED
      BY <3>1, <3>2 DEF OrderStep, CopyStep, Writes
  <2>4. CASE QueueConfirmation(h)
    <3>1. /\ UNCHANGED <<row, cart, target, copy>> /\ pc'[h] = "invoice"
          /\ \A g \in Handlers \ {h} : pc'[g] = pc[g]
      BY <2>4 DEF QueueConfirmation, database, history, TypeInv, TypeOK
    <3> QED
      BY <3>1 DEF OrderStep, CopyStep, Writes
  <2>5. CASE QueueInvoice(h) \/ InsertItemFails(h) \/ SaveToggle(h)
    BY <2>5, AnswerStep DEF QueueInvoice, InsertItemFails, SaveToggle, database, history
  <2>6. CASE CheckItems(h)
    <3>1. CASE Answer(h)
      BY <2>6, <3>1, AnswerStep DEF CheckItems, database, history
    <3>2. CASE pc' = [pc EXCEPT ![h] = "confirm"] /\ UNCHANGED <<target, copy>>
      <4>1. /\ UNCHANGED <<row, cart>> /\ pc[h] = "check" /\ pc'[h] = "confirm"
            /\ \A g \in Handlers \ {h} : pc'[g] = pc[g]
        BY <2>6, <3>2 DEF CheckItems, database, history, TypeInv, TypeOK
      <4> QED
        BY <3>2, <4>1 DEF OrderStep, CopyStep, Writes, Renewing
    <3> QED
      BY <2>6, <3>1, <3>2 DEF CheckItems
  <2>7. CASE SaveConfirm(h)
    <3>1. copy[h] \in Row /\ who[h] \in Suppliers
      BY <2>7 DEF SaveConfirm, TypeInv, RequestShape, Holding
    <3>2. row'[o] = row[o] \/ RowStep(h, o)
      BY <2>7, <3>1, ConfirmedRow, SaveStep DEF SaveConfirm
    <3> QED
      BY <2>7, <3>2, AnswerStep DEF SaveConfirm, history
  <2>8. CASE SaveCancel(h)
    <3>1. copy[h] \in Row
      BY <2>8 DEF SaveCancel, TypeInv, RequestShape, Holding
    <3>2. row'[o] = row[o] \/ RowStep(h, o)
      BY <2>8, <3>1, CancelledRow, SaveStep DEF SaveCancel, Renewing
    <3> QED
      BY <2>8, <3>2, AnswerStep DEF SaveCancel, history
  <2>9. CASE SaveUpdate(h)
    <3>1. copy[h] \in Row /\ edit[h] \in Edits
      BY <2>9 DEF SaveUpdate, TypeInv, TypeOK, RequestShape, Holding
    <3>2. row'[o] = row[o] \/ RowStep(h, o)
      BY <2>9, <3>1, AppliedRow, SaveStep DEF SaveUpdate, Renewing
    <3> QED
      BY <2>9, <3>2, AnswerStep DEF SaveUpdate, history
  <2>10. CASE Delete(h)
    <3>1. target[h] # o
      BY <2>10 DEF Delete, Exists, TypeInv, TypeOK
    <3>2. row'[o] = row[o]
      BY <2>10, <3>1 DEF Delete, TypeInv, TypeOK
    <3> QED
      BY <2>10, <3>2, AnswerStep DEF Delete, history
  <2> QED
    BY <2>1, <2>2, <2>3, <2>4, <2>5, <2>6, <2>7, <2>8, <2>9, <2>10 DEF Continue
<1>4. CASE \E h \in Handlers : Submit(h)
  <2> PICK h \in Handlers : Submit(h)
    BY <1>4
  <2>1. ASSUME NEW e \in Edits, NEW t \in Amounts(h), AdminSubmit(h, e, t)
        PROVE  OrderStep(o)
    <3>1. copy[h] \in Row /\ row[target[h]] \in Row
      BY <2>1 DEF AdminSubmit, Exists, TypeInv, TypeOK, RequestShape, Holding
    <3>2. row[target[h]].confirmed \in Suppliers \cup {None}
      BY <3>1 DEF Row
    <3>3. row'[o] = row[o] \/ RowStep(h, o)
      BY <2>1, <3>1, <3>2, SubmittedRow, AmountsTyped, SaveStep DEF AdminSubmit
    <3> QED
      BY <2>1, <3>3, AnswerStep DEF AdminSubmit, history
  <2>2. CASE AdminSubmitGone(h)
    BY <2>2, AnswerStep DEF AdminSubmitGone, database, history
  <2> QED
    BY <2>1, <2>2 DEF Submit
<1>5. CASE \E h \in Handlers : HandlerFails(h)
  BY <1>5, AnswerStep DEF HandlerFails, database
<1>6. CASE \E w \in Workers : Work(w)
  BY <1>6, SameStep DEF Work, TakeTask, Take, SendMail, LoseMail, database, request,
                        history
<1> QED
  BY <1>1, <1>2, <1>3, <1>4, <1>5, <1>6 DEF Next

LEMMA TotalStep ==
    ASSUME TypeInv, TotalInv, [Next]_vars, NEW o \in OrderIds, TotalSettled(o), Exists(o)'
    PROVE  TotalSettled(o)' \/ row'[o].total = Typed
<1>1. OrderStep(o)
  BY EveryStep DEF TotalSettled
<1>2. ASSUME NEW h \in Handlers, Writes(h, o) PROVE copy[h].total = DOMAIN cart[o]
  BY <1>2 DEF TotalSettled, Writers, Writes
<1> SUFFICES ASSUME row'[o].total # Typed PROVE TotalSettled(o)'
  OBVIOUS
<1>3. row'[o].total = DOMAIN cart[o]
  BY <1>1, <1>2 DEF OrderStep, RowStep, Types, TotalSettled
<1>4. ASSUME NEW h \in Handlers, Writes(h, o)' PROVE copy'[h].total = DOMAIN cart[o]
  <2>1. CopyStep(h, o)
    BY <1>1, <1>4 DEF OrderStep
  <2>2. ~\E n \in DOMAIN cart[o] : Writes(h, o) /\ copy[h].total = 1 .. (n - 1)
    <3> SUFFICES ASSUME NEW n \in DOMAIN cart[o], Writes(h, o),
                        copy[h].total = 1 .. (n - 1)
                 PROVE  FALSE
      OBVIOUS
    <3>1. n \in Nat
      <4>1. cart[o] \in Seq(Line)
        BY OrdersAssumption DEF TypeInv, TypeOK
      <4> QED
        BY <4>1
    <3>2. n \notin 1 .. (n - 1)
      BY <3>1
    <3> QED
      BY <1>2, <3>2
  <2> QED
    BY <1>2, <2>1, <2>2 DEF CopyStep, TotalSettled
<1> QED
  BY <1>1, <1>3, <1>4 DEF TotalSettled, Writers, Writes, OrderStep

(* The total of an order, once it is saved and no request holds an older    *)
(* copy, is not changed by confirm, cancel, update, or a form that leaves   *)
(* its amount alone: only staff who type another one change it.             *)
THEOREM SettledTotalCorrect == Spec => SettledTotalStays
<1> DEFINE Stays(o) ==
        TotalSettled(o) => \/ ~Exists(o)'
                           \/ TotalSettled(o)'
                           \/ row'[o].total = Typed
<1>1. TypeInv /\ TotalInv /\ [Next]_vars => \A o \in OrderIds : Stays(o)
  BY TotalStep
<1>2. Spec => [](TypeInv /\ TotalInv)
  BY InitTyped, StepTyped, InitTotal, StepTotal, PTL DEF Spec
<1> QED
  BY <1>1, <1>2, PTL DEF Spec, SettledTotalStays

LEMMA ConfirmationStep ==
    ASSUME TypeInv, TotalInv, [Next]_vars, NEW o \in OrderIds, ConfirmationSettled(o),
           Exists(o)'
    PROVE  ConfirmationSettled(o)'
<1>1. Exists(o)
  BY DEF ConfirmationSettled, Exists, TypeInv, TypeOK, NoRow
<1>2. OrderStep(o)
  BY <1>1, EveryStep
<1>3. ASSUME NEW h \in Handlers, Writes(h, o)
      PROVE  pc[h] \in Renewing \/ copy[h].confirmed # None
  BY <1>3 DEF ConfirmationSettled, Writers, Writes, Renewing
<1>4. row'[o].confirmed # None
  BY <1>2, <1>3, OrdersAssumption DEF OrderStep, RowStep, ConfirmationSettled, Users
<1>5. ASSUME NEW h \in Handlers, Writes(h, o)'
      PROVE  pc'[h] \in Renewing \/ copy'[h].confirmed # None
  <2>1. CopyStep(h, o)
    BY <1>2, <1>5 DEF OrderStep
  <2> QED
    BY <1>3, <2>1 DEF CopyStep, ConfirmationSettled, Renewing
<1> QED
  BY <1>4, <1>5 DEF ConfirmationSettled, Writers, Writes, Renewing

(* confirmed_at of an order, once it is set and no request holds a copy     *)
(* without it, is not cleared by any later request.                         *)
THEOREM SettledConfirmationCorrect == Spec => SettledConfirmationStays
<1> DEFINE Stays(o) == ConfirmationSettled(o) => ~Exists(o)' \/ ConfirmationSettled(o)'
<1>1. TypeInv /\ TotalInv /\ [Next]_vars => \A o \in OrderIds : Stays(o)
  BY ConfirmationStep
<1>2. Spec => [](TypeInv /\ TotalInv)
  BY InitTyped, StepTyped, InitTotal, StepTotal, PTL DEF Spec
<1> QED
  BY <1>1, <1>2, PTL DEF Spec, SettledConfirmationStays

-----------------------------------------------------------------------------
(* Requests of suppliers                                                   *)

(* A request that is going to save for a supplier has seen an item of his, *)
(* which is still there.                                                   *)
TouchInv ==
    \A h \in Handlers :
        pc[h] = "confirm" \/ (pc[h] = "update" /\ who[h] \in Suppliers)
            => \E i \in items : i.order = target[h] /\ i.supplier = who[h]

(* How a request gets to these steps, or stays at them.                    *)
LEMMA TouchSteps ==
    ASSUME TypeInv, [Next]_vars, NEW h \in Handlers, pc'[h] \in {"confirm", "update"}
    PROVE  \/ pc'[h] = pc[h] /\ target'[h] = target[h] /\ who'[h] = who[h]
           \/ CheckItems(h)
           \/ \E u \in Users, o \in OrderIds, e \in Edits : LoadForUpdate(h, u, o, e)
<1> USE DEF TypeInv, TypeOK, request
<1>1. CASE UNCHANGED vars
  BY <1>1 DEF vars
<1>2. ASSUME NEW g \in Handlers, g # h,
             Arrive(g) \/ Continue(g) \/ Submit(g) \/ HandlerFails(g)
      PROVE  pc'[h] = pc[h] /\ target'[h] = target[h] /\ who'[h] = who[h]
  BY <1>2 DEF Arrive, BeginCreate, LoadForConfirm, LoadForCancel, LoadForUpdate,
        LoadForDestroy, AdminOpen, LoadToggle, Load, Continue, InsertOrder, InsertItem,
        StoreLine, InsertItemFails, SaveTotal, QueueConfirmation, QueueInvoice,
        CheckItems, SaveConfirm, SaveCancel, SaveUpdate, Delete, SaveToggle, Submit,
        AdminSubmit, AdminSubmitGone, HandlerFails, Answer
<1>3. CASE Arrive(h)
  BY <1>3 DEF Arrive, BeginCreate, LoadForConfirm, LoadForCancel, LoadForDestroy,
        AdminOpen, LoadToggle, Load
<1>4. CASE Continue(h)
  BY <1>4 DEF Continue, InsertOrder, InsertItem, StoreLine, InsertItemFails, SaveTotal,
        QueueConfirmation, QueueInvoice, SaveConfirm, SaveCancel, SaveUpdate, Delete,
        SaveToggle, Answer
<1>5. CASE Submit(h) \/ HandlerFails(h)
  BY <1>5 DEF Submit, AdminSubmit, AdminSubmitGone, HandlerFails, Answer
<1>6. ASSUME NEW w \in Workers, Work(w)
      PROVE  UNCHANGED request
  BY <1>6 DEF Work, TakeTask, Take, SendMail, LoseMail
<1> QED
  BY <1>1, <1>2, <1>3, <1>4, <1>5, <1>6 DEF Next

LEMMA StepTouch ==
    ASSUME TypeInv, LinesInv, TouchInv, [Next]_vars
    PROVE  TouchInv'
<1>1. items \subseteq items'
  <2>1. ASSUME NEW h \in Handlers, InsertOrder(h) \/ InsertItem(h)
        PROVE  items \subseteq items'
    BY <2>1 DEF InsertOrder, InsertItem, StoreLine
  <2> QED
    BY <2>1, DataSteps
<1> SUFFICES ASSUME NEW h \in Handlers,
                    pc'[h] = "confirm" \/ (pc'[h] = "update" /\ who'[h] \in Suppliers)
             PROVE  \E i \in items' : i.order = target'[h] /\ i.supplier = who'[h]
  BY DEF TouchInv
<1>2. CASE pc'[h] = pc[h] /\ target'[h] = target[h] /\ who'[h] = who[h]
  BY <1>1, <1>2 DEF TouchInv
<1>3. CASE CheckItems(h)
  BY <1>1, <1>3 DEF CheckItems, Answer, ItemsOf, TypeInv, TypeOK
<1>4. ASSUME NEW u \in Users, NEW o \in OrderIds, NEW e \in Edits,
             LoadForUpdate(h, u, o, e)
      PROVE  \E i \in items' : i.order = target'[h] /\ i.supplier = who'[h]
  BY <1>1, <1>4 DEF LoadForUpdate, Load, Visible, ItemsOf, TypeInv, TypeOK
<1> QED
  BY <1>2, <1>3, <1>4, TouchSteps

(* The row of another order is not written by the step that ends the       *)
(* request.                                                                *)
LEMMA LastStep ==
    ASSUME TypeInv, [Next]_vars, NEW h \in Handlers, pc[h] \in {"confirm", "update"},
           pc'[h] = "idle", NEW o \in OrderIds, row'[o] # row[o]
    PROVE  target[h] = o
<1> USE DEF TypeInv, TypeOK
<1>1. CASE UNCHANGED vars
  BY <1>1 DEF vars
<1>2. ASSUME NEW g \in Handlers, g # h,
             Arrive(g) \/ Continue(g) \/ Submit(g) \/ HandlerFails(g)
      PROVE  pc'[h] = pc[h]
  BY <1>2 DEF Arrive, BeginCreate, LoadForConfirm, LoadForCancel, LoadForUpdate,
        LoadForDestroy, AdminOpen, LoadToggle, Load, Continue, InsertOrder, InsertItem,
        StoreLine, InsertItemFails, SaveTotal, QueueConfirmation, QueueInvoice,
        CheckItems, SaveConfirm, SaveCancel, SaveUpdate, Delete, SaveToggle, Submit,
        AdminSubmit, AdminSubmitGone, HandlerFails, Answer
<1>3. CASE Arrive(h)
  BY <1>3 DEF Arrive, BeginCreate, LoadForConfirm, LoadForCancel, LoadForUpdate,
        LoadForDestroy, AdminOpen, LoadToggle, Load
<1>4. CASE Continue(h)
  BY <1>4 DEF Continue, InsertOrder, InsertItem, StoreLine, InsertItemFails, SaveTotal,
        QueueConfirmation, QueueInvoice, CheckItems, SaveConfirm, SaveCancel, SaveUpdate,
        Delete, SaveToggle, Save
<1>5. CASE Submit(h) \/ HandlerFails(h)
  BY <1>5 DEF Submit, AdminSubmit, AdminSubmitGone, HandlerFails, database
<1>6. ASSUME NEW w \in Workers, Work(w)
      PROVE  pc' = pc
  BY <1>6 DEF Work, TakeTask, Take, SendMail, LoseMail, request
<1> QED
  BY <1>1, <1>2, <1>3, <1>4, <1>5, <1>6 DEF Next

(* While nobody deletes orders, a supplier changes only orders that have an *)
(* item of his when the row is written, not just when it was loaded.        *)
THEOREM SuppliersCorrect ==
    ASSUME "destroy" \notin Ops
    PROVE  Spec => SuppliersTouchOnlyTheirOrders
<1> DEFINE Touch(h, o) ==
        (/\ who[h] \in Suppliers /\ pc[h] \in {"confirm", "update"}
         /\ pc'[h] = "idle" /\ row'[o] # row[o])
            => \E i \in ItemsOf(o) : i.supplier = who[h]
<1> DEFINE I == TypeInv /\ TotalInv /\ LinesInv /\ TouchInv
<1>1. Init => TouchInv
  BY DEF Init, TouchInv
<1>2. I /\ [Next]_vars => I'
  BY StepTyped, StepTotal, StepStored, StepBilled, StepTasks, StepTouch DEF LinesInv
<1>3. I /\ [Next]_vars => \A h \in Handlers, o \in OrderIds : Touch(h, o)
  <2> SUFFICES ASSUME I, [Next]_vars, NEW h \in Handlers, NEW o \in OrderIds,
                      who[h] \in Suppliers, pc[h] \in {"confirm", "update"},
                      pc'[h] = "idle", row'[o] # row[o]
               PROVE  \E i \in ItemsOf(o) : i.supplier = who[h]
    OBVIOUS
  <2>1. target[h] = o
    BY LastStep
  <2> QED
    BY <2>1 DEF TouchInv, ItemsOf
<1> QED
  BY <1>1, <1>2, <1>3, InitTyped, InitTotal, InitLines, PTL
     DEF Spec, SuppliersTouchOnlyTheirOrders

-----------------------------------------------------------------------------
(* Requests that are never about the same order at the same time, as if    *)
(* each of them held a lock on its order, open admin forms included.       *)

OneRequestPerOrder ==
    \A g, h \in Handlers : target[g] = target[h] /\ target[g] # None => g = h

(* A copy is the row, or the row with the lines summed so far; cancel has  *)
(* seen that the order is not shipped; and who holds no order has none.    *)
Current(h) ==
    /\ pc[h] \notin Holding => target[h] = None
    /\ pc[h] \in Holding \ Placing => copy[h] = row[target[h]]
    /\ pc[h] \in {"items", "total"} =>
           /\ row[target[h]].total = {}
           /\ row[target[h]].confirmed = None /\ copy[h].confirmed = None
    /\ pc[h] = "cancel" => copy[h].status \notin Sent

CurrentInv == \A h \in Handlers : Current(h)

LEMMA InitCurrent == Init => CurrentInv
  BY DEF Init, CurrentInv, Current, Holding, Placing

(* A step of one request leaves the others as they are, and their orders.  *)
LEMMA OthersCurrent ==
    ASSUME TypeInv, CurrentInv, NEW g \in Handlers, Current(g)',
           \A h \in Handlers \ {g} :
               /\ pc'[h] = pc[h] /\ target'[h] = target[h] /\ copy'[h] = copy[h]
               /\ target[h] # None => row'[target[h]] = row[target[h]]
    PROVE  CurrentInv'
<1> SUFFICES ASSUME NEW h \in Handlers, h # g PROVE Current(h)'
  BY DEF CurrentInv
<1>1. pc[h] \in Holding => target[h] # None
  BY OrdersAssumption DEF TypeInv, RequestShape
<1> QED
  BY <1>1 DEF CurrentInv, Current, Holding, Placing

LEMMA AnswerCurrent ==
    ASSUME TypeInv, CurrentInv, OneRequestPerOrder, NEW g \in Handlers, Answer(g),
           \A o \in OrderIds \ {target[g]} : row'[o] = row[o]
    PROVE  CurrentInv'
<1>1. /\ \A h \in Handlers \ {g} :
             pc'[h] = pc[h] /\ target'[h] = target[h] /\ copy'[h] = copy[h]
      /\ pc'[g] = "idle" /\ target'[g] = None
  BY DEF Answer, TypeInv, TypeOK
<1>2. Current(g)'
  BY <1>1 DEF Current, Holding, Placing
<1>3. ASSUME NEW h \in Handlers \ {g}, target[h] # None
      PROVE  row'[target[h]] = row[target[h]]
  BY <1>3 DEF OneRequestPerOrder, TypeInv, TypeOK
<1> QED
  BY <1>1, <1>2, <1>3, OthersCurrent

LEMMA ArriveCurrent ==
    ASSUME TypeInv, CurrentInv, NEW g \in Handlers, Arrive(g)
    PROVE  CurrentInv'
<1>1. ASSUME NEW u, NEW o \in OrderIds, NEW e, NEW step,
             Load(g, u, o, step, e), step \in Holding \ Placing,
             step = "cancel" => row[o].status \notin Sent
      PROVE  CurrentInv'
  <2>1. /\ \A h \in Handlers \ {g} :
               pc'[h] = pc[h] /\ target'[h] = target[h] /\ copy'[h] = copy[h]
        /\ pc'[g] = step /\ target'[g] = o /\ copy'[g] = row[o] /\ row' = row
    BY <1>1 DEF Load, database, TypeInv, TypeOK
  <2>2. Current(g)'
    BY <1>1, <2>1 DEF Current, Placing
  <2> QED
    BY <2>1, <2>2, OthersCurrent
<1>2. ASSUME NEW u, NEW c, NEW e, NEW s, BeginCreate(g, u, c, e) \/ LoadToggle(g, s)
      PROVE  CurrentInv'
  <2>1. /\ \A h \in Handlers \ {g} : pc'[h] = pc[h]
        /\ pc[g] = "idle" /\ pc'[g] \in {"order", "start", "stop"}
        /\ UNCHANGED <<row, target, copy>>
    BY <1>2 DEF BeginCreate, LoadToggle, database, TypeInv, TypeOK
  <2>2. Current(g)'
    BY <2>1 DEF Current, CurrentInv, Holding, Placing
  <2> QED
    BY <2>1, <2>2, OthersCurrent
<1> QED
  BY <1>1, <1>2
     DEF Arrive, LoadForConfirm, LoadForCancel, LoadForDestroy, AdminOpen,
         LoadForUpdate, Holding, Placing

LEMMA ContinueCurrent ==
    ASSUME TypeInv, TotalInv, CurrentInv, OneRequestPerOrder,
           NEW g \in Handlers, Continue(g)
    PROVE  CurrentInv'
<1>1. CASE InsertOrder(g)
  <2> PICK o \in OrderIds : InsertOrder(g)!(o)
    BY <1>1 DEF InsertOrder
  <2>1. /\ \A h \in Handlers \ {g} :
               pc'[h] = pc[h] /\ target'[h] = target[h] /\ copy'[h] = copy[h]
        /\ pc'[g] = "items" /\ target'[g] = o /\ copy'[g] = NewRow(g)
        /\ row'[o] = NewRow(g)
        /\ \A p \in OrderIds \ {o} : row'[p] = row[p]
    BY DEF TypeInv, TypeOK
  <2>2. NewRow(g).total = {} /\ NewRow(g).confirmed = None
    BY DEF NewRow
  <2>3. Current(g)'
    BY <2>1, <2>2 DEF Current, Holding, Placing
  <2>4. \A h \in Handlers : target[h] # o
    BY DEF TotalInv, Fresh
  <2>5. ASSUME NEW h \in Handlers \ {g}, target[h] # None
        PROVE  row'[target[h]] = row[target[h]]
    BY <2>1, <2>4, <2>5 DEF TypeInv, TypeOK
  <2> QED
    BY <2>1, <2>3, <2>5, OthersCurrent
<1>2. CASE InsertItem(g)
  <2> PICK n \in DOMAIN basket[g] : InsertItem(g)!(n)
    BY <1>2 DEF InsertItem
  <2>1. copy[g] \in Row /\ pc[g] = "items"
    BY DEF StoreLine, TypeInv, RequestShape, Holding, Placing
  <2>2. Summed(copy[g], n).confirmed = copy[g].confirmed
    BY <2>1 DEF Summed, Row
  <2>3. /\ \A h \in Handlers \ {g} : pc'[h] = pc[h] /\ copy'[h] = copy[h]
        /\ pc'[g] \in {"items", "total"} /\ UNCHANGED <<row, target>>
        /\ copy'[g].confirmed = copy[g].confirmed
    BY <2>2 DEF StoreLine, TypeInv, TypeOK
  <2>4. Current(g)'
    BY <2>1, <2>3 DEF Current, CurrentInv, Holding, Placing
  <2> QED
    BY <2>3, <2>4, OthersCurrent
<1>3. CASE SaveTotal(g) \/ QueueConfirmation(g)
  <2>1. /\ \A h \in Handlers \ {g} : pc'[h] = pc[h]
        /\ pc'[g] \in {"confirmation", "invoice"} /\ UNCHANGED <<target, copy>>
        /\ \A o \in OrderIds \ {target[g]} : row'[o] = row[o]
    BY <1>3 DEF SaveTotal, QueueConfirmation, Save, database, TypeInv, TypeOK
  <2>2. Current(g)'
    BY <2>1 DEF Current, Holding, Placing
  <2>3. ASSUME NEW h \in Handlers \ {g}, target[h] # None
        PROVE  row'[target[h]] = row[target[h]]
    BY <2>1, <2>3 DEF OneRequestPerOrder, TypeInv, TypeOK
  <2> QED
    BY <2>1, <2>2, <2>3, OthersCurrent
<1>4. CASE CheckItems(g) /\ ~Answer(g)
  <2>1. /\ \A h \in Handlers \ {g} : pc'[h] = pc[h]
        /\ pc[g] = "check" /\ pc'[g] = "confirm" /\ UNCHANGED <<row, target, copy>>
    BY <1>4 DEF CheckItems, database, TypeInv, TypeOK
  <2>2. Current(g)'
    BY <2>1 DEF Current, CurrentInv, Holding, Placing
  <2> QED
    BY <2>1, <2>2, OthersCurrent
<1>5. CASE /\ Answer(g)
           /\ \/ InsertItemFails(g) \/ QueueInvoice(g) \/ CheckItems(g)
              \/ SaveToggle(g) \/ SaveConfirm(g) \/ SaveCancel(g)
              \/ SaveUpdate(g) \/ Delete(g)
  <2>1. \A o \in OrderIds \ {target[g]} : row'[o] = row[o]
    BY <1>5
       DEF InsertItemFails, QueueInvoice, CheckItems, SaveToggle, SaveConfirm,
           SaveCancel, SaveUpdate, Delete, Save, database, TypeInv, TypeOK
  <2> QED
    BY <1>5, <2>1, AnswerCurrent
<1> QED
  BY <1>1, <1>2, <1>3, <1>4, <1>5
     DEF Continue, InsertItemFails, QueueInvoice, SaveToggle, SaveConfirm,
         SaveCancel, SaveUpdate, Delete

LEMMA StepCurrent ==
    TypeInv /\ TotalInv /\ CurrentInv /\ OneRequestPerOrder /\ [Next]_vars
        => CurrentInv'
<1> SUFFICES ASSUME TypeInv, TotalInv, CurrentInv, OneRequestPerOrder, [Next]_vars
             PROVE  CurrentInv'
  OBVIOUS
<1>1. ASSUME NEW h \in Handlers, Arrive(h) PROVE CurrentInv'
  BY <1>1, ArriveCurrent
<1>2. ASSUME NEW h \in Handlers, Continue(h) PROVE CurrentInv'
  BY <1>2, ContinueCurrent
<1>3. ASSUME NEW h \in Handlers, Submit(h) \/ HandlerFails(h) PROVE CurrentInv'
  <2>1. Answer(h) /\ \A o \in OrderIds \ {target[h]} : row'[o] = row[o]
    BY <1>3
       DEF Submit, AdminSubmit, AdminSubmitGone, HandlerFails, Save, database,
           TypeInv, TypeOK
  <2> QED
    BY <2>1, AnswerCurrent
<1>4. CASE UNCHANGED vars \/ \E w \in Workers : Work(w)
  <2>1. UNCHANGED <<row, pc, target, copy>>
    BY <1>4
       DEF vars, Work, TakeTask, Take, SendMail, LoseMail, database, request
  <2> QED
    BY <2>1 DEF CurrentInv, Current
<1> QED
  BY <1>1, <1>2, <1>3, <1>4 DEF Next

LEMMA AlwaysCurrent ==
    Spec /\ []OneRequestPerOrder => [](TypeInv /\ TotalInv /\ CurrentInv)
<1>1. Spec => [](TypeInv /\ TotalInv)
  BY InitTyped, StepTyped, InitTotal, StepTotal, PTL DEF Spec
<1> QED
  BY <1>1, InitCurrent, StepCurrent, PTL DEF Spec

(* Where no two requests are about one order, cancel keeps what it says:   *)
(* the cancelled shipment is a race of two requests and nothing else.      *)
THEOREM LoneCancelCorrect ==
    Spec /\ []OneRequestPerOrder => CancelRespectsShipment
<1>1. CurrentInv =>
          \A h \in Handlers, o \in OrderIds :
              (/\ pc[h] = "cancel" /\ target[h] = o
               /\ row[o].status \in Sent)
                  => row'[o].status # "cancelled"
  BY DEF CurrentInv, Current, Holding, Placing
<1> QED
  BY <1>1, AlwaysCurrent, PTL DEF CancelRespectsShipment

(* A confirmed_at that is set is settled at once.                          *)
LEMMA SettledAtOnce ==
    ASSUME TypeInv, CurrentInv, NEW o \in OrderIds, row[o].confirmed # None
    PROVE  ConfirmationSettled(o)
<1>1. ASSUME NEW h \in Writers(o), pc[h] \notin {"check", "confirm", "form"}
      PROVE  copy[h].confirmed # None
  <2>1. pc[h] \in Holding /\ pc[h] \notin {"items", "total"}
    BY <1>1, OrdersAssumption
       DEF Writers, CurrentInv, Current, Holding, Placing, TypeInv, TypeOK
  <2> QED
    BY <1>1, <2>1 DEF Writers, CurrentInv, Current, Holding, Placing
<1> QED
  BY <1>1 DEF ConfirmationSettled

(* What a request writes back of an order with a total is that total.      *)
LEMMA CopiesShown ==
    ASSUME TypeInv, CurrentInv, NEW o \in OrderIds, row[o].total # {},
           NEW h \in Handlers, Writes(h, o)
    PROVE  copy[h].total = row[o].total
<1>1. pc[h] \in Holding /\ pc[h] \notin {"items", "total"}
  BY OrdersAssumption
     DEF Writes, CurrentInv, Current, Holding, Placing, TypeInv, TypeOK
<1> QED
  BY <1>1 DEF Writes, CurrentInv, Current, Holding, Placing

(* Where no two requests are about one order, confirmed_at of an order is  *)
(* never lost while it exists, and a total changes only when staff type    *)
(* another amount into its form: nothing else writes anything but what is  *)
(* there.                                                                  *)
THEOREM LoneRequestKeeps ==
    Spec /\ []OneRequestPerOrder =>
        [][\A o \in OrderIds : Exists(o)' =>
              /\ row[o].total # {} => \/ row'[o].total = row[o].total
                                      \/ \E h \in Handlers : Types(h, o)
              /\ row[o].confirmed # None => row'[o].confirmed # None]_vars
<1> DEFINE Keeps(o) ==
        Exists(o)' => /\ row[o].total # {} => \/ row'[o].total = row[o].total
                                              \/ \E h \in Handlers : Types(h, o)
                      /\ row[o].confirmed # None => row'[o].confirmed # None
<1>1. ASSUME TypeInv, TotalInv, CurrentInv, [Next]_vars, NEW o \in OrderIds, Exists(o)'
      PROVE  /\ row[o].total # {} => \/ row'[o].total = row[o].total
                                     \/ \E h \in Handlers : Types(h, o)
             /\ row[o].confirmed # None => row'[o].confirmed # None
  <2>1. ASSUME row[o].total # {}
        PROVE  row'[o].total = row[o].total \/ \E h \in Handlers : Types(h, o)
    <3>1. Exists(o)
      BY <2>1 DEF Exists, NoRow
    <3>2. OrderStep(o)
      BY <1>1, <3>1, EveryStep
    <3> QED
      BY <1>1, <2>1, <3>2, CopiesShown DEF OrderStep, RowStep
  <2>2. ASSUME row[o].confirmed # None PROVE row'[o].confirmed # None
    <3>1. ConfirmationSettled(o)'
      BY <1>1, <2>2, SettledAtOnce, ConfirmationStep
    <3> QED
      BY <3>1 DEF ConfirmationSettled
  <2> QED
    BY <2>1, <2>2
<1>2. TypeInv /\ TotalInv /\ CurrentInv /\ [Next]_vars
          => \A o \in OrderIds : Keeps(o)
  BY <1>1
<1>3. Spec => [][Next]_vars
  BY PTL DEF Spec
<1> QED
  BY <1>2, <1>3, AlwaysCurrent, PTL

-----------------------------------------------------------------------------
(* How long a request takes.                                               *)

(* The lines a create request has still to store, and the statements that  *)
(* come besides.                                                           *)
LinesLeft(h) ==
    IF pc[h] = "order" THEN DOMAIN basket[h]
    ELSE IF pc[h] = "items" THEN DOMAIN basket[h] \ copy[h].total
    ELSE {}

Besides ==
    [idle |-> 0, order |-> 4, items |-> 3, total |-> 3, confirmation |-> 2,
     invoice |-> 1, check |-> 2, confirm |-> 1, cancel |-> 1, update |-> 1,
     destroy |-> 1, form |-> 1, stop |-> 1, start |-> 1]

Left(h) == Besides[pc[h]] + Cardinality(LinesLeft(h))

LEMMA BesidesIs ==
    /\ \A step \in Holding \cup {"order", "stop", "start"} : Besides[step] \in Nat \ {0}
    /\ Besides["idle"] = 0 /\ Besides["order"] = 4 /\ Besides["items"] = 3
    /\ Besides["total"] = 3 /\ Besides["confirmation"] = 2 /\ Besides["invoice"] = 1
    /\ Besides["check"] = 2 /\ Besides["confirm"] = 1
  BY DEF Besides, Holding, Placing

LEMMA LeftTyped ==
    ASSUME TypeInv, NEW h \in Handlers
    PROVE  /\ IsFiniteSet(LinesLeft(h))
           /\ Cardinality(LinesLeft(h)) \in Nat
           /\ Left(h) \in Nat
           /\ pc[h] # "idle" => Left(h) > 0
<1>1. basket[h] \in Seq(Line)
  <2>1. basket[h] \in Carts \/ basket[h] = <<>>
    BY DEF TypeInv, TypeOK
  <2>2. <<>> \in Seq(Line)
    OBVIOUS
  <2> QED
    BY <2>1, <2>2, OrdersAssumption
<1>2. IsFiniteSet(DOMAIN basket[h])
  BY <1>1, FS_Interval
<1>3. IsFiniteSet(LinesLeft(h))
  BY <1>2, FS_Subset, FS_EmptySet DEF LinesLeft
<1>4. Cardinality(LinesLeft(h)) \in Nat
  BY <1>3, FS_CardinalityType
<1>5. pc[h] \in Holding \cup {"idle", "order", "stop", "start"}
  BY DEF TypeInv, TypeOK
<1> QED
  BY <1>3, <1>4, <1>5, BesidesIs DEF Left

LEMMA AnswerShrinks ==
    ASSUME TypeInv, NEW h \in Handlers, Answer(h), pc[h] # "idle"
    PROVE  Left(h)' < Left(h)
<1>1. pc'[h] = "idle"
  BY DEF Answer, TypeInv, TypeOK
<1>2. LinesLeft(h)' = {}
  BY <1>1 DEF LinesLeft
<1>3. Left(h)' = 0
  BY <1>1, <1>2, BesidesIs, FS_EmptySet DEF Left
<1> QED
  BY <1>3, LeftTyped

LEMMA InsertItemShrinks ==
    ASSUME TypeInv, TypeInv', NEW h \in Handlers, InsertItem(h)
    PROVE  Left(h)' < Left(h)
<1> PICK n \in DOMAIN basket[h] :
        /\ StoreLine(h, n)
        /\ pc' = [pc EXCEPT ![h] = IF n = Len(basket[h]) THEN "total" ELSE "items"]
  BY DEF InsertItem
<1>1. basket[h] \in Seq(Line) /\ n \in Nat \ {0} /\ DOMAIN basket[h] = 1 .. Len(basket[h])
  BY OrdersAssumption DEF TypeInv, TypeOK
<1>2. /\ pc[h] = "items" /\ copy[h].total = 1 .. (n - 1)
      /\ copy' = [copy EXCEPT ![h] = Summed(copy[h], n)] /\ basket' = basket
      /\ copy[h] \in Row
  BY DEF StoreLine, TypeInv, RequestShape, Holding, Placing
<1>3. copy'[h].total = 1 .. n
  BY <1>1, <1>2, SummedRow DEF TypeInv, TypeOK
<1> DEFINE S == LinesLeft(h)
<1>4. S = DOMAIN basket[h] \ (1 .. (n - 1)) /\ n \in S
  BY <1>1, <1>2 DEF LinesLeft
<1>5. IsFiniteSet(S) /\ Cardinality(S) \in Nat
  BY LeftTyped
<1>6. Cardinality(S \ {n}) = Cardinality(S) - 1 /\ Cardinality(S \ {n}) \in Nat
  <2>1. IsFiniteSet(S \ {n})
    BY <1>5, FS_Subset
  <2>2. Cardinality(S \ {n}) = Cardinality(S) - 1
    BY <1>4, <1>5, FS_RemoveElement
  <2> QED
    BY <2>1, <2>2, FS_CardinalityType
<1>7. CASE n = Len(basket[h])
  <2>1. pc'[h] = "total" /\ LinesLeft(h)' = {}
    BY <1>7 DEF LinesLeft, TypeInv, TypeOK
  <2>2. Left(h)' = 3
    BY <2>1, BesidesIs, FS_EmptySet DEF Left
  <2>3. Left(h) = 3 + Cardinality(S)
    BY <1>2, BesidesIs DEF Left
  <2> QED
    BY <1>5, <1>6, <2>2, <2>3
<1>8. CASE n # Len(basket[h])
  <2>1. pc'[h] = "items"
    BY <1>8 DEF TypeInv, TypeOK
  <2>2. LinesLeft(h)' = DOMAIN basket[h] \ (1 .. n)
    BY <1>2, <1>3, <2>1 DEF LinesLeft
  <2>3. LinesLeft(h)' = S \ {n}
    <3>1. \A k : k \in 1 .. n <=> k \in 1 .. (n - 1) \/ k = n
      BY <1>1
    <3> QED
      BY <1>4, <2>2, <3>1
  <2>4. Left(h)' = 3 + Cardinality(S \ {n}) /\ Left(h) = 3 + Cardinality(S)
    BY <1>2, <2>1, <2>3, BesidesIs DEF Left
  <2> QED
    BY <1>5, <1>6, <2>4
<1> QED
  BY <1>7, <1>8

LEMMA InsertOrderShrinks ==
    ASSUME TypeInv, TypeInv', NEW h \in Handlers, InsertOrder(h)
    PROVE  Left(h)' < Left(h)
<1>1. /\ pc[h] = "order" /\ pc'[h] = "items" /\ basket' = basket
      /\ copy'[h].total = {}
  BY DEF InsertOrder, NewRow, TypeInv, TypeOK
<1>2. LinesLeft(h)' = LinesLeft(h)
  BY <1>1 DEF LinesLeft
<1>3. /\ Left(h)' = 3 + Cardinality(LinesLeft(h))
      /\ Left(h) = 4 + Cardinality(LinesLeft(h))
  BY <1>1, <1>2, BesidesIs DEF Left
<1> QED
  BY <1>3, LeftTyped

(* A statement of a request that stores no line.                           *)
LEMMA StatementShrinks ==
    ASSUME TypeInv, NEW h \in Handlers,
           \/ pc[h] = "total" /\ pc'[h] = "confirmation"
           \/ pc[h] = "confirmation" /\ pc'[h] = "invoice"
           \/ pc[h] = "check" /\ pc'[h] = "confirm"
    PROVE  Left(h)' < Left(h)
<1>1. LinesLeft(h) = {} /\ LinesLeft(h)' = {}
  BY DEF LinesLeft
<1> QED
  BY <1>1, BesidesIs, FS_EmptySet DEF Left

LEMMA OwnShrinks ==
    ASSUME TypeInv, TypeInv', NEW h \in Handlers,
           Continue(h) \/ Submit(h) \/ HandlerFails(h)
    PROVE  Left(h)' < Left(h)
<1>1. CASE Answer(h)
  <2>1. pc[h] # "idle"
    BY DEF Continue, InsertOrder, InsertItem, StoreLine, InsertItemFails, SaveTotal,
           QueueConfirmation, QueueInvoice, CheckItems, SaveConfirm, SaveCancel,
           SaveUpdate, Delete, SaveToggle, Submit, AdminSubmit, AdminSubmitGone,
           HandlerFails
  <2> QED
    BY <1>1, <2>1, AnswerShrinks
<1>2. CASE SaveTotal(h) \/ QueueConfirmation(h) \/ CheckItems(h)
  BY <1>1, <1>2, StatementShrinks
     DEF SaveTotal, QueueConfirmation, CheckItems, TypeInv, TypeOK
<1> QED
  BY <1>1, <1>2, InsertOrderShrinks, InsertItemShrinks
     DEF Continue, InsertItemFails, QueueInvoice, SaveConfirm, SaveCancel, SaveUpdate,
         Delete, SaveToggle, Submit, AdminSubmit, AdminSubmitGone, HandlerFails

(* A request runs through a bounded number of statements, a create request *)
(* of n lines through n + 4: each of its steps leaves it fewer, and nobody *)
(* else's step gives it more.  RequestsEnd adds that it takes them.        *)
THEOREM RequestsShrink ==
    Spec => /\ [](\A h \in Handlers : Left(h) \in Nat)
            /\ [][\A h \in Handlers :
                      pc[h] # "idle" =>
                          \/ Left(h)' < Left(h)
                          \/ UNCHANGED <<pc[h], target[h], copy[h], basket[h]>>]_vars
<1> DEFINE Shrinks(h) ==
        pc[h] # "idle" => \/ Left(h)' < Left(h)
                          \/ UNCHANGED <<pc[h], target[h], copy[h], basket[h]>>
<1>1. TypeInv /\ TypeInv' /\ [Next]_vars => \A h \in Handlers : Shrinks(h)
  <2> SUFFICES ASSUME TypeInv, TypeInv', [Next]_vars, NEW h \in Handlers, pc[h] # "idle",
                      ~(Left(h)' < Left(h))
               PROVE  UNCHANGED <<pc[h], target[h], copy[h], basket[h]>>
    OBVIOUS
  <2> USE DEF TypeInv, TypeOK, database, celery, history, request
  <2>1. ASSUME NEW g \in Handlers, Arrive(g)
        PROVE  UNCHANGED <<pc[h], target[h], copy[h], basket[h]>>
    BY <2>1 DEF Arrive, BeginCreate, LoadForConfirm, LoadForCancel, LoadForUpdate,
                LoadForDestroy, AdminOpen, LoadToggle, Load
  <2>2. ASSUME NEW g \in Handlers \ {h}, Continue(g)
        PROVE  UNCHANGED <<pc[h], target[h], copy[h], basket[h]>>
    BY <2>2 DEF Continue, InsertOrder, InsertItem, StoreLine, InsertItemFails,
                SaveTotal, QueueConfirmation, QueueInvoice, CheckItems, SaveConfirm,
                SaveCancel, SaveUpdate, Delete, SaveToggle, Answer
  <2>3. ASSUME NEW g \in Handlers \ {h}, Submit(g) \/ HandlerFails(g)
        PROVE  UNCHANGED <<pc[h], target[h], copy[h], basket[h]>>
    BY <2>3 DEF Submit, AdminSubmit, AdminSubmitGone, HandlerFails, Answer
  <2>4. ASSUME NEW w \in Workers, Work(w)
        PROVE  UNCHANGED <<pc[h], target[h], copy[h], basket[h]>>
    BY <2>4 DEF Work, TakeTask, Take, SendMail, LoseMail
  <2> QED
    BY <2>1, <2>2, <2>3, <2>4, OwnShrinks DEF Next, vars
<1>2. TypeInv => \A h \in Handlers : Left(h) \in Nat
  BY LeftTyped
<1>3. Spec => []TypeInv
  BY TypeCorrect, PTL DEF TypeInv
<1>4. Spec => [][Next]_vars
  BY PTL DEF Spec
<1> QED
  BY <1>1, <1>2, <1>3, <1>4, PTL
=============================================================================
