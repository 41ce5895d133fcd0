---------------------------- MODULE OrdersProofs ----------------------------
(* Theorems about Orders, for every set of orders, handlers, workers,      *)
(* accounts, carts and edits.                                              *)
EXTENDS Orders, TLAPS

(* What a request in the middle of its statements holds: a create request  *)
(* its cart, any other an order and a row that has been in the table.      *)
RequestShape ==
    \A h \in Handlers :
        /\ pc[h] = "order" => who[h] \in Users
        /\ pc[h] \in {"order", "items"} => basket[h] \in Carts
        /\ pc[h] \in {"check", "confirm"} => who[h] \in Suppliers
        /\ pc[h] \in Holding => target[h] \in OrderIds /\ copy[h] \in Row

TypeInv == TypeOK /\ RequestShape

USE DEF None, Keep

LEMMA InitTyped == Init => TypeInv
BY OrdersAssumption, EditsAssumption
   DEF Init, TypeInv, TypeOK, RequestShape, Row, NoRow, SeededRow, NoEdit, NoJob,
       Holding, Placing, Users, Statuses

(* What the handlers make of a loaded row is a row again, and only the     *)
(* fields they name change.                                                *)
LEMMA SummedRow ==
    ASSUME NEW r \in Row, NEW n \in Nat
    PROVE  Summed(r, n) \in Row /\ Summed(r, n).total = 1 .. n
<1>1. 1 .. n \subseteq Nat
  OBVIOUS
<1> QED
  BY <1>1 DEF Summed, Row

LEMMA ConfirmedRow ==
    ASSUME NEW r \in Row, NEW s \in Suppliers
    PROVE  /\ Confirmed(r, s) \in Row
           /\ Confirmed(r, s).total = r.total
           /\ Confirmed(r, s).confirmed = s
BY DEF Confirmed, Row, Statuses

LEMMA CancelledRow ==
    ASSUME NEW r \in Row
    PROVE  /\ Cancelled(r) \in Row
           /\ Cancelled(r).total = r.total
           /\ Cancelled(r).confirmed = r.confirmed
BY DEF Cancelled, Row, Statuses

LEMMA AppliedRow ==
    ASSUME NEW r \in Row, NEW e \in Edits
    PROVE  /\ Apply(r, e) \in Row
           /\ Apply(r, e).total = r.total
           /\ Apply(r, e).confirmed = r.confirmed
BY EditsAssumption DEF Apply, Row

LEMMA SubmittedRow ==
    ASSUME NEW r \in Row, NEW e \in Edits, NEW t \in SUBSET Nat,
           NEW s \in Suppliers \cup {None}
    PROVE  /\ Submitted(r, e, t, s) \in Row
           /\ Submitted(r, e, t, s).total = t
           /\ Submitted(r, e, t, s).confirmed = s
BY AppliedRow DEF Submitted, Row

(* The form is sent with the amount it was rendered with or a typed one.   *)
LEMMA AmountsTyped ==
    ASSUME NEW h \in Handlers, NEW t \in Amounts(h), copy[h] \in Row
    PROVE  t \in SUBSET Nat /\ t \in {copy[h].total, Typed}
BY DEF Amounts, Typed, Row

(* The variables of a request that has just been answered. *)
LEMMA AnswerTyped ==
    ASSUME TypeInv, NEW h \in Handlers, Answer(h)
    PROVE  /\ pc' \in [Handlers -> Holding \cup {"idle", "order", "stop", "start"}]
           /\ who' \in [Handlers -> Users \cup {None}]
           /\ target' \in [Handlers -> OrderIds \cup {None}]
           /\ copy' \in [Handlers -> Row \cup {NoRow}]
           /\ basket' \in [Handlers -> Carts \cup {<<>>}]
           /\ edit' \in [Handlers -> Edits]
           /\ RequestShape'
BY OrdersAssumption DEF TypeInv, TypeOK, RequestShape, Answer, Holding, Placing

LEMMA LoadTyped ==
    ASSUME TypeInv, NEW h \in Handlers, NEW u \in Users, NEW o \in OrderIds,
           NEW e \in Edits, NEW step \in {"check", "cancel", "update", "destroy", "form"},
           step = "check" => u \in Suppliers,
           Load(h, u, o, step, e)
    PROVE  TypeInv'
BY DEF TypeInv, TypeOK, RequestShape, Load, Visible, Exists, Holding, Placing,
       database, celery, history

LEMMA DoneTyped ==
    ASSUME NEW t \in Task, NEW lines \in SUBSET Nat,
           NEW outcome \in {"sent", "not found", "error"}
    PROVE  Done(t, outcome, lines) \in Result
BY DEF Done, Task, Result

LEMMA TakeTyped ==
    ASSUME TypeInv, NEW w \in Workers, TakeTask(w)
    PROVE  TypeInv'
<1> USE DEF TypeInv, TypeOK
<1> PICK t \in broker : Take(w, t) /\ broker' = broker \ {t}
  BY DEF TakeTask, Take
<1> USE DEF Take
<1>1. t \in Task
  OBVIOUS
<1>2. Done(t, "not found", {}) \in Result
  BY <1>1, DoneTyped
<1>3. results' \subseteq Result
  BY <1>2
<1>4. job' \in [Workers -> Task \cup {NoJob}]
  BY <1>1
<1> QED
  BY <1>3, <1>4 DEF RequestShape, database, request, history

LEMMA EndTyped ==
    ASSUME TypeInv, NEW w \in Workers, SendMail(w) \/ LoseMail(w)
    PROVE  TypeInv'
<1> USE DEF TypeInv, TypeOK
<1>1. job[w] \in Task /\ LinesOf(job[w].order) \subseteq Nat
  BY DEF SendMail, LoseMail, LinesOf, ItemsOf, Item
<1>2. /\ Done(job[w], "sent", LinesOf(job[w].order)) \in Result
      /\ Done(job[w], "error", {}) \in Result
  BY <1>1, DoneTyped
<1>3. results' \subseteq Result
  BY <1>2 DEF SendMail, LoseMail
<1> QED
  BY <1>3 DEF SendMail, LoseMail, RequestShape, database, request, history

LEMMA StepTyped == TypeInv /\ [Next]_vars => TypeInv'
<1> SUFFICES ASSUME TypeInv, [Next]_vars PROVE TypeInv'
  OBVIOUS
<1> USE OrdersAssumption, EditsAssumption
        DEF TypeInv, TypeOK, database, request, celery, history
<1>1. CASE UNCHANGED vars
  BY <1>1 DEF vars, RequestShape
<1>2. CASE \E h \in Handlers : Arrive(h)
  <2> PICK h \in Handlers : Arrive(h)
    BY <1>2
  <2>1. ASSUME NEW u \in Buyers, NEW c \in Carts, NEW e \in Edits,
               BeginCreate(h, u, c, e)
        PROVE  TypeInv'
    BY <2>1 DEF BeginCreate, RequestShape, Holding, Placing
  <2>2. ASSUME NEW u \in Users, NEW o \in OrderIds, NEW e \in Edits,
               \/ LoadForConfirm(h, u, o)
               \/ LoadForCancel(h, u, o)
               \/ LoadForDestroy(h, u, o)
               \/ AdminOpen(h, u, o)
               \/ LoadForUpdate(h, u, o, e)
        PROVE  TypeInv'
    BY <2>2, LoadTyped DEF LoadForConfirm, LoadForCancel, LoadForDestroy,
                           AdminOpen, LoadForUpdate
  <2>3. ASSUME NEW s \in Suppliers, LoadToggle(h, s)
        PROVE  TypeInv'
    BY <2>3 DEF LoadToggle, RequestShape, Holding, Placing, Users
  <2> QED
    BY <2>1, <2>2, <2>3 DEF Arrive
<1>3. CASE \E h \in Handlers : Continue(h)
  <2> PICK h \in Handlers : Continue(h)
    BY <1>3
  <2>1. CASE InsertOrder(h)
    BY <2>1 DEF InsertOrder, NewRow, RequestShape, Holding, Placing, Row, Statuses
  <2>2. CASE InsertItem(h)
    <3> PICK n \in DOMAIN basket[h] : InsertItem(h)!(n)
      BY <2>2 DEF InsertItem, StoreLine
    <3> USE DEF StoreLine
    <3>1. basket[h] \in Seq(Line) /\ n \in Nat
      BY DEF RequestShape
    <3>2. basket[h][n] \in Line
      BY <3>1
    <3>3. SupplierOf[basket[h][n].product] \in Suppliers
      BY <3>2 DEF Line
    <3>4. copy[h] \in Row /\ target[h] \in OrderIds
      BY DEF RequestShape, Holding, Placing
    <3>5. Summed(copy[h], n) \in Row
      BY <3>1, <3>4, SummedRow
    <3>6. items' \subseteq Item
      BY <3>1, <3>3, <3>4 DEF Item
    <3> QED
      BY <3>4, <3>5, <3>6 DEF RequestShape, Holding, Placing
  <2>3. CASE InsertItemFails(h)
    BY <2>3, AnswerTyped DEF InsertItemFails
  <2>4. CASE SaveTotal(h)
    BY <2>4 DEF SaveTotal, Save, RequestShape, Holding, Placing
  <2>5. CASE QueueConfirmation(h)
    BY <2>5 DEF QueueConfirmation, RequestShape, Holding, Placing, Task, Tasks
  <2>6. CASE QueueInvoice(h)
    <3>1. broker' \subseteq Task
      BY <2>6 DEF QueueInvoice, RequestShape, Holding, Placing, Task, Tasks
    <3> QED
      BY <2>6, <3>1, AnswerTyped DEF QueueInvoice
  <2>7. CASE CheckItems(h)
    <3>1. CASE Answer(h)
      BY <2>7, <3>1, AnswerTyped DEF CheckItems
    <3>2. CASE /\ pc' = [pc EXCEPT ![h] = "confirm"]
               /\ UNCHANGED <<who, target, copy, basket, edit>>
      BY <2>7, <3>2 DEF CheckItems, RequestShape, Holding, Placing
    <3> QED
      BY <2>7, <3>1, <3>2 DEF CheckItems
  <2>8. CASE SaveConfirm(h)
    <3>1. row' \in [OrderIds -> Row \cup {NoRow}]
      BY <2>8, ConfirmedRow DEF SaveConfirm, Save, RequestShape, Holding
    <3> QED
      BY <2>8, <3>1, AnswerTyped DEF SaveConfirm
  <2>9. CASE SaveCancel(h)
    <3>1. row' \in [OrderIds -> Row \cup {NoRow}]
      BY <2>9, CancelledRow DEF SaveCancel, Save, RequestShape, Holding
    <3> QED
      BY <2>9, <3>1, AnswerTyped DEF SaveCancel
  <2>10. CASE SaveUpdate(h)
    <3>1. row' \in [OrderIds -> Row \cup {NoRow}]
      BY <2>10, AppliedRow DEF SaveUpdate, Save, RequestShape, Holding
    <3> QED
      BY <2>10, <3>1, AnswerTyped DEF SaveUpdate
  <2>11. CASE Delete(h)
    BY <2>11, AnswerTyped DEF Delete
  <2>12. CASE SaveToggle(h)
    BY <2>12, AnswerTyped DEF SaveToggle
  <2> QED
    BY <2>1, <2>2, <2>3, <2>4, <2>5, <2>6, <2>7, <2>8, <2>9, <2>10, <2>11,
       <2>12 DEF Continue
<1>4. CASE \E h \in Handlers : Submit(h)
  <2> PICK h \in Handlers : Submit(h)
    BY <1>4
  <2>1. ASSUME NEW e \in Edits, NEW t \in Amounts(h), AdminSubmit(h, e, t)
        PROVE  TypeInv'
    <3>1. row[target[h]] \in Row /\ copy[h] \in Row
      BY <2>1 DEF AdminSubmit, Exists, RequestShape, Holding
    <3>2. row' \in [OrderIds -> Row \cup {NoRow}]
      <4>1. row[target[h]].confirmed \in Suppliers \cup {None}
        BY <3>1 DEF Row
      <4>2. t \in SUBSET Nat
        BY <3>1, AmountsTyped
      <4>3. Submitted(copy[h], e, t, row[target[h]].confirmed) \in Row
        BY <3>1, <4>1, <4>2, SubmittedRow
      <4> QED
        BY <2>1, <4>3 DEF AdminSubmit, Save, RequestShape, Holding
    <3> QED
      BY <2>1, <3>2, AnswerTyped DEF AdminSubmit
  <2>2. CASE AdminSubmitGone(h)
    BY <2>2, AnswerTyped DEF AdminSubmitGone
  <2> QED
    BY <2>1, <2>2 DEF Submit
<1>5. CASE \E h \in Handlers : HandlerFails(h)
  BY <1>5, AnswerTyped DEF HandlerFails
<1>6. CASE \E w \in Workers : Work(w)
  BY <1>6, TakeTyped, EndTyped DEF Work
<1> QED
  BY <1>1, <1>2, <1>3, <1>4, <1>5, <1>6 DEF Next

(* Type correctness, with what each request holds. *)
THEOREM TypeCorrect == Spec => [](TypeOK /\ RequestShape)
<1>1. Spec => []TypeInv
  BY InitTyped, StepTyped, PTL DEF Spec
<1> QED
  BY <1>1, PTL DEF TypeInv

-----------------------------------------------------------------------------
(* TotalNeverPartial.  By itself it is not inductive: a request could hold *)
(* a copy with a partial sum, or the lines of another order.               *)

(* A primary key that no INSERT has used is unknown to everybody. *)
Fresh ==
    \A o \in OrderIds :
        reply[o] = None => /\ row[o] = NoRow
                           /\ cart[o] = <<>>
                           /\ \A h \in Handlers : target[h] # o

(* A create request sums its own order's lines from the first on, and no   *)
(* two create requests work on one order.                                  *)
PlacingShape ==
    \A h \in Handlers :
        /\ pc[h] = "order" => basket[h] # <<>>
        /\ pc[h] \in Placing => /\ reply[target[h]] = "running"
                               /\ basket[h] = cart[target[h]]
        /\ pc[h] = "items" =>
               \E n \in DOMAIN cart[target[h]] : copy[h].total = 1 .. (n - 1)
        /\ pc[h] \in Placing \ {"items"} =>
               copy[h].total = DOMAIN cart[target[h]]
        /\ pc[h] \in Placing =>
               \A g \in Handlers :
                   pc[g] \in Placing /\ target[g] = target[h] => g = h

(* A copy any other request may write back has no partial total either. *)
CopiesWhole ==
    \A h \in Handlers :
        pc[h] \in Holding \ Placing =>
            copy[h].total \in {{}, Typed, DOMAIN cart[target[h]]}

TotalInv == Fresh /\ PlacingShape /\ CopiesWhole /\ TotalNeverPartial

LEMMA InitTotal == Init => TotalInv
BY OrdersAssumption
   DEF Init, TotalInv, Fresh, PlacingShape, CopiesWhole, TotalNeverPartial,
       SeededRow, NoRow, Placing, Holding

(* A request that ends leaves the rest as it is; if it was placing an      *)
(* order, no other one places the same order.                              *)
LEMMA AnswerTotal ==
    ASSUME TypeInv, TotalInv, NEW h \in Handlers, Answer(h), cart' = cart,
           \/ reply' = reply
           \/ /\ pc[h] \in Placing
              /\ \E a \in {"201", "500"} :
                     reply' = [reply EXCEPT ![target[h]] = a],
           \A o \in OrderIds : reply[o] = None => row'[o] = NoRow
    PROVE  Fresh' /\ PlacingShape' /\ CopiesWhole'
<1> USE DEF TypeInv, TypeOK, TotalInv
<1>1. /\ pc' = [pc EXCEPT ![h] = "idle"]
      /\ target' = [target EXCEPT ![h] = None]
      /\ copy' = [copy EXCEPT ![h] = NoRow]
      /\ basket' = [basket EXCEPT ![h] = <<>>]
  BY DEF Answer
<1>2. None \notin OrderIds
  BY OrdersAssumption
<1>3. Fresh'
  <2>1. \A o \in OrderIds : reply'[o] = None => reply[o] = None
    OBVIOUS
  <2> QED
    BY <1>1, <1>2, <2>1 DEF Fresh
<1>4. CopiesWhole'
  BY <1>1 DEF CopiesWhole, Holding, Placing
<1>5. PlacingShape'
  <2>1. ASSUME NEW g \in Handlers, g # h
        PROVE  /\ pc'[g] = pc[g] /\ target'[g] = target[g]
               /\ copy'[g] = copy[g] /\ basket'[g] = basket[g]
               /\ pc[g] \in Placing => reply'[target[g]] = "running"
    <3>1. pc[g] \in Placing => reply[target[g]] = "running" /\ target[g] \in OrderIds
      BY DEF PlacingShape, RequestShape, Holding
    <3>2. pc[g] \in Placing /\ pc[h] \in Placing => target[g] # target[h]
      BY <2>1 DEF PlacingShape
    <3> QED
      BY <1>1, <2>1, <3>1, <3>2
  <2>2. pc'[h] = "idle"
    BY <1>1
  <2> QED
    BY <2>1, <2>2 DEF PlacingShape, Placing
<1> QED
  BY <1>3, <1>4, <1>5

LEMMA LoadTotal ==
    ASSUME TypeInv, TotalInv, NEW h \in Handlers, NEW u \in Users,
           NEW o \in OrderIds, NEW e \in Edits,
           NEW step \in {"check", "cancel", "update", "destroy", "form"},
           Load(h, u, o, step, e)
    PROVE  TotalInv'
<1> USE DEF TypeInv, TypeOK, TotalInv
<1>1. /\ pc' = [pc EXCEPT ![h] = step]
      /\ target' = [target EXCEPT ![h] = o]
      /\ copy' = [copy EXCEPT ![h] = row[o]]
      /\ pc[h] = "idle" /\ row[o] # NoRow
      /\ UNCHANGED <<row, basket, cart, reply>>
  BY DEF Load, Visible, Exists, database, history
<1>2. Fresh'
  BY <1>1 DEF Fresh
<1>3. PlacingShape'
  BY <1>1 DEF PlacingShape, Placing
<1>4. CopiesWhole'
  BY <1>1 DEF CopiesWhole, TotalNeverPartial
<1>5. TotalNeverPartial'
  BY <1>1 DEF TotalNeverPartial
<1> QED
  BY <1>2, <1>3, <1>4, <1>5

(* A save by a request that is not placing the order: the new row has the  *)
(* total of the copy, or one that staff typed.                             *)
LEMMA SaveTotalKept ==
    ASSUME TypeInv, TotalInv, NEW h \in Handlers, NEW r \in Row,
           pc[h] \in Holding \ Placing, r.total \in {copy[h].total, Typed},
           Save(target[h], r), Answer(h), UNCHANGED history
    PROVE  TotalInv'
<1> USE DEF TypeInv, TypeOK, TotalInv
<1>1. target[h] \in OrderIds
  BY DEF RequestShape
<1>2. reply[target[h]] # None
  BY <1>1 DEF Fresh
<1>3. \A o \in OrderIds : reply[o] = None => row'[o] = NoRow
  BY <1>1, <1>2 DEF Save, Fresh
<1>4. TotalNeverPartial'
  BY <1>1 DEF Save, TotalNeverPartial, CopiesWhole, history
<1> QED
  BY <1>3, <1>4, AnswerTotal DEF history

LEMMA StepTotal == TypeInv /\ TotalInv /\ [Next]_vars => TotalInv'
<1> SUFFICES ASSUME TypeInv, TotalInv, [Next]_vars PROVE TotalInv'
  OBVIOUS
<1> USE OrdersAssumption, EditsAssumption
        DEF TypeInv, TypeOK, TotalInv, database, request, celery, history
<1>1. CASE UNCHANGED vars
  BY <1>1 DEF vars, Fresh, PlacingShape, CopiesWhole, TotalNeverPartial
<1>2. CASE \E h \in Handlers : Arrive(h)
  <2> PICK h \in Handlers : Arrive(h)
    BY <1>2
  <2>1. ASSUME NEW u \in Buyers, NEW c \in Carts, NEW e \in Edits,
               BeginCreate(h, u, c, e)
        PROVE  TotalInv'
    <3>1. /\ pc' = [pc EXCEPT ![h] = "order"]
          /\ basket' = [basket EXCEPT ![h] = c]
          /\ pc[h] = "idle" /\ c # <<>>
          /\ UNCHANGED <<row, target, copy, cart, reply>>
      BY <2>1 DEF BeginCreate, ValidItems
    <3>2. Fresh'
      BY <3>1 DEF Fresh
    <3>3. PlacingShape'
      BY <3>1 DEF PlacingShape, Placing
    <3>4. CopiesWhole' /\ TotalNeverPartial'
      BY <3>1 DEF CopiesWhole, TotalNeverPartial, Holding, Placing
    <3> QED
      BY <3>2, <3>3, <3>4
  <2>2. ASSUME NEW u \in Users, NEW o \in OrderIds, NEW e \in Edits,
               \/ LoadForConfirm(h, u, o)
               \/ LoadForCancel(h, u, o)
               \/ LoadForDestroy(h, u, o)
               \/ AdminOpen(h, u, o)
               \/ LoadForUpdate(h, u, o, e)
        PROVE  TotalInv'
    BY <2>2, LoadTotal DEF LoadForConfirm, LoadForCancel, LoadForDestroy,
                           AdminOpen, LoadForUpdate
  <2>3. ASSUME NEW s \in Suppliers, LoadToggle(h, s)
        PROVE  TotalInv'
    <3>1. /\ pc' \in {[pc EXCEPT ![h] = "stop"], [pc EXCEPT ![h] = "start"]}
          /\ UNCHANGED <<row, target, copy, basket, cart, reply>>
      BY <2>3 DEF LoadToggle
    <3>2. Fresh' /\ TotalNeverPartial'
      BY <3>1 DEF Fresh, TotalNeverPartial
    <3>3. PlacingShape' /\ CopiesWhole'
      BY <3>1 DEF PlacingShape, CopiesWhole, Holding, Placing
    <3> QED
      BY <3>2, <3>3
  <2> QED
    BY <2>1, <2>2, <2>3 DEF Arrive
<1>3. CASE \E h \in Handlers : Continue(h)
  <2> PICK h \in Handlers : Continue(h)
    BY <1>3
  <2>1. CASE InsertOrder(h)
    <3> PICK o \in OrderIds : InsertOrder(h)!(o)
      BY <2>1 DEF InsertOrder, NewRow
    <3> USE DEF NewRow
    <3>1. /\ pc[h] = "order" /\ basket[h] \in Carts /\ basket[h] # <<>>
          /\ reply[o] = None
          /\ row'[o].total = {} /\ copy'[h].total = {}
          /\ \A p \in OrderIds : p # o => row'[p] = row[p]
          /\ \A g \in Handlers : g # h => copy'[g] = copy[g]
      BY DEF RequestShape, PlacingShape
    <3>2. /\ pc' = [pc EXCEPT ![h] = "items"]
          /\ target' = [target EXCEPT ![h] = o]
          /\ cart' = [cart EXCEPT ![o] = basket[h]]
          /\ reply' = [reply EXCEPT ![o] = "running"]
          /\ basket' = basket
      OBVIOUS
    <3>3. \A g \in Handlers : target[g] # o
      BY <3>1 DEF Fresh
    <3>4. 1 \in DOMAIN basket[h]
      BY <3>1
    <3>5. Fresh'
      BY <3>1, <3>2 DEF Fresh
    <3>6. PlacingShape'
      BY <3>1, <3>2, <3>3, <3>4 DEF PlacingShape, Placing
    <3>7. CopiesWhole'
      BY <3>1, <3>2, <3>3 DEF CopiesWhole, Placing, Holding
    <3>8. TotalNeverPartial'
      BY <3>1, <3>2 DEF TotalNeverPartial
    <3> QED
      BY <3>5, <3>6, <3>7, <3>8
  <2>2. CASE InsertItem(h)
    <3> PICK n \in DOMAIN basket[h] : InsertItem(h)!(n)
      BY <2>2 DEF InsertItem, StoreLine
    <3> USE DEF StoreLine
    <3>1. /\ n \in Nat /\ basket[h] \in Seq(Line)
          /\ copy[h] \in Row /\ basket[h] = cart[target[h]]
      BY DEF RequestShape, PlacingShape, Holding, Placing
    <3>2. copy'[h].total = 1 .. n
      BY <3>1, SummedRow
    <3>3. /\ pc' = [pc EXCEPT ![h] = IF n = Len(basket[h]) THEN "total"
                                                          ELSE "items"]
          /\ \A g \in Handlers : g # h => copy'[g] = copy[g]
          /\ UNCHANGED <<row, target, basket, cart, reply>>
      OBVIOUS
    <3>4. n # Len(basket[h]) => n + 1 \in DOMAIN basket[h] /\ n = (n + 1) - 1
      BY <3>1
    <3>5. n = Len(basket[h]) => 1 .. n = DOMAIN basket[h]
      BY <3>1
    <3>6. Fresh' /\ TotalNeverPartial'
      BY <3>3 DEF Fresh, TotalNeverPartial
    <3>7. PlacingShape'
      BY <3>1, <3>2, <3>3, <3>4, <3>5 DEF PlacingShape, Placing
    <3>8. CopiesWhole'
      BY <3>3 DEF CopiesWhole, Holding, Placing
    <3> QED
      BY <3>6, <3>7, <3>8
  <2>3. CASE InsertItemFails(h)
    BY <2>3, AnswerTotal DEF InsertItemFails, Placing, Fresh, TotalNeverPartial
  <2>4. CASE SaveTotal(h)
    <3>1. target[h] \in OrderIds /\ reply[target[h]] # None
      BY <2>4 DEF SaveTotal, RequestShape, PlacingShape, Holding, Placing
    <3>2. Fresh'
      BY <2>4, <3>1 DEF SaveTotal, Save, Fresh
    <3>3. PlacingShape' /\ CopiesWhole'
      BY <2>4 DEF SaveTotal, PlacingShape, CopiesWhole, Placing, Holding
    <3>4. /\ row' = [row EXCEPT ![target[h]] = copy[h]] /\ cart' = cart
          /\ copy[h].total = DOMAIN cart[target[h]]
      BY <2>4 DEF SaveTotal, Save, PlacingShape, Placing
    <3>5. TotalNeverPartial'
      BY <3>1, <3>4 DEF TotalNeverPartial
    <3> QED
      BY <3>2, <3>3, <3>5
  <2>5. CASE QueueConfirmation(h)
    BY <2>5 DEF QueueConfirmation, Fresh, PlacingShape, CopiesWhole,
                TotalNeverPartial, Placing, Holding
  <2>6. CASE QueueInvoice(h)
    BY <2>6, AnswerTotal DEF QueueInvoice, Placing, Fresh, TotalNeverPartial
  <2>7. CASE CheckItems(h)
    <3>1. CASE Answer(h)
      BY <2>7, <3>1, AnswerTotal DEF CheckItems, Fresh, TotalNeverPartial
    <3>2. CASE /\ pc' = [pc EXCEPT ![h] = "confirm"]
               /\ UNCHANGED <<who, target, copy, basket, edit>>
      BY <2>7, <3>2 DEF CheckItems, Fresh, PlacingShape, CopiesWhole,
                        TotalNeverPartial, Placing, Holding
    <3> QED
      BY <2>7, <3>1, <3>2 DEF CheckItems
  <2>8. CASE SaveConfirm(h)
    <3>1. copy[h] \in Row /\ who[h] \in Suppliers
      BY <2>8 DEF SaveConfirm, RequestShape, Holding
    <3>2. /\ Confirmed(copy[h], who[h]) \in Row
          /\ Confirmed(copy[h], who[h]).total = copy[h].total
      BY <3>1, ConfirmedRow
    <3> QED
      BY <2>8, <3>2, SaveTotalKept DEF SaveConfirm, Holding, Placing
  <2>9. CASE SaveCancel(h)
    BY <2>9, CancelledRow, SaveTotalKept
       DEF SaveCancel, RequestShape, Holding, Placing
  <2>10. CASE SaveUpdate(h)
    BY <2>10, AppliedRow, SaveTotalKept
       DEF SaveUpdate, RequestShape, Holding, Placing
  <2>11. CASE Delete(h)
    <3>1. /\ row' = [row EXCEPT ![target[h]] = NoRow]
          /\ Answer(h) /\ cart' = cart /\ reply' = reply
      BY <2>11 DEF Delete
    <3>2. \A o \in OrderIds : row'[o] \in {row[o], NoRow}
      BY <3>1
    <3>3. TotalNeverPartial'
      BY <3>1, <3>2 DEF TotalNeverPartial, NoRow
    <3> QED
      BY <3>1, <3>2, <3>3, AnswerTotal DEF Fresh
  <2>12. CASE SaveToggle(h)
    BY <2>12, AnswerTotal DEF SaveToggle, Fresh, TotalNeverPartial
  <2> QED
    BY <2>1, <2>2, <2>3, <2>4, <2>5, <2>6, <2>7, <2>8, <2>9, <2>10, <2>11,
       <2>12 DEF Continue
<1>4. CASE \E h \in Handlers : Submit(h)
  <2> PICK h \in Handlers : Submit(h)
    BY <1>4
  <2>1. ASSUME NEW e \in Edits, NEW t \in Amounts(h), AdminSubmit(h, e, t)
        PROVE  TotalInv'
    <3>1. copy[h] \in Row /\ row[target[h]] \in Row
      BY <2>1 DEF AdminSubmit, Exists, RequestShape, Holding
    <3>2. row[target[h]].confirmed \in Suppliers \cup {None}
      BY <3>1 DEF Row
    <3>3. LET r == Submitted(copy[h], e, t, row[target[h]].confirmed)
          IN  r \in Row /\ r.total \in {copy[h].total, Typed}
      BY <3>1, <3>2, SubmittedRow, AmountsTyped
    <3> QED
      BY <2>1, <3>3, SaveTotalKept DEF AdminSubmit, Holding, Placing
  <2>2. CASE AdminSubmitGone(h)
    BY <2>2, AnswerTotal DEF AdminSubmitGone, Fresh, TotalNeverPartial
  <2> QED
    BY <2>1, <2>2 DEF Submit
<1>5. CASE \E h \in Handlers : HandlerFails(h)
  <2> PICK h \in Handlers : HandlerFails(h)
    BY <1>5
  <2>1. /\ Answer(h) /\ cart' = cart /\ row' = row
        /\ \/ reply' = reply
           \/ pc[h] \in Placing /\ reply' = [reply EXCEPT ![target[h]] = "500"]
    BY DEF HandlerFails, Placing
  <2> QED
    BY <2>1, AnswerTotal DEF Fresh, TotalNeverPartial
<1>6. CASE \E w \in Workers : Work(w)
  <2>1. UNCHANGED <<row, cart, reply, pc, target, copy, basket>>
    BY <1>6 DEF Work, TakeTask, Take, SendMail, LoseMail
  <2> QED
    BY <2>1 DEF Fresh, PlacingShape, CopiesWhole, TotalNeverPartial
<1> QED
  BY <1>1, <1>2, <1>3, <1>4, <1>5, <1>6 DEF Next

(* However requests interleave, fail or delete orders: an order shows no   *)
(* total, or the total of all the lines it was placed with, or an amount   *)
(* that staff typed into the order form.                                   *)
THEOREM TotalCorrect == Spec => []TotalNeverPartial
<1>1. Spec => []TypeInv
  BY TypeCorrect, PTL DEF TypeInv
<1>2. Spec => []TotalInv
  BY <1>1, InitTotal, StepTotal, PTL DEF Spec
<1> QED
  BY <1>2, PTL DEF TotalInv

-----------------------------------------------------------------------------
(* BilledOrderIsComplete and MailListsWholeOrder, while nobody deletes     *)
(* orders.  The strengthening follows the lines from the create request    *)
(* into copies, rows, tasks and mails.                                     *)

Complete(o) == LinesOf(o) = DOMAIN cart[o]

(* What is complete, or how far it is. *)
LinesStored ==
    /\ \A o \in OrderIds : reply[o] = None => LinesOf(o) = {}
    /\ \A h \in Handlers :
           /\ pc[h] # "destroy"
           /\ pc[h] = "items" => LinesOf(target[h]) = copy[h].total
           /\ pc[h] \in Placing \ {"items"} => Complete(target[h])
           /\ pc[h] \in Holding \ Placing /\ copy[h].total \notin {{}, Typed} =>
                  Complete(target[h])

(* A task exists only for an order that is complete. *)
TasksComplete ==
    /\ \A t \in broker : Complete(t.order) /\ reply[t.order] # None
    /\ \A w \in Workers :
           job[w] # NoJob => Complete(job[w].order) /\ reply[job[w].order] # None
    /\ \A r \in results : reply[r.order] # None

LinesInv ==
    /\ LinesStored
    /\ TasksComplete
    /\ BilledOrderIsComplete
    /\ MailListsWholeOrder

LEMMA InitLines == Init => LinesInv
BY OrdersAssumption
   DEF Init, LinesInv, LinesStored, TasksComplete, BilledOrderIsComplete,
       MailListsWholeOrder, Billed, LinesOf, ItemsOf, SeededRow, NoRow, Holding, Placing

(* The only steps that change carts or items, when nothing is deleted. *)
LEMMA DataSteps ==
    ASSUME LinesInv, [Next]_vars
    PROVE  \/ UNCHANGED <<items, cart>>
           \/ \E h \in Handlers : InsertOrder(h) \/ InsertItem(h)
<1> USE DEF database, celery, history, request
<1>1. CASE UNCHANGED vars
  BY <1>1 DEF vars
<1>2. ASSUME NEW h \in Handlers, Arrive(h)
      PROVE  UNCHANGED <<items, cart>>
  BY <1>2 DEF Arrive, BeginCreate, LoadForConfirm, LoadForCancel, LoadForUpdate,
              LoadForDestroy, AdminOpen, LoadToggle, Load
<1>3. ASSUME NEW h \in Handlers, Continue(h)
      PROVE  UNCHANGED <<items, cart>> \/ InsertOrder(h) \/ InsertItem(h)
  BY <1>3 DEF Continue, InsertItemFails, SaveTotal, QueueConfirmation,
              QueueInvoice, CheckItems, SaveConfirm, SaveCancel, SaveUpdate,
              Delete, SaveToggle, LinesInv, LinesStored
<1>4. ASSUME NEW h \in Handlers, Submit(h) \/ HandlerFails(h)
      PROVE  UNCHANGED <<items, cart>>
  BY <1>4 DEF Submit, AdminSubmit, AdminSubmitGone, HandlerFails
<1>5. ASSUME NEW w \in Workers, Work(w)
      PROVE  UNCHANGED <<items, cart>>
  BY <1>5 DEF Work, TakeTask, Take, SendMail, LoseMail
<1> QED
  BY <1>1, <1>2, <1>3, <1>4, <1>5 DEF Next

(* The item of line n joins the lines of its order and of no other. *)
LEMMA InsertedLine ==
    ASSUME TypeInv, TotalInv, LinesInv, NEW h \in Handlers, InsertItem(h)
    PROVE  \E n \in DOMAIN cart[target[h]] :
               /\ n \in Nat
               /\ pc[h] = "items" /\ target[h] \in OrderIds
               /\ cart[target[h]] = basket[h] /\ basket[h] \in Seq(Line)
               /\ LinesOf(target[h]) = 1 .. (n - 1)
               /\ LinesOf(target[h])' = 1 .. n
               /\ \A o \in OrderIds : o # target[h] => LinesOf(o)' = LinesOf(o)
               /\ pc'[h] = IF n = Len(basket[h]) THEN "total" ELSE "items"
               /\ copy'[h].total = 1 .. n
<1> USE OrdersAssumption DEF TypeInv, TypeOK, TotalInv, LinesInv
<1> PICK n \in DOMAIN basket[h] : InsertItem(h)!(n)
  BY DEF InsertItem, StoreLine
<1> USE DEF StoreLine
<1>1. /\ target[h] \in OrderIds /\ copy[h] \in Row
      /\ basket[h] = cart[target[h]] /\ basket[h] \in Seq(Line)
  BY DEF RequestShape, PlacingShape, Holding, Placing
<1>2. n \in Nat /\ n >= 1
  BY <1>1
<1>3. LinesOf(target[h]) = 1 .. (n - 1)
  BY DEF LinesStored
<1> DEFINE i == [order |-> target[h], line |-> n,
                 supplier |-> SupplierOf[basket[h][n].product]]
<1>4. i.order = target[h] /\ i.line = n /\ items' = items \cup {i}
  OBVIOUS
<1> HIDE DEF i
<1>5. LinesOf(target[h])' = LinesOf(target[h]) \cup {n}
  BY <1>4 DEF LinesOf, ItemsOf
<1>6. (1 .. (n - 1)) \cup {n} = 1 .. n
  BY <1>2
<1>7. \A o \in OrderIds : o # target[h] => LinesOf(o)' = LinesOf(o)
  BY <1>4 DEF LinesOf, ItemsOf
<1>8. copy'[h].total = 1 .. n
  BY <1>1, <1>2, SummedRow
<1> QED
  BY <1>1, <1>2, <1>3, <1>5, <1>6, <1>7, <1>8

(* Complete orders stay complete. *)
LEMMA CompleteStays ==
    ASSUME TypeInv, TotalInv, LinesInv, [Next]_vars,
           NEW o \in OrderIds, Complete(o), reply[o] # None
    PROVE  Complete(o)'
<1>1. CASE UNCHANGED <<items, cart>>
  BY <1>1 DEF Complete, LinesOf, ItemsOf
<1>2. ASSUME NEW h \in Handlers, InsertOrder(h)
      PROVE  Complete(o)'
  BY <1>2 DEF InsertOrder, NewRow, Complete, LinesOf, ItemsOf, TypeInv, TypeOK
<1>3. ASSUME NEW h \in Handlers, InsertItem(h)
      PROVE  Complete(o)'
  <2>1. cart' = cart
    BY <1>3 DEF InsertItem, StoreLine, history
  <2>2. target[h] # o
    <3> PICK n \in DOMAIN cart[target[h]] :
            n \in Nat /\ LinesOf(target[h]) = 1 .. (n - 1)
      BY <1>3, InsertedLine
    <3> QED
      BY DEF Complete
  <2> QED
    BY <1>3, <2>1, <2>2, InsertedLine DEF Complete
<1> QED
  BY <1>1, <1>2, <1>3, DataSteps

(* What one step does to one request, when nothing is deleted. *)
Apart == {"idle", "order", "stop", "start"}
Later == Placing \ {"items"}
Editing == Holding \ (Placing \cup {"destroy"})

LEMMA HandlerSteps ==
    ASSUME "destroy" \notin Ops, TypeInv, LinesInv, [Next]_vars,
           NEW g \in Handlers
    PROVE  \/ InsertOrder(g) \/ InsertItem(g)
           \/ pc'[g] \in Apart
           \/ /\ target'[g] = target[g] /\ copy'[g] = copy[g]
              /\ \/ pc'[g] = pc[g]
                 \/ pc[g] \in Later /\ pc'[g] \in Later
                 \/ pc[g] \in Editing /\ pc'[g] \in Editing
           \/ /\ pc'[g] \in Editing
              /\ target'[g] \in OrderIds /\ copy'[g] = row[target'[g]]
<1> USE DEF database, celery, history, request, TypeInv, TypeOK
<1>1. CASE UNCHANGED vars
  BY <1>1 DEF vars
<1>2. ASSUME NEW h \in Handlers, Arrive(h), h # g
      PROVE  UNCHANGED <<pc[g], target[g], copy[g]>>
  BY <1>2 DEF Arrive, BeginCreate, LoadForConfirm, LoadForCancel, LoadForUpdate,
              LoadForDestroy, AdminOpen, LoadToggle, Load
<1>3. CASE Arrive(g)
  BY <1>3 DEF Arrive, BeginCreate, LoadForConfirm, LoadForCancel, LoadForUpdate,
              LoadForDestroy, AdminOpen, LoadToggle, Load, Apart, Editing,
              Holding, Placing
<1>4. ASSUME NEW h \in Handlers, Continue(h), h # g
      PROVE  UNCHANGED <<pc[g], target[g], copy[g]>>
  BY <1>4 DEF Continue, InsertOrder, NewRow, InsertItem, StoreLine, InsertItemFails, SaveTotal,
              QueueConfirmation, QueueInvoice, CheckItems, SaveConfirm,
              SaveCancel, SaveUpdate, Delete, SaveToggle, Answer
<1>5. CASE Continue(g)
  BY <1>5 DEF Continue, InsertItemFails, SaveTotal,
              QueueConfirmation, QueueInvoice, CheckItems, SaveConfirm,
              SaveCancel, SaveUpdate, Delete, SaveToggle, Answer, Apart, Later,
              Editing, Holding, Placing
<1>6. ASSUME NEW h \in Handlers, Submit(h) \/ HandlerFails(h)
      PROVE  pc'[g] \in Apart \/ UNCHANGED <<pc[g], target[g], copy[g]>>
  BY <1>6 DEF Submit, AdminSubmit, AdminSubmitGone, HandlerFails, Answer, Apart
<1>7. ASSUME NEW w \in Workers, Work(w)
      PROVE  UNCHANGED <<pc[g], target[g], copy[g]>>
  BY <1>7 DEF Work, TakeTask, Take, SendMail, LoseMail
<1> QED
  BY <1>1, <1>2, <1>3, <1>4, <1>5, <1>6, <1>7 DEF Next

(* Where the total of a row comes from. *)
LEMMA RowSteps ==
    ASSUME TypeInv, TotalInv, LinesInv, [Next]_vars, NEW o \in OrderIds
    PROVE  \/ row'[o].total \in {row[o].total, {}, Typed}
           \/ \E h \in Handlers :
                 /\ pc[h] \in (Holding \ Placing) \cup {"total"}
                 /\ target[h] = o
                 /\ row'[o].total = copy[h].total
<1> USE EditsAssumption
        DEF database, celery, history, request, TypeInv, TypeOK, Save
<1>1. CASE UNCHANGED vars
  BY <1>1 DEF vars
<1>2. ASSUME NEW h \in Handlers, Arrive(h)
      PROVE  row' = row
  BY <1>2 DEF Arrive, BeginCreate, LoadForConfirm, LoadForCancel, LoadForUpdate,
              LoadForDestroy, AdminOpen, LoadToggle, Load
<1>3. ASSUME NEW h \in Handlers, Continue(h)
      PROVE  \/ row'[o].total \in {row[o].total, {}, Typed}
             \/ /\ pc[h] \in (Holding \ Placing) \cup {"total"}
                /\ target[h] = o
                /\ row'[o].total = copy[h].total
  <2>1. CASE InsertOrder(h)
    BY <2>1 DEF InsertOrder, NewRow
  <2>2. CASE SaveTotal(h)
    BY <2>2 DEF SaveTotal, RequestShape, Holding, Placing
  <2>3. CASE SaveConfirm(h)
    <3>1. copy[h] \in Row /\ who[h] \in Suppliers
      BY <2>3 DEF SaveConfirm, RequestShape, Holding
    <3>2. Confirmed(copy[h], who[h]).total = copy[h].total
      BY <3>1, ConfirmedRow
    <3> QED
      BY <2>3, <3>2 DEF SaveConfirm, RequestShape, Holding, Placing
  <2>4. CASE SaveCancel(h)
    <3>1. copy[h] \in Row
      BY <2>4 DEF SaveCancel, RequestShape, Holding
    <3>2. Cancelled(copy[h]).total = copy[h].total
      BY <3>1, CancelledRow
    <3> QED
      BY <2>4, <3>2 DEF SaveCancel, RequestShape, Holding, Placing
  <2>5. CASE SaveUpdate(h)
    <3>1. copy[h] \in Row /\ edit[h] \in Edits
      BY <2>5 DEF SaveUpdate, RequestShape, Holding
    <3>2. Apply(copy[h], edit[h]).total = copy[h].total
      BY <3>1, AppliedRow
    <3> QED
      BY <2>5, <3>2 DEF SaveUpdate, RequestShape, Holding, Placing
  <2> QED
    BY <1>3, <2>1, <2>2, <2>3, <2>4, <2>5
       DEF Continue, InsertItem, StoreLine, InsertItemFails, QueueConfirmation,
           QueueInvoice, CheckItems, Delete, SaveToggle, LinesInv, LinesStored
<1>4. ASSUME NEW h \in Handlers, NEW e \in Edits, NEW t \in Amounts(h),
             AdminSubmit(h, e, t)
      PROVE  \/ row'[o].total \in {row[o].total, Typed}
             \/ /\ pc[h] = "form" /\ target[h] = o
                /\ row'[o].total = copy[h].total
  <2>1. copy[h] \in Row /\ row[target[h]] \in Row
    BY <1>4 DEF AdminSubmit, Exists, RequestShape, Holding
  <2>2. row[target[h]].confirmed \in Suppliers \cup {None}
    BY <2>1 DEF Row
  <2>3. /\ Submitted(copy[h], e, t, row[target[h]].confirmed).total = t
        /\ t \in {copy[h].total, Typed}
    BY <2>1, <2>2, SubmittedRow, AmountsTyped
  <2> QED
    BY <1>4, <2>3 DEF AdminSubmit, RequestShape, Holding
<1>5. ASSUME NEW h \in Handlers, AdminSubmitGone(h) \/ HandlerFails(h)
      PROVE  row' = row
  BY <1>5 DEF AdminSubmitGone, HandlerFails
<1>6. ASSUME NEW w \in Workers, Work(w)
      PROVE  row' = row
  BY <1>6 DEF Work, TakeTask, Take, SendMail, LoseMail
<1> QED
  BY <1>1, <1>2, <1>3, <1>4, <1>5, <1>6 DEF Next, Submit, Holding, Placing

(* A used primary key stays used, and where tasks come from. *)
LEMMA TaskSteps ==
    ASSUME TypeInv, TotalInv, [Next]_vars
    PROVE  /\ \A o \in OrderIds : reply[o] # None => reply'[o] # None
           /\ \A t \in broker' :
                  \/ t \in broker
                  \/ \E h \in Handlers : /\ pc[h] \in {"confirmation", "invoice"}
                                        /\ t.order = target[h]
           /\ \A w \in Workers : job'[w] \in {job[w], NoJob} \cup broker
           /\ \A r \in results' :
                  \/ r \in results
                  \/ \E t \in broker : r = Done(t, "not found", {})
                  \/ \E w \in Workers :
                        /\ job[w] # NoJob
                        /\ r \in {Done(job[w], "sent", LinesOf(job[w].order)),
                                 Done(job[w], "error", {})}
<1> USE DEF database, celery, history, request, TypeInv, TypeOK
<1>1. CASE UNCHANGED vars
  BY <1>1 DEF vars
<1>2. ASSUME NEW h \in Handlers, Arrive(h)
      PROVE  UNCHANGED <<reply, broker, job, results>>
  BY <1>2 DEF Arrive, BeginCreate, LoadForConfirm, LoadForCancel, LoadForUpdate,
              LoadForDestroy, AdminOpen, LoadToggle, Load
<1>3. ASSUME NEW h \in Handlers, Continue(h)
      PROVE  /\ \A o \in OrderIds : reply[o] # None => reply'[o] # None
             /\ UNCHANGED <<job, results>>
             /\ \A t \in broker' :
                    \/ t \in broker
                    \/ pc[h] \in {"confirmation", "invoice"} /\ t.order = target[h]
  BY <1>3 DEF Continue, InsertOrder, NewRow, InsertItem, StoreLine, InsertItemFails, SaveTotal,
              QueueConfirmation, QueueInvoice, CheckItems, SaveConfirm,
              SaveCancel, SaveUpdate, Delete, SaveToggle
<1>4. ASSUME NEW h \in Handlers, Submit(h) \/ HandlerFails(h)
      PROVE  /\ \A o \in OrderIds : reply[o] # None => reply'[o] # None
             /\ UNCHANGED <<broker, job, results>>
  BY <1>4 DEF Submit, AdminSubmit, AdminSubmitGone, HandlerFails
<1>5. ASSUME NEW w \in Workers, Work(w)
      PROVE  /\ reply' = reply /\ broker' \subseteq broker
             /\ \A v \in Workers : job'[v] \in {job[v], NoJob} \cup broker
             /\ \A r \in results' :
                    \/ r \in results
                    \/ \E t \in broker : r = Done(t, "not found", {})
                    \/ /\ job[w] # NoJob
                       /\ r \in {Done(job[w], "sent", LinesOf(job[w].order)),
                                Done(job[w], "error", {})}
  <2>1. CASE TakeTask(w)
    <3> PICK t \in broker : Take(w, t) /\ broker' = broker \ {t}
      BY <2>1 DEF TakeTask, Take
    <3> USE DEF Take
    <3>1. results' = results \/ results' = results \cup {Done(t, "not found", {})}
      OBVIOUS
    <3>2. job' = job \/ job' = [job EXCEPT ![w] = t]
      OBVIOUS
    <3> QED
      BY <3>1, <3>2
  <2>2. CASE SendMail(w)
    BY <2>2 DEF SendMail
  <2>3. CASE LoseMail(w)
    BY <2>3 DEF LoseMail
  <2> QED
    BY <1>5, <2>1, <2>2, <2>3 DEF Work
<1> QED
  BY <1>1, <1>2, <1>3, <1>4, <1>5 DEF Next

LEMMA DoneFields ==
    ASSUME NEW t, NEW outcome, NEW lines
    PROVE  /\ Done(t, outcome, lines).task = t.task
           /\ Done(t, outcome, lines).order = t.order
           /\ Done(t, outcome, lines).outcome = outcome
           /\ Done(t, outcome, lines).lines = lines
BY DEF Done

(* The lines of an order that no INSERT has used stay empty. *)
LEMMA StepUnused ==
    ASSUME TypeInv, TotalInv, LinesInv, [Next]_vars,
           NEW o \in OrderIds, reply'[o] = None
    PROVE  LinesOf(o)' = {}
<1>1. reply[o] = None
  BY TaskSteps
<1>2. LinesOf(o) = {}
  BY <1>1 DEF LinesInv, LinesStored
<1>3. CASE UNCHANGED <<items, cart>>
  BY <1>2, <1>3 DEF LinesOf, ItemsOf
<1>4. ASSUME NEW h \in Handlers, InsertOrder(h)
      PROVE  LinesOf(o)' = {}
  BY <1>2, <1>4 DEF InsertOrder, NewRow, LinesOf, ItemsOf
<1>5. ASSUME NEW h \in Handlers, InsertItem(h)
      PROVE  LinesOf(o)' = {}
  <2>1. target[h] # o
    BY <1>1, <1>5 DEF TotalInv, Fresh
  <2> QED
    BY <1>2, <1>5, <2>1, InsertedLine
<1> QED
  BY <1>3, <1>4, <1>5, DataSteps

(* A request that sums lines has stored exactly those, step by step. *)
LEMMA StepSummed ==
    ASSUME "destroy" \notin Ops, TypeInv, TotalInv, LinesInv, [Next]_vars,
           NEW g \in Handlers, pc'[g] = "items"
    PROVE  LinesOf(target[g])' = copy'[g].total
<1> USE DEF TypeInv, TypeOK
<1>1. CASE InsertOrder(g)
  <2> PICK o \in OrderIds : InsertOrder(g)!(o)
    BY <1>1 DEF InsertOrder, NewRow
  <2> USE DEF NewRow
  <2>1. LinesOf(o) = {} /\ target'[g] = o /\ copy'[g].total = {}
    BY DEF LinesInv, LinesStored
  <2>2. LinesOf(o)' = LinesOf(o)
    BY DEF LinesOf, ItemsOf
  <2> QED
    BY <2>1, <2>2 DEF LinesOf, ItemsOf
<1>2. CASE InsertItem(g)
  <2>1. target' = target
    BY <1>2 DEF InsertItem, StoreLine
  <2> QED
    BY <1>2, <2>1, InsertedLine
<1>3. CASE ~InsertOrder(g) /\ ~InsertItem(g)
  <2>1. target'[g] = target[g] /\ copy'[g] = copy[g] /\ pc[g] = "items"
    BY <1>3, HandlerSteps DEF Apart, Later, Editing, Placing
  <2>2. LinesOf(target[g]) = copy[g].total /\ target[g] \in OrderIds
    BY <2>1 DEF LinesInv, LinesStored, RequestShape, Holding, Placing
  <2>3. reply[target[g]] = "running"
    BY <2>1 DEF TotalInv, PlacingShape, Placing
  <2> PICK p \in OrderIds : p = target[g] /\ p = target'[g]
    BY <2>1, <2>2
  <2>4. ASSUME NEW h \in Handlers, InsertItem(h)
        PROVE  LinesOf(p)' = LinesOf(p)
    <3>1. h # g
      BY <1>3, <2>4
    <3>2. pc[h] = "items"
      BY <2>4 DEF InsertItem, StoreLine
    <3>3. target[h] # p
      BY <2>1, <3>1, <3>2 DEF TotalInv, PlacingShape, Placing
    <3> QED
      BY <2>4, <3>3, InsertedLine
  <2>5. ASSUME NEW h \in Handlers, InsertOrder(h)
        PROVE  LinesOf(p)' = LinesOf(p)
    BY <2>5 DEF InsertOrder, NewRow, LinesOf, ItemsOf
  <2>6. ASSUME UNCHANGED <<items, cart>>
        PROVE  LinesOf(p)' = LinesOf(p)
    BY <2>6 DEF LinesOf, ItemsOf
  <2>7. LinesOf(p)' = LinesOf(p)
    BY <2>4, <2>5, <2>6, DataSteps
  <2>8. LinesOf(target[g])' = LinesOf(p)' /\ LinesOf(target[g]) = LinesOf(p)
    BY DEF LinesOf, ItemsOf
  <2> QED
    BY <2>1, <2>2, <2>7, <2>8
<1> QED
  BY <1>1, <1>2, <1>3

LEMMA CartStays ==
    ASSUME TypeInv, LinesInv, [Next]_vars, NEW o \in OrderIds, reply[o] # None
    PROVE  cart'[o] = cart[o]
<1>1. ASSUME NEW h \in Handlers, InsertOrder(h)
      PROVE  cart'[o] = cart[o]
  BY <1>1 DEF InsertOrder, NewRow, TypeInv, TypeOK
<1>2. ASSUME NEW h \in Handlers, InsertItem(h)
      PROVE  cart'[o] = cart[o]
  BY <1>2 DEF InsertItem, StoreLine, history
<1> QED
  BY <1>1, <1>2, DataSteps

LEMMA StepStored ==
    ASSUME "destroy" \notin Ops, TypeInv, TotalInv, LinesInv, [Next]_vars
    PROVE  LinesStored'
<1> USE DEF TypeInv, TypeOK
<1>1. ASSUME NEW o \in OrderIds, reply'[o] = None
      PROVE  LinesOf(o)' = {}
  BY <1>1, StepUnused
<1>2. ASSUME NEW g \in Handlers
      PROVE  /\ pc'[g] # "destroy"
             /\ pc'[g] \in Later => Complete(target[g])'
             /\ pc'[g] \in Editing /\ copy'[g].total \notin {{}, Typed} =>
                    Complete(target[g])'
  <2>1. CASE InsertOrder(g)
    BY <2>1 DEF InsertOrder, NewRow, Later, Editing, Holding, Placing
  <2>2. CASE InsertItem(g)
    <3> PICK n \in DOMAIN cart[target[g]] :
            /\ n \in Nat /\ LinesOf(target[g])' = 1 .. n
            /\ cart[target[g]] = basket[g] /\ basket[g] \in Seq(Line)
            /\ pc'[g] = IF n = Len(basket[g]) THEN "total" ELSE "items"
      BY <2>2, InsertedLine
    <3>1. cart' = cart /\ target' = target
      BY <2>2 DEF InsertItem, StoreLine, history
    <3> QED
      BY <3>1 DEF Complete, Later, Editing, Holding, Placing
  <2>3. CASE pc'[g] \in Apart
    BY <2>3 DEF Apart, Later, Editing, Holding, Placing
  <2>4. CASE /\ target'[g] = target[g] /\ copy'[g] = copy[g]
             /\ \/ pc'[g] = pc[g]
                \/ pc[g] \in Later /\ pc'[g] \in Later
                \/ pc[g] \in Editing /\ pc'[g] \in Editing
    <3>1. pc[g] # "destroy" /\ pc'[g] # "destroy"
      BY <2>4 DEF LinesInv, LinesStored, Later, Editing, Placing
    <3>2. ASSUME \/ pc'[g] \in Later
                 \/ pc'[g] \in Editing /\ copy'[g].total \notin {{}, Typed}
          PROVE  Complete(target[g])'
      <4>1. Complete(target[g]) /\ target[g] \in OrderIds
        BY <2>4, <3>2 DEF LinesInv, LinesStored, RequestShape, Later, Editing,
                          Holding, Placing
      <4> PICK p \in OrderIds : p = target[g] /\ p = target'[g]
        BY <2>4, <4>1
      <4>2. reply[p] # None
        BY DEF TotalInv, Fresh
      <4>3. Complete(p)'
        BY <4>1, <4>2, CompleteStays
      <4> QED
        BY <4>3 DEF Complete, LinesOf, ItemsOf
    <3> QED
      BY <3>1, <3>2
  <2>5. CASE /\ pc'[g] \in Editing
             /\ target'[g] \in OrderIds /\ copy'[g] = row[target'[g]]
    <3> PICK p \in OrderIds : p = target'[g]
      BY <2>5
    <3>1. ASSUME copy'[g].total \notin {{}, Typed}
          PROVE  Complete(target[g])'
      <4>1. Billed(p) /\ row[p].total # {}
        BY <2>5, <3>1 DEF Billed
      <4>2. Complete(p) /\ reply[p] # None
        BY <4>1 DEF LinesInv, BilledOrderIsComplete, Complete, TotalInv, Fresh, NoRow
      <4>3. Complete(p)'
        BY <4>2, CompleteStays
      <4> QED
        BY <4>3 DEF Complete, LinesOf, ItemsOf
    <3> QED
      BY <2>5, <3>1 DEF Editing, Later, Holding, Placing
  <2> QED
    BY <2>1, <2>2, <2>3, <2>4, <2>5, HandlerSteps
<1>3. ASSUME NEW g \in Handlers, pc'[g] = "items"
      PROVE  LinesOf(target[g])' = copy'[g].total
  BY <1>3, StepSummed
<1> QED
  BY <1>1, <1>2, <1>3 DEF LinesStored, Later, Editing, Holding, Placing

LEMMA StepBilled ==
    ASSUME TypeInv, TotalInv, LinesInv, [Next]_vars
    PROVE  BilledOrderIsComplete'
<1> SUFFICES ASSUME NEW o \in OrderIds, row'[o].total \notin {{}, Typed}
             PROVE  Complete(o)'
  BY DEF BilledOrderIsComplete, Billed, Complete
<1>1. CASE row'[o].total = row[o].total
  <2>1. Complete(o) /\ reply[o] # None
    BY <1>1 DEF LinesInv, BilledOrderIsComplete, Billed, Complete, TotalInv, Fresh,
                NoRow
  <2> QED
    BY <2>1, CompleteStays
<1>2. ASSUME NEW h \in Handlers, pc[h] \in (Holding \ Placing) \cup {"total"},
             target[h] = o, row'[o].total = copy[h].total
      PROVE  Complete(o)'
  <2>1. Complete(o) /\ reply[o] # None
    BY <1>2 DEF LinesInv, LinesStored, TotalInv, Fresh, Placing
  <2> QED
    BY <2>1, CompleteStays
<1> QED
  BY <1>1, <1>2, RowSteps

LEMMA StepTasks ==
    ASSUME TypeInv, TotalInv, LinesInv, [Next]_vars
    PROVE  TasksComplete' /\ MailListsWholeOrder'
<1> USE DEF TypeInv, TypeOK
<1>1. ASSUME NEW o \in OrderIds, Complete(o), reply[o] # None
      PROVE  Complete(o)' /\ reply'[o] # None
  BY <1>1, CompleteStays, TaskSteps
<1>2. \A t \in broker : /\ t.order \in OrderIds
                         /\ Complete(t.order) /\ reply[t.order] # None
  BY DEF LinesInv, TasksComplete, Task
<1>3. \A w \in Workers : job[w] # NoJob =>
          /\ job[w].order \in OrderIds
          /\ Complete(job[w].order) /\ reply[job[w].order] # None
  BY DEF LinesInv, TasksComplete, Task
<1>4. \A r \in results : r.order \in OrderIds /\ reply[r.order] # None
  BY DEF LinesInv, TasksComplete, Result
<1>5. ASSUME NEW t \in broker'
      PROVE  (Complete(t.order) /\ reply[t.order] # None)'
  <2>1. t.order \in OrderIds /\ Complete(t.order) /\ reply[t.order] # None
    <3>1. CASE t \in broker
      BY <1>2, <3>1
    <3>2. ASSUME NEW h \in Handlers, pc[h] \in {"confirmation", "invoice"},
                 t.order = target[h]
          PROVE  t.order \in OrderIds /\ Complete(t.order) /\ reply[t.order] # None
      BY <3>2 DEF LinesInv, LinesStored, TotalInv, Fresh, RequestShape, Holding,
                  Placing
    <3> QED
      BY <3>1, <3>2, TaskSteps
  <2> QED
    BY <2>1, <1>1
<1>6. ASSUME NEW w \in Workers, job'[w] # NoJob
      PROVE  (Complete(job[w].order) /\ reply[job[w].order] # None)'
  <2>1. PICK t \in broker \cup {job[w]} : t = job'[w] /\ t # NoJob
    BY <1>6, TaskSteps
  <2>2. t.order \in OrderIds /\ Complete(t.order) /\ reply[t.order] # None
    BY <2>1, <1>2, <1>3
  <2>3. Complete(t.order)' /\ reply'[t.order] # None
    BY <2>2, <1>1
  <2> QED
    BY <2>1, <2>3 DEF Complete, LinesOf, ItemsOf
<1>7. ASSUME NEW r \in results'
      PROVE  /\ reply'[r.order] # None
             /\ r.outcome = "sent" => r.lines = DOMAIN cart'[r.order]
  <2>1. CASE r \in results
    BY <2>1, <1>4, CartStays, TaskSteps DEF LinesInv, MailListsWholeOrder
  <2>2. ASSUME NEW t \in broker, r = Done(t, "not found", {})
        PROVE  reply'[r.order] # None /\ r.outcome # "sent"
    <3>1. r.order = t.order /\ r.outcome = "not found"
      BY <2>2 DEF Done
    <3> QED
      BY <3>1, <1>2, TaskSteps
  <2>3. ASSUME NEW w \in Workers, job[w] # NoJob,
               r \in {Done(job[w], "sent", LinesOf(job[w].order)),
                     Done(job[w], "error", {})}
        PROVE  /\ reply'[r.order] # None
               /\ r.outcome = "sent" => r.lines = DOMAIN cart'[r.order]
    <3>1. r.order = job[w].order
      BY <2>3, DoneFields
    <3>2. r.outcome = "sent" => r.lines = LinesOf(r.order)
      BY <2>3, DoneFields
    <3> QED
      BY <2>3, <3>1, <3>2, <1>3, CartStays, TaskSteps DEF Complete
  <2> QED
    BY <2>1, <2>2, <2>3, TaskSteps
<1> QED
  BY <1>5, <1>6, <1>7 DEF TasksComplete, MailListsWholeOrder

(* Without deletions the invariant of the lines holds, and with it: an     *)
(* order that shows its total has all its lines stored, and every mail     *)
(* lists all of them.                                                      *)
THEOREM LinesCorrect ==
    ASSUME "destroy" \notin Ops
    PROVE  Spec => [](BilledOrderIsComplete /\ MailListsWholeOrder)
<1>1. Spec => []TypeInv
  BY TypeCorrect, PTL DEF TypeInv
<1>2. Spec => []TotalInv
  BY <1>1, InitTotal, StepTotal, PTL DEF Spec
<1>3. TypeInv /\ TotalInv /\ LinesInv /\ [Next]_vars => LinesInv'
  BY StepStored, StepBilled, StepTasks DEF LinesInv
<1>4. Spec => []LinesInv
  BY <1>1, <1>2, <1>3, InitLines, PTL DEF Spec
<1>5. LinesInv => BilledOrderIsComplete /\ MailListsWholeOrder
  BY DEF LinesInv
<1> QED
  BY <1>4, <1>5, PTL
=============================================================================
