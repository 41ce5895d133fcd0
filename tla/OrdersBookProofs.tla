-------------------------- MODULE OrdersBookProofs --------------------------
(* While nobody deletes orders, Orders implements OrderBook; and its mails *)
(* go one way: for every set of orders, handlers, workers, accounts, carts *)
(* and edits, with failures.                                               *)
EXTENDS OrdersMailProofs

USE DEF None, Keep

Sized == [o \in OrderIds |-> Len(cart[o])]
Lined == [o \in OrderIds |-> LinesOf(o)]
Priced == [o \in OrderIds |-> Billed(o)]
Mailed == [o \in OrderIds |-> [t \in Tasks |-> MailState(o, t)]]

(* Orders placed through the API have lines, and only they have mails.     *)
CartsFilled ==
    \A o \in OrderIds :
        /\ reply[o] \in {"running", "201", "500"} => cart[o] # <<>>
        /\ reply[o] \in {None, "staff"} => ~Known(Confirmation(o))

LEMMA InitBook == Init => Book!Init
<1> SUFFICES ASSUME Init PROVE Book!Init
  OBVIOUS
<1>1. \A o \in OrderIds : Len(cart[o]) = 0 /\ LinesOf(o) = {} /\ ~Billed(o)
  BY DEF Init, LinesOf, ItemsOf, SeededRow, NoRow, Billed
<1>2. \A o \in OrderIds, t \in Tasks : MailState(o, t) = "none"
  <2> TAKE o \in OrderIds, t \in Tasks
  <2>1. [task |-> t, order |-> o] # NoJob
    BY DEF NoJob, Tasks
  <2> QED
    BY <2>1 DEF Init, MailState, ResultsOf, Places
<1> QED
  BY <1>1, <1>2 DEF Billed, Book!Init, Book!NoMail, Book!Mails, Tasks

-----------------------------------------------------------------------------
(* The state of a mail                                                     *)

Of(o, m) == [task |-> m, order |-> o]

MailOf(rs, known) ==
    IF \E r \in rs : r.outcome = "sent" THEN "sent"
    ELSE IF rs # {} THEN "lost"
    ELSE IF known THEN "queued" ELSE "none"

LEMMA MailIs ==
    ASSUME NEW o \in OrderIds, NEW m \in Tasks
    PROVE  MailState(o, m) = MailOf(ResultsOf(Of(o, m)), Known(Of(o, m)))
<1>1. (\E r \in results : r.task = m /\ r.order = o /\ r.outcome = "sent")
          <=> \E r \in ResultsOf(Of(o, m)) : r.outcome = "sent"
  BY DEF ResultsOf, Of
<1>2. ResultsOf(Of(o, m)) = {} => (Places(Of(o, m)) # {} <=> Known(Of(o, m)))
  BY DEF Places, Known
<1> QED
  BY <1>1, <1>2 DEF MailState, MailOf, Of

LEMMA MailIsNext ==
    ASSUME NEW o \in OrderIds, NEW m \in Tasks
    PROVE  MailState(o, m)' = MailOf(ResultsOf(Of(o, m))', Known(Of(o, m))')
<1>1. (\E r \in results' : r.task = m /\ r.order = o /\ r.outcome = "sent")
          <=> \E r \in ResultsOf(Of(o, m))' : r.outcome = "sent"
  BY DEF ResultsOf, Of
<1>2. ResultsOf(Of(o, m))' = {} => (Places(Of(o, m))' # {} <=> Known(Of(o, m))')
  BY DEF Places, Known
<1> QED
  BY <1>1, <1>2 DEF MailState, MailOf, Of

LEMMA OfTask ==
    /\ \A o \in OrderIds, m \in Tasks : Of(o, m) \in Task
    /\ \A t \in Task : t.order \in OrderIds /\ t.task \in Tasks /\ t = Of(t.order, t.task)
    /\ \A o, p, m, n : Of(o, m) = Of(p, n) <=> o = p /\ m = n
    /\ \A o : Of(o, "confirmation") = Confirmation(o) /\ Of(o, "invoice") = Invoice(o)
  BY DEF Of, Task, Confirmation, Invoice

(* Only the mail of one task changes.                                      *)
LEMMA MailChanged ==
    ASSUME NEW p \in OrderIds, NEW n \in Tasks, NEW s,
           \A t \in Task : t # Of(p, n) =>
               ResultsOf(t)' = ResultsOf(t) /\ (Known(t)' <=> Known(t)),
           MailState(p, n)' = s
    PROVE  Mailed' = [Mailed EXCEPT ![p][n] = s]
<1>1. \A o \in OrderIds, m \in Tasks :
          MailState(o, m)' = IF o = p /\ m = n THEN s ELSE MailState(o, m)
  <2> TAKE o \in OrderIds, m \in Tasks
  <2>1. CASE o = p /\ m = n
    BY <2>1
  <2>2. CASE Of(o, m) # Of(p, n)
    <3>1. Of(o, m) \in Task /\ ~(o = p /\ m = n)
      BY <2>2, OfTask
    <3>2. /\ ResultsOf(Of(o, m))' = ResultsOf(Of(o, m))
          /\ Known(Of(o, m))' <=> Known(Of(o, m))
      BY <2>2, <3>1
    <3>3. MailState(o, m)' = MailState(o, m)
      BY <3>2, MailIs, MailIsNext DEF MailOf
    <3> QED
      BY <3>1, <3>3
  <2> QED
    BY <2>1, <2>2, OfTask
<1> QED
  BY <1>1 DEF Mailed

LEMMA MailKept ==
    ASSUME \A t \in Task : ResultsOf(t)' = ResultsOf(t) /\ (Known(t)' <=> Known(t))
    PROVE  Mailed' = Mailed
<1>1. \A o \in OrderIds, m \in Tasks : MailState(o, m)' = MailState(o, m)
  BY OfTask, MailIs, MailIsNext DEF MailOf
<1> QED
  BY <1>1 DEF Mailed

LEMMA MailSame == UNCHANGED celery => Mailed' = Mailed
  BY MailKept DEF celery, ResultsOf, Known

-----------------------------------------------------------------------------
(* Steps and what they mean for the order book                             *)

LEMMA Stutters ==
    ASSUME UNCHANGED <<items, cart, celery>>, Priced' = Priced
    PROVE  UNCHANGED Book!bookVars
<1>1. Mailed' = Mailed
  BY MailSame
<1>2. Sized' = Sized /\ Lined' = Lined
  BY DEF Sized, Lined, LinesOf, ItemsOf
<1> QED
  BY <1>1, <1>2 DEF Book!bookVars, Sized, Lined, Priced, Mailed

LEMMA Opens ==
    ASSUME TypeInv, TotalInv, NEW h \in Handlers, InsertOrder(h)
    PROVE  Book!Next
<1> PICK o \in OrderIds : InsertOrder(h)!(o)
  BY DEF InsertOrder
<1> USE DEF TypeInv, TypeOK
<1>1. PICK c \in Carts : c = basket[h] /\ c # <<>> /\ c \in Seq(Line)
  BY OrdersAssumption DEF TotalInv, PlacingShape
<1> DEFINE n == Len(c)
<1>2. n \in {Len(b) : b \in Carts} /\ n > 0
  BY <1>1
<1>3. cart[o] = <<>> /\ row[o] = NoRow
  BY DEF TotalInv, Fresh
<1>4. Sized[o] = 0 /\ Sized' = [Sized EXCEPT ![o] = n]
  BY <1>1, <1>3 DEF Sized
<1>5. Lined' = Lined /\ Mailed' = Mailed
  BY MailSame DEF Lined, LinesOf, ItemsOf
<1>6. Priced' = Priced
  BY <1>3 DEF Billed, Priced, NoRow, NewRow
<1>7. Book!Open(o, n)
  BY <1>2, <1>4, <1>5, <1>6 DEF Book!Open, Sized, Lined, Priced, Mailed
<1> QED
  BY <1>7 DEF Book!Next

LEMMA AddsLine ==
    ASSUME TypeInv, TotalInv, LinesInv, NEW h \in Handlers, InsertItem(h)
    PROVE  Book!Next
<1>1. PICK n \in DOMAIN cart[target[h]] :
          /\ n \in Nat /\ target[h] \in OrderIds
          /\ cart[target[h]] = basket[h] /\ basket[h] \in Seq(Line)
          /\ LinesOf(target[h]) = 1 .. (n - 1)
          /\ LinesOf(target[h])' = 1 .. n
          /\ \A p \in OrderIds : p # target[h] => LinesOf(p)' = LinesOf(p)
  BY InsertedLine
<1>2. UNCHANGED <<row, cart, celery, target>>
  BY DEF InsertItem, StoreLine, history
<1> PICK o \in OrderIds : o = target[h] /\ o = target'[h]
  BY <1>1, <1>2
<1>3. /\ LinesOf(o) = LinesOf(target[h])
      /\ LinesOf(o)' = LinesOf(target[h])'
  BY DEF LinesOf, ItemsOf
<1>4. n \in 1 .. Sized[o]
  BY <1>1 DEF Sized
<1>5. Lined[o] = 1 .. (n - 1) /\ Lined' = [Lined EXCEPT ![o] = 1 .. n]
  <2>1. \A p \in OrderIds : LinesOf(p)' = IF p = o THEN 1 .. n ELSE LinesOf(p)
    BY <1>1, <1>3
  <2> QED
    BY <1>1, <1>3, <2>1 DEF Lined
<1>6. Sized' = Sized /\ Priced' = Priced /\ Mailed' = Mailed
  BY <1>2, MailSame DEF Billed, Sized, Priced
<1>7. Book!AddLine(o, n)
  BY <1>4, <1>5, <1>6 DEF Book!AddLine, Sized, Lined, Priced, Mailed
<1> QED
  BY <1>1, <1>4, <1>7 DEF Book!Next, Sized

(* A complete order of the model is one of the book.                       *)
LEMMA CompleteInBook ==
    ASSUME TypeInv, NEW o \in OrderIds, Complete(o), cart[o] # <<>>
    PROVE  Book!Complete(o)
<1>1. cart[o] \in Seq(Line)
  BY OrdersAssumption DEF TypeInv, TypeOK
<1>2. Len(cart[o]) > 0 /\ LinesOf(o) = 1 .. Len(cart[o])
  BY <1>1 DEF Complete
<1> QED
  BY <1>2 DEF Book!Complete

(* A step that writes one row, with a total that is whole.                 *)
LEMMA Saves ==
    ASSUME TypeInv, UNCHANGED <<items, cart, celery>>,
           NEW o \in OrderIds, NEW r, Save(o, r),
           r.total \notin {{}, Typed} => Complete(o) /\ DOMAIN cart[o] # {}
    PROVE  [Book!Next]_(Book!bookVars)
<1>1. Priced' = [Priced EXCEPT ![o] = (r.total \notin {{}, Typed})]
  BY DEF Priced, Billed, Save, TypeInv, TypeOK
<1>2. Sized' = Sized /\ Lined' = Lined /\ Mailed' = Mailed
  BY MailSame DEF Sized, Lined, LinesOf, ItemsOf
<1>3. CASE r.total \notin {{}, Typed}
  <2>1. Book!Complete(o)
    BY <1>3, CompleteInBook
  <2>2. Book!Bill(o)
    BY <1>1, <1>2, <1>3, <2>1 DEF Book!Bill, Sized, Lined, Priced, Mailed
  <2> QED
    BY <2>2 DEF Book!Next
<1>4. CASE r.total \in {{}, Typed}
  <2>1. Book!Unbill(o)
    BY <1>1, <1>2, <1>4 DEF Book!Unbill, Sized, Lined, Priced, Mailed
  <2> QED
    BY <2>1 DEF Book!Next
<1> QED
  BY <1>3, <1>4

LEMMA Queues ==
    ASSUME TypeInv, TotalInv, LinesInv, MailInv, CartsFilled, NEW h \in Handlers,
           NEW m \in Tasks,
           pc[h] = m,
           broker' = broker \cup {Of(target[h], m)},
           UNCHANGED <<row, items, cart, results, job>>
    PROVE  Book!Next
<1>1. pc[h] \in {"confirmation", "invoice"}
  BY DEF Tasks
<1>2. PICK o \in OrderIds : o = target[h]
  BY <1>1 DEF TypeInv, RequestShape, Holding, Placing
<1>3. Complete(o) /\ reply[o] = "running"
  BY <1>1, <1>2 DEF LinesInv, LinesStored, TotalInv, PlacingShape, Placing
<1>4. Book!Complete(o)
  BY <1>3, CompleteInBook DEF CartsFilled
<1>5. /\ ~Known(Of(o, m))
      /\ m = "invoice" => Known(Of(o, "confirmation"))
  BY <1>1, <1>2, OfTask DEF MailInv, PlacingQueues, Placing
<1>6. /\ MailState(o, m) = "none"
      /\ m = "invoice" => MailState(o, "confirmation") # "none"
  BY <1>5, MailIs DEF MailOf, Known, Tasks
<1>7. /\ ResultsOf(Of(o, m))' = {}
      /\ Known(Of(o, m))'
  BY <1>2, <1>5 DEF Known, ResultsOf, Of
<1>8. MailState(o, m)' = "queued"
  BY <1>7, MailIsNext DEF MailOf
<1>9. \A t \in Task : t # Of(o, m) =>
          ResultsOf(t)' = ResultsOf(t) /\ (Known(t)' <=> Known(t))
  BY <1>2 DEF Known, ResultsOf
<1>10. Mailed' = [Mailed EXCEPT ![o][m] = "queued"]
  BY <1>8, <1>9, MailChanged
<1>11. Sized' = Sized /\ Lined' = Lined /\ Priced' = Priced
  BY DEF Billed, Sized, Lined, Priced, LinesOf, ItemsOf
<1>12. /\ Mailed[o][m] = "none"
       /\ m = "invoice" => Mailed[o]["confirmation"] # "none"
  BY <1>6 DEF Mailed, Tasks
<1>13. Book!Queue(o, m)
  BY <1>4, <1>10, <1>11, <1>12 DEF Book!Queue, Sized, Lined, Priced, Mailed
<1> QED
  BY <1>13 DEF Book!Next, Book!Mails, Tasks

(* A task gets its result.                                                 *)
LEMMA Delivers ==
    ASSUME TypeInv, LinesInv, MailInv, CartsFilled, NEW t \in Task,
           t \in broker \/ \E w \in Workers : job[w] = t,
           ResultsOf(t) = {},
           NEW outcome, NEW lines, results' = results \cup {Done(t, outcome, lines)},
           \A u \in Task : Known(u)' <=> Known(u),
           UNCHANGED <<row, items, cart>>
    PROVE  Book!Next
<1> PICK o \in OrderIds, m \in Tasks : t = Of(o, m)
  BY OfTask
<1>1. t.order = o /\ t.task = m /\ Known(Of(o, m)) /\ t # NoJob
  BY NoJobIsNoTask DEF Of, Known
<1>2. Known(Confirmation(o))
  BY <1>1, OfTask DEF MailInv, RepliesMean, Tasks
<1>3. Complete(o) /\ cart[o] # <<>>
  BY <1>1, <1>2 DEF LinesInv, TasksComplete, CartsFilled, TypeInv, TypeOK
<1>4. Book!Complete(o)
  BY <1>3, CompleteInBook
<1>5. MailState(o, m) = "queued"
  BY <1>1, MailIs DEF MailOf
<1> DEFINE d == Done(t, outcome, lines)
           state == IF outcome = "sent" THEN "sent" ELSE "lost"
<1>6. d.task = m /\ d.order = o /\ d.outcome = outcome /\ results' = results \cup {d}
  BY <1>1, DoneFields
<1> HIDE DEF d
<1>7. ResultsOf(Of(o, m))' = {d}
  BY <1>1, <1>6 DEF ResultsOf
<1>8. MailState(o, m)' = state
  BY <1>6, <1>7, MailIsNext DEF MailOf
<1>9. \A u \in Task : u # Of(o, m) =>
          ResultsOf(u)' = ResultsOf(u) /\ (Known(u)' <=> Known(u))
  BY <1>6, OfTask DEF ResultsOf
<1>10. Mailed' = [Mailed EXCEPT ![o][m] = state]
  BY <1>8, <1>9, MailChanged
<1>11. Sized' = Sized /\ Lined' = Lined /\ Priced' = Priced
  BY DEF Billed, Sized, Lined, Priced, LinesOf, ItemsOf
<1>12. Mailed[o][m] = "queued" /\ state \in {"sent", "lost"}
  BY <1>5 DEF Mailed
<1> HIDE DEF state
<1>13. Book!Deliver(o, m, state)
  BY <1>4, <1>10, <1>11, <1>12 DEF Book!Deliver, Sized, Lined, Priced, Mailed
<1> QED
  BY <1>12, <1>13 DEF Book!Next, Book!Mails, Tasks

(* save() of the copy that a request holds.                                *)
LEMMA SavesCopy ==
    ASSUME TypeInv, TotalInv, LinesInv, NEW h \in Handlers, NEW r,
           pc[h] \in {"confirm", "cancel", "update", "form", "total"},
           Save(target[h], r), r.total \in {copy[h].total, Typed},
           UNCHANGED <<items, cart, celery>>
    PROVE  [Book!Next]_(Book!bookVars)
<1> PICK o \in OrderIds : o = target[h]
  BY DEF TypeInv, RequestShape, Holding, Placing
<1>1. r.total \in {{}, Typed, DOMAIN cart[o]}
  BY DEF TotalInv, PlacingShape, CopiesWhole, Holding, Placing
<1>2. r.total \notin {{}, Typed} => Complete(o)
  BY DEF LinesInv, LinesStored, Holding, Placing
<1> QED
  BY <1>1, <1>2, Saves

LEMMA Works ==
    ASSUME TypeInv, LinesInv, MailInv, CartsFilled, NEW w \in Workers, Work(w)
    PROVE  [Book!Next]_(Book!bookVars)
<1>1. UNCHANGED <<row, items, cart>>
  BY DEF Work, TakeTask, Take, SendMail, LoseMail, database, history
<1>2. \A t \in Task : Known(t)' <=> Known(t)
  BY WorkOnce
<1>3. CASE results' = results
  <2>1. Mailed' = Mailed
    BY <1>2, <1>3, MailKept DEF ResultsOf
  <2>2. Sized' = Sized /\ Lined' = Lined /\ Priced' = Priced
    BY <1>1 DEF Billed, Sized, Lined, Priced, LinesOf, ItemsOf
  <2> QED
    BY <2>1, <2>2 DEF Book!bookVars, Sized, Lined, Priced, Mailed
<1>4. ASSUME NEW t \in Task, t \in broker \/ job[w] = t, NEW outcome, NEW lines,
             results' = results \cup {Done(t, outcome, lines)}
      PROVE  Book!Next
  <2>1. ResultsOf(t) = {}
    BY <1>4 DEF MailInv, Once
  <2> QED
    BY <1>1, <1>2, <1>4, <2>1, Delivers
<1>5. CASE TakeTask(w)
  <2> PICK t \in broker : Take(w, t)
    BY <1>5 DEF TakeTask, Take
  <2>1. t \in Task
    BY DEF TypeInv, TypeOK
  <2> QED
    BY <1>3, <1>4, <2>1 DEF Take
<1>6. CASE SendMail(w) \/ LoseMail(w)
  <2> PICK t : t = job[w]
    OBVIOUS
  <2>1. t \in Task
    BY <1>6 DEF SendMail, LoseMail, TypeInv, TypeOK
  <2>2. \/ results' = results \cup {Done(t, "sent", LinesOf(t.order))}
        \/ results' = results \cup {Done(t, "error", {})}
    BY <1>6 DEF SendMail, LoseMail
  <2> QED
    BY <1>4, <2>1, <2>2
<1> QED
  BY <1>5, <1>6 DEF Work

-----------------------------------------------------------------------------
(* Orders that are placed through the API have lines.                      *)

LEMMA InitFilled == Init => CartsFilled
<1> SUFFICES ASSUME Init PROVE CartsFilled
  OBVIOUS
<1>1. \A o \in OrderIds : ~Known(Confirmation(o))
  BY NoJobIsNoTask, TaskTyped DEF Init, Known, ResultsOf
<1> QED
  BY <1>1 DEF Init, CartsFilled

(* A step that queues no confirmation and places no order.                 *)
LEMMA SameFilled ==
    ASSUME CartsFilled, cart' = cart,
           \A t \in Task : t.task = "confirmation" => (Known(t)' <=> Known(t)),
           \A o \in OrderIds :
               \/ reply'[o] = reply[o]
               \/ reply[o] = "running" /\ reply'[o] \in {"201", "500"}
    PROVE  CartsFilled'
<1>1. \A o \in OrderIds : Known(Confirmation(o))' <=> Known(Confirmation(o))
  BY TaskTyped DEF Confirmation
<1> QED
  BY <1>1 DEF CartsFilled

LEMMA StepFilled ==
    ASSUME TypeInv, TotalInv, MailInv, CartsFilled, [Next]_vars
    PROVE  CartsFilled'
<1>1. ASSUME cart' = cart, UNCHANGED celery,
             \/ reply' = reply
             \/ \E h \in Handlers : /\ pc[h] \in Placing
                                     /\ reply' = [reply EXCEPT ![target[h]] = "500"]
      PROVE  CartsFilled'
  <2>1. \A t \in Task : Known(t)' <=> Known(t)
    BY <1>1 DEF celery, Known, ResultsOf
  <2>2. \A o \in OrderIds :
            \/ reply'[o] = reply[o]
            \/ reply[o] = "running" /\ reply'[o] \in {"201", "500"}
    BY <1>1 DEF TotalInv, PlacingShape, TypeInv, TypeOK
  <2> QED
    BY <1>1, <2>1, <2>2, SameFilled
<1>2. CASE UNCHANGED vars
  BY <1>1, <1>2 DEF vars, celery
<1>3. ASSUME NEW h \in Handlers, Arrive(h) \/ Submit(h) \/ HandlerFails(h)
      PROVE  CartsFilled'
  BY <1>1, <1>3 DEF Arrive, BeginCreate, LoadForConfirm, LoadForCancel, LoadForDestroy,
        AdminOpen, LoadForUpdate, LoadToggle, Load, Submit, AdminSubmit,
        AdminSubmitGone, HandlerFails, history, Placing
<1>4. ASSUME NEW h \in Handlers, Continue(h)
      PROVE  CartsFilled'
  <2>1. CASE InsertOrder(h)
    <3> PICK o \in OrderIds : InsertOrder(h)!(o)
      BY <2>1 DEF InsertOrder
    <3>1. basket[h] # <<>>
      BY DEF TotalInv, PlacingShape
    <3>2. \A p \in OrderIds : Known(Confirmation(p))' <=> Known(Confirmation(p))
      BY DEF celery, Known, ResultsOf, Confirmation
    <3> QED
      BY <3>1, <3>2 DEF CartsFilled, TypeInv, TypeOK
  <2>2. CASE QueueConfirmation(h)
    <3> PICK o \in OrderIds : o = target[h] /\ reply[o] = "running"
      BY <2>2 DEF QueueConfirmation, TypeInv, RequestShape, Holding, Placing, TotalInv,
                  PlacingShape
    <3>1. /\ broker' = broker \cup {Confirmation(o)}
          /\ UNCHANGED <<results, job, cart, reply>>
      BY <2>2 DEF QueueConfirmation, Confirmation, history
    <3>2. \A p \in OrderIds :
              p # o => (Known(Confirmation(p))' <=> Known(Confirmation(p)))
      BY <3>1 DEF Known, ResultsOf, Confirmation
    <3> QED
      BY <3>1, <3>2 DEF CartsFilled
  <2>3. CASE QueueInvoice(h)
    <3> PICK o \in OrderIds : o = target[h] /\ reply[o] = "running"
      BY <2>3 DEF QueueInvoice, TypeInv, RequestShape, Holding, Placing, TotalInv,
                  PlacingShape
    <3>1. /\ broker' = broker \cup {Invoice(o)}
          /\ UNCHANGED <<results, job, cart>>
          /\ reply' = [reply EXCEPT ![o] = "201"]
      BY <2>3 DEF QueueInvoice, Invoice
    <3>2. \A t \in Task : t.task = "confirmation" => (Known(t)' <=> Known(t))
      BY <3>1 DEF Known, ResultsOf, Invoice
    <3>3. \A p \in OrderIds : reply'[p] = IF p = o THEN "201" ELSE reply[p]
      BY <3>1 DEF TypeInv, TypeOK
    <3> QED
      BY <3>1, <3>2, <3>3, SameFilled
  <2>4. CASE \/ InsertItem(h) \/ InsertItemFails(h) \/ SaveTotal(h) \/ CheckItems(h)
             \/ SaveConfirm(h) \/ SaveCancel(h) \/ SaveUpdate(h) \/ Delete(h)
             \/ SaveToggle(h)
    BY <1>1, <2>4 DEF InsertItem, StoreLine, InsertItemFails, SaveTotal, CheckItems,
          SaveConfirm, SaveCancel, SaveUpdate, Delete, SaveToggle, history, Placing
  <2> QED
    BY <1>4, <2>1, <2>2, <2>3, <2>4 DEF Continue
<1>5. ASSUME NEW w \in Workers, Work(w)
      PROVE  CartsFilled'
  <2>1. UNCHANGED <<cart, reply>>
    BY <1>5 DEF Work, TakeTask, Take, SendMail, LoseMail, history
  <2> QED
    BY <1>5, <2>1, WorkOnce, SameFilled
<1> QED
  BY <1>2, <1>3, <1>4, <1>5 DEF Next

-----------------------------------------------------------------------------
(* The refinement                                                          *)

LEMMA StepBook ==
    ASSUME TypeInv, TotalInv, LinesInv, MailInv, CartsFilled, [Next]_vars
    PROVE  [Book!Next]_(Book!bookVars)
<1>1. ASSUME UNCHANGED <<row, items, cart, celery>>
      PROVE  UNCHANGED Book!bookVars
  BY <1>1, Stutters DEF Billed, Priced
<1>2. CASE UNCHANGED vars
  BY <1>1, <1>2 DEF vars, celery
<1>3. ASSUME NEW h \in Handlers, Arrive(h)
      PROVE  UNCHANGED Book!bookVars
  BY <1>1, <1>3 DEF Arrive, BeginCreate, LoadForConfirm, LoadForCancel, LoadForDestroy,
        AdminOpen, LoadForUpdate, LoadToggle, Load, database, history
<1>4. ASSUME NEW h \in Handlers, Continue(h)
      PROVE  [Book!Next]_(Book!bookVars)
  <2>1. CASE InsertOrder(h)
    BY <2>1, Opens
  <2>2. CASE InsertItem(h)
    BY <2>2, AddsLine
  <2>3. CASE QueueConfirmation(h)
    <3>1. /\ pc[h] = "confirmation" /\ broker' = broker \cup {Of(target[h], "confirmation")}
          /\ UNCHANGED <<row, items, cart, results, job>>
      BY <2>3 DEF QueueConfirmation, Of, database, history
    <3> QED
      BY <3>1, Queues DEF Tasks
  <2>4. CASE QueueInvoice(h)
    <3>1. /\ pc[h] = "invoice" /\ broker' = broker \cup {Of(target[h], "invoice")}
          /\ UNCHANGED <<row, items, cart, results, job>>
      BY <2>4 DEF QueueInvoice, Of, database
    <3> QED
      BY <3>1, Queues DEF Tasks
  <2>5. CASE SaveTotal(h)
    <3>1. UNCHANGED <<items, cart, celery>>
      BY <2>5 DEF SaveTotal, history
    <3> QED
      BY <2>5, <3>1, SavesCopy DEF SaveTotal
  <2>6. CASE SaveConfirm(h)
    <3>1. copy[h] \in Row /\ who[h] \in Suppliers
      BY <2>6 DEF SaveConfirm, TypeInv, RequestShape, Holding
    <3>2. UNCHANGED <<items, cart, celery>>
      BY <2>6 DEF SaveConfirm, history
    <3> QED
      BY <2>6, <3>1, <3>2, ConfirmedRow, SavesCopy DEF SaveConfirm
  <2>7. CASE SaveCancel(h)
    <3>1. copy[h] \in Row
      BY <2>7 DEF SaveCancel, TypeInv, RequestShape, Holding
    <3>2. UNCHANGED <<items, cart, celery>>
      BY <2>7 DEF SaveCancel, history
    <3> QED
      BY <2>7, <3>1, <3>2, CancelledRow, SavesCopy DEF SaveCancel
  <2>8. CASE SaveUpdate(h)
    <3>1. copy[h] \in Row /\ edit[h] \in Edits
      BY <2>8 DEF SaveUpdate, TypeInv, TypeOK, RequestShape, Holding
    <3>2. UNCHANGED <<items, cart, celery>>
      BY <2>8 DEF SaveUpdate, history
    <3> QED
      BY <2>8, <3>1, <3>2, AppliedRow, SavesCopy DEF SaveUpdate
  <2>9. CASE InsertItemFails(h) \/ CheckItems(h) \/ SaveToggle(h)
    BY <1>1, <2>9 DEF InsertItemFails, CheckItems, SaveToggle, database, history
  <2>10. ~Delete(h)
    BY DEF Delete, LinesInv, LinesStored
  <2> QED
    BY <1>4, <2>1, <2>2, <2>3, <2>4, <2>5, <2>6, <2>7, <2>8, <2>9, <2>10 DEF Continue
<1>5. ASSUME NEW h \in Handlers, NEW e \in Edits, NEW t \in Amounts(h),
             AdminSubmit(h, e, t)
      PROVE  [Book!Next]_(Book!bookVars)
  <2>1. copy[h] \in Row /\ row[target[h]] \in Row
    BY <1>5 DEF AdminSubmit, Exists, TypeInv, TypeOK, RequestShape, Holding
  <2>2. row[target[h]].confirmed \in Suppliers \cup {None}
    BY <2>1 DEF Row
  <2>3. UNCHANGED <<items, cart, celery>>
    BY <1>5 DEF AdminSubmit, history
  <2> QED
    BY <1>5, <2>1, <2>2, <2>3, SubmittedRow, AmountsTyped, SavesCopy DEF AdminSubmit
<1>6. ASSUME NEW h \in Handlers, AdminSubmitGone(h) \/ HandlerFails(h)
      PROVE  UNCHANGED Book!bookVars
  BY <1>1, <1>6 DEF AdminSubmitGone, HandlerFails, database, history
<1>7. ASSUME NEW w \in Workers, Work(w)
      PROVE  [Book!Next]_(Book!bookVars)
  BY <1>7, Works
<1> QED
  BY <1>1, <1>2, <1>3, <1>4, <1>5, <1>6, <1>7 DEF Next, Submit, vars, celery

(* While nobody deletes orders, the service does to orders and their mails  *)
(* what the order book allows and nothing else.                             *)
THEOREM BookCorrect ==
    ASSUME "destroy" \notin Ops
    PROVE  Spec => ImplementsBook
<1> DEFINE I == TypeInv /\ TotalInv /\ LinesInv /\ MailInv /\ CartsFilled
<1>1. Init => I
  BY InitTyped, InitTotal, InitLines, InitMail, InitFilled
<1>2. I /\ [Next]_vars => I'
  BY StepTyped, StepTotal, StepStored, StepBilled, StepTasks, StepMail, StepFilled
     DEF LinesInv
<1>3. I /\ [Next]_vars => [Book!Next]_(Book!bookVars)
  BY StepBook
<1> QED
  BY <1>1, <1>2, <1>3, InitBook, PTL DEF Spec, ImplementsBook, Book!Spec

-----------------------------------------------------------------------------
(* The way of a mail, also while orders are deleted.                       *)

Onward == {<<"none", "queued">>, <<"queued", "sent">>, <<"queued", "lost">>}

MailGoes(o, m) ==
    \/ MailState(o, m)' = MailState(o, m)
    \/ <<MailState(o, m), MailState(o, m)'>> \in Onward

(* A task that is queued, again or not, by a request.                      *)
LEMMA QueuedGoes ==
    ASSUME NEW o \in OrderIds, NEW m \in Tasks, NEW t,
           broker' = broker \cup {t}, UNCHANGED <<results, job>>
    PROVE  MailGoes(o, m)
<1>1. ResultsOf(Of(o, m))' = ResultsOf(Of(o, m))
  BY DEF ResultsOf
<1>2. Known(Of(o, m)) => Known(Of(o, m))'
  BY <1>1 DEF Known
<1> QED
  BY <1>1, <1>2, MailIs, MailIsNext DEF MailOf, MailGoes, Onward

(* A result is that of a task which was queued and had none.               *)
LEMMA DoneGoes ==
    ASSUME NEW o \in OrderIds, NEW m \in Tasks, NEW t \in Task, Known(t),
           ResultsOf(t) = {}, NEW outcome, NEW lines,
           results' = results \cup {Done(t, outcome, lines)},
           \A u \in Task : Known(u)' <=> Known(u)
    PROVE  MailGoes(o, m)
<1> DEFINE d == Done(t, outcome, lines)
<1>1. d.task = t.task /\ d.order = t.order /\ d.outcome = outcome
  BY DoneFields
<1> HIDE DEF d
<1>2. results' = results \cup {d}
  BY DEF d
<1>3. CASE t = Of(o, m)
  <2>1. ResultsOf(t)' = {d}
    BY <1>1, <1>2 DEF ResultsOf
  <2>2. MailState(o, m) = "queued"
    BY <1>3, MailIs DEF MailOf
  <2>3. MailState(o, m)' = IF outcome = "sent" THEN "sent" ELSE "lost"
    BY <1>1, <1>3, <2>1, MailIsNext DEF MailOf
  <2> QED
    BY <2>2, <2>3 DEF MailGoes, Onward
<1>4. CASE t # Of(o, m)
  <2>1. Of(o, m) \in Task /\ ~(t.order = o /\ t.task = m)
    BY <1>4, OfTask
  <2>2. ResultsOf(Of(o, m))' = ResultsOf(Of(o, m))
    BY <1>1, <1>2, <2>1 DEF ResultsOf, Of
  <2>3. MailState(o, m)' = MailState(o, m)
    BY <2>1, <2>2, MailIs, MailIsNext DEF MailOf
  <2> QED
    BY <2>3 DEF MailGoes
<1> QED
  BY <1>3, <1>4

LEMMA WorkGoes ==
    ASSUME TypeInv, MailInv, NEW o \in OrderIds, NEW m \in Tasks,
           NEW w \in Workers, Work(w)
    PROVE  MailGoes(o, m)
<1>1. \A t \in Task : Known(t)' <=> Known(t)
  BY WorkOnce
<1>2. CASE results' = results
  <2>1. Mailed' = Mailed
    BY <1>1, <1>2, MailKept DEF ResultsOf
  <2> QED
    BY <2>1 DEF Mailed, MailGoes
<1>3. ASSUME NEW t \in Task, t \in broker \/ job[w] = t, NEW outcome, NEW lines,
             results' = results \cup {Done(t, outcome, lines)}
      PROVE  MailGoes(o, m)
  <2>1. ResultsOf(t) = {} /\ Known(t)
    BY <1>3 DEF MailInv, Once, Known
  <2> QED
    BY <1>1, <1>3, <2>1, DoneGoes
<1>4. CASE TakeTask(w)
  <2> PICK t \in broker : Take(w, t)
    BY <1>4 DEF TakeTask, Take
  <2>1. t \in Task
    BY DEF TypeInv, TypeOK
  <2> QED
    BY <1>2, <1>3, <2>1 DEF Take
<1>5. CASE SendMail(w) \/ LoseMail(w)
  <2> PICK t : t = job[w]
    OBVIOUS
  <2>1. t \in Task
    BY <1>5 DEF SendMail, LoseMail, TypeInv, TypeOK
  <2>2. \/ results' = results \cup {Done(t, "sent", LinesOf(t.order))}
        \/ results' = results \cup {Done(t, "error", {})}
    BY <1>5 DEF SendMail, LoseMail
  <2> QED
    BY <1>3, <2>1, <2>2
<1> QED
  BY <1>4, <1>5 DEF Work

(* A confirmation or an invoice goes its way once and in one direction,    *)
(* from nothing to the queue and from there to being sent or lost, however *)
(* requests and workers interleave and fail, and also when the order is    *)
(* deleted meanwhile: what is sent or lost is never queued or sent again.  *)
THEOREM MailsGoOnward ==
    Spec => [][\A o \in OrderIds, m \in Tasks :
                   \/ MailState(o, m)' = MailState(o, m)
                   \/ <<MailState(o, m), MailState(o, m)'>> \in Onward]_vars
<1>1. TypeInv /\ MailInv /\ [Next]_vars =>
          \A o \in OrderIds, m \in Tasks :
              \/ MailState(o, m)' = MailState(o, m)
              \/ <<MailState(o, m), MailState(o, m)'>> \in Onward
  <2> SUFFICES ASSUME TypeInv, MailInv, [Next]_vars, NEW o \in OrderIds, NEW m \in Tasks
               PROVE  MailGoes(o, m)
    BY DEF MailGoes
  <2>1. CASE UNCHANGED celery
    <3>1. Mailed' = Mailed
      BY <2>1, MailSame
    <3> QED
      BY <3>1 DEF Mailed, MailGoes
  <2>2. ASSUME NEW h \in Handlers, QueueConfirmation(h) \/ QueueInvoice(h)
        PROVE  MailGoes(o, m)
    BY <2>2, QueuedGoes DEF QueueConfirmation, QueueInvoice
  <2>3. ASSUME NEW h \in Handlers, Arrive(h) \/ Submit(h) \/ HandlerFails(h)
        PROVE  UNCHANGED celery
    BY <2>3 DEF Arrive, BeginCreate, LoadForConfirm, LoadForCancel, LoadForUpdate,
                LoadForDestroy, AdminOpen, LoadToggle, Load, Submit, AdminSubmit,
                AdminSubmitGone, HandlerFails
  <2>4. ASSUME NEW h \in Handlers, Continue(h),
               ~QueueConfirmation(h), ~QueueInvoice(h)
        PROVE  UNCHANGED celery
    BY <2>4 DEF Continue, InsertOrder, InsertItem, StoreLine, InsertItemFails,
                SaveTotal, CheckItems, SaveConfirm, SaveCancel, SaveUpdate, Delete,
                SaveToggle
  <2>5. ASSUME NEW w \in Workers, Work(w) PROVE MailGoes(o, m)
    BY <2>5, WorkGoes
  <2> QED
    BY <2>1, <2>2, <2>3, <2>4, <2>5 DEF Next, vars, celery
<1>2. TypeInv /\ TotalInv /\ MailInv /\ [Next]_vars => (TypeInv /\ TotalInv /\ MailInv)'
  BY StepTyped, StepTotal, StepMail
<1>3. Init => TypeInv /\ TotalInv /\ MailInv
  BY InitTyped, InitTotal, InitMail
<1> QED
  BY <1>1, <1>2, <1>3, PTL DEF Spec
=============================================================================
