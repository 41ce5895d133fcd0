-------------------------- MODULE OrdersMailProofs --------------------------
(* What becomes of the two mails of an order, for every set of orders,     *)
(* handlers, workers, accounts, carts and edits; deletions and failures    *)
(* included.                                                               *)
EXTENDS OrdersProofs

Confirmation(o) == [task |-> "confirmation", order |-> o]
Invoice(o) == [task |-> "invoice", order |-> o]

(* The task has been queued at some time. *)
Known(t) ==
    \/ t \in broker
    \/ \E w \in Workers : job[w] = t
    \/ ResultsOf(t) # {}

(* A task is in one place only, and has one result at most. *)
Once(t) ==
    /\ t \in broker => ResultsOf(t) = {} /\ \A w \in Workers : job[w] # t
    /\ \A w \in Workers :
           job[w] = t => /\ ResultsOf(t) = {}
                         /\ \A v \in Workers : job[v] = t => v = w
    /\ \A r, s \in ResultsOf(t) : r = s

(* What the answer to a client says about the mails of the order. *)
RepliesMean ==
    \A o \in OrderIds :
        /\ reply[o] = None => ~Known(Confirmation(o))
        /\ Known(Invoice(o)) => Known(Confirmation(o))
        /\ reply[o] = "201" => Known(Invoice(o))

(* How far a request that places an order has come with its mails. *)
PlacingQueues ==
    \A h \in Handlers :
        /\ pc[h] \in Placing => ~Known(Invoice(target[h]))
        /\ pc[h] \in Placing \ {"invoice"} => ~Known(Confirmation(target[h]))
        /\ pc[h] = "invoice" => Known(Confirmation(target[h]))

MailInv == (\A t \in Task : Once(t)) /\ RepliesMean /\ PlacingQueues

USE DEF None, Keep

LEMMA TaskTyped ==
    \A o \in OrderIds : Confirmation(o) \in Task /\ Invoice(o) \in Task
  BY DEF Confirmation, Invoice, Task, Tasks

LEMMA NoJobIsNoTask == NoJob \notin Task
  BY DEF NoJob, Task, Tasks

LEMMA InitMail == Init => MailInv
<1> SUFFICES ASSUME Init PROVE MailInv
  OBVIOUS
<1>1. \A t \in Task : Once(t) /\ ~Known(t)
  BY NoJobIsNoTask DEF Init, Once, Known, ResultsOf
<1>2. \A o \in OrderIds : reply[o] # "201"
  BY DEF Init
<1>3. RepliesMean
  BY <1>1, <1>2, TaskTyped DEF RepliesMean
<1>4. PlacingQueues
  BY DEF Init, PlacingQueues, Placing
<1> QED
  BY <1>1, <1>3, <1>4 DEF MailInv

(* A step that neither queues a task nor runs one.                         *)
LEMMA SameMail ==
    ASSUME TypeInv, TotalInv, MailInv, TypeInv', UNCHANGED celery,
           \A o \in OrderIds : reply'[o] = reply[o] \/ reply'[o] \notin {None, "201"},
           \A h \in Handlers : pc'[h] \in Placing =>
               \/ /\ target'[h] = target[h] /\ pc[h] \in Placing
                  /\ pc'[h] = "invoice" <=> pc[h] = "invoice"
               \/ /\ pc'[h] = "items" /\ target'[h] \in OrderIds
                  /\ reply[target'[h]] = None
    PROVE  MailInv'
<1>1. \A t : (Known(t)' <=> Known(t')) /\ (Once(t)' <=> Once(t'))
  BY DEF celery, Known, Once, ResultsOf
<1>2. \A t \in Task : Once(t)'
  BY DEF MailInv, celery, Once, ResultsOf
<1>3. \A o \in OrderIds : /\ Known(Confirmation(o))' <=> Known(Confirmation(o))
                          /\ Known(Invoice(o))' <=> Known(Invoice(o))
  BY DEF celery, Known, ResultsOf, Confirmation, Invoice
<1>4. RepliesMean'
  BY <1>3 DEF MailInv, RepliesMean
<1>5. PlacingQueues'
  <2> SUFFICES ASSUME NEW h \in Handlers, pc'[h] \in Placing,
                      NEW o \in OrderIds \cup {None}, o = target'[h]
               PROVE  /\ ~Known(Invoice(o))'
                      /\ pc'[h] # "invoice" => ~Known(Confirmation(o))'
                      /\ pc'[h] = "invoice" => Known(Confirmation(o))'
    <3>1. \A h \in Handlers : target'[h] \in OrderIds \cup {None}
      BY DEF TypeInv, TypeOK
    <3> QED
      BY <3>1 DEF PlacingQueues, Placing
  <2>1. CASE /\ o = target[h] /\ pc[h] \in Placing
             /\ pc'[h] = "invoice" <=> pc[h] = "invoice"
    <3>1. o \in OrderIds
      BY <2>1 DEF TypeInv, RequestShape, Holding
    <3> QED
      BY <2>1, <3>1, <1>3 DEF MailInv, PlacingQueues
  <2>2. CASE pc'[h] = "items" /\ o \in OrderIds /\ reply[o] = None
    BY <2>2, <1>3 DEF MailInv, RepliesMean
  <2> QED
    BY <2>1, <2>2
<1> QED
  BY <1>2, <1>4, <1>5 DEF MailInv

(* A new task in the queue. *)
LEMMA QueueOnce ==
    ASSUME MailInv, NEW t \in Task, ~Known(t), broker' = broker \cup {t},
           UNCHANGED <<results, job>>
    PROVE  \A s \in Task : Once(s)' /\ (Known(s)' <=> Known(s) \/ s = t)
  BY DEF MailInv, Once, Known, ResultsOf

LEMMA ConfirmationMail ==
    ASSUME TypeInv, TotalInv, MailInv, NEW h \in Handlers, QueueConfirmation(h)
    PROVE  MailInv'
<1> DEFINE o == target[h]
<1>1. /\ pc[h] = "confirmation" /\ o \in OrderIds /\ reply[o] = "running"
      /\ ~Known(Confirmation(o)) /\ ~Known(Invoice(o))
  BY DEF QueueConfirmation, TypeInv, RequestShape, Holding, Placing, TotalInv,
         PlacingShape, MailInv, PlacingQueues
<1>2. /\ broker' = broker \cup {Confirmation(o)}
      /\ UNCHANGED <<results, job, target, reply>>
      /\ pc' = [pc EXCEPT ![h] = "invoice"]
  BY DEF QueueConfirmation, Confirmation, history
<1>3. \A s \in Task : Once(s)' /\ (Known(s)' <=> Known(s) \/ s = Confirmation(o))
  BY <1>1, <1>2, TaskTyped, QueueOnce
<1>4. \A p \in OrderIds :
          /\ Known(Confirmation(p))' <=> Known(Confirmation(p)) \/ p = o
          /\ Known(Invoice(p))' <=> Known(Invoice(p))
  <2> TAKE p \in OrderIds
  <2>1. /\ Confirmation(p) \in Task /\ Invoice(p) \in Task
        /\ Confirmation(p) = Confirmation(o) <=> p = o
        /\ Invoice(p) # Confirmation(o)
    BY TaskTyped DEF Confirmation, Invoice
  <2> QED
    BY <1>3, <2>1
<1>5. RepliesMean'
  BY <1>1, <1>2, <1>4 DEF MailInv, RepliesMean
<1>6. PlacingQueues'
  <2> SUFFICES ASSUME NEW g \in Handlers, pc'[g] \in Placing
               PROVE  /\ ~Known(Invoice(target[g]))'
                      /\ pc'[g] # "invoice" => ~Known(Confirmation(target[g]))'
                      /\ pc'[g] = "invoice" => Known(Confirmation(target[g]))'
    BY <1>2 DEF PlacingQueues, Placing
  <2>1. pc[g] \in Placing /\ target[g] \in OrderIds
    BY <1>1, <1>2 DEF TypeInv, TypeOK, RequestShape, Holding, Placing
  <2>2. g # h => pc'[g] = pc[g] /\ target[g] # o
    BY <1>1, <1>2, <2>1 DEF TotalInv, PlacingShape, TypeInv, TypeOK, Placing
  <2>3. pc'[h] = "invoice"
    BY <1>2 DEF TypeInv, TypeOK
  <2>4. CASE g = h
    BY <1>1, <1>2, <1>4, <2>3, <2>4
  <2>5. CASE g # h
    BY <1>2, <1>4, <2>1, <2>2, <2>5 DEF MailInv, PlacingQueues
  <2> QED
    BY <2>4, <2>5
<1> QED
  BY <1>3, <1>5, <1>6 DEF MailInv

LEMMA InvoiceMail ==
    ASSUME TypeInv, TotalInv, MailInv, NEW h \in Handlers, QueueInvoice(h)
    PROVE  MailInv'
<1> DEFINE o == target[h]
<1>1. /\ pc[h] = "invoice" /\ o \in OrderIds /\ reply[o] = "running"
      /\ Known(Confirmation(o)) /\ ~Known(Invoice(o))
  BY DEF QueueInvoice, TypeInv, RequestShape, Holding, Placing, TotalInv,
         PlacingShape, MailInv, PlacingQueues
<1>2. /\ broker' = broker \cup {Invoice(o)}
      /\ UNCHANGED <<results, job>>
      /\ reply' = [reply EXCEPT ![o] = "201"]
      /\ pc' = [pc EXCEPT ![h] = "idle"]
      /\ target' = [target EXCEPT ![h] = None]
  BY DEF QueueInvoice, Invoice, Answer
<1>3. \A s \in Task : Once(s)' /\ (Known(s)' <=> Known(s) \/ s = Invoice(o))
  BY <1>1, <1>2, TaskTyped, QueueOnce
<1>4. \A p \in OrderIds :
          /\ Known(Confirmation(p))' <=> Known(Confirmation(p))
          /\ Known(Invoice(p))' <=> Known(Invoice(p)) \/ p = o
  <2> TAKE p \in OrderIds
  <2>1. /\ Confirmation(p) \in Task /\ Invoice(p) \in Task
        /\ Invoice(p) = Invoice(o) <=> p = o
        /\ Confirmation(p) # Invoice(o)
    BY TaskTyped DEF Confirmation, Invoice
  <2> QED
    BY <1>3, <2>1
<1>5. RepliesMean'
  <2>1. \A p \in OrderIds : reply'[p] = IF p = o THEN "201" ELSE reply[p]
    BY <1>2 DEF TypeInv, TypeOK
  <2> QED
    BY <1>1, <2>1, <1>4 DEF MailInv, RepliesMean
<1>6. PlacingQueues'
  <2> SUFFICES ASSUME NEW g \in Handlers, pc'[g] \in Placing
               PROVE  /\ ~Known(Invoice(target[g]))'
                      /\ pc'[g] # "invoice" => ~Known(Confirmation(target[g]))'
                      /\ pc'[g] = "invoice" => Known(Confirmation(target[g]))'
                      /\ target'[g] = target[g]
    BY DEF PlacingQueues, Placing
  <2>1. g # h /\ pc'[g] = pc[g] /\ target'[g] = target[g]
    BY <1>2 DEF TypeInv, TypeOK, Placing
  <2>2. target[g] \in OrderIds /\ target[g] # o
    BY <1>1, <2>1 DEF TypeInv, RequestShape, Holding, TotalInv, PlacingShape, Placing
  <2> QED
    BY <1>4, <2>1, <2>2 DEF MailInv, PlacingQueues
<1> QED
  BY <1>3, <1>5, <1>6 DEF MailInv

(* A worker moves a task from one place to the next. *)
LEMMA WorkOnce ==
    ASSUME TypeInv, MailInv, NEW w \in Workers, Work(w)
    PROVE  \A s \in Task : Once(s)' /\ (Known(s)' <=> Known(s))
<1> SUFFICES ASSUME NEW s \in Task PROVE Once(s)' /\ (Known(s)' <=> Known(s))
  OBVIOUS
<1>1. Once(s)
  BY DEF MailInv
<1>2. \A t \in Task : \A outcome, lines :
          Done(t, outcome, lines).task = s.task /\ Done(t, outcome, lines).order = s.order
              <=> t = s
  BY DEF Done, Task
<1>3. job \in [Workers -> Task \cup {NoJob}] /\ broker \subseteq Task
  BY DEF TypeInv, TypeOK
<1>4. ASSUME NEW t \in broker, Take(w, t), broker' = broker \ {t}
      PROVE  Once(s)' /\ (Known(s)' <=> Known(s))
  <2>1. t \in Task /\ Once(t) /\ job[w] = NoJob
    BY <1>3, <1>4 DEF MailInv, Take
  <2>2. CASE job' = [job EXCEPT ![w] = t] /\ results' = results
    BY <1>1, <1>3, <1>4, <2>1, <2>2, NoJobIsNoTask DEF Once, Known, ResultsOf
  <2>3. CASE job' = job /\ results' = results \cup {Done(t, "not found", {})}
    <3>1. ResultsOf(s)' = ResultsOf(s) \cup
              (IF s = t THEN {Done(t, "not found", {})} ELSE {})
      <4> DEFINE d == Done(t, "not found", {})
      <4>1. d.task = s.task /\ d.order = s.order <=> t = s
        BY <1>2, <2>1
      <4>2. results' = results \cup {d}
        BY <2>3
      <4> HIDE DEF d
      <4>3. ResultsOf(s)' = ResultsOf(s) \cup (IF s = t THEN {d} ELSE {})
        BY <4>1, <4>2 DEF ResultsOf
      <4> QED
        BY <4>3 DEF d
    <3>2. CASE s = t
      <4>1. ResultsOf(s)' = {Done(t, "not found", {})}
        BY <3>1, <3>2, <1>4, <2>1 DEF Once
      <4> QED
        BY <4>1, <3>2, <1>4, <2>1, <2>3 DEF Once, Known
    <3>3. CASE s # t
      BY <1>1, <1>4, <3>1, <3>3, <2>3 DEF Once, Known
    <3> QED
      BY <3>2, <3>3
  <2> QED
    BY <1>4, <2>2, <2>3 DEF Take
<1>5. ASSUME NEW outcome, NEW lines, job[w] # NoJob, broker' = broker,
             results' = results \cup {Done(job[w], outcome, lines)},
             job' = [job EXCEPT ![w] = NoJob]
      PROVE  Once(s)' /\ (Known(s)' <=> Known(s))
  <2> DEFINE t == job[w]
  <2>1. t \in Task /\ Once(t)
    BY <1>3, <1>5 DEF MailInv
  <2>2. ResultsOf(s)' = ResultsOf(s) \cup
            (IF s = t THEN {Done(t, outcome, lines)} ELSE {})
    BY <1>2, <1>5, <2>1 DEF ResultsOf
  <2>3. \A v \in Workers : job'[v] = IF v = w THEN NoJob ELSE job[v]
    BY <1>3, <1>5
  <2> HIDE DEF t
  <2>4. CASE s = t
    <3>1. job[w] = s
      BY <2>4 DEF t
    <3>2. ResultsOf(s)' = {Done(t, outcome, lines)}
      BY <1>1, <2>2, <2>4, <3>1 DEF Once
    <3>3. \A v \in Workers : job'[v] # s
      BY <1>1, <2>3, <3>1, NoJobIsNoTask DEF Once
    <3> QED
      BY <1>1, <1>5, <3>1, <3>2, <3>3 DEF Once, Known
  <2>5. CASE s # t
    <3>1. \A v \in Workers : job'[v] = s <=> job[v] = s
      BY <2>3, <2>5, NoJobIsNoTask DEF t
    <3>2. ResultsOf(s)' = ResultsOf(s)
      BY <2>2, <2>5
    <3> QED
      BY <1>1, <1>5, <3>1, <3>2 DEF Once, Known
  <2> QED
    BY <2>4, <2>5
<1>6. CASE TakeTask(w)
  BY <1>4, <1>6 DEF TakeTask, Take
<1>7. CASE SendMail(w)
  BY <1>5, <1>7 DEF SendMail
<1>8. CASE LoseMail(w)
  BY <1>5, <1>8 DEF LoseMail
<1> QED
  BY <1>6, <1>7, <1>8 DEF Work

LEMMA WorkMail ==
    ASSUME TypeInv, MailInv, NEW w \in Workers, Work(w)
    PROVE  MailInv'
<1>1. UNCHANGED <<pc, target, reply>>
  BY DEF Work, TakeTask, Take, SendMail, LoseMail, request, history
<1>2. \A t \in Task : Once(t)' /\ (Known(t)' <=> Known(t))
  BY WorkOnce
<1>3. \A o \in OrderIds : /\ Known(Confirmation(o))' <=> Known(Confirmation(o))
                          /\ Known(Invoice(o))' <=> Known(Invoice(o))
  BY <1>2, TaskTyped
<1>4. RepliesMean'
  BY <1>1, <1>3 DEF MailInv, RepliesMean
<1>5. \A h \in Handlers : pc[h] \in Placing => target[h] \in OrderIds
  BY DEF TypeInv, RequestShape, Holding
<1>6. PlacingQueues'
  BY <1>1, <1>3, <1>5 DEF MailInv, PlacingQueues, Placing
<1> QED
  BY <1>2, <1>4, <1>6 DEF MailInv

LEMMA StepMail == TypeInv /\ TotalInv /\ MailInv /\ [Next]_vars => MailInv'
<1> SUFFICES ASSUME TypeInv, TotalInv, MailInv, [Next]_vars PROVE MailInv'
  OBVIOUS
<1>1. TypeInv'
  BY StepTyped
<1>2. CASE UNCHANGED vars
  BY <1>1, <1>2, SameMail DEF vars, celery
<1>3. CASE \E h \in Handlers : Arrive(h)
  <2> PICK h \in Handlers : Arrive(h)
    BY <1>3
  <2>1. /\ UNCHANGED celery /\ UNCHANGED reply
        /\ \A g \in Handlers \ {h} : pc'[g] = pc[g] /\ target'[g] = target[g]
        /\ pc'[h] \notin Placing
    BY DEF Arrive, BeginCreate, LoadForConfirm, LoadForCancel, LoadForDestroy,
           AdminOpen, LoadForUpdate, LoadToggle, Load, history, Placing, TypeInv, TypeOK
  <2> QED
    BY <1>1, <2>1, SameMail
<1>4. CASE \E h \in Handlers : Continue(h)
  <2> PICK h \in Handlers : Continue(h)
    BY <1>4
  <2>1. CASE InsertOrder(h)
    <3>1. /\ UNCHANGED celery
          /\ \A o \in OrderIds : reply'[o] \in {reply[o], "running"}
          /\ \A g \in Handlers \ {h} : pc'[g] = pc[g] /\ target'[g] = target[g]
          /\ pc'[h] = "items" /\ target'[h] \in OrderIds /\ reply[target'[h]] = None
      BY <2>1 DEF InsertOrder, TypeInv, TypeOK
    <3> QED
      BY <1>1, <3>1, SameMail
  <2>2. CASE InsertItem(h) \/ SaveTotal(h)
    <3>1. /\ UNCHANGED celery /\ UNCHANGED <<reply, target>>
          /\ \A g \in Handlers \ {h} : pc'[g] = pc[g]
          /\ pc[h] \in {"items", "total"}
          /\ pc'[h] \in {"items", "total", "confirmation"}
      BY <2>2 DEF InsertItem, StoreLine, SaveTotal, history, TypeInv, TypeOK
    <3> QED
      BY <1>1, <3>1, SameMail DEF Placing
  <2>3. CASE QueueConfirmation(h)
    BY <2>3, ConfirmationMail
  <2>4. CASE QueueInvoice(h)
    BY <2>4, InvoiceMail
  <2>5. CASE \/ InsertItemFails(h) \/ CheckItems(h) \/ SaveConfirm(h)
             \/ SaveCancel(h) \/ SaveUpdate(h) \/ Delete(h) \/ SaveToggle(h)
    <3>1. /\ UNCHANGED celery
          /\ \A o \in OrderIds : reply'[o] \in {reply[o], "500"}
      BY <2>5 DEF InsertItemFails, CheckItems, SaveConfirm, SaveCancel, SaveUpdate,
                  Delete, SaveToggle, history, TypeInv, TypeOK
    <3>2. /\ \A g \in Handlers \ {h} : pc'[g] = pc[g] /\ target'[g] = target[g]
          /\ pc'[h] \in {"idle", "confirm"}
      BY <2>5 DEF InsertItemFails, CheckItems, SaveConfirm, SaveCancel, SaveUpdate,
                  Delete, SaveToggle, Answer, TypeInv, TypeOK
    <3> QED
      BY <1>1, <3>1, <3>2, SameMail DEF Placing
  <2> QED
    BY <2>1, <2>2, <2>3, <2>4, <2>5 DEF Continue
<1>5. CASE \E h \in Handlers : Submit(h) \/ HandlerFails(h)
  <2> PICK h \in Handlers : Submit(h) \/ HandlerFails(h)
    BY <1>5
  <2>1. /\ UNCHANGED celery
        /\ \A o \in OrderIds : reply'[o] \in {reply[o], "500"}
        /\ Answer(h)
    BY DEF Submit, AdminSubmit, AdminSubmitGone, HandlerFails, history, TypeInv, TypeOK
  <2>2. /\ \A g \in Handlers \ {h} : pc'[g] = pc[g] /\ target'[g] = target[g]
        /\ pc'[h] = "idle"
    BY <2>1 DEF Answer, TypeInv, TypeOK
  <2> QED
    BY <1>1, <2>1, <2>2, SameMail DEF Placing
<1>6. CASE \E w \in Workers : Work(w)
  BY <1>6, WorkMail
<1> QED
  BY <1>2, <1>3, <1>4, <1>5, <1>6 DEF Next

(* An order answered with 201 has one confirmation and one invoice under   *)
(* way or dealt with, and nobody is mailed twice (perform_create and the   *)
(* mail tasks).                                                            *)
THEOREM AnnouncedCorrect == Spec => []AnsweredOrderIsAnnounced
<1>1. TypeInv /\ MailInv => AnsweredOrderIsAnnounced
  <2> SUFFICES ASSUME TypeInv, MailInv, NEW o \in OrderIds
               PROVE  /\ \A t \in {Confirmation(o), Invoice(o)} :
                             /\ \A p, q \in Places(t) : p = q
                             /\ \A r, s \in ResultsOf(t) : r = s
                      /\ Places(Invoice(o)) # {} => Places(Confirmation(o)) # {}
                      /\ reply[o] = "201" => Places(Invoice(o)) # {}
    BY DEF AnsweredOrderIsAnnounced, Confirmation, Invoice
  <2>1. \A t : Places(t) # {} <=> Known(t)
    BY DEF Places, Known
  <2>2. \A t \in Task : /\ \A p, q \in Places(t) : p = q
                        /\ \A r, s \in ResultsOf(t) : r = s
    BY DEF MailInv, Once, Places
  <2>3. Confirmation(o) \in Task /\ Invoice(o) \in Task
    BY TaskTyped
  <2> QED
    BY <2>1, <2>2, <2>3 DEF MailInv, RepliesMean
<1> QED
  BY <1>1, InitTyped, StepTyped, InitTotal, StepTotal, InitMail, StepMail, PTL DEF Spec
=============================================================================
