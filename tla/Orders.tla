------------------------------- MODULE Orders -------------------------------
(***************************************************************************)
(* Orders of the retail ordering service: OrderViewSet and OrderSerializer *)
(* (create, confirm, cancel, update, destroy), the order form of the admin *)
(* site, the switch by which suppliers stop accepting orders, and the two  *)
(* Celery tasks that mail a new order.                                     *)
(*                                                                         *)
(* ATOMIC_REQUESTS is off, so every ORM statement is a transaction of its  *)
(* own and requests interleave between statements.  An action is one       *)
(* statement, or one call of the broker, with the Python code around it.   *)
(* Model.save() writes EVERY column of the copy the request has loaded and *)
(* inserts the row when the UPDATE finds none.                             *)
(*                                                                         *)
(* An amount of money is the set of the lines of the cart it sums: {} is   *)
(* 0.00 and DOMAIN cart is the full total.  Lines are numbered from 1; an  *)
(* amount that staff have typed into the order form is Typed.              *)
(***************************************************************************)
EXTENDS Naturals, Sequences, FiniteSets

CONSTANTS
    OrderIds,       \* primary keys, each used by one INSERT at most
    Seeded,         \* orders entered by staff before the behaviour starts
    Owner,          \* their clients, any account
    Handlers,       \* concurrent requests, and open forms of the admin site
    Workers,        \* Celery worker processes
    Clients, Suppliers, Staff,    \* accounts by user_type
    Buyers,         \* bound: the accounts that place orders in this instance
    Switching,      \* bound: the suppliers that use their switch
    Retyped,        \* bound: the orders whose amount staff may type over
    Products, SupplierOf, Stock,  \* the catalogue
    Carts,          \* the "items" a request may carry
    Edits,          \* the other fields a request may set
    Ops             \* the operations users issue in this instance

Users == Clients \cup Suppliers \cup Staff
Line == [product : Products, quantity : Nat]
None == "none"
Keep == "keep"
NoEdit == [status |-> Keep, client |-> Keep]

ASSUME OrdersAssumption ==
    /\ Seeded \subseteq OrderIds
    /\ Owner \in [Seeded -> Users]
    /\ Buyers \subseteq Users
    /\ Switching \subseteq Suppliers
    /\ Retyped \subseteq OrderIds
    /\ SupplierOf \in [Products -> Suppliers]
    /\ Stock \in [Products -> Nat]
    /\ Carts \subseteq Seq(Line)
    /\ NoEdit \in Edits
    /\ None \notin OrderIds \cup Users
    /\ Keep \notin Users
    /\ Clients \cap Suppliers = {}
    /\ Staff \cap (Clients \cup Suppliers) = {}

Statuses ==
    {"pending", "confirmed", "processing", "shipped", "delivered", "cancelled"}
Sent == {"shipped", "delivered"}
Tasks == {"confirmation", "invoice"}

(* A row of the table orders.  confirmed stands for confirmed_at: None, or *)
(* the supplier whose request has set it.                                  *)
Row == [client : Users, status : Statuses, total : SUBSET Nat,
        confirmed : Suppliers \cup {None}]
NoRow == [client |-> None, status |-> None, total |-> {}, confirmed |-> None]
Typed == {0}

ASSUME EditsAssumption ==
    Edits \subseteq [status : Statuses \cup {Keep}, client : Users \cup {Keep}]

VARIABLES
    row,        \* table orders
    items,      \* table order_items
    accepting,  \* Supplier.is_active
    broker,     \* tasks queued in Redis
    results,    \* table of task results
    pc,         \* the next statement of each handler
    who,        \* the user (or the supplier whose switch is flipped)
    target,     \* the order a handler works on
    copy,       \* the row a handler has loaded
    basket,     \* the lines a create request carries
    edit,       \* the other fields the request carries
    job,        \* the task a worker runs
    cart,       \* history: the lines an order was placed with
    reply       \* history: how the request that placed it has ended

database == <<row, items, accepting>>
request == <<pc, who, target, copy, basket, edit>>
celery == <<broker, results, job>>
history == <<cart, reply>>
vars == <<row, items, accepting, broker, results, pc, who, target, copy,
          basket, edit, job, cart, reply>>

SeededRow(o) == [client |-> Owner[o], status |-> "pending", total |-> {},
                 confirmed |-> None]
NoJob == [task |-> None, order |-> None]

Init ==
    /\ row = [o \in OrderIds |-> IF o \in Seeded THEN SeededRow(o) ELSE NoRow]
    /\ items = {}
    /\ accepting = [s \in Suppliers |-> TRUE]
    /\ broker = {}
    /\ results = {}
    /\ pc = [h \in Handlers |-> "idle"]
    /\ who = [h \in Handlers |-> None]
    /\ target = [h \in Handlers |-> None]
    /\ copy = [h \in Handlers |-> NoRow]
    /\ basket = [h \in Handlers |-> <<>>]
    /\ edit = [h \in Handlers |-> NoEdit]
    /\ job = [w \in Workers |-> NoJob]
    /\ cart = [o \in OrderIds |-> <<>>]
    /\ reply = [o \in OrderIds |-> IF o \in Seeded THEN "staff" ELSE None]

-----------------------------------------------------------------------------
(* Helpers *)

Exists(o) == row[o] # NoRow
ItemsOf(o) == {i \in items : i.order = o}
LinesOf(o) == {i.line : i \in ItemsOf(o)}

(* Variant: get_queryset without the filter for suppliers. *)
VisibleToSuppliers(u, o) ==
    Exists(o) /\ (u \in Clients => row[o].client = u)

(* get_queryset: clients see their own orders, suppliers the orders with   *)
(* an item of theirs, everybody else sees every order.                     *)
Visible(u, o) ==
    /\ Exists(o)
    /\ u \in Clients => row[o].client = u
    /\ u \in Suppliers => \E i \in ItemsOf(o) : i.supplier = u

(* validate_items: every line for itself, against the stock. *)
ValidItems(c) ==
    /\ c # <<>>
    /\ \A n \in DOMAIN c : /\ c[n].quantity > 0
                           /\ c[n].quantity <= Stock[c[n].product]

(* Variant: a PATCH overwrites the fields it does not carry. *)
ApplyAll(r, e) == [r EXCEPT !.status = e.status, !.client = e.client]

(* setattr of the fields the request carries on the loaded instance. *)
Apply(r, e) == [r EXCEPT !.status = IF e.status = Keep THEN @ ELSE e.status,
                         !.client = IF e.client = Keep THEN @ ELSE e.client]

(* Variants: cancel resets the total, or confirmed_at; confirmed_at is a   *)
(* field of the admin form; the form is sent without its amount.           *)
CancelledForFree(r) == [r EXCEPT !.status = "cancelled", !.total = {}]
CancelledAnew(r) == [r EXCEPT !.status = "cancelled", !.confirmed = None]
SubmittedWhole(r, e, t, s) == [Apply(r, e) EXCEPT !.total = t]
SubmittedFree(r, e, t, s) == [Apply(r, e) EXCEPT !.total = {}, !.confirmed = s]

(* The other assignments of the handlers to the loaded instance. *)
Summed(r, n) == [r EXCEPT !.total = 1 .. n]
Confirmed(r, s) == [r EXCEPT !.status = "confirmed", !.confirmed = s]
Cancelled(r) == [r EXCEPT !.status = "cancelled"]
Submitted(r, e, t, s) == [Apply(r, e) EXCEPT !.total = t, !.confirmed = s]

(* The handler has answered. *)
Answer(h) ==
    /\ pc' = [pc EXCEPT ![h] = "idle"]
    /\ who' = [who EXCEPT ![h] = None]
    /\ target' = [target EXCEPT ![h] = None]
    /\ copy' = [copy EXCEPT ![h] = NoRow]
    /\ basket' = [basket EXCEPT ![h] = <<>>]
    /\ edit' = [edit EXCEPT ![h] = NoEdit]

(* The handler has loaded order o for user u and goes on at step. *)
Load(h, u, o, step, e) ==
    /\ pc[h] = "idle"
    /\ Visible(u, o)
    /\ pc' = [pc EXCEPT ![h] = step]
    /\ who' = [who EXCEPT ![h] = u]
    /\ target' = [target EXCEPT ![h] = o]
    /\ copy' = [copy EXCEPT ![h] = row[o]]
    /\ edit' = [edit EXCEPT ![h] = e]
    /\ UNCHANGED <<database, basket, celery, history>>

(* Order.save(): UPDATE of all columns, INSERT when no row was updated. *)
Save(o, r) == row' = [row EXCEPT ![o] = r]

-----------------------------------------------------------------------------
(* POST /orders/ *)

(* Bound: a primary key is left for every create request in flight. *)
IdLeft == Cardinality({h \in Handlers : pc[h] = "order"}) <
          Cardinality({o \in OrderIds : reply[o] = None})

(* Validation.  Each item must name an existing order in its field order,  *)
(* which nothing reads afterwards, so one order must exist already.        *)
BeginCreate(h, u, c, e) ==
    /\ "create" \in Ops
    /\ pc[h] = "idle"
    /\ ValidItems(c)
    /\ \E o \in OrderIds : Exists(o)
    /\ IdLeft
    /\ pc' = [pc EXCEPT ![h] = "order"]
    /\ who' = [who EXCEPT ![h] = u]
    /\ basket' = [basket EXCEPT ![h] = c]
    /\ edit' = [edit EXCEPT ![h] = e]
    /\ UNCHANGED <<database, target, copy, celery, history>>

(* Variant: the total is summed before the items are stored. *)
NewRowPriced(h) ==
    [client |-> who[h], status |-> "pending", total |-> DOMAIN basket[h],
     confirmed |-> None]

(* The row a create request inserts: the status is a writable field. *)
NewRow(h) ==
    [client |-> who[h],
     status |-> IF edit[h].status = Keep THEN "pending" ELSE edit[h].status,
     total |-> {},
     confirmed |-> None]

(* Order.objects.create(client = request.user): the total is still 0. *)
InsertOrder(h) ==
    \E o \in OrderIds :
        /\ pc[h] = "order"
        /\ reply[o] = None
        /\ row' = [row EXCEPT ![o] = NewRow(h)]
        /\ target' = [target EXCEPT ![h] = o]
        /\ copy' = [copy EXCEPT ![h] = NewRow(h)]
        /\ cart' = [cart EXCEPT ![o] = basket[h]]
        /\ reply' = [reply EXCEPT ![o] = "running"]
        /\ pc' = [pc EXCEPT ![h] = "items"]
        /\ UNCHANGED <<items, accepting, who, basket, edit, celery>>

(* OrderItem.objects.create() of line n; copy.total is the local           *)
(* total_amount, the lines summed so far.  The supplier is the product's.  *)
StoreLine(h, n) ==
    /\ pc[h] = "items"
    /\ copy[h].total = 1 .. (n - 1)
    /\ Exists(target[h])
    /\ items' = items \cup {[order |-> target[h], line |-> n,
                            supplier |-> SupplierOf[basket[h][n].product]]}
    /\ copy' = [copy EXCEPT ![h] = Summed(copy[h], n)]
    /\ UNCHANGED <<row, accepting, who, target, basket, edit, celery, history>>

(* Variant: the loop is left after its first round. *)
InsertFirstItem(h) ==
    StoreLine(h, 1) /\ pc' = [pc EXCEPT ![h] = "total"]

InsertItem(h) ==
    \E n \in DOMAIN basket[h] :
        /\ StoreLine(h, n)
        /\ pc' = [pc EXCEPT ![h] =
                      IF n = Len(basket[h]) THEN "total" ELSE "items"]

(* Variant: the INSERT is tried again until the row is back. *)
InsertItemRetries(h) ==
    /\ pc[h] = "items"
    /\ ~Exists(target[h])
    /\ UNCHANGED vars

(* The row was deleted meanwhile: the foreign key fails, the answer is 500. *)
InsertItemFails(h) ==
    /\ pc[h] = "items"
    /\ ~Exists(target[h])
    /\ Answer(h)
    /\ reply' = [reply EXCEPT ![target[h]] = "500"]
    /\ UNCHANGED <<database, celery, cart>>

(* Variant: the confirmation is not queued. *)
SaveTotalSilently(h) ==
    /\ pc[h] = "total"
    /\ Save(target[h], copy[h])
    /\ pc' = [pc EXCEPT ![h] = "invoice"]
    /\ UNCHANGED <<items, accepting, who, target, copy, basket, edit, celery,
                   history>>

(* order.total_amount = total_amount; order.save() *)
SaveTotal(h) ==
    /\ pc[h] = "total"
    /\ Save(target[h], copy[h])
    /\ pc' = [pc EXCEPT ![h] = "confirmation"]
    /\ UNCHANGED <<items, accepting, who, target, copy, basket, edit, celery,
                   history>>

(* send_order_confirmation_email.delay(order.id) *)
QueueConfirmation(h) ==
    /\ pc[h] = "confirmation"
    /\ broker' = broker \cup {[task |-> "confirmation", order |-> target[h]]}
    /\ pc' = [pc EXCEPT ![h] = "invoice"]
    /\ UNCHANGED <<database, who, target, copy, basket, edit, results, job,
                   history>>

(* send_invoice_email.delay(order.id), and the answer 201 *)
QueueInvoice(h) ==
    /\ pc[h] = "invoice"
    /\ broker' = broker \cup {[task |-> "invoice", order |-> target[h]]}
    /\ Answer(h)
    /\ reply' = [reply EXCEPT ![target[h]] = "201"]
    /\ UNCHANGED <<database, results, job, cart>>

-----------------------------------------------------------------------------
(* POST /orders/{id}/confirm/ ; other users than suppliers get 403 *)

LoadForConfirm(h, u, o) ==
    /\ "confirm" \in Ops
    /\ u \in Suppliers
    /\ Load(h, u, o, "check", NoEdit)

(* order.items.filter(supplier=supplier).exists(), 400 when there is none *)
CheckItems(h) ==
    /\ pc[h] = "check"
    /\ \/ /\ \E i \in ItemsOf(target[h]) : i.supplier = who[h]
          /\ pc' = [pc EXCEPT ![h] = "confirm"]
          /\ UNCHANGED <<who, target, copy, basket, edit>>
       \/ /\ \A i \in ItemsOf(target[h]) : i.supplier # who[h]
          /\ Answer(h)
    /\ UNCHANGED <<database, celery, history>>

SaveConfirm(h) ==
    /\ pc[h] = "confirm"
    /\ Save(target[h], Confirmed(copy[h], who[h]))
    /\ Answer(h)
    /\ UNCHANGED <<items, accepting, celery, history>>

-----------------------------------------------------------------------------
(* POST /orders/{id}/cancel/ *)

LoadForCancel(h, u, o) ==
    /\ "cancel" \in Ops
    /\ row[o].client = u
    /\ row[o].status \notin Sent
    /\ Load(h, u, o, "cancel", NoEdit)

SaveCancel(h) ==
    /\ pc[h] = "cancel"
    /\ Save(target[h], Cancelled(copy[h]))
    /\ Answer(h)
    /\ UNCHANGED <<items, accepting, celery, history>>

-----------------------------------------------------------------------------
(* PUT and PATCH /orders/{id}/ ; an edit that keeps status and client is   *)
(* one of the address, the phone or the notes.                             *)

LoadForUpdate(h, u, o, e) ==
    /\ "update" \in Ops
    /\ Load(h, u, o, "update", e)

SaveUpdate(h) ==
    /\ pc[h] = "update"
    /\ Save(target[h], Apply(copy[h], edit[h]))
    /\ Answer(h)
    /\ UNCHANGED <<items, accepting, celery, history>>

-----------------------------------------------------------------------------
(* DELETE /orders/{id}/ *)

LoadForDestroy(h, u, o) ==
    /\ "destroy" \in Ops
    /\ Load(h, u, o, "destroy", NoEdit)

(* The items cascade, in the transaction of Model.delete(). *)
Delete(h) ==
    /\ pc[h] = "destroy"
    /\ row' = [row EXCEPT ![target[h]] = NoRow]
    /\ items' = items \ ItemsOf(target[h])
    /\ Answer(h)
    /\ UNCHANGED <<accepting, celery, history>>

-----------------------------------------------------------------------------
(* The change form of OrderAdmin.  The page keeps the values it was        *)
(* rendered with, status, client and total among them, until it is sent.   *)

AdminOpen(h, u, o) ==
    /\ "admin" \in Ops
    /\ u \in Staff
    /\ Load(h, u, o, "form", NoEdit)

(* The POST runs in one transaction: it loads the row again, overwrites    *)
(* the fields of the form and saves.  total_amount is one of them: t is    *)
(* the amount the page was rendered with, or another that staff typed.     *)
(* confirmed_at is not one of them.                                        *)
AdminSubmit(h, e, t) ==
    /\ pc[h] = "form"
    /\ Exists(target[h])
    /\ Save(target[h], Submitted(copy[h], e, t, row[target[h]].confirmed))
    /\ Answer(h)
    /\ UNCHANGED <<items, accepting, celery, history>>

(* The row is gone: redirect with a message. *)
AdminSubmitGone(h) ==
    /\ pc[h] = "form"
    /\ ~Exists(target[h])
    /\ Answer(h)
    /\ UNCHANGED <<database, celery, history>>

-----------------------------------------------------------------------------
(* POST /suppliers/{id}/toggle_accept_orders/ *)

LoadToggle(h, s) ==
    /\ "toggle" \in Ops
    /\ pc[h] = "idle"
    /\ pc' = [pc EXCEPT ![h] = IF accepting[s] THEN "stop" ELSE "start"]
    /\ who' = [who EXCEPT ![h] = s]
    /\ UNCHANGED <<database, target, copy, basket, edit, celery, history>>

SaveToggle(h) ==
    /\ pc[h] \in {"stop", "start"}
    /\ accepting' = [accepting EXCEPT ![who[h]] = (pc[h] = "start")]
    /\ Answer(h)
    /\ UNCHANGED <<row, items, celery, history>>

-----------------------------------------------------------------------------
(* A request ends in the middle: a database error ("database is locked"),  *)
(* a broker that is down, a killed server process, a form never sent.      *)

HandlerFails(h) ==
    /\ "fail" \in Ops
    /\ pc[h] # "idle"
    /\ Answer(h)
    /\ reply' = IF pc[h] \in {"items", "total", "confirmation", "invoice"}
                THEN [reply EXCEPT ![target[h]] = "500"]
                ELSE reply
    /\ UNCHANGED <<database, celery, cart>>

-----------------------------------------------------------------------------
(* Celery workers.  A task is acknowledged when it is taken. *)

(* A row of the table of results: what the task returned, and the lines a  *)
(* mail has listed.                                                        *)
Done(t, outcome, lines) ==
    [task |-> t.task, order |-> t.order, outcome |-> outcome, lines |-> lines]

(* Order.objects.get() for the task t, which is taken off the queue; a     *)
(* task whose order is gone returns at once.                               *)
Take(w, t) ==
    /\ job[w] = NoJob
    /\ IF Exists(t.order)
       THEN /\ job' = [job EXCEPT ![w] = t]
            /\ UNCHANGED results
       ELSE /\ results' = results \cup {Done(t, "not found", {})}
            /\ UNCHANGED job
    /\ UNCHANGED <<database, request, history>>

(* Variants: the task is acknowledged late, so that it stays in the queue; *)
(* the task waits for an order that is not there.                          *)
TakeTaskLate(w) == \E t \in broker : Take(w, t) /\ UNCHANGED broker
TakeTaskOfOrder(w) ==
    \E t \in broker :
        Exists(t.order) /\ Take(w, t) /\ broker' = broker \ {t}

TakeTask(w) == \E t \in broker : Take(w, t) /\ broker' = broker \ {t}

(* The items are read after the row; the mail is rendered and sent. *)
SendMail(w) ==
    LET t == job[w]
    IN  /\ t # NoJob
        /\ results' = results \cup {Done(t, "sent", LinesOf(t.order))}
        /\ job' = [job EXCEPT ![w] = NoJob]
        /\ UNCHANGED <<database, request, broker, history>>

(* A template or SMTP error is caught and becomes the task's result; a     *)
(* killed worker leaves no result, which is recorded as an error too.      *)
LoseMail(w) ==
    LET t == job[w]
    IN  /\ "fail" \in Ops
        /\ t # NoJob
        /\ results' = results \cup {Done(t, "error", {})}
        /\ job' = [job EXCEPT ![w] = NoJob]
        /\ UNCHANGED <<database, request, broker, history>>

-----------------------------------------------------------------------------
(* A request arrives. *)
Arrive(h) ==
    \/ \E u \in Buyers, c \in Carts, e \in Edits : BeginCreate(h, u, c, e)
    \/ \E u \in Users, o \in OrderIds :
           \/ LoadForConfirm(h, u, o)
           \/ LoadForCancel(h, u, o)
           \/ LoadForDestroy(h, u, o)
           \/ AdminOpen(h, u, o)
           \/ \E e \in Edits : LoadForUpdate(h, u, o, e)
    \/ \E s \in Switching : LoadToggle(h, s)

(* The server runs the next statement of a request. *)
Continue(h) ==
    \/ InsertOrder(h) \/ InsertItem(h) \/ InsertItemFails(h) \/ SaveTotal(h)
    \/ QueueConfirmation(h) \/ QueueInvoice(h)
    \/ CheckItems(h) \/ SaveConfirm(h)
    \/ SaveCancel(h) \/ SaveUpdate(h) \/ Delete(h) \/ SaveToggle(h)

(* The amounts the form may be sent with. *)
Amounts(h) ==
    {copy[h].total} \cup {t \in {Typed} : target[h] \in Retyped}

Submit(h) ==
    \/ AdminSubmitGone(h)
    \/ \E e \in Edits, t \in Amounts(h) : AdminSubmit(h, e, t)

Work(w) == TakeTask(w) \/ SendMail(w) \/ LoseMail(w)

Next ==
    \/ \E h \in Handlers :
           Arrive(h) \/ Continue(h) \/ Submit(h) \/ HandlerFails(h)
    \/ \E w \in Workers : Work(w)

Spec == Init /\ [][Next]_vars

(* The server finishes the requests it has accepted and the workers run;   *)
(* nobody has to send a request, and a form may stay open for ever.        *)
Fairness ==
    /\ \A h \in Handlers : WF_vars(Continue(h))
    /\ \A w \in Workers : WF_vars(Work(w))

FairSpec == Spec /\ Fairness
-----------------------------------------------------------------------------
(* Properties *)

(* Steps of a request that hold a loaded order. *)
Placing == {"items", "total", "confirmation", "invoice"}
Holding == Placing \cup {"check", "confirm", "cancel", "update", "destroy",
                        "form"}
Item == [order : OrderIds, line : Nat, supplier : Suppliers]
Task == [task : Tasks, order : OrderIds]
Result == [task : Tasks, order : OrderIds,
           outcome : {"sent", "not found", "error"},
           lines : SUBSET Nat]

(* Every variable has a value of its table, queue or request. *)
TypeOK ==
    /\ row \in [OrderIds -> Row \cup {NoRow}]
    /\ items \subseteq Item
    /\ accepting \in [Suppliers -> BOOLEAN]
    /\ broker \subseteq Task
    /\ results \subseteq Result
    /\ pc \in [Handlers -> Holding \cup {"idle", "order", "stop", "start"}]
    /\ who \in [Handlers -> Users \cup {None}]
    /\ target \in [Handlers -> OrderIds \cup {None}]
    /\ copy \in [Handlers -> Row \cup {NoRow}]
    /\ basket \in [Handlers -> Carts \cup {<<>>}]
    /\ edit \in [Handlers -> Edits]
    /\ job \in [Workers -> Task \cup {NoJob}]
    /\ cart \in [OrderIds -> Carts \cup {<<>>}]
    /\ reply \in [OrderIds -> {None, "staff", "running", "201", "500"}]

(* Unless staff have typed an amount of their own, total_amount is 0 or    *)
(* the sum of all the lines the order was placed with, never a part of it, *)
(* however requests interleave, fail, or write back copies they loaded in  *)
(* the middle of the placing.                                              *)
TotalNeverPartial ==
    \A o \in OrderIds : row[o].total \in {{}, Typed, DOMAIN cart[o]}

(* The row shows a total that the service has summed. *)
Billed(o) == row[o].total \notin {{}, Typed}

(* While nobody deletes orders, an order that shows a total not typed by   *)
(* staff has all of its lines in order_items.                              *)
BilledOrderIsComplete ==
    \A o \in OrderIds : Billed(o) => LinesOf(o) = DOMAIN cart[o]

(* While nobody deletes orders, a confirmation or an invoice lists every   *)
(* line of its order, although the worker reads the items after the row    *)
(* and runs beside the request that queued it.                             *)
MailListsWholeOrder ==
    \A r \in results :
        r.outcome = "sent" => r.lines = DOMAIN cart[r.order]

(* The results of the task t. *)
ResultsOf(t) == {r \in results : r.task = t.task /\ r.order = t.order}

(* Where a task is: queued, being run, or done. *)
Places(t) ==
    {p \in {"queued", "running", "done"} :
        \/ p = "queued" /\ t \in broker
        \/ p = "running" /\ \E w \in Workers : job[w] = t
        \/ p = "done" /\ ResultsOf(t) # {}}

(* A client who was answered 201 has one confirmation and one invoice      *)
(* under way or dealt with; nobody is mailed twice; and an order whose     *)
(* request failed half way has an invoice only beside a confirmation.      *)
AnsweredOrderIsAnnounced ==
    \A o \in OrderIds :
        LET confirmation == [task |-> "confirmation", order |-> o]
            invoice == [task |-> "invoice", order |-> o]
        IN  /\ \A t \in {confirmation, invoice} :
                   /\ \A p, q \in Places(t) : p = q
                   /\ \A r, s \in ResultsOf(t) : r = s
            /\ Places(invoice) # {} => Places(confirmation) # {}
            /\ reply[o] = "201" => Places(invoice) # {}

(* Requests that will write back a copy of o they loaded before. *)
Writers(o) ==
    {h \in Handlers : /\ target[h] = o
                      /\ pc[h] \notin {"confirmation", "invoice", "destroy"}}

(* The total of o is in the row and in every copy that may be written. *)
TotalSettled(o) ==
    /\ Exists(o)
    /\ row[o].total = DOMAIN cart[o]
    /\ \A h \in Writers(o) : copy[h].total = DOMAIN cart[o]

(* Once no request holds a copy from before the total was saved, the       *)
(* total stays until the order is deleted or staff type another amount:    *)
(* confirm, cancel and update write back what they read, and so does the   *)
(* admin form as long as its amount is left alone.                         *)
SettledTotalStays ==
    [][\A o \in OrderIds :
        TotalSettled(o) => \/ ~Exists(o)'
                           \/ TotalSettled(o)'
                           \/ row'[o].total = Typed]_vars

(* confirmed_at of o is set, and only forms, which read it again, and      *)
(* confirmations, which set it, hold an older copy.                        *)
ConfirmationSettled(o) ==
    /\ row[o].confirmed # None
    /\ \A h \in Writers(o) :
           pc[h] \in {"check", "confirm", "form"} \/ copy[h].confirmed # None

(* Once set and not overwritten by a request that was already running,     *)
(* confirmed_at is never cleared, in particular not by a stale admin form. *)
SettledConfirmationStays ==
    [][\A o \in OrderIds :
        ConfirmationSettled(o) => ~Exists(o)' \/ ConfirmationSettled(o)']_vars

(* While nobody deletes orders, a request of a supplier changes only       *)
(* orders that have an item of that supplier at that moment.               *)
SuppliersTouchOnlyTheirOrders ==
    [][\A h \in Handlers, o \in OrderIds :
        (/\ who[h] \in Suppliers /\ pc[h] \in {"confirm", "update"}
         /\ pc'[h] = "idle" /\ row'[o] # row[o])
            => \E i \in ItemsOf(o) : i.supplier = who[h]]_vars

(* What cancel tells the client: an order already shipped or delivered     *)
(* cannot be cancelled.                                                    *)
CancelRespectsShipment ==
    [][\A h \in Handlers, o \in OrderIds :
        (/\ pc[h] = "cancel" /\ target[h] = o
         /\ row[o].status \in Sent)
            => row'[o].status # "cancelled"]_vars

(* README: a supplier can switch the acceptance of orders off.  A request  *)
(* is admitted only when the suppliers of all its lines accept orders.     *)
ClosedSupplierGetsNoOrder ==
    [][\A h \in Handlers :
        (pc[h] = "idle" /\ pc'[h] = "order")
            => \A n \in DOMAIN basket'[h] :
                  accepting[SupplierOf[basket'[h][n].product]]]_vars

(* Every accepted request ends: no statement waits for another request.    *)
RequestsEnd ==
    \A h \in Handlers : pc[h] \notin {"idle", "form"} ~> pc[h] = "idle"

(* The placing of an order ends, and an answer 201 is followed by the end  *)
(* of both of its tasks, whatever happens to the order meanwhile.          *)
PlacedOrderIsAnnounced ==
    \A o \in OrderIds :
        /\ reply[o] = "running" ~> reply[o] \in {"201", "500"}
        /\ reply[o] = "201" ~>
               \A t \in Tasks : "done" \in Places([task |-> t, order |-> o])

-----------------------------------------------------------------------------
(* The order book: what is left when requests, copies, the queue and the   *)
(* workers are forgotten.                                                  *)

MailState(o, t) ==
    IF \E r \in results : r.task = t /\ r.order = o /\ r.outcome = "sent"
    THEN "sent"
    ELSE IF ResultsOf([task |-> t, order |-> o]) # {}
    THEN "lost"
    ELSE IF Places([task |-> t, order |-> o]) # {} THEN "queued" ELSE "none"

Book == INSTANCE OrderBook WITH
    Sizes <- {Len(c) : c \in Carts},
    size <- [o \in OrderIds |-> Len(cart[o])],
    lines <- [o \in OrderIds |-> LinesOf(o)],
    billed <- [o \in OrderIds |-> Billed(o)],
    mail <- [o \in OrderIds |-> [t \in Tasks |-> MailState(o, t)]]

(* While nobody deletes orders, every behaviour of the service is one of   *)
(* the order book.                                                         *)
ImplementsBook == Book!Spec
=============================================================================
