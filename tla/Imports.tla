------------------------------ MODULE Imports -------------------------------
(***************************************************************************)
(* The catalogue: the import of a supplier's price list (import_products   *)
(* and its helpers in views.py), the creation, update and deletion of a    *)
(* product (ProductSerializer), the deletion of a supplier or his user,    *)
(* which takes his products along, and the orders that refer to products.  *)
(*                                                                         *)
(* The records of a file are stored in one transaction.  SQLite has one    *)
(* writer at a time, so nobody else writes while it is open, but a request *)
(* that has loaded a product before may save its copy afterwards.  Inside  *)
(* the transaction a record that fails half way keeps what it has written. *)
(* Everything else commits statement by statement.  The validators look a  *)
(* sku up before the statement that stores it; since the column is unique, *)
(* only that statement counts.                                             *)
(***************************************************************************)
EXTENDS Naturals, Sequences, FiniteSets

CONSTANTS
    Suppliers,
    Skus,
    Categories,
    Values,      \* contents of a record: name, price, stock, and so on
    Handlers,    \* concurrent requests
    Files,       \* the price lists suppliers send
    Forms,       \* what requests about one product carry
    MaxId,       \* bound: keys of products that are given
    MaxLogs,     \* bound: imports that are logged in this instance
    Ops          \* the operations users issue in this instance

None == "none"
Keep == "keep"
Ids == 1 .. MaxId    \* AUTOINCREMENT keys of products

(* A field of a record as the parser hands it over: not there; "" or null; *)
(* the number 0 of JSON and YAML; the string "0" of CSV; another number,   *)
(* negative or not; one that the column has no room for; an infinite one,  *)
(* which JSON and YAML can write; any other text, or no number.            *)
Field == {"absent", "blank", "number0", "string0", "number", "negative",
          "large", "infinite", "text"}
Falsy == {"absent", "blank", "number0"}
(* An entry of the list is an object, or a number or null; text, or a list, *)
(* is refused like an object without its fields.                           *)
Record == [shape : {"object", "scalar"},
           sku : Skus, category : Categories, value : Values,
           price : Field, cost : Field, stock : Field, minimum : Field,
           attributes : {"none", "good", "broken"}]

Product == [sku : Skus, supplier : Suppliers, category : Categories, value : Values]
NoProduct == [sku |-> None, supplier |-> None, category |-> None, value |-> None]

(* The data of a request about one product; Keep is a field that it does   *)
(* not carry.                                                              *)
Form == [sku : Skus \cup {Keep}, supplier : Suppliers \cup {Keep},
         category : Categories \cup {Keep}, value : Values \cup {Keep},
         attribute : Values \cup {Keep}]
NoForm == [sku |-> Keep, supplier |-> Keep, category |-> Keep, value |-> Keep,
           attribute |-> Keep]

ASSUME ImportsAssumption ==
    /\ {None, Keep} \cap (Skus \cup Suppliers \cup Categories \cup Values) = {}
    /\ None \notin Handlers
    /\ Files \subseteq Seq(Record)
    /\ Forms \subseteq Form
    /\ MaxId \in Nat /\ MaxLogs \in Nat

VARIABLES
    product,     \* table products
    attribute,   \* table product_attributes, one attribute per product
    categories,  \* table categories
    sequence,    \* the last key that was given to a product
    ordered,     \* table order_items: the products that are in orders
    suppliers,   \* table suppliers: those that are there
    logs,        \* history: the rows price_update_logs was given
    writer,      \* the request whose transaction is open
    pc,          \* the next step of each handler
    who,         \* the supplier who sends a price list, or is deleted
    file,        \* the list of records it has parsed
    update,      \* update_existing
    index,       \* the record it is at
    success,     \* success_count
    before,      \* the tables when the transaction was opened
    target,      \* the product a request is about, 0 if there is none
    copy,        \* the product an update has loaded
    form,        \* what the request carries
    gathered,    \* the products a deletion of a supplier has found
    clean,       \* history: no statement of this import has failed
    latest,      \* history: the import since which nothing was written
    serial       \* history: products if requests ran one after another,
                 \* Contested where a copy was held during a write

database == <<product, attribute, categories, sequence>>
parsed == <<who, file, update>>
single == <<target, copy, form, gathered>>
vars == <<product, attribute, categories, sequence, ordered, suppliers, logs, writer,
          pc, who, file, update, index, success, before, target, copy, form, gathered,
          clean, latest, serial>>

Contested == [NoProduct EXCEPT !.sku = Keep]
NoImport == [who |-> None, file |-> <<>>, update |-> FALSE]
Unread == <<[i \in Ids |-> NoProduct], [i \in Ids |-> None], {}, 0>>

Init ==
    /\ product = [i \in Ids |-> NoProduct]
    /\ attribute = [i \in Ids |-> None]
    /\ categories = {}
    /\ sequence = 0
    /\ ordered = {}
    /\ suppliers = Suppliers
    /\ logs = 0
    /\ writer = None
    /\ pc = [h \in Handlers |-> "idle"]
    /\ who = [h \in Handlers |-> None]
    /\ file = [h \in Handlers |-> <<>>]
    /\ update = [h \in Handlers |-> FALSE]
    /\ index = [h \in Handlers |-> 1]
    /\ success = [h \in Handlers |-> 0]
    /\ before = Unread
    /\ target = [h \in Handlers |-> 0]
    /\ copy = [h \in Handlers |-> NoProduct]
    /\ form = [h \in Handlers |-> NoForm]
    /\ gathered = [h \in Handlers |-> {}]
    /\ clean = TRUE
    /\ latest = NoImport
    /\ serial = [i \in Ids |-> NoProduct]

Exists(i) == product[i] # NoProduct

(* The rows with sku s, at most one. *)
Rows(s) == {i \in Ids : product[i].sku = s}

(* A request other than h is going to save a copy of product i. *)
Held(h, i) == \E g \in Handlers \ {h} : pc[g] = "update" /\ target[g] = i

(* The product that a record with sku s, or a new product, is stored in.   *)
Slot(s) == IF Rows(s) = {} THEN sequence + 1 ELSE CHOOSE i \in Rows(s) : TRUE

-----------------------------------------------------------------------------
(* _validate_product_data *)

(* Decimal(str()) or int() of a field that is there fails. *)
Unreadable(f) == f \in {"blank", "text"}

(* Decimal(str()) raises InvalidOperation, which is an ArithmeticError and *)
(* no ValueError, so that nothing catches it.                              *)
(* The cost price is looked at when it is neither missing nor empty.  An   *)
(* infinite stock is an OverflowError of int(), and the fields of a number *)
(* or of null cannot be looked up at all: neither is caught.               *)
Raises(r) ==
    \/ r.shape = "scalar"
    \/ Unreadable(r.price) \/ r.cost = "text"
    \/ r.stock = "infinite"

(* The record is refused, and there is an error for each of its fields     *)
(* that is missing, negative or no number.  A zero counts as missing when  *)
(* it is a number, so that a JSON file cannot say that a product is out of *)
(* stock; a CSV file can.                                                  *)
Refused(r) ==
    \/ r.price \in Falsy \cup {"string0", "negative"}
    \/ r.cost = "negative"
    \/ r.stock \in Falsy \cup {"negative", "text"}

(* What the columns refuse, but only of a row that is written. *)
Unstorable(r) ==
    \/ "large" \in {r.price, r.cost, r.stock, r.minimum}
    \/ "infinite" \in {r.price, r.cost}
    \/ r.minimum = "negative"

(* How far _process_product_record gets with a record that is valid: the   *)
(* category, the product, which is written or not, the attributes.         *)
Reach(r, written) ==
    IF r.minimum \in {"blank", "text", "infinite"} THEN 1
    ELSE IF written /\ Unstorable(r) THEN 1
    ELSE IF r.attributes = "broken" THEN 2 ELSE 3

(* The same of a record that writes its product. *)
FullReach(r) == Reach(r, TRUE)

(* Category.objects.get_or_create *)
StoreCategory(r, reach) ==
    categories' = IF reach >= 1 THEN categories \cup {r.category} ELSE categories

Imported(h, r) ==
    [sku |-> r.sku, supplier |-> who[h], category |-> r.category, value |-> r.value]

(* Variant: get_or_create whatever update_existing says. *)
StoreNewProduct(h, r, reach) ==
    IF reach >= 2 /\ Rows(r.sku) = {}
    THEN /\ product' = [product EXCEPT ![Slot(r.sku)] = Imported(h, r)]
         /\ sequence' = sequence + 1
    ELSE UNCHANGED <<product, sequence>>

(* update_or_create, or get_or_create, which leaves a row as it is. *)
Writes(h, r) == update[h] \/ Rows(r.sku) = {}

(* Product.objects.update_or_create, or get_or_create, by sku alone: a     *)
(* product of another supplier changes hands.                              *)
StoreProduct(h, r, reach) ==
    IF reach >= 2 /\ Writes(h, r)
    THEN /\ product' = [product EXCEPT ![Slot(r.sku)] = Imported(h, r)]
         /\ sequence' = IF Rows(r.sku) = {} THEN sequence + 1 ELSE sequence
    ELSE UNCHANGED <<product, sequence>>

(* Variant: the attributes are stored unless the product is a new one.     *)
StoreAttributesOfOld(r, reach) ==
    attribute' = IF reach = 3 /\ r.attributes = "good" /\ Rows(r.sku) # {}
                 THEN [attribute EXCEPT ![Slot(r.sku)] = r.value]
                 ELSE attribute

(* ProductAttribute.objects.update_or_create, also of a product that was   *)
(* not to be updated.                                                      *)
StoreAttributes(r, reach) ==
    attribute' = IF reach = 3 /\ r.attributes = "good"
                 THEN [attribute EXCEPT ![Slot(r.sku)] = r.value]
                 ELSE attribute

-----------------------------------------------------------------------------
(* POST /products/import/ *)

(* Variant: the counter outlives the request. *)
AnswerUncounted(h) ==
    /\ pc' = [pc EXCEPT ![h] = "idle"]
    /\ who' = [who EXCEPT ![h] = None]
    /\ file' = [file EXCEPT ![h] = <<>>]
    /\ update' = [update EXCEPT ![h] = FALSE]
    /\ index' = [index EXCEPT ![h] = 1]
    /\ target' = [target EXCEPT ![h] = 0]
    /\ copy' = [copy EXCEPT ![h] = NoProduct]
    /\ form' = [form EXCEPT ![h] = NoForm]
    /\ gathered' = [gathered EXCEPT ![h] = {}]
    /\ UNCHANGED success

Answer(h) ==
    /\ pc' = [pc EXCEPT ![h] = "idle"]
    /\ who' = [who EXCEPT ![h] = None]
    /\ file' = [file EXCEPT ![h] = <<>>]
    /\ update' = [update EXCEPT ![h] = FALSE]
    /\ index' = [index EXCEPT ![h] = 1]
    /\ success' = [success EXCEPT ![h] = 0]
    /\ target' = [target EXCEPT ![h] = 0]
    /\ copy' = [copy EXCEPT ![h] = NoProduct]
    /\ form' = [form EXCEPT ![h] = NoForm]
    /\ gathered' = [gathered EXCEPT ![h] = {}]

(* The file is read and parsed, the user is a supplier: the transaction is *)
(* opened.                                                                 *)
BeginImport(h, u, f, upd) ==
    /\ "import" \in Ops
    /\ pc[h] = "idle"
    /\ u \in suppliers
    /\ writer = None
    /\ logs + Cardinality({g \in Handlers : pc[g] = "log"}) < MaxLogs
    /\ sequence + Cardinality({s \in Skus :
                    Rows(s) = {} /\ \E n \in DOMAIN f : f[n].sku = s}) <= MaxId
    /\ writer' = h
    /\ before' = database
    /\ clean' = TRUE
    /\ pc' = [pc EXCEPT ![h] = "records"]
    /\ who' = [who EXCEPT ![h] = u]
    /\ file' = [file EXCEPT ![h] = f]
    /\ update' = [update EXCEPT ![h] = upd]
    /\ UNCHANGED <<database, ordered, suppliers, logs, index, success, single, latest, serial>>

AtRecord(h) == pc[h] = "records" /\ index[h] <= Len(file[h])

(* The record is refused with its errors. *)
RefuseRecord(h) ==
    LET r == file[h][index[h]]
    IN  /\ AtRecord(h)
        /\ ~Raises(r)
        /\ Refused(r)
        /\ index' = [index EXCEPT ![h] = @ + 1]
        /\ UNCHANGED <<database, ordered, suppliers, logs, writer, pc, parsed, success,
                       before, single, clean, latest, serial>>

(* The record is stored as far as it goes, and counted as a success when   *)
(* it is stored to its end.                                                *)
ProcessRecord(h) ==
    LET r == file[h][index[h]]
    IN  /\ AtRecord(h)
        /\ ~Raises(r) /\ ~Refused(r)
        /\ StoreCategory(r, Reach(r, Writes(h, r)))
        /\ StoreProduct(h, r, Reach(r, Writes(h, r)))
        /\ StoreAttributes(r, Reach(r, Writes(h, r)))
        /\ success' = IF Reach(r, Writes(h, r)) = 3 THEN [success EXCEPT ![h] = @ + 1]
                      ELSE success
        /\ index' = [index EXCEPT ![h] = @ + 1]
        /\ UNCHANGED <<ordered, suppliers, logs, writer, pc, parsed, before, single, clean,
                       latest, serial>>

(* A statement fails, as with "database is locked": caught, and counted    *)
(* as the failure of the record, which keeps what it has written.          *)
StatementFails(h) ==
    LET r == file[h][index[h]]
    IN  \E reach \in 0 .. 2 :
            /\ "fail" \in Ops
            /\ AtRecord(h)
            /\ ~Raises(r) /\ ~Refused(r)
            /\ reach <= Reach(r, Writes(h, r))
            /\ StoreCategory(r, reach)
            /\ StoreProduct(h, r, reach)
            /\ StoreAttributes(r, reach)
            /\ index' = [index EXCEPT ![h] = @ + 1]
            /\ clean' = FALSE
            /\ UNCHANGED <<ordered, suppliers, logs, writer, pc, parsed, success, before,
                           single, latest, serial>>

Rollback(h) ==
    /\ product' = before[1]
    /\ attribute' = before[2]
    /\ categories' = before[3]
    /\ sequence' = before[4]
    /\ writer' = None
    /\ before' = Unread
    /\ clean' = TRUE
    /\ Answer(h)
    /\ UNCHANGED <<ordered, suppliers, logs, latest, serial>>

(* The exception leaves the transaction and the view: 500, no log.  *)
AbortImport(h) ==
    /\ AtRecord(h)
    /\ Raises(file[h][index[h]])
    /\ Rollback(h)

Commit(h) ==
    /\ pc[h] = "records"
    /\ index[h] > Len(file[h])
    /\ writer' = None
    /\ pc' = [pc EXCEPT ![h] = "log"]
    /\ latest' = IF clean
                 THEN [who |-> who[h], file |-> file[h], update |-> update[h]]
                 ELSE NoImport
    /\ serial' = [i \in Ids |-> IF product[i] = before[1][i] THEN serial[i]
                                ELSE IF Held(h, i) THEN Contested
                                ELSE product[i]]
    /\ before' = Unread
    /\ clean' = TRUE
    /\ UNCHANGED <<database, ordered, suppliers, logs, parsed, index, success, single>>

(* PriceUpdateLog.objects.create, after the transaction, with the counters *)
(* of the import, and the answer; 500 when the supplier is gone.           *)
WriteLog(h) ==
    /\ pc[h] = "log"
    /\ writer = None
    /\ logs' = IF who[h] \in suppliers THEN logs + 1 ELSE logs
    /\ Answer(h)
    /\ UNCHANGED <<database, ordered, suppliers, writer, before, clean, latest, serial>>

-----------------------------------------------------------------------------
(* POST, PUT, PATCH and DELETE of a product                                *)

(* setattr of the fields the request carries. *)
Apply(r, f) ==
    [sku |-> IF f.sku = Keep THEN r.sku ELSE f.sku,
     supplier |-> IF f.supplier = Keep THEN r.supplier ELSE f.supplier,
     category |-> IF f.category = Keep THEN r.category ELSE f.category,
     value |-> IF f.value = Keep THEN r.value ELSE f.value]

(* A request of a single product goes on to write its attributes, if it    *)
(* carries some, or is answered.                                           *)
Proceed(h, i, f, step) ==
    IF f.attribute = Keep THEN Answer(h)
    ELSE /\ pc' = [pc EXCEPT ![h] = step]
         /\ target' = [target EXCEPT ![h] = i]
         /\ copy' = [copy EXCEPT ![h] = NoProduct]
         /\ form' = [form EXCEPT ![h] = f]
         /\ UNCHANGED <<parsed, gathered, index, success>>

(* The write of product i by h was the only thing going on with it, and    *)
(* has made it r.                                                          *)
Rewritten(h, i, r) ==
    serial' = [serial EXCEPT ![i] = IF Held(h, i) \/ @ = Contested
                                    THEN Contested ELSE r]

(* Product.objects.create *)
CreateProduct(h, f) ==
    /\ "create" \in Ops
    /\ pc[h] = "idle" /\ writer = None
    /\ Keep \notin {f.sku, f.supplier, f.category, f.value}
    /\ f.category \in categories /\ f.supplier \in suppliers
    /\ Rows(f.sku) = {}
    /\ sequence < MaxId
    /\ product' = [product EXCEPT ![sequence + 1] = Apply(NoProduct, f)]
    /\ sequence' = sequence + 1
    /\ latest' = NoImport
    /\ Rewritten(h, sequence + 1, Apply(NoProduct, f))
    /\ Proceed(h, sequence + 1, f, "attribute")
    /\ UNCHANGED <<attribute, categories, ordered, suppliers, logs, writer, before, clean>>

(* Variant: what an open transaction has written is seen. *)
SeenAtOnce(i) == product[i]

(* What a statement outside of the transaction reads. *)
Seen(i) == IF writer = None THEN product[i] ELSE before[1][i]

(* get_object(): suppliers reach their own products, clients those that    *)
(* are for sale, administrators all: somebody reaches each.                *)
Load(h, i, f, step) ==
    /\ pc[h] = "idle"
    /\ Seen(i) # NoProduct
    /\ pc' = [pc EXCEPT ![h] = step]
    /\ target' = [target EXCEPT ![h] = i]
    /\ copy' = [copy EXCEPT ![h] = IF step = "update" THEN Seen(i) ELSE NoProduct]
    /\ form' = [form EXCEPT ![h] = f]
    /\ UNCHANGED <<database, ordered, suppliers, logs, writer, parsed, gathered, index, success,
                   before, clean, latest, serial>>

(* Variant: a category that an open transaction has written is accepted. *)
SeenCategoriesAtOnce == categories

(* The categories that a request may name while a transaction is open. *)
SeenCategories == IF writer = None THEN categories ELSE before[3]

LoadForUpdate(h, i, f) ==
    /\ "update" \in Ops
    /\ f.category \in SeenCategories \cup {Keep}
    /\ f.supplier \in suppliers \cup {Keep}
    /\ Load(h, i, f, "update")

LoadForDelete(h, i) == "delete" \in Ops /\ Load(h, i, NoForm, "delete")

(* All columns of the copy, with the fields of the request; the row is     *)
(* inserted again when it is gone.  A sku that was taken, or a supplier    *)
(* who was deleted meanwhile: 500.                                         *)
SaveProduct(h) ==
    LET i == target[h]
        r == Apply(copy[h], form[h])
    IN  /\ pc[h] = "update"
        /\ writer = None
        /\ IF Rows(r.sku) \subseteq {i} /\ r.supplier \in suppliers
           THEN /\ product' = [product EXCEPT ![i] = r]
                /\ latest' = NoImport
                /\ Rewritten(h, i, Apply(serial[i], form[h]))
                /\ Proceed(h, i, form[h], "clear")
           ELSE Answer(h) /\ UNCHANGED <<product, latest, serial>>
        /\ UNCHANGED <<attribute, categories, sequence, ordered, suppliers, logs, writer,
                       before, clean>>

(* instance.attributes.all().delete() *)
ClearAttributes(h) ==
    /\ pc[h] = "clear"
    /\ writer = None
    /\ attribute' = [attribute EXCEPT ![target[h]] = None]
    /\ latest' = NoImport
    /\ pc' = [pc EXCEPT ![h] = "attribute"]
    /\ UNCHANGED <<product, categories, sequence, ordered, suppliers, logs, writer, parsed,
                   index, success, before, single, clean, serial>>

(* ProductAttribute.objects.create: 500 when the product is gone or another *)
(* request has given it the attribute.                                     *)
CreateAttribute(h) ==
    LET i == target[h]
    IN  /\ pc[h] = "attribute"
        /\ writer = None
        /\ IF Exists(i) /\ attribute[i] = None
           THEN /\ attribute' = [attribute EXCEPT ![i] = form[h].attribute]
                /\ latest' = NoImport
           ELSE UNCHANGED <<attribute, latest>>
        /\ Answer(h)
        /\ UNCHANGED <<product, categories, sequence, ordered, suppliers, logs, writer,
                       before, clean, serial>>

(* Variant: the items of orders do not protect a product. *)
DeleteAnyProduct(h) ==
    LET i == target[h]
    IN  /\ pc[h] = "delete"
        /\ writer = None
        /\ product' = [product EXCEPT ![i] = NoProduct]
        /\ attribute' = [attribute EXCEPT ![i] = None]
        /\ latest' = NoImport
        /\ Rewritten(h, i, NoProduct)
        /\ Answer(h)
        /\ UNCHANGED <<categories, sequence, ordered, suppliers, logs, writer, before, clean>>

(* The attributes cascade, and items of orders protect the product: they   *)
(* are looked up first, and the foreign key finds those that are inserted  *)
(* after that; both are a 500.                                             *)
DeleteProduct(h) ==
    LET i == target[h]
    IN  /\ pc[h] = "delete"
        /\ writer = None
        /\ IF i \in ordered
           THEN UNCHANGED <<product, attribute, latest, serial>>
           ELSE /\ product' = [product EXCEPT ![i] = NoProduct]
                /\ attribute' = [attribute EXCEPT ![i] = None]
                /\ latest' = NoImport
                /\ Rewritten(h, i, NoProduct)
        /\ Answer(h)
        /\ UNCHANGED <<categories, sequence, ordered, suppliers, logs, writer, before, clean>>

-----------------------------------------------------------------------------
(* DELETE of a supplier, or of his user, and the same on the admin site:   *)
(* his products are looked up, and what refers to them,                    *)
GatherProducts(h, u) ==
    /\ "withdraw" \in Ops
    /\ pc[h] = "idle"
    /\ u \in suppliers
    /\ pc' = [pc EXCEPT ![h] = "withdraw"]
    /\ who' = [who EXCEPT ![h] = u]
    /\ gathered' = [gathered EXCEPT ![h] = {i \in Ids : Seen(i).supplier = u}]
    /\ UNCHANGED <<database, ordered, suppliers, logs, writer, file, update, index, success,
                   before, target, copy, form, clean, latest, serial>>

(* and then all are deleted by their keys in one transaction, also one     *)
(* that has changed hands meanwhile.  Items of orders protect products and *)
(* name the supplier as well, and the foreign keys find a product that he  *)
(* was given meanwhile; each is a 500 that leaves everything as it is.     *)
WithdrawSupplier(h) ==
    LET gone == gathered[h]
    IN  /\ pc[h] = "withdraw"
        /\ writer = None
        /\ \/ UNCHANGED <<product, attribute, suppliers, latest, serial>>
           \/ /\ gone \cap ordered = {}
              /\ \A i \in Ids \ gone : product[i].supplier # who[h]
              /\ product' = [i \in Ids |-> IF i \in gone THEN NoProduct ELSE product[i]]
              /\ attribute' = [i \in Ids |-> IF i \in gone THEN None ELSE attribute[i]]
              /\ suppliers' = suppliers \ {who[h]}
              /\ latest' = NoImport
              /\ serial' = [i \in Ids |->
                                IF i \notin gone THEN serial[i]
                                ELSE IF Held(h, i) \/ serial[i] = Contested
                                THEN Contested ELSE NoProduct]
        /\ Answer(h)
        /\ UNCHANGED <<categories, sequence, ordered, logs, writer, before, clean>>

(* He comes back by the save of an older copy, as toggle_accept_orders     *)
(* makes it; the module Accounts has the rest.                             *)
RestoreSupplier(u) ==
    /\ "withdraw" \in Ops
    /\ writer = None
    /\ u \notin suppliers
    /\ suppliers' = suppliers \cup {u}
    /\ UNCHANGED <<database, ordered, logs, writer, pc, parsed, index, success,
                   before, single, clean, latest, serial>>

(* OrderItem.objects.create of an order, and the deletion of the last      *)
(* order with the product; the module Orders has the rest.                 *)
OrderProduct(i) ==
    /\ "order" \in Ops
    /\ writer = None
    /\ \/ Exists(i) /\ ordered' = ordered \cup {i}
       \/ i \in ordered /\ ordered' = ordered \ {i}
    /\ UNCHANGED <<database, suppliers, logs, writer, pc, parsed, index, success, before,
                   single, clean, latest, serial>>

-----------------------------------------------------------------------------
(* A database error outside of a record, or a killed server process.       *)
HandlerFails(h) ==
    /\ "fail" \in Ops
    /\ pc[h] # "idle"
    /\ IF pc[h] = "records"
       THEN Rollback(h)
       ELSE /\ Answer(h)
            /\ UNCHANGED <<database, ordered, suppliers, logs, writer, before, clean,
                           latest, serial>>

Import(h) ==
    \/ \E u \in Suppliers, f \in Files, upd \in BOOLEAN : BeginImport(h, u, f, upd)
    \/ RefuseRecord(h) \/ ProcessRecord(h) \/ StatementFails(h)
    \/ AbortImport(h) \/ Commit(h) \/ WriteLog(h)

Next ==
    \/ \E h \in Handlers :
        \/ Import(h)
        \/ \E f \in Forms :
            CreateProduct(h, f) \/ \E i \in Ids : LoadForUpdate(h, i, f)
        \/ \E i \in Ids : LoadForDelete(h, i)
        \/ SaveProduct(h) \/ ClearAttributes(h) \/ CreateAttribute(h)
        \/ DeleteProduct(h) \/ HandlerFails(h)
        \/ WithdrawSupplier(h) \/ \E u \in Suppliers : GatherProducts(h, u)
    \/ \E i \in Ids : OrderProduct(i)
    \/ \E u \in Suppliers : RestoreSupplier(u)

Spec == Init /\ [][Next]_vars

-----------------------------------------------------------------------------
(* Properties *)

(* Every variable has a value of its table or request; in particular no    *)
(* request has counted more successes than records it has seen.            *)
TypeOK ==
    /\ product \in [Ids -> Product \cup {NoProduct}]
    /\ attribute \in [Ids -> Values \cup {None}]
    /\ categories \subseteq Categories
    /\ sequence \in 0 .. MaxId
    /\ ordered \subseteq Ids
    /\ suppliers \subseteq Suppliers
    /\ logs \in 0 .. MaxLogs
    /\ writer \in Handlers \cup {None}
    /\ pc \in [Handlers -> {"idle", "records", "log", "update", "clear",
                            "attribute", "delete", "withdraw"}]
    /\ who \in [Handlers -> Suppliers \cup {None}]
    /\ file \in [Handlers -> Files \cup {<<>>}]
    /\ update \in [Handlers -> BOOLEAN]
    /\ \A h \in Handlers : index[h] \in 1 .. Len(file[h]) + 1
    /\ \A h \in Handlers : success[h] \in 0 .. index[h] - 1
    /\ target \in [Handlers -> Ids \cup {0}]
    /\ copy \in [Handlers -> Product \cup {NoProduct}]
    /\ form \in [Handlers -> Form]
    /\ gathered \in [Handlers -> SUBSET Ids]
    /\ clean \in BOOLEAN
    /\ latest.who \in Suppliers \cup {None}
    /\ serial \in [Ids -> Product \cup {NoProduct, Contested}]

(* Attributes and items of orders refer to products that are there, and    *)
(* products to suppliers: either may have been deleted, or have come back  *)
(* by the save of an older copy, since the request that inserts or saves   *)
(* what refers to them has seen it.                                        *)
ReferencesHold ==
    \A i \in Ids :
        /\ attribute[i] # None \/ i \in ordered => Exists(i)
        /\ Exists(i) => product[i].supplier \in suppliers

(* Outside of a transaction a product is what the requests about it have   *)
(* made of it in the order of their writes, each with the fields it        *)
(* carries, unless a copy of it was held while somebody else wrote it.     *)
UncontestedProductIsSerial ==
    writer = None =>
        \A i \in Ids : serial[i] # Contested => product[i] = serial[i]

Commits(h) == pc[h] = "records" /\ pc'[h] = "log"

(* The records of f that reach a stage when the product is written. *)
Reaching(f, stage) ==
    {n \in DOMAIN f : ~Refused(f[n]) /\ FullReach(f[n]) >= stage}

(* The record of f that decides on the product with sku s: the last one    *)
(* when products are updated, or else the first one.                       *)
Decides(f, upd, s, n) ==
    LET stored == {k \in Reaching(f, 2) : f[k].sku = s}
    IN  n \in stored /\ \A k \in stored : IF upd THEN k <= n ELSE n <= k

(* The rows with sku s when the transaction was opened. *)
Old(s) == {i \in Ids : before[1][i].sku = s}

(* The record n of f writes its product: it may, or there is none so far.  *)
WritesOf(f, upd, n) ==
    \/ upd
    \/ /\ Old(f[n].sku) = {}
       /\ \A k \in Reaching(f, 2) : f[k].sku = f[n].sku => n <= k

(* The records of f that are stored to their end. *)
Successes(f, upd) ==
    {n \in DOMAIN f : ~Refused(f[n]) /\ Reach(f[n], WritesOf(f, upd, n)) = 3}

(* What an import commits is what its file says, read as a whole: every    *)
(* product is the one of its deciding record, or as it was; existing       *)
(* products stay as they were unless they are to be updated; the records   *)
(* counted as successes are those stored to their end.                     *)
ImportMatchesFile ==
    [][\A h \in Handlers :
        Commits(h) /\ clean =>
            /\ \A s \in Skus :
                   IF /\ update[h] \/ Old(s) = {}
                      /\ \E n \in DOMAIN file[h] :
                             Decides(file[h], update[h], s, n)
                   THEN \E n \in DOMAIN file[h], i \in Ids :
                            /\ Decides(file[h], update[h], s, n)
                            /\ Rows(s) = {i}
                            /\ Old(s) \subseteq {i}
                            /\ product[i] = Imported(h, file[h][n])
                   ELSE /\ Rows(s) = Old(s)
                        /\ \A i \in Old(s) : product[i] = before[1][i]
            /\ success[h] = Cardinality(Successes(file[h], update[h]))
            /\ categories = before[3] \cup
                   {file[h][n].category : n \in Reaching(file[h], 1)}]_vars

(* Sending the same file again, with nothing written in between, changes   *)
(* nothing: neither a product nor an attribute nor a category.  A record   *)
(* the table refuses is left out where products are not to be updated:     *)
(* once its product is there nothing is written that could be refused, and *)
(* the record succeeds with its attributes.                                *)
ImportIsIdempotent ==
    [][\A h \in Handlers :
        (/\ Commits(h) /\ clean
         /\ update[h] \/ \A n \in DOMAIN file[h] : ~Unstorable(file[h][n])
         /\ latest = [who |-> who[h], file |-> file[h], update |-> update[h]])
            => database = before]_vars

(* What the validation means to say of a price that is no number: it is an *)
(* error of its record, and the import goes on to its log.                 *)
BadPriceFailsItsRecord ==
    [][\A h \in Handlers : pc[h] = "records" => pc'[h] # "idle"]_vars

-----------------------------------------------------------------------------
(* Refinement *)

(* The tables without what an open transaction has written. *)
Committed == IF writer = None THEN database ELSE before

Book == INSTANCE Catalogue WITH
    products <- Committed[1],
    attributes <- Committed[2],
    categories <- Committed[3],
    given <- Committed[4]

(* What others see of the catalogue changes by whole price lists, by       *)
(* single writes and by the deletion of a supplier with all his products,  *)
(* also when statements fail and stale copies are saved: no import takes a *)
(* product, a sku or an attribute away or stores for somebody else or for  *)
(* a supplier who is gone, no write takes a sku that is in use or a        *)
(* category that was rolled back, and no product in an order is deleted.   *)
ImplementsCatalogue == Book!Spec
=============================================================================
