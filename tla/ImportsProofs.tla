---------------------------- MODULE ImportsProofs ----------------------------
(* Theorems about Imports, for every set of requests, products, price      *)
(* lists and forms.                                                        *)
EXTENDS Imports, FiniteSetTheorems, TLAPS

Tables == [Ids -> Product \cup {NoProduct}] \X [Ids -> Values \cup {None}]
          \X (SUBSET Categories) \X Nat

(* The values of the variables the theorems are about. *)
Types ==
    /\ product \in [Ids -> Product \cup {NoProduct}]
    /\ attribute \in [Ids -> Values \cup {None}]
    /\ categories \in SUBSET Categories
    /\ sequence \in Nat
    /\ ordered \subseteq Ids
    /\ suppliers \subseteq Suppliers
    /\ writer \in Handlers \cup {None}
    /\ pc \in [Handlers -> {"idle", "records", "log", "update", "clear",
                            "attribute", "delete", "withdraw"}]
    /\ who \in [Handlers -> Suppliers \cup {None}]
    /\ file \in [Handlers -> Seq(Record)]
    /\ index \in [Handlers -> Nat \ {0}]
    /\ before \in Tables
    /\ target \in [Handlers -> Ids \cup {0}]
    /\ copy \in [Handlers -> Product \cup {NoProduct}]
    /\ form \in [Handlers -> Form]
    /\ gathered \in [Handlers -> SUBSET Ids]

(* What a request holds at each of its steps. *)
RequestShape ==
    \A h \in Handlers :
        /\ pc[h] = "records" <=> writer = h
        /\ pc[h] = "records" => who[h] \in suppliers
        /\ pc[h] = "withdraw" => who[h] \in Suppliers
        /\ pc[h] \in {"update", "clear", "attribute", "delete"} => target[h] \in Ids
        /\ pc[h] = "update" => copy[h] \in Product
        /\ pc[h] \in {"clear", "attribute"} => form[h].attribute \in Values

TypeInv == Types /\ RequestShape

USE DEF None, Keep

LEMMA UnreadTyped == Unread \in Tables
<1>1. [i \in Ids |-> NoProduct] \in [Ids -> Product \cup {NoProduct}]
  OBVIOUS
<1>2. [i \in Ids |-> None] \in [Ids -> Values \cup {None}]
  OBVIOUS
<1> QED
  BY <1>1, <1>2 DEF Unread, Tables

LEMMA InitTyped == Init => TypeInv
<1> SUFFICES ASSUME Init PROVE TypeInv
  OBVIOUS
<1>1. NoForm \in Form
  BY DEF NoForm, Form
<1>2. Types
  BY <1>1, UnreadTyped DEF Init, Types
<1>3. RequestShape
  BY ImportsAssumption DEF Init, RequestShape
<1> QED
  BY <1>2, <1>3 DEF TypeInv

(* A request that has just been answered holds nothing. *)
LEMMA AnswerTyped ==
    ASSUME TypeInv, NEW h \in Handlers, Answer(h),
           writer' = IF pc[h] = "records" THEN None ELSE writer,
           suppliers' = suppliers \/ writer = None
    PROVE  /\ pc' \in [Handlers -> {"idle", "records", "log", "update", "clear",
                                    "attribute", "delete", "withdraw"}]
           /\ who' \in [Handlers -> Suppliers \cup {None}]
           /\ file' \in [Handlers -> Seq(Record)]
           /\ index' \in [Handlers -> Nat \ {0}]
           /\ target' \in [Handlers -> Ids \cup {0}]
           /\ copy' \in [Handlers -> Product \cup {NoProduct}]
           /\ form' \in [Handlers -> Form]
           /\ gathered' \in [Handlers -> SUBSET Ids]
           /\ writer' \in Handlers \cup {None}
           /\ RequestShape'
BY ImportsAssumption DEF TypeInv, Types, RequestShape, Answer, Form, NoForm

(* A record of a file is one. *)
LEMMA RecordTyped ==
    ASSUME TypeInv, NEW h \in Handlers, AtRecord(h)
    PROVE  file[h][index[h]] \in Record
BY DEF TypeInv, Types, AtRecord

LEMMA ImportedTyped ==
    ASSUME TypeInv, NEW h \in Handlers, pc[h] = "records", NEW r \in Record
    PROVE  Imported(h, r) \in Product
BY DEF TypeInv, Types, RequestShape, Imported, Product, Record

(* A slot is a row with the sku, or the next free key. *)
LEMMA SlotOfRow ==
    ASSUME NEW s
    PROVE  IF Rows(s) = {} THEN Slot(s) = sequence + 1 ELSE Slot(s) \in Rows(s)
BY DEF Slot

(* The fields of a request make a product of a product. *)
LEMMA AppliedProduct ==
    ASSUME NEW r \in Product, NEW f \in Form
    PROVE  Apply(r, f) \in Product
BY DEF Apply, Product, Form

LEMMA NewProductTyped ==
    ASSUME NEW f \in Form, Keep \notin {f.sku, f.supplier, f.category, f.value}
    PROVE  Apply(NoProduct, f) \in Product
BY DEF Apply, Product, Form

(* The steps of an import inside its transaction. *)
LEMMA RecordStep ==
    ASSUME TypeInv, NEW h \in Handlers,
           RefuseRecord(h) \/ ProcessRecord(h) \/ StatementFails(h)
    PROVE  /\ pc[h] = "records"
           /\ UNCHANGED <<ordered, suppliers, logs, writer, pc, parsed, before, single, latest,
                          serial>>
           /\ index' = [index EXCEPT ![h] = @ + 1]
           /\ \/ UNCHANGED database
              \/ \E r \in Record, reach \in 0 .. 3 :
                     /\ StoreCategory(r, reach)
                     /\ StoreProduct(h, r, reach)
                     /\ StoreAttributes(r, reach)
<1>1. CASE RefuseRecord(h)
  BY <1>1 DEF RefuseRecord, AtRecord
<1>2. CASE ProcessRecord(h)
  <2> DEFINE r == file[h][index[h]]
  <2>1. r \in Record /\ Reach(r, Writes(h, r)) \in 0 .. 3
    BY <1>2, RecordTyped DEF ProcessRecord, Reach
  <2> QED
    BY <1>2, <2>1 DEF ProcessRecord, AtRecord
<1>3. CASE StatementFails(h)
  <2> DEFINE r == file[h][index[h]]
  <2>1. r \in Record
    BY <1>3, RecordTyped DEF StatementFails
  <2> QED
    BY <1>3, <2>1 DEF StatementFails, AtRecord
<1> QED
  BY <1>1, <1>2, <1>3

(* What a record does to the products. *)
LEMMA StoredProduct ==
    ASSUME TypeInv, NEW h \in Handlers, pc[h] = "records", NEW r \in Record,
           NEW reach \in 0 .. 3, StoreProduct(h, r, reach)
    PROVE  /\ product' \in [Ids -> Product \cup {NoProduct}]
           /\ sequence' \in Nat
           /\ \A i \in Ids : product'[i] = product[i] \/ product'[i] \in Product
           /\ reach >= 2 /\ Rows(r.sku) = {} =>
                  \A i \in Ids : i = Slot(r.sku) => product'[i] \in Product
<1>1. Imported(h, r) \in Product
  BY ImportedTyped
<1>2. CASE reach >= 2 /\ Writes(h, r)
  <2>1. /\ product' = [product EXCEPT ![Slot(r.sku)] = Imported(h, r)]
        /\ sequence' \in {sequence, sequence + 1}
    BY <1>2 DEF StoreProduct
  <2>2. product \in [Ids -> Product \cup {NoProduct}] /\ sequence \in Nat
    BY DEF TypeInv, Types
  <2> DEFINE k == Slot(r.sku)
             new == Imported(h, r)
  <2>3. product' = [product EXCEPT ![k] = new] /\ new \in Product
    BY <1>1, <2>1
  <2> HIDE DEF k, new
  <2>4. \A i \in Ids : product'[i] = IF i = k THEN new ELSE product[i]
    BY <2>2, <2>3
  <2>5. product' \in [Ids -> Product \cup {NoProduct}]
    BY <2>2, <2>3
  <2>6. \A i \in Ids : i = k => product'[i] \in Product
    BY <2>3, <2>4
  <2> QED
    BY <2>1, <2>2, <2>3, <2>4, <2>5, <2>6 DEF k
<1>3. CASE ~(reach >= 2 /\ Writes(h, r))
  BY <1>3 DEF StoreProduct, Writes, TypeInv, Types
<1> QED
  BY <1>2, <1>3

LEMMA StoredAttribute ==
    ASSUME TypeInv, NEW r \in Record, NEW reach \in 0 .. 3, StoreAttributes(r, reach)
    PROVE  /\ attribute' \in [Ids -> Values \cup {None}]
           /\ \A i \in Ids :
                  attribute'[i] = attribute[i] \/ (reach = 3 /\ i = Slot(r.sku))
<1>1. r.value \in Values
  BY DEF Record
<1>2. CASE reach = 3 /\ r.attributes = "good"
  BY <1>1, <1>2 DEF StoreAttributes, TypeInv, Types
<1>3. CASE ~(reach = 3 /\ r.attributes = "good")
  BY <1>3 DEF StoreAttributes, TypeInv, Types
<1> QED
  BY <1>2, <1>3

LEMMA RecordTypes ==
    ASSUME TypeInv, NEW h \in Handlers,
           RefuseRecord(h) \/ ProcessRecord(h) \/ StatementFails(h)
    PROVE  TypeInv'
<1>1. /\ product' \in [Ids -> Product \cup {NoProduct}]
      /\ attribute' \in [Ids -> Values \cup {None}]
      /\ categories' \in SUBSET Categories
      /\ sequence' \in Nat
  <2>1. CASE UNCHANGED database
    BY <2>1 DEF database, TypeInv, Types
  <2>2. ASSUME NEW r \in Record, NEW reach \in 0 .. 3, StoreCategory(r, reach),
               StoreProduct(h, r, reach), StoreAttributes(r, reach)
        PROVE  <1>1!1 /\ <1>1!2 /\ <1>1!3 /\ <1>1!4
    <3>1. categories' \in SUBSET Categories
      BY <2>2 DEF StoreCategory, Record, TypeInv, Types
    <3> QED
      BY <2>2, <3>1, RecordStep, StoredProduct, StoredAttribute
  <2> QED
    BY <2>1, <2>2, RecordStep
<1>2. index' \in [Handlers -> Nat \ {0}]
  <2>1. index \in [Handlers -> Nat \ {0}] /\ index' = [index EXCEPT ![h] = @ + 1]
    BY RecordStep DEF TypeInv, Types
  <2>2. index[h] + 1 \in Nat \ {0}
    BY <2>1
  <2> QED
    BY <2>1, <2>2
<1>3. UNCHANGED <<ordered, suppliers, writer, pc, who, file, before, target, copy,
                  form, gathered>>
  BY RecordStep DEF parsed, single
<1> QED
  BY <1>1, <1>2, <1>3 DEF TypeInv, Types, RequestShape

LEMMA RollbackTyped ==
    ASSUME TypeInv, NEW h \in Handlers, Rollback(h), pc[h] = "records"
    PROVE  TypeInv'
<1>1. /\ product' \in [Ids -> Product \cup {NoProduct}]
      /\ attribute' \in [Ids -> Values \cup {None}]
      /\ categories' \in SUBSET Categories
      /\ sequence' \in Nat
      /\ before' \in Tables
      /\ ordered' \subseteq Ids /\ suppliers' = suppliers
  BY UnreadTyped DEF Rollback, TypeInv, Types, Tables
<1>2. Answer(h) /\ writer' = IF pc[h] = "records" THEN None ELSE writer
  BY DEF Rollback
<1> QED
  BY <1>1, <1>2, AnswerTyped DEF TypeInv, Types

(* An answer that leaves the tables well typed. *)
LEMMA AnsweredTyped ==
    ASSUME TypeInv, NEW h \in Handlers, Answer(h), pc[h] # "records",
           product' \in [Ids -> Product \cup {NoProduct}],
           attribute' \in [Ids -> Values \cup {None}],
           ordered' \subseteq Ids, sequence' \in Nat,
           suppliers' = suppliers \/ (writer = None /\ suppliers' \subseteq Suppliers),
           UNCHANGED <<categories, writer, before>>
    PROVE  TypeInv'
<1>1. /\ writer' = IF pc[h] = "records" THEN None ELSE writer
      /\ suppliers' \subseteq Suppliers
  BY DEF TypeInv, Types
<1> QED
  BY <1>1, AnswerTyped DEF TypeInv, Types

LEMMA ProceedTyped ==
    ASSUME TypeInv, NEW h \in Handlers, NEW i \in Ids, NEW f \in Form,
           NEW step \in {"clear", "attribute"}, Proceed(h, i, f, step),
           pc[h] # "records",
           product' \in [Ids -> Product \cup {NoProduct}], sequence' \in Nat,
           UNCHANGED <<attribute, categories, ordered, suppliers, writer, before>>
    PROVE  TypeInv'
<1>1. CASE f.attribute = Keep
  <2>1. Answer(h)
    BY <1>1 DEF Proceed
  <2> QED
    BY <2>1, AnsweredTyped DEF TypeInv, Types
<1>2. CASE f.attribute # Keep
  <2>1. /\ pc' = [pc EXCEPT ![h] = step]
        /\ target' = [target EXCEPT ![h] = i]
        /\ copy' = [copy EXCEPT ![h] = NoProduct]
        /\ form' = [form EXCEPT ![h] = f]
        /\ UNCHANGED <<who, file, index, gathered>>
    BY <1>2 DEF Proceed, parsed
  <2>2. f.attribute \in Values
    BY <1>2 DEF Form
  <2>3. Types'
    BY <2>1 DEF TypeInv, Types
  <2>4. RequestShape'
    BY <2>1, <2>2 DEF TypeInv, Types, RequestShape
  <2> QED
    BY <2>3, <2>4 DEF TypeInv
<1> QED
  BY <1>1, <1>2

LEMMA LoadTyped ==
    ASSUME TypeInv, NEW h \in Handlers, NEW i \in Ids, NEW f \in Form,
           NEW step \in {"update", "delete"}, Load(h, i, f, step)
    PROVE  TypeInv'
<1>1. /\ pc[h] = "idle"
      /\ Seen(i) # NoProduct
      /\ pc' = [pc EXCEPT ![h] = step]
      /\ target' = [target EXCEPT ![h] = i]
      /\ copy' = [copy EXCEPT ![h] = IF step = "update" THEN Seen(i) ELSE NoProduct]
      /\ form' = [form EXCEPT ![h] = f]
      /\ UNCHANGED <<product, attribute, categories, sequence, ordered, suppliers,
                     writer, who, file, index, before, gathered>>
  BY DEF Load, database, parsed
<1>2. Seen(i) \in Product
  BY <1>1 DEF Seen, TypeInv, Types, Tables
<1>3. Types'
  BY <1>1, <1>2 DEF TypeInv, Types
<1>4. RequestShape'
  BY <1>1, <1>2 DEF TypeInv, Types, RequestShape
<1> QED
  BY <1>3, <1>4 DEF TypeInv

LEMMA SaveTyped ==
    ASSUME TypeInv, NEW h \in Handlers, SaveProduct(h)
    PROVE  TypeInv'
<1> DEFINE r == Apply(copy[h], form[h])
<1>1. pc[h] = "update" /\ target[h] \in Ids /\ form[h] \in Form /\ r \in Product
  BY AppliedProduct DEF SaveProduct, TypeInv, Types, RequestShape
<1>2. UNCHANGED <<attribute, categories, sequence, ordered, suppliers, writer, before>>
  BY DEF SaveProduct
<1>3. CASE Rows(r.sku) \subseteq {target[h]} /\ r.supplier \in suppliers
  <2>1. /\ product' = [product EXCEPT ![target[h]] = r]
        /\ Proceed(h, target[h], form[h], "clear")
    BY <1>3 DEF SaveProduct
  <2>2. product' \in [Ids -> Product \cup {NoProduct}] /\ sequence' \in Nat
    BY <1>1, <1>2, <2>1 DEF TypeInv, Types
  <2> QED
    BY <1>1, <1>2, <2>1, <2>2, ProceedTyped
<1>4. CASE ~(Rows(r.sku) \subseteq {target[h]} /\ r.supplier \in suppliers)
  <2>1. Answer(h) /\ product' = product
    BY <1>4 DEF SaveProduct
  <2> QED
    BY <1>1, <1>2, <2>1, AnsweredTyped DEF TypeInv, Types
<1> QED
  BY <1>3, <1>4

LEMMA CreateTyped ==
    ASSUME TypeInv, NEW h \in Handlers, NEW f \in Forms, CreateProduct(h, f)
    PROVE  TypeInv'
<1>1. f \in Form /\ Apply(NoProduct, f) \in Product
  BY ImportsAssumption, NewProductTyped DEF CreateProduct
<1>2. /\ sequence + 1 \in Ids /\ sequence' \in Nat
      /\ product' = [product EXCEPT ![sequence + 1] = Apply(NoProduct, f)]
      /\ pc[h] # "records" /\ Proceed(h, sequence + 1, f, "attribute")
      /\ UNCHANGED <<attribute, categories, ordered, suppliers, writer, before>>
  BY ImportsAssumption DEF CreateProduct, TypeInv, Types, Ids
<1>3. product' \in [Ids -> Product \cup {NoProduct}]
  BY <1>1, <1>2 DEF TypeInv, Types
<1> QED
  BY <1>1, <1>2, <1>3, ProceedTyped

(* What a deletion of a supplier does: it gathers his products,            *)
LEMMA GatherStep ==
    ASSUME NEW h \in Handlers, NEW u \in Suppliers, GatherProducts(h, u)
    PROVE  /\ pc[h] = "idle" /\ u \in suppliers
           /\ pc' = [pc EXCEPT ![h] = "withdraw"]
           /\ who' = [who EXCEPT ![h] = u]
           /\ gathered' = [gathered EXCEPT ![h] = {i \in Ids : Seen(i).supplier = u}]
           /\ UNCHANGED <<product, attribute, categories, sequence, ordered, suppliers,
                          logs, writer, file, update, index, success, before, target,
                          copy, form, clean, latest, serial>>
BY DEF GatherProducts, database

(* and removes them, or is refused.                                        *)
LEMMA WithdrawStep ==
    ASSUME TypeInv, NEW h \in Handlers, WithdrawSupplier(h)
    PROVE  /\ pc[h] = "withdraw" /\ who[h] \in Suppliers /\ gathered[h] \subseteq Ids
           /\ writer = None /\ Answer(h)
           /\ UNCHANGED <<categories, sequence, ordered, logs, writer, before, clean>>
           /\ product' \in [Ids -> Product \cup {NoProduct}]
           /\ attribute' \in [Ids -> Values \cup {None}]
           /\ suppliers' \subseteq Suppliers
           /\ \/ UNCHANGED <<product, attribute, suppliers, latest, serial>>
              \/ /\ latest' = NoImport
                 /\ suppliers' = suppliers \ {who[h]}
                 /\ \A i \in Ids :
                        IF i \in gathered[h]
                        THEN /\ i \notin ordered
                             /\ product'[i] = NoProduct /\ attribute'[i] = None
                        ELSE /\ product[i].supplier # who[h]
                             /\ product'[i] = product[i]
                             /\ attribute'[i] = attribute[i]
<1>1. /\ pc[h] = "withdraw" /\ who[h] \in Suppliers /\ gathered[h] \subseteq Ids
      /\ writer = None /\ Answer(h)
      /\ UNCHANGED <<categories, sequence, ordered, logs, writer, before, clean>>
  BY DEF WithdrawSupplier, TypeInv, Types, RequestShape
<1>2. CASE UNCHANGED <<product, attribute, suppliers, latest, serial>>
  BY <1>1, <1>2 DEF TypeInv, Types
<1> DEFINE gone == gathered[h]
<1>3. CASE /\ gone \cap ordered = {}
           /\ \A i \in Ids \ gone : product[i].supplier # who[h]
           /\ product' = [i \in Ids |-> IF i \in gone THEN NoProduct ELSE product[i]]
           /\ attribute' = [i \in Ids |-> IF i \in gone THEN None ELSE attribute[i]]
           /\ suppliers' = suppliers \ {who[h]}
           /\ latest' = NoImport
  <2>1. /\ product' \in [Ids -> Product \cup {NoProduct}]
        /\ attribute' \in [Ids -> Values \cup {None}]
        /\ suppliers' \subseteq Suppliers
    BY <1>3 DEF TypeInv, Types
  <2> QED
    BY <1>1, <1>3, <2>1
<1> QED
  BY <1>2, <1>3 DEF WithdrawSupplier

LEMMA RestoreStep ==
    ASSUME NEW u \in Suppliers, RestoreSupplier(u)
    PROVE  /\ writer = None /\ suppliers' = suppliers \cup {u}
           /\ UNCHANGED <<product, attribute, categories, sequence, ordered, logs, writer,
                          pc, who, file, update, index, success, before, target, copy,
                          form, gathered, clean, latest, serial>>
BY DEF RestoreSupplier, database, parsed, single

(* TypeInv is inductive. *)
LEMMA NextTyped == TypeInv /\ [Next]_vars => TypeInv'
<1> SUFFICES ASSUME TypeInv, [Next]_vars PROVE TypeInv'
  OBVIOUS
<1>1. ASSUME NEW h \in Handlers, Import(h) PROVE TypeInv'
  <2>1. ASSUME NEW u \in Suppliers, NEW f \in Files, NEW upd \in BOOLEAN,
               BeginImport(h, u, f, upd)
        PROVE  TypeInv'
    <3>1. f \in Seq(Record) /\ before' \in Tables
      BY <2>1, ImportsAssumption DEF BeginImport, TypeInv, Types, Tables, database
    <3>2. Types'
      BY <2>1, <3>1 DEF BeginImport, TypeInv, Types, database, single
    <3>3. RequestShape'
      BY <2>1, ImportsAssumption
         DEF BeginImport, TypeInv, Types, RequestShape, single
    <3> QED
      BY <3>2, <3>3 DEF TypeInv
  <2>2. CASE RefuseRecord(h) \/ ProcessRecord(h) \/ StatementFails(h)
    BY <2>2, RecordTypes
  <2>3. CASE AbortImport(h)
    BY <2>3, RollbackTyped DEF AbortImport, AtRecord
  <2>4. CASE Commit(h)
    <3>1. Types'
      BY <2>4, UnreadTyped DEF Commit, TypeInv, Types, database, parsed, single
    <3>2. RequestShape'
      BY <2>4, ImportsAssumption
         DEF Commit, TypeInv, Types, RequestShape, parsed, single
    <3> QED
      BY <3>1, <3>2 DEF TypeInv
  <2>5. CASE WriteLog(h)
    BY <2>5, AnsweredTyped DEF WriteLog, database, TypeInv, Types
  <2> QED
    BY <1>1, <2>1, <2>2, <2>3, <2>4, <2>5 DEF Import
<1>2. ASSUME NEW h \in Handlers, NEW f \in Forms,
             CreateProduct(h, f) \/ \E i \in Ids : LoadForUpdate(h, i, f)
      PROVE  TypeInv'
  BY <1>2, CreateTyped, LoadTyped, ImportsAssumption DEF LoadForUpdate
<1>3. ASSUME NEW h \in Handlers, NEW i \in Ids, LoadForDelete(h, i) PROVE TypeInv'
  <2>1. NoForm \in Form
    BY DEF NoForm, Form
  <2> QED
    BY <1>3, <2>1, LoadTyped DEF LoadForDelete
<1>4. ASSUME NEW h \in Handlers,
             \/ SaveProduct(h) \/ ClearAttributes(h) \/ CreateAttribute(h)
             \/ DeleteProduct(h) \/ HandlerFails(h)
      PROVE  TypeInv'
  <2>1. CASE SaveProduct(h)
    BY <2>1, SaveTyped
  <2>2. CASE ClearAttributes(h)
    BY <2>2 DEF ClearAttributes, TypeInv, Types, RequestShape, parsed, single
  <2>3. CASE CreateAttribute(h)
    <3>1. attribute' \in [Ids -> Values \cup {None}]
      BY <2>3 DEF CreateAttribute, TypeInv, Types, RequestShape
    <3> QED
      BY <2>3, <3>1, AnsweredTyped DEF CreateAttribute, TypeInv, Types
  <2>4. CASE DeleteProduct(h)
    <3>1. /\ product' \in [Ids -> Product \cup {NoProduct}]
          /\ attribute' \in [Ids -> Values \cup {None}]
      BY <2>4 DEF DeleteProduct, TypeInv, Types
    <3> QED
      BY <2>4, <3>1, AnsweredTyped DEF DeleteProduct, TypeInv, Types
  <2>5. CASE HandlerFails(h)
    <3>1. CASE pc[h] = "records"
      BY <2>5, <3>1, RollbackTyped DEF HandlerFails
    <3>2. CASE pc[h] # "records"
      BY <2>5, <3>2, AnsweredTyped DEF HandlerFails, database, TypeInv, Types
    <3> QED
      BY <3>1, <3>2
  <2> QED
    BY <1>4, <2>1, <2>2, <2>3, <2>4, <2>5
<1>5. ASSUME NEW i \in Ids, OrderProduct(i) PROVE TypeInv'
  BY <1>5 DEF OrderProduct, TypeInv, Types, RequestShape, database, parsed, single
<1>6. CASE UNCHANGED vars
  BY <1>6 DEF vars, TypeInv, Types, RequestShape
<1>7. ASSUME NEW h \in Handlers, NEW u \in Suppliers, GatherProducts(h, u)
      PROVE  TypeInv'
  <2>1. Types'
    <3> DEFINE gone == {i \in Ids : Seen(i).supplier = u}
    <3>1. gone \in SUBSET Ids /\ gathered' = [gathered EXCEPT ![h] = gone]
      BY <1>7, GatherStep
    <3> HIDE DEF gone
    <3>2. gathered' \in [Handlers -> SUBSET Ids]
      BY <3>1 DEF TypeInv, Types
    <3>3. /\ pc' = [pc EXCEPT ![h] = "withdraw"] /\ who' = [who EXCEPT ![h] = u]
          /\ UNCHANGED <<product, attribute, categories, sequence, ordered, suppliers,
                         writer, file, index, before, target, copy, form>>
      BY <1>7, GatherStep
    <3> QED
      BY <3>2, <3>3 DEF TypeInv, Types
  <2>2. RequestShape'
    BY <1>7, GatherStep DEF TypeInv, Types, RequestShape
  <2> QED
    BY <2>1, <2>2 DEF TypeInv
<1>8. ASSUME NEW h \in Handlers, WithdrawSupplier(h) PROVE TypeInv'
  BY <1>8, WithdrawStep, AnsweredTyped DEF TypeInv, Types
<1>9. ASSUME NEW u \in Suppliers, RestoreSupplier(u) PROVE TypeInv'
  BY <1>9, RestoreStep DEF TypeInv, Types, RequestShape
<1> QED
  BY <1>1, <1>2, <1>3, <1>4, <1>5, <1>6, <1>7, <1>8, <1>9 DEF Next

-----------------------------------------------------------------------------
(* Attributes and items of orders refer to products, these to suppliers.   *)

(* Also those to which an open transaction may go back. *)
ReferenceInv ==
    /\ ReferencesHold
    /\ writer # None =>
           \A i \in Ids :
               /\ before[2][i] # None \/ i \in ordered => before[1][i] # NoProduct
               /\ before[1][i] # NoProduct => before[1][i].supplier \in suppliers

LEMMA RecordReference ==
    ASSUME TypeInv, ReferenceInv, NEW h \in Handlers,
           RefuseRecord(h) \/ ProcessRecord(h) \/ StatementFails(h)
    PROVE  ReferenceInv'
<1>1. /\ pc[h] = "records"
      /\ UNCHANGED <<ordered, suppliers, writer, before>>
  BY RecordStep
<1>2. ReferencesHold'
  <2>1. CASE UNCHANGED database
    BY <1>1, <2>1 DEF database, ReferenceInv, ReferencesHold, Exists
  <2>2. ASSUME NEW r \in Record, NEW reach \in 0 .. 3,
               StoreProduct(h, r, reach), StoreAttributes(r, reach)
        PROVE  ReferencesHold'
    <3>1. \A i \in Ids : Exists(i) => Exists(i)'
      <4>1. NoProduct \notin Product
        BY ImportsAssumption DEF Product, NoProduct
      <4> QED
        BY <1>1, <2>2, <4>1, StoredProduct DEF Exists
    <3>3. ASSUME NEW i \in Ids, Exists(i)' PROVE product'[i].supplier \in suppliers
      <4>1. CASE product'[i] = product[i]
        BY <3>3, <4>1 DEF Exists, ReferenceInv, ReferencesHold
      <4>2. CASE product'[i] # product[i]
        <5>1. product'[i] = Imported(h, r)
          BY <2>2, <4>2 DEF StoreProduct, TypeInv, Types
        <5>2. who[h] \in suppliers
          BY <1>1 DEF TypeInv, RequestShape
        <5> QED
          BY <5>1, <5>2 DEF Imported
      <4> QED
        BY <4>1, <4>2
    <3>2. ASSUME NEW i \in Ids, reach = 3, i = Slot(r.sku) PROVE Exists(i)'
      <4>1. CASE Rows(r.sku) = {}
        <5>1. product'[i] \in Product
          BY <1>1, <2>2, <3>2, <4>1, StoredProduct
        <5> QED
          BY <5>1, ImportsAssumption DEF Exists, Product, NoProduct
      <4>2. CASE Rows(r.sku) # {}
        <5>1. product[i].sku = r.sku /\ r.sku \in Skus
          BY <3>2, <4>2, SlotOfRow DEF Rows, Record
        <5>2. Exists(i)
          BY <5>1, ImportsAssumption DEF Exists, NoProduct
        <5> QED
          BY <3>1, <5>2
      <4> QED
        BY <4>1, <4>2
    <3> QED
      BY <1>1, <2>2, <3>1, <3>2, <3>3, StoredAttribute DEF ReferenceInv, ReferencesHold
  <2> QED
    BY <2>1, <2>2, RecordStep
<1> QED
  BY <1>1, <1>2 DEF ReferenceInv

LEMMA NextReference == TypeInv /\ ReferenceInv /\ [Next]_vars => ReferenceInv'
<1> SUFFICES ASSUME TypeInv, ReferenceInv, [Next]_vars PROVE ReferenceInv'
  OBVIOUS
<1>1. NoProduct \notin Product
  BY ImportsAssumption DEF Product, NoProduct
<1>2. ASSUME NEW h \in Handlers, Rollback(h), pc[h] = "records" PROVE ReferenceInv'
  <2>1. writer # None
    BY <1>2, ImportsAssumption DEF TypeInv, RequestShape
  <2> QED
    BY <1>2, <2>1 DEF Rollback, ReferenceInv, ReferencesHold, Exists
<1>3. ASSUME NEW h \in Handlers, Import(h) PROVE ReferenceInv'
  <2>1. ASSUME NEW u \in Suppliers, NEW f \in Files, NEW upd \in BOOLEAN,
               BeginImport(h, u, f, upd)
        PROVE  ReferenceInv'
    BY <2>1 DEF BeginImport, database, ReferenceInv, ReferencesHold, Exists
  <2>2. CASE RefuseRecord(h) \/ ProcessRecord(h) \/ StatementFails(h)
    BY <2>2, RecordReference
  <2>3. CASE AbortImport(h)
    BY <1>2, <2>3 DEF AbortImport, AtRecord
  <2>4. CASE Commit(h) \/ WriteLog(h)
    BY <2>4 DEF Commit, WriteLog, database, ReferenceInv, ReferencesHold, Exists
  <2> QED
    BY <1>3, <2>1, <2>2, <2>3, <2>4 DEF Import
<1>4. ASSUME NEW h \in Handlers, NEW f \in Forms, CreateProduct(h, f)
      PROVE  ReferenceInv'
  <2>1. /\ Apply(NoProduct, f) \in Product
        /\ product' = [product EXCEPT ![sequence + 1] = Apply(NoProduct, f)]
        /\ Apply(NoProduct, f).supplier \in suppliers
        /\ UNCHANGED <<attribute, ordered, suppliers, writer, before>>
    BY <1>4, ImportsAssumption, NewProductTyped DEF CreateProduct, Apply
  <2>2. \A i \in Ids : Exists(i) => Exists(i)'
    BY <1>1, <2>1 DEF Exists, TypeInv, Types
  <2>3. \A i \in Ids : product'[i] \in {product[i], Apply(NoProduct, f)}
    BY <2>1 DEF TypeInv, Types
  <2> QED
    BY <2>1, <2>2, <2>3 DEF ReferenceInv, ReferencesHold, Exists
<1>5. ASSUME NEW h \in Handlers, NEW i \in Ids, NEW f, NEW step, Load(h, i, f, step)
      PROVE  ReferenceInv'
  BY <1>5 DEF Load, database, ReferenceInv, ReferencesHold, Exists
<1>6. ASSUME NEW h \in Handlers, SaveProduct(h) PROVE ReferenceInv'
  <2>1. /\ Apply(copy[h], form[h]) \in Product
        /\ \/ product' = product
           \/ /\ product' = [product EXCEPT ![target[h]] = Apply(copy[h], form[h])]
              /\ Apply(copy[h], form[h]).supplier \in suppliers
        /\ UNCHANGED <<attribute, ordered, suppliers, writer, before>>
    BY <1>6, AppliedProduct DEF SaveProduct, TypeInv, Types, RequestShape
  <2>2. \A i \in Ids : Exists(i) => Exists(i)'
    BY <1>1, <2>1 DEF Exists, TypeInv, Types
  <2>3. \A i \in Ids :
            \/ product'[i] = product[i]
            \/ product'[i].supplier \in suppliers
    BY <2>1 DEF TypeInv, Types
  <2> QED
    BY <2>1, <2>2, <2>3 DEF ReferenceInv, ReferencesHold, Exists
<1>7. ASSUME NEW h \in Handlers, ClearAttributes(h) \/ CreateAttribute(h)
      PROVE  ReferenceInv'
  <2>1. \A i \in Ids : attribute'[i] # None => attribute[i] # None \/ Exists(i)
    BY <1>7 DEF ClearAttributes, CreateAttribute, TypeInv, Types
  <2>2. UNCHANGED <<product, ordered, suppliers, writer, before>>
    BY <1>7 DEF ClearAttributes, CreateAttribute
  <2> QED
    BY <2>1, <2>2 DEF ReferenceInv, ReferencesHold, Exists
<1>8. ASSUME NEW h \in Handlers, DeleteProduct(h) PROVE ReferenceInv'
  <2>1. \A i \in Ids :
            \/ product'[i] = product[i] /\ attribute'[i] = attribute[i]
            \/ product'[i] = NoProduct /\ attribute'[i] = None /\ i \notin ordered
    BY <1>8 DEF DeleteProduct, TypeInv, Types
  <2>2. UNCHANGED <<ordered, suppliers, writer, before>>
    BY <1>8 DEF DeleteProduct
  <2> QED
    BY <2>1, <2>2 DEF ReferenceInv, ReferencesHold, Exists
<1>9. ASSUME NEW h \in Handlers, HandlerFails(h) PROVE ReferenceInv'
  <2>1. CASE pc[h] = "records"
    BY <1>2, <1>9, <2>1 DEF HandlerFails
  <2>2. CASE pc[h] # "records"
    BY <1>9, <2>2 DEF HandlerFails, database, ReferenceInv, ReferencesHold, Exists
  <2> QED
    BY <2>1, <2>2
<1>10. ASSUME NEW i \in Ids, OrderProduct(i) PROVE ReferenceInv'
  BY <1>10 DEF OrderProduct, database, ReferenceInv, ReferencesHold, Exists
<1>11. CASE UNCHANGED vars
  BY <1>11 DEF vars, ReferenceInv, ReferencesHold, Exists
<1>12. ASSUME NEW h \in Handlers, NEW u \in Suppliers, GatherProducts(h, u)
       PROVE  ReferenceInv'
  <2>1. UNCHANGED <<product, attribute, ordered, suppliers, writer, before>>
    BY <1>12 DEF GatherProducts, database
  <2> QED
    BY <2>1 DEF ReferenceInv, ReferencesHold, Exists
<1>13. ASSUME NEW h \in Handlers, WithdrawSupplier(h) PROVE ReferenceInv'
  <2>1. UNCHANGED <<ordered, writer, before>> /\ writer = None
    BY <1>13, WithdrawStep
  <2>2. CASE UNCHANGED <<product, attribute, suppliers>>
    BY <2>1, <2>2 DEF ReferenceInv, ReferencesHold, Exists
  <2>3. CASE /\ suppliers' = suppliers \ {who[h]}
             /\ \A i \in Ids :
                    \/ /\ product'[i] = product[i] /\ attribute'[i] = attribute[i]
                       /\ product[i].supplier # who[h]
                    \/ product'[i] = NoProduct /\ attribute'[i] = None /\ i \notin ordered
    BY <2>1, <2>3 DEF ReferenceInv, ReferencesHold, Exists
  <2> QED
    BY <1>13, <2>2, <2>3, WithdrawStep
<1>14. ASSUME NEW u \in Suppliers, RestoreSupplier(u) PROVE ReferenceInv'
  BY <1>14, RestoreStep DEF ReferenceInv, ReferencesHold, Exists
<1> QED
  BY <1>3, <1>4, <1>5, <1>6, <1>7, <1>8, <1>9, <1>10, <1>11, <1>12, <1>13, <1>14
     DEF Next, LoadForUpdate, LoadForDelete

(* No attribute and no item of an order is left without its product, and   *)
(* no product without its supplier.  The invariant says the same of the    *)
(* tables an open import may go back to: they keep holding because nobody  *)
(* else writes meanwhile.                                                  *)
THEOREM ReferencesCorrect == Spec => []ReferencesHold
<1>1. Init => ReferenceInv
  BY DEF Init, ReferenceInv, ReferencesHold, Exists
<1>2. Spec => [](TypeInv /\ ReferenceInv)
  BY <1>1, InitTyped, NextTyped, NextReference, PTL DEF Spec
<1>3. ReferenceInv => ReferencesHold
  BY DEF ReferenceInv
<1> QED
  BY <1>2, <1>3, PTL

-----------------------------------------------------------------------------
(* Products and the requests about them.                                   *)

(* What the outside sees of a product, and every copy of it, is what the   *)
(* requests have made of it one after another, unless it is contested.     *)
SerialInv ==
    /\ \A i \in Ids : serial[i] # Contested => Seen(i) = serial[i]
    /\ \A h \in Handlers :
           pc[h] = "update" /\ serial[target[h]] # Contested
               => copy[h] = serial[target[h]]
    /\ serial \in [Ids -> Product \cup {NoProduct, Contested}]

(* The requests other than h that are going to save a copy keep it. *)
OthersKeep(h) ==
    /\ \A g \in Handlers \ {h} :
           pc'[g] = pc[g] /\ target'[g] = target[g] /\ copy'[g] = copy[g]
    /\ pc'[h] # "update"

LEMMA AnswerKeeps ==
    ASSUME TypeInv, NEW h \in Handlers, Answer(h)
    PROVE  OthersKeep(h)
BY DEF Answer, OthersKeep, TypeInv, Types

LEMMA ProceedKeeps ==
    ASSUME TypeInv, NEW h \in Handlers, NEW i, NEW f,
           NEW step \in {"clear", "attribute"}, Proceed(h, i, f, step)
    PROVE  OthersKeep(h)
<1>1. CASE f.attribute = Keep
  BY <1>1, AnswerKeeps DEF Proceed
<1>2. CASE f.attribute # Keep
  BY <1>2 DEF Proceed, OthersKeep, TypeInv, Types
<1> QED
  BY <1>1, <1>2

(* A step after which the outside sees what it saw before. *)
LEMMA SameSerial ==
    ASSUME TypeInv, SerialInv, NEW h \in Handlers, OthersKeep(h), serial' = serial,
           \A i \in Ids : Seen(i)' = Seen(i)
    PROVE  SerialInv'
BY DEF SerialInv, OthersKeep

(* A deletion of a supplier rewrites the products it has gathered. *)
LEMMA WithdrawSerial ==
    ASSUME TypeInv, SerialInv, NEW h \in Handlers, WithdrawSupplier(h)
    PROVE  SerialInv'
<1>1. writer = None /\ writer' = None /\ OthersKeep(h)
  BY WithdrawStep, AnswerKeeps
<1>2. CASE UNCHANGED <<product, serial>>
  BY <1>1, <1>2, SameSerial DEF Seen
<1> DEFINE gone == gathered[h]
<1>3. CASE /\ product' = [i \in Ids |-> IF i \in gone THEN NoProduct ELSE product[i]]
           /\ serial' = [i \in Ids |->
                             IF i \notin gone THEN serial[i]
                             ELSE IF Held(h, i) \/ serial[i] = Contested
                             THEN Contested ELSE NoProduct]
  <2>1. serial' \in [Ids -> Product \cup {NoProduct, Contested}]
    BY <1>3 DEF SerialInv
  <2>2. ASSUME NEW i \in Ids, serial'[i] # Contested PROVE Seen(i)' = serial'[i]
    BY <1>1, <1>3, <2>2 DEF SerialInv, Seen
  <2>3. ASSUME NEW g \in Handlers, pc'[g] = "update", serial'[target'[g]] # Contested
        PROVE  copy'[g] = serial'[target'[g]]
    <3>1. g # h /\ pc[g] = "update" /\ target'[g] = target[g] /\ copy'[g] = copy[g]
      BY <1>1, <2>3 DEF OthersKeep
    <3>2. target[g] \in Ids /\ Held(h, target[g])
      BY <3>1 DEF TypeInv, RequestShape, Held
    <3>3. target[g] \notin gone
      BY <1>3, <2>3, <3>1, <3>2
    <3> QED
      BY <1>3, <2>3, <3>1, <3>2, <3>3 DEF SerialInv
  <2> QED
    BY <2>1, <2>2, <2>3 DEF SerialInv
<1> QED
  BY <1>2, <1>3 DEF WithdrawSupplier

(* A statement of h outside of a transaction that makes product i r. *)
LEMMA WriteSerial ==
    ASSUME TypeInv, SerialInv, NEW h \in Handlers, NEW i \in Ids,
           NEW r \in Product \cup {NoProduct},
           NEW q, writer = None, writer' = None, OthersKeep(h),
           product' = [product EXCEPT ![i] = r],
           Rewritten(h, i, q), q \in Product \cup {NoProduct, Contested},
           serial[i] # Contested => q = r
    PROVE  SerialInv'
<1>1. /\ serial' = [serial EXCEPT ![i] = IF Held(h, i) \/ serial[i] = Contested
                                         THEN Contested ELSE q]
      /\ serial \in [Ids -> Product \cup {NoProduct, Contested}]
      /\ product \in [Ids -> Product \cup {NoProduct}]
  BY DEF Rewritten, SerialInv, TypeInv, Types
<1>2. serial' \in [Ids -> Product \cup {NoProduct, Contested}]
  BY <1>1
<1>3. \A j \in Ids : Seen(j) = product[j] /\ Seen(j)' = product'[j]
  BY DEF Seen
<1>4. ASSUME NEW j \in Ids, serial'[j] # Contested PROVE Seen(j)' = serial'[j]
  <2>1. CASE j = i
    BY <1>1, <1>3, <1>4, <2>1
  <2>2. CASE j # i
    BY <1>1, <1>3, <1>4, <2>2 DEF SerialInv
  <2> QED
    BY <2>1, <2>2
<1>5. ASSUME NEW g \in Handlers, pc'[g] = "update", serial'[target'[g]] # Contested
      PROVE  copy'[g] = serial'[target'[g]]
  <2>1. g # h /\ pc[g] = "update" /\ target'[g] = target[g] /\ copy'[g] = copy[g]
    BY <1>5 DEF OthersKeep
  <2>2. target[g] \in Ids
    BY <2>1 DEF TypeInv, RequestShape
  <2>3. target[g] # i
    BY <1>1, <1>5, <2>1 DEF Held
  <2> QED
    BY <1>1, <1>5, <2>1, <2>2, <2>3 DEF SerialInv
<1> QED
  BY <1>2, <1>4, <1>5 DEF SerialInv

LEMMA CommitSerial ==
    ASSUME TypeInv, SerialInv, NEW h \in Handlers, Commit(h)
    PROVE  SerialInv'
<1>1. /\ pc[h] = "records" /\ writer # None /\ writer' = None
      /\ pc' = [pc EXCEPT ![h] = "log"]
      /\ UNCHANGED <<product, target, copy>>
      /\ serial' = [i \in Ids |-> IF product[i] = before[1][i] THEN serial[i]
                                  ELSE IF Held(h, i) THEN Contested
                                  ELSE product[i]]
  BY ImportsAssumption DEF Commit, TypeInv, RequestShape, database, single
<1>2. serial' \in [Ids -> Product \cup {NoProduct, Contested}]
  BY <1>1 DEF SerialInv, TypeInv, Types
<1>3. \A i \in Ids : Seen(i) = before[1][i] /\ Seen(i)' = product[i]
  BY <1>1 DEF Seen
<1>4. ASSUME NEW i \in Ids, serial'[i] # Contested PROVE Seen(i)' = serial'[i]
  BY <1>1, <1>3, <1>4 DEF SerialInv
<1>5. ASSUME NEW g \in Handlers, pc'[g] = "update", serial'[target'[g]] # Contested
      PROVE  copy'[g] = serial'[target'[g]]
  <2>1. /\ g # h /\ pc[g] = "update" /\ target'[g] = target[g]
        /\ copy'[g] = copy[g] /\ target[g] \in Ids
    BY <1>1, <1>5 DEF TypeInv, Types, RequestShape
  <2>2. Held(h, target[g])
    BY <2>1 DEF Held
  <2>3. serial'[target[g]] = serial[target[g]]
    BY <1>1, <1>5, <2>1, <2>2
  <2> QED
    BY <1>5, <2>1, <2>3 DEF SerialInv
<1> QED
  BY <1>2, <1>4, <1>5 DEF SerialInv

LEMMA LoadSerial ==
    ASSUME TypeInv, SerialInv, NEW h \in Handlers, NEW i \in Ids, NEW f,
           NEW step \in {"update", "delete"}, Load(h, i, f, step)
    PROVE  SerialInv'
<1>1. /\ pc' = [pc EXCEPT ![h] = step]
      /\ target' = [target EXCEPT ![h] = i]
      /\ copy' = [copy EXCEPT ![h] = IF step = "update" THEN Seen(i) ELSE NoProduct]
      /\ UNCHANGED <<product, writer, before, serial>>
  BY DEF Load, database
<1>2. \A j \in Ids : Seen(j)' = Seen(j)
  BY <1>1 DEF Seen
<1>3. ASSUME NEW g \in Handlers, pc'[g] = "update", serial[target'[g]] # Contested
      PROVE  copy'[g] = serial[target'[g]]
  <2>1. CASE g = h
    BY <1>1, <1>3, <2>1 DEF SerialInv, TypeInv, Types
  <2>2. CASE g # h
    BY <1>1, <1>3, <2>2 DEF SerialInv, TypeInv, Types
  <2> QED
    BY <2>1, <2>2
<1> QED
  BY <1>1, <1>2, <1>3 DEF SerialInv

LEMMA SaveSerial ==
    ASSUME TypeInv, SerialInv, NEW h \in Handlers, SaveProduct(h)
    PROVE  SerialInv'
<1> DEFINE r == Apply(copy[h], form[h])
<1>1. /\ pc[h] = "update" /\ writer = None /\ writer' = None
      /\ target[h] \in Ids /\ form[h] \in Form /\ r \in Product
  BY AppliedProduct DEF SaveProduct, TypeInv, Types, RequestShape
<1>2. CASE Rows(r.sku) \subseteq {target[h]} /\ r.supplier \in suppliers
  <2> DEFINE q == Apply(serial[target[h]], form[h])
  <2>1. /\ product' = [product EXCEPT ![target[h]] = r]
        /\ Rewritten(h, target[h], q)
        /\ Proceed(h, target[h], form[h], "clear")
    BY <1>2 DEF SaveProduct
  <2>2. OthersKeep(h)
    BY <2>1, ProceedKeeps
  <2>3. serial[target[h]] # Contested => q = r
    BY <1>1 DEF SerialInv
  <2>4. CASE serial[target[h]] # Contested
    BY <1>1, <2>1, <2>2, <2>3, <2>4, WriteSerial
  <2>5. CASE serial[target[h]] = Contested
    <3>1. Rewritten(h, target[h], r)
      BY <2>1, <2>5 DEF Rewritten
    <3> QED
      BY <1>1, <2>1, <2>2, <2>5, <3>1, WriteSerial
  <2> QED
    BY <2>4, <2>5
<1>3. CASE ~(Rows(r.sku) \subseteq {target[h]} /\ r.supplier \in suppliers)
  <2>1. Answer(h) /\ UNCHANGED <<product, serial>>
    BY <1>3 DEF SaveProduct
  <2> QED
    BY <1>1, <2>1, AnswerKeeps, SameSerial DEF Seen
<1> QED
  BY <1>2, <1>3

LEMMA NextSerial == TypeInv /\ SerialInv /\ [Next]_vars => SerialInv'
<1> SUFFICES ASSUME TypeInv, SerialInv, [Next]_vars PROVE SerialInv'
  OBVIOUS
<1>1. ASSUME NEW h \in Handlers, Rollback(h), pc[h] = "records" PROVE SerialInv'
  <2>1. writer # None
    BY <1>1, ImportsAssumption DEF TypeInv, RequestShape
  <2>2. \A i \in Ids : Seen(i)' = Seen(i)
    BY <1>1, <2>1 DEF Rollback, Seen
  <2> QED
    BY <1>1, <2>2, AnswerKeeps, SameSerial DEF Rollback
<1>2. ASSUME NEW h \in Handlers, Import(h) PROVE SerialInv'
  <2>1. ASSUME NEW u \in Suppliers, NEW f \in Files, NEW upd \in BOOLEAN,
               BeginImport(h, u, f, upd)
        PROVE  SerialInv'
    <3>1. OthersKeep(h) /\ serial' = serial
      BY <2>1 DEF BeginImport, OthersKeep, TypeInv, Types, single
    <3>2. \A i \in Ids : Seen(i)' = Seen(i)
      BY <2>1, ImportsAssumption DEF BeginImport, Seen, database
    <3> QED
      BY <3>1, <3>2, SameSerial
  <2>2. CASE RefuseRecord(h) \/ ProcessRecord(h) \/ StatementFails(h)
    <3>1. /\ pc[h] = "records" /\ writer # None
          /\ UNCHANGED <<writer, pc, before, serial>>
      BY <2>2, RecordStep, ImportsAssumption DEF TypeInv, RequestShape
    <3>2. UNCHANGED <<target, copy>>
      BY <2>2 DEF RefuseRecord, ProcessRecord, StatementFails, single
    <3> QED
      BY <3>1, <3>2, SameSerial DEF OthersKeep, Seen
  <2>3. CASE AbortImport(h)
    BY <1>1, <2>3 DEF AbortImport, AtRecord
  <2>4. CASE Commit(h)
    BY <2>4, CommitSerial
  <2>5. CASE WriteLog(h)
    BY <2>5, AnswerKeeps, SameSerial DEF WriteLog, Seen, database
  <2> QED
    BY <1>2, <2>1, <2>2, <2>3, <2>4, <2>5 DEF Import
<1>3. ASSUME NEW h \in Handlers, NEW f \in Forms, CreateProduct(h, f)
      PROVE  SerialInv'
  <2> DEFINE r == Apply(NoProduct, f)
             i == sequence + 1
  <2>1. /\ r \in Product /\ i \in Ids /\ writer = None /\ writer' = None
        /\ product' = [product EXCEPT ![i] = r]
        /\ Rewritten(h, i, r) /\ Proceed(h, i, f, "attribute")
    BY <1>3, ImportsAssumption, NewProductTyped
       DEF CreateProduct, TypeInv, Types, Ids
  <2> HIDE DEF r, i
  <2>2. OthersKeep(h)
    BY <2>1, ProceedKeeps
  <2> QED
    BY <2>1, <2>2, WriteSerial
<1>4. ASSUME NEW h \in Handlers, NEW i \in Ids, NEW f, NEW step \in {"update", "delete"},
             Load(h, i, f, step)
      PROVE  SerialInv'
  BY <1>4, LoadSerial
<1>5. ASSUME NEW h \in Handlers, SaveProduct(h) PROVE SerialInv'
  BY <1>5, SaveSerial
<1>6. ASSUME NEW h \in Handlers, ClearAttributes(h) \/ CreateAttribute(h)
      PROVE  SerialInv'
  <2>1. UNCHANGED <<product, writer, before, serial>>
    BY <1>6 DEF ClearAttributes, CreateAttribute
  <2>2. OthersKeep(h)
    <3>1. CASE ClearAttributes(h)
      BY <3>1 DEF ClearAttributes, OthersKeep, single, TypeInv, Types
    <3>2. CASE CreateAttribute(h)
      BY <3>2, AnswerKeeps DEF CreateAttribute
    <3> QED
      BY <1>6, <3>1, <3>2
  <2> QED
    BY <2>1, <2>2, SameSerial DEF Seen
<1>7. ASSUME NEW h \in Handlers, DeleteProduct(h) PROVE SerialInv'
  <2>1. /\ target[h] \in Ids /\ writer = None /\ writer' = None /\ OthersKeep(h)
    BY <1>7, AnswerKeeps DEF DeleteProduct, TypeInv, RequestShape
  <2>2. CASE target[h] \in ordered
    BY <1>7, <2>1, <2>2, SameSerial DEF DeleteProduct, Seen
  <2>3. CASE target[h] \notin ordered
    <3>1. /\ product' = [product EXCEPT ![target[h]] = NoProduct]
          /\ Rewritten(h, target[h], NoProduct)
      BY <1>7, <2>3 DEF DeleteProduct
    <3> QED
      BY <2>1, <3>1, WriteSerial
  <2> QED
    BY <2>2, <2>3
<1>8. ASSUME NEW h \in Handlers, HandlerFails(h) PROVE SerialInv'
  <2>1. CASE pc[h] = "records"
    BY <1>1, <1>8, <2>1 DEF HandlerFails
  <2>2. CASE pc[h] # "records"
    BY <1>8, <2>2, AnswerKeeps, SameSerial DEF HandlerFails, Seen, database
  <2> QED
    BY <2>1, <2>2
<1>9. ASSUME NEW i \in Ids, OrderProduct(i) PROVE SerialInv'
  BY <1>9 DEF OrderProduct, database, single, SerialInv, Seen
<1>10. CASE UNCHANGED vars
  BY <1>10 DEF vars, SerialInv, Seen
<1>11. ASSUME NEW h \in Handlers, NEW u \in Suppliers, GatherProducts(h, u)
       PROVE  SerialInv'
  <2>1. OthersKeep(h)
    BY <1>11, GatherStep DEF OthersKeep, TypeInv, Types
  <2>2. \A i \in Ids : Seen(i)' = Seen(i)
    BY <1>11, GatherStep DEF Seen, GatherProducts
  <2> QED
    BY <1>11, <2>1, <2>2, GatherStep, SameSerial
<1>12. ASSUME NEW h \in Handlers, WithdrawSupplier(h) PROVE SerialInv'
  BY <1>12, WithdrawSerial
<1>13. ASSUME NEW u \in Suppliers, RestoreSupplier(u) PROVE SerialInv'
  BY <1>13, RestoreStep DEF SerialInv, Seen
<1> QED
  BY <1>2, <1>3, <1>4, <1>5, <1>6, <1>7, <1>8, <1>9, <1>10, <1>11, <1>12, <1>13
     DEF Next, LoadForUpdate, LoadForDelete

(* A product nobody held while somebody else wrote it is the result of the *)
(* requests about it, one after another.  The invariant adds the copies:   *)
(* as long as a product is not contested every copy of it is up to date.   *)
THEOREM SerialCorrect == Spec => []UncontestedProductIsSerial
<1>1. Init => SerialInv
  BY DEF Init, SerialInv, Seen
<1>2. Spec => [](TypeInv /\ SerialInv)
  BY <1>1, InitTyped, NextTyped, NextSerial, PTL DEF Spec
<1>3. SerialInv => UncontestedProductIsSerial
  BY DEF SerialInv, UncontestedProductIsSerial, Seen
<1> QED
  BY <1>2, <1>3, PTL
-----------------------------------------------------------------------------
(* Type correctness: the bounds of the instance.                           *)

(* The skus of the price list of h that no product has yet. *)
NewSkus(h) ==
    {s \in Skus : Rows(s) = {} /\ \E n \in DOMAIN file[h] : file[h][n].sku = s}

Logging == {h \in Handlers : pc[h] = "log"}

(* The last key the outside has seen. *)
Given == IF writer = None THEN sequence ELSE before[4]

(* No row is beyond the last key that was given, neither now nor after a   *)
(* rollback, and an open import has a key left for each of its new skus.   *)
RoomInv ==
    /\ sequence <= MaxId /\ before[4] <= MaxId
    /\ writer # None => before[4] <= sequence
    /\ \A i \in Ids : i > sequence => product[i] = NoProduct
    /\ \A i \in Ids : i > before[4] => before[1][i] = NoProduct
    /\ \A h \in Handlers : target[h] <= Given
    /\ \A h \in Handlers :
           pc[h] = "records" => sequence + Cardinality(NewSkus(h)) <= MaxId

(* The imports that are open or about to be logged have their place.       *)
LogInv ==
    /\ logs \in Nat
    /\ IsFiniteSet(Logging)
    /\ logs + Cardinality(Logging) + (IF writer = None THEN 0 ELSE 1) <= MaxLogs

CountInv ==
    /\ \A h \in Handlers : file[h] \in Files \cup {<<>>}
    /\ update \in [Handlers -> BOOLEAN]
    /\ success \in [Handlers -> Nat]
    /\ \A h \in Handlers : index[h] <= Len(file[h]) + 1 /\ success[h] < index[h]
    /\ \A h \in Handlers : pc[h] = "idle" => index[h] = 1
    /\ clean \in BOOLEAN
    /\ latest.who \in Suppliers \cup {None}

LEMMA NewSkusFinite ==
    ASSUME TypeInv, NEW h \in Handlers
    PROVE  IsFiniteSet(NewSkus(h)) /\ Cardinality(NewSkus(h)) \in Nat
<1> DEFINE D == {n \in DOMAIN file[h] : file[h][n].sku \in NewSkus(h)}
           g == [n \in D |-> file[h][n].sku]
<1>1. IsFiniteSet(D)
  <2>1. D \in SUBSET (1 .. Len(file[h])) /\ Len(file[h]) \in Nat
    BY DEF TypeInv, Types
  <2> HIDE DEF D
  <2>2. IsFiniteSet(1 .. Len(file[h]))
    BY <2>1, FS_Interval
  <2> QED
    BY <2>1, <2>2, FS_Subset
<1>2. g \in Surjection(D, NewSkus(h))
  BY DEF NewSkus, Surjection
<1> HIDE DEF D, g
<1> QED
  BY <1>1, <1>2, FS_Surjection, FS_CardinalityType

(* What storing a record does to the skus.                                 *)
LEMMA StoredSku ==
    ASSUME TypeInv, RoomInv, NEW h \in Handlers, pc[h] = "records",
           NEW n \in DOMAIN file[h], NEW reach \in 0 .. 3,
           StoreProduct(h, file[h][n], reach), file' = file
    PROVE  \/ /\ sequence' = sequence
              /\ \A i \in Ids : product'[i] = NoProduct <=> product[i] = NoProduct
              /\ \A s \in Skus : Rows(s)' = Rows(s)
           \/ /\ sequence' = sequence + 1 /\ sequence' <= MaxId
              /\ sequence' \in Ids /\ product'[sequence'] # NoProduct
              /\ \A i \in Ids : i > sequence' => product'[i] = NoProduct
              /\ Cardinality(NewSkus(h)') = Cardinality(NewSkus(h)) - 1
<1> DEFINE r == file[h][n]
           new == Imported(h, r)
<1>1. r \in Record /\ new \in Product /\ new.sku = r.sku /\ r.sku \in Skus
  <2>1. r \in Record
    BY DEF TypeInv, Types
  <2> QED
    BY <2>1, ImportedTyped DEF Imported, Record
<1>2. /\ NoProduct \notin Product
      /\ NoProduct.sku \notin Skus
      /\ product \in [Ids -> Product \cup {NoProduct}]
      /\ sequence \in Nat /\ MaxId \in Nat
  BY ImportsAssumption DEF NoProduct, Product, TypeInv, Types
<1>3. CASE ~(reach >= 2 /\ Writes(h, r))
  BY <1>3 DEF StoreProduct, Rows
<1>4. CASE reach >= 2 /\ update[h] /\ Rows(r.sku) # {}
  <2> DEFINE k == Slot(r.sku)
  <2>1. /\ product' = [product EXCEPT ![k] = new]
        /\ sequence' = sequence
    BY <1>4 DEF StoreProduct, Writes
  <2>2. k \in Ids /\ product[k].sku = r.sku
    BY <1>4, SlotOfRow DEF Rows
  <2>3. product[k] # NoProduct
    BY <1>1, <1>2, <2>2
  <2> HIDE DEF k, new, r
  <2>4. \A i \in Ids : product'[i] = IF i = k THEN new ELSE product[i]
    BY <1>2, <2>1
  <2>5. \A i \in Ids : product'[i].sku = product[i].sku
    BY <1>1, <2>2, <2>4
  <2> QED
    BY <1>1, <1>2, <2>1, <2>3, <2>4, <2>5 DEF Rows
<1>5. CASE reach >= 2 /\ Rows(r.sku) = {}
  <2> DEFINE k == sequence + 1
  <2>1. /\ product' = [product EXCEPT ![k] = new]
        /\ sequence' = k
    BY <1>5 DEF StoreProduct, Writes, Slot
  <2>2. r.sku \in NewSkus(h)
    BY <1>1, <1>5 DEF NewSkus
  <2>3. /\ IsFiniteSet(NewSkus(h)) /\ Cardinality(NewSkus(h)) \in Nat
        /\ Cardinality(NewSkus(h)) # 0
    BY <2>2, NewSkusFinite, FS_EmptySet
  <2>4. k <= MaxId /\ k \in Ids /\ product[k] = NoProduct
    BY <1>2, <2>3 DEF RoomInv, Ids
  <2> HIDE DEF new, r
  <2>5. \A i \in Ids : product'[i] = IF i = k THEN new ELSE product[i]
    BY <1>2, <2>1
  <2>6. \A i \in Ids : i > k => product'[i] = NoProduct
    BY <1>2, <2>5 DEF RoomInv, Ids
  <2>7. ASSUME NEW s \in Skus
        PROVE  Rows(s)' = IF s = r.sku THEN Rows(s) \cup {k} ELSE Rows(s)
    BY <1>1, <1>2, <2>4, <2>5 DEF Rows
  <2>8. NewSkus(h)' = NewSkus(h) \ {r.sku}
    BY <2>7 DEF NewSkus
  <2>9. Cardinality(NewSkus(h)') = Cardinality(NewSkus(h)) - 1
    BY <2>2, <2>3, <2>8, FS_RemoveElement
  <2> QED
    BY <1>1, <1>2, <2>1, <2>4, <2>5, <2>6, <2>9
<1> QED
  BY <1>3, <1>4, <1>5 DEF Writes

LEMMA RecordRoom ==
    ASSUME TypeInv, RoomInv, NEW h \in Handlers,
           RefuseRecord(h) \/ ProcessRecord(h) \/ StatementFails(h)
    PROVE  RoomInv'
<1>1. /\ pc[h] = "records" /\ writer # None /\ writer = h
      /\ UNCHANGED <<writer, pc, file, before, target>>
  BY RecordStep, ImportsAssumption DEF TypeInv, RequestShape, parsed, single
<1>2. sequence \in Nat /\ Cardinality(NewSkus(h)) \in Nat
  BY NewSkusFinite DEF TypeInv, Types
<1>3. \A g \in Handlers : pc[g] = "records" => g = h
  BY <1>1 DEF TypeInv, RequestShape
<1>4. CASE UNCHANGED database
  BY <1>1, <1>4 DEF database, RoomInv, NewSkus, Rows, Given
<1>5. ASSUME NEW n \in DOMAIN file[h], NEW reach \in 0 .. 3,
             StoreProduct(h, file[h][n], reach)
      PROVE  RoomInv'
  <2>1. /\ sequence' <= MaxId /\ before[4] <= sequence'
        /\ \A i \in Ids : i > sequence' => product'[i] = NoProduct
        /\ sequence' + Cardinality(NewSkus(h)') <= MaxId
    <3>1. CASE /\ sequence' = sequence
               /\ \A i \in Ids : product'[i] = NoProduct <=> product[i] = NoProduct
               /\ \A s \in Skus : Rows(s)' = Rows(s)
      <4>1. NewSkus(h)' = NewSkus(h)
        BY <1>1, <3>1 DEF NewSkus
      <4> QED
        BY <1>1, <3>1, <4>1 DEF RoomInv
    <3>2. CASE /\ sequence' = sequence + 1 /\ sequence' <= MaxId
               /\ \A i \in Ids : i > sequence' => product'[i] = NoProduct
               /\ Cardinality(NewSkus(h)') = Cardinality(NewSkus(h)) - 1
      BY <1>1, <1>2, <3>2, ImportsAssumption DEF RoomInv, TypeInv, Types, Tables
    <3> QED
      BY <1>1, <1>5, <3>1, <3>2, StoredSku
  <2> QED
    BY <1>1, <1>3, <2>1 DEF RoomInv, Given
<1>6. CASE RefuseRecord(h)
  BY <1>4, <1>6 DEF RefuseRecord
<1>7. CASE ProcessRecord(h) \/ StatementFails(h)
  <2>1. index[h] \in DOMAIN file[h]
    BY <1>7 DEF ProcessRecord, StatementFails, AtRecord, TypeInv, Types
  <2>2. \E reach \in 0 .. 3 : StoreProduct(h, file[h][index[h]], reach)
    BY <1>7 DEF ProcessRecord, StatementFails, Reach
  <2> QED
    BY <1>5, <2>1, <2>2
<1> QED
  BY <1>6, <1>7

(* A request that is answered has no target.                               *)
LEMMA AnswerTarget ==
    ASSUME TypeInv, NEW h \in Handlers, Answer(h)
    PROVE  \A g \in Handlers :
               /\ target'[g] = IF g = h THEN 0 ELSE target[g]
               /\ pc'[g] = IF g = h THEN "idle" ELSE pc[g]
               /\ file'[g] = IF g = h THEN <<>> ELSE file[g]
BY DEF Answer, TypeInv, Types

LEMMA RollbackRoom ==
    ASSUME TypeInv, RoomInv, NEW h \in Handlers, Rollback(h), pc[h] = "records"
    PROVE  RoomInv'
<1>1. writer = h /\ writer # None /\ \A g \in Handlers : pc[g] = "records" => g = h
  BY ImportsAssumption DEF TypeInv, RequestShape
<1>2. /\ sequence' = before[4] /\ product' = before[1]
      /\ writer' = None /\ before' = Unread /\ Answer(h)
  BY DEF Rollback
<1>3. before'[4] = 0 /\ \A i \in Ids : before'[1][i] = NoProduct
  BY <1>2 DEF Unread
<1>4. \A g \in Handlers : target'[g] <= Given' /\ pc'[g] # "records"
  <2>1. Given = before[4] /\ Given' = before[4] /\ before[4] \in Nat
    BY <1>1, <1>2 DEF Given, TypeInv, Types, Tables
  <2>2. \A g \in Handlers : target[g] <= before[4]
    BY <2>1 DEF RoomInv
  <2> QED
    BY <1>1, <1>2, <2>1, <2>2, AnswerTarget
<1> QED
  BY <1>2, <1>3, <1>4, ImportsAssumption DEF RoomInv

(* A statement outside of transactions, by h, that is about a known key.   *)
LEMMA OutsideRoom ==
    ASSUME TypeInv, RoomInv, NEW h \in Handlers, writer = None, writer' = None,
           before' = before, sequence' \in Nat,
           sequence <= sequence', sequence' <= MaxId,
           \A i \in Ids : i > sequence' => product'[i] = NoProduct,
           \A g \in Handlers : pc'[g] # "records",
           \A g \in Handlers : target'[g] <= sequence' \/ target'[g] = target[g]
    PROVE  RoomInv'
<1>1. sequence \in Nat /\ target \in [Handlers -> Ids \cup {0}]
  BY DEF TypeInv, Types
<1>2. \A g \in Handlers : target[g] <= sequence /\ target[g] \in Nat
  BY <1>1 DEF RoomInv, Given, Ids
<1>3. \A g \in Handlers : target'[g] <= sequence'
  BY <1>1, <1>2
<1> QED
  BY <1>3 DEF RoomInv, Given

LEMMA ProceedTarget ==
    ASSUME TypeInv, NEW h \in Handlers, NEW i, NEW f,
           NEW step \in {"clear", "attribute"}, Proceed(h, i, f, step)
    PROVE  \A g \in Handlers :
               /\ target'[g] \in {0, i} \/ target'[g] = target[g]
               /\ pc'[g] = "records" => pc[g] = "records" /\ g # h
               /\ pc'[g] = "log" <=> pc[g] = "log" /\ g # h
<1>1. CASE f.attribute = Keep
  BY <1>1, AnswerTarget DEF Proceed
<1>2. CASE f.attribute # Keep
  BY <1>2 DEF Proceed, TypeInv, Types
<1> QED
  BY <1>1, <1>2

LEMMA NextRoom == TypeInv /\ RoomInv /\ [Next]_vars => RoomInv'
<1> SUFFICES ASSUME TypeInv, RoomInv, [Next]_vars PROVE RoomInv'
  OBVIOUS
<1>1. /\ sequence \in Nat /\ MaxId \in Nat /\ before[4] \in Nat
      /\ product \in [Ids -> Product \cup {NoProduct}]
      /\ target \in [Handlers -> Ids \cup {0}]
      /\ pc \in [Handlers -> {"idle", "records", "log", "update", "clear",
                              "attribute", "delete", "withdraw"}]
  BY ImportsAssumption DEF TypeInv, Types, Tables
<1>2. writer = None => \A h \in Handlers : pc[h] # "records" /\ target[h] <= sequence
  BY ImportsAssumption DEF TypeInv, RequestShape, RoomInv, Given
<1>3. ASSUME NEW h \in Handlers, Answer(h), writer = None, writer' = None,
             UNCHANGED <<product, sequence, before>>
      PROVE  RoomInv'
  BY <1>1, <1>2, <1>3, AnswerTarget, OutsideRoom DEF RoomInv
<1>4. ASSUME NEW h \in Handlers, Import(h) PROVE RoomInv'
  <2>1. ASSUME NEW u \in Suppliers, NEW f \in Files, NEW upd \in BOOLEAN,
               BeginImport(h, u, f, upd)
        PROVE  RoomInv'
    <3>1. /\ writer = None /\ writer' = h /\ h # None
          /\ before' = database /\ pc' = [pc EXCEPT ![h] = "records"]
          /\ UNCHANGED <<product, sequence, target>>
          /\ file'[h] = f
          /\ sequence + Cardinality({s \in Skus : Rows(s) = {}
                                        /\ \E n \in DOMAIN f : f[n].sku = s}) <= MaxId
      BY <2>1, ImportsAssumption DEF BeginImport, database, single, TypeInv, Types
    <3>2. NewSkus(h)' = {s \in Skus : Rows(s) = {} /\ \E n \in DOMAIN f : f[n].sku = s}
      BY <3>1 DEF NewSkus, Rows
    <3>3. \A g \in Handlers : pc'[g] = "records" => g = h
      BY <1>1, <1>2, <3>1
    <3>4. before'[4] = sequence /\ before'[1] = product
      BY <3>1 DEF database
    <3>5. sequence' + Cardinality(NewSkus(h)') <= MaxId
      BY <3>1, <3>2
    <3>6. \A g \in Handlers : target'[g] <= Given'
      BY <1>2, <3>1, <3>4 DEF Given
    <3> QED
      BY <1>1, <3>1, <3>3, <3>4, <3>5, <3>6 DEF RoomInv
  <2>2. CASE RefuseRecord(h) \/ ProcessRecord(h) \/ StatementFails(h)
    BY <2>2, RecordRoom
  <2>3. CASE AbortImport(h)
    BY <2>3, RollbackRoom DEF AbortImport, AtRecord
  <2>4. CASE Commit(h)
    <3>1. /\ writer # None /\ writer' = None
          /\ \A g \in Handlers : pc'[g] # "records"
          /\ before' = Unread
          /\ UNCHANGED <<product, sequence, target>>
      BY <2>4, ImportsAssumption
         DEF Commit, database, single, TypeInv, Types, RequestShape
    <3>2. before'[4] = 0 /\ \A i \in Ids : before'[1][i] = NoProduct
      BY <3>1 DEF Unread
    <3>3. \A g \in Handlers : target'[g] <= Given'
      <4>1. Given = before[4] /\ Given' = sequence /\ before[4] <= sequence
        BY <3>1 DEF Given, RoomInv
      <4>2. \A g \in Handlers : target[g] <= before[4] /\ target[g] \in Nat
        BY <1>1, <4>1 DEF RoomInv, Ids
      <4> QED
        BY <1>1, <3>1, <4>1, <4>2
    <3> QED
      BY <1>1, <3>1, <3>2, <3>3 DEF RoomInv
  <2>5. CASE WriteLog(h)
    BY <1>3, <2>5 DEF WriteLog, database
  <2> QED
    BY <1>4, <2>1, <2>2, <2>3, <2>4, <2>5 DEF Import
<1>5. ASSUME NEW h \in Handlers, NEW f \in Forms, CreateProduct(h, f) PROVE RoomInv'
  <2>1. /\ writer = None /\ writer' = None /\ before' = before
        /\ sequence < MaxId /\ sequence' = sequence + 1
        /\ product' = [product EXCEPT ![sequence + 1] = Apply(NoProduct, f)]
        /\ Proceed(h, sequence + 1, f, "attribute")
    BY <1>5 DEF CreateProduct
  <2>2. \A i \in Ids : i > sequence' => product'[i] = NoProduct
    BY <1>1, <2>1 DEF RoomInv, Ids
  <2>3. \A g \in Handlers : target'[g] <= sequence' \/ target'[g] = target[g]
    BY <1>1, <2>1, ProceedTarget
  <2>4. \A g \in Handlers : pc'[g] # "records"
    BY <1>2, <2>1, ProceedTarget
  <2> QED
    BY <1>1, <2>1, <2>2, <2>3, <2>4, OutsideRoom
<1>6. ASSUME NEW h \in Handlers, NEW i \in Ids, NEW f,
             NEW step \in {"update", "delete"}, Load(h, i, f, step)
      PROVE  RoomInv'
  <2>1. /\ Seen(i) # NoProduct
        /\ pc' = [pc EXCEPT ![h] = step]
        /\ target' = [target EXCEPT ![h] = i]
        /\ UNCHANGED <<product, sequence, writer, before, file>>
    BY <1>6 DEF Load, database, parsed
  <2>2. i <= Given
    BY <1>1, <2>1 DEF RoomInv, Seen, Given, Ids
  <2>3. \A g \in Handlers : target'[g] <= Given'
    BY <1>1, <2>1, <2>2 DEF RoomInv, Given
  <2>4. \A g \in Handlers :
            pc'[g] = "records" => pc[g] = "records" /\ NewSkus(g)' = NewSkus(g)
    BY <1>1, <2>1 DEF NewSkus, Rows
  <2> QED
    BY <2>1, <2>3, <2>4 DEF RoomInv
<1>7. ASSUME NEW h \in Handlers, SaveProduct(h) PROVE RoomInv'
  <2> DEFINE r == Apply(copy[h], form[h])
  <2>1. /\ pc[h] = "update" /\ writer = None /\ writer' = None
        /\ UNCHANGED <<sequence, before>>
    BY <1>7 DEF SaveProduct
  <2>2. CASE Rows(r.sku) \subseteq {target[h]} /\ r.supplier \in suppliers
    <3>1. /\ product' = [product EXCEPT ![target[h]] = r]
          /\ Proceed(h, target[h], form[h], "clear")
      BY <1>7, <2>2 DEF SaveProduct
    <3>2. \A i \in Ids : i > sequence' => product'[i] = NoProduct
      BY <1>1, <1>2, <2>1, <3>1 DEF RoomInv, Ids
    <3>3. \A g \in Handlers : target'[g] <= sequence' \/ target'[g] = target[g]
      BY <1>1, <1>2, <2>1, <3>1, ProceedTarget
    <3>4. \A g \in Handlers : pc'[g] # "records"
      BY <1>2, <2>1, <3>1, ProceedTarget
    <3> QED
      BY <1>1, <2>1, <3>2, <3>3, <3>4, OutsideRoom DEF RoomInv
  <2>3. CASE ~(Rows(r.sku) \subseteq {target[h]} /\ r.supplier \in suppliers)
    BY <1>3, <1>7, <2>1, <2>3 DEF SaveProduct
  <2> QED
    BY <2>2, <2>3
<1>8. ASSUME NEW h \in Handlers, ClearAttributes(h) PROVE RoomInv'
  <2>1. /\ writer = None /\ writer' = None
        /\ UNCHANGED <<product, sequence, before, target>>
        /\ pc' = [pc EXCEPT ![h] = "attribute"]
    BY <1>8 DEF ClearAttributes, single
  <2>2. \A g \in Handlers : pc'[g] # "records" /\ target'[g] = target[g]
    BY <1>1, <1>2, <2>1
  <2> QED
    BY <1>1, <2>1, <2>2, OutsideRoom DEF RoomInv
<1>9. ASSUME NEW h \in Handlers, CreateAttribute(h) PROVE RoomInv'
  BY <1>3, <1>9 DEF CreateAttribute
<1>10. ASSUME NEW h \in Handlers, DeleteProduct(h) PROVE RoomInv'
  <2>1. /\ writer = None /\ writer' = None /\ Answer(h)
        /\ UNCHANGED <<sequence, before>>
        /\ product' \in {product, [product EXCEPT ![target[h]] = NoProduct]}
    BY <1>10 DEF DeleteProduct
  <2>2. \A i \in Ids : i > sequence' => product'[i] = NoProduct
    BY <1>1, <2>1 DEF RoomInv
  <2>3. \A g \in Handlers : pc'[g] # "records"
            /\ (target'[g] <= sequence' \/ target'[g] = target[g])
    BY <1>1, <1>2, <2>1, AnswerTarget
  <2> QED
    BY <1>1, <2>1, <2>2, <2>3, OutsideRoom DEF RoomInv
<1>11. ASSUME NEW h \in Handlers, HandlerFails(h) PROVE RoomInv'
  <2>1. CASE pc[h] = "records"
    BY <1>11, <2>1, RollbackRoom DEF HandlerFails
  <2>2. CASE pc[h] # "records"
    <3>1. Answer(h) /\ UNCHANGED <<product, sequence, writer, before>>
      BY <1>11, <2>2 DEF HandlerFails, database
    <3>2. \A g \in Handlers :
              pc'[g] = "records" => pc[g] = "records" /\ NewSkus(g)' = NewSkus(g)
      BY <3>1, AnswerTarget DEF NewSkus, Rows
    <3>3. \A g \in Handlers : target'[g] <= Given'
      BY <1>1, <3>1, AnswerTarget DEF RoomInv, Given
    <3> QED
      BY <3>1, <3>2, <3>3 DEF RoomInv
  <2> QED
    BY <2>1, <2>2
<1>12. ASSUME NEW i \in Ids, OrderProduct(i) PROVE RoomInv'
  BY <1>12 DEF OrderProduct, database, parsed, single, RoomInv, NewSkus, Rows, Given
<1>13. CASE UNCHANGED vars
  BY <1>13 DEF vars, RoomInv, NewSkus, Rows, Given
<1>14. ASSUME NEW h \in Handlers, NEW u \in Suppliers, GatherProducts(h, u)
       PROVE  RoomInv'
  <2>1. /\ pc' = [pc EXCEPT ![h] = "withdraw"]
        /\ UNCHANGED <<product, sequence, writer, before, file, target>>
    BY <1>14 DEF GatherProducts, database
  <2>2. \A g \in Handlers :
            pc'[g] = "records" => pc[g] = "records" /\ NewSkus(g)' = NewSkus(g)
    BY <1>1, <2>1 DEF NewSkus, Rows
  <2> QED
    BY <2>1, <2>2 DEF RoomInv, Given
<1>15. ASSUME NEW h \in Handlers, WithdrawSupplier(h) PROVE RoomInv'
  <2>1. /\ writer = None /\ writer' = None /\ Answer(h)
        /\ UNCHANGED <<sequence, before>>
        /\ \A i \in Ids : product'[i] \in {product[i], NoProduct}
    BY <1>15, WithdrawStep
  <2>2. \A i \in Ids : i > sequence' => product'[i] = NoProduct
    BY <1>1, <2>1 DEF RoomInv
  <2>3. \A g \in Handlers : pc'[g] # "records"
            /\ (target'[g] <= sequence' \/ target'[g] = target[g])
    BY <1>1, <1>2, <2>1, AnswerTarget
  <2> QED
    BY <1>1, <2>1, <2>2, <2>3, OutsideRoom DEF RoomInv
<1>16. ASSUME NEW u \in Suppliers, RestoreSupplier(u) PROVE RoomInv'
  BY <1>16, RestoreStep DEF RoomInv, NewSkus, Rows, Given
<1> QED
  BY <1>4, <1>5, <1>6, <1>7, <1>8, <1>9, <1>10, <1>11, <1>12, <1>13, <1>14, <1>15,
     <1>16
     DEF Next, LoadForUpdate, LoadForDelete

(* Who is about to log an import changes with its statements only.         *)
LEMMA SameLogs ==
    ASSUME LogInv, UNCHANGED <<logs, writer>>,
           \A g \in Handlers : pc'[g] = "log" <=> pc[g] = "log"
    PROVE  LogInv'
<1>1. Logging' = Logging
  BY DEF Logging
<1> QED
  BY <1>1 DEF LogInv

LEMMA NextLog == TypeInv /\ LogInv /\ [Next]_vars => LogInv'
<1> SUFFICES ASSUME TypeInv, LogInv, [Next]_vars PROVE LogInv'
  OBVIOUS
<1>1. /\ pc \in [Handlers -> {"idle", "records", "log", "update", "clear",
                              "attribute", "delete", "withdraw"}]
      /\ MaxLogs \in Nat /\ logs \in Nat
      /\ IsFiniteSet(Logging) /\ Cardinality(Logging) \in Nat
  BY ImportsAssumption, FS_CardinalityType DEF TypeInv, Types, LogInv
<1>2. ASSUME NEW h \in Handlers, Rollback(h), pc[h] = "records" PROVE LogInv'
  <2>1. Answer(h) /\ writer' = None /\ logs' = logs
    BY <1>2 DEF Rollback
  <2>2. Logging' = Logging
    BY <1>2, <2>1, AnswerTarget DEF Logging
  <2> QED
    BY <1>1, <2>1, <2>2 DEF LogInv
<1>3. ASSUME NEW h \in Handlers, Answer(h), pc[h] # "log", UNCHANGED <<logs, writer>>
      PROVE  LogInv'
  BY <1>3, AnswerTarget, SameLogs
<1>4. ASSUME NEW h \in Handlers, Answer(h), pc[h] = "log", writer' = writer,
             logs' \in {logs, logs + 1}
      PROVE  LogInv'
  <2>1. Logging' = Logging \ {h} /\ h \in Logging
    BY <1>4, AnswerTarget DEF Logging
  <2>2. IsFiniteSet(Logging') /\ Cardinality(Logging') = Cardinality(Logging) - 1
    BY <1>1, <2>1, FS_RemoveElement
  <2> QED
    BY <1>1, <1>4, <2>2 DEF LogInv
<1>5. ASSUME NEW h \in Handlers, Import(h) PROVE LogInv'
  <2>1. ASSUME NEW u \in Suppliers, NEW f \in Files, NEW upd \in BOOLEAN,
               BeginImport(h, u, f, upd)
        PROVE  LogInv'
    <3>1. /\ logs + Cardinality(Logging) < MaxLogs /\ logs' = logs
          /\ pc[h] = "idle" /\ pc' = [pc EXCEPT ![h] = "records"]
      BY <2>1 DEF BeginImport, Logging
    <3>2. Logging' = Logging
      BY <1>1, <3>1 DEF Logging
    <3> QED
      BY <1>1, <3>1, <3>2 DEF LogInv
  <2>2. CASE RefuseRecord(h) \/ ProcessRecord(h) \/ StatementFails(h)
    BY <2>2, RecordStep, SameLogs
  <2>3. CASE AbortImport(h)
    BY <1>2, <2>3 DEF AbortImport, AtRecord
  <2>4. CASE Commit(h)
    <3>1. /\ pc[h] = "records" /\ writer # None /\ writer' = None /\ logs' = logs
          /\ pc' = [pc EXCEPT ![h] = "log"]
      BY <2>4, ImportsAssumption DEF Commit, TypeInv, RequestShape
    <3>2. Logging' = Logging \cup {h} /\ h \notin Logging
      BY <1>1, <3>1 DEF Logging
    <3>3. IsFiniteSet(Logging') /\ Cardinality(Logging') = Cardinality(Logging) + 1
      BY <1>1, <3>2, FS_AddElement
    <3> QED
      BY <1>1, <3>1, <3>3 DEF LogInv
  <2>5. CASE WriteLog(h)
    BY <1>4, <2>5 DEF WriteLog
  <2> QED
    BY <1>5, <2>1, <2>2, <2>3, <2>4, <2>5 DEF Import
<1>6. ASSUME NEW h \in Handlers, NEW i, NEW f, NEW step \in {"clear", "attribute"},
             Proceed(h, i, f, step), pc[h] # "log", UNCHANGED <<logs, writer>>
      PROVE  LogInv'
  BY <1>6, ProceedTarget, SameLogs
<1>7. ASSUME NEW h \in Handlers, NEW f \in Forms, CreateProduct(h, f) PROVE LogInv'
  BY <1>6, <1>7 DEF CreateProduct
<1>8. ASSUME NEW h \in Handlers, NEW i \in Ids, NEW f,
             NEW step \in {"update", "delete"}, Load(h, i, f, step)
      PROVE  LogInv'
  BY <1>1, <1>8, SameLogs DEF Load
<1>9. ASSUME NEW h \in Handlers, SaveProduct(h) PROVE LogInv'
  BY <1>3, <1>6, <1>9 DEF SaveProduct
<1>10. ASSUME NEW h \in Handlers,
              ClearAttributes(h) \/ CreateAttribute(h) \/ DeleteProduct(h)
       PROVE  LogInv'
  <2>1. CASE ClearAttributes(h)
    BY <1>1, <2>1, SameLogs DEF ClearAttributes
  <2>2. CASE CreateAttribute(h) \/ DeleteProduct(h)
    BY <1>3, <2>2 DEF CreateAttribute, DeleteProduct
  <2> QED
    BY <1>10, <2>1, <2>2
<1>11. ASSUME NEW h \in Handlers, HandlerFails(h) PROVE LogInv'
  BY <1>2, <1>3, <1>4, <1>11 DEF HandlerFails
<1>12. ASSUME NEW i \in Ids, OrderProduct(i) PROVE LogInv'
  BY <1>12, SameLogs DEF OrderProduct
<1>13. CASE UNCHANGED vars
  BY <1>13, SameLogs DEF vars
<1>14. ASSUME NEW h \in Handlers, NEW u \in Suppliers, GatherProducts(h, u)
       PROVE  LogInv'
  BY <1>1, <1>14, GatherStep, SameLogs DEF GatherProducts
<1>15. ASSUME NEW h \in Handlers, WithdrawSupplier(h) PROVE LogInv'
  BY <1>3, <1>15, WithdrawStep
<1>16. ASSUME NEW u \in Suppliers, RestoreSupplier(u) PROVE LogInv'
  BY <1>16, RestoreStep, SameLogs
<1> QED
  BY <1>5, <1>7, <1>8, <1>9, <1>10, <1>11, <1>12, <1>13, <1>14, <1>15, <1>16
     DEF Next, LoadForUpdate, LoadForDelete

(* What a request has counted stays within what it has read.               *)
LEMMA AnswerCount ==
    ASSUME TypeInv, CountInv, NEW h \in Handlers, Answer(h), clean' \in BOOLEAN,
           latest'.who \in Suppliers \cup {None}
    PROVE  CountInv'
<1>1. /\ file \in [Handlers -> Seq(Record)] /\ index \in [Handlers -> Nat \ {0}]
      /\ update \in [Handlers -> BOOLEAN] /\ success \in [Handlers -> Nat]
      /\ file' = [file EXCEPT ![h] = <<>>] /\ index' = [index EXCEPT ![h] = 1]
      /\ success' = [success EXCEPT ![h] = 0]
      /\ update' = [update EXCEPT ![h] = FALSE]
  BY DEF TypeInv, Types, CountInv, Answer
<1>2. \A g \in Handlers :
          file'[g] \in Files \cup {<<>>} /\ index'[g] <= Len(file'[g]) + 1
          /\ success'[g] < index'[g] /\ (pc'[g] = "idle" => index'[g] = 1)
  <2> TAKE g \in Handlers
  <2>1. CASE g = h
    BY <1>1, <2>1
  <2>2. CASE g # h
    BY <1>1, <2>2, AnswerTarget DEF CountInv
  <2> QED
    BY <2>1, <2>2
<1>3. update' \in [Handlers -> BOOLEAN] /\ success' \in [Handlers -> Nat]
  BY <1>1
<1> QED
  BY <1>2, <1>3 DEF CountInv

LEMMA SameCount ==
    ASSUME CountInv, UNCHANGED <<file, update, index, success>>,
           clean' \in BOOLEAN, latest'.who \in Suppliers \cup {None},
           \A g \in Handlers : pc'[g] = "idle" => pc[g] = "idle"
    PROVE  CountInv'
BY DEF CountInv

LEMMA RecordCount ==
    ASSUME TypeInv, CountInv, NEW h \in Handlers,
           RefuseRecord(h) \/ ProcessRecord(h) \/ StatementFails(h)
    PROVE  CountInv'
<1>1. /\ UNCHANGED <<file, update, latest>>
      /\ index' = [index EXCEPT ![h] = @ + 1]
  BY RecordStep DEF parsed
<1>2. /\ success' \in {success, [success EXCEPT ![h] = @ + 1]}
      /\ clean' \in BOOLEAN /\ index[h] <= Len(file[h])
  BY DEF RefuseRecord, ProcessRecord, StatementFails, AtRecord, CountInv
<1>3. /\ index \in [Handlers -> Nat \ {0}] /\ success \in [Handlers -> Nat]
      /\ \A g \in Handlers : Len(file[g]) \in Nat
  BY DEF TypeInv, Types, CountInv
<1>4. success' \in [Handlers -> Nat]
  BY <1>2, <1>3
<1>5. \A g \in Handlers : index'[g] <= Len(file'[g]) + 1 /\ success'[g] < index'[g]
  <2> TAKE g \in Handlers
  <2>1. CASE g = h
    BY <1>1, <1>2, <1>3, <2>1 DEF CountInv
  <2>2. CASE g # h
    BY <1>1, <1>2, <1>3, <2>2 DEF CountInv
  <2> QED
    BY <2>1, <2>2
<1>6. pc' = pc /\ pc[h] = "records"
  BY RecordStep
<1>7. \A g \in Handlers : pc'[g] = "idle" => index'[g] = 1
  BY <1>1, <1>3, <1>6 DEF CountInv
<1> QED
  BY <1>1, <1>2, <1>4, <1>5, <1>7 DEF CountInv

LEMMA NextCount == TypeInv /\ CountInv /\ [Next]_vars => CountInv'
<1> SUFFICES ASSUME TypeInv, CountInv, [Next]_vars PROVE CountInv'
  OBVIOUS
<1>1. clean \in BOOLEAN /\ latest.who \in Suppliers \cup {None}
      /\ NoImport.who \in Suppliers \cup {None}
  BY DEF CountInv, NoImport
<1>2. ASSUME NEW h \in Handlers, Import(h) PROVE CountInv'
  <2>1. ASSUME NEW u \in Suppliers, NEW f \in Files, NEW upd \in BOOLEAN,
               BeginImport(h, u, f, upd)
        PROVE  CountInv'
    <3>1. /\ file' = [file EXCEPT ![h] = f] /\ update' = [update EXCEPT ![h] = upd]
          /\ UNCHANGED <<index, success, latest>> /\ clean' = TRUE
          /\ pc[h] = "idle"
      BY <2>1 DEF BeginImport
    <3>2. /\ file \in [Handlers -> Seq(Record)]
          /\ update \in [Handlers -> BOOLEAN]
      BY DEF TypeInv, Types, CountInv
    <3>3. index[h] = 1
      BY <3>1 DEF CountInv
    <3>4. \A g \in Handlers : pc'[g] = "idle" => pc[g] = "idle"
      BY <2>1 DEF BeginImport, TypeInv, Types
    <3> QED
      BY <1>1, <3>1, <3>2, <3>3, <3>4 DEF CountInv
  <2>2. CASE RefuseRecord(h) \/ ProcessRecord(h) \/ StatementFails(h)
    BY <2>2, RecordCount
  <2>3. CASE AbortImport(h)
    BY <1>1, <2>3, AnswerCount DEF AbortImport, Rollback
  <2>4. CASE Commit(h)
    <3>1. latest'.who \in Suppliers \cup {None}
      BY <1>1, <2>4 DEF Commit, TypeInv, Types
    <3> QED
      BY <2>4, <3>1, SameCount DEF Commit, parsed, TypeInv, Types
  <2>5. CASE WriteLog(h)
    BY <1>1, <2>5, AnswerCount DEF WriteLog
  <2> QED
    BY <1>2, <2>1, <2>2, <2>3, <2>4, <2>5 DEF Import
<1>3. ASSUME NEW h \in Handlers, NEW i, NEW f, NEW step \in {"clear", "attribute"},
             Proceed(h, i, f, step),
             clean' = clean, latest' \in {latest, NoImport}
      PROVE  CountInv'
  BY <1>1, <1>3, AnswerCount, SameCount DEF Proceed, parsed, TypeInv, Types
<1>4. ASSUME NEW h \in Handlers, NEW f \in Forms, CreateProduct(h, f) PROVE CountInv'
  BY <1>3, <1>4 DEF CreateProduct
<1>5. ASSUME NEW h \in Handlers, NEW i \in Ids, NEW f,
             NEW step \in {"update", "delete"}, Load(h, i, f, step)
      PROVE  CountInv'
  BY <1>1, <1>5, SameCount DEF Load, parsed, TypeInv, Types
<1>6. ASSUME NEW h \in Handlers, Answer(h), clean' \in BOOLEAN,
             latest' \in {latest, NoImport}
      PROVE  CountInv'
  BY <1>1, <1>6, AnswerCount
<1>7. ASSUME NEW h \in Handlers, SaveProduct(h) PROVE CountInv'
  BY <1>1, <1>3, <1>6, <1>7 DEF SaveProduct
<1>8. ASSUME NEW h \in Handlers, ClearAttributes(h) PROVE CountInv'
  BY <1>1, <1>8, SameCount DEF ClearAttributes, parsed, TypeInv, Types
<1>9. ASSUME NEW h \in Handlers, CreateAttribute(h) \/ DeleteProduct(h)
      PROVE  CountInv'
  BY <1>1, <1>6, <1>9 DEF CreateAttribute, DeleteProduct
<1>10. ASSUME NEW h \in Handlers, HandlerFails(h) PROVE CountInv'
  BY <1>1, <1>6, <1>10 DEF HandlerFails, Rollback
<1>11. ASSUME NEW i \in Ids, OrderProduct(i) PROVE CountInv'
  BY <1>1, <1>11, SameCount DEF OrderProduct, parsed
<1>12. CASE UNCHANGED vars
  BY <1>1, <1>12, SameCount DEF vars
<1>13. ASSUME NEW h \in Handlers, NEW u \in Suppliers, GatherProducts(h, u)
       PROVE  CountInv'
  <2>1. /\ UNCHANGED <<file, update, index, success, clean, latest>>
        /\ \A g \in Handlers : pc'[g] = "idle" => pc[g] = "idle"
    BY <1>13 DEF GatherProducts, TypeInv, Types
  <2> QED
    BY <1>1, <2>1, SameCount
<1>14. ASSUME NEW h \in Handlers, WithdrawSupplier(h) PROVE CountInv'
  BY <1>1, <1>6, <1>14, WithdrawStep
<1>15. ASSUME NEW u \in Suppliers, RestoreSupplier(u) PROVE CountInv'
  BY <1>1, <1>15, RestoreStep, SameCount
<1> QED
  BY <1>2, <1>4, <1>5, <1>7, <1>8, <1>9, <1>10, <1>11, <1>12, <1>13, <1>14, <1>15
     DEF Next, LoadForUpdate, LoadForDelete

LEMMA InitBounds == Init => RoomInv /\ LogInv /\ CountInv
<1> SUFFICES ASSUME Init PROVE RoomInv /\ LogInv /\ CountInv
  OBVIOUS
<1>1. RoomInv
  <2>1. before[4] = 0 /\ before[1] = [i \in Ids |-> NoProduct]
    BY DEF Init, Unread
  <2> QED
    BY <2>1, ImportsAssumption DEF Init, RoomInv, Given
<1>2. LogInv
  <2>1. Logging = {}
    BY DEF Init, Logging
  <2> QED
    BY <2>1, FS_EmptySet, ImportsAssumption DEF Init, LogInv
<1>3. CountInv
  BY DEF Init, CountInv, NoImport
<1> QED
  BY <1>1, <1>2, <1>3

(* Each variable has a value of its table or request, and the instance is  *)
(* not left: no product gets a key that is not one, no import more room in *)
(* the log than there is.                                                  *)
THEOREM TypeCorrect == Spec => []TypeOK
<1>1. Init => SerialInv
  BY DEF Init, SerialInv, Seen
<1>2. Spec => [](TypeInv /\ RoomInv /\ LogInv /\ CountInv /\ SerialInv)
  BY <1>1, InitBounds, InitTyped, NextTyped, NextRoom, NextLog, NextCount, NextSerial, PTL
     DEF Spec
<1>3. TypeInv /\ RoomInv /\ LogInv /\ CountInv /\ SerialInv => TypeOK
  <2> SUFFICES ASSUME TypeInv, RoomInv, LogInv, CountInv, SerialInv PROVE TypeOK
    OBVIOUS
  <2>1. logs \in 0 .. MaxLogs
    <3>1. Cardinality(Logging) \in Nat
      BY FS_CardinalityType DEF LogInv
    <3> QED
      BY <3>1, ImportsAssumption DEF LogInv
  <2>2. sequence \in 0 .. MaxId
    BY ImportsAssumption DEF TypeInv, Types, RoomInv
  <2>3. file \in [Handlers -> Files \cup {<<>>}]
    BY DEF TypeInv, Types, CountInv
  <2>4. \A h \in Handlers :
            index[h] \in 1 .. Len(file[h]) + 1 /\ success[h] \in 0 .. index[h] - 1
    BY DEF TypeInv, Types, CountInv
  <2> QED
    BY <2>1, <2>2, <2>3, <2>4 DEF TypeOK, TypeInv, Types, CountInv, SerialInv
<1> QED
  BY <1>2, <1>3, PTL

-----------------------------------------------------------------------------
(* What an import commits is what its file says.                           *)

(* The records of h that were read and not refused, by how far they reach. *)
Stage(h, stage) ==
    {n \in DOMAIN file[h] :
        n < index[h] /\ ~Refused(file[h][n]) /\ FullReach(file[h][n]) >= stage}

(* Those that were stored to their end. *)
Passed(h) == {n \in Successes(file[h], update[h]) : n < index[h]}

StoredFor(h, s) == {n \in Stage(h, 2) : file[h][n].sku = s}

DecidesSoFar(h, s, n) ==
    /\ n \in StoredFor(h, s)
    /\ \A k \in StoredFor(h, s) : IF update[h] THEN k <= n ELSE n <= k

(* The product with sku s is the one of the record that decides so far.    *)
SkuMatches(h, s) ==
    IF (update[h] \/ Old(s) = {}) /\ StoredFor(h, s) # {}
    THEN \E n \in StoredFor(h, s), i \in Ids :
             /\ DecidesSoFar(h, s, n)
             /\ Rows(s) = {i}
             /\ Old(s) \subseteq {i}
             /\ product[i] = Imported(h, file[h][n])
    ELSE /\ Rows(s) = Old(s)
         /\ \A i \in Old(s) : product[i] = before[1][i]

MatchInv ==
    \A h \in Handlers : pc[h] = "records" /\ clean =>
        /\ \A s \in Skus : SkuMatches(h, s)
        /\ success[h] = Cardinality(Passed(h))
        /\ categories = before[3] \cup {file[h][n].category : n \in Stage(h, 1)}

(* The unique column. *)
UniqueInv ==
    /\ \A i, j \in Ids :
           product[i].sku = product[j].sku /\ product[i].sku \in Skus => i = j
    /\ \A i, j \in Ids :
           before[1][i].sku = before[1][j].sku /\ before[1][i].sku \in Skus => i = j

(* A product is written where no other row has its sku.                    *)
LEMMA WriteUnique ==
    ASSUME TypeInv, UniqueInv, NEW i \in Ids, NEW r \in Product,
           Rows(r.sku) \subseteq {i},
           product' = [product EXCEPT ![i] = r], before' = before
    PROVE  UniqueInv'
<1>1. product \in [Ids -> Product \cup {NoProduct}]
  BY DEF TypeInv, Types
<1>2. \A j \in Ids : product'[j] = IF j = i THEN r ELSE product[j]
  BY <1>1
<1> QED
  BY <1>2 DEF UniqueInv, Rows

(* A record that is stored gets the one row with its sku.                  *)
LEMMA StoredRow ==
    ASSUME TypeInv, RoomInv, UniqueInv, NEW h \in Handlers, pc[h] = "records",
           NEW n \in DOMAIN file[h],
           product' = [product EXCEPT ![Slot(file[h][n].sku)] = Imported(h, file[h][n])]
    PROVE  \E k \in Ids :
               /\ k = Slot(file[h][n].sku)
               /\ \A i \in Ids : product'[i] = IF i = k THEN Imported(h, file[h][n])
                                               ELSE product[i]
               /\ Rows(file[h][n].sku) \subseteq {k}
               /\ \A s \in Skus :
                      IF s = file[h][n].sku THEN Rows(s)' = {k}
                      ELSE Rows(s)' = Rows(s) /\ k \notin Rows(s)
<1> DEFINE r == file[h][n]
           new == Imported(h, r)
           k == Slot(r.sku)
<1>1. r \in Record /\ new \in Product /\ new.sku = r.sku /\ r.sku \in Skus
  <2>1. r \in Record
    BY DEF TypeInv, Types
  <2> QED
    BY <2>1, ImportedTyped DEF Imported, Record
<1>2. product \in [Ids -> Product \cup {NoProduct}] /\ NoProduct.sku \notin Skus
  BY ImportsAssumption DEF NoProduct, TypeInv, Types
<1>3. product' = [product EXCEPT ![k] = new]
  OBVIOUS
<1>4. k \in Ids /\ (product[k] = NoProduct \/ product[k].sku = r.sku)
      /\ Rows(r.sku) \subseteq {k}
  <2>1. CASE Rows(r.sku) = {}
    <3>1. r.sku \in NewSkus(h)
      BY <1>1, <2>1 DEF NewSkus
    <3>2. Cardinality(NewSkus(h)) \in Nat /\ Cardinality(NewSkus(h)) # 0
      BY <3>1, NewSkusFinite, FS_EmptySet
    <3>3. k = sequence + 1
      BY <2>1 DEF Slot
    <3> QED
      BY <2>1, <3>2, <3>3, ImportsAssumption DEF RoomInv, Ids, TypeInv, Types
  <2>2. CASE Rows(r.sku) # {}
    BY <1>1, <2>2, SlotOfRow DEF Rows, UniqueInv
  <2> QED
    BY <2>1, <2>2
<1> HIDE DEF new, k, r
<1>5. \A i \in Ids : product'[i] = IF i = k THEN new ELSE product[i]
  BY <1>2, <1>3
<1>6. ASSUME NEW s \in Skus
      PROVE  IF s = r.sku THEN Rows(s)' = {k} ELSE Rows(s)' = Rows(s) /\ k \notin Rows(s)
  BY <1>1, <1>2, <1>4, <1>5 DEF Rows
<1> QED
  BY <1>4, <1>5, <1>6 DEF new, r, k

LEMMA RecordUnique ==
    ASSUME TypeInv, RoomInv, UniqueInv, NEW h \in Handlers,
           RefuseRecord(h) \/ ProcessRecord(h) \/ StatementFails(h)
    PROVE  UniqueInv'
<1>1. pc[h] = "records" /\ before' = before
  BY RecordStep
<1>2. CASE product' = product
  BY <1>1, <1>2 DEF UniqueInv
<1>3. CASE product' # product
  <2> DEFINE r == file[h][index[h]]
             new == Imported(h, r)
  <2>1. /\ product' = [product EXCEPT ![Slot(r.sku)] = new]
        /\ index[h] \in DOMAIN file[h] /\ r \in Record
    BY <1>3, RecordTyped DEF RefuseRecord, ProcessRecord, StatementFails, StoreProduct,
                             database, AtRecord, TypeInv, Types
  <2>2. new \in Product /\ new.sku = r.sku
    BY <1>1, <2>1, ImportedTyped DEF Imported
  <2>3. Slot(r.sku) \in Ids /\ Rows(r.sku) \subseteq {Slot(r.sku)}
    BY <1>1, <2>1, StoredRow
  <2> HIDE DEF r, new
  <2>4. PICK k \in Ids : k = Slot(r.sku)
    BY <2>3
  <2> QED
    BY <1>1, <2>1, <2>2, <2>3, <2>4, WriteUnique
<1> QED
  BY <1>2, <1>3

LEMMA NextUnique == TypeInv /\ RoomInv /\ UniqueInv /\ [Next]_vars => UniqueInv'
<1> SUFFICES ASSUME TypeInv, RoomInv, UniqueInv, [Next]_vars PROVE UniqueInv'
  OBVIOUS
<1>1. None \notin Skus /\ \A i \in Ids : Unread[1][i].sku = None
  BY ImportsAssumption DEF Unread, NoProduct
<1>2. ASSUME product' = product \/ product' = before[1],
             before' \in {before, Unread, database}
      PROVE  UniqueInv'
  BY <1>1, <1>2 DEF UniqueInv, database
<1>3. ASSUME NEW h \in Handlers, Import(h) PROVE UniqueInv'
  <2>1. CASE RefuseRecord(h) \/ ProcessRecord(h) \/ StatementFails(h)
    BY <2>1, RecordUnique
  <2>2. CASE \/ \E u \in Suppliers, f \in Files, upd \in BOOLEAN : BeginImport(h, u, f, upd)
             \/ AbortImport(h) \/ Commit(h) \/ WriteLog(h)
    BY <1>2, <2>2 DEF BeginImport, AbortImport, Rollback, Commit, WriteLog, database
  <2> QED
    BY <1>3, <2>1, <2>2 DEF Import
<1>4. ASSUME NEW h \in Handlers, NEW f \in Forms, CreateProduct(h, f) PROVE UniqueInv'
  <2> DEFINE r == Apply(NoProduct, f)
             k == sequence + 1
  <2>1. /\ r \in Product /\ r.sku = f.sku /\ k \in Ids
        /\ product' = [product EXCEPT ![k] = r] /\ before' = before
        /\ Rows(f.sku) = {}
    BY <1>4, ImportsAssumption, NewProductTyped
       DEF CreateProduct, Apply, TypeInv, Types, Ids
  <2> HIDE DEF r, k
  <2> QED
    BY <2>1, WriteUnique
<1>5. ASSUME NEW h \in Handlers, SaveProduct(h) PROVE UniqueInv'
  <2> DEFINE r == Apply(copy[h], form[h])
  <2>1. r \in Product /\ target[h] \in Ids /\ before' = before
    BY <1>5, AppliedProduct DEF SaveProduct, TypeInv, Types, RequestShape
  <2>2. \/ product' = product
        \/ Rows(r.sku) \subseteq {target[h]} /\ product' = [product EXCEPT ![target[h]] = r]
    BY <1>5 DEF SaveProduct
  <2> HIDE DEF r
  <2> QED
    BY <1>2, <2>1, <2>2, WriteUnique
<1>6. ASSUME NEW h \in Handlers, DeleteProduct(h) PROVE UniqueInv'
  <2>1. /\ before' = before
        /\ product' \in {product, [product EXCEPT ![target[h]] = NoProduct]}
        /\ NoProduct.sku = None
    BY <1>6 DEF DeleteProduct, NoProduct
  <2>2. \A i \in Ids : product'[i].sku \in Skus => product'[i] = product[i]
    BY <1>1, <2>1 DEF TypeInv, Types
  <2> QED
    BY <2>1, <2>2 DEF UniqueInv
<1>7. ASSUME NEW h \in Handlers, ClearAttributes(h) \/ CreateAttribute(h) \/ HandlerFails(h)
      PROVE  UniqueInv'
  BY <1>2, <1>7 DEF ClearAttributes, CreateAttribute, HandlerFails, Rollback, database
<1>8. ASSUME NEW h \in Handlers, NEW i \in Ids, NEW f, NEW step, Load(h, i, f, step)
      PROVE  UniqueInv'
  BY <1>2, <1>8 DEF Load, database
<1>9. ASSUME NEW i \in Ids, OrderProduct(i) PROVE UniqueInv'
  BY <1>2, <1>9 DEF OrderProduct, database
<1>10. CASE UNCHANGED vars
  BY <1>2, <1>10 DEF vars
<1>11. ASSUME NEW h \in Handlers, NEW u \in Suppliers, GatherProducts(h, u)
       PROVE  UniqueInv'
  BY <1>2, <1>11, GatherStep
<1>12. ASSUME NEW h \in Handlers, WithdrawSupplier(h) PROVE UniqueInv'
  <2>1. before' = before /\ NoProduct.sku = None
        /\ \A i \in Ids : product'[i] = product[i] \/ product'[i] = NoProduct
    BY <1>12, WithdrawStep DEF NoProduct
  <2> QED
    BY <1>1, <2>1 DEF UniqueInv
<1>13. ASSUME NEW u \in Suppliers, RestoreSupplier(u) PROVE UniqueInv'
  BY <1>2, <1>13, RestoreStep
<1> QED
  BY <1>3, <1>4, <1>5, <1>6, <1>7, <1>8, <1>9, <1>10, <1>11, <1>12, <1>13
     DEF Next, LoadForUpdate, LoadForDelete

(* What the record at index adds to the stages.                            *)
LEMMA StageGrows ==
    ASSUME TypeInv, NEW h \in Handlers, AtRecord(h), file' = file,
           index' = [index EXCEPT ![h] = @ + 1], NEW stage \in 1 .. 3
    PROVE  /\ index[h] \in Nat /\ index[h] \in DOMAIN file[h]
           /\ \A n \in Stage(h, stage) : n \in Nat /\ n < index[h]
           /\ Stage(h, stage)' =
                  IF ~Refused(file[h][index[h]]) /\ FullReach(file[h][index[h]]) >= stage
                  THEN Stage(h, stage) \cup {index[h]} ELSE Stage(h, stage)
<1> DEFINE k == index[h]
<1>1. /\ k \in Nat \ {0} /\ k \in DOMAIN file[h] /\ index'[h] = k + 1
      /\ DOMAIN file[h] \subseteq Nat
  BY DEF AtRecord, TypeInv, Types
<1>2. \A n \in DOMAIN file[h] : n < k + 1 <=> n < k \/ n = k
  BY <1>1
<1> HIDE DEF k
<1>3. Stage(h, stage)' = {n \in DOMAIN file[h] :
          n < k + 1 /\ ~Refused(file[h][n]) /\ FullReach(file[h][n]) >= stage}
  BY <1>1 DEF Stage
<1>4. Stage(h, stage) = {n \in DOMAIN file[h] :
          n < k /\ ~Refused(file[h][n]) /\ FullReach(file[h][n]) >= stage}
  BY DEF Stage, k
<1>5. k \notin Stage(h, stage) /\ \A n \in Stage(h, stage) : n \in Nat /\ n < k
  BY <1>1, <1>4
<1>6. Stage(h, stage)' = IF ~Refused(file[h][k]) /\ FullReach(file[h][k]) >= stage
                         THEN Stage(h, stage) \cup {k} ELSE Stage(h, stage)
  BY <1>1, <1>2, <1>3, <1>4
<1> QED
  BY <1>1, <1>5, <1>6 DEF k

LEMMA PassedFinite ==
    ASSUME TypeInv, NEW h \in Handlers
    PROVE  IsFiniteSet(Passed(h))
<1>1. Passed(h) \in SUBSET (1 .. Len(file[h])) /\ Len(file[h]) \in Nat
  BY DEF Passed, Successes, TypeInv, Types
<1>2. IsFiniteSet(1 .. Len(file[h]))
  BY <1>1, FS_Interval
<1> QED
  BY <1>1, <1>2, FS_Subset

(* Whether a record writes its product shows in the file as a whole.       *)
LEMMA WritesKnown ==
    ASSUME TypeInv, NEW h \in Handlers, AtRecord(h),
           NEW k \in Nat, k = index[h], SkuMatches(h, file[h][k].sku)
    PROVE  Writes(h, file[h][k]) <=> WritesOf(file[h], update[h], k)
<1> DEFINE f == file[h]
           s == f[k].sku
<1>1. DOMAIN f \subseteq Nat
  BY DEF TypeInv, Types
<1>2. StoredFor(h, s) = {n \in Reaching(f, 2) : f[n].sku = s /\ n < k}
  BY DEF StoredFor, Stage, Reaching
<1>3. StoredFor(h, s) = {} <=> \A n \in Reaching(f, 2) : f[n].sku = s => k <= n
  BY <1>1, <1>2 DEF Reaching
<1>4. (update[h] \/ Rows(s) = {})
          <=> (update[h] \/ (Old(s) = {} /\ StoredFor(h, s) = {}))
  BY DEF SkuMatches
<1> HIDE DEF f
<1> QED
  BY <1>3, <1>4 DEF Writes, WritesOf, f

(* A record that does not write its product stores none, however far it    *)
(* gets.                                                                   *)
LEMMA ReachWritten ==
    ASSUME NEW h \in Handlers, NEW r,
           StoreCategory(r, Reach(r, Writes(h, r))), StoreProduct(h, r, Reach(r, Writes(h, r)))
    PROVE  /\ StoreProduct(h, r, FullReach(r)) /\ StoreCategory(r, FullReach(r))
           /\ FullReach(r) \in 1 .. 3 /\ Reach(r, Writes(h, r)) \in 1 .. 3
           /\ Writes(h, r) => Reach(r, Writes(h, r)) = FullReach(r)
<1>1. Writes(h, r) \in BOOLEAN
  BY DEF Writes
<1>2. CASE Writes(h, r)
  <2>1. Writes(h, r) = TRUE
    BY <1>1, <1>2
  <2> QED
    BY <2>1 DEF Reach, FullReach
<1>3. CASE ~Writes(h, r)
  <2>1. Writes(h, r) = FALSE
    BY <1>1, <1>3
  <2>2. StoreProduct(h, r, FullReach(r))
    BY <1>3 DEF StoreProduct
  <2>3. /\ FullReach(r) \in 1 .. 3 /\ Reach(r, FALSE) \in 1 .. 3
        /\ StoreCategory(r, FullReach(r))
    BY <2>1 DEF Reach, FullReach, StoreCategory
  <2> QED
    BY <1>3, <2>1, <2>2, <2>3
<1> QED
  BY <1>2, <1>3

(* What the record at index adds to those that were stored to their end.   *)
LEMMA PassedGrows ==
    ASSUME TypeInv, NEW h \in Handlers, AtRecord(h), file' = file, update' = update,
           before' = before, index' = [index EXCEPT ![h] = @ + 1],
           NEW k \in Nat, k = index[h]
    PROVE  /\ k \in DOMAIN file[h]
           /\ \A n \in Passed(h) : n \in Nat /\ n < k
           /\ Passed(h)' = IF k \in Successes(file[h], update[h])
                           THEN Passed(h) \cup {k} ELSE Passed(h)
<1>1. /\ k \in DOMAIN file[h] /\ index'[h] = k + 1 /\ DOMAIN file[h] \subseteq Nat
  BY DEF AtRecord, TypeInv, Types
<1>2. \A t : Old(t)' = Old(t)
  BY DEF Old
<1>3. Successes(file[h], update[h])' = Successes(file[h], update[h])
  BY <1>2 DEF Successes, WritesOf
<1>4. Successes(file[h], update[h]) \subseteq DOMAIN file[h]
  BY DEF Successes
<1> QED
  BY <1>1, <1>3, <1>4 DEF Passed

LEMMA PassedRefused ==
    ASSUME TypeInv, NEW h \in Handlers, RefuseRecord(h)
    PROVE  Passed(h)' = Passed(h)
<1>1. /\ AtRecord(h) /\ Refused(file[h][index[h]])
      /\ UNCHANGED <<file, update, before>>
      /\ index' = [index EXCEPT ![h] = @ + 1]
  BY DEF RefuseRecord, parsed
<1>2. PICK k \in Nat : k = index[h]
  BY DEF TypeInv, Types
<1>3. k \notin Successes(file[h], update[h])
  BY <1>1, <1>2 DEF Successes
<1> QED
  BY <1>1, <1>2, <1>3, PassedGrows

LEMMA PassedProcessed ==
    ASSUME TypeInv, NEW h \in Handlers, ProcessRecord(h), NEW k \in Nat, k = index[h],
           SkuMatches(h, file[h][k].sku)
    PROVE  /\ k \in DOMAIN file[h]
           /\ \A n \in Passed(h) : n \in Nat /\ n < k
           /\ Passed(h)' = IF Reach(file[h][k], Writes(h, file[h][k])) = 3
                           THEN Passed(h) \cup {k} ELSE Passed(h)
<1> DEFINE r == file[h][k]
           R == Reach(r, Writes(h, r))
<1>1. /\ AtRecord(h) /\ ~Refused(r)
      /\ UNCHANGED <<file, update, before>>
      /\ index' = [index EXCEPT ![h] = @ + 1]
  BY DEF ProcessRecord, parsed
<1>2. /\ k \in DOMAIN file[h]
      /\ \A n \in Passed(h) : n \in Nat /\ n < k
      /\ Passed(h)' = IF k \in Successes(file[h], update[h])
                      THEN Passed(h) \cup {k} ELSE Passed(h)
  BY <1>1, PassedGrows
<1>3. Writes(h, r) = WritesOf(file[h], update[h], k)
  BY <1>1, <1>2, WritesKnown DEF Writes, WritesOf
<1>4. R = Reach(file[h][k], WritesOf(file[h], update[h], k))
  BY <1>3
<1>5. k \in Successes(file[h], update[h]) <=> R = 3
  BY <1>1, <1>2, <1>4 DEF Successes
<1> QED
  BY <1>2, <1>5

(* A sku whose records and row are as before.                              *)
LEMMA SameSku ==
    ASSUME NEW h \in Handlers, NEW s \in Skus, SkuMatches(h, s),
           StoredFor(h, s)' = StoredFor(h, s), Rows(s)' = Rows(s),
           \A i \in Rows(s) : product'[i] = product[i],
           file' = file, before' = before, update' = update, who' = who
    PROVE  SkuMatches(h, s)'
<1>1. Old(s)' = Old(s)
  BY DEF Old
<1>2. \A n : DecidesSoFar(h, s, n)' = DecidesSoFar(h, s, n)
  BY DEF DecidesSoFar
<1>3. \A n : Imported(h, file[h][n])' = Imported(h, file[h][n])
  BY DEF Imported
<1>4. CASE (update[h] \/ Old(s) = {}) /\ StoredFor(h, s) # {}
  <2>1. PICK n \in StoredFor(h, s), i \in Ids :
             /\ DecidesSoFar(h, s, n) /\ Rows(s) = {i} /\ Old(s) \subseteq {i}
             /\ product[i] = Imported(h, file[h][n])
    BY <1>4 DEF SkuMatches
  <2>2. /\ DecidesSoFar(h, s, n)' /\ Rows(s)' = {i} /\ Old(s)' \subseteq {i}
        /\ product'[i] = Imported(h, file[h][n])'
    BY <1>1, <1>2, <1>3, <2>1
  <2> QED
    BY <1>1, <1>4, <2>1, <2>2 DEF SkuMatches
<1>5. CASE ~((update[h] \/ Old(s) = {}) /\ StoredFor(h, s) # {})
  <2>1. Rows(s)' = Old(s)' /\ \A i \in Old(s)' : product'[i] = before'[1][i]
    BY <1>1, <1>5 DEF SkuMatches
  <2> QED
    BY <1>1, <1>5, <2>1 DEF SkuMatches
<1> QED
  BY <1>4, <1>5

LEMMA RecordMatch ==
    ASSUME TypeInv, RoomInv, UniqueInv, NEW h \in Handlers, ProcessRecord(h),
           NEW s \in Skus, SkuMatches(h, s), NEW k \in Nat, k = index[h]
    PROVE  SkuMatches(h, s)'
<1> DEFINE r == file[h][k]
           R == FullReach(r)
<1>1. /\ AtRecord(h) /\ pc[h] = "records" /\ ~Refused(r)
      /\ StoreProduct(h, r, R) /\ R \in 1 .. 3
      /\ file' = file /\ before' = before /\ update' = update /\ who' = who
      /\ index' = [index EXCEPT ![h] = @ + 1]
  BY ReachWritten DEF ProcessRecord, AtRecord, parsed
<1>2. /\ k \in Nat /\ k \in DOMAIN file[h]
      /\ \A n \in Stage(h, 2) : n \in Nat /\ n < k
      /\ Stage(h, 2)' = IF R >= 2 THEN Stage(h, 2) \cup {k} ELSE Stage(h, 2)
  <2>1. 2 \in 1 .. 3
    OBVIOUS
  <2> HIDE DEF R, r
  <2>2. /\ index[h] \in DOMAIN file[h]
        /\ \A n \in Stage(h, 2) : n \in Nat /\ n < index[h]
        /\ Stage(h, 2)' =
               IF ~Refused(file[h][index[h]]) /\ FullReach(file[h][index[h]]) >= 2
               THEN Stage(h, 2) \cup {index[h]} ELSE Stage(h, 2)
    BY <1>1, <2>1, StageGrows
  <2> QED
    BY <1>1, <2>2 DEF R, r
<1>3. StoredFor(h, s)' = IF R >= 2 /\ r.sku = s THEN StoredFor(h, s) \cup {k}
                         ELSE StoredFor(h, s)
  BY <1>1, <1>2 DEF StoredFor
<1>4. Old(s)' = Old(s) /\ Old(s) \subseteq Rows(s)
  BY <1>1 DEF Old, SkuMatches
<1> DEFINE Stores == R >= 2 /\ Writes(h, r)
<1>5. CASE ~Stores
  <2>1. product' = product /\ Rows(s)' = Rows(s)
    BY <1>1, <1>5 DEF StoreProduct, Rows
  <2>2. CASE StoredFor(h, s)' = StoredFor(h, s)
    BY <1>1, <2>1, <2>2, SameSku
  <2>3. CASE StoredFor(h, s)' # StoredFor(h, s)
    <3>1. /\ R >= 2 /\ r.sku = s /\ ~update[h] /\ Rows(s) # {}
          /\ StoredFor(h, s)' = StoredFor(h, s) \cup {k}
      BY <1>3, <1>5, <2>3 DEF Writes
    <3>2. CASE Old(s) # {}
      BY <1>1, <1>4, <2>1, <3>1, <3>2 DEF SkuMatches
    <3>3. CASE Old(s) = {}
      <4>1. StoredFor(h, s) # {}
        BY <3>1, <3>3 DEF SkuMatches
      <4>2. PICK n \in StoredFor(h, s), i \in Ids :
                 /\ DecidesSoFar(h, s, n) /\ Rows(s) = {i}
                 /\ product[i] = Imported(h, file[h][n])
        BY <3>3, <4>1 DEF SkuMatches
      <4>3. n <= k
        BY <1>2 DEF StoredFor
      <4>4. DecidesSoFar(h, s, n)'
        BY <1>1, <3>1, <4>2, <4>3 DEF DecidesSoFar
      <4>5. product'[i] = Imported(h, file[h][n])' /\ Rows(s)' = {i}
        BY <1>1, <2>1, <4>2 DEF Imported
      <4>6. n \in StoredFor(h, s)' /\ Old(s)' \subseteq {i}
        BY <1>4, <3>1, <3>3
      <4> QED
        BY <4>4, <4>5, <4>6, <1>4, <3>3 DEF SkuMatches
    <3> QED
      BY <3>2, <3>3
  <2> QED
    BY <2>2, <2>3
<1>6. CASE Stores
  <2>1. PICK j \in Ids :
             /\ \A i \in Ids : product'[i] = IF i = j THEN Imported(h, r) ELSE product[i]
             /\ Rows(r.sku) \subseteq {j}
             /\ IF s = r.sku THEN Rows(s)' = {j}
                ELSE Rows(s)' = Rows(s) /\ j \notin Rows(s)
    <3>1. product' = [product EXCEPT ![Slot(file[h][k].sku)] = Imported(h, file[h][k])]
      BY <1>1, <1>6 DEF StoreProduct
    <3> QED
      BY <1>1, <1>2, <3>1, StoredRow
  <2>2. CASE s # r.sku
    <3>1. \A i \in Rows(s) : product'[i] = product[i]
      BY <2>1, <2>2 DEF Rows
    <3> QED
      BY <1>1, <1>3, <2>1, <2>2, <3>1, SameSku
  <2>3. CASE s = r.sku
    <3>1. StoredFor(h, s)' = StoredFor(h, s) \cup {k}
      BY <1>3, <1>6, <2>3
    <3>2. DecidesSoFar(h, s, k)'
      <4>1. \A n \in StoredFor(h, s) : n \in Nat /\ n <= k
        BY <1>2 DEF StoredFor
      <4>2. CASE update[h]
        BY <1>1, <1>2, <3>1, <4>1, <4>2 DEF DecidesSoFar
      <4>3. CASE ~update[h]
        <5>1. Rows(s) = {} /\ Old(s) = {}
          BY <1>4, <1>6, <2>3, <4>3 DEF Writes
        <5>2. StoredFor(h, s) = {}
          BY <5>1 DEF SkuMatches
        <5> QED
          BY <1>1, <1>2, <3>1, <4>3, <5>2 DEF DecidesSoFar
      <4> QED
        BY <4>2, <4>3
    <3>3. /\ Rows(s)' = {j} /\ Old(s)' \subseteq {j}
          /\ product'[j] = Imported(h, file[h][k])'
      BY <1>1, <1>4, <2>1, <2>3 DEF Imported
    <3>4. update'[h] \/ Old(s)' = {}
      BY <1>1, <1>4, <1>6, <2>3 DEF Writes
    <3> QED
      BY <3>1, <3>2, <3>3, <3>4 DEF SkuMatches
  <2> QED
    BY <2>2, <2>3
<1> QED
  BY <1>5, <1>6

LEMMA NextMatch ==
    TypeInv /\ RoomInv /\ UniqueInv /\ CountInv /\ MatchInv /\ [Next]_vars
        => MatchInv'
<1> SUFFICES ASSUME TypeInv, RoomInv, UniqueInv, CountInv, MatchInv, [Next]_vars
             PROVE  MatchInv'
  OBVIOUS
(* Steps of others, and an import that ends. *)
<1>1. ASSUME UNCHANGED <<product, categories, file, update, index, success, before,
                         clean>>,
             \A h \in Handlers :
                 pc'[h] = "records" => pc[h] = "records" /\ who'[h] = who[h]
      PROVE  MatchInv'
  <2>1. ASSUME NEW h \in Handlers, pc'[h] = "records", NEW s \in Skus, SkuMatches(h, s)
        PROVE  SkuMatches(h, s)'
    BY <1>1, <2>1
       DEF SkuMatches, StoredFor, DecidesSoFar, Stage, Rows, Old, Imported
  <2>2. ASSUME NEW h \in Handlers
        PROVE  Stage(h, 1)' = Stage(h, 1) /\ Passed(h)' = Passed(h)
    BY <1>1 DEF Stage, Passed, Successes, WritesOf, Old
  <2> QED
    BY <1>1, <2>1, <2>2 DEF MatchInv
<1>2. ASSUME \A h \in Handlers : pc'[h] # "records" PROVE MatchInv'
  BY <1>2 DEF MatchInv
<1>3. ASSUME NEW h \in Handlers, Answer(h), UNCHANGED <<product, categories, before, clean>>
      PROVE  MatchInv'
  <2>1. ASSUME NEW g \in Handlers, g # h
        PROVE  /\ pc'[g] = pc[g] /\ who'[g] = who[g] /\ file'[g] = file[g]
               /\ update'[g] = update[g] /\ index'[g] = index[g]
               /\ success'[g] = success[g]
    BY <1>3, <2>1 DEF Answer, TypeInv, Types, CountInv
  <2>2. pc'[h] # "records"
    BY <1>3, AnswerTarget
  <2>3. ASSUME NEW g \in Handlers, g # h, NEW s \in Skus, SkuMatches(g, s)
        PROVE  SkuMatches(g, s)'
    BY <1>3, <2>1, <2>3
       DEF SkuMatches, StoredFor, DecidesSoFar, Stage, Rows, Old, Imported
  <2>4. ASSUME NEW g \in Handlers, g # h
        PROVE  Stage(g, 1)' = Stage(g, 1) /\ Passed(g)' = Passed(g)
    <3>1. \A t : Old(t)' = Old(t)
      BY <1>3 DEF Old
    <3>2. Successes(file[g], update[g])' = Successes(file[g], update[g])
      BY <2>1, <2>4, <3>1 DEF Successes, WritesOf
    <3> QED
      BY <2>1, <2>4, <3>2 DEF Stage, Passed
  <2> QED
    BY <1>3, <2>1, <2>2, <2>3, <2>4 DEF MatchInv
<1>4. writer = None => \A h \in Handlers : pc[h] # "records"
  BY ImportsAssumption DEF TypeInv, RequestShape
<1>5. ASSUME NEW h \in Handlers, Rollback(h), pc[h] = "records" PROVE MatchInv'
  <2>1. \A g \in Handlers : pc'[g] # "records"
    BY <1>5, AnswerTarget DEF Rollback, TypeInv, RequestShape
  <2> QED
    BY <1>2, <2>1
<1>6. ASSUME NEW h \in Handlers, Import(h) PROVE MatchInv'
  <2>1. ASSUME NEW u \in Suppliers, NEW f \in Files, NEW upd \in BOOLEAN,
               BeginImport(h, u, f, upd)
        PROVE  MatchInv'
    <3>1. /\ writer = None /\ pc[h] = "idle" /\ pc' = [pc EXCEPT ![h] = "records"]
          /\ before' = database /\ UNCHANGED <<product, categories, index, success>>
          /\ file' = [file EXCEPT ![h] = f] /\ update' = [update EXCEPT ![h] = upd]
          /\ who' = [who EXCEPT ![h] = u] /\ f \in Seq(Record)
      BY <2>1, ImportsAssumption DEF BeginImport, database
    <3>2. \A g \in Handlers : pc'[g] = "records" => g = h
      BY <1>4, <3>1 DEF TypeInv, Types
    <3>3. index'[h] = 1 /\ success'[h] = 0
      BY <3>1 DEF CountInv
    <3>4. \A stage : Stage(h, stage)' = {}
      BY <3>1, <3>3 DEF Stage, TypeInv, Types
    <3>5. \A s \in Skus : StoredFor(h, s)' = {} /\ Old(s)' = Rows(s)'
      BY <3>1, <3>4 DEF StoredFor, Old, Rows, database
    <3>6. before'[1] = product' /\ before'[3] = categories'
      BY <3>1 DEF database
    <3>7. \A s \in Skus : SkuMatches(h, s)'
      BY <3>5, <3>6 DEF SkuMatches
    <3>8. success'[h] = Cardinality(Passed(h)')
      <4>1. Passed(h)' = {}
        BY <3>1, <3>3 DEF Passed, Successes, TypeInv, Types
      <4> QED
        BY <3>3, <4>1, FS_EmptySet
    <3>9. categories' = before'[3] \cup {file[h][n].category : n \in Stage(h, 1)}'
      BY <3>4, <3>6
    <3> QED
      BY <3>2, <3>7, <3>8, <3>9 DEF MatchInv
  <2>2. \A g \in Handlers : pc[h] = "records" /\ pc[g] = "records" => g = h
    BY DEF TypeInv, RequestShape
  <2>3. CASE RefuseRecord(h)
    <3>1. /\ AtRecord(h) /\ pc[h] = "records" /\ Refused(file[h][index[h]])
          /\ UNCHANGED <<product, categories, who, file, update, success, before, pc,
                         clean>>
          /\ index' = [index EXCEPT ![h] = @ + 1]
      BY <2>3 DEF RefuseRecord, AtRecord, database, parsed
    <3>2. \A stage \in 1 .. 3 : Stage(h, stage)' = Stage(h, stage)
      BY <3>1, StageGrows
    <3>3. \A s \in Skus : StoredFor(h, s)' = StoredFor(h, s)
      BY <3>1, <3>2 DEF StoredFor
    <3>4. \A s \in Skus : SkuMatches(h, s) => SkuMatches(h, s)'
      BY <3>1, <3>3, SameSku DEF Rows
    <3>5. Passed(h)' = Passed(h)
      BY <2>3, PassedRefused
    <3>6. Stage(h, 1)' = Stage(h, 1)
      BY <3>2
    <3> QED
      BY <2>2, <3>1, <3>4, <3>5, <3>6 DEF MatchInv
  <2>4. CASE ProcessRecord(h)
    <3> DEFINE r == file[h][index[h]]
               R == Reach(r, Writes(h, r))
    <3>1. /\ AtRecord(h) /\ pc[h] = "records" /\ ~Refused(r)
          /\ StoreCategory(r, FullReach(r)) /\ FullReach(r) \in 1 .. 3
          /\ UNCHANGED <<who, file, update, before, pc, clean>>
          /\ index' = [index EXCEPT ![h] = @ + 1]
          /\ success' = IF R = 3 THEN [success EXCEPT ![h] = @ + 1] ELSE success
      BY <2>4, ReachWritten DEF ProcessRecord, AtRecord, parsed
    <3>2. PICK k \in Nat : k = index[h] /\ k \in DOMAIN file[h]
      BY <3>1, StageGrows
    <3>3. Stage(h, 1)' = Stage(h, 1) \cup {k}
      <4>1. 1 \in 1 .. 3
        OBVIOUS
      <4>2. Stage(h, 1)' =
                IF /\ ~Refused(file[h][index[h]])
                   /\ FullReach(file[h][index[h]]) >= 1
                THEN Stage(h, 1) \cup {index[h]} ELSE Stage(h, 1)
        BY <3>1, <4>1, StageGrows
      <4> QED
        BY <3>1, <3>2, <4>2
    <3>4. \A s \in Skus : SkuMatches(h, s) => SkuMatches(h, s)'
      BY <2>4, <3>2, RecordMatch
    <3>5. ASSUME success[h] = Cardinality(Passed(h)), SkuMatches(h, r.sku)
          PROVE  success'[h] = Cardinality(Passed(h)')
      <4>1. /\ \A n \in Passed(h) : n \in Nat /\ n < k
            /\ Passed(h)' = IF R = 3 THEN Passed(h) \cup {k} ELSE Passed(h)
        BY <2>4, <3>2, <3>5, PassedProcessed
      <4>2. IsFiniteSet(Passed(h)) /\ k \notin Passed(h)
        BY <4>1, PassedFinite
      <4> HIDE DEF R, r
      <4>4. CASE R = 3
        <5>1. success'[h] = success[h] + 1
          BY <3>1, <4>4 DEF CountInv
        <5> QED
          BY <3>5, <4>1, <4>2, <4>4, <5>1, FS_AddElement
      <4>5. CASE R # 3
        BY <3>1, <3>5, <4>1, <4>5
      <4> QED
        BY <4>4, <4>5
    <3>6. categories' = categories \cup {file[h][k].category}
      BY <3>1, <3>2 DEF StoreCategory
    <3>7. ASSUME categories = before[3] \cup {file[h][n].category : n \in Stage(h, 1)}
          PROVE  categories' = before'[3] \cup {file[h][n].category : n \in Stage(h, 1)}'
      BY <3>1, <3>3, <3>6, <3>7
    <3>8. r.sku \in Skus
      BY <3>1, RecordTyped DEF Record
    <3> HIDE DEF R, r
    <3> QED
      BY <2>2, <3>1, <3>4, <3>5, <3>7, <3>8 DEF MatchInv
  <2>5. CASE StatementFails(h)
    BY <2>2, <2>5 DEF StatementFails, MatchInv
  <2>6. CASE AbortImport(h)
    BY <1>5, <2>6 DEF AbortImport, AtRecord
  <2>7. CASE Commit(h)
    <3>1. \A g \in Handlers : pc'[g] # "records"
      BY <2>2, <2>7 DEF Commit, TypeInv, Types
    <3> QED
      BY <1>2, <3>1
  <2>8. CASE WriteLog(h)
    BY <1>3, <2>8 DEF WriteLog, database
  <2> QED
    BY <1>6, <2>1, <2>3, <2>4, <2>5, <2>6, <2>7, <2>8 DEF Import
<1>7. ASSUME NEW h \in Handlers, NEW i, NEW f, NEW step \in {"clear", "attribute"},
             Proceed(h, i, f, step), writer = None
      PROVE  MatchInv'
  BY <1>2, <1>4, <1>7, ProceedTarget
<1>8. ASSUME NEW h \in Handlers, Answer(h), writer = None PROVE MatchInv'
  BY <1>2, <1>4, <1>8, AnswerTarget
<1>9. ASSUME NEW h \in Handlers, NEW f \in Forms, CreateProduct(h, f) PROVE MatchInv'
  BY <1>7, <1>9 DEF CreateProduct
<1>10. ASSUME NEW h \in Handlers, NEW i \in Ids, NEW f,
              NEW step \in {"update", "delete"}, Load(h, i, f, step)
       PROVE  MatchInv'
  BY <1>1, <1>10 DEF Load, database, parsed, TypeInv, Types
<1>11. ASSUME NEW h \in Handlers, SaveProduct(h) PROVE MatchInv'
  BY <1>7, <1>8, <1>11 DEF SaveProduct
<1>12. ASSUME NEW h \in Handlers,
              ClearAttributes(h) \/ CreateAttribute(h) \/ DeleteProduct(h)
       PROVE  MatchInv'
  <2>1. CASE ClearAttributes(h)
    BY <1>2, <1>4, <2>1 DEF ClearAttributes, TypeInv, Types
  <2> QED
    BY <1>8, <1>12, <2>1 DEF CreateAttribute, DeleteProduct
<1>13. ASSUME NEW h \in Handlers, HandlerFails(h) PROVE MatchInv'
  BY <1>3, <1>5, <1>13 DEF HandlerFails, database
<1>14. ASSUME NEW i \in Ids, OrderProduct(i) PROVE MatchInv'
  BY <1>1, <1>14 DEF OrderProduct, database, parsed
<1>15. CASE UNCHANGED vars
  BY <1>1, <1>15 DEF vars
<1>16. ASSUME NEW h \in Handlers, NEW u \in Suppliers, GatherProducts(h, u)
       PROVE  MatchInv'
  <2>1. /\ UNCHANGED <<product, categories, file, update, index, success, before, clean>>
        /\ pc' = [pc EXCEPT ![h] = "withdraw"] /\ who' = [who EXCEPT ![h] = u]
    BY <1>16, GatherStep
  <2>2. \A g \in Handlers :
            pc'[g] = "records" => pc[g] = "records" /\ who'[g] = who[g]
    BY <2>1 DEF TypeInv, Types
  <2> QED
    BY <1>1, <2>1, <2>2
<1>17. ASSUME NEW h \in Handlers, WithdrawSupplier(h) PROVE MatchInv'
  BY <1>8, <1>17, WithdrawStep
<1>18. ASSUME NEW u \in Suppliers, RestoreSupplier(u) PROVE MatchInv'
  BY <1>1, <1>18, RestoreStep
<1> QED
  BY <1>6, <1>9, <1>10, <1>11, <1>12, <1>13, <1>14, <1>15, <1>16, <1>17, <1>18
     DEF Next, LoadForUpdate, LoadForDelete

(* An import that gets to its log has been through its file.               *)
LEMMA CommitsAtEnd ==
    ASSUME TypeInv, [Next]_vars, NEW h \in Handlers, Commits(h)
    PROVE  pc[h] = "records" /\ index[h] > Len(file[h])
<1>1. pc[h] = "records" /\ pc'[h] = "log"
  BY DEF Commits
<1>2. ASSUME NEW g \in Handlers, Answer(g) PROVE FALSE
  BY <1>1, <1>2, AnswerTarget
<1>3. ASSUME NEW g \in Handlers, Import(g) PROVE index[h] > Len(file[h])
  <2>1. CASE Commit(g)
    BY <1>1, <2>1 DEF Commit, TypeInv, Types
  <2>2. CASE \E u \in Suppliers, f \in Files, upd \in BOOLEAN : BeginImport(g, u, f, upd)
    BY <1>1, <2>2 DEF BeginImport, TypeInv, Types
  <2>3. CASE RefuseRecord(g) \/ ProcessRecord(g) \/ StatementFails(g)
    BY <1>1, <2>3, RecordStep
  <2>4. CASE AbortImport(g) \/ WriteLog(g)
    BY <1>2, <2>4 DEF AbortImport, Rollback, WriteLog
  <2> QED
    BY <1>3, <2>1, <2>2, <2>3, <2>4 DEF Import
<1>4. writer # None
  BY <1>1, ImportsAssumption DEF TypeInv, RequestShape
<1>5. ASSUME NEW g \in Handlers, NEW i, NEW f, NEW step \in {"update", "delete"},
             Load(g, i, f, step)
      PROVE  FALSE
  BY <1>1, <1>5 DEF Load, TypeInv, Types
<1>6. ASSUME NEW g \in Handlers, HandlerFails(g) PROVE FALSE
  BY <1>2, <1>6 DEF HandlerFails, Rollback
<1>7. ASSUME NEW i \in Ids, OrderProduct(i) PROVE FALSE
  BY <1>4, <1>7 DEF OrderProduct
<1>8. ASSUME NEW g \in Handlers,
             \/ SaveProduct(g) \/ ClearAttributes(g) \/ CreateAttribute(g)
             \/ DeleteProduct(g) \/ \E f \in Forms : CreateProduct(g, f)
      PROVE  FALSE
  BY <1>4, <1>8 DEF SaveProduct, ClearAttributes, CreateAttribute, DeleteProduct,
                    CreateProduct
<1>9. ~(UNCHANGED vars)
  BY <1>1 DEF vars
<1>10. ASSUME NEW g \in Handlers, NEW u \in Suppliers, GatherProducts(g, u) PROVE FALSE
  <2>1. pc' = [pc EXCEPT ![g] = "withdraw"]
    BY <1>10, GatherStep
  <2> QED
    BY <1>1, <2>1 DEF TypeInv, Types
<1>11. ASSUME NEW g \in Handlers, WithdrawSupplier(g) PROVE FALSE
  BY <1>2, <1>11, WithdrawStep
<1>12. ASSUME NEW u \in Suppliers, RestoreSupplier(u) PROVE FALSE
  BY <1>1, <1>12, RestoreStep
<1> QED
  BY <1>1, <1>3, <1>5, <1>6, <1>7, <1>8, <1>9, <1>10, <1>11, <1>12
     DEF Next, LoadForUpdate, LoadForDelete

LEMMA InitMatch == Init => RoomInv /\ UniqueInv /\ CountInv /\ MatchInv
<1> SUFFICES ASSUME Init PROVE RoomInv /\ UniqueInv /\ CountInv /\ MatchInv
  OBVIOUS
<1>1. UniqueInv
  BY ImportsAssumption DEF Init, Unread, UniqueInv, NoProduct
<1>2. MatchInv
  BY DEF Init, MatchInv
<1> QED
  BY <1>1, <1>2, InitBounds

(* Whoever reads the file as a whole knows what a commit has stored: with  *)
(* any number of records of one sku, categories shared or not, products of *)
(* other suppliers, and records that are refused or stored half way.       *)
THEOREM MatchCorrect == Spec => ImportMatchesFile
<1> DEFINE Inv == TypeInv /\ RoomInv /\ UniqueInv /\ CountInv /\ MatchInv
           ProductDecided(h, s) ==
               IF /\ update[h] \/ Old(s) = {}
                  /\ \E n \in DOMAIN file[h] : Decides(file[h], update[h], s, n)
               THEN \E n \in DOMAIN file[h], i \in Ids :
                        /\ Decides(file[h], update[h], s, n)
                        /\ Rows(s) = {i}
                        /\ Old(s) \subseteq {i}
                        /\ product[i] = Imported(h, file[h][n])
               ELSE /\ Rows(s) = Old(s)
                    /\ \A i \in Old(s) : product[i] = before[1][i]
           Matches(h) ==
               /\ \A s \in Skus : ProductDecided(h, s)
               /\ success[h] = Cardinality(Successes(file[h], update[h]))
               /\ categories = before[3] \cup
                      {file[h][n].category : n \in Reaching(file[h], 1)}
<1>1. ASSUME Inv, [Next]_vars, NEW h \in Handlers, Commits(h), clean
      PROVE  Matches(h)
  <2>1. pc[h] = "records" /\ index[h] > Len(file[h])
    BY <1>1, CommitsAtEnd
  <2>2. /\ \A j : Stage(h, j) = Reaching(file[h], j)
        /\ Passed(h) = Successes(file[h], update[h])
    BY <1>1, <2>1 DEF Stage, Reaching, Passed, Successes, TypeInv, Types
  <2>3. ASSUME NEW s \in Skus PROVE ProductDecided(h, s)
    <3>1. SkuMatches(h, s)
      BY <1>1, <2>1 DEF MatchInv
    <3>2. \A n : DecidesSoFar(h, s, n) <=> Decides(file[h], update[h], s, n)
      BY <2>2 DEF DecidesSoFar, Decides, StoredFor
    <3>3. \A n : DecidesSoFar(h, s, n) => n \in StoredFor(h, s) /\ n \in DOMAIN file[h]
      BY DEF DecidesSoFar, StoredFor, Stage
    <3>4. CASE (update[h] \/ Old(s) = {}) /\ StoredFor(h, s) # {}
      <4>1. PICK n \in StoredFor(h, s), i \in Ids :
                 /\ DecidesSoFar(h, s, n) /\ Rows(s) = {i} /\ Old(s) \subseteq {i}
                 /\ product[i] = Imported(h, file[h][n])
        BY <3>1, <3>4 DEF SkuMatches
      <4>2. n \in DOMAIN file[h] /\ Decides(file[h], update[h], s, n)
        BY <3>2, <3>3, <4>1
      <4> QED
        BY <3>4, <4>1, <4>2
    <3>5. CASE ~((update[h] \/ Old(s) = {}) /\ StoredFor(h, s) # {})
      BY <3>1, <3>2, <3>3, <3>5 DEF SkuMatches
    <3> QED
      BY <3>4, <3>5
  <2> QED
    BY <1>1, <2>1, <2>2, <2>3 DEF MatchInv
<1>2. Init => RoomInv /\ UniqueInv /\ CountInv /\ MatchInv
  BY InitMatch
<1>3. Spec => []Inv
  BY <1>2, InitTyped, NextTyped, NextRoom, NextUnique, NextCount, NextMatch, PTL
     DEF Spec
<1>4. Inv /\ [Next]_vars => \A h \in Handlers : Commits(h) /\ clean => Matches(h)
  BY <1>1
<1> QED
  BY <1>3, <1>4, PTL DEF Spec, ImportMatchesFile

-----------------------------------------------------------------------------
(* Sending a file again.                                                   *)

(* The records of h that have stored an attribute of sku s.                *)
Attributing(h, s) ==
    {n \in Passed(h) : file[h][n].sku = s /\ file[h][n].attributes = "good"}

AttributeMatches(h, i) ==
    IF Attributing(h, product[i].sku) = {} THEN attribute[i] = before[2][i]
    ELSE \E n \in Attributing(h, product[i].sku) :
             /\ \A k \in Attributing(h, product[i].sku) : k <= n
             /\ attribute[i] = file[h][n].value

(* The attributes, and the last key, are those of the records so far.      *)
AttributeInv ==
    \A h \in Handlers : pc[h] = "records" =>
        /\ clean => \A i \in Ids : AttributeMatches(h, i)
        /\ sequence # before[4] =>
               sequence \in Ids /\ product[sequence] # NoProduct

(* The tables t are as an import of file f leaves them, by records that    *)
(* are the last ones of their sku.                                         *)
ShowsProducts(t, u, f, upd) ==
    \A s \in Skus : (\E n \in Reaching(f, 2) : f[n].sku = s) =>
        \E i \in Ids :
            /\ t[1][i].sku = s
            /\ upd => \E n \in DOMAIN f :
                   /\ Decides(f, TRUE, s, n)
                   /\ t[1][i] = [sku |-> s, supplier |-> u,
                                 category |-> f[n].category, value |-> f[n].value]

ShowsAttributes(t, f) ==
    \A i \in Ids : LET good == {n \in Reaching(f, 3) :
                                   f[n].sku = t[1][i].sku /\ f[n].attributes = "good"}
                   IN  good # {} => \E n \in good : /\ \A k \in good : k <= n
                                                    /\ t[2][i] = f[n].value

ShowsCategories(t, f) == \A n \in Reaching(f, 1) : f[n].category \in t[3]

Shows(t, u, f, upd) ==
    ShowsProducts(t, u, f, upd) /\ ShowsAttributes(t, f) /\ ShowsCategories(t, f)

(* No record of f is refused by the table although its product is not to   *)
(* be written.                                                             *)
Storable(f, upd) == upd \/ \A n \in DOMAIN f : ~Unstorable(f[n])

LatestInv ==
    latest # NoImport /\ Storable(latest.file, latest.update) =>
        Shows(Committed, latest.who, latest.file, latest.update)

LEMMA StorableSuccesses ==
    ASSUME NEW f, NEW upd \in BOOLEAN, Storable(f, upd)
    PROVE  Successes(f, upd) = Reaching(f, 3)
<1>1. ASSUME NEW n \in DOMAIN f
      PROVE  Reach(f[n], WritesOf(f, upd, n)) = 3 <=> FullReach(f[n]) >= 3
  <2>1. WritesOf(f, upd, n) \/ ~Unstorable(f[n])
    BY <1>1 DEF Storable, WritesOf
  <2> QED
    BY <2>1 DEF Reach, FullReach
<1> QED
  BY <1>1 DEF Successes, Reaching

(* A row whose records and columns are as before.                          *)
LEMMA SameAttribute ==
    ASSUME NEW h \in Handlers, NEW i \in Ids, NEW t, AttributeMatches(h, i),
           product[i].sku = t, product'[i].sku = t, attribute'[i] = attribute[i],
           Attributing(h, t)' = Attributing(h, t),
           file' = file, before' = before
    PROVE  AttributeMatches(h, i)'
BY DEF AttributeMatches, Attributing

(* Nothing was stored for a sku that has no row.                           *)
LEMMA NoneStored ==
    ASSUME TypeInv, NEW h \in Handlers, NEW s \in Skus, SkuMatches(h, s), Rows(s) = {}
    PROVE  Attributing(h, s) = {}
<1> SUFFICES ASSUME NEW n \in Passed(h), file[h][n].sku = s PROVE FALSE
  BY DEF Attributing
<1>1. Old(s) = {} /\ StoredFor(h, s) = {}
  BY DEF SkuMatches
<1>2. /\ n \in DOMAIN file[h] /\ n < index[h] /\ ~Refused(file[h][n])
      /\ Reach(file[h][n], WritesOf(file[h], update[h], n)) = 3
  BY DEF Passed, Successes
<1>3. DOMAIN file[h] \subseteq Nat /\ index[h] \in Nat
  BY DEF TypeInv, Types
<1>4. ASSUME NEW k \in Reaching(file[h], 2), file[h][k].sku = s PROVE n <= k
  <2>1. k \in DOMAIN file[h] /\ ~(k < index[h])
    BY <1>1, <1>4 DEF Reaching, StoredFor, Stage
  <2> QED
    BY <1>2, <1>3, <2>1
<1>5. WritesOf(file[h], update[h], n) = TRUE
  BY <1>1, <1>4 DEF WritesOf
<1>6. FullReach(file[h][n]) = 3
  BY <1>2, <1>5 DEF FullReach
<1> QED
  BY <1>1, <1>2, <1>6 DEF StoredFor, Stage

LEMMA RecordAttribute ==
    ASSUME TypeInv, RoomInv, UniqueInv, NEW h \in Handlers, ProcessRecord(h),
           \A s \in Skus : SkuMatches(h, s),
           NEW i \in Ids, AttributeMatches(h, i), NEW k \in Nat, k = index[h]
    PROVE  AttributeMatches(h, i)'
<1> DEFINE r == file[h][k]
           R == Reach(r, Writes(h, r))
           q == Slot(r.sku)
<1>1. /\ AtRecord(h) /\ pc[h] = "records" /\ ~Refused(r)
      /\ StoreProduct(h, r, R) /\ StoreAttributes(r, R) /\ R \in 1 .. 3
      /\ file' = file /\ before' = before
      /\ index' = [index EXCEPT ![h] = @ + 1]
  BY ReachWritten DEF ProcessRecord, AtRecord, parsed
<1>2. /\ k \in DOMAIN file[h] /\ r \in Record /\ r.sku \in Skus
      /\ \A n \in Passed(h) : n \in Nat /\ n < k
      /\ Passed(h)' = IF R = 3 THEN Passed(h) \cup {k} ELSE Passed(h)
  <2>1. r \in Record /\ r.sku \in Skus
    BY <1>1, RecordTyped DEF Record
  <2>2. SkuMatches(h, file[h][k].sku)
    BY <2>1
  <2> QED
    BY <2>1, <2>2, PassedProcessed
<1> DEFINE adds == R = 3 /\ r.attributes = "good"
<1>3. \A t : Attributing(h, t)' = IF adds /\ r.sku = t THEN Attributing(h, t) \cup {k}
                                  ELSE Attributing(h, t)
  BY <1>1, <1>2 DEF Attributing
<1>4. /\ product \in [Ids -> Product \cup {NoProduct}] /\ NoProduct.sku \notin Skus
      /\ attribute \in [Ids -> Values \cup {None}]
  BY ImportsAssumption DEF TypeInv, Types, NoProduct
(* The row of the record, once it is stored. *)
<1>5. \/ /\ product' = product
         /\ R = 3 => Rows(r.sku) # {}
      \/ /\ q \in Ids /\ \A j \in Ids : j # q => product'[j] = product[j]
         /\ product'[q].sku = r.sku
         /\ product[q].sku = r.sku \/ Rows(r.sku) = {}
         /\ \A s \in Skus : s # r.sku => q \notin Rows(s)
  <2>1. CASE ~(R >= 2 /\ Writes(h, r))
    BY <1>1, <2>1 DEF StoreProduct, Writes
  <2>2. CASE R >= 2 /\ Writes(h, r)
    <3>1. product' = [product EXCEPT ![Slot(file[h][k].sku)] = Imported(h, file[h][k])]
      BY <1>1, <2>2 DEF StoreProduct
    <3>2. PICK j \in Ids :
              /\ j = Slot(r.sku)
              /\ \A m \in Ids : product'[m] = IF m = j THEN Imported(h, r) ELSE product[m]
              /\ Rows(r.sku) \subseteq {j}
              /\ \A s \in Skus : IF s = r.sku THEN Rows(s)' = {j}
                                 ELSE Rows(s)' = Rows(s) /\ j \notin Rows(s)
      <4>1. pc[h] = "records" /\ k \in DOMAIN file[h]
        BY <1>1, <1>2
      <4> QED
        BY <3>1, <4>1, StoredRow
    <3>3. product[j].sku = r.sku \/ Rows(r.sku) = {}
      BY <3>2, SlotOfRow DEF Rows
    <3> QED
      BY <3>2, <3>3 DEF Imported
  <2> QED
    BY <2>1, <2>2
<1>6. R = 3 => q \in Ids /\ product'[q].sku = r.sku
  BY <1>2, <1>5, SlotOfRow DEF Rows
<1>7. attribute' = IF adds THEN [attribute EXCEPT ![q] = r.value] ELSE attribute
  BY <1>1 DEF StoreAttributes
<1>8. PICK t : t = product'[i].sku
  OBVIOUS
<1>9. CASE adds /\ i = q
  <2>1. t = r.sku /\ attribute'[i] = r.value
    BY <1>4, <1>6, <1>7, <1>8, <1>9
  <2>2. Attributing(h, t)' = Attributing(h, t) \cup {k}
    BY <1>3, <1>9, <2>1
  <2>3. \A n \in Attributing(h, t)' : n <= k
    BY <1>2, <2>2 DEF Attributing
  <2> HIDE DEF adds, R, q
  <2>4. attribute'[i] = file'[h][k].value
    BY <1>1, <2>1
  <2>5. /\ k \in Attributing(h, product[i].sku)'
        /\ \A n \in Attributing(h, product[i].sku)' : n <= k
    BY <1>8, <2>2, <2>3 DEF Attributing
  <2> QED
    BY <2>4, <2>5 DEF AttributeMatches
<1>10. CASE ~(adds /\ i = q)
  <2>1. attribute'[i] = attribute[i]
    BY <1>4, <1>7, <1>10
  <2>2. CASE product'[i].sku = product[i].sku
    <3>1. ~(adds /\ r.sku = t)
      <4>1. SUFFICES ASSUME adds, r.sku = t PROVE FALSE
        OBVIOUS
      <4>2. product[i].sku = r.sku /\ i \in Rows(r.sku)
        BY <1>8, <2>2, <4>1 DEF Rows
      <4>3. q \in Rows(r.sku)
        BY <4>2, SlotOfRow
      <4>4. i = q
        BY <1>2, <4>2, <4>3 DEF Rows, UniqueInv
      <4> QED
        BY <1>10, <4>1, <4>4
    <3>2. Attributing(h, t)' = Attributing(h, t)
      BY <1>3, <3>1
    <3> HIDE DEF adds, R, q, r
    <3> QED
      BY <1>1, <1>8, <2>1, <2>2, <3>2, SameAttribute
  <2>3. CASE product'[i].sku # product[i].sku
    <3>1. /\ i = q /\ t = r.sku /\ Rows(r.sku) = {} /\ product[i].sku # r.sku
          /\ ~adds
      BY <1>5, <1>8, <1>10, <2>3
    <3>2. product[i].sku \notin Skus
      BY <1>5, <2>3, <3>1 DEF Rows
    <3>3. Attributing(h, product[i].sku) = {}
      <4>1. \A n \in DOMAIN file[h] : file[h][n].sku \in Skus
        <5>1. \A n \in DOMAIN file[h] : file[h][n] \in Record
          BY DEF TypeInv, Types
        <5> QED
          BY <5>1 DEF Record
      <4> QED
        BY <3>2, <4>1 DEF Attributing, Passed, Successes
    <3>4. attribute[i] = before[2][i]
      BY <3>3 DEF AttributeMatches
    <3>5. Attributing(h, t) = {}
      BY <1>2, <3>1, NoneStored
    <3>6. Attributing(h, t)' = {}
      BY <1>3, <3>1, <3>5
    <3> HIDE DEF adds, R, q, r
    <3>7. Attributing(h, product[i].sku)' = {}
      BY <1>8, <3>6 DEF Attributing
    <3>8. attribute'[i] = before'[2][i]
      BY <1>1, <2>1, <3>4
    <3> QED
      BY <3>7, <3>8 DEF AttributeMatches
  <2> QED
    BY <2>2, <2>3
<1> QED
  BY <1>9, <1>10

LEMMA RecordSequence ==
    ASSUME TypeInv, RoomInv, NEW h \in Handlers,
           RefuseRecord(h) \/ ProcessRecord(h) \/ StatementFails(h),
           sequence # before[4] => sequence \in Ids /\ product[sequence] # NoProduct
    PROVE  sequence' # before[4] => sequence' \in Ids /\ product'[sequence'] # NoProduct
<1>1. pc[h] = "records" /\ file' = file
  BY RecordStep DEF parsed
<1>2. CASE RefuseRecord(h)
  BY <1>2 DEF RefuseRecord, database
<1>3. CASE ProcessRecord(h) \/ StatementFails(h)
  <2>1. index[h] \in DOMAIN file[h]
    BY <1>3 DEF ProcessRecord, StatementFails, AtRecord, TypeInv, Types
  <2>2. \E reach \in 0 .. 3 : StoreProduct(h, file[h][index[h]], reach)
    BY <1>3 DEF ProcessRecord, StatementFails, Reach
  <2>3. PICK n \in DOMAIN file[h], reach \in 0 .. 3 : StoreProduct(h, file[h][n], reach)
    BY <2>1, <2>2
  <2> QED
    BY <1>1, <2>3, StoredSku
<1> QED
  BY <1>2, <1>3

LEMMA NextAttribute ==
    TypeInv /\ RoomInv /\ UniqueInv /\ CountInv /\ MatchInv /\ AttributeInv
        /\ [Next]_vars => AttributeInv'
<1> SUFFICES ASSUME TypeInv, RoomInv, UniqueInv, CountInv, MatchInv, AttributeInv,
                    [Next]_vars
             PROVE  AttributeInv'
  OBVIOUS
<1>1. ASSUME UNCHANGED <<database, before, clean>>,
             \A h \in Handlers : pc'[h] = "records" =>
                 /\ pc[h] = "records" /\ file'[h] = file[h]
                 /\ update'[h] = update[h] /\ index'[h] = index[h]
      PROVE  AttributeInv'
  <2>1. UNCHANGED <<product, attribute, sequence>>
    BY <1>1 DEF database
  <2>2. ASSUME NEW h \in Handlers, pc'[h] = "records", NEW i \in Ids,
               AttributeMatches(h, i)
        PROVE  AttributeMatches(h, i)'
    <3>1. \A t : Old(t)' = Old(t)
      BY <1>1 DEF Old
    <3>2. Successes(file[h], update[h])' = Successes(file[h], update[h])
      BY <1>1, <2>2, <3>1 DEF Successes, WritesOf
    <3>3. Passed(h)' = Passed(h)
      BY <1>1, <2>2, <3>2 DEF Passed
    <3> QED
      BY <1>1, <2>1, <2>2, <3>3 DEF AttributeMatches, Attributing
  <2> QED
    BY <1>1, <2>1, <2>2 DEF AttributeInv
<1>2. ASSUME \A h \in Handlers : pc'[h] # "records" PROVE AttributeInv'
  BY <1>2 DEF AttributeInv
<1>3. ASSUME NEW h \in Handlers, Answer(h), UNCHANGED <<database, before, clean>>
      PROVE  AttributeInv'
  <2>1. ASSUME NEW g \in Handlers, pc'[g] = "records"
        PROVE  /\ pc[g] = "records" /\ file'[g] = file[g]
               /\ update'[g] = update[g] /\ index'[g] = index[g]
    <3>1. g # h
      BY <1>3, <2>1, AnswerTarget
    <3> QED
      BY <1>3, <2>1, <3>1 DEF Answer, TypeInv, Types, CountInv
  <2> QED
    BY <1>1, <1>3, <2>1
<1>4. writer = None => \A h \in Handlers : pc[h] # "records"
  BY ImportsAssumption DEF TypeInv, RequestShape
<1>5. ASSUME NEW h \in Handlers, Rollback(h), pc[h] = "records" PROVE AttributeInv'
  <2>1. \A g \in Handlers : pc'[g] # "records"
    BY <1>5, AnswerTarget DEF Rollback, TypeInv, RequestShape
  <2> QED
    BY <1>2, <2>1
<1>6. ASSUME NEW h \in Handlers, Import(h) PROVE AttributeInv'
  <2>1. ASSUME NEW u \in Suppliers, NEW f \in Files, NEW upd \in BOOLEAN,
               BeginImport(h, u, f, upd)
        PROVE  AttributeInv'
    <3>1. /\ writer = None /\ pc[h] = "idle" /\ pc' = [pc EXCEPT ![h] = "records"]
          /\ before' = database /\ UNCHANGED <<product, attribute, sequence, index>>
          /\ file'[h] \in Seq(Record)
      BY <2>1, ImportsAssumption DEF BeginImport, database, TypeInv, Types
    <3>2. \A g \in Handlers : pc'[g] = "records" => g = h
      BY <1>4, <3>1 DEF TypeInv, Types
    <3>3. index'[h] = 1
      BY <3>1 DEF CountInv
    <3>4. \A t : Attributing(h, t)' = {}
      BY <3>1, <3>3 DEF Attributing, Passed, Successes
    <3>5. before'[2] = attribute' /\ before'[4] = sequence'
      BY <3>1 DEF database
    <3>6. \A i \in Ids : AttributeMatches(h, i)'
      BY <3>4, <3>5 DEF AttributeMatches
    <3> QED
      BY <3>2, <3>5, <3>6 DEF AttributeInv
  <2>2. CASE RefuseRecord(h) \/ ProcessRecord(h) \/ StatementFails(h)
    <3>1. /\ pc[h] = "records" /\ UNCHANGED <<pc, before, file>>
          /\ \A g \in Handlers : pc[g] = "records" => g = h
      BY <2>2, RecordStep DEF TypeInv, RequestShape, parsed
    <3>2. sequence' # before'[4] =>
              sequence' \in Ids /\ product'[sequence'] # NoProduct
      BY <2>2, <3>1, RecordSequence DEF AttributeInv
    <3>3. ASSUME clean', NEW i \in Ids PROVE AttributeMatches(h, i)'
      <4>1. CASE StatementFails(h)
        BY <3>3, <4>1 DEF StatementFails
      <4>2. CASE RefuseRecord(h)
        <5>1. /\ AtRecord(h) /\ Refused(file[h][index[h]])
              /\ UNCHANGED <<product, attribute, clean>>
              /\ index' = [index EXCEPT ![h] = @ + 1]
          BY <4>2 DEF RefuseRecord, database
        <5>2. Passed(h)' = Passed(h)
          BY <4>2, PassedRefused
        <5>3. PICK t : t = product[i].sku
          OBVIOUS
        <5>4. Attributing(h, t)' = Attributing(h, t)
          BY <3>1, <5>2 DEF Attributing
        <5> QED
          BY <3>1, <3>3, <5>1, <5>3, <5>4, SameAttribute DEF AttributeInv
      <4>3. CASE ProcessRecord(h)
        <5>1. clean /\ index[h] \in Nat
          BY <3>3, <4>3 DEF ProcessRecord, TypeInv, Types
        <5>2. PICK k \in Nat : k = index[h]
          BY <5>1
        <5> QED
          BY <3>1, <4>3, <5>1, <5>2, RecordAttribute DEF AttributeInv, MatchInv
      <4> QED
        BY <2>2, <4>1, <4>2, <4>3
    <3> QED
      BY <3>1, <3>2, <3>3 DEF AttributeInv
  <2>3. CASE AbortImport(h)
    BY <1>5, <2>3 DEF AbortImport, AtRecord
  <2>4. CASE Commit(h)
    <3>1. \A g \in Handlers : pc'[g] # "records"
      BY <2>4 DEF Commit, TypeInv, Types, RequestShape
    <3> QED
      BY <1>2, <3>1
  <2>5. CASE WriteLog(h)
    BY <1>3, <2>5 DEF WriteLog
  <2> QED
    BY <1>6, <2>1, <2>2, <2>3, <2>4, <2>5 DEF Import
<1>7. ASSUME NEW h \in Handlers, NEW i, NEW f, NEW step \in {"clear", "attribute"},
             Proceed(h, i, f, step), writer = None
      PROVE  AttributeInv'
  BY <1>2, <1>4, <1>7, ProceedTarget
<1>8. ASSUME NEW h \in Handlers, Answer(h), writer = None PROVE AttributeInv'
  BY <1>2, <1>4, <1>8, AnswerTarget
<1>9. ASSUME NEW h \in Handlers, NEW f \in Forms, CreateProduct(h, f)
      PROVE  AttributeInv'
  BY <1>7, <1>9 DEF CreateProduct
<1>10. ASSUME NEW h \in Handlers, NEW i \in Ids, NEW f,
              NEW step \in {"update", "delete"}, Load(h, i, f, step)
       PROVE  AttributeInv'
  BY <1>1, <1>10 DEF Load, parsed, TypeInv, Types
<1>11. ASSUME NEW h \in Handlers, SaveProduct(h) PROVE AttributeInv'
  BY <1>7, <1>8, <1>11 DEF SaveProduct
<1>12. ASSUME NEW h \in Handlers,
              ClearAttributes(h) \/ CreateAttribute(h) \/ DeleteProduct(h)
       PROVE  AttributeInv'
  <2>1. CASE ClearAttributes(h)
    BY <1>2, <1>4, <2>1 DEF ClearAttributes, TypeInv, Types
  <2> QED
    BY <1>8, <1>12, <2>1 DEF CreateAttribute, DeleteProduct
<1>13. ASSUME NEW h \in Handlers, HandlerFails(h) PROVE AttributeInv'
  BY <1>3, <1>5, <1>13 DEF HandlerFails
<1>14. ASSUME NEW i \in Ids, OrderProduct(i) PROVE AttributeInv'
  BY <1>1, <1>14 DEF OrderProduct, parsed
<1>15. CASE UNCHANGED vars
  BY <1>1, <1>15 DEF vars, database
<1>16. ASSUME NEW h \in Handlers, NEW u \in Suppliers, GatherProducts(h, u)
       PROVE  AttributeInv'
  <2>1. /\ UNCHANGED <<database, file, update, index, before, clean>>
        /\ pc' = [pc EXCEPT ![h] = "withdraw"]
    BY <1>16, GatherStep DEF database
  <2>2. \A g \in Handlers : pc'[g] = "records" => pc[g] = "records"
    BY <2>1 DEF TypeInv, Types
  <2> QED
    BY <1>1, <2>1, <2>2
<1>17. ASSUME NEW h \in Handlers, WithdrawSupplier(h) PROVE AttributeInv'
  BY <1>8, <1>17, WithdrawStep
<1>18. ASSUME NEW u \in Suppliers, RestoreSupplier(u) PROVE AttributeInv'
  BY <1>1, <1>18, RestoreStep DEF database
<1> QED
  BY <1>6, <1>9, <1>10, <1>11, <1>12, <1>13, <1>14, <1>15, <1>16, <1>17, <1>18
     DEF Next, LoadForUpdate, LoadForDelete

(* What an import that gets to its commit has stored.                      *)
LEMMA CommitShows ==
    ASSUME TypeInv, MatchInv, AttributeInv, NEW h \in Handlers, pc[h] = "records",
           clean, index[h] > Len(file[h]), update[h] \in BOOLEAN,
           Storable(file[h], update[h])
    PROVE  Shows(database, who[h], file[h], update[h])
<1> DEFINE f == file[h]
<1>1. (\A j : Stage(h, j) = Reaching(f, j)) /\ Passed(h) = Successes(f, update[h])
  BY DEF Stage, Reaching, Passed, Successes, TypeInv, Types
<1>2. database[1] = product /\ database[2] = attribute /\ database[3] = categories
  BY DEF database
<1>3. ASSUME NEW s \in Skus, \E n \in Reaching(f, 2) : f[n].sku = s
      PROVE  \E i \in Ids :
                 /\ product[i].sku = s
                 /\ update[h] => \E n \in DOMAIN f :
                        /\ Decides(f, TRUE, s, n)
                        /\ product[i] = [sku |-> s, supplier |-> who[h],
                                         category |-> f[n].category,
                                         value |-> f[n].value]
  <2>1. StoredFor(h, s) # {} /\ SkuMatches(h, s)
    BY <1>1, <1>3 DEF StoredFor, MatchInv
  <2>2. CASE update[h] \/ Old(s) = {}
    <3>1. PICK n \in StoredFor(h, s), i \in Ids :
               /\ DecidesSoFar(h, s, n) /\ Rows(s) = {i}
               /\ product[i] = Imported(h, f[n])
      BY <2>1, <2>2 DEF SkuMatches
    <3>2. product[i].sku = s
      BY <3>1 DEF Rows
    <3>3. n \in DOMAIN f /\ f[n].sku = s
      BY <3>1 DEF StoredFor, Stage
    <3>4. update[h] => Decides(f, TRUE, s, n)
      BY <1>1, <3>1 DEF DecidesSoFar, Decides, StoredFor
    <3>5. product[i] = [sku |-> s, supplier |-> who[h], category |-> f[n].category,
                        value |-> f[n].value]
      BY <3>1, <3>3 DEF Imported
    <3> QED
      BY <3>2, <3>3, <3>4, <3>5
  <2>3. CASE ~update[h] /\ Old(s) # {}
    BY <2>1, <2>3 DEF SkuMatches, Rows
  <2> QED
    BY <2>2, <2>3
<1>4. ShowsProducts(database, who[h], f, update[h])
  BY <1>2, <1>3 DEF ShowsProducts
<1>5. ShowsAttributes(database, f)
  <2>1. \A i \in Ids : AttributeMatches(h, i)
    BY DEF AttributeInv
  <2>2. \A t : Attributing(h, t) =
                   {n \in Reaching(f, 3) : f[n].sku = t /\ f[n].attributes = "good"}
    BY <1>1, StorableSuccesses DEF Attributing
  <2> QED
    BY <1>2, <2>1, <2>2 DEF AttributeMatches, ShowsAttributes
<1>6. ShowsCategories(database, f)
  BY <1>1, <1>2 DEF MatchInv, ShowsCategories
<1> QED
  BY <1>4, <1>5, <1>6 DEF Shows

(* What a step may do to the last import that nothing was written after.   *)
LEMMA LatestStep ==
    ASSUME TypeInv, [Next]_vars
    PROVE  \/ latest' = latest /\ Committed' = Committed
           \/ latest' = NoImport
           \/ \E h \in Handlers :
                  /\ Commit(h) /\ clean /\ Committed' = database
                  /\ latest' = [who |-> who[h], file |-> file[h], update |-> update[h]]
<1> DEFINE Goal == \/ latest' = latest /\ Committed' = Committed
                   \/ latest' = NoImport
                   \/ \E h \in Handlers :
                          /\ Commit(h) /\ clean /\ Committed' = database
                          /\ latest' = [who |-> who[h], file |-> file[h],
                                        update |-> update[h]]
<1>1. \A h \in Handlers : pc[h] = "records" => writer # None
  BY ImportsAssumption DEF TypeInv, RequestShape
<1>2. ASSUME NEW h \in Handlers, Rollback(h), pc[h] = "records" PROVE Goal
  <2>1. before = <<before[1], before[2], before[3], before[4]>>
    BY DEF TypeInv, Types, Tables
  <2> QED
    BY <1>1, <1>2, <2>1 DEF Rollback, Committed, database
<1>3. ASSUME UNCHANGED <<database, writer, before, latest>> PROVE Goal
  BY <1>3 DEF Committed
<1>4. ASSUME NEW h \in Handlers, Import(h) PROVE Goal
  <2>1. CASE \E u \in Suppliers, f \in Files, upd \in BOOLEAN : BeginImport(h, u, f, upd)
    BY <2>1, ImportsAssumption DEF BeginImport, Committed
  <2>2. CASE RefuseRecord(h) \/ ProcessRecord(h) \/ StatementFails(h)
    BY <1>1, <2>2, RecordStep DEF Committed
  <2>3. CASE AbortImport(h)
    BY <1>2, <2>3 DEF AbortImport, AtRecord
  <2>4. CASE Commit(h)
    BY <2>4 DEF Commit, Committed, database
  <2>5. CASE WriteLog(h)
    BY <1>3, <2>5 DEF WriteLog
  <2> QED
    BY <1>4, <2>1, <2>2, <2>3, <2>4, <2>5 DEF Import
<1>5. ASSUME NEW h \in Handlers,
             \/ SaveProduct(h) \/ ClearAttributes(h) \/ CreateAttribute(h)
             \/ DeleteProduct(h) \/ \E f \in Forms : CreateProduct(h, f)
      PROVE  Goal
  BY <1>3, <1>5 DEF SaveProduct, ClearAttributes, CreateAttribute, DeleteProduct,
                    CreateProduct, database
<1>6. ASSUME NEW h \in Handlers, NEW i \in Ids, NEW f, NEW step, Load(h, i, f, step)
      PROVE  Goal
  BY <1>3, <1>6 DEF Load
<1>7. ASSUME NEW h \in Handlers, HandlerFails(h) PROVE Goal
  BY <1>2, <1>3, <1>7 DEF HandlerFails
<1>8. ASSUME NEW i \in Ids, OrderProduct(i) PROVE Goal
  BY <1>3, <1>8 DEF OrderProduct
<1>9. CASE UNCHANGED vars
  BY <1>3, <1>9 DEF vars, database
<1>10. ASSUME NEW h \in Handlers, NEW u \in Suppliers, GatherProducts(h, u) PROVE Goal
  BY <1>3, <1>10, GatherStep DEF GatherProducts
<1>11. ASSUME NEW h \in Handlers, WithdrawSupplier(h) PROVE Goal
  <2>1. /\ UNCHANGED <<categories, sequence, writer, before>>
        /\ latest' = NoImport \/ UNCHANGED <<product, attribute, latest>>
    BY <1>11, WithdrawStep
  <2> QED
    BY <1>3, <2>1 DEF database
<1>12. ASSUME NEW u \in Suppliers, RestoreSupplier(u) PROVE Goal
  BY <1>3, <1>12 DEF RestoreSupplier
<1> QED
  BY <1>4, <1>5, <1>6, <1>7, <1>8, <1>9, <1>10, <1>11, <1>12
     DEF Next, LoadForUpdate, LoadForDelete

LEMMA NextLatest ==
    TypeInv /\ CountInv /\ MatchInv /\ AttributeInv /\ LatestInv /\ [Next]_vars => LatestInv'
<1> SUFFICES ASSUME TypeInv, CountInv, MatchInv, AttributeInv, LatestInv, [Next]_vars,
                    latest' # NoImport, Storable(latest'.file, latest'.update)
             PROVE  Shows(Committed', latest'.who, latest'.file, latest'.update)
  BY DEF LatestInv
<1>1. CASE latest' = latest /\ Committed' = Committed
  BY <1>1 DEF LatestInv
<1>2. ASSUME NEW h \in Handlers, Commit(h), clean, Committed' = database,
             latest' = [who |-> who[h], file |-> file[h], update |-> update[h]]
      PROVE  Shows(Committed', latest'.who, latest'.file, latest'.update)
  <2>1. /\ pc[h] = "records" /\ index[h] > Len(file[h]) /\ update[h] \in BOOLEAN
        /\ Storable(file[h], update[h])
    BY <1>2 DEF Commit, CountInv
  <2> QED
    BY <1>2, <2>1, CommitShows
<1> QED
  BY <1>1, <1>2, LatestStep

LEMMA Again ==
    ASSUME TypeInv, RoomInv, CountInv, MatchInv, AttributeInv, LatestInv,
           NEW h \in Handlers, pc[h] = "records", clean, index[h] > Len(file[h]),
           latest = [who |-> who[h], file |-> file[h], update |-> update[h]],
           Storable(file[h], update[h])
    PROVE  database = before
<1> DEFINE f == file[h]
<1>1. Shows(before, who[h], f, update[h])
  <2>1. writer # None /\ who[h] # None
    BY ImportsAssumption DEF TypeInv, Types, RequestShape
  <2>2. latest # NoImport
    BY <2>1 DEF NoImport
  <2> QED
    BY <2>1, <2>2 DEF LatestInv, Committed
<1>2. (\A j : Stage(h, j) = Reaching(f, j)) /\ Passed(h) = Reaching(f, 3)
  <2>1. (\A j : Stage(h, j) = Reaching(f, j)) /\ Passed(h) = Successes(f, update[h])
    BY DEF Stage, Reaching, Passed, Successes, TypeInv, Types
  <2>2. update[h] \in BOOLEAN
    BY DEF CountInv
  <2> QED
    BY <2>1, <2>2, StorableSuccesses
<1>3. /\ product \in [Ids -> Product \cup {NoProduct}]
      /\ before[1] \in [Ids -> Product \cup {NoProduct}]
      /\ attribute \in [Ids -> Values \cup {None}]
      /\ before[2] \in [Ids -> Values \cup {None}]
      /\ before = <<before[1], before[2], before[3], before[4]>>
      /\ None \notin Skus /\ NoProduct.sku = None
      /\ \A p \in Product : p.sku \in Skus
  BY ImportsAssumption DEF TypeInv, Types, Tables, NoProduct, Product
<1>4. \A s \in Skus : SkuMatches(h, s) /\ Old(s) \subseteq Rows(s)
  BY DEF MatchInv, SkuMatches
<1>5. ASSUME NEW i \in Ids PROVE product[i] = before[1][i]
  <2>1. CASE product[i] = NoProduct
    <3>1. \A s \in Skus : i \notin Old(s)
      BY <1>3, <1>4, <2>1 DEF Rows
    <3> QED
      BY <1>3, <2>1, <3>1 DEF Old
  <2>2. CASE product[i] # NoProduct
    <3>1. PICK s \in Skus : i \in Rows(s)
      BY <1>3, <2>2 DEF Rows
    <3>2. CASE (update[h] \/ Old(s) = {}) /\ StoredFor(h, s) # {}
      <4>1. PICK n \in StoredFor(h, s), j \in Ids :
                 /\ DecidesSoFar(h, s, n) /\ Rows(s) = {j} /\ Old(s) \subseteq {j}
                 /\ product[j] = Imported(h, f[n])
        BY <1>4, <3>2 DEF SkuMatches
      <4>2. i = j
        BY <3>1, <4>1
      <4>3. \E m \in Reaching(f, 2) : f[m].sku = s
        BY <1>2, <3>2 DEF StoredFor
      <4>4. PICK o \in Ids :
                /\ before[1][o].sku = s
                /\ update[h] => \E m \in DOMAIN f :
                       /\ Decides(f, TRUE, s, m)
                       /\ before[1][o] = [sku |-> s, supplier |-> who[h],
                                          category |-> f[m].category,
                                          value |-> f[m].value]
        BY <1>1, <4>3 DEF Shows, ShowsProducts
      <4>5. o = i /\ Old(s) # {}
        BY <4>1, <4>2, <4>4 DEF Old
      <4>6. PICK m \in DOMAIN f :
                /\ Decides(f, TRUE, s, m)
                /\ before[1][i] = [sku |-> s, supplier |-> who[h],
                                   category |-> f[m].category, value |-> f[m].value]
        BY <3>2, <4>4, <4>5
      <4>7. Decides(f, TRUE, s, n)
        BY <1>2, <3>2, <4>1, <4>5 DEF DecidesSoFar, Decides, StoredFor
      <4>8. n = m
        <5>1. m <= n /\ n <= m
          BY <4>6, <4>7 DEF Decides
        <5>2. n \in Nat /\ m \in Nat
          BY <4>1 DEF StoredFor, Stage, TypeInv, Types
        <5> QED
          BY <5>1, <5>2
      <4>9. f[n].sku = s
        BY <4>1 DEF StoredFor
      <4> QED
        BY <4>1, <4>2, <4>6, <4>8, <4>9 DEF Imported
    <3>3. CASE ~((update[h] \/ Old(s) = {}) /\ StoredFor(h, s) # {})
      BY <1>4, <3>1, <3>3 DEF SkuMatches
    <3> QED
      BY <3>2, <3>3
  <2> QED
    BY <2>1, <2>2
<1>6. product = before[1]
  BY <1>3, <1>5
<1>7. ASSUME NEW i \in Ids PROVE attribute[i] = before[2][i]
  <2>1. AttributeMatches(h, i)
    BY DEF AttributeInv
  <2>2. PICK t : t = product[i].sku
    OBVIOUS
  <2> DEFINE good == {n \in Reaching(f, 3) : f[n].sku = t /\ f[n].attributes = "good"}
  <2>3. Attributing(h, t) = good
    BY <1>2 DEF Attributing
  <2>4. CASE good = {}
    BY <2>1, <2>2, <2>3, <2>4 DEF AttributeMatches
  <2>5. CASE good # {}
    <3>1. PICK n \in good : (\A k \in good : k <= n) /\ attribute[i] = f[n].value
      BY <2>1, <2>2, <2>3, <2>5 DEF AttributeMatches
    <3>2. t = before[1][i].sku
      BY <1>6, <2>2
    <3>3. PICK m \in good : (\A k \in good : k <= m) /\ before[2][i] = f[m].value
      BY <1>1, <2>5, <3>2 DEF Shows, ShowsAttributes
    <3>4. n <= m /\ m <= n /\ n \in Nat /\ m \in Nat
      BY <3>1, <3>3 DEF Reaching, TypeInv, Types
    <3>5. n = m
      BY <3>4
    <3> QED
      BY <3>1, <3>3, <3>5
  <2> QED
    BY <2>4, <2>5
<1>8. attribute = before[2]
  BY <1>3, <1>7
<1>9. categories = before[3]
  <2>1. categories = before[3] \cup {f[n].category : n \in Stage(h, 1)}
    BY DEF MatchInv
  <2>2. \A n \in Stage(h, 1) : f[n].category \in before[3]
    BY <1>1, <1>2 DEF Shows, ShowsCategories
  <2> QED
    BY <2>1, <2>2
<1>10. sequence = before[4]
  <2>1. SUFFICES ASSUME sequence # before[4] PROVE FALSE
    OBVIOUS
  <2>2. sequence \in Ids /\ product[sequence] # NoProduct
    BY <2>1 DEF AttributeInv
  <2>3. before[4] < sequence
    <3>1. writer # None
      BY ImportsAssumption DEF TypeInv, RequestShape
    <3> QED
      BY <2>1, <3>1 DEF RoomInv, TypeInv, Types, Tables
  <2> QED
    BY <1>6, <2>2, <2>3 DEF RoomInv
<1> QED
  BY <1>3, <1>6, <1>8, <1>9, <1>10 DEF database

(* Sending the same file again changes nothing, whatever is in it and      *)
(* however requests that only read, or that fail, come in between: the     *)
(* tables an import leaves are known from its file, so a second import     *)
(* that starts from them ends in them.  Exempt is a file whose records the *)
(* table refuses, sent by somebody who does not update products.           *)
THEOREM IdempotentCorrect == Spec => ImportIsIdempotent
<1> DEFINE Inv == /\ TypeInv /\ RoomInv /\ UniqueInv /\ CountInv /\ MatchInv
                  /\ AttributeInv /\ LatestInv
<1>1. Init => Inv
  BY InitMatch, InitTyped DEF Init, AttributeInv, LatestInv
<1>2. Inv /\ [Next]_vars => Inv'
  BY NextTyped, NextRoom, NextUnique, NextCount, NextMatch, NextAttribute, NextLatest
<1>3. Inv /\ [Next]_vars =>
          \A h \in Handlers :
              (/\ Commits(h) /\ clean
               /\ update[h] \/ \A n \in DOMAIN file[h] : ~Unstorable(file[h][n])
               /\ latest = [who |-> who[h], file |-> file[h], update |-> update[h]])
                  => database = before
  BY CommitsAtEnd, Again DEF Storable
<1> QED
  BY <1>1, <1>2, <1>3, PTL DEF Spec, ImportIsIdempotent

-----------------------------------------------------------------------------
(* When the two hazards are away: no record that raises an error, no       *)
(* request about a product while another one holds a copy of it.           *)

(* An import that is not committed has met such a record, or has failed.   *)
LEMMA AbortCause ==
    ASSUME TypeInv, [Next]_vars, "fail" \notin Ops, NEW h \in Handlers,
           pc[h] = "records", pc'[h] = "idle"
    PROVE  index[h] \in DOMAIN file[h] /\ Raises(file[h][index[h]])
<1>1. writer = h /\ h # None
  BY ImportsAssumption DEF TypeInv, RequestShape
<1>2. ASSUME NEW g \in Handlers, Import(g) PROVE AbortImport(h)
  <2>1. ~WriteLog(g)
    BY <1>1 DEF WriteLog
  <2>2. CASE \E u \in Suppliers, f \in Files, upd \in BOOLEAN : BeginImport(g, u, f, upd)
    BY <1>1, <2>2 DEF BeginImport
  <2>3. CASE RefuseRecord(g) \/ ProcessRecord(g) \/ StatementFails(g)
    BY <2>3, RecordStep
  <2>4. CASE AbortImport(g)
    BY <1>1, <2>4 DEF AbortImport, AtRecord, TypeInv, RequestShape
  <2>5. CASE Commit(g)
    BY <2>5 DEF Commit, TypeInv, Types
  <2> QED
    BY <1>2, <2>1, <2>2, <2>3, <2>4, <2>5 DEF Import
<1>3. ASSUME NEW g \in Handlers, NEW i \in Ids, NEW f, NEW step, Load(g, i, f, step)
      PROVE  FALSE
  BY <1>3 DEF Load, TypeInv, Types
<1>4. \A i \in Ids : ~OrderProduct(i)
  BY <1>1 DEF OrderProduct
<1>5. \A g \in Handlers :
          /\ ~SaveProduct(g) /\ ~ClearAttributes(g) /\ ~CreateAttribute(g)
          /\ ~DeleteProduct(g) /\ \A f \in Forms : ~CreateProduct(g, f)
  BY <1>1 DEF SaveProduct, ClearAttributes, CreateAttribute, DeleteProduct,
              CreateProduct
<1>6. ~(UNCHANGED vars)
  BY DEF vars
<1>7. ASSUME NEW g \in Handlers, NEW u \in Suppliers, GatherProducts(g, u) PROVE FALSE
  <2>1. pc' = [pc EXCEPT ![g] = "withdraw"]
    BY <1>7, GatherStep
  <2> QED
    BY <2>1 DEF TypeInv, Types
<1>8. /\ \A g \in Handlers : ~WithdrawSupplier(g)
      /\ \A u \in Suppliers : ~RestoreSupplier(u)
  BY <1>1 DEF WithdrawSupplier, RestoreSupplier
<1>9. AbortImport(h)
  BY <1>2, <1>3, <1>4, <1>5, <1>6, <1>7, <1>8
     DEF Next, LoadForUpdate, LoadForDelete, HandlerFails
<1> QED
  BY <1>9 DEF AbortImport, AtRecord, TypeInv, Types

(* Of the records an import meets, those that are numbers, whose price     *)
(* or cost price is no number, or whose stock is infinite are the only     *)
(* ones that abort it: a supplier whose files have none of them gets every *)
(* import committed and logged, whatever else is wrong with the records.   *)
THEOREM ReadableFilesCorrect ==
    ASSUME "fail" \notin Ops,
           \A f \in Files : \A n \in DOMAIN f : ~Raises(f[n])
    PROVE  Spec => BadPriceFailsItsRecord
<1>1. TypeInv /\ TypeOK /\ [Next]_vars =>
          \A h \in Handlers : pc[h] = "records" => pc'[h] # "idle"
  <2> SUFFICES ASSUME TypeInv, TypeOK, [Next]_vars, NEW h \in Handlers,
                      pc[h] = "records", pc'[h] = "idle"
               PROVE  FALSE
    OBVIOUS
  <2>1. index[h] \in DOMAIN file[h] /\ Raises(file[h][index[h]])
    BY AbortCause
  <2>2. file[h] \in Files \cup {<<>>}
    BY DEF TypeOK
  <2> QED
    BY <2>1, <2>2
<1>2. Spec => []TypeInv
  BY InitTyped, NextTyped, PTL DEF Spec
<1> QED
  BY <1>1, <1>2, TypeCorrect, PTL DEF Spec, BadPriceFailsItsRecord

(* While a request holds a copy of a product no other request is about the *)
(* product, no deletion of a supplier has gathered it, and no open import  *)
(* has written it.                                                         *)
OneRequestPerProduct ==
    \A g, h \in Handlers :
        pc[g] = "update" =>
            /\ g # h => target[g] # target[h] /\ target[g] \notin gathered[h]
            /\ pc[h] = "records" => product[target[g]] = before[1][target[g]]

Uncontested == \A i \in Ids : serial[i] # Contested

(* What a request makes of a product is a product. *)
LEMMA RewrittenUncontested ==
    ASSUME SerialInv, Uncontested, NEW h \in Handlers, NEW i \in Ids,
           NEW r \in Product \cup {NoProduct}, Rewritten(h, i, r), ~Held(h, i)
    PROVE  Uncontested'
<1>1. r # Contested
  BY ImportsAssumption DEF Product, NoProduct, Contested
<1> QED
  BY <1>1 DEF Rewritten, Uncontested, SerialInv

LEMMA NextUncontested ==
    TypeInv /\ RoomInv /\ SerialInv /\ Uncontested /\ OneRequestPerProduct /\ [Next]_vars
        => Uncontested'
<1> SUFFICES ASSUME TypeInv, RoomInv, SerialInv, Uncontested, OneRequestPerProduct,
                    [Next]_vars
             PROVE  Uncontested'
  OBVIOUS
<1>1. CASE UNCHANGED serial
  BY <1>1 DEF Uncontested
<1>2. ASSUME NEW h \in Handlers, Commit(h) PROVE Uncontested'
  <2> SUFFICES ASSUME NEW i \in Ids PROVE serial'[i] # Contested
    BY DEF Uncontested
  <2>1. /\ pc[h] = "records"
        /\ serial'[i] = IF product[i] = before[1][i] THEN serial[i]
                        ELSE IF Held(h, i) THEN Contested ELSE product[i]
    BY <1>2 DEF Commit
  <2>2. Held(h, i) => product[i] = before[1][i]
    BY <2>1 DEF Held, OneRequestPerProduct
  <2>3. product[i] # Contested
    <3>1. NoProduct # Contested /\ Contested \notin Product
      BY ImportsAssumption DEF Product, NoProduct, Contested
    <3>2. product[i] \in Product \cup {NoProduct}
      BY DEF TypeInv, Types
    <3> QED
      BY <3>1, <3>2
  <2> QED
    BY <2>1, <2>2, <2>3 DEF Uncontested
<1>3. ASSUME NEW h \in Handlers, NEW f \in Forms, CreateProduct(h, f)
      PROVE  Uncontested'
  <2> DEFINE r == Apply(NoProduct, f)
             i == sequence + 1
  <2>1. r \in Product /\ i \in Ids /\ writer = None /\ Rewritten(h, i, r)
    BY <1>3, ImportsAssumption, NewProductTyped
       DEF CreateProduct, TypeInv, Types, Ids
  <2>2. \A g \in Handlers : target[g] # i
    <3>1. ASSUME NEW g \in Handlers PROVE target[g] <= sequence /\ target[g] \in Nat
      BY <2>1 DEF RoomInv, Given, TypeInv, Types, Ids
    <3> QED
      BY <3>1 DEF TypeInv, Types
  <2> HIDE DEF r, i
  <2>3. ~Held(h, i)
    BY <2>2 DEF Held
  <2> QED
    BY <2>1, <2>3, RewrittenUncontested
<1>4. ASSUME NEW h \in Handlers, pc[h] \in {"update", "delete"}
      PROVE  target[h] \in Ids /\ ~Held(h, target[h])
  BY <1>4 DEF Held, OneRequestPerProduct, TypeInv, RequestShape
<1>5. ASSUME NEW h \in Handlers, SaveProduct(h) PROVE Uncontested'
  <2>1. target[h] \in Ids /\ ~Held(h, target[h])
    BY <1>4, <1>5 DEF SaveProduct
  <2>2. pc[h] = "update" /\ serial[target[h]] = copy[h]
    BY <1>5, <2>1 DEF SaveProduct, SerialInv, Uncontested
  <2>3. Apply(serial[target[h]], form[h]) \in Product
    BY <2>2, AppliedProduct DEF TypeInv, Types, RequestShape
  <2>4. \/ Rewritten(h, target[h], Apply(serial[target[h]], form[h]))
        \/ UNCHANGED serial
    BY <1>5 DEF SaveProduct
  <2> QED
    BY <1>1, <2>1, <2>3, <2>4, RewrittenUncontested
<1>6. ASSUME NEW h \in Handlers, DeleteProduct(h) PROVE Uncontested'
  <2>1. target[h] \in Ids /\ ~Held(h, target[h])
    BY <1>4, <1>6 DEF DeleteProduct
  <2>2. Rewritten(h, target[h], NoProduct) \/ UNCHANGED serial
    BY <1>6 DEF DeleteProduct
  <2> QED
    BY <1>1, <2>1, <2>2, RewrittenUncontested
<1>7. ASSUME NEW h \in Handlers, Import(h), ~Commit(h) PROVE UNCHANGED serial
  BY <1>7 DEF Import, BeginImport, RefuseRecord, ProcessRecord, StatementFails,
              AbortImport, Rollback, WriteLog
<1>8. ASSUME NEW h \in Handlers, NEW i \in Ids, NEW f, NEW step, Load(h, i, f, step)
      PROVE  UNCHANGED serial
  BY <1>8 DEF Load
<1>9. ASSUME NEW h \in Handlers, ClearAttributes(h) \/ CreateAttribute(h) \/ HandlerFails(h)
      PROVE  UNCHANGED serial
  BY <1>9 DEF ClearAttributes, CreateAttribute, HandlerFails, Rollback
<1>10. ASSUME NEW i \in Ids, OrderProduct(i) PROVE UNCHANGED serial
  BY <1>10 DEF OrderProduct
<1>11. CASE UNCHANGED vars
  BY <1>1, <1>11 DEF vars
<1>12. ASSUME NEW h \in Handlers, NEW u \in Suppliers, GatherProducts(h, u)
       PROVE  UNCHANGED serial
  BY <1>12 DEF GatherProducts
<1>13. ASSUME NEW h \in Handlers, WithdrawSupplier(h) PROVE Uncontested'
  <2> SUFFICES ASSUME NEW i \in Ids,
                      serial' = [j \in Ids |->
                                     IF j \notin gathered[h] THEN serial[j]
                                     ELSE IF Held(h, j) \/ serial[j] = Contested
                                     THEN Contested ELSE NoProduct]
               PROVE  serial'[i] # Contested
    BY <1>1, <1>13 DEF WithdrawSupplier, Uncontested
  <2>1. i \in gathered[h] => ~Held(h, i)
    BY DEF Held, OneRequestPerProduct
  <2>2. NoProduct # Contested
    BY ImportsAssumption DEF NoProduct, Contested
  <2> QED
    BY <2>1, <2>2 DEF Uncontested
<1>14. ASSUME NEW u \in Suppliers, RestoreSupplier(u) PROVE UNCHANGED serial
  BY <1>14, RestoreStep
<1> QED
  BY <1>1, <1>2, <1>3, <1>5, <1>6, <1>7, <1>8, <1>9, <1>10, <1>11, <1>12, <1>13, <1>14
     DEF Next, LoadForUpdate, LoadForDelete

(* Where that is so, the catalogue is serial without exception: outside of *)
(* an import every product is what the imports and requests about it have  *)
(* made of it one after another, no field is lost, and no deleted product  *)
(* comes back.                                                             *)
THEOREM LoneRequestSerial ==
    Spec /\ []OneRequestPerProduct => [](writer = None => product = serial)
<1> DEFINE Inv == TypeInv /\ RoomInv /\ SerialInv /\ Uncontested
<1>1. Init => Inv
  <2>1. Init => SerialInv
    BY DEF Init, SerialInv, Seen
  <2>2. Init => Uncontested
    BY ImportsAssumption DEF Init, Uncontested, NoProduct, Contested
  <2> QED
    BY <2>1, <2>2, InitTyped, InitBounds
<1>2. Inv /\ OneRequestPerProduct /\ [Next]_vars => Inv'
  BY NextTyped, NextRoom, NextSerial, NextUncontested
<1>3. Inv => (writer = None => product = serial)
  <2> SUFFICES ASSUME Inv, writer = None PROVE product = serial
    OBVIOUS
  <2>1. \A i \in Ids : product[i] = serial[i]
    BY DEF SerialInv, Uncontested, Seen
  <2>2. product \in [Ids -> Product \cup {NoProduct}]
    BY DEF TypeInv, Types
  <2>3. serial \in [Ids -> Product \cup {NoProduct, Contested}]
    BY DEF SerialInv
  <2> QED
    BY <2>1, <2>2, <2>3
<1> HIDE DEF Inv
<1> QED
  BY <1>1, <1>2, <1>3, PTL DEF Spec

-----------------------------------------------------------------------------
(* Imports implements Catalogue.                                           *)

(* What an open import by u, which began with product p under key i, has   *)
(* made of it.                                                             *)
StoredBy(u, i, p, r) ==
    /\ r \in Product
    /\ r.supplier = u
    /\ IF p = NoProduct THEN i > before[4] ELSE r.sku = p.sku

(* How far an open import has come from the tables it began with.          *)
ProgressInv ==
    writer # None =>
        /\ before[3] \subseteq categories
        /\ \A i \in Ids : before[4] < i /\ i <= sequence => product[i] # NoProduct
        /\ \A i \in Ids :
               product[i] # before[1][i] =>
                   StoredBy(who[writer], i, before[1][i], product[i])
        /\ \A i \in Ids : attribute[i] # before[2][i] => attribute[i] # None

(* The categories of products are there, also after a rollback, and so are *)
(* those an update is going to store: it has not seen any that may go.     *)
CategoryInv ==
    /\ \A i \in Ids : product[i] # NoProduct => product[i].category \in categories
    /\ writer # None =>
           \A i \in Ids :
               before[1][i] # NoProduct => before[1][i].category \in before[3]
    /\ \A h \in Handlers :
           pc[h] = "update" => /\ copy[h].category \in SeenCategories
                               /\ form[h].category \in SeenCategories \cup {Keep}

(* What a record does to the tables, whether it is stored to its end.      *)
LEMMA RecordEffect ==
    ASSUME TypeInv, NEW h \in Handlers,
           RefuseRecord(h) \/ ProcessRecord(h) \/ StatementFails(h)
    PROVE  /\ categories \subseteq categories'
           /\ \A i \in Ids : attribute'[i] = attribute[i] \/ attribute'[i] # None
           /\ \/ UNCHANGED <<product, sequence>>
              \/ \E n \in DOMAIN file[h] :
                     /\ product' = [product EXCEPT ![Slot(file[h][n].sku)] =
                                        Imported(h, file[h][n])]
                     /\ sequence' = IF Rows(file[h][n].sku) = {} THEN sequence + 1
                                    ELSE sequence
                     /\ file[h][n].category \in categories'
<1>1. CASE RefuseRecord(h)
  BY <1>1 DEF RefuseRecord, database
<1>2. CASE ProcessRecord(h) \/ StatementFails(h)
  <2> DEFINE n == index[h]
             r == file[h][n]
  <2>1. PICK reach \in 0 .. 3 : /\ StoreCategory(r, reach)
                                /\ StoreProduct(h, r, reach)
                                /\ StoreAttributes(r, reach)
    BY <1>2, ReachWritten DEF ProcessRecord, StatementFails
  <2>2. n \in DOMAIN file[h] /\ r \in Record
    BY <1>2, RecordTyped DEF ProcessRecord, StatementFails, AtRecord, TypeInv, Types
  <2>3. categories \subseteq categories' /\ (reach >= 2 => r.category \in categories')
    BY <2>1 DEF StoreCategory
  <2>4. ASSUME NEW i \in Ids PROVE attribute'[i] = attribute[i] \/ attribute'[i] # None
    <3>1. r.value # None
      BY <2>2, ImportsAssumption DEF Record
    <3> QED
      BY <2>1, <3>1 DEF StoreAttributes, TypeInv, Types
  <2> QED
    BY <2>1, <2>2, <2>3, <2>4 DEF StoreProduct
<1> QED
  BY <1>1, <1>2

(* A product that a record has stored is stored by the import.             *)
LEMMA RecordStored ==
    ASSUME TypeInv, RoomInv, UniqueInv, ProgressInv, NEW h \in Handlers,
           pc[h] = "records", NEW n \in DOMAIN file[h], UNCHANGED before,
           product' = [product EXCEPT ![Slot(file[h][n].sku)] = Imported(h, file[h][n])],
           sequence' = IF Rows(file[h][n].sku) = {} THEN sequence + 1 ELSE sequence
    PROVE  /\ \A i \in Ids : before[4] < i /\ i <= sequence' => product'[i] # NoProduct
           /\ \A i \in Ids :
                  product'[i] # before[1][i] =>
                      StoredBy(who[h], i, before[1][i], product'[i])
           /\ \A i \in Ids : product'[i] = product[i]
                             \/ product'[i].category = file[h][n].category
<1> DEFINE r == file[h][n]
           new == Imported(h, r)
<1>1. /\ r \in Record /\ new \in Product /\ new # NoProduct
      /\ new.sku = r.sku /\ new.supplier = who[h] /\ new.category = r.category
      /\ r.sku \in Skus
  <2>1. r \in Record
    BY DEF TypeInv, Types
  <2> QED
    BY <2>1, ImportedTyped, ImportsAssumption DEF Imported, Record, Product, NoProduct
<1>2. /\ writer = h /\ writer # None /\ sequence \in Nat /\ before[4] \in Nat
      /\ before[4] <= sequence
  BY ImportsAssumption DEF TypeInv, Types, Tables, RequestShape, RoomInv
<1>3. PICK k \in Ids : /\ k = Slot(r.sku)
                       /\ \A i \in Ids : product'[i] = IF i = k THEN new ELSE product[i]
                       /\ Rows(r.sku) \subseteq {k}
  BY StoredRow
<1>4. StoredBy(who[h], k, before[1][k], new)
  <2>1. CASE Rows(r.sku) = {}
    <3>1. k = sequence + 1 /\ k > before[4]
      BY <1>2, <1>3, <2>1 DEF Slot
    <3> QED
      BY <1>1, <3>1 DEF StoredBy, RoomInv
  <2>2. CASE Rows(r.sku) # {}
    <3>1. product[k].sku = r.sku
      BY <1>3, <2>2, SlotOfRow DEF Rows
    <3>2. NoProduct.sku \notin Skus
      BY ImportsAssumption DEF NoProduct
    <3> QED
      BY <1>1, <1>2, <3>1, <3>2 DEF StoredBy, ProgressInv
  <2> QED
    BY <2>1, <2>2
<1>5. ASSUME NEW i \in Ids, before[4] < i, i <= sequence'
      PROVE  product'[i] # NoProduct
  <2>1. CASE i = k
    BY <1>1, <1>3, <2>1
  <2>2. CASE i # k
    <3>1. i <= sequence
      <4>1. Rows(r.sku) = {} => k = sequence + 1
        BY <1>3 DEF Slot
      <4> QED
        BY <1>2, <1>5, <2>2, <4>1 DEF Ids
    <3> QED
      BY <1>2, <1>3, <1>5, <2>2, <3>1 DEF ProgressInv
  <2> QED
    BY <2>1, <2>2
<1>6. ASSUME NEW i \in Ids, product'[i] # before[1][i]
      PROVE  StoredBy(who[h], i, before[1][i], product'[i])
  BY <1>2, <1>3, <1>4, <1>6 DEF ProgressInv
<1> HIDE DEF new
<1> QED
  BY <1>1, <1>3, <1>5, <1>6

LEMMA RecordProgress ==
    ASSUME TypeInv, RoomInv, UniqueInv, ProgressInv, CategoryInv, NEW h \in Handlers,
           RefuseRecord(h) \/ ProcessRecord(h) \/ StatementFails(h)
    PROVE  ProgressInv' /\ CategoryInv'
<1>1. /\ pc[h] = "records"
      /\ UNCHANGED <<writer, pc, who, before, copy, form>>
      /\ writer = h /\ writer # None
  BY RecordStep, ImportsAssumption DEF parsed, single, TypeInv, RequestShape
<1>2. /\ categories \subseteq categories'
      /\ \A i \in Ids : attribute'[i] = attribute[i] \/ attribute'[i] # None
  BY RecordEffect
<1>3. CASE UNCHANGED <<product, sequence>>
  BY <1>1, <1>2, <1>3 DEF ProgressInv, CategoryInv, StoredBy, SeenCategories
<1>4. ASSUME NEW n \in DOMAIN file[h],
             product' = [product EXCEPT ![Slot(file[h][n].sku)] =
                             Imported(h, file[h][n])],
             sequence' = IF Rows(file[h][n].sku) = {} THEN sequence + 1 ELSE sequence,
             file[h][n].category \in categories'
      PROVE  ProgressInv' /\ CategoryInv'
  <2>1. /\ \A i \in Ids : before[4] < i /\ i <= sequence' => product'[i] # NoProduct
        /\ \A i \in Ids :
               product'[i] # before[1][i] =>
                   StoredBy(who[h], i, before[1][i], product'[i])
        /\ \A i \in Ids : product'[i] = product[i]
                          \/ product'[i].category = file[h][n].category
    BY <1>1, <1>4, RecordStored
  <2>2. ProgressInv'
    BY <1>1, <1>2, <2>1 DEF ProgressInv, StoredBy
  <2>3. CategoryInv'
    BY <1>1, <1>2, <1>4, <2>1 DEF CategoryInv, SeenCategories
  <2> QED
    BY <2>2, <2>3
<1> QED
  BY <1>3, <1>4, RecordEffect
(* What a request is going to save is something it held before the step,   *)
(* unless it has just loaded it.                                           *)
UpdatesKeep ==
    \A g \in Handlers :
        pc'[g] = "update" => pc[g] = "update" /\ copy'[g] = copy[g] /\ form'[g] = form[g]

LEMMA AnswerUpdates ==
    ASSUME TypeInv, NEW h \in Handlers, Answer(h)
    PROVE  UpdatesKeep
BY DEF Answer, UpdatesKeep, TypeInv, Types

LEMMA ProceedUpdates ==
    ASSUME TypeInv, NEW h \in Handlers, NEW i, NEW f,
           NEW step \in {"clear", "attribute"}, Proceed(h, i, f, step)
    PROVE  UpdatesKeep
<1>1. CASE f.attribute = Keep
  BY <1>1, AnswerUpdates DEF Proceed
<1>2. CASE f.attribute # Keep
  BY <1>2 DEF Proceed, UpdatesKeep, TypeInv, Types
<1> QED
  BY <1>1, <1>2

(* A step outside of transactions that stores known categories only.       *)
LEMMA OutsideCategory ==
    ASSUME CategoryInv, writer = None, writer' = None, UpdatesKeep,
           categories' = categories,
           \A i \in Ids : product'[i] = product[i] \/ product'[i] = NoProduct
                          \/ product'[i].category \in categories
    PROVE  ProgressInv' /\ CategoryInv'
BY DEF ProgressInv, CategoryInv, SeenCategories, UpdatesKeep

LEMMA NextCategory ==
    TypeInv /\ RoomInv /\ UniqueInv /\ ProgressInv /\ CategoryInv /\ [Next]_vars
        => ProgressInv' /\ CategoryInv'
<1> SUFFICES ASSUME TypeInv, RoomInv, UniqueInv, ProgressInv, CategoryInv, [Next]_vars
             PROVE  ProgressInv' /\ CategoryInv'
  OBVIOUS
<1>1. \A h \in Handlers : pc[h] = "records" => writer = h /\ writer # None
  BY ImportsAssumption DEF TypeInv, RequestShape
<1>2. ASSUME NEW h \in Handlers, Rollback(h), pc[h] = "records"
      PROVE  ProgressInv' /\ CategoryInv'
  <2>1. /\ writer # None /\ writer' = None /\ UpdatesKeep
        /\ product' = before[1] /\ categories' = before[3]
    BY <1>1, <1>2, AnswerUpdates DEF Rollback
  <2> QED
    BY <2>1 DEF ProgressInv, CategoryInv, SeenCategories, UpdatesKeep
<1>3. ASSUME UpdatesKeep, UNCHANGED <<database, writer, before>>,
             writer # None => who'[writer] = who[writer]
      PROVE  ProgressInv' /\ CategoryInv'
  BY <1>3 DEF database, ProgressInv, CategoryInv, StoredBy, SeenCategories, UpdatesKeep
<1>4. ASSUME NEW h \in Handlers, Import(h) PROVE ProgressInv' /\ CategoryInv'
  <2>1. ASSUME NEW u \in Suppliers, NEW f \in Files, NEW upd \in BOOLEAN,
               BeginImport(h, u, f, upd)
        PROVE  ProgressInv' /\ CategoryInv'
    <3>1. /\ writer = None /\ before' = database /\ UpdatesKeep
          /\ UNCHANGED database
      BY <2>1 DEF BeginImport, single, UpdatesKeep, TypeInv, Types
    <3>2. /\ before'[1] = product /\ before'[2] = attribute
          /\ before'[3] = categories /\ before'[4] = sequence
      BY <3>1 DEF database
    <3>3. ~(\E i \in Ids : sequence < i /\ i <= sequence)
      BY DEF TypeInv, Types, Ids
    <3> QED
      BY <3>1, <3>2, <3>3
         DEF database, ProgressInv, CategoryInv, SeenCategories, UpdatesKeep
  <2>2. CASE RefuseRecord(h) \/ ProcessRecord(h) \/ StatementFails(h)
    BY <2>2, RecordProgress
  <2>3. CASE AbortImport(h)
    BY <1>2, <2>3 DEF AbortImport, AtRecord
  <2>4. CASE Commit(h)
    <3>1. /\ writer # None /\ writer' = None /\ UpdatesKeep
          /\ UNCHANGED <<product, categories>>
      BY <1>1, <2>4 DEF Commit, database, single, UpdatesKeep, TypeInv, Types
    <3>2. before[3] \subseteq categories
      BY <3>1 DEF ProgressInv
    <3> QED
      BY <3>1, <3>2 DEF ProgressInv, CategoryInv, SeenCategories, UpdatesKeep
  <2>5. CASE WriteLog(h)
    BY <1>3, <2>5, AnswerUpdates DEF WriteLog
  <2> QED
    BY <1>4, <2>1, <2>2, <2>3, <2>4, <2>5 DEF Import
<1>5. ASSUME NEW h \in Handlers, NEW f \in Forms, CreateProduct(h, f)
      PROVE  ProgressInv' /\ CategoryInv'
  <2>1. /\ writer = None /\ writer' = None /\ UNCHANGED categories
        /\ product' = [product EXCEPT ![sequence + 1] = Apply(NoProduct, f)]
        /\ Apply(NoProduct, f).category \in categories
        /\ UpdatesKeep
    BY <1>5, ProceedUpdates DEF CreateProduct, Apply
  <2>2. product \in [Ids -> Product \cup {NoProduct}]
    BY DEF TypeInv, Types
  <2> QED
    BY <2>1, <2>2, OutsideCategory
<1>6. ASSUME NEW h \in Handlers, NEW i \in Ids, NEW f, NEW step \in {"update", "delete"},
             Load(h, i, f, step),
             step = "update" => f.category \in SeenCategories \cup {Keep}
      PROVE  ProgressInv' /\ CategoryInv'
  <2>1. /\ Seen(i) # NoProduct
        /\ pc' = [pc EXCEPT ![h] = step]
        /\ copy' = [copy EXCEPT ![h] = IF step = "update" THEN Seen(i) ELSE NoProduct]
        /\ form' = [form EXCEPT ![h] = f]
        /\ UNCHANGED <<database, writer, before, who>>
    BY <1>6 DEF Load, parsed
  <2>2. Seen(i).category \in SeenCategories
    BY <2>1 DEF Seen, SeenCategories, CategoryInv
  <2>3. SeenCategories' = SeenCategories
    BY <2>1 DEF database, SeenCategories
  <2>4. \A g \in Handlers :
            pc'[g] = "update" => /\ copy'[g].category \in SeenCategories
                                 /\ form'[g].category \in SeenCategories \cup {Keep}
    BY <1>6, <2>1, <2>2 DEF CategoryInv, TypeInv, Types
  <2> QED
    BY <2>1, <2>3, <2>4 DEF database, ProgressInv, CategoryInv, StoredBy
<1>7. ASSUME NEW h \in Handlers, SaveProduct(h) PROVE ProgressInv' /\ CategoryInv'
  <2> DEFINE r == Apply(copy[h], form[h])
  <2>1. /\ pc[h] = "update" /\ writer = None /\ writer' = None /\ UNCHANGED categories
        /\ product' \in {product, [product EXCEPT ![target[h]] = r]}
        /\ UpdatesKeep
    BY <1>7, AnswerUpdates, ProceedUpdates DEF SaveProduct
  <2>2. r.category \in categories
    BY <2>1 DEF CategoryInv, SeenCategories, Apply
  <2>3. product \in [Ids -> Product \cup {NoProduct}]
    BY DEF TypeInv, Types
  <2> HIDE DEF r
  <2> QED
    BY <2>1, <2>2, <2>3, OutsideCategory
<1>8. ASSUME NEW h \in Handlers, ClearAttributes(h) \/ CreateAttribute(h)
      PROVE  ProgressInv' /\ CategoryInv'
  <2>1. /\ writer = None /\ writer' = None /\ UNCHANGED <<categories, product>>
        /\ UpdatesKeep
    BY <1>8, AnswerUpdates
       DEF ClearAttributes, CreateAttribute, single, UpdatesKeep, TypeInv, Types
  <2> QED
    BY <2>1, OutsideCategory
<1>9. ASSUME NEW h \in Handlers, DeleteProduct(h) PROVE ProgressInv' /\ CategoryInv'
  <2>1. /\ writer = None /\ writer' = None /\ UNCHANGED categories
        /\ product' \in {product, [product EXCEPT ![target[h]] = NoProduct]}
        /\ UpdatesKeep
    BY <1>9, AnswerUpdates DEF DeleteProduct
  <2>2. product \in [Ids -> Product \cup {NoProduct}]
    BY DEF TypeInv, Types
  <2> QED
    BY <2>1, <2>2, OutsideCategory
<1>10. ASSUME NEW h \in Handlers, HandlerFails(h) PROVE ProgressInv' /\ CategoryInv'
  <2>1. CASE pc[h] = "records"
    BY <1>2, <1>10, <2>1 DEF HandlerFails
  <2>2. CASE pc[h] # "records"
    <3>1. /\ Answer(h) /\ UNCHANGED <<database, writer, before>> /\ writer # h
      BY <1>10, <2>2 DEF HandlerFails, TypeInv, RequestShape
    <3>2. writer # None => who'[writer] = who[writer]
      BY <3>1 DEF Answer, TypeInv, Types
    <3> QED
      BY <1>3, <3>1, <3>2, AnswerUpdates
  <2> QED
    BY <2>1, <2>2
<1>11. ASSUME NEW i \in Ids, OrderProduct(i) PROVE ProgressInv' /\ CategoryInv'
  BY <1>3, <1>11 DEF OrderProduct, parsed, single, UpdatesKeep
<1>12. CASE UNCHANGED vars
  BY <1>3, <1>12 DEF vars, database, UpdatesKeep
<1>13. ASSUME NEW h \in Handlers, NEW u \in Suppliers, GatherProducts(h, u)
       PROVE  ProgressInv' /\ CategoryInv'
  <2>1. /\ UNCHANGED <<database, writer, before, copy, form>>
        /\ pc[h] = "idle" /\ pc' = [pc EXCEPT ![h] = "withdraw"]
        /\ who' = [who EXCEPT ![h] = u]
    BY <1>13, GatherStep DEF database
  <2>2. UpdatesKeep
    BY <2>1 DEF UpdatesKeep, TypeInv, Types
  <2>3. writer # None => who'[writer] = who[writer]
    BY <2>1 DEF TypeInv, Types, RequestShape
  <2> QED
    BY <1>3, <2>1, <2>2, <2>3
<1>14. ASSUME NEW h \in Handlers, WithdrawSupplier(h) PROVE ProgressInv' /\ CategoryInv'
  <2>1. /\ writer = None /\ writer' = None /\ UNCHANGED categories
        /\ UpdatesKeep
        /\ \A i \in Ids : product'[i] = product[i] \/ product'[i] = NoProduct
    BY <1>14, WithdrawStep, AnswerUpdates
  <2> QED
    BY <2>1, OutsideCategory
<1>15. ASSUME NEW u \in Suppliers, RestoreSupplier(u) PROVE ProgressInv' /\ CategoryInv'
  BY <1>3, <1>15, RestoreStep DEF UpdatesKeep, database
<1> QED
  BY <1>4, <1>5, <1>6, <1>7, <1>8, <1>9, <1>10, <1>11, <1>12, <1>13, <1>14, <1>15
     DEF Next, LoadForUpdate, LoadForDelete
-----------------------------------------------------------------------------
(* Each step is one of the catalogue.                                      *)

LEMMA BookTerms ==
    /\ Book!None = None /\ Book!Ids = Ids
    /\ Book!Product = Product /\ Book!NoProduct = NoProduct
BY DEF Book!None, Book!Ids, Book!Product, Book!NoProduct, Ids, Product, NoProduct

(* Nothing that others see has changed.                                    *)
LEMMA SameBook ==
    ASSUME UNCHANGED <<Committed, ordered, suppliers>>
    PROVE  UNCHANGED Book!catalogueVars
BY DEF Book!catalogueVars

(* Outside of transactions the tables themselves are what others see.      *)
LEMMA OutsideBook ==
    ASSUME writer = None, writer' = None
    PROVE  /\ Committed[1] = product /\ Committed[2] = attribute
           /\ Committed[3] = categories /\ Committed[4] = sequence
           /\ (Committed[1])' = product' /\ (Committed[2])' = attribute'
           /\ (Committed[3])' = categories' /\ (Committed[4])' = sequence'
BY DEF Committed, database

(* A commit is an import as one step. *)
LEMMA CommitBook ==
    ASSUME TypeInv, RoomInv, UniqueInv, ReferenceInv, ProgressInv, CategoryInv,
           NEW h \in Handlers, Commit(h)
    PROVE  \E u \in Suppliers : Book!Import(u)
<1>1. /\ pc[h] = "records" /\ writer = h /\ writer # None /\ writer' = None
      /\ who[h] \in suppliers /\ who[h] \in Suppliers
      /\ UNCHANGED <<product, attribute, categories, sequence, ordered, suppliers>>
  BY ImportsAssumption DEF Commit, database, TypeInv, Types, RequestShape
<1>2. /\ Committed = before
      /\ (Committed[1])' = product /\ (Committed[2])' = attribute
      /\ (Committed[3])' = categories /\ (Committed[4])' = sequence
  BY <1>1 DEF Committed, database
<1>3. /\ product \in [Ids -> Product \cup {NoProduct}]
      /\ attribute \in [Ids -> Values \cup {None}]
      /\ categories \subseteq Categories
      /\ sequence \in before[4] .. MaxId
  BY <1>1, ImportsAssumption DEF TypeInv, Types, Tables, RoomInv
<1>4. /\ before[3] \subseteq categories
      /\ \A i \in before[4] + 1 .. sequence : product[i] # NoProduct
  <2>1. \A i \in before[4] + 1 .. sequence :
            i \in Ids /\ before[4] < i /\ i <= sequence
    BY <1>3, ImportsAssumption DEF TypeInv, Types, Tables, Ids
  <2> QED
    BY <1>1, <2>1 DEF ProgressInv
<1>5. ASSUME NEW i \in Ids, product[i] # before[1][i]
      PROVE  /\ Book!Stores(who[h], i, before[1][i], product[i])
             /\ i <= sequence
             /\ product[i].category \in categories
             /\ \A j \in Ids :
                    product[j] # NoProduct /\ product[j].sku = product[i].sku => j = i
  <2>1. /\ product[i] \in Product /\ product[i].supplier = who[h]
        /\ IF before[1][i] = NoProduct THEN i > before[4]
           ELSE product[i].sku = before[1][i].sku
    BY <1>1, <1>5 DEF ProgressInv, StoredBy
  <2>2. product[i] # NoProduct /\ product[i].sku \in Skus
    BY <2>1, ImportsAssumption DEF Product, NoProduct
  <2>3. Book!Stores(who[h], i, before[1][i], product[i])
    BY <1>2, <2>1, BookTerms DEF Book!Stores
  <2>4. i <= sequence
    BY <1>3, <2>2 DEF RoomInv, Ids, TypeInv, Types
  <2> QED
    BY <2>2, <2>3, <2>4 DEF CategoryInv, UniqueInv
<1>6. ASSUME NEW i \in Ids, attribute[i] # before[2][i]
      PROVE  attribute[i] # None /\ product[i] # NoProduct
  BY <1>1, <1>6 DEF ProgressInv, ReferenceInv, ReferencesHold, Exists
<1>7. Book!Import(who[h])
  BY <1>1, <1>2, <1>3, <1>4, <1>5, <1>6, BookTerms DEF Book!Import, Book!Unique
<1> QED
  BY <1>1, <1>7

LEMMA CreateBook ==
    ASSUME TypeInv, RoomInv, UniqueInv, NEW h \in Handlers, NEW f \in Forms,
           CreateProduct(h, f)
    PROVE  \E r \in Product : Book!Create(r)
<1> DEFINE r == Apply(NoProduct, f)
<1>1. /\ writer = None /\ writer' = None /\ sequence < MaxId
      /\ sequence' = sequence + 1
      /\ product' = [product EXCEPT ![sequence + 1] = r]
      /\ r.category \in categories /\ r.supplier \in suppliers /\ r.sku = f.sku /\ Rows(f.sku) = {}
      /\ UNCHANGED <<attribute, categories, ordered, suppliers>>
  BY DEF CreateProduct, Apply
<1>2. r \in Product
  BY ImportsAssumption, NewProductTyped DEF CreateProduct
<1>3. product \in [Ids -> Product \cup {NoProduct}] /\ sequence + 1 \in Ids
  BY <1>1, ImportsAssumption DEF TypeInv, Types, Ids
<1> HIDE DEF r
<1>4. ASSUME NEW j \in Ids, product'[j].sku = product'[sequence + 1].sku
      PROVE  j = sequence + 1
  BY <1>1, <1>3, <1>4 DEF Rows
<1>5. Book!Create(r)
  BY <1>1, <1>2, <1>3, <1>4, OutsideBook, BookTerms
     DEF Book!Create, Book!Put, Book!Unique
<1> QED
  BY <1>2, <1>5

LEMMA SaveBook ==
    ASSUME TypeInv, RoomInv, UniqueInv, CategoryInv, NEW h \in Handlers, SaveProduct(h)
    PROVE  (\E i \in Ids, r \in Product : Book!Write(i, r))
           \/ UNCHANGED Book!catalogueVars
<1> DEFINE i == target[h]
           r == Apply(copy[h], form[h])
<1>1. /\ pc[h] = "update" /\ writer = None /\ writer' = None
      /\ UNCHANGED <<attribute, categories, sequence, ordered, suppliers, before>>
  BY DEF SaveProduct
<1>2. CASE Rows(r.sku) \subseteq {i} /\ r.supplier \in suppliers
  <2>1. product' = [product EXCEPT ![i] = r]
    BY <1>2 DEF SaveProduct
  <2>2. r \in Product /\ i \in Ids
    BY <1>1, AppliedProduct DEF TypeInv, Types, RequestShape
  <2>3. r.category \in categories
    BY <1>1 DEF CategoryInv, SeenCategories, Apply
  <2>4. product \in [Ids -> Product \cup {NoProduct}] /\ i <= sequence
    BY <1>1 DEF RoomInv, Given, TypeInv, Types
  <2>0. r.supplier \in suppliers
    BY <1>2
  <2> HIDE DEF i, r
  <2>5. ASSUME NEW j \in Ids, product'[j].sku = product'[i].sku PROVE j = i
    BY <1>2, <2>1, <2>2, <2>4, <2>5 DEF Rows
  <2>6. Book!Write(i, r)
    BY <1>1, <2>0, <2>1, <2>2, <2>3, <2>4, <2>5, OutsideBook, BookTerms
       DEF Book!Write, Book!Put, Book!Unique
  <2> QED
    BY <2>2, <2>6
<1>3. CASE ~(Rows(r.sku) \subseteq {i} /\ r.supplier \in suppliers)
  <2>1. UNCHANGED product
    BY <1>3 DEF SaveProduct
  <2> QED
    BY <1>1, <2>1, SameBook DEF Committed, database
<1> QED
  BY <1>2, <1>3

LEMMA AttributeBook ==
    ASSUME TypeInv, NEW h \in Handlers, ClearAttributes(h) \/ CreateAttribute(h)
    PROVE  \/ \E i \in Ids : Book!Clear(i) \/ \E v \in Values : Book!Describe(i, v)
           \/ UNCHANGED Book!catalogueVars
<1> DEFINE i == target[h]
<1>1. /\ writer = None /\ writer' = None /\ i \in Ids
      /\ UNCHANGED <<product, categories, sequence, ordered, suppliers, before>>
  BY DEF ClearAttributes, CreateAttribute, TypeInv, RequestShape
<1>2. CASE ClearAttributes(h)
  <2>1. attribute' = [attribute EXCEPT ![i] = None]
    BY <1>2 DEF ClearAttributes
  <2>2. Book!Clear(i)
    BY <1>1, <2>1, OutsideBook, BookTerms DEF Book!Clear
  <2> QED
    BY <1>1, <2>2
<1>3. CASE CreateAttribute(h) /\ Exists(i) /\ attribute[i] = None
  <2>1. attribute' = [attribute EXCEPT ![i] = form[h].attribute]
    BY <1>3 DEF CreateAttribute
  <2>2. form[h].attribute \in Values
    BY <1>3 DEF CreateAttribute, TypeInv, RequestShape
  <2>3. Book!Describe(i, form[h].attribute)
    BY <1>1, <1>3, <2>1, OutsideBook, BookTerms DEF Book!Describe, Exists
  <2> QED
    BY <1>1, <2>2, <2>3
<1>4. CASE CreateAttribute(h) /\ ~(Exists(i) /\ attribute[i] = None)
  <2>1. UNCHANGED attribute
    BY <1>4 DEF CreateAttribute
  <2> QED
    BY <1>1, <2>1, SameBook DEF Committed, database
<1> QED
  BY <1>2, <1>3, <1>4

LEMMA DeleteBook ==
    ASSUME TypeInv, ReferenceInv, NEW h \in Handlers, DeleteProduct(h)
    PROVE  (\E i \in Ids : Book!Delete(i)) \/ UNCHANGED Book!catalogueVars
<1> DEFINE i == target[h]
<1>1. /\ writer = None /\ writer' = None /\ i \in Ids
      /\ UNCHANGED <<categories, sequence, ordered, suppliers, before>>
  BY DEF DeleteProduct, TypeInv, RequestShape
<1>2. CASE i \in ordered
  <2>1. UNCHANGED <<product, attribute>>
    BY <1>2 DEF DeleteProduct
  <2> QED
    BY <1>1, <2>1, SameBook DEF Committed, database
<1>3. CASE i \notin ordered
  <2>1. /\ product' = [product EXCEPT ![i] = NoProduct]
        /\ attribute' = [attribute EXCEPT ![i] = None]
    BY <1>3 DEF DeleteProduct
  <2>2. CASE product[i] # NoProduct
    <3>1. Book!Delete(i)
      BY <1>1, <1>3, <2>1, <2>2, OutsideBook, BookTerms DEF Book!Delete
    <3> QED
      BY <1>1, <3>1
  <2>3. CASE product[i] = NoProduct
    <3>1. attribute[i] = None
      BY <1>1, <2>3 DEF ReferenceInv, ReferencesHold, Exists
    <3>2. UNCHANGED <<product, attribute>>
      BY <2>1, <2>3, <3>1 DEF TypeInv, Types
    <3> QED
      BY <1>1, <3>2, SameBook DEF Committed, database
  <2> QED
    BY <2>2, <2>3
<1> QED
  BY <1>2, <1>3

LEMMA OrderedBook ==
    ASSUME NEW i \in Ids, OrderProduct(i)
    PROVE  Book!Order(i)
<1>1. /\ writer = None /\ writer' = None
      /\ UNCHANGED <<product, attribute, categories, sequence, suppliers>>
      /\ \/ product[i] # NoProduct /\ ordered' = ordered \cup {i}
         \/ ordered' = ordered \ {i}
  BY DEF OrderProduct, database, Exists
<1> QED
  BY <1>1, OutsideBook, BookTerms DEF Book!Order

(* The deletion of a supplier is one step, also for his products.          *)
LEMMA WithdrawBook ==
    ASSUME TypeInv, NEW h \in Handlers, WithdrawSupplier(h)
    PROVE  (\E u \in Suppliers, gone \in SUBSET Ids : Book!Withdraw(u, gone))
           \/ UNCHANGED Book!catalogueVars
<1>1. /\ who[h] \in Suppliers /\ gathered[h] \in SUBSET Ids
      /\ writer = None /\ writer' = None
      /\ UNCHANGED <<categories, sequence, ordered, before>>
  BY WithdrawStep
<1>2. CASE UNCHANGED <<product, attribute, suppliers>>
  BY <1>1, <1>2, SameBook DEF Committed, database
<1> DEFINE gone == gathered[h]
<1>3. CASE /\ gone \cap ordered = {}
           /\ \A i \in Ids \ gone : product[i].supplier # who[h]
           /\ product' = [i \in Ids |-> IF i \in gone THEN NoProduct ELSE product[i]]
           /\ attribute' = [i \in Ids |-> IF i \in gone THEN None ELSE attribute[i]]
           /\ suppliers' = suppliers \ {who[h]}
  <2>1. Book!Withdraw(who[h], gone)
    BY <1>1, <1>3, OutsideBook, BookTerms DEF Book!Withdraw
  <2> QED
    BY <1>1, <2>1
<1> QED
  BY <1>2, <1>3 DEF WithdrawSupplier

LEMMA RestoreBook ==
    ASSUME NEW u \in Suppliers, RestoreSupplier(u)
    PROVE  Book!Restore(u)
<1>1. writer' = None
  BY RestoreStep
<1> QED
  BY <1>1, RestoreStep, OutsideBook DEF Book!Restore

(* The steps that do not end a transaction or write outside of one.        *)
LEMMA QuietBook ==
    ASSUME TypeInv, NEW h \in Handlers,
           \/ \E u \in Suppliers, f \in Files, upd \in BOOLEAN : BeginImport(h, u, f, upd)
           \/ RefuseRecord(h) \/ ProcessRecord(h) \/ StatementFails(h)
           \/ AbortImport(h) \/ WriteLog(h) \/ HandlerFails(h)
           \/ \E i \in Ids, f \in Forms \cup {NoForm}, step \in {"update", "delete"} :
                  Load(h, i, f, step)
           \/ \E u \in Suppliers : GatherProducts(h, u)
    PROVE  UNCHANGED Book!catalogueVars
<1>1. pc[h] = "records" => writer # None
  BY ImportsAssumption DEF TypeInv, RequestShape
<1>2. h # None
  BY ImportsAssumption
<1>3. CASE Rollback(h) /\ pc[h] = "records"
  <2>1. before = <<before[1], before[2], before[3], before[4]>>
    BY DEF TypeInv, Types, Tables
  <2>2. UNCHANGED <<Committed, ordered, suppliers>>
    BY <1>1, <1>3, <2>1 DEF Rollback, Committed, database
  <2> QED
    BY <2>2, SameBook
<1>4. CASE UNCHANGED <<database, writer, before, ordered, suppliers>>
  BY <1>4, SameBook DEF Committed
<1>5. CASE \E u \in Suppliers, f \in Files, upd \in BOOLEAN : BeginImport(h, u, f, upd)
  <2>1. UNCHANGED <<Committed, ordered, suppliers>>
    BY <1>2, <1>5 DEF BeginImport, Committed
  <2> QED
    BY <2>1, SameBook
<1>6. CASE RefuseRecord(h) \/ ProcessRecord(h) \/ StatementFails(h)
  <2>1. UNCHANGED <<Committed, ordered, suppliers>>
    BY <1>1, <1>6, RecordStep DEF Committed
  <2> QED
    BY <2>1, SameBook
<1> QED
  BY <1>3, <1>4, <1>5, <1>6
     DEF AbortImport, AtRecord, WriteLog, HandlerFails, Load, GatherProducts

(* The committed tables change by whole price lists, by single writes and  *)
(* by the deletion of a supplier with his products: Imports implements     *)
(* Catalogue, with the tables as they were when a transaction was opened   *)
(* for as long as it is.                                                   *)
THEOREM CatalogueCorrect == Spec => ImplementsCatalogue
<1>1. Init => Book!Init
  BY BookTerms DEF Init, Book!Init, Committed, database
<1>2. TypeInv /\ RoomInv /\ UniqueInv /\ ReferenceInv /\ ProgressInv /\ CategoryInv
          /\ [Next]_vars => [Book!Next]_Book!catalogueVars
  <2> SUFFICES ASSUME TypeInv, RoomInv, UniqueInv, ReferenceInv, ProgressInv,
                      CategoryInv, [Next]_vars
               PROVE  [Book!Next]_Book!catalogueVars
    OBVIOUS
  <2> USE BookTerms
  <2>1. ASSUME NEW h \in Handlers, Commit(h) PROVE Book!Next
    BY <2>1, CommitBook DEF Book!Next
  <2>2. ASSUME NEW h \in Handlers, NEW f \in Forms, CreateProduct(h, f) PROVE Book!Next
    BY <2>2, CreateBook DEF Book!Next
  <2>3. ASSUME NEW h \in Handlers, SaveProduct(h)
        PROVE  [Book!Next]_Book!catalogueVars
    BY <2>3, SaveBook DEF Book!Next
  <2>4. ASSUME NEW h \in Handlers, ClearAttributes(h) \/ CreateAttribute(h)
        PROVE  [Book!Next]_Book!catalogueVars
    BY <2>4, AttributeBook DEF Book!Next
  <2>5. ASSUME NEW h \in Handlers, DeleteProduct(h)
        PROVE  [Book!Next]_Book!catalogueVars
    BY <2>5, DeleteBook DEF Book!Next
  <2>6. ASSUME NEW i \in Ids, OrderProduct(i) PROVE Book!Next
    BY <2>6, OrderedBook DEF Book!Next
  <2>7. CASE UNCHANGED vars
    BY <2>7, SameBook DEF vars, Committed, database
  <2>8. ASSUME NEW h \in Handlers, WithdrawSupplier(h)
        PROVE  [Book!Next]_Book!catalogueVars
    BY <2>8, WithdrawBook DEF Book!Next
  <2>9. ASSUME NEW u \in Suppliers, RestoreSupplier(u) PROVE Book!Next
    BY <2>9, RestoreBook DEF Book!Next
  <2> QED
    BY <2>1, <2>2, <2>3, <2>4, <2>5, <2>6, <2>7, <2>8, <2>9, QuietBook
       DEF Next, Import, LoadForUpdate, LoadForDelete
<1>3. Spec => [](TypeInv /\ RoomInv /\ UniqueInv /\ ReferenceInv)
  <2>1. Init => ReferenceInv
    BY DEF Init, ReferenceInv, ReferencesHold, Exists
  <2> QED
    BY <2>1, InitTyped, NextTyped, InitBounds, InitMatch, NextRoom, NextUnique,
       NextReference, PTL DEF Spec
<1>4. Init => ProgressInv /\ CategoryInv
  BY DEF Init, ProgressInv, CategoryInv
<1>5. Spec => [](ProgressInv /\ CategoryInv)
  BY <1>3, <1>4, NextCategory, PTL DEF Spec
<1> QED
  BY <1>1, <1>2, <1>3, <1>5, PTL DEF Spec, Book!Spec, ImplementsCatalogue
=============================================================================
