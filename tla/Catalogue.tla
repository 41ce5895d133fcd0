----------------------------- MODULE Catalogue ------------------------------
(***************************************************************************)
(* What the service promises about the catalogue, with no mention of       *)
(* transactions, records, copies or logs: a price list is ONE step, which  *)
(* stores products of its sender and takes none away; a supplier who is    *)
(* deleted takes all of his products along in ONE step; everything else is *)
(* a step about one product.  No sku is used twice, no key is given twice, *)
(* no category and no supplier is missing, and what is in an order stays.  *)
(***************************************************************************)
EXTENDS Naturals

CONSTANTS Suppliers, Skus, Categories, Values, MaxId

VARIABLES
    products,    \* the product of each key, NoProduct when there is none
    attributes,  \* its attribute, None when it has none
    categories,
    given,       \* the last key that was given to a product
    ordered,     \* the products that are in orders
    suppliers    \* those that are there

catalogueVars == <<products, attributes, categories, given, ordered, suppliers>>

None == "none"
Ids == 1 .. MaxId
Product == [sku : Skus, supplier : Suppliers, category : Categories, value : Values]
NoProduct == [sku |-> None, supplier |-> None, category |-> None, value |-> None]

Init ==
    /\ products = [i \in Ids |-> NoProduct]
    /\ attributes = [i \in Ids |-> None]
    /\ categories = {}
    /\ given = 0
    /\ ordered = {}
    /\ suppliers = Suppliers

(* The sku of product i belongs to no other product. *)
Unique(table, i) ==
    \A j \in Ids : table[j] # NoProduct /\ table[j].sku = table[i].sku => j = i

(* An import by u makes r of what was p under key i: it may change hands,  *)
(* but it keeps its sku, and a product that is new gets a new key.         *)
Stores(u, i, p, r) ==
    /\ r \in Product
    /\ r.supplier = u
    /\ IF p = NoProduct THEN i > given ELSE r.sku = p.sku

Import(u) ==
    /\ u \in suppliers
    /\ products' \in [Ids -> Product \cup {NoProduct}]
    /\ attributes' \in [Ids -> Values \cup {None}]
    /\ categories \subseteq categories' /\ categories' \subseteq Categories
    /\ given' \in given .. MaxId
    /\ \A i \in given + 1 .. given' : products'[i] # NoProduct
    /\ \A i \in Ids :
           products'[i] # products[i] =>
               /\ Stores(u, i, products[i], products'[i])
               /\ i <= given'
               /\ products'[i].category \in categories'
               /\ Unique(products', i)
    /\ \A i \in Ids :
           attributes'[i] # attributes[i] =>
               attributes'[i] # None /\ products'[i] # NoProduct
    /\ UNCHANGED <<ordered, suppliers>>

(* Product i becomes r, or comes back as r. *)
Put(i, r) ==
    /\ r.category \in categories /\ r.supplier \in suppliers
    /\ products' = [products EXCEPT ![i] = r]
    /\ Unique(products', i)
    /\ UNCHANGED <<attributes, categories, ordered, suppliers>>

Create(r) == given < MaxId /\ given' = given + 1 /\ Put(given + 1, r)

Write(i, r) == i <= given /\ UNCHANGED given /\ Put(i, r)

Delete(i) ==
    /\ products[i] # NoProduct
    /\ i \notin ordered
    /\ products' = [products EXCEPT ![i] = NoProduct]
    /\ attributes' = [attributes EXCEPT ![i] = None]
    /\ UNCHANGED <<categories, given, ordered, suppliers>>

(* The supplier u goes with his products, and with those that he had when  *)
(* his deletion began.                                                     *)
Withdraw(u, gone) ==
    /\ \A i \in Ids : products[i].supplier = u => i \in gone
    /\ gone \cap ordered = {}
    /\ products' = [i \in Ids |-> IF i \in gone THEN NoProduct ELSE products[i]]
    /\ attributes' = [i \in Ids |-> IF i \in gone THEN None ELSE attributes[i]]
    /\ suppliers' = suppliers \ {u}
    /\ UNCHANGED <<categories, given, ordered>>

Restore(u) ==
    /\ suppliers' = suppliers \cup {u}
    /\ UNCHANGED <<products, attributes, categories, given, ordered>>

Clear(i) ==
    /\ attributes' = [attributes EXCEPT ![i] = None]
    /\ UNCHANGED <<products, categories, given, ordered, suppliers>>

Describe(i, v) ==
    /\ products[i] # NoProduct
    /\ attributes[i] = None
    /\ attributes' = [attributes EXCEPT ![i] = v]
    /\ UNCHANGED <<products, categories, given, ordered, suppliers>>

Order(i) ==
    /\ \/ products[i] # NoProduct /\ ordered' = ordered \cup {i}
       \/ ordered' = ordered \ {i}
    /\ UNCHANGED <<products, attributes, categories, given, suppliers>>

Next ==
    \/ \E u \in Suppliers :
        \/ Import(u) \/ Restore(u)
        \/ \E gone \in SUBSET Ids : Withdraw(u, gone)
    \/ \E r \in Product : Create(r)
    \/ \E i \in Ids :
        \/ \E r \in Product : Write(i, r)
        \/ Delete(i) \/ Clear(i) \/ Order(i)
        \/ \E v \in Values : Describe(i, v)

Spec == Init /\ [][Next]_catalogueVars
=============================================================================
