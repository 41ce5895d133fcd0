----------------------------- MODULE MCImports ------------------------------
(* Small instances of Imports: two products in two categories, and price   *)
(* lists that meet each outcome of a record.                               *)
EXTENDS Imports, TLC

CONSTANTS s1, s2, k1, k2, g1, g2, v1, v2

Good(k, g, v) == [shape |-> "object", sku |-> k, category |-> g, value |-> v,
                  price |-> "number", cost |-> "absent", stock |-> "number",
                  minimum |-> "absent", attributes |-> "good"]
Plain == Good(k1, g1, v1)
(* The same sku twice; the second record has a broken attribute. *)
Twice == <<Plain, [Good(k1, g2, v2) EXCEPT !.attributes = "broken"]>>
(* Refused; refused by the table, unless nothing is written; stored.       *)
Mixed == <<[Good(k1, g2, v2) EXCEPT !.stock = "number0"],
           [Good(k1, g2, v2) EXCEPT !.minimum = "negative"],
           [Good(k1, g1, v1) EXCEPT !.stock = "string0", !.cost = "number"]>>
(* Good, stored up to its category, no price. *)
BadPrice == <<Good(k2, g2, v1), [Plain EXCEPT !.minimum = "infinite"],
              [Plain EXCEPT !.price = "text"]>>
(* No object; a stock that int() cannot take.  *)
NoObject == <<[Plain EXCEPT !.shape = "scalar"]>>
Infinite == <<[Plain EXCEPT !.stock = "infinite"]>>
MCFiles == {Twice, Mixed, BadPrice, NoObject, Infinite}
(* Those whose records are objects with a stock that can be read.          *)
PriceFiles == {Twice, Mixed, BadPrice}

(* A new product of either supplier; a change of two fields and of the     *)
(* attribute.                                                              *)
MCForms ==
    [sku : {k1}, supplier : Suppliers, category : {g1}, value : {v1},
     attribute : {v1}]
    \cup {[NoForm EXCEPT !.category = g2, !.value = v2, !.attribute = v2]}

Symmetry == Permutations(Handlers) \cup Permutations(Suppliers)
=============================================================================
