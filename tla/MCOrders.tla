------------------------------ MODULE MCOrders ------------------------------
(* Small instances of Orders: one order entered by staff, one or two new   *)
(* ones, a cart of two suppliers and a cart that asks for too much.        *)
EXTENDS Orders, TLC

CONSTANTS o1, o2, c1, s1, s2, a1, p1, p2

(* An order of s2 with no item of s2: only staff can reach it. *)
MCOwner == [o \in Seeded |-> s2]
MCOwnerS1 == [o \in Seeded |-> s1]
MCOwnerStaff == [o \in Seeded |-> a1]
(* Two suppliers, or one who supplies both lines. *)
MCOneSupplier == [p \in Products |-> s1]
MCSupplierOf == p1 :> s1 @@ p2 :> s2
MCStock == [p \in Products |-> 1]
TwoLines == <<[product |-> p1, quantity |-> 1], [product |-> p2, quantity |-> 1]>>
TooMuch == <<[product |-> p1, quantity |-> 2]>>
MCCarts == {TwoLines, TooMuch}
HandlerSymmetry == Permutations(Handlers)
MCEditsPlain == {NoEdit}
MCEdits == {NoEdit, [NoEdit EXCEPT !.status = "shipped"]}
=============================================================================
