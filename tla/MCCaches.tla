------------------------------ MODULE MCCaches ------------------------------
(* Small instances of Caches: one order, one category, and who asks.       *)
EXTENDS Caches, TLC

CONSTANTS c1, c2, s1, s2, o1

(* An order of c1 with an item of s1, which is shipped, or given to c2 and *)
(* has no item of theirs any more.                                         *)
MCRows ==
    [status : {"pending", "shipped"}, client : {c1}, suppliers : {{s1}}]
    \cup [status : {"shipped"}, client : {c2}, suppliers : {{}}]
(* Two numbers that overlap. *)
MCQuestions == <<"all", "pending">>
MCLifetime == [kind \in Kinds |-> IF kind = "catalogue" THEN 2 ELSE 1]
EverybodyAsks ==
    [kind \in Kinds |-> IF kind = "statistics" THEN {c1, c2, s1, s2} ELSE {c1}]
SuppliersAsk == [kind \in Kinds |-> {s1, s2}]

(* Bound: requests and entries are about one kind of list at a time, and   *)
(* about two keys; orders are there beside statistics only, and categories *)
(* beside the other lists.  Lists of different kinds share neither key nor *)
(* table.                                                                  *)
Active ==
    {Key(asked[h], who[h]) : h \in {g \in Handlers : pc[g] # "idle"}}
        \cup {k \in Keys : cache[k] # NoEntry}
Shown == {k.kind : k \in Active}
TwoKeys ==
    /\ Cardinality(Active) <= 2
    /\ Cardinality(Shown) <= 1
    /\ Shown \ {"statistics"} # {} => \A o \in Orders : ~Exists(o)
    /\ "statistics" \in Shown => root = {}
=============================================================================
