--------------------------- MODULE StatisticsBook ---------------------------
(***************************************************************************)
(* What the service promises about the statistics of orders it shows, with *)
(* no mention of Redis, keys, entries, lifetimes or queries: whoever asks  *)
(* is shown a list of numbers that were all made for ONE user, himself if  *)
(* he is a client, some supplier who asks if he is a supplier.  About the  *)
(* orders that have not changed for Window ticks each number is right: it  *)
(* counts those that user may see, and nobody else's.                      *)
(***************************************************************************)
EXTENDS Naturals, Sequences

CONSTANTS
    Clients, Suppliers,
    Askers,         \* who asks for statistics
    Orders,
    Rows,           \* status, client and suppliers that an order may have
    Questions,      \* the numbers of a list: "all", or a status
    Requests,
    Window          \* ticks after which a change is seen by everybody

VARIABLES
    order,    \* each order, NoOrder when there is none
    since,    \* ticks since it has changed, up to Window
    shown     \* what each request shows, and to whom

bookVars == <<order, since, shown>>

None == "none"
NoOrder == [status |-> None, client |-> None, suppliers |-> {}]
Nothing == [to |-> None, list |-> <<>>]

Init ==
    /\ order = [o \in Orders |-> NoOrder]
    /\ since = [o \in Orders |-> 0]
    /\ shown = [h \in Requests |-> Nothing]

(* The users whose numbers u may be shown. *)
Peers(u) == IF u \in Suppliers THEN Suppliers \cap Askers ELSE {u}

(* Question q of v counts o. *)
Counts(v, q, o) ==
    /\ order[o] # NoOrder
    /\ v \in Clients => order[o].client = v
    /\ v \in Suppliers => v \in order[o].suppliers
    /\ q \in {"all", order[o].status}

(* A number for v that is no older than Window: n answers question q. *)
Fresh(v, q, n) ==
    \A o \in Orders : since[o] = Window => (o \in n <=> Counts(v, q, o))

Change(o, row) ==
    /\ row # order[o]
    /\ order' = [order EXCEPT ![o] = row]
    /\ since' = [since EXCEPT ![o] = 0]
    /\ UNCHANGED shown

Tick ==
    /\ since' = [o \in Orders |->
                    IF since[o] < Window THEN since[o] + 1 ELSE Window]
    /\ UNCHANGED <<order, shown>>

Show(h, u) ==
    /\ shown[h] = Nothing
    /\ \E list \in [DOMAIN Questions -> SUBSET Orders] :
           /\ shown' = [shown EXCEPT ![h] = [to |-> u, list |-> list]]
           /\ \E v \in Peers(u) :
                  \A i \in DOMAIN Questions : Fresh(v, Questions[i], list[i])
    /\ UNCHANGED <<order, since>>

Hide(h) ==
    /\ shown' = [shown EXCEPT ![h] = Nothing]
    /\ UNCHANGED <<order, since>>

Next ==
    \/ \E o \in Orders, row \in Rows \cup {NoOrder} : Change(o, row)
    \/ Tick
    \/ \E h \in Requests : Hide(h) \/ \E u \in Askers : Show(h, u)

Spec == Init /\ [][Next]_bookVars
=============================================================================
