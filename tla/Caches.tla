------------------------------- MODULE Caches -------------------------------
(***************************************************************************)
(* What the service keeps in Redis (cache_utils.py and its three users in  *)
(* views.py): the root categories, the catalogue, the statistics of        *)
(* orders.  Nothing invalidates an entry, since signals.py is imported by  *)
(* no module: entries end with their lifetime only.                        *)
(*                                                                         *)
(* An action is one call of Redis or one query.  Statistics are made by    *)
(* several queries, one after the other; the answer to a query is the set  *)
(* of orders it has counted or summed.  Time passes in ticks.              *)
(***************************************************************************)
EXTENDS Naturals, Sequences, FiniteSets

CONSTANTS
    Clients, Suppliers,   \* accounts; everybody else is left out
    Askers,       \* bound: who asks for each kind of list
    Orders,
    Statuses,
    Rows,         \* bound: what an order may be in this instance
    Questions,    \* the queries of the statistics: "all", or a status
    Categories,
    Handlers,     \* concurrent requests
    Lifetime,     \* of each kind of list, in ticks
    MaxDelay,     \* bound: ticks that pass while a request runs
    Ops           \* what happens beside the lists in this instance

Users == Clients \cup Suppliers
Kinds == {"categories", "catalogue", "statistics"}
None == "none"

(* An order with its status, its client and the suppliers of its items.    *)
Order == [status : Statuses, client : Users, suppliers : SUBSET Suppliers]
NoOrder == [status |-> None, client |-> None, suppliers |-> {}]

ASSUME CachesAssumption ==
    /\ Clients \cap Suppliers = {}
    /\ Askers \in [Kinds -> SUBSET Users]
    /\ Rows \subseteq Order
    /\ Questions \in Seq(Statuses \cup {"all"}) /\ Questions # <<>>
    /\ Lifetime \in [Kinds -> Nat \ {0}]
    /\ MaxDelay \in Nat
    /\ None \notin Users \cup Statuses

(* Variant: one key for everybody. *)
KeyForAll(kind, u) == [kind |-> kind, of |-> None]

(* The statistics of all suppliers have one key, every other user has one  *)
(* of its own.  The catalogue has one for each supplier and one for all    *)
(* clients.                                                                *)
Key(kind, u) ==
    [kind |-> kind,
     of |-> CASE kind = "statistics" /\ u \in Clients -> u
              [] kind = "catalogue" /\ u \in Suppliers -> u
              [] kind = "catalogue" /\ u \in Clients -> "clients"
              [] OTHER -> None]

Keys == {Key(kind, u) : kind \in Kinds, u \in Users}

NoEntry == [age |-> 0, data |-> <<>>]

VARIABLES
    order,     \* the tables orders and order_items
    root,      \* the categories that are there and have no parent
    cache,     \* Redis
    pc,        \* the next step of each handler
    who,       \* the user who asks
    asked,     \* the kind of list
    draft,     \* the data read so far
    delay,     \* ticks since the request came
    since      \* history: ticks since the order has changed, up to Settled

asking == <<pc, who, asked, draft, delay>>
vars == <<order, root, cache, pc, who, asked, draft, delay, since>>

Settled == Lifetime["statistics"] + MaxDelay

Init ==
    /\ order = [o \in Orders |-> NoOrder]
    /\ root = {}
    /\ cache = [k \in Keys |-> NoEntry]
    /\ pc = [h \in Handlers |-> "idle"]
    /\ who = [h \in Handlers |-> None]
    /\ asked = [h \in Handlers |-> None]
    /\ draft = [h \in Handlers |-> <<>>]
    /\ delay = [h \in Handlers |-> 0]
    /\ since = [o \in Orders |-> 0]

-----------------------------------------------------------------------------
(* Helpers *)

Exists(o) == order[o] # NoOrder

(* Variant: suppliers see the orders of everybody. *)
SeenBySuppliers(u) ==
    {o \in Orders : Exists(o) /\ (u \in Clients => order[o].client = u)}

(* OrderViewSet.get_queryset *)
Seen(u) ==
    {o \in Orders :
        /\ Exists(o)
        /\ u \in Clients => order[o].client = u
        /\ u \in Suppliers => u \in order[o].suppliers}

Matches(o, q) == q \in {"all", order[o].status}

(* The number of queries a list takes. *)
Queries(kind) == IF kind = "statistics" THEN Len(Questions) ELSE 1

(* What query n finds; products are not followed. *)
Found(kind, u, n) ==
    CASE kind = "statistics" -> {o \in Seen(u) : Matches(o, Questions[n])}
      [] kind = "categories" -> root
      [] kind = "catalogue" -> {}

-----------------------------------------------------------------------------
(* GET of a list *)

(* CacheManager.get: a hit, a miss, or an error of Redis, which counts as  *)
(* a miss.  A hit of the categories answers those of the kept ids that are *)
(* still there.  A hit of the catalogue is a list where the filter backend *)
(* needs a queryset, so that the request ends with 500.                    *)
Get(h, kind, u) ==
    LET entry == cache[Key(kind, u)]
        missed == entry = NoEntry
    IN  /\ pc[h] = "idle"
        /\ \/ /\ missed \/ "fail" \in Ops
              /\ pc' = [pc EXCEPT ![h] = "read"]
              /\ draft' = draft
           \/ /\ ~missed
              /\ pc' = [pc EXCEPT ![h] =
                            IF kind = "catalogue" THEN "error" ELSE "answer"]
              /\ draft' = [draft EXCEPT ![h] = entry.data]
        /\ who' = [who EXCEPT ![h] = u]
        /\ asked' = [asked EXCEPT ![h] = kind]
        /\ UNCHANGED <<order, root, cache, delay, since>>

(* Variant: the last query is forgotten. *)
ReadOneLess(h) ==
    LET n == Len(draft[h]) + 1
    IN  /\ pc[h] = "read"
        /\ draft' = [draft EXCEPT ![h] =
                         Append(@, Found(asked[h], who[h], n))]
        /\ pc' = [pc EXCEPT ![h] =
                      IF n + 1 >= Queries(asked[h]) THEN "store" ELSE "read"]
        /\ UNCHANGED <<order, root, cache, who, asked, delay, since>>

(* The next query. *)
Read(h) ==
    LET n == Len(draft[h]) + 1
    IN  /\ pc[h] = "read"
        /\ draft' = [draft EXCEPT ![h] =
                         Append(@, Found(asked[h], who[h], n))]
        /\ pc' = [pc EXCEPT ![h] =
                      IF n = Queries(asked[h]) THEN "store" ELSE "read"]
        /\ UNCHANGED <<order, root, cache, who, asked, delay, since>>

(* CacheManager.set, which may fail. *)
Store(h) ==
    /\ pc[h] = "store"
    /\ \/ cache' = [cache EXCEPT ![Key(asked[h], who[h])] =
                        [age |-> 0, data |-> draft[h]]]
       \/ "fail" \in Ops /\ cache' = cache
    /\ pc' = [pc EXCEPT ![h] = "answer"]
    /\ UNCHANGED <<order, root, who, asked, draft, delay, since>>

Clear(h) ==
    /\ pc' = [pc EXCEPT ![h] = "idle"]
    /\ who' = [who EXCEPT ![h] = None]
    /\ asked' = [asked EXCEPT ![h] = None]
    /\ draft' = [draft EXCEPT ![h] = <<>>]
    /\ delay' = [delay EXCEPT ![h] = 0]
    /\ UNCHANGED <<order, root, cache, since>>

(* Variant: a hit makes the entry new. *)
AnswerAndRenew(h) ==
    LET k == Key(asked[h], who[h])
    IN  /\ pc[h] \in {"answer", "error"}
        /\ pc' = [pc EXCEPT ![h] = "idle"]
        /\ who' = [who EXCEPT ![h] = None]
        /\ asked' = [asked EXCEPT ![h] = None]
        /\ draft' = [draft EXCEPT ![h] = <<>>]
        /\ delay' = [delay EXCEPT ![h] = 0]
        /\ cache' = IF cache[k] = NoEntry THEN cache
                    ELSE [cache EXCEPT ![k].age = 0]
        /\ UNCHANGED <<order, root, since>>

Answer(h) == pc[h] \in {"answer", "error"} /\ Clear(h)

(* A database error, or a killed server process. *)
HandlerFails(h) == "fail" \in Ops /\ pc[h] # "idle" /\ Clear(h)

-----------------------------------------------------------------------------
(* The tables change without a word to the cache. *)

(* An order is placed, changed or deleted: users and staff may give it to  *)
(* another client, and items come and go on the admin site.                *)
ChangeOrder(o, row) ==
    /\ "orders" \in Ops
    /\ row # order[o]
    /\ order' = [order EXCEPT ![o] = row]
    /\ since' = [since EXCEPT ![o] = 0]
    /\ UNCHANGED <<root, cache, asking>>

(* An import creates a root category; staff delete it, or give it a parent *)
(* and take that away again.                                               *)
ChangeCategory(c) ==
    /\ "categories" \in Ops
    /\ root' = IF c \in root THEN root \ {c} ELSE root \cup {c}
    /\ UNCHANGED <<order, cache, asking, since>>

-----------------------------------------------------------------------------
(* Time *)

(* Variants: an entry lives one tick longer; categories live for ever. *)
AgedLate(k) ==
    LET e == cache[k]
    IN  IF e = NoEntry \/ e.age >= Lifetime[k.kind] THEN NoEntry
        ELSE [e EXCEPT !.age = @ + 1]
AgedButCategories(k) ==
    LET e == cache[k]
    IN  IF e = NoEntry \/ k.kind = "categories" THEN e
        ELSE IF e.age + 1 >= Lifetime[k.kind] THEN NoEntry
        ELSE [e EXCEPT !.age = @ + 1]

(* Redis drops an entry at the end of its lifetime. *)
Aged(k) ==
    LET e == cache[k]
    IN  IF e = NoEntry \/ e.age + 1 >= Lifetime[k.kind] THEN NoEntry
        ELSE [e EXCEPT !.age = @ + 1]

Tick ==
    /\ \A h \in Handlers : pc[h] # "idle" => delay[h] < MaxDelay
    /\ cache' = [k \in Keys |-> Aged(k)]
    /\ delay' = [h \in Handlers |-> IF pc[h] = "idle" THEN 0 ELSE delay[h] + 1]
    /\ since' = [o \in Orders |->
                    IF since[o] < Settled THEN since[o] + 1 ELSE Settled]
    /\ UNCHANGED <<order, root, pc, who, asked, draft>>

-----------------------------------------------------------------------------
Continue(h) == Read(h) \/ Store(h) \/ Answer(h)

Next ==
    \/ \E h \in Handlers :
           \/ \E kind \in Kinds : \E u \in Askers[kind] : Get(h, kind, u)
           \/ Continue(h)
           \/ HandlerFails(h)
    \/ \E o \in Orders, row \in Rows \cup {NoOrder} : ChangeOrder(o, row)
    \/ \E c \in Categories : ChangeCategory(c)
    \/ Tick

Spec == Init /\ [][Next]_vars

(* The server finishes its requests, and time passes. *)
FairSpec ==
    /\ Spec
    /\ \A h \in Handlers : WF_vars(Continue(h))
    /\ WF_vars(Tick)

-----------------------------------------------------------------------------
(* Properties *)

Data == Seq(SUBSET (Orders \cup Categories))

(* Every variable has a value of its table, request or cache entry; an     *)
(* entry is stored only when all of its queries have been made.            *)
TypeOK ==
    /\ order \in [Orders -> Order \cup {NoOrder}]
    /\ root \subseteq Categories
    /\ \A k \in Keys :
           cache[k] = NoEntry
           \/ /\ cache[k].age \in 0 .. Lifetime[k.kind] - 1
              /\ cache[k].data \in Data
              /\ Len(cache[k].data) = Queries(k.kind)
    /\ pc \in [Handlers -> {"idle", "read", "store", "answer", "error"}]
    /\ who \in [Handlers -> Users \cup {None}]
    /\ asked \in [Handlers -> Kinds \cup {None}]
    /\ draft \in [Handlers -> Data]
    /\ delay \in [Handlers -> 0 .. MaxDelay]
    /\ since \in [Orders -> 0 .. Settled]

Statistics(h) == pc[h] = "answer" /\ asked[h] = "statistics"

(* Request h is answered with statistics in this step, found or made. *)
Answered(h) == ~Statistics(h) /\ Statistics(h)'

(* The orders counted for h are such as he may see, or have been changed,  *)
(* deleted or given away within the last lifetime and request.             *)
CountsOwn(h) ==
    \A n \in DOMAIN draft[h] : \A o \in draft[h][n] :
        o \in Seen(who[h]) \/ since[o] < Settled

(* A client is answered with statistics of orders of his own, be they      *)
(* counted now or kept from another request.  An order that has been given *)
(* to another client is counted for the old one a while longer.            *)
ClientsGetTheirOwn ==
    [][\A h \in Handlers :
        Answered(h) /\ who'[h] \in Clients => CountsOwn(h)']_vars

(* What get_queryset says of suppliers: they see the orders with items of  *)
(* theirs, and so do the statistics.                                       *)
SuppliersGetTheirOwn ==
    [][\A h \in Handlers :
        Answered(h) /\ who'[h] \in Suppliers => CountsOwn(h)']_vars

(* Statistics kept for a client are right, in each of their numbers, about *)
(* an order that has not changed for the lifetime of the entry and the     *)
(* time a request takes: it is counted if and only if it is his and of the *)
(* status that is asked for.  Numbers that do not add up are no older.     *)
StatisticsNotTooOld ==
    \A u \in Clients, o \in Orders :
        LET e == cache[Key("statistics", u)]
        IN  e # NoEntry /\ since[o] = Settled =>
                \A n \in DOMAIN Questions :
                    o \in e.data[n] <=>
                        o \in Seen(u) /\ Matches(o, Questions[n])

(* A root category that stays is, from some moment on, in every list that  *)
(* is answered, although requests may store lists read before it.          *)
NewCategoryAppears ==
    \A c \in Categories :
        <>[](c \in root) =>
            <>[](\A h \in Handlers :
                    pc[h] = "answer" /\ asked[h] = "categories" =>
                        c \in draft[h][1])

(* A catalogue that answers 500 is listed again some time later, from the   *)
(* database: nothing renews its entry but a request that has got past it.  *)
CatalogueComesBack ==
    \A u \in Askers["catalogue"] :
        LET k == Key("catalogue", u)
        IN  (\E h \in Handlers : pc[h] = "error" /\ who[h] = u)
                ~> \/ cache[k] = NoEntry
                   \/ \E h \in Handlers : /\ pc[h] = "store"
                                           /\ Key(asked[h], who[h]) = k

-----------------------------------------------------------------------------
(* The statistics as they are shown, when Redis and its keys, the queries  *)
(* and the lists of other kinds are forgotten.                             *)
Book == INSTANCE StatisticsBook WITH
    Askers <- Askers["statistics"],
    Requests <- Handlers,
    Window <- Settled,
    shown <- [h \in Handlers |->
                 IF Statistics(h) THEN [to |-> who[h], list |-> draft[h]]
                 ELSE [to |-> None, list |-> <<>>]]

(* Statistics that are answered, counted now or kept from another request, *)
(* were made for one user whose numbers the asker may be shown, and are    *)
(* right, when the answer is made, about all orders that have not changed  *)
(* for one lifetime and one request.                                       *)
ImplementsStatistics == Book!Spec
=============================================================================
