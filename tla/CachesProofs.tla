---------------------------- MODULE CachesProofs ----------------------------
(* Theorems about Caches, for every set of users, orders and requests, any *)
(* statistics and any lifetimes.                                           *)
EXTENDS Caches, TLAPS

(* What a request holds at each of its steps; Redis has an entry, or none, *)
(* for each key.                                                           *)
RequestShape ==
    /\ cache = [k \in Keys |-> cache[k]]
    /\ \A h \in Handlers :
        /\ pc[h] = "idle" => draft[h] = <<>> /\ delay[h] = 0
        /\ pc[h] # "idle" => who[h] \in Users /\ asked[h] \in Kinds
        /\ pc[h] = "read" => Len(draft[h]) < Queries(asked[h])
        /\ pc[h] = "store" => Len(draft[h]) = Queries(asked[h])

TypeInv == TypeOK /\ RequestShape

USE DEF None

(* The keys of a kind, and those of the statistics.                        *)
LEMMA KeyOfKind ==
    \A kind \in Kinds, u \in Users :
        /\ Key(kind, u) \in Keys
        /\ Key(kind, u).kind = kind
  BY DEF Key, Keys

LEMMA KeyOfStatistics ==
    \A u \in Users :
        Key("statistics", u).of = IF u \in Clients THEN u ELSE None
  BY DEF Key

LEMMA QueriesPositive ==
    \A kind \in Kinds : Queries(kind) \in Nat /\ Queries(kind) > 0
<1>1. Len(Questions) \in Nat /\ Len(Questions) > 0
  BY CachesAssumption
<1> QED
  BY <1>1 DEF Queries, Kinds

(* What a query finds are orders or categories.                            *)
LEMMA FoundTyped ==
    ASSUME TypeOK, NEW kind \in Kinds, NEW u, NEW n
    PROVE  Found(kind, u, n) \in SUBSET (Orders \cup Categories)
  BY DEF TypeOK, Found, Seen, Kinds

LEMMA InitTyped == Init => TypeInv
<1> SUFFICES ASSUME Init PROVE TypeInv
  OBVIOUS
<1>1. <<>> \in Data
  BY DEF Data
<1>2. Settled \in Nat /\ MaxDelay \in Nat
  BY CachesAssumption DEF Settled, Kinds
<1>3. TypeOK
  BY <1>1, <1>2 DEF Init, TypeOK
<1>4. RequestShape
  BY DEF Init, RequestShape
<1> QED
  BY <1>3, <1>4 DEF TypeInv

LEMMA GetTyped ==
    ASSUME TypeInv, NEW h \in Handlers, NEW kind \in Kinds,
           NEW u \in Users, Get(h, kind, u)
    PROVE  TypeInv'
<1>1. Key(kind, u) \in Keys
  BY KeyOfKind
<1>2. cache[Key(kind, u)] # NoEntry => cache[Key(kind, u)].data \in Data
  BY <1>1 DEF TypeInv, TypeOK
<1>3. draft[h] = <<>>
  BY DEF Get, TypeInv, RequestShape
<1>4. TypeOK'
  BY <1>2 DEF Get, TypeInv, TypeOK
<1>5. RequestShape'
  BY <1>3, QueriesPositive DEF Get, TypeInv, TypeOK, RequestShape
<1> QED
  BY <1>4, <1>5 DEF TypeInv

LEMMA ReadTyped ==
    ASSUME TypeInv, NEW h \in Handlers, Read(h)
    PROVE  TypeInv'
<1>1. asked[h] \in Kinds /\ Len(draft[h]) < Queries(asked[h])
  BY DEF Read, TypeInv, RequestShape
<1> DEFINE found == Found(asked[h], who[h], Len(draft[h]) + 1)
<1>2. found \in SUBSET (Orders \cup Categories)
  BY <1>1, FoundTyped DEF TypeInv
<1> HIDE DEF found
<1>3. draft[h] \in Seq(SUBSET (Orders \cup Categories))
  BY DEF TypeInv, TypeOK, Data
<1>4. /\ Append(draft[h], found) \in Data
      /\ Len(Append(draft[h], found)) = Len(draft[h]) + 1
      /\ Len(draft[h]) \in Nat
  BY <1>2, <1>3 DEF Data
<1>5. draft' = [draft EXCEPT ![h] = Append(draft[h], found)]
  BY DEF Read, TypeInv, TypeOK, found
<1>6. TypeOK'
  BY <1>4, <1>5 DEF Read, TypeInv, TypeOK
<1>7. RequestShape'
  BY <1>1, <1>4, <1>5, QueriesPositive DEF Read, TypeInv, TypeOK, RequestShape
<1> QED
  BY <1>6, <1>7 DEF TypeInv

LEMMA StoreTyped ==
    ASSUME TypeInv, NEW h \in Handlers, Store(h)
    PROVE  TypeInv'
<1> DEFINE k == Key(asked[h], who[h])
<1>1. /\ asked[h] \in Kinds /\ who[h] \in Users
      /\ Len(draft[h]) = Queries(asked[h])
  BY DEF Store, TypeInv, RequestShape
<1>2. k \in Keys /\ k.kind = asked[h]
  BY <1>1, KeyOfKind
<1>3. Lifetime[asked[h]] \in Nat \ {0}
  BY <1>1, CachesAssumption
<1>4. \/ cache' = [cache EXCEPT ![k] = [age |-> 0, data |-> draft[h]]]
      \/ cache' = cache
  BY DEF Store
<1> HIDE DEF k
<1>5. \A i \in Keys :
          \/ cache'[i] = cache[i]
          \/ i = k /\ cache'[i] = [age |-> 0, data |-> draft[h]]
  BY <1>2, <1>4 DEF TypeInv, RequestShape
<1>6. \A i \in Keys :
          cache'[i] = NoEntry
          \/ /\ cache'[i].age \in 0 .. Lifetime[i.kind] - 1
             /\ cache'[i].data \in Data
             /\ Len(cache'[i].data) = Queries(i.kind)
  <2> TAKE i \in Keys
  <2>1. CASE cache'[i] = cache[i]
    BY <2>1 DEF TypeInv, TypeOK
  <2>2. CASE i = k /\ cache'[i] = [age |-> 0, data |-> draft[h]]
    BY <2>2, <1>1, <1>2, <1>3 DEF TypeInv, TypeOK
  <2> QED
    BY <2>1, <2>2, <1>5
<1>7. TypeOK'
  BY <1>6 DEF Store, TypeInv, TypeOK
<1>8. RequestShape'
  BY <1>2, <1>4 DEF Store, TypeInv, TypeOK, RequestShape
<1> QED
  BY <1>7, <1>8 DEF TypeInv

LEMMA ClearTyped ==
    ASSUME TypeInv, NEW h \in Handlers, Clear(h)
    PROVE  TypeInv'
<1>1. <<>> \in Data /\ MaxDelay \in Nat
  BY CachesAssumption DEF Data
<1>2. TypeOK'
  BY <1>1 DEF Clear, TypeInv, TypeOK
<1>3. RequestShape'
  BY DEF Clear, TypeInv, TypeOK, RequestShape
<1> QED
  BY <1>2, <1>3 DEF TypeInv

(* An entry is a tick older, or gone.                                      *)
LEMMA AgedEntry ==
    ASSUME TypeInv, Tick, NEW k \in Keys
    PROVE  \/ cache'[k] = NoEntry
           \/ /\ cache[k] # NoEntry
              /\ cache'[k].age = cache[k].age + 1
              /\ cache'[k].age \in 0 .. Lifetime[k.kind] - 1
              /\ cache'[k].data = cache[k].data
<1>1. cache'[k] = Aged(k)
  BY DEF Tick
<1>2. CASE cache[k] = NoEntry \/ cache[k].age + 1 >= Lifetime[k.kind]
  BY <1>1, <1>2 DEF Aged
<1>3. CASE ~(cache[k] = NoEntry \/ cache[k].age + 1 >= Lifetime[k.kind])
  <2>1. PICK kind \in Kinds, u \in Users : k = Key(kind, u)
    BY DEF Keys
  <2>. k.kind \in Kinds
    BY <2>1, KeyOfKind
  <2>2. Lifetime[k.kind] \in Nat
    BY CachesAssumption
  <2>3. cache[k].age \in 0 .. Lifetime[k.kind] - 1
    BY <1>3 DEF TypeInv, TypeOK
  <2>4. cache'[k] = [cache[k] EXCEPT !.age = @ + 1]
    BY <1>1, <1>3 DEF Aged
  <2> QED
    BY <2>2, <2>3, <2>4, <1>3
<1> QED
  BY <1>2, <1>3

LEMMA TickTyped ==
    ASSUME TypeInv, Tick
    PROVE  TypeInv'
<1>1. Settled \in Nat /\ MaxDelay \in Nat
  BY CachesAssumption DEF Settled, Kinds
<1>2. \A k \in Keys :
          cache'[k] = NoEntry
          \/ /\ cache'[k].age \in 0 .. Lifetime[k.kind] - 1
             /\ cache'[k].data \in Data
             /\ Len(cache'[k].data) = Queries(k.kind)
  BY AgedEntry DEF TypeInv, TypeOK
<1>3. delay' \in [Handlers -> 0 .. MaxDelay] /\ since' \in [Orders -> 0 .. Settled]
  BY <1>1 DEF Tick, TypeInv, TypeOK
<1>4. TypeOK'
  BY <1>2, <1>3 DEF Tick, TypeInv, TypeOK
<1>5. RequestShape'
  BY DEF Tick, TypeInv, TypeOK, RequestShape
<1> QED
  BY <1>4, <1>5 DEF TypeInv

(* Every step keeps the types and what a request holds.                    *)
LEMMA NextTyped == TypeInv /\ [Next]_vars => TypeInv'
<1> SUFFICES ASSUME TypeInv, [Next]_vars PROVE TypeInv'
  OBVIOUS
<1>1. ASSUME NEW h \in Handlers, NEW kind \in Kinds, NEW u \in Askers[kind],
             Get(h, kind, u)
      PROVE  TypeInv'
  <2>1. u \in Users
    BY CachesAssumption
  <2> QED
    BY <1>1, <2>1, GetTyped
<1>2. ASSUME NEW h \in Handlers, Continue(h) \/ HandlerFails(h) PROVE TypeInv'
  <2>1. CASE Read(h)
    BY <2>1, ReadTyped
  <2>2. CASE Store(h)
    BY <2>2, StoreTyped
  <2>3. CASE Answer(h) \/ HandlerFails(h)
    BY <2>3, ClearTyped DEF Answer, HandlerFails
  <2> QED
    BY <1>2, <2>1, <2>2, <2>3 DEF Continue
<1>3. ASSUME NEW o \in Orders, NEW row \in Rows \cup {NoOrder},
             ChangeOrder(o, row)
      PROVE  TypeInv'
  <2>1. Settled \in Nat /\ row \in Order \cup {NoOrder}
    BY CachesAssumption DEF Settled, Kinds
  <2> QED
    BY <1>3, <2>1 DEF ChangeOrder, asking, TypeInv, TypeOK, RequestShape
<1>4. ASSUME NEW c \in Categories, ChangeCategory(c) PROVE TypeInv'
  BY <1>4 DEF ChangeCategory, asking, TypeInv, TypeOK, RequestShape
<1>5. CASE Tick
  BY <1>5, TickTyped
<1>6. CASE UNCHANGED vars
  BY <1>6 DEF vars, TypeInv, TypeOK, RequestShape
<1> QED
  BY <1>1, <1>2, <1>3, <1>4, <1>5, <1>6 DEF Next

(* Tables, entries and requests hold what they are made for, whatever      *)
(* Redis and the database do (CacheManager.get and set, get_or_set).       *)
THEOREM TypeCorrect == Spec => [](TypeOK /\ RequestShape)
<1>1. TypeInv => TypeOK /\ RequestShape
  BY DEF TypeInv
<1> QED
  BY <1>1, InitTyped, NextTyped, PTL DEF Spec

-----------------------------------------------------------------------------
(* Statistics *)

(* The users whose statistics u may be shown, and the orders that query n  *)
(* of v counts.                                                            *)
Peers(u) == Book!Peers(u)
Counted(v, n, o) == Book!Counts(v, Questions[n], o)

(* d counts orders. *)
OfOrders(d) == \A n \in DOMAIN d : d[n] \subseteq Orders

(* d is right for v, in each number there is, about the orders that have   *)
(* not changed for more than t ticks.                                      *)
RightAbout(d, v, t) ==
    \A o \in Orders : since[o] > t =>
        \A n \in DOMAIN d : o \in d[n] <=> Counted(v, n, o)

MadeFor(d, v, t) == OfOrders(d) /\ RightAbout(d, v, t)

(* An entry was made for somebody whose numbers its askers may be shown,   *)
(* and a request makes its own.  What it has got from Redis is not stored. *)
EntriesInv ==
    \A u \in Users :
        LET e == cache[Key("statistics", u)]
        IN  e # NoEntry =>
                \E v \in Peers(u) : MadeFor(e.data, v, e.age + MaxDelay)

RequestsInv ==
    \A h \in Handlers : asked[h] = "statistics" =>
        /\ who[h] \in Askers["statistics"]
        /\ pc[h] \in {"read", "store"} =>
               MadeFor(draft[h], who[h], delay[h])

PeerInv == EntriesInv /\ RequestsInv

(* Who asks may be shown what is made for him, and so may everybody who    *)
(* finds it under the same key.                                            *)
LEMMA OwnPeer == \A u \in Askers["statistics"] : u \in Peers(u)
  BY DEF Peers, Book!Peers

LEMMA AskersAreUsers == Askers["statistics"] \subseteq Users
  BY CachesAssumption DEF Kinds

LEMMA CountedSeen ==
    \A v, n : \A o \in Orders :
        Counted(v, n, o) <=> o \in Seen(v) /\ Matches(o, Questions[n])
  BY DEF Counted, Book!Counts, Book!NoOrder, Book!None, NoOrder, Seen, Exists,
         Matches

LEMMA SameKey ==
    ASSUME NEW u \in Users, NEW v \in Users, NEW kind \in Kinds,
           v \in Askers["statistics"], Key(kind, v) = Key("statistics", u)
    PROVE  kind = "statistics" /\ v \in Peers(u)
<1>1. "statistics" \in Kinds
  BY DEF Kinds
<1>2. kind = "statistics"
  BY <1>1, KeyOfKind
<1>3. Key("statistics", v).of = Key("statistics", u).of
  BY <1>2
<1>4. None # u /\ None # v
  BY <1>1, CachesAssumption
<1>5. v \in Clients \/ u \in Clients => v = u
  BY <1>3, <1>4, KeyOfStatistics
<1>6. v \in Clients \/ v \in Suppliers
  BY DEF Users
<1>7. u \in Clients \/ u \in Suppliers
  BY DEF Users
<1>8. v \in Peers(u)
  BY <1>5, <1>6, <1>7 DEF Peers, Book!Peers
<1> QED
  BY <1>2, <1>8

LEMMA InitPeer == Init => PeerInv
  BY KeyOfKind DEF Init, PeerInv, EntriesInv, RequestsInv, Kinds

LEMMA GetPeer ==
    ASSUME TypeInv, PeerInv, NEW h \in Handlers, NEW kind \in Kinds,
           NEW u \in Askers[kind], u \in Users, Get(h, kind, u)
    PROVE  PeerInv'
<1>1. \A g \in Handlers \ {h} :
          /\ who'[g] = who[g] /\ asked'[g] = asked[g]
          /\ draft'[g] = draft[g] /\ pc'[g] = pc[g]
  BY DEF Get, TypeInv, TypeOK
<1>2. who'[h] = u /\ asked'[h] = kind /\ UNCHANGED <<order, cache, delay, since>>
  BY DEF Get, TypeInv, TypeOK
<1>3. \/ draft'[h] = <<>> /\ pc'[h] = "read"
      \/ /\ draft'[h] = cache[Key(kind, u)].data /\ cache[Key(kind, u)] # NoEntry
         /\ pc'[h] \in {"answer", "error"}
  BY DEF Get, TypeInv, TypeOK, RequestShape
<1>5. pc'[h] \in {"read", "store"} => draft'[h] = <<>>
  BY <1>3
<1>6. OfOrders(<<>>)
  BY DEF OfOrders
<1>8. EntriesInv'
  BY <1>2 DEF PeerInv, EntriesInv, MadeFor, OfOrders, RightAbout, Counted,
              Book!Counts
<1>9. ASSUME NEW g \in Handlers, asked'[g] = "statistics"
      PROVE  /\ who'[g] \in Askers["statistics"]
             /\ pc'[g] \in {"read", "store"} => MadeFor(draft[g], who[g], delay[g])'
  <2>1. CASE g = h
    BY <2>1, <1>2, <1>5, <1>6, <1>9 DEF MadeFor, OfOrders, RightAbout
  <2>2. CASE g # h
    <3>1. /\ asked[g] = "statistics"
          /\ pc[g] \in {"read", "store"} => MadeFor(draft[g], who[g], delay[g])
      BY <2>2, <1>1, <1>9 DEF PeerInv, RequestsInv
    <3> QED
      BY <2>2, <3>1, <1>1, <1>2, <1>9
      DEF PeerInv, RequestsInv, MadeFor, OfOrders, RightAbout, Counted, Book!Counts
  <2> QED
    BY <2>1, <2>2
<1> QED
  BY <1>8, <1>9 DEF PeerInv, RequestsInv

LEMMA ReadPeer ==
    ASSUME TypeInv, PeerInv, NEW h \in Handlers, Read(h)
    PROVE  PeerInv'
<1> DEFINE u == who[h]
           n == Len(draft[h]) + 1
<1>1. /\ asked[h] \in Kinds /\ who[h] \in Users
      /\ draft[h] \in Seq(SUBSET (Orders \cup Categories))
  BY DEF Read, TypeInv, TypeOK, RequestShape, Data
<1>2. /\ \A g \in Handlers \ {h} : draft'[g] = draft[g] /\ pc'[g] = pc[g]
      /\ draft'[h] = Append(draft[h], Found(asked[h], u, n))
      /\ pc'[h] \in {"read", "store"}
      /\ UNCHANGED <<order, cache, who, asked, delay, since>>
  BY DEF Read, TypeInv, TypeOK
<1>3. ASSUME asked[h] = "statistics"
      PROVE  OfOrders(draft'[h]) /\ RightAbout(draft'[h], u, delay[h])
  <2>1. Found(asked[h], u, n) = {o \in Seen(u) : Matches(o, Questions[n])}
    BY <1>3 DEF Found
  <2>2. \A o : o \in Found(asked[h], u, n) <=> o \in Orders /\ Counted(u, n, o)
    <3>1. \A o : o \in Found(asked[h], u, n) <=>
                     /\ o \in Orders /\ o \in Seen(u)
                     /\ Matches(o, Questions[n])
      BY <2>1 DEF Seen
    <3> QED
      BY <3>1, CountedSeen
  <2>3. \A i \in DOMAIN draft'[h] :
            \/ i \in DOMAIN draft[h] /\ draft'[h][i] = draft[h][i]
            \/ i = n /\ draft'[h][i] = Found(asked[h], u, n)
    <3> HIDE DEF u
    <3> DEFINE f == Found(asked[h], u, n)
    <3>1. draft'[h] = Append(draft[h], f)
      BY <1>2
    <3> HIDE DEF f
    <3>2. \A i \in DOMAIN draft'[h] :
              \/ i \in DOMAIN draft[h] /\ draft'[h][i] = draft[h][i]
              \/ i = n /\ draft'[h][i] = f
      BY <1>1, <3>1
    <3> QED
      BY <3>2 DEF f
  <2>4. OfOrders(draft[h]) /\ RightAbout(draft[h], u, delay[h])
    BY <1>3 DEF PeerInv, RequestsInv, MadeFor, Read
  <2> HIDE DEF u, n
  <2>5. OfOrders(draft'[h])
    BY <2>2, <2>3, <2>4 DEF OfOrders
  <2>6. RightAbout(draft'[h], u, delay[h])
    BY <2>2, <2>3, <2>4 DEF RightAbout
  <2> QED
    BY <2>5, <2>6
<1> HIDE DEF n
<1>4. EntriesInv'
  BY <1>2 DEF PeerInv, EntriesInv, MadeFor, OfOrders, RightAbout, Counted, Book!Counts
<1>5. RequestsInv'
  BY <1>2, <1>3 DEF PeerInv, RequestsInv, MadeFor, OfOrders, RightAbout, Counted, Book!Counts
<1> QED
  BY <1>4, <1>5 DEF PeerInv

LEMMA StorePeer ==
    ASSUME TypeInv, PeerInv, NEW h \in Handlers, Store(h)
    PROVE  PeerInv'
<1> DEFINE k == Key(asked[h], who[h])
<1>1. /\ asked[h] \in Kinds /\ who[h] \in Users /\ pc[h] = "store"
      /\ delay[h] \in 0 .. MaxDelay /\ MaxDelay \in Nat
      /\ k \in Keys
  BY CachesAssumption, KeyOfKind DEF Store, TypeInv, TypeOK, RequestShape
<1>2. /\ UNCHANGED <<order, who, asked, draft, delay, since>>
      /\ pc'[h] = "answer"
      /\ \A g \in Handlers \ {h} : pc'[g] = pc[g]
  BY DEF Store, TypeInv, TypeOK
<1>3. \A i \in Keys : \/ cache'[i] = cache[i]
                      \/ i = k /\ cache'[i] = [age |-> 0, data |-> draft[h]]
  BY <1>1 DEF Store, TypeInv, RequestShape
<1>4. \A o \in Orders : since[o] \in Nat
  BY CachesAssumption DEF TypeInv, TypeOK, Settled, Kinds
<1>5. ASSUME NEW u \in Users, cache'[Key("statistics", u)] # NoEntry
      PROVE  LET e == cache'[Key("statistics", u)]
             IN  \E v \in Peers(u) : MadeFor(e.data, v, e.age + MaxDelay)
  <2>1. Key("statistics", u) \in Keys
    BY KeyOfKind DEF Kinds
  <2>2. CASE cache'[Key("statistics", u)] = cache[Key("statistics", u)]
    BY <1>5, <2>2 DEF PeerInv, EntriesInv
  <2>3. CASE /\ Key("statistics", u) = k
             /\ cache'[k] = [age |-> 0, data |-> draft[h]]
    <3>1. asked[h] = "statistics"
      BY <1>1, <2>3, KeyOfKind DEF Kinds
    <3>2. /\ who[h] \in Askers["statistics"]
          /\ OfOrders(draft[h]) /\ RightAbout(draft[h], who[h], delay[h])
      BY <1>1, <3>1 DEF PeerInv, RequestsInv, MadeFor
    <3>3. who[h] \in Peers(u)
      BY <1>1, <2>3, <3>2, SameKey
    <3>4. RightAbout(draft[h], who[h], 0 + MaxDelay)
      BY <1>1, <1>4, <3>2 DEF RightAbout
    <3> QED
      BY <2>3, <3>2, <3>3, <3>4 DEF MadeFor
  <2> QED
    BY <1>3, <2>1, <2>2, <2>3
<1>6. EntriesInv'
  BY <1>2, <1>5 DEF EntriesInv, MadeFor, OfOrders, RightAbout, Counted, Book!Counts
<1>8. RequestsInv'
  BY <1>2 DEF PeerInv, RequestsInv, MadeFor, OfOrders, RightAbout, Counted, Book!Counts
<1> QED
  BY <1>6, <1>8 DEF PeerInv

LEMMA ClearPeer ==
    ASSUME TypeInv, PeerInv, NEW h \in Handlers, Clear(h)
    PROVE  PeerInv'
<1>1. /\ \A g \in Handlers \ {h} :
             /\ who'[g] = who[g] /\ asked'[g] = asked[g]
             /\ draft'[g] = draft[g] /\ pc'[g] = pc[g] /\ delay'[g] = delay[g]
      /\ asked'[h] = None
      /\ UNCHANGED <<order, cache, since>>
  BY DEF Clear, TypeInv, TypeOK
<1>2. EntriesInv'
  BY <1>1 DEF PeerInv, EntriesInv, MadeFor, OfOrders, RightAbout, Counted, Book!Counts
<1>3. RequestsInv'
  BY <1>1 DEF PeerInv, RequestsInv, MadeFor, OfOrders, RightAbout, Counted, Book!Counts
<1> QED
  BY <1>2, <1>3 DEF PeerInv

(* A change makes the order too young for every promise. *)
LEMMA ChangePeer ==
    ASSUME TypeInv, PeerInv, NEW o \in Orders, NEW row, ChangeOrder(o, row)
    PROVE  PeerInv'
<1>1. /\ UNCHANGED <<cache, pc, who, asked, draft, delay>>
      /\ since'[o] = 0
      /\ \A p \in Orders \ {o} : order'[p] = order[p] /\ since'[p] = since[p]
  BY DEF ChangeOrder, asking, TypeInv, TypeOK
<1>2. ASSUME NEW d, NEW v, NEW t \in Nat, RightAbout(d, v, t)
      PROVE  \A p \in Orders : since'[p] > t =>
                 \A n \in DOMAIN d : p \in d[n] <=> Counted(v, n, p)'
  BY <1>1, <1>2 DEF RightAbout, Counted, Book!Counts
<1>3. /\ \A h \in Handlers : delay[h] \in Nat
      /\ \A u \in Users :
             LET e == cache[Key("statistics", u)]
             IN  e # NoEntry => e.age + MaxDelay \in Nat
  BY CachesAssumption, KeyOfKind DEF TypeInv, TypeOK, Kinds
<1>4. EntriesInv'
  BY <1>1, <1>2, <1>3 DEF PeerInv, EntriesInv, MadeFor, OfOrders, RightAbout, Counted, Book!Counts
<1>5. RequestsInv'
  BY <1>1, <1>2, <1>3 DEF PeerInv, RequestsInv, MadeFor, OfOrders, RightAbout, Counted, Book!Counts
<1> QED
  BY <1>4, <1>5 DEF PeerInv

LEMMA TickPeer ==
    ASSUME TypeInv, PeerInv, Tick
    PROVE  PeerInv'
<1>1. UNCHANGED <<order, who, asked, draft, pc>>
  BY DEF Tick
<1>2. MaxDelay \in Nat /\ Lifetime["statistics"] \in Nat /\ Settled \in Nat
  BY CachesAssumption DEF Kinds, Settled
<1>3. \A o \in Orders :
          /\ since[o] \in 0 .. Settled
          /\ since'[o] = IF since[o] < Settled THEN since[o] + 1 ELSE Settled
  BY DEF Tick, TypeInv, TypeOK
<1>4. ASSUME NEW d, NEW v, NEW t \in Nat, t < Settled, RightAbout(d, v, t)
      PROVE  \A o \in Orders : since'[o] > t + 1 =>
                 \A n \in DOMAIN d : o \in d[n] <=> Counted(v, n, o)
  BY <1>2, <1>3, <1>4 DEF RightAbout
<1>5. ASSUME NEW u \in Users, cache'[Key("statistics", u)] # NoEntry
      PROVE  LET e == cache'[Key("statistics", u)]
             IN  \E v \in Peers(u) :
                     /\ OfOrders(e.data)
                     /\ \A o \in Orders : since'[o] > e.age + MaxDelay =>
                            \A n \in DOMAIN e.data :
                                o \in e.data[n] <=> Counted(v, n, o)
  <2> DEFINE k == Key("statistics", u)
  <2>1. k \in Keys /\ k.kind = "statistics"
    BY KeyOfKind DEF Kinds
  <2>2. /\ cache[k] # NoEntry
        /\ cache'[k].age = cache[k].age + 1
        /\ cache'[k].age \in 0 .. Lifetime[k.kind] - 1
        /\ cache'[k].data = cache[k].data
    BY <1>5, <2>1, AgedEntry
  <2>3. PICK v \in Peers(u) : /\ OfOrders(cache[k].data)
                              /\ RightAbout(cache[k].data, v, cache[k].age + MaxDelay)
    BY <2>2 DEF PeerInv, EntriesInv, MadeFor
  <2>4. cache[k].age \in Nat
    BY <2>1, <2>2 DEF TypeInv, TypeOK
  <2> HIDE DEF k
  <2>5. /\ cache[k].age + MaxDelay \in Nat
        /\ cache[k].age + MaxDelay < Settled
        /\ cache'[k].age + MaxDelay = cache[k].age + MaxDelay + 1
    BY <1>2, <2>1, <2>2, <2>4 DEF Settled
  <2>6. \A o \in Orders : since'[o] > cache'[k].age + MaxDelay =>
            \A n \in DOMAIN cache'[k].data :
                o \in cache'[k].data[n] <=> Counted(v, n, o)
    BY <1>4, <2>2, <2>3, <2>5
  <2> QED
    BY <2>2, <2>3, <2>6 DEF k
<1>6. ASSUME NEW h \in Handlers, asked[h] = "statistics", pc[h] \in {"read", "store"}
      PROVE  MadeFor(draft[h], who[h], delay[h])'
  <2>1. OfOrders(draft[h]) /\ RightAbout(draft[h], who[h], delay[h])
    BY <1>6 DEF PeerInv, RequestsInv, MadeFor
  <2>2. delay[h] < MaxDelay /\ delay[h] \in Nat /\ delay'[h] = delay[h] + 1
    BY <1>2, <1>6 DEF Tick, TypeInv, TypeOK
  <2>3. delay[h] < Settled
    BY <1>2, <2>2 DEF Settled
  <2>4. \A o \in Orders : since'[o] > delay'[h] =>
            \A n \in DOMAIN draft[h] :
                o \in draft[h][n] <=> Counted(who[h], n, o)
    BY <1>4, <2>1, <2>2, <2>3
  <2> QED
    BY <1>1, <2>1, <2>4 DEF MadeFor, OfOrders, RightAbout, Counted, Book!Counts
<1>7. EntriesInv'
  BY <1>1, <1>5 DEF EntriesInv, MadeFor, OfOrders, RightAbout, Counted, Book!Counts
<1>8. RequestsInv'
  BY <1>1, <1>6 DEF PeerInv, RequestsInv
<1> QED
  BY <1>7, <1>8 DEF PeerInv

LEMMA NextPeer == TypeInv /\ PeerInv /\ [Next]_vars => PeerInv'
<1> SUFFICES ASSUME TypeInv, PeerInv, [Next]_vars PROVE PeerInv'
  OBVIOUS
<1>1. ASSUME NEW h \in Handlers, NEW kind \in Kinds, NEW u \in Askers[kind],
             Get(h, kind, u)
      PROVE  PeerInv'
  <2>1. u \in Users
    BY CachesAssumption
  <2> QED
    BY <1>1, <2>1, GetPeer
<1>2. ASSUME NEW h \in Handlers, Continue(h) \/ HandlerFails(h) PROVE PeerInv'
  <2>1. CASE Read(h)
    BY <2>1, ReadPeer
  <2>2. CASE Store(h)
    BY <2>2, StorePeer
  <2>3. CASE Answer(h) \/ HandlerFails(h)
    BY <2>3, ClearPeer DEF Answer, HandlerFails
  <2> QED
    BY <1>2, <2>1, <2>2, <2>3 DEF Continue
<1>3. ASSUME NEW o \in Orders, NEW row \in Rows \cup {NoOrder},
             ChangeOrder(o, row)
      PROVE  PeerInv'
  BY <1>3, ChangePeer
<1>4. CASE UNCHANGED vars \/ \E c \in Categories : ChangeCategory(c)
  <2>1. UNCHANGED <<order, cache, asking, since>>
    BY <1>4 DEF vars, asking, ChangeCategory
  <2> QED
    BY <2>1 DEF asking, PeerInv, EntriesInv, RequestsInv, MadeFor, OfOrders,
                RightAbout, Counted, Book!Counts
<1>5. CASE Tick
  BY <1>5, TickPeer
<1> QED
  BY <1>1, <1>2, <1>3, <1>4, <1>5 DEF Next

(* Whatever is kept, being read or answered as statistics was made for ONE *)
(* user, a peer of all who may find it, and is right about every order     *)
(* that has not changed since it was begun: the strengthening from which   *)
(* the theorems below follow.                                              *)
THEOREM PeerCorrect == Spec => [](TypeInv /\ PeerInv)
  BY InitTyped, NextTyped, InitPeer, NextPeer, PTL DEF Spec

(* Every entry of the statistics has an answer to each question, and is    *)
(* younger than Settled is far back.                                       *)
LEMMA EntryOfStatistics ==
    ASSUME TypeInv, NEW u \in Users, cache[Key("statistics", u)] # NoEntry
    PROVE  LET e == cache[Key("statistics", u)]
           IN  /\ e.data \in Data /\ Len(e.data) = Len(Questions)
               /\ e.age + MaxDelay \in Nat
               /\ e.age + MaxDelay < Settled
<1> DEFINE e == cache[Key("statistics", u)]
<1>1. Key("statistics", u) \in Keys /\ Key("statistics", u).kind = "statistics"
  BY KeyOfKind DEF Kinds
<1>2. e.age \in 0 .. Lifetime["statistics"] - 1 /\ e.data \in Data
      /\ Len(e.data) = Len(Questions)
  BY <1>1 DEF TypeInv, TypeOK, Queries
<1> QED
  BY <1>2, CachesAssumption DEF Settled, Kinds

(* What a request is answered with was made for a peer of who asks, within *)
(* one lifetime and one request.                                           *)
LEMMA AnsweredMade ==
    ASSUME TypeInv, PeerInv, [Next]_vars, NEW h \in Handlers, Answered(h)
    PROVE  /\ who'[h] \in Askers["statistics"]
           /\ UNCHANGED <<order, since>>
           /\ \E v \in Peers(who'[h]), t \in Nat :
                  t < Settled /\ MadeFor(draft'[h], v, t)
<1>0. /\ pc'[h] = "answer" /\ asked'[h] = "statistics"
      /\ ~(pc[h] = "answer" /\ asked[h] = "statistics")
  BY DEF Answered, Statistics
<1>1. ASSUME NEW g \in Handlers, NEW kind \in Kinds, NEW u \in Askers[kind],
             Get(g, kind, u)
      PROVE  g = h /\ kind = "statistics"
  BY <1>0, <1>1 DEF Get, TypeInv, TypeOK
<1>2. ASSUME NEW u \in Askers["statistics"], Get(h, "statistics", u)
      PROVE  /\ who'[h] \in Askers["statistics"]
             /\ UNCHANGED <<order, since>>
             /\ \E v \in Peers(who'[h]), t \in Nat :
                    t < Settled /\ MadeFor(draft'[h], v, t)
  <2> DEFINE e == cache[Key("statistics", u)]
  <2>1. /\ e # NoEntry /\ draft'[h] = e.data /\ who'[h] = u
        /\ UNCHANGED <<order, since>>
    BY <1>0, <1>2 DEF Get, TypeInv, TypeOK
  <2>2. u \in Users
    BY AskersAreUsers
  <2>3. PICK v \in Peers(u) : MadeFor(e.data, v, e.age + MaxDelay)
    BY <2>1, <2>2 DEF PeerInv, EntriesInv
  <2>4. e.age + MaxDelay \in Nat /\ e.age + MaxDelay < Settled
    BY <2>1, <2>2, EntryOfStatistics
  <2> HIDE DEF e
  <2> QED
    BY <2>1, <2>3, <2>4
<1>3. ASSUME NEW g \in Handlers, Continue(g) \/ HandlerFails(g)
      PROVE  g = h /\ Store(h)
  BY <1>0, <1>3
  DEF Continue, Read, Store, Answer, HandlerFails, Clear, TypeInv, TypeOK
<1>4. ASSUME Store(h)
      PROVE  /\ who'[h] \in Askers["statistics"]
             /\ UNCHANGED <<order, since>>
             /\ \E v \in Peers(who'[h]), t \in Nat :
                    t < Settled /\ MadeFor(draft'[h], v, t)
  <2>1. /\ UNCHANGED <<order, since, who, asked, draft>>
        /\ pc[h] = "store" /\ asked[h] = "statistics"
    BY <1>0, <1>4 DEF Store
  <2>2. who[h] \in Askers["statistics"] /\ MadeFor(draft[h], who[h], delay[h])
    BY <2>1 DEF PeerInv, RequestsInv
  <2>3. delay[h] \in Nat /\ delay[h] < Settled
    BY CachesAssumption DEF TypeInv, TypeOK, Settled, Kinds
  <2> QED
    BY <2>1, <2>2, <2>3, OwnPeer
<1>5. ASSUME NEW o \in Orders, NEW row, ChangeOrder(o, row) PROVE FALSE
  BY <1>0, <1>5 DEF ChangeOrder, asking
<1>6. ASSUME NEW c \in Categories, ChangeCategory(c) PROVE FALSE
  BY <1>0, <1>6 DEF ChangeCategory, asking
<1>7. ~Tick /\ ~UNCHANGED vars
  BY <1>0 DEF Tick, vars
<1> QED
  BY <1>1, <1>2, <1>3, <1>4, <1>5, <1>6, <1>7 DEF Next

(* A list that is right for who asks counts what he may see, or what has   *)
(* changed.                                                                *)
LEMMA RightIsOwn ==
    ASSUME TypeInv, UNCHANGED <<order, since>>, NEW h \in Handlers,
           NEW t \in Nat, t < Settled, MadeFor(draft'[h], who'[h], t)
    PROVE  CountsOwn(h)'
<1>1. \A o \in Orders : since[o] \in Nat /\ Settled \in Nat
  BY CachesAssumption DEF Settled, Kinds, TypeInv, TypeOK
<1>2. ASSUME NEW n \in DOMAIN draft'[h], NEW o \in draft'[h][n],
             ~(since[o] < Settled)
      PROVE  o \in Seen(who'[h])
  <2>1. o \in Orders
    BY DEF MadeFor, OfOrders
  <2>2. since[o] > t
    BY <1>1, <1>2, <2>1
  <2> QED
    BY <2>1, <2>2, CountedSeen DEF MadeFor, RightAbout
<1>3. Seen(who[h])' = Seen(who'[h])
  BY DEF Seen, Exists
<1> QED
  BY <1>2, <1>3 DEF CountsOwn

(* A client is answered with statistics of orders of his own only: no      *)
(* other user has his key, and he has no other (CacheKeyBuilder).  An      *)
(* order he has lost is counted for the length of a lifetime and a request *)
(* after that at most.                                                     *)
THEOREM OwnCorrect == Spec => ClientsGetTheirOwn
<1>1. ASSUME TypeInv, PeerInv, [Next]_vars, NEW h \in Handlers, Answered(h),
             who'[h] \in Clients
      PROVE  CountsOwn(h)'
  <2>1. PICK v \in Peers(who'[h]), t \in Nat :
            t < Settled /\ MadeFor(draft'[h], v, t)
    BY <1>1, AnsweredMade
  <2>2. v = who'[h] /\ UNCHANGED <<order, since>>
    BY <1>1, <2>1, AnsweredMade, CachesAssumption DEF Peers, Book!Peers
  <2> QED
    BY <1>1, <2>1, <2>2, RightIsOwn
<1>2. TypeInv /\ PeerInv /\ [Next]_vars =>
          [\A h \in Handlers :
               Answered(h) /\ who'[h] \in Clients => CountsOwn(h)']_vars
  BY <1>1
<1> QED
  BY <1>2, PeerCorrect, PTL DEF Spec, ClientsGetTheirOwn

(* What the shared key needs to be right: where one supplier at most asks  *)
(* for statistics, he is answered with those of his own orders.            *)
THEOREM LoneSupplierCorrect ==
    ASSUME \A s, t \in Suppliers \cap Askers["statistics"] : s = t
    PROVE  Spec => SuppliersGetTheirOwn
<1>1. ASSUME TypeInv, PeerInv, [Next]_vars, NEW h \in Handlers, Answered(h),
             who'[h] \in Suppliers
      PROVE  CountsOwn(h)'
  <2>1. PICK v \in Peers(who'[h]), t \in Nat :
            t < Settled /\ MadeFor(draft'[h], v, t)
    BY <1>1, AnsweredMade
  <2>2. v = who'[h] /\ UNCHANGED <<order, since>>
    BY <1>1, <2>1, AnsweredMade DEF Peers, Book!Peers
  <2> QED
    BY <1>1, <2>1, <2>2, RightIsOwn
<1>2. TypeInv /\ PeerInv /\ [Next]_vars =>
          [\A h \in Handlers :
               Answered(h) /\ who'[h] \in Suppliers => CountsOwn(h)']_vars
  BY <1>1
<1> QED
  BY <1>2, PeerCorrect, PTL DEF Spec, SuppliersGetTheirOwn

(* An entry was read when it is at most its age and one request old, so it *)
(* is right about orders that have not changed for longer.                 *)
THEOREM AgeCorrect == Spec => []StatisticsNotTooOld
<1>1. TypeInv /\ PeerInv => StatisticsNotTooOld
  <2> SUFFICES ASSUME TypeInv, PeerInv, NEW u \in Clients, NEW o \in Orders,
                      cache[Key("statistics", u)] # NoEntry,
                      since[o] = Settled, NEW n \in DOMAIN Questions
               PROVE  o \in cache[Key("statistics", u)].data[n]
                          <=> o \in Seen(u) /\ Matches(o, Questions[n])
    BY DEF StatisticsNotTooOld
  <2> DEFINE e == cache[Key("statistics", u)]
  <2>1. u \in Users /\ u \notin Suppliers
    BY CachesAssumption DEF Users
  <2>2. e.data \in Data /\ Len(e.data) = Len(Questions)
        /\ e.age + MaxDelay \in Nat /\ since[o] > e.age + MaxDelay
    BY <2>1, EntryOfStatistics
  <2>3. n \in DOMAIN e.data
    BY <2>2, CachesAssumption DEF Data
  <2>4. RightAbout(e.data, u, e.age + MaxDelay)
    BY <2>1 DEF PeerInv, EntriesInv, MadeFor, Peers, Book!Peers
  <2> QED
    BY <2>2, <2>3, <2>4, CountedSeen DEF RightAbout
<1> QED
  BY <1>1, PeerCorrect, PTL

-----------------------------------------------------------------------------
(* Caches implements StatisticsBook. *)

USE DEF Book!None, Book!Nothing

(* What request h shows. *)
Shown(h) == IF Statistics(h) THEN [to |-> who[h], list |-> draft[h]]
            ELSE [to |-> None, list |-> <<>>]

(* A list with a number for each question, made for a peer of u no longer  *)
(* than Settled ago, may be shown to u.                                    *)
LEMMA ShowsFresh ==
    ASSUME NEW u, NEW v \in Peers(u), NEW d \in Data,
           Len(d) = Len(Questions), NEW t \in Nat, t < Settled,
           MadeFor(d, v, t)
    PROVE  /\ d \in [DOMAIN Questions -> SUBSET Orders]
           /\ \A i \in DOMAIN Questions : Book!Fresh(v, Questions[i], d[i])
<1>1. DOMAIN d = DOMAIN Questions /\ d = [i \in DOMAIN d |-> d[i]]
  BY CachesAssumption DEF Data
<1>2. \A i \in DOMAIN d : d[i] \in SUBSET Orders
  BY DEF MadeFor, OfOrders
<1>3. Settled \in Nat
  BY CachesAssumption DEF Settled, Kinds
<1>5. \A o \in Orders : since[o] = Settled =>
          \A i \in DOMAIN d : o \in d[i] <=> Counted(v, i, o)
  BY <1>3 DEF MadeFor, RightAbout
<1>6. \A i \in DOMAIN Questions : Book!Fresh(v, Questions[i], d[i])
  BY <1>1, <1>5 DEF Book!Fresh, Counted
<1> QED
  BY <1>1, <1>2, <1>6

(* A request that shows nothing yet may show u what was made for a peer.   *)
LEMMA ShowStep ==
    ASSUME NEW h \in Handlers, NEW u \in Askers["statistics"],
           NEW v \in Peers(u), NEW d \in Data, Len(d) = Len(Questions),
           NEW t \in Nat, t < Settled, MadeFor(d, v, t),
           ~Statistics(h), Shown(h)' = [to |-> u, list |-> d],
           \A g \in Handlers \ {h} : Shown(g)' = Shown(g),
           UNCHANGED <<order, since>>
    PROVE  Book!Next
<1>1. /\ d \in [DOMAIN Questions -> SUBSET Orders]
      /\ \A i \in DOMAIN Questions : Book!Fresh(v, Questions[i], d[i])
  BY ShowsFresh
<1>2. [g \in Handlers |-> Shown(g)]' =
          [[g \in Handlers |-> Shown(g)] EXCEPT ![h] = [to |-> u, list |-> d]]
  OBVIOUS
<1>3. [g \in Handlers |-> Shown(g)][h] = Book!Nothing
  BY DEF Shown
<1>4. v \in Book!Peers(u)
  BY DEF Peers
<1>5. Book!Show(h, u)
  BY <1>1, <1>2, <1>3, <1>4 DEF Book!Show, Shown
<1> QED
  BY <1>5 DEF Book!Next

(* The end of a request, and steps that show nothing new.                  *)
LEMMA HideStep ==
    ASSUME NEW h \in Handlers, ~Statistics(h)',
           \A g \in Handlers \ {h} : Shown(g)' = Shown(g),
           UNCHANGED <<order, since>>
    PROVE  Book!Next
<1>1. [g \in Handlers |-> Shown(g)]' =
          [[g \in Handlers |-> Shown(g)] EXCEPT ![h] = Book!Nothing]
  BY DEF Shown
<1>2. Book!Hide(h)
  BY <1>1 DEF Book!Hide, Shown
<1> QED
  BY <1>2 DEF Book!Next

LEMMA GetBook ==
    ASSUME TypeInv, PeerInv, NEW h \in Handlers, NEW kind \in Kinds,
           NEW u \in Askers[kind], u \in Users, Get(h, kind, u)
    PROVE  Book!Next
<1>1. /\ \A g \in Handlers \ {h} :
             /\ who'[g] = who[g] /\ asked'[g] = asked[g]
             /\ draft'[g] = draft[g] /\ pc'[g] = pc[g]
      /\ who'[h] = u /\ asked'[h] = kind /\ pc[h] = "idle"
      /\ UNCHANGED <<order, since>>
  BY DEF Get, TypeInv, TypeOK
<1>2. \A g \in Handlers \ {h} : Shown(g)' = Shown(g)
  BY <1>1 DEF Shown, Statistics
<1>3. CASE pc'[h] = "answer" /\ kind = "statistics"
  <2> DEFINE e == cache[Key("statistics", u)]
  <2>1. e # NoEntry /\ draft'[h] = e.data
    BY <1>3 DEF Get, TypeInv, TypeOK
  <2>2. PICK v \in Peers(u) : MadeFor(e.data, v, e.age + MaxDelay)
    BY <2>1 DEF PeerInv, EntriesInv
  <2>3. /\ e.data \in Data /\ Len(e.data) = Len(Questions)
        /\ e.age + MaxDelay \in Nat /\ e.age + MaxDelay < Settled
    BY <2>1, EntryOfStatistics
  <2>4. ~Statistics(h) /\ Shown(h)' = [to |-> u, list |-> e.data]
    BY <1>1, <1>3, <2>1 DEF Shown, Statistics
  <2> HIDE DEF e
  <2> QED
    BY <1>1, <1>2, <1>3, <2>2, <2>3, <2>4, ShowStep
<1>4. CASE ~(pc'[h] = "answer" /\ kind = "statistics")
  <2>1. ~Statistics(h)'
    BY <1>1, <1>4 DEF Statistics
  <2> QED
    BY <1>1, <1>2, <2>1, HideStep
<1> QED
  BY <1>3, <1>4

LEMMA StoreBook ==
    ASSUME TypeInv, PeerInv, NEW h \in Handlers, Store(h)
    PROVE  Book!Next
<1>1. /\ UNCHANGED <<order, who, asked, draft, since>>
      /\ pc[h] = "store" /\ pc'[h] = "answer"
      /\ \A g \in Handlers \ {h} : pc'[g] = pc[g]
  BY DEF Store, TypeInv, TypeOK
<1>2. \A g \in Handlers \ {h} : Shown(g)' = Shown(g)
  BY <1>1 DEF Shown, Statistics
<1>3. CASE asked[h] = "statistics"
  <2>1. /\ who[h] \in Askers["statistics"]
        /\ MadeFor(draft[h], who[h], delay[h])
    BY <1>1, <1>3 DEF PeerInv, RequestsInv
  <2>2. /\ draft[h] \in Data /\ Len(draft[h]) = Len(Questions)
        /\ delay[h] \in Nat /\ delay[h] < Settled
    BY <1>1, <1>3, CachesAssumption
    DEF TypeInv, TypeOK, RequestShape, Queries, Settled, Kinds
  <2>3. ~Statistics(h) /\ Shown(h)' = [to |-> who[h], list |-> draft[h]]
    BY <1>1, <1>3 DEF Shown, Statistics
  <2>4. who[h] \in Peers(who[h])
    BY <2>1, OwnPeer
  <2> QED
    BY <1>1, <1>2, <2>1, <2>2, <2>3, <2>4, ShowStep
<1>4. CASE asked[h] # "statistics"
  <2>1. ~Statistics(h)'
    BY <1>1, <1>4 DEF Statistics
  <2> QED
    BY <1>1, <1>2, <2>1, HideStep
<1> QED
  BY <1>3, <1>4

LEMMA InitBook == Init => Book!Init
  BY DEF Init, Book!Init, Book!NoOrder, NoOrder, Statistics

LEMMA NextBook ==
    TypeInv /\ PeerInv /\ [Next]_vars => [Book!Next]_(Book!bookVars)
<1> SUFFICES ASSUME TypeInv, PeerInv, [Next]_vars
             PROVE  Book!Next \/ UNCHANGED Book!bookVars
  OBVIOUS
<1>1. ASSUME NEW h \in Handlers, NEW kind \in Kinds, NEW u \in Askers[kind],
             Get(h, kind, u)
      PROVE  Book!Next
  <2>1. u \in Users
    BY CachesAssumption
  <2> QED
    BY <1>1, <2>1, GetBook
<1>2. ASSUME NEW h \in Handlers, Read(h) PROVE Book!Next
  <2>1. /\ UNCHANGED <<order, since, who, asked>>
        /\ pc'[h] \in {"read", "store"}
        /\ \A g \in Handlers \ {h} : draft'[g] = draft[g] /\ pc'[g] = pc[g]
    BY <1>2 DEF Read, TypeInv, TypeOK
  <2>2. /\ ~Statistics(h)'
        /\ \A g \in Handlers \ {h} : Shown(g)' = Shown(g)
    BY <2>1 DEF Shown, Statistics
  <2> QED
    BY <2>1, <2>2, HideStep
<1>3. ASSUME NEW h \in Handlers, Store(h) PROVE Book!Next
  BY <1>3, StoreBook
<1>4. ASSUME NEW h \in Handlers, Answer(h) \/ HandlerFails(h) PROVE Book!Next
  <2>1. /\ UNCHANGED <<order, since>>
        /\ pc'[h] = "idle"
        /\ \A g \in Handlers \ {h} :
               /\ draft'[g] = draft[g] /\ pc'[g] = pc[g]
               /\ who'[g] = who[g] /\ asked'[g] = asked[g]
    BY <1>4 DEF Answer, HandlerFails, Clear, TypeInv, TypeOK
  <2>2. /\ ~Statistics(h)'
        /\ \A g \in Handlers \ {h} : Shown(g)' = Shown(g)
    BY <2>1 DEF Shown, Statistics
  <2> QED
    BY <2>1, <2>2, HideStep
<1>5. ASSUME NEW o \in Orders, NEW row \in Rows \cup {NoOrder},
             ChangeOrder(o, row)
      PROVE  Book!Next
  <2>1. Book!Change(o, row)
    BY <1>5 DEF ChangeOrder, asking, Book!Change, Statistics
  <2> QED
    BY <2>1 DEF Book!Next, Book!NoOrder, NoOrder
<1>6. ASSUME Tick PROVE Book!Next
  <2>1. Book!Tick
    BY <1>6 DEF Tick, Book!Tick, Statistics
  <2> QED
    BY <2>1 DEF Book!Next
<1>7. CASE UNCHANGED vars \/ \E c \in Categories : ChangeCategory(c)
  <2>1. UNCHANGED <<order, since, pc, who, asked, draft>>
    BY <1>7 DEF vars, asking, ChangeCategory
  <2> QED
    BY <2>1 DEF Book!bookVars, Statistics
<1> QED
  BY <1>1, <1>2, <1>3, <1>4, <1>5, <1>6, <1>7 DEF Next, Continue

(* Redis, its keys and the queries behind it are an implementation of what *)
(* StatisticsBook promises, for suppliers too: they may be shown each      *)
(* other's numbers, but never a mixture, nor older ones than that.         *)
THEOREM BookCorrect == Spec => ImplementsStatistics
<1>1. Spec => [](TypeInv /\ PeerInv)
  BY PeerCorrect
<1> QED
  BY <1>1, InitBook, NextBook, PTL DEF Spec, ImplementsStatistics, Book!Spec
=============================================================================
