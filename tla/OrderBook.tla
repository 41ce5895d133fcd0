----------------------------- MODULE OrderBook ------------------------------
(***************************************************************************)
(* What the service promises about an order that nobody deletes, with no   *)
(* mention of requests, copies, queues or workers: it is placed with a     *)
(* number of lines, the lines arrive one by one and none is lost, the      *)
(* total appears when all are there, then the confirmation and after it    *)
(* the invoice are queued, and each of them is sent at most once, with all *)
(* the lines.  It does NOT promise that a total stays: Unbill is the lost  *)
(* update of a request that wrote back an older copy, or staff who type an *)
(* amount of their own.                                                    *)
(***************************************************************************)
EXTENDS Naturals

CONSTANTS
    OrderIds,
    Sizes    \* the numbers of lines an order may be placed with

VARIABLES
    size,    \* number of lines the order is placed with, 0 before
    lines,   \* the lines stored so far
    billed,  \* the order shows its total
    mail     \* state of the confirmation and of the invoice

bookVars == <<size, lines, billed, mail>>

Mails == {"confirmation", "invoice"}
NoMail == [m \in Mails |-> "none"]

Init ==
    /\ size = [o \in OrderIds |-> 0]
    /\ lines = [o \in OrderIds |-> {}]
    /\ billed = [o \in OrderIds |-> FALSE]
    /\ mail = [o \in OrderIds |-> NoMail]

Complete(o) == size[o] > 0 /\ lines[o] = 1 .. size[o]

Open(o, n) ==
    /\ size[o] = 0
    /\ n > 0
    /\ size' = [size EXCEPT ![o] = n]
    /\ UNCHANGED <<lines, billed, mail>>

AddLine(o, n) ==
    /\ n \in 1 .. size[o]
    /\ lines[o] = 1 .. (n - 1)
    /\ lines' = [lines EXCEPT ![o] = 1 .. n]
    /\ UNCHANGED <<size, billed, mail>>

Bill(o) ==
    /\ Complete(o)
    /\ billed' = [billed EXCEPT ![o] = TRUE]
    /\ UNCHANGED <<size, lines, mail>>

Unbill(o) ==
    /\ billed' = [billed EXCEPT ![o] = FALSE]
    /\ UNCHANGED <<size, lines, mail>>

Queue(o, m) ==
    /\ Complete(o)
    /\ mail[o][m] = "none"
    /\ m = "invoice" => mail[o]["confirmation"] # "none"
    /\ mail' = [mail EXCEPT ![o][m] = "queued"]
    /\ UNCHANGED <<size, lines, billed>>

(* Sent with the lines of the order, all of them, or lost. *)
Deliver(o, m, outcome) ==
    /\ Complete(o)
    /\ mail[o][m] = "queued"
    /\ outcome \in {"sent", "lost"}
    /\ mail' = [mail EXCEPT ![o][m] = outcome]
    /\ UNCHANGED <<size, lines, billed>>

Next ==
    \E o \in OrderIds :
        \/ \E n \in Sizes : Open(o, n)
        \/ \E n \in 1 .. size[o] : AddLine(o, n)
        \/ Bill(o)
        \/ Unbill(o)
        \/ \E m \in Mails :
               Queue(o, m) \/ \E r \in {"sent", "lost"} : Deliver(o, m, r)

Spec == Init /\ [][Next]_bookVars
=============================================================================
