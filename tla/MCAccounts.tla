----------------------------- MODULE MCAccounts -----------------------------
(* Small instances of Accounts: two names, two addresses, one of them in   *)
(* another spelling, and none; a company's number as it is and with a      *)
(* dash, one with a wrong digit, and one that only the regular expression  *)
(* accepts.                                                                *)
EXTENDS Accounts, TLC

CONSTANTS n1, n2, e1, e2, E1

MCNormal == E1 :> e1 @@ e1 :> e1 @@ e2 :> e2 @@ Blank :> Blank

Good == <<7, 7, 0, 7, 0, 8, 3, 8, 9, 3>>
Dashed == <<7, 7, 0, 7, Separator, 0, 8, 3, 8, 9, 3>>
Wrong == <<7, 7, 0, 7, 0, 8, 3, 8, 9, 4>>
Long == <<7, 7, 0, 7, 0, 8, 3, 8, 9, 3, Letter>>
MCTexts == {Good, Dashed, Wrong, Long}

MCRegistrations ==
    [name : Names, email : Emails \ {Blank}, type : {"client"}, active : {Keep},
     tax : {<<>>}]
    \cup
    [name : Names, email : {e1}, type : {"supplier"}, active : {Keep},
     tax : {Good, Dashed, Wrong}]
    \cup
    [name : {n2}, email : {e1, E1}, type : {Keep}, active : {"on", Keep},
     tax : {<<>>}]
    \cup
    [name : Names, email : {Keep}, type : {Keep}, active : {"on"}, tax : {<<>>}]

MCChanges ==
    {NoForm}
    \cup {[NoForm EXCEPT !.name = n1], [NoForm EXCEPT !.email = e1]}
    \cup {[NoForm EXCEPT !.active = a] : a \in {"on", "off"}}

HandlerSymmetry == Permutations(Handlers) \cup Permutations(Ids)
=============================================================================
