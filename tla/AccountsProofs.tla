--------------------------- MODULE AccountsProofs ---------------------------
(* Theorems about Accounts, for every set of users, requests, names,       *)
(* addresses, tax numbers and request data, and about tax numbers.         *)
EXTENDS Accounts, FiniteSetTheorems, TLAPS

(* A registration has a name, and an address but in POST /users/.          *)
Sendable(f) == f.name # Keep /\ (f.email = Keep => f.type = Keep)

(* What a request holds at each of its statements. *)
RequestShape ==
    \A h \in Handlers :
        /\ pc[h] = "insert" =>
               /\ form[h] \in Form
               /\ Sendable(form[h])
               /\ form[h].type = "supplier" => form[h].tax \in Texts
        /\ pc[h] \in {"idle", "insert"} <=> target[h] = None
        /\ pc[h] \in Writing => copy[h] \in User
        /\ pc[h] \notin Writing => copy[h] = NoUser
        /\ pc[h] \in {"code", "profile", "again", "checkprofile", "saveprofile"}
               => form[h].tax \in Texts

TypeInv == TypeOK /\ RequestShape

USE DEF None, Keep

LEMMA InitTyped == Init => TypeInv
BY AccountsAssumption DEF Init, TypeInv, TypeOK, RequestShape, Form, NoForm, Steps, Writing

(* A request that has just been answered holds nothing. *)
LEMMA AnswerTyped ==
    ASSUME TypeInv, NEW h \in Handlers, Answer(h)
    PROVE  /\ pc' \in [Handlers -> Steps]
           /\ target' \in [Handlers -> Ids \cup {None}]
           /\ copy' \in [Handlers -> User \cup {NoUser}]
           /\ form' \in [Handlers -> Form]
           /\ RequestShape'
BY AccountsAssumption DEF TypeInv, TypeOK, RequestShape, Answer, Form, NoForm, Steps, Writing

(* A user with the fields of a request is a user of the same type. *)
LEMMA AppliedUser ==
    ASSUME NEW r \in User, NEW f \in Form
    PROVE  /\ Apply(r, f) \in User
           /\ Apply(r, f).type = r.type
           /\ Apply(r, f).email = IF f.email = Keep THEN r.email ELSE f.email
BY DEF Apply, User, Form

(* What a registration inserts. *)
LEMMA NewUserTyped ==
    ASSUME NEW f \in Form, Sendable(f)
    PROVE  /\ NewUser(f) \in User
           /\ f.type = "supplier" => NewUser(f).type = "supplier"
           /\ NewUser(f).email = AddressOf(f)
           /\ AddressOf(f) \in Emails
<1>1. AddressOf(f) \in Emails
  BY AccountsAssumption DEF AddressOf, Form
<1> QED
  BY <1>1 DEF NewUser, User, Types, Form, Sendable

LEMMA CheckRegistrationTyped ==
    ASSUME TypeInv, NEW h \in Handlers, NEW f \in Registrations,
           CheckRegistration(h, f)
    PROVE  TypeInv'
<1> USE DEF TypeInv, TypeOK
<1>1. f \in Form /\ Sendable(f)
  BY AccountsAssumption DEF Sendable
<1>2. f.type = "supplier" => ToStore(f.tax) \in Texts
  BY <1>1, AccountsAssumption DEF CheckRegistration, ToStore, Form
<1>3. doubtful' \subseteq Emails
  BY <1>1, AccountsAssumption, NewUserTyped DEF CheckRegistration, Check, Form
<1> DEFINE g == IF f.type = "supplier" THEN [f EXCEPT !.tax = ToStore(f.tax)]
                ELSE [f EXCEPT !.tax = <<>>]
<1>4. /\ g \in Form /\ Sendable(g)
      /\ g.type = "supplier" => g.tax \in Texts
  BY <1>1, <1>2 DEF Form, Sendable
<1>5. form' = [form EXCEPT ![h] = g] /\ pc' = [pc EXCEPT ![h] = "insert"]
  BY DEF CheckRegistration
<1>6. pc[h] = "idle" /\ UNCHANGED <<user, profile, target, copy, reply, edited>>
  BY DEF CheckRegistration
<1> HIDE DEF g
<1>7. TypeOK'
  BY <1>3, <1>4, <1>5, <1>6 DEF Steps
<1>8. RequestShape'
  BY <1>4, <1>5, <1>6 DEF RequestShape, Steps, Writing
<1> QED
  BY <1>7, <1>8

LEMMA InsertUserTyped ==
    ASSUME TypeInv, NEW h \in Handlers, InsertUser(h)
    PROVE  TypeInv'
<1> USE DEF TypeInv, TypeOK
<1> PICK u \in Ids :
        /\ pc[h] = "insert"
        /\ user' = [user EXCEPT ![u] = NewUser(form[h])]
        /\ IF form[h].type = "supplier"
           THEN /\ pc' = [pc EXCEPT ![h] = "code"]
                /\ target' = [target EXCEPT ![h] = u]
                /\ copy' = [copy EXCEPT ![h] = NewUser(form[h])]
                /\ reply' = [reply EXCEPT ![u] = "running"]
                /\ UNCHANGED form
           ELSE Answer(h) /\ reply' = [reply EXCEPT ![u] = "201"]
        /\ UNCHANGED <<profile, doubtful, edited>>
  BY DEF InsertUser
<1>1. NewUser(form[h]) \in User
  BY NewUserTyped DEF RequestShape
<1>2. CASE form[h].type = "supplier"
  BY <1>1, <1>2, AccountsAssumption DEF RequestShape, Steps, Writing
<1>3. CASE form[h].type # "supplier"
  BY <1>1, <1>3, AnswerTyped
<1> QED
  BY <1>2, <1>3

LEMMA CheckUserTyped ==
    ASSUME TypeInv, NEW h \in Handlers, CheckUser(h)
    PROVE  TypeInv'
<1> USE DEF TypeInv, TypeOK
<1>1. Apply(copy[h], form[h]) \in User
  BY AppliedUser DEF CheckUser, RequestShape, Writing
<1>2. doubtful' \subseteq Emails
  BY DEF CheckUser, Check, Form
<1> QED
  BY <1>1, <1>2 DEF CheckUser, RequestShape, Steps, Writing

LEMMA LoadProfileTyped ==
    ASSUME TypeInv, NEW h \in Handlers, NEW u \in Ids, NEW t \in Texts \cup {<<>>},
           LoadProfile(h, u, t)
    PROVE  TypeInv'
<1> USE DEF TypeInv, TypeOK
<1> PICK t2 \in Texts, step \in {"saveprofile", "checkprofile"} :
        Load(h, u, [NoForm EXCEPT !.tax = t2], step)
  BY DEF LoadProfile, HasProfile
<1>1. [NoForm EXCEPT !.tax = t2] \in Form
  BY DEF NoForm, Form
<1> QED
  BY <1>1, AccountsAssumption DEF LoadProfile, Load, RequestShape, Steps, Writing, history, NoForm

(* TypeInv is inductive. *)
LEMMA NextTyped == TypeInv /\ [Next]_vars => TypeInv'
<1> SUFFICES ASSUME TypeInv, [Next]_vars PROVE TypeInv'
  OBVIOUS
<1> USE DEF TypeInv, TypeOK
<1>1. ASSUME NEW h \in Handlers, Arrive(h) PROVE TypeInv'
  <2>1. ASSUME NEW f \in Registrations, CheckRegistration(h, f) PROVE TypeInv'
    BY <2>1, CheckRegistrationTyped
  <2>2. ASSUME NEW u \in Ids, NEW f \in Changes, LoadUser(h, u, f) PROVE TypeInv'
    BY <2>2, AccountsAssumption
       DEF LoadUser, Load, Exists, RequestShape, Steps, Writing, history
  <2>3. ASSUME NEW u \in Ids, NEW t \in Texts \cup {<<>>}, LoadProfile(h, u, t)
        PROVE TypeInv'
    BY <2>3, LoadProfileTyped
  <2> QED
    BY <1>1, <2>1, <2>2, <2>3 DEF Arrive
<1>2. ASSUME NEW h \in Handlers, Continue(h) PROVE TypeInv'
  <2>1. CASE InsertUser(h)
    BY <2>1, InsertUserTyped
  <2>2. CASE InsertUserFails(h)
    BY <2>2, AnswerTyped DEF InsertUserFails, history
  <2>3. CASE SaveCode(h)
    BY <2>3 DEF SaveCode, history, RequestShape, Steps, Writing
  <2>4. CASE InsertProfile(h)
    BY <2>4 DEF InsertProfile, history, RequestShape, Steps, Writing
  <2>5. CASE RegistrationBreaks(h)
    BY <2>5, AnswerTyped DEF RegistrationBreaks
  <2>6. CASE CheckUser(h)
    BY <2>6, CheckUserTyped
  <2>7. CASE CheckUserRefuses(h)
    BY <2>7, AnswerTyped DEF CheckUserRefuses, history
  <2>8. CASE SaveUser(h)
    BY <2>8, AnswerTyped DEF SaveUser, history, RequestShape, Writing
  <2>9. CASE CheckProfile(h)
    <3>1. CASE Answer(h) /\ UNCHANGED edited
      BY <2>9, <3>1, AnswerTyped DEF CheckProfile
    <3>2. CASE /\ pc' = [pc EXCEPT ![h] = "saveprofile"]
               /\ edited' = edited \cup {target[h]}
               /\ UNCHANGED <<target, copy, form>>
      BY <2>9, <3>2 DEF CheckProfile, RequestShape, Steps, Writing
    <3> QED
      BY <2>9, <3>1, <3>2 DEF CheckProfile
  <2>10. CASE SaveProfile(h)
    BY <2>10, AnswerTyped DEF SaveProfile, history, RequestShape
  <2> QED
    BY <1>2, <2>1, <2>2, <2>3, <2>4, <2>5, <2>6, <2>7, <2>8, <2>9, <2>10 DEF Continue
<1>3. ASSUME NEW h \in Handlers, HandlerFails(h) PROVE TypeInv'
  BY <1>3, AnswerTyped DEF HandlerFails
<1>4. ASSUME NEW u \in Ids, DeleteUser(u) \/ DeleteProfile(u) PROVE TypeInv'
  BY <1>4 DEF DeleteUser, DeleteProfile, request, history, RequestShape
<1>5. CASE UNCHANGED vars
  BY <1>5 DEF vars, RequestShape
<1> QED
  BY <1>1, <1>2, <1>3, <1>4, <1>5 DEF Next

(* Every variable keeps its type, and every request holds what its next    *)
(* statement needs.                                                        *)
THEOREM TypeCorrect == Spec => [](TypeOK /\ RequestShape)
<1>1. Spec => []TypeInv
  BY InitTyped, NextTyped, PTL DEF Spec
<1> QED
  BY <1>1, PTL DEF TypeInv

-----------------------------------------------------------------------------
(* Profiles belong to suppliers.                                           *)

(* Whatever is stored for u, or may be written back, is a supplier. *)
SupplierOnly(u) ==
    /\ Exists(u) => user[u].type = "supplier"
    /\ \A h \in Handlers :
           target[h] = u /\ pc[h] \in Writing => copy[h].type = "supplier"

(* A key that was not given yet appears nowhere. *)
Untouched(u) ==
    /\ ~Exists(u) /\ ~HasProfile(u)
    /\ \A h \in Handlers : target[h] # u

OfSupplier == {"code", "profile", "again", "checkprofile", "saveprofile"}

ProfileInv ==
    /\ \A u \in Ids : Unused(u) => Untouched(u)
    /\ \A u \in Ids : HasProfile(u) => Exists(u) /\ SupplierOnly(u)
    /\ \A h \in Handlers : pc[h] \in OfSupplier => SupplierOnly(target[h])

LEMMA InitProfile == Init => ProfileInv
BY AccountsAssumption
   DEF Init, ProfileInv, Unused, Untouched, SupplierOnly, Exists, HasProfile,
       OfSupplier, Writing

(* A step that writes no table and ends a request changes nothing of this. *)
LEMMA AnswerProfile ==
    ASSUME TypeInv, ProfileInv, NEW h \in Handlers, Answer(h),
           UNCHANGED <<user, profile>>,
           \A u \in Ids : Unused(u)' => Unused(u)
    PROVE  ProfileInv'
BY AccountsAssumption
   DEF TypeInv, TypeOK, ProfileInv, Answer, Untouched, SupplierOnly, Exists,
       HasProfile, OfSupplier, Writing

LEMMA InsertUserProfile ==
    ASSUME TypeInv, ProfileInv, NEW h \in Handlers, InsertUser(h)
    PROVE  ProfileInv'
<1> USE DEF TypeInv, TypeOK
<1> PICK u \in Ids :
        /\ pc[h] = "insert" /\ Unused(u)
        /\ user' = [user EXCEPT ![u] = NewUser(form[h])]
        /\ IF form[h].type = "supplier"
           THEN /\ pc' = [pc EXCEPT ![h] = "code"]
                /\ target' = [target EXCEPT ![h] = u]
                /\ copy' = [copy EXCEPT ![h] = NewUser(form[h])]
                /\ reply' = [reply EXCEPT ![u] = "running"]
                /\ UNCHANGED form
           ELSE Answer(h) /\ reply' = [reply EXCEPT ![u] = "201"]
        /\ UNCHANGED <<profile, doubtful, edited>>
  BY DEF InsertUser
<1>1. /\ NewUser(form[h]) \in User
      /\ form[h].type = "supplier" => NewUser(form[h]).type = "supplier"
  BY NewUserTyped DEF RequestShape
<1>2. Untouched(u)
  BY DEF ProfileInv
<1>3. CASE form[h].type = "supplier"
  BY <1>1, <1>2, <1>3
     DEF ProfileInv, Unused, Untouched, SupplierOnly, Exists, HasProfile,
         OfSupplier, Writing
<1>4. CASE form[h].type # "supplier"
  BY <1>1, <1>2, <1>4, AccountsAssumption
     DEF ProfileInv, Unused, Untouched, SupplierOnly, Exists, HasProfile,
         OfSupplier, Writing, Answer
<1> QED
  BY <1>3, <1>4

(* A row written over its user, or over nothing, has the type of the row   *)
(* and of the other copies.                                                *)
LEMMA StoreProfile ==
    ASSUME TypeInv, ProfileInv, NEW h \in Handlers, pc[h] \in Writing,
           user' = [user EXCEPT ![target[h]] = copy[h]],
           UNCHANGED <<profile, reply>>,
           \A g \in Handlers :
               target'[g] # None =>
                   /\ target'[g] = target[g]
                   /\ pc'[g] \in Writing =>
                          pc[g] \in Writing /\ copy'[g] = copy[g]
                   /\ pc'[g] \in OfSupplier => pc[g] \in OfSupplier,
           \A g \in Handlers : pc'[g] \in OfSupplier => target'[g] # None
    PROVE  ProfileInv'
<1> USE DEF TypeInv, TypeOK
<1>1. copy[h] \in User /\ target[h] \in Ids /\ copy[h] # NoUser
  BY AccountsAssumption DEF RequestShape, Writing, User, NoUser
<1> PICK u \in Ids : u = target[h]
  BY <1>1
<1>2. /\ user'[u] = copy[h] /\ Exists(u)'
      /\ \A v \in Ids \ {u} : user'[v] = user[v]
  BY <1>1 DEF Exists
<1>3. ASSUME NEW v \in Ids, SupplierOnly(v) PROVE SupplierOnly(v)'
  BY <1>1, <1>2, <1>3, AccountsAssumption DEF SupplierOnly, Exists
<1>4. ~Unused(u)
  BY <1>1 DEF ProfileInv, Untouched
<1>5. ASSUME NEW v \in Ids, Unused(v)' PROVE Untouched(v)'
  BY <1>2, <1>4, <1>5, AccountsAssumption
     DEF ProfileInv, Unused, Untouched, Exists, HasProfile
<1>6. ASSUME NEW v \in Ids, HasProfile(v)' PROVE Exists(v)' /\ SupplierOnly(v)'
  BY <1>2, <1>3, <1>6 DEF ProfileInv, HasProfile, Exists
<1>7. ASSUME NEW g \in Handlers, pc'[g] \in OfSupplier PROVE SupplierOnly(target[g])'
  BY <1>3, <1>7, AccountsAssumption DEF ProfileInv, RequestShape, OfSupplier
<1> QED
  BY <1>5, <1>6, <1>7 DEF ProfileInv

LEMMA SaveProfileInv ==
    ASSUME TypeInv, ProfileInv, NEW h \in Handlers, SaveCode(h) \/ SaveUser(h)
    PROVE  ProfileInv'
<1> USE DEF TypeInv, TypeOK
<1>1. pc[h] \in Writing
  BY DEF SaveCode, SaveUser, Writing
<1>2. CASE SaveCode(h)
  BY <1>1, <1>2, StoreProfile, AccountsAssumption
     DEF SaveCode, OfSupplier, Writing, history, RequestShape
<1>3. CASE SaveUser(h)
  <2>1. CASE user' = user
    BY <1>3, <2>1, AnswerProfile DEF SaveUser, history, Unused
  <2>2. CASE user' = [user EXCEPT ![target[h]] = copy[h]]
    BY <1>1, <1>3, <2>2, StoreProfile, AccountsAssumption
       DEF SaveUser, Answer, OfSupplier, Writing, history, RequestShape
  <2> QED
    BY <1>3, <2>1, <2>2 DEF SaveUser
<1> QED
  BY <1>2, <1>3

LEMMA NextProfile == TypeInv /\ ProfileInv /\ [Next]_vars => ProfileInv'
<1> SUFFICES ASSUME TypeInv, ProfileInv, [Next]_vars PROVE ProfileInv'
  OBVIOUS
<1> USE DEF TypeInv, TypeOK
<1>1. ASSUME NEW h \in Handlers, Arrive(h) PROVE ProfileInv'
  <2>1. ASSUME NEW f \in Registrations, CheckRegistration(h, f) PROVE ProfileInv'
    BY <2>1
       DEF CheckRegistration, ProfileInv, Unused, Untouched, SupplierOnly, Exists,
           HasProfile, OfSupplier, Writing
  <2>2. ASSUME NEW u \in Ids, NEW f \in Changes, LoadUser(h, u, f)
        PROVE ProfileInv'
    BY <2>2
       DEF LoadUser, Load, ProfileInv, Unused, Untouched, SupplierOnly, Exists,
           HasProfile, OfSupplier, Writing, history
  <2>3. ASSUME NEW u \in Ids, NEW t \in Texts \cup {<<>>}, LoadProfile(h, u, t)
        PROVE ProfileInv'
    <3>1. PICK step \in {"saveprofile", "checkprofile"} :
              /\ pc' = [pc EXCEPT ![h] = step]
              /\ target' = [target EXCEPT ![h] = u]
      BY <2>3 DEF LoadProfile, Load
    <3> QED
      BY <2>3, <3>1
         DEF LoadProfile, ProfileInv, Unused, Untouched, SupplierOnly, Exists,
             HasProfile, OfSupplier, Writing, history
  <2> QED
    BY <1>1, <2>1, <2>2, <2>3 DEF Arrive
<1>2. ASSUME NEW h \in Handlers, Continue(h) PROVE ProfileInv'
  <2>1. CASE InsertUser(h)
    BY <2>1, InsertUserProfile
  <2>2. CASE InsertUserFails(h)
    BY <2>2, AnswerProfile DEF InsertUserFails, history, Unused
  <2>3. CASE SaveCode(h) \/ SaveUser(h)
    BY <2>3, SaveProfileInv
  <2>4. CASE InsertProfile(h)
    BY <2>4
       DEF InsertProfile, ProfileInv, Unused, Untouched, SupplierOnly, Exists,
           HasProfile, OfSupplier, Writing, history, RequestShape
  <2>5. CASE RegistrationBreaks(h)
    BY <2>5, AnswerProfile, AccountsAssumption DEF RegistrationBreaks, Unused
  <2>6. CASE CheckUser(h)
    <3>1. Apply(copy[h], form[h]).type = copy[h].type
      BY <2>6, AppliedUser DEF CheckUser, RequestShape, Writing
    <3>2. copy'[h].type = copy[h].type
      BY <2>6, <3>1 DEF CheckUser
    <3> QED
      BY <2>6, <3>2
         DEF CheckUser, ProfileInv, Unused, Untouched, SupplierOnly, Exists,
             HasProfile, OfSupplier, Writing
  <2>7. CASE CheckUserRefuses(h)
    BY <2>7, AnswerProfile DEF CheckUserRefuses, history, Unused
  <2>8. CASE CheckProfile(h)
    <3>1. CASE Answer(h)
      BY <2>8, <3>1, AnswerProfile DEF CheckProfile, Unused
    <3>2. CASE /\ pc' = [pc EXCEPT ![h] = "saveprofile"]
               /\ UNCHANGED <<target, copy, form>>
      BY <2>8, <3>2
         DEF CheckProfile, ProfileInv, Unused, Untouched, SupplierOnly, Exists,
             HasProfile, OfSupplier, Writing
    <3> QED
      BY <2>8, <3>1, <3>2 DEF CheckProfile
  <2>9. CASE SaveProfile(h)
    <3>1. CASE profile' = profile
      BY <2>9, <3>1, AnswerProfile DEF SaveProfile, history, Unused
    <3>2. CASE Exists(target[h]) /\ profile' = [profile EXCEPT ![target[h]] = form[h].tax]
      BY <2>9, <3>2, AccountsAssumption
         DEF SaveProfile, Answer, ProfileInv, Unused, Untouched, SupplierOnly,
             Exists, HasProfile, OfSupplier, Writing, history
    <3> QED
      BY <2>9, <3>1, <3>2 DEF SaveProfile
  <2> QED
    BY <1>2, <2>1, <2>2, <2>3, <2>4, <2>5, <2>6, <2>7, <2>8, <2>9 DEF Continue
<1>3. ASSUME NEW h \in Handlers, HandlerFails(h) PROVE ProfileInv'
  BY <1>3, AnswerProfile, AccountsAssumption DEF HandlerFails, Unused
<1>4. ASSUME NEW u \in Ids, DeleteUser(u) \/ DeleteProfile(u) PROVE ProfileInv'
  <2>1. \A v \in Ids : /\ Exists(v)' => Exists(v) /\ user'[v] = user[v]
                       /\ HasProfile(v)' => HasProfile(v)
                       /\ HasProfile(v)' /\ Exists(v) => Exists(v)'
    BY <1>4 DEF DeleteUser, DeleteProfile, Exists, HasProfile
  <2>2. UNCHANGED <<pc, target, copy, reply>>
    BY <1>4 DEF DeleteUser, DeleteProfile, request, history
  <2>3. \A v \in Ids : SupplierOnly(v) => SupplierOnly(v)'
    BY <2>1, <2>2 DEF SupplierOnly
  <2> QED
    BY <2>1, <2>2, <2>3
       DEF ProfileInv, Unused, Untouched, OfSupplier, RequestShape
<1>5. CASE UNCHANGED vars
  BY <1>5
     DEF vars, ProfileInv, Unused, Untouched, SupplierOnly, Exists, HasProfile
<1> QED
  BY <1>1, <1>2, <1>3, <1>4, <1>5 DEF Next

(* A profile belongs to a supplier who is there.  The invariant follows    *)
(* the type of a user through its row and all copies of it, so that a      *)
(* deleted user can only come back with the type it had.                   *)
THEOREM ProfilesCorrect == Spec => []ProfilesBelongToSuppliers
<1>1. Spec => [](TypeInv /\ ProfileInv)
  BY InitTyped, NextTyped, InitProfile, NextProfile, PTL DEF Spec
<1>2. ProfileInv => ProfilesBelongToSuppliers
  BY DEF ProfileInv, ProfilesBelongToSuppliers, SupplierOnly
<1> QED
  BY <1>1, <1>2, PTL

-----------------------------------------------------------------------------
(* Registered numbers are valid.                                           *)

NumberInv ==
    /\ RegisteredNumberIsValid
    /\ \A h \in Handlers :
           /\ pc[h] \in {"insert", "code", "profile"} /\ form[h].tax # <<>>
                  => IsTaxNumber(form[h].tax)
           /\ pc[h] \in {"code", "profile"} => form[h].tax # <<>>
           /\ pc[h] = "insert" /\ form[h].type = "supplier" => form[h].tax # <<>>
           /\ pc[h] = "saveprofile" /\ target[h] \notin edited
                  => IsTaxNumber(form[h].tax)

LEMMA InitNumber == Init => NumberInv
BY DEF Init, NumberInv, RegisteredNumberIsValid, HasProfile

LEMMA AnswerNumber ==
    ASSUME TypeInv, NumberInv, NEW h \in Handlers, Answer(h),
           UNCHANGED <<profile, edited>>
    PROVE  NumberInv'
BY DEF TypeInv, TypeOK, NumberInv, RegisteredNumberIsValid, HasProfile, Answer

LEMMA CheckRegistrationNumber ==
    ASSUME TypeInv, NumberInv, NEW h \in Handlers, NEW f \in Registrations,
           CheckRegistration(h, f)
    PROVE  NumberInv'
<1> USE DEF TypeInv, TypeOK
<1>1. f \in Form
  BY AccountsAssumption
<1> DEFINE g == IF f.type = "supplier" THEN [f EXCEPT !.tax = ToStore(f.tax)]
                ELSE [f EXCEPT !.tax = <<>>]
<1>2. /\ g.tax # <<>> => IsTaxNumber(g.tax)
      /\ g.type = "supplier" => g.tax # <<>>
  <2>1. CASE f.type = "supplier"
    <3>1. g.tax = Cleaned(f.tax)
      BY <1>1, <2>1 DEF ToStore, Form
    <3>2. IsTaxNumber(Cleaned(f.tax)) /\ Cleaned(f.tax) \in Texts
      BY <1>1, <2>1, AccountsAssumption DEF CheckRegistration, Registrable, Form
    <3> QED
      BY <3>1, <3>2, AccountsAssumption
  <2>2. CASE f.type # "supplier"
    <3>1. g.tax = <<>> /\ g.type # "supplier"
      BY <1>1, <2>2 DEF Form
    <3> QED
      BY <3>1
  <2> QED
    BY <2>1, <2>2
<1>3. form' = [form EXCEPT ![h] = g] /\ pc' = [pc EXCEPT ![h] = "insert"]
  BY DEF CheckRegistration
<1>4. UNCHANGED <<profile, target, edited>>
  BY DEF CheckRegistration
<1> HIDE DEF g
<1> QED
  BY <1>2, <1>3, <1>4 DEF NumberInv, RegisteredNumberIsValid, HasProfile

LEMMA NextNumber == TypeInv /\ NumberInv /\ [Next]_vars => NumberInv'
<1> SUFFICES ASSUME TypeInv, NumberInv, [Next]_vars PROVE NumberInv'
  OBVIOUS
<1> USE DEF TypeInv, TypeOK
<1>1. ASSUME NEW h \in Handlers, Arrive(h) PROVE NumberInv'
  <2>1. ASSUME NEW f \in Registrations, CheckRegistration(h, f) PROVE NumberInv'
    BY <2>1, CheckRegistrationNumber
  <2>2. ASSUME NEW u \in Ids, NEW f \in Changes, LoadUser(h, u, f)
        PROVE NumberInv'
    BY <2>2
       DEF LoadUser, Load, NumberInv, RegisteredNumberIsValid, HasProfile, history
  <2>3. ASSUME NEW u \in Ids, NEW t \in Texts \cup {<<>>}, LoadProfile(h, u, t)
        PROVE NumberInv'
    <3>1. PICK step \in {"saveprofile", "checkprofile"}, n \in Texts :
              /\ step = "saveprofile" => n = profile[u]
              /\ Load(h, u, [NoForm EXCEPT !.tax = n], step)
      BY <2>3 DEF LoadProfile, HasProfile
    <3>2. [NoForm EXCEPT !.tax = n].tax = n
      BY DEF NoForm
    <3> QED
      BY <2>3, <3>1, <3>2
         DEF LoadProfile, Load, NumberInv, RegisteredNumberIsValid, HasProfile,
             history
  <2> QED
    BY <1>1, <2>1, <2>2, <2>3 DEF Arrive
<1>2. ASSUME NEW h \in Handlers, Continue(h) PROVE NumberInv'
  <2>1. CASE InsertUser(h)
    <3>1. CASE Answer(h)
      BY <2>1, <3>1, AnswerNumber DEF InsertUser
    <3>2. CASE /\ pc' = [pc EXCEPT ![h] = "code"]
               /\ UNCHANGED form
               /\ form[h].type = "supplier"
      <4>1. pc[h] = "insert" /\ UNCHANGED <<profile, edited>>
        BY <2>1 DEF InsertUser
      <4>2. \A g \in Handlers : g # h => target'[g] = target[g]
        BY <2>1 DEF InsertUser, Answer
      <4> QED
        BY <3>2, <4>1, <4>2 DEF NumberInv, RegisteredNumberIsValid, HasProfile
    <3> QED
      BY <2>1, <3>1, <3>2 DEF InsertUser
  <2>2. CASE InsertUserFails(h) \/ RegistrationBreaks(h) \/ CheckUserRefuses(h)
             \/ SaveUser(h)
    BY <2>2, AnswerNumber
       DEF InsertUserFails, RegistrationBreaks, CheckUserRefuses, SaveUser, history
  <2>3. CASE SaveCode(h) \/ CheckUser(h)
    BY <2>3
       DEF SaveCode, CheckUser, NumberInv, RegisteredNumberIsValid, HasProfile,
           history
  <2>4. CASE InsertProfile(h)
    BY <2>4
       DEF InsertProfile, NumberInv, RegisteredNumberIsValid, HasProfile, history
  <2>5. CASE CheckProfile(h)
    <3>1. CASE Answer(h) /\ UNCHANGED edited
      BY <2>5, <3>1, AnswerNumber DEF CheckProfile
    <3>2. CASE /\ pc' = [pc EXCEPT ![h] = "saveprofile"]
               /\ edited' = edited \cup {target[h]}
               /\ UNCHANGED <<target, copy, form>>
      BY <2>5, <3>2
         DEF CheckProfile, NumberInv, RegisteredNumberIsValid, HasProfile
    <3> QED
      BY <2>5, <3>1, <3>2 DEF CheckProfile
  <2>6. CASE SaveProfile(h)
    BY <2>6
       DEF SaveProfile, Answer, NumberInv, RegisteredNumberIsValid, HasProfile,
           history, RequestShape
  <2> QED
    BY <1>2, <2>1, <2>2, <2>3, <2>4, <2>5, <2>6 DEF Continue
<1>3. ASSUME NEW h \in Handlers, HandlerFails(h) PROVE NumberInv'
  BY <1>3, AnswerNumber DEF HandlerFails
<1>4. ASSUME NEW u \in Ids, DeleteUser(u) \/ DeleteProfile(u) PROVE NumberInv'
  BY <1>4
     DEF DeleteUser, DeleteProfile, request, history, NumberInv,
         RegisteredNumberIsValid, HasProfile
<1>5. CASE UNCHANGED vars
  BY <1>5 DEF vars, NumberInv, RegisteredNumberIsValid, HasProfile
<1> QED
  BY <1>1, <1>2, <1>3, <1>4, <1>5 DEF Next

(* A number nobody has changed by hand is the cleaned, valid number of a   *)
(* registration, although supplier profiles are written back from copies.  *)
THEOREM NumbersCorrect == Spec => []RegisteredNumberIsValid
<1>1. Spec => [](TypeInv /\ NumberInv)
  BY InitTyped, NextTyped, InitNumber, NextNumber, PTL DEF Spec
<1>2. NumberInv => RegisteredNumberIsValid
  BY DEF NumberInv
<1> QED
  BY <1>1, <1>2, PTL

(* What validate_tax_number returns is accepted by the regular expression  *)
(* of the column.                                                          *)
LEMMA ValidIsStorable ==
    ASSUME NEW t \in Text, IsTaxNumber(t)
    PROVE  Storable(t)
<1>1. /\ t \in Seq(0 .. 11) /\ Len(t) \in {10, 12}
      /\ \A i \in 1 .. Len(t) : t[i] \in Digit
  BY DEF IsTaxNumber, AllDigits, Text
<1>2. /\ DOMAIN SubSeq(t, 1, 10) = 1 .. 10
      /\ \A i \in 1 .. 10 : SubSeq(t, 1, 10)[i] = t[i]
  BY <1>1
<1> QED
  BY <1>1, <1>2 DEF Storable, AllDigits, MaxLength

(* A number on its way to a profile fits, be it registered, changed by     *)
(* hand, or written back.                                                  *)
FitInv ==
    /\ StoredNumbersFit
    /\ \A h \in Handlers : pc[h] = "saveprofile" => Storable(form[h].tax)

LEMMA InitFit == Init => FitInv
BY DEF Init, FitInv, StoredNumbersFit, HasProfile

LEMMA AnswerFit ==
    ASSUME TypeInv, FitInv, NEW h \in Handlers, Answer(h), UNCHANGED profile
    PROVE  FitInv'
BY DEF TypeInv, TypeOK, FitInv, StoredNumbersFit, HasProfile, Answer

LEMMA NextFit == TypeInv /\ NumberInv /\ FitInv /\ [Next]_vars => FitInv'
<1> SUFFICES ASSUME TypeInv, NumberInv, FitInv, [Next]_vars PROVE FitInv'
  OBVIOUS
<1> USE DEF TypeInv, TypeOK
<1>1. ASSUME NEW h \in Handlers, Arrive(h) PROVE FitInv'
  <2>1. CASE \/ \E f \in Registrations : CheckRegistration(h, f)
             \/ \E u \in Ids, f \in Changes : LoadUser(h, u, f)
    BY <2>1
       DEF CheckRegistration, LoadUser, Load, FitInv, StoredNumbersFit, HasProfile
  <2>2. ASSUME NEW u \in Ids, NEW t \in Texts \cup {<<>>}, LoadProfile(h, u, t)
        PROVE FitInv'
    <3>1. PICK step \in {"saveprofile", "checkprofile"}, n \in Texts :
              /\ step = "saveprofile" => n = profile[u]
              /\ Load(h, u, [NoForm EXCEPT !.tax = n], step)
      BY <2>2 DEF LoadProfile, HasProfile
    <3>2. [NoForm EXCEPT !.tax = n].tax = n
      BY DEF NoForm
    <3> QED
      BY <2>2, <3>1, <3>2
         DEF LoadProfile, Load, FitInv, StoredNumbersFit, HasProfile
  <2> QED
    BY <1>1, <2>1, <2>2 DEF Arrive
<1>2. ASSUME NEW h \in Handlers, Continue(h) PROVE FitInv'
  <2>1. CASE InsertUser(h)
    <3>1. CASE Answer(h)
      BY <2>1, <3>1, AnswerFit DEF InsertUser
    <3>2. CASE pc' = [pc EXCEPT ![h] = "code"] /\ UNCHANGED form
      BY <2>1, <3>2 DEF InsertUser, FitInv, StoredNumbersFit, HasProfile
    <3> QED
      BY <2>1, <3>1, <3>2 DEF InsertUser
  <2>2. CASE InsertUserFails(h) \/ RegistrationBreaks(h) \/ CheckUserRefuses(h)
             \/ SaveUser(h)
    BY <2>2, AnswerFit
       DEF InsertUserFails, RegistrationBreaks, CheckUserRefuses, SaveUser
  <2>3. CASE SaveCode(h) \/ CheckUser(h)
    BY <2>3 DEF SaveCode, CheckUser, FitInv, StoredNumbersFit, HasProfile
  <2>4. CASE InsertProfile(h)
    <3>1. form[h].tax \in Text /\ IsTaxNumber(form[h].tax)
      BY <2>4, AccountsAssumption DEF InsertProfile, NumberInv, RequestShape
    <3>2. Storable(form[h].tax)
      BY <3>1, ValidIsStorable
    <3> QED
      BY <2>4, <3>2 DEF InsertProfile, FitInv, StoredNumbersFit, HasProfile
  <2>5. CASE CheckProfile(h)
    <3>1. CASE Answer(h)
      BY <2>5, <3>1, AnswerFit DEF CheckProfile
    <3>2. CASE /\ pc' = [pc EXCEPT ![h] = "saveprofile"]
               /\ UNCHANGED <<target, copy, form>>
               /\ Storable(form[h].tax)
      BY <2>5, <3>2 DEF CheckProfile, FitInv, StoredNumbersFit, HasProfile
    <3> QED
      BY <2>5, <3>1, <3>2 DEF CheckProfile
  <2>6. CASE SaveProfile(h)
    BY <2>6 DEF SaveProfile, Answer, FitInv, StoredNumbersFit, HasProfile
  <2> QED
    BY <1>2, <2>1, <2>2, <2>3, <2>4, <2>5, <2>6 DEF Continue
<1>3. ASSUME NEW h \in Handlers, HandlerFails(h) PROVE FitInv'
  BY <1>3, AnswerFit DEF HandlerFails
<1>4. ASSUME NEW u \in Ids, DeleteUser(u) \/ DeleteProfile(u) PROVE FitInv'
  BY <1>4
     DEF DeleteUser, DeleteProfile, request, FitInv, StoredNumbersFit, HasProfile
<1>5. CASE UNCHANGED vars
  BY <1>5 DEF vars, FitInv, StoredNumbersFit, HasProfile
<1> QED
  BY <1>1, <1>2, <1>3, <1>4, <1>5 DEF Next

(* Every stored number passes the validators of its column, those included *)
(* that registration inserts without asking them (serializers.py 214).     *)
THEOREM FitsCorrect == Spec => []StoredNumbersFit
<1>1. Spec => [](TypeInv /\ NumberInv)
  BY InitTyped, NextTyped, InitNumber, NextNumber, PTL DEF Spec
<1>2. Spec => []FitInv
  BY <1>1, InitFit, NextFit, PTL DEF Spec
<1>3. FitInv => StoredNumbersFit
  BY DEF FitInv
<1> QED
  BY <1>2, <1>3, PTL

-----------------------------------------------------------------------------
(* Shared addresses.                                                       *)

(* The requests g and h are not about to write the same user. *)
Apart(g, h) == target[g] = None \/ target[g] # target[h]

(* Two users, a user and the request of another one, or two requests that  *)
(* have or want the same address: then it is doubtful or blank.            *)
AddressInv ==
    /\ \A u, v \in Ids :
           u # v /\ Exists(u) /\ user[u].email = user[v].email
               => user[u].email \in doubtful \cup {Blank}
    /\ \A h \in Handlers, u \in Ids :
           Exists(u) /\ target[h] # u /\ Claim(h) = user[u].email
               => user[u].email \in doubtful \cup {Blank}
    /\ \A g, h \in Handlers :
           g # h /\ Apart(g, h) /\ Claim(g) # None /\ Claim(g) = Claim(h)
               => Claim(g) \in doubtful \cup {Blank}

LEMMA InitAddress == Init => AddressInv
BY DEF Init, AddressInv, Exists, Claim, NoUser

(* An address somebody has is one. *)
LEMMA EmailOfUser ==
    ASSUME TypeInv
    PROVE  /\ \A u \in Ids : Exists(u) <=> user[u].email # None
           /\ \A u \in Ids : Exists(u) => user[u].email \in Emails
           /\ \A h \in Handlers : Claim(h) \in Emails \cup {None}
           /\ \A h \in Handlers :
                  Claim(h) # None <=> pc[h] \in Writing \cup {"insert"}
<1> USE DEF TypeInv, TypeOK
<1>1. \A u \in Ids : Exists(u) <=> user[u].email # None
  BY AccountsAssumption DEF Exists, User, NoUser
<1>2. \A u \in Ids : Exists(u) => user[u].email \in Emails
  BY DEF Exists, User
<1>3. ASSUME NEW h \in Handlers, pc[h] = "insert" PROVE Claim(h) \in Emails
  BY <1>3, NewUserTyped DEF Claim, RequestShape
<1>4. ASSUME NEW h \in Handlers, pc[h] \in Writing PROVE Claim(h) \in Emails
  BY <1>4 DEF Claim, RequestShape, User, Writing
<1>5. ASSUME NEW h \in Handlers, pc[h] \notin Writing \cup {"insert"}
      PROVE Claim(h) = None
  BY <1>5 DEF Claim, RequestShape, NoUser
<1> QED
  BY <1>1, <1>2, <1>3, <1>4, <1>5, AccountsAssumption

(* A step after which everybody has or wants no more than before. *)
LEMMA LessAddress ==
    ASSUME AddressInv, doubtful \subseteq doubtful',
           \A u \in Ids : Exists(u)' => Exists(u) /\ user'[u].email = user[u].email,
           \A u \in Ids : user'[u].email \in {user[u].email, None},
           \A u \in Ids : Exists(u)' => user'[u].email # None,
           \A h \in Handlers :
               \/ Claim(h)' = None
               \/ Claim(h)' = Claim(h) /\ target'[h] = target[h]
    PROVE  AddressInv'
<1>1. \A u, v \in Ids :
          u # v /\ Exists(u)' /\ user'[u].email = user'[v].email
              => user'[u].email \in doubtful' \cup {Blank}
  BY DEF AddressInv
<1>2. \A h \in Handlers, u \in Ids :
          Exists(u)' /\ target'[h] # u /\ Claim(h)' = user'[u].email
              => user'[u].email \in doubtful' \cup {Blank}
  BY DEF AddressInv
<1>3. \A g, h \in Handlers :
          g # h /\ Apart(g, h)' /\ Claim(g)' # None /\ Claim(g)' = Claim(h)'
              => Claim(g)' \in doubtful' \cup {Blank}
  BY DEF AddressInv, Apart
<1> QED
  BY <1>1, <1>2, <1>3 DEF AddressInv

LEMMA AnswerAddress ==
    ASSUME TypeInv, AddressInv, NEW h \in Handlers, Answer(h),
           UNCHANGED <<user, doubtful>>
    PROVE  AddressInv'
<1>1. \A u \in Ids : Exists(u)' => user'[u].email # None
  BY EmailOfUser DEF Exists
<1>2. \A g \in Handlers :
          \/ Claim(g)' = None
          \/ Claim(g)' = Claim(g) /\ target'[g] = target[g]
  BY DEF Answer, Claim, TypeInv, TypeOK, NoUser
<1> QED
  BY <1>1, <1>2, LessAddress DEF Exists

(* A step by which h begins to want the address e for the user t. *)
LEMMA ClaimAddress ==
    ASSUME TypeInv, AddressInv, NEW h \in Handlers, NEW e \in Emails, NEW t,
           user' = user, doubtful \subseteq doubtful',
           Claim(h)' = e, target'[h] = t,
           \A g \in Handlers \ {h} : Claim(g)' = Claim(g) /\ target'[g] = target[g],
           \A u \in Ids : u # t /\ user[u].email = e => e \in doubtful' \cup {Blank},
           \A g \in Handlers \ {h} :
               Claim(g) = e /\ (target[g] = None \/ target[g] # t) => e \in doubtful' \cup {Blank}
    PROVE  AddressInv'
<1>1. \A u \in Ids : Exists(u)' <=> Exists(u)
  BY DEF Exists
<1>2. \A u, v \in Ids :
          u # v /\ Exists(u)' /\ user'[u].email = user'[v].email
              => user'[u].email \in doubtful' \cup {Blank}
  BY <1>1 DEF AddressInv
<1>3. \A g \in Handlers, u \in Ids :
          Exists(u)' /\ target'[g] # u /\ Claim(g)' = user'[u].email
              => user'[u].email \in doubtful' \cup {Blank}
  BY <1>1 DEF AddressInv
<1>4. \A g, i \in Handlers :
          g # i /\ Apart(g, i)' /\ Claim(g)' # None /\ Claim(g)' = Claim(i)'
              => Claim(g)' \in doubtful' \cup {Blank}
  <2> SUFFICES ASSUME NEW g \in Handlers, NEW i \in Handlers, g # i,
                      Apart(g, i)', Claim(g)' # None, Claim(g)' = Claim(i)'
               PROVE  Claim(g)' \in doubtful' \cup {Blank}
    OBVIOUS
  <2>1. CASE g # h /\ i # h
    BY <2>1 DEF AddressInv, Apart
  <2>2. CASE g = h
    BY <2>2 DEF Apart
  <2>3. CASE i = h
    BY <2>3 DEF Apart
  <2> QED
    BY <2>1, <2>2, <2>3
<1> QED
  BY <1>2, <1>3, <1>4 DEF AddressInv

(* A step by which h stores for the user u the address it wanted. *)
LEMMA StoreAddress ==
    ASSUME TypeInv, AddressInv, NEW h \in Handlers, NEW u \in Ids, NEW r \in User,
           user' = [user EXCEPT ![u] = r], r.email = Claim(h),
           target[h] \in {None, u}, UNCHANGED doubtful,
           \A g \in Handlers \ {h} : Claim(g)' = Claim(g) /\ target'[g] = target[g],
           Claim(h)' = None \/ (Claim(h)' = Claim(h) /\ target'[h] = u)
    PROVE  AddressInv'
<1> DEFINE e == r.email
<1>1. e \in Emails /\ e # None
  BY AccountsAssumption DEF User
<1>2. user'[u].email = e /\ \A v \in Ids \ {u} : user'[v] = user[v]
  BY DEF TypeInv, TypeOK
<1>3. \A v \in Ids \ {u} : Exists(v)' <=> Exists(v)
  BY <1>2 DEF Exists
<1>4. ASSUME NEW v \in Ids \ {u}, user[v].email = e PROVE e \in doubtful \cup {Blank}
  <2>1. Exists(v) /\ target[h] # v
    BY <1>1, <1>4, EmailOfUser, AccountsAssumption
  <2> QED
    BY <1>4, <2>1 DEF AddressInv
<1>5. ASSUME NEW g \in Handlers \ {h}, Claim(g) = e, target[g] # u
      PROVE  e \in doubtful \cup {Blank}
  <2>1. Apart(g, h)
    BY <1>5 DEF Apart
  <2> QED
    BY <1>1, <1>5, <2>1 DEF AddressInv
<1>6. \A v, w \in Ids :
          v # w /\ Exists(v)' /\ user'[v].email = user'[w].email
              => user'[v].email \in doubtful' \cup {Blank}
  BY <1>2, <1>3, <1>4 DEF AddressInv
<1>7. \A g \in Handlers, v \in Ids :
          Exists(v)' /\ target'[g] # v /\ Claim(g)' = user'[v].email
              => user'[v].email \in doubtful' \cup {Blank}
  <2> SUFFICES ASSUME NEW g \in Handlers, NEW v \in Ids, Exists(v)',
                      target'[g] # v, Claim(g)' = user'[v].email
               PROVE  user'[v].email \in doubtful \cup {Blank}
    OBVIOUS
  <2>1. CASE v = u
    BY <1>1, <1>2, <1>5, <2>1
  <2>2. CASE v # u /\ g # h
    BY <1>2, <1>3, <2>2 DEF AddressInv
  <2>3. CASE v # u /\ g = h
    <3>1. user[v].email = Claim(h)' /\ Exists(v)
      BY <1>2, <1>3, <2>3
    <3>2. user[v].email = e
      BY <3>1, EmailOfUser
    <3> QED
      BY <1>2, <1>4, <2>3, <3>2
  <2> QED
    BY <2>1, <2>2, <2>3
<1>8. \A g, i \in Handlers :
          g # i /\ Apart(g, i)' /\ Claim(g)' # None /\ Claim(g)' = Claim(i)'
              => Claim(g)' \in doubtful' \cup {Blank}
  <2> SUFFICES ASSUME NEW g \in Handlers, NEW i \in Handlers, g # i,
                      Apart(g, i)', Claim(g)' # None, Claim(g)' = Claim(i)'
               PROVE  Claim(g)' \in doubtful \cup {Blank}
    OBVIOUS
  <2>1. CASE g # h /\ i # h
    BY <2>1 DEF AddressInv, Apart
  <2>2. CASE g = h
    BY <1>5, <2>2, AccountsAssumption DEF Apart
  <2>3. CASE i = h
    BY <1>5, <2>3, AccountsAssumption DEF Apart
  <2> QED
    BY <2>1, <2>2, <2>3
<1> QED
  BY <1>6, <1>7, <1>8 DEF AddressInv

LEMMA ArriveAddress ==
    ASSUME TypeInv, AddressInv, NEW h \in Handlers, Arrive(h)
    PROVE  AddressInv'
<1> USE DEF TypeInv, TypeOK
<1>1. ASSUME NEW f \in Registrations, CheckRegistration(h, f) PROVE AddressInv'
  <2>0. f \in Form /\ (f.email = Keep \/ f.email \in Emails)
    BY AccountsAssumption DEF Form
  <2>1. /\ f \in Form /\ AddressOf(f) \in Emails
        /\ target[h] = None /\ UNCHANGED <<user, target, copy>>
    <3>1. AddressOf(f) \in Emails
      BY <2>0, AccountsAssumption DEF AddressOf
    <3> QED
      BY <1>1, <2>0, <3>1 DEF CheckRegistration, RequestShape
  <2>2. /\ form' = [form EXCEPT ![h] = IF f.type = "supplier"
                                       THEN [f EXCEPT !.tax = ToStore(f.tax)]
                                       ELSE [f EXCEPT !.tax = <<>>]]
        /\ pc' = [pc EXCEPT ![h] = "insert"]
    BY <1>1 DEF CheckRegistration
  <2>3. form'[h].email = f.email /\ form'[h].type = f.type
    BY <2>1, <2>2 DEF Form
  <2>4. AddressOf(form'[h]) = AddressOf(f)
    BY <2>3 DEF AddressOf
  <2>5. Claim(h)' = AddressOf(f)
    BY <2>2, <2>4 DEF Claim, AddressOf
  <2>6. \A g \in Handlers \ {h} : Claim(g)' = Claim(g) /\ target'[g] = target[g]
    BY <2>1, <2>2 DEF Claim
  <2>7. CASE f.email = Keep
    <3>1. AddressOf(f) = Blank /\ UNCHANGED doubtful
      BY <1>1, <2>7 DEF CheckRegistration, AddressOf
    <3> QED
      BY <2>1, <2>5, <2>6, <3>1, ClaimAddress
  <2>8. CASE f.email # Keep
    <3>1. ~EmailTaken(f.email) /\ Check(h, None, f.email, AddressOf(f))
      BY <1>1, <2>8 DEF CheckRegistration
    <3>2. \A u \in Ids : user[u].email = AddressOf(f)
              => AddressOf(f) \in doubtful' \cup {Blank}
      BY <3>1 DEF EmailTaken, Check
    <3>3. \A g \in Handlers \ {h} :
              Claim(g) = AddressOf(f) /\ (target[g] = None \/ target[g] # None)
                  => AddressOf(f) \in doubtful' \cup {Blank}
      BY <3>1 DEF Check, Contested
    <3>4. doubtful \subseteq doubtful'
      BY <3>1 DEF Check
    <3> QED
      BY <2>1, <2>5, <2>6, <3>2, <3>3, <3>4, ClaimAddress
  <2> QED
    BY <2>7, <2>8
<1>2. ASSUME NEW u \in Ids, NEW f \in Changes, LoadUser(h, u, f) PROVE AddressInv'
  <2>1. /\ pc' = [pc EXCEPT ![h] = "check"]
        /\ target' = [target EXCEPT ![h] = u]
        /\ form' = [form EXCEPT ![h] = f]
        /\ copy' = [copy EXCEPT ![h] = user[u]]
        /\ Exists(u) /\ UNCHANGED <<user, doubtful>>
    BY <1>2 DEF LoadUser, Load, history
  <2>2. Claim(h)' = user[u].email
    BY <2>1 DEF Claim
  <2>3. \A g \in Handlers \ {h} : Claim(g)' = Claim(g) /\ target'[g] = target[g]
    BY <2>1 DEF Claim
  <2>4. user[u].email \in Emails
    BY <2>1, EmailOfUser
  <2>5. \A v \in Ids : v # u /\ user[v].email = user[u].email
                        => user[u].email \in doubtful \cup {Blank}
    BY <2>1 DEF AddressInv
  <2>6. \A g \in Handlers \ {h} :
            Claim(g) = user[u].email /\ (target[g] = None \/ target[g] # u)
                => user[u].email \in doubtful \cup {Blank}
    BY <2>1, AccountsAssumption DEF AddressInv
  <2>7. target'[h] = u
    BY <2>1
  <2> QED
    BY <2>1, <2>2, <2>3, <2>4, <2>5, <2>6, <2>7, ClaimAddress
<1>3. ASSUME NEW u \in Ids, NEW t \in Texts \cup {<<>>}, LoadProfile(h, u, t)
      PROVE AddressInv'
  <2>1. PICK step \in {"saveprofile", "checkprofile"} :
            /\ pc[h] = "idle"
            /\ pc' = [pc EXCEPT ![h] = step]
            /\ \A g \in Handlers \ {h} : /\ target'[g] = target[g]
                                         /\ form'[g] = form[g]
    BY <1>3 DEF LoadProfile, Load
  <2>2. UNCHANGED <<user, copy, doubtful>>
    BY <1>3 DEF LoadProfile, history
  <2>3. Claim(h)' = None
    BY <2>1, <2>2 DEF Claim, RequestShape, NoUser, Writing
  <2>4. \A g \in Handlers \ {h} : Claim(g)' = Claim(g)
    BY <2>1, <2>2 DEF Claim
  <2>5. \A v \in Ids : Exists(v)' => Exists(v) /\ user'[v].email # None
    BY <2>2, EmailOfUser DEF Exists
  <2> QED
    BY <2>1, <2>2, <2>3, <2>4, <2>5, LessAddress
<1> QED
  BY <1>1, <1>2, <1>3 DEF Arrive

LEMMA InsertUserAddress ==
    ASSUME TypeInv, AddressInv, NEW h \in Handlers, InsertUser(h)
    PROVE  AddressInv'
<1> USE DEF TypeInv, TypeOK
<1> PICK u \in Ids :
        /\ pc[h] = "insert"
        /\ user' = [user EXCEPT ![u] = NewUser(form[h])]
        /\ IF form[h].type = "supplier"
           THEN /\ pc' = [pc EXCEPT ![h] = "code"]
                /\ target' = [target EXCEPT ![h] = u]
                /\ copy' = [copy EXCEPT ![h] = NewUser(form[h])]
                /\ reply' = [reply EXCEPT ![u] = "running"]
                /\ UNCHANGED form
           ELSE Answer(h) /\ reply' = [reply EXCEPT ![u] = "201"]
        /\ UNCHANGED <<profile, doubtful, edited>>
  BY DEF InsertUser
<1>1. /\ NewUser(form[h]) \in User
      /\ NewUser(form[h]).email = Claim(h)
      /\ target[h] = None
  BY NewUserTyped DEF RequestShape, Claim
<1>2. \A g \in Handlers \ {h} : Claim(g)' = Claim(g) /\ target'[g] = target[g]
  BY DEF Claim, Answer
<1>3. Claim(h)' = None \/ (Claim(h)' = Claim(h) /\ target'[h] = u)
  <2>1. CASE form[h].type = "supplier"
    <3>1. pc'[h] = "code" /\ copy'[h] = NewUser(form[h]) /\ target'[h] = u
      BY <2>1
    <3> QED
      BY <1>1, <3>1 DEF Claim
  <2>2. CASE form[h].type # "supplier"
    <3>1. Answer(h)
      BY <2>2
    <3>2. pc'[h] = "idle" /\ copy'[h] = NoUser
      BY <3>1 DEF Answer
    <3>3. Claim(h)' = copy'[h].email
      BY <3>2 DEF Claim
    <3>4. NoUser.email = None
      BY DEF NoUser
    <3> QED
      BY <3>2, <3>3, <3>4
  <2> QED
    BY <2>1, <2>2
<1> QED
  BY <1>1, <1>2, <1>3, StoreAddress

LEMMA CheckUserAddress ==
    ASSUME TypeInv, AddressInv, NEW h \in Handlers, CheckUser(h)
    PROVE  AddressInv'
<1> USE DEF TypeInv, TypeOK
<1>1. /\ pc[h] = "check" /\ pc' = [pc EXCEPT ![h] = "save"]
      /\ copy' = [copy EXCEPT ![h] = Apply(copy[h], form[h])]
      /\ UNCHANGED <<user, target, form>>
  BY DEF CheckUser
<1>2. /\ copy'[h].email = IF form[h].email = Keep THEN copy[h].email
                          ELSE form[h].email
      /\ target[h] \in Ids
  BY <1>1, AppliedUser DEF RequestShape, Writing
<1>3. \A g \in Handlers \ {h} : Claim(g)' = Claim(g) /\ target'[g] = target[g]
  BY <1>1 DEF Claim
<1>4. CASE form[h].email = Keep
  <2>1. Claim(h)' = Claim(h) /\ UNCHANGED doubtful
    BY <1>1, <1>2, <1>4 DEF Claim, CheckUser
  <2>2. \A v \in Ids : Exists(v)' => Exists(v) /\ user'[v].email # None
    BY <1>1, EmailOfUser DEF Exists
  <2>3. \A g \in Handlers : Claim(g)' = Claim(g) /\ target'[g] = target[g]
    BY <1>1, <1>3, <2>1
  <2> QED
    BY <1>1, <2>1, <2>2, <2>3, LessAddress
<1>5. CASE form[h].email # Keep
  <2> DEFINE e == form[h].email
  <2>1. e \in Emails
    BY <1>5 DEF Form
  <2>2. Claim(h)' = e
    BY <1>1, <1>2, <1>5 DEF Claim
  <2>3. /\ \A u \in Ids : user[u].email # e
        /\ doubtful \subseteq doubtful'
        /\ \A g \in Handlers \ {h} :
               Claim(g) = e /\ (target[g] = None \/ target[g] # target[h])
                   => e \in doubtful' \cup {Blank}
    BY <1>5 DEF CheckUser, EmailTaken, Check, Contested
  <2> QED
    BY <1>1, <1>2, <1>3, <2>1, <2>2, <2>3, ClaimAddress
<1> QED
  BY <1>4, <1>5

LEMMA SaveAddress ==
    ASSUME TypeInv, AddressInv, NEW h \in Handlers, SaveCode(h) \/ SaveUser(h)
    PROVE  AddressInv'
<1> USE DEF TypeInv, TypeOK
<1>1. /\ copy[h] \in User /\ copy[h].email = Claim(h) /\ target[h] \in Ids
      /\ UNCHANGED doubtful
  BY DEF SaveCode, SaveUser, RequestShape, Writing, Claim, history
<1>2. /\ Claim(h)' = None
      /\ \A g \in Handlers \ {h} : Claim(g)' = Claim(g) /\ target'[g] = target[g]
  BY DEF SaveCode, SaveUser, Answer, Claim, NoUser
<1>3. CASE user' = user
  <2>1. \A v \in Ids : Exists(v)' => Exists(v) /\ user'[v].email # None
    BY <1>3, EmailOfUser DEF Exists
  <2> QED
    BY <1>1, <1>2, <1>3, <2>1, LessAddress
<1>4. CASE user' = [user EXCEPT ![target[h]] = copy[h]]
  <2>1. PICK u \in Ids : u = target[h]
    BY <1>1
  <2>2. user' = [user EXCEPT ![u] = copy[h]]
    BY <1>4, <2>1
  <2>3. PICK r \in User : r = copy[h]
    BY <1>1
  <2>4. user' = [user EXCEPT ![u] = r] /\ r.email = Claim(h)
    BY <1>1, <2>2, <2>3
  <2>5. target[h] \in {None, u}
    BY <2>1
  <2>6. /\ UNCHANGED doubtful /\ Claim(h)' = None
        /\ \A g \in Handlers \ {h} : Claim(g)' = Claim(g) /\ target'[g] = target[g]
    BY <1>1, <1>2
  <2> HIDE DEF TypeInv, TypeOK
  <2> QED
    BY <2>4, <2>5, <2>6, StoreAddress
<1> QED
  BY <1>3, <1>4 DEF SaveCode, SaveUser

(* AddressInv is inductive. *)
LEMMA NextAddress == TypeInv /\ AddressInv /\ [Next]_vars => AddressInv'
<1> SUFFICES ASSUME TypeInv, AddressInv, [Next]_vars PROVE AddressInv'
  OBVIOUS
<1>1. ASSUME NEW h \in Handlers, Arrive(h) PROVE AddressInv'
  BY <1>1, ArriveAddress
<1>2. ASSUME NEW h \in Handlers, Continue(h) PROVE AddressInv'
  <2>1. CASE InsertUser(h)
    BY <2>1, InsertUserAddress
  <2>2. CASE SaveCode(h) \/ SaveUser(h)
    BY <2>2, SaveAddress
  <2>3. CASE CheckUser(h)
    BY <2>3, CheckUserAddress
  <2>4. CASE InsertUserFails(h) \/ RegistrationBreaks(h) \/ CheckUserRefuses(h)
             \/ SaveProfile(h)
    BY <2>4, AnswerAddress
       DEF InsertUserFails, RegistrationBreaks, CheckUserRefuses, SaveProfile,
           history
  <2>5. CASE InsertProfile(h) \/ CheckProfile(h)
    <3>1. CASE Answer(h)
      BY <2>5, <3>1, AnswerAddress DEF InsertProfile, CheckProfile, history
    <3>2. CASE /\ pc[h] \in {"profile", "checkprofile"}
               /\ \E step \in {"again", "saveprofile"} : pc' = [pc EXCEPT ![h] = step]
               /\ UNCHANGED <<user, target, copy, form, doubtful>>
      <4>1. \A g \in Handlers : Claim(g)' = Claim(g)
        BY <3>2 DEF Claim, TypeInv, TypeOK
      <4>2. \A v \in Ids : Exists(v)' => Exists(v) /\ user'[v].email # None
        BY <3>2, EmailOfUser DEF Exists
      <4> QED
        BY <3>2, <4>1, <4>2, LessAddress
    <3> QED
      BY <2>5, <3>1, <3>2 DEF InsertProfile, CheckProfile, history
  <2> QED
    BY <1>2, <2>1, <2>2, <2>3, <2>4, <2>5 DEF Continue
<1>3. ASSUME NEW h \in Handlers, HandlerFails(h) PROVE AddressInv'
  BY <1>3, AnswerAddress DEF HandlerFails
<1>4. ASSUME NEW u \in Ids, DeleteUser(u) \/ DeleteProfile(u) PROVE AddressInv'
  <2>1. /\ \A v \in Ids : Exists(v)' => Exists(v) /\ user'[v] = user[v]
        /\ \A v \in Ids : user'[v].email \in {user[v].email, None}
    <3>1. CASE DeleteProfile(u)
      BY <3>1 DEF DeleteProfile, Exists
    <3>2. CASE DeleteUser(u)
      <4>1. user' = [user EXCEPT ![u] = NoUser]
        BY <3>2 DEF DeleteUser
      <4>2. user'[u] = NoUser /\ \A v \in Ids \ {u} : user'[v] = user[v]
        BY <4>1 DEF TypeInv, TypeOK
      <4>3. NoUser.email = None
        BY DEF NoUser
      <4> QED
        BY <4>2, <4>3 DEF Exists
    <3> QED
      BY <1>4, <3>1, <3>2
  <2>2. UNCHANGED <<pc, target, copy, form, doubtful>>
    BY <1>4 DEF DeleteUser, DeleteProfile, request, history
  <2>3. \A h \in Handlers : Claim(h)' = Claim(h)
    BY <2>2 DEF Claim
  <2>4. \A v \in Ids : Exists(v)' => user'[v].email # None
    BY <2>1, EmailOfUser
  <2> QED
    BY <2>1, <2>2, <2>3, <2>4, LessAddress
<1>5. CASE UNCHANGED vars
  BY <1>5 DEF vars, AddressInv, Exists, Claim, Apart
<1> QED
  BY <1>1, <1>2, <1>3, <1>4, <1>5 DEF Next

(* password_reset fails only for a doubtful address.  The invariant counts *)
(* what running requests are about to store as if it were stored: a check  *)
(* that finds the address free of both keeps it to one user.               *)
THEOREM ResetCorrect == Spec => []PasswordResetWorks
<1>1. Spec => [](TypeInv /\ AddressInv)
  BY InitTyped, NextTyped, InitAddress, NextAddress, PTL DEF Spec
<1>2. TypeInv /\ AddressInv => PasswordResetWorks
  <2> SUFFICES ASSUME TypeInv, AddressInv, NEW e \in Emails, e \notin doubtful
               PROVE  PasswordReset(e) # "500"
    BY DEF PasswordResetWorks
  <2>0. CASE e = Blank
    BY <2>0 DEF PasswordReset
  <2> SUFFICES ASSUME e # Blank PROVE PasswordReset(e) # "500"
    BY <2>0
  <2> DEFINE S == {u \in Ids : user[u].email = e}
  <2>1. \A u, v \in S : u = v
    BY EmailOfUser, AccountsAssumption DEF AddressInv
  <2>2. S = {} \/ \E u : S = {u}
    BY <2>1
  <2>3. Cardinality(S) \in {0, 1}
    BY <2>2, FS_EmptySet, FS_Singleton
  <2> QED
    BY <2>3 DEF PasswordReset
<1> QED
  BY <1>1, <1>2, PTL

(* Requests that store one address, not blank, if about different users    *)
(* or new ones, do not overlap: from the check of one to its last write    *)
(* no other one has passed its check.                                      *)
OneRequestPerAddress ==
    \A g, h \in Handlers :
        g # h /\ Claim(g) \notin {None, Blank} /\ Claim(g) = Claim(h)
            => ~Apart(g, h)

LEMMA NoDoubt ==
    ASSUME \A e \in Emails : Normal[e] = e, TypeInv, OneRequestPerAddress',
           doubtful \subseteq {Blank}, [Next]_vars
    PROVE  doubtful' \subseteq {Blank}
<1>1. ASSUME NEW h \in Handlers, NEW u, NEW e \in Emails, Check(h, u, e, e),
             Claim(h)' = e,
             \A g \in Handlers \ {h} : Claim(g)' = Claim(g) /\ target'[g] = target[g],
             target'[h] = u
      PROVE  doubtful' \subseteq {Blank}
  <2>1. ASSUME NEW g \in Handlers \ {h}, Claim(g) = e, e # Blank,
               target[g] = None \/ target[g] # u
        PROVE  FALSE
    <3>1. Claim(g)' = e /\ Claim(h)' = e /\ e \notin {None, Blank}
      BY <1>1, <2>1, AccountsAssumption
    <3>2. Apart(g, h)'
      BY <1>1, <2>1 DEF Apart
    <3> QED
      BY <3>1, <3>2 DEF OneRequestPerAddress
  <2>2. CASE e = Blank
    BY <1>1, <2>2 DEF Check
  <2>3. CASE e # Blank
    BY <1>1, <2>1, <2>3 DEF Check, Contested
  <2> QED
    BY <2>2, <2>3
<1>2. ASSUME NEW h \in Handlers, NEW f \in Registrations, CheckRegistration(h, f)
      PROVE  doubtful' \subseteq {Blank}
  <2>1. CASE f.email = Keep
    BY <1>2, <2>1 DEF CheckRegistration
  <2>2. CASE f.email # Keep
    <3>1. f.email \in Emails /\ AddressOf(f) = f.email
      BY <2>2, AccountsAssumption DEF Form, AddressOf
    <3>2. /\ pc[h] = "idle" /\ pc' = [pc EXCEPT ![h] = "insert"]
          /\ UNCHANGED <<target, copy>>
          /\ \E t : form' = [form EXCEPT ![h] = [f EXCEPT !.tax = t]]
      BY <1>2 DEF CheckRegistration
    <3>3. target[h] = None
      BY <3>2 DEF TypeInv, RequestShape
    <3>4. form'[h].email = f.email /\ form'[h].type = f.type
      BY <3>2, AccountsAssumption DEF TypeInv, TypeOK, Form
    <3>5. AddressOf(form'[h]) = AddressOf(f)
      BY <3>4 DEF AddressOf
    <3>6. Claim(h)' = f.email
      BY <3>1, <3>2, <3>5 DEF Claim, TypeInv, TypeOK
    <3>7. \A g \in Handlers \ {h} : Claim(g)' = Claim(g) /\ target'[g] = target[g]
      BY <3>2 DEF Claim, TypeInv, TypeOK
    <3>8. Check(h, None, f.email, f.email)
      BY <1>2, <2>2, <3>1 DEF CheckRegistration
    <3> QED
      BY <1>1, <3>1, <3>2, <3>3, <3>6, <3>7, <3>8
  <2> QED
    BY <2>1, <2>2
<1>3. ASSUME NEW h \in Handlers, CheckUser(h) PROVE doubtful' \subseteq {Blank}
  <2> DEFINE e == form[h].email
  <2>1. CASE e = Keep
    BY <1>3, <2>1 DEF CheckUser
  <2>2. CASE e # Keep
    <3>1. e \in Emails /\ copy[h] \in User
      BY <1>3, <2>2 DEF CheckUser, TypeInv, TypeOK, RequestShape, Form, Writing
    <3>2. /\ pc' = [pc EXCEPT ![h] = "save"]
          /\ copy' = [copy EXCEPT ![h] = Apply(copy[h], form[h])]
          /\ UNCHANGED <<target, form>>
      BY <1>3 DEF CheckUser
    <3>3. Apply(copy[h], form[h]).email = e
      BY <2>2, <3>1 DEF Apply, User
    <3>4. Claim(h)' = e
      BY <3>2, <3>3 DEF Claim, TypeInv, TypeOK
    <3>5. \A g \in Handlers \ {h} : Claim(g)' = Claim(g) /\ target'[g] = target[g]
      BY <3>2 DEF Claim, TypeInv, TypeOK
    <3>6. Check(h, target[h], e, e)
      BY <1>3, <2>2 DEF CheckUser
    <3> HIDE DEF e
    <3> QED
      BY <1>1, <3>1, <3>2, <3>4, <3>5, <3>6
  <2> QED
    BY <2>1, <2>2
<1>4. ASSUME NEW h \in Handlers, Continue(h), ~CheckUser(h) PROVE UNCHANGED doubtful
  BY <1>4 DEF Continue, InsertUser, InsertUserFails, SaveCode, InsertProfile,
              RegistrationBreaks, CheckUserRefuses, SaveUser, CheckProfile,
              SaveProfile, history
<1>5. ASSUME NEW h \in Handlers, Arrive(h),
             \A f \in Registrations : ~CheckRegistration(h, f)
      PROVE  UNCHANGED doubtful
  BY <1>5 DEF Arrive, LoadUser, LoadProfile, history
<1> QED
  BY <1>2, <1>3, <1>4, <1>5
     DEF Next, HandlerFails, DeleteUser, DeleteProfile, history, vars

(* Where, besides, every address is sent in the spelling it is stored in,  *)
(* no two users ever have the same address, unless it is the blank one,    *)
(* although no column of the table says so: a shared address is the work   *)
(* of two overlapping requests or of a second spelling, and of nothing     *)
(* else.  The blank address is shared by clients that were made without    *)
(* an e-mail, which no check looks at.                                     *)
THEOREM AddressesUnique ==
    ASSUME \A e \in Emails : Normal[e] = e
    PROVE  Spec /\ []OneRequestPerAddress =>
               [](\A u, v \in Ids :
                      Exists(u) /\ user[u].email # Blank
                          /\ user[u].email = user[v].email => u = v)
<1> DEFINE Unique == \A u, v \in Ids :
                         Exists(u) /\ user[u].email # Blank
                             /\ user[u].email = user[v].email => u = v
           Inv == TypeInv /\ AddressInv /\ doubtful \subseteq {Blank}
<1>1. Init => Inv
  BY InitTyped, InitAddress DEF Init
<1>2. Inv /\ OneRequestPerAddress' /\ [Next]_vars => Inv'
  BY NextTyped, NextAddress, NoDoubt
<1>3. Inv => Unique
  BY DEF AddressInv
<1> HIDE DEF Inv, Unique
<1>4. Spec /\ []OneRequestPerAddress => []Unique
  BY <1>1, <1>2, <1>3, PTL DEF Spec
<1> QED
  BY <1>4 DEF Unique
-----------------------------------------------------------------------------
(* What becomes of a row.                                                  *)

(* h is going to write the user u. *)
Writes(h, u) == target[h] = u /\ pc[h] \in Writing

(* h goes on with the copy of u it had. *)
Continues(h, u) ==
    /\ Writes(h, u)
    /\ form'[h] = form[h]
    /\ copy'[h] = copy[h] \/ copy'[h] = Apply(copy[h], form[h])

(* The row of u stays, goes or is replaced by a copy somebody had; a copy  *)
(* of u is an older copy or the row itself.                                *)
RowFromCopy(u) ==
    /\ reply'[u] # None
    /\ \/ user'[u] \in {user[u], NoUser}
       \/ \E h \in Handlers : Writes(h, u) /\ user'[u] = copy[h]
    /\ \A h \in Handlers :
           Writes(h, u)' => Continues(h, u) \/ (Exists(u) /\ copy'[h] = user[u])

(* A step in which h only ends, or begins something else than a write. *)
LEMMA OtherRow ==
    ASSUME TypeInv, NEW u \in Ids, reply'[u] # None, NEW h \in Handlers,
           user'[u] \in {user[u], NoUser}
               \/ (Writes(h, u) /\ user'[u] = copy[h]),
           ~Writes(h, u)',
           \A g \in Handlers \ {h} :
               /\ pc'[g] = pc[g] /\ target'[g] = target[g]
               /\ copy'[g] = copy[g] /\ form'[g] = form[g]
    PROVE  RowFromCopy(u)
BY DEF RowFromCopy, Writes, Continues

(* In particular, the step in which h answers. *)
LEMMA AnswerRow ==
    ASSUME TypeInv, NEW u \in Ids, reply'[u] # None, NEW h \in Handlers, Answer(h),
           user'[u] \in {user[u], NoUser}
               \/ (Writes(h, u) /\ user'[u] = copy[h])
    PROVE  RowFromCopy(u)
<1>1. ~Writes(h, u)'
  BY AccountsAssumption DEF Answer, Writes, TypeInv, TypeOK
<1>2. \A g \in Handlers \ {h} :
          /\ pc'[g] = pc[g] /\ target'[g] = target[g]
          /\ copy'[g] = copy[g] /\ form'[g] = form[g]
  BY DEF Answer, TypeInv, TypeOK
<1> QED
  BY <1>1, <1>2, OtherRow

LEMMA InsertUserRow ==
    ASSUME TypeInv, NEW u \in Ids, reply[u] # None, NEW h \in Handlers, InsertUser(h)
    PROVE  RowFromCopy(u)
<1> USE DEF TypeInv, TypeOK
<1> PICK v \in Ids :
        /\ Unused(v)
        /\ user' = [user EXCEPT ![v] = NewUser(form[h])]
        /\ IF form[h].type = "supplier"
           THEN /\ pc' = [pc EXCEPT ![h] = "code"]
                /\ target' = [target EXCEPT ![h] = v]
                /\ copy' = [copy EXCEPT ![h] = NewUser(form[h])]
                /\ reply' = [reply EXCEPT ![v] = "running"]
                /\ UNCHANGED form
           ELSE Answer(h) /\ reply' = [reply EXCEPT ![v] = "201"]
  BY DEF InsertUser
<1>1. v # u
  BY DEF Unused
<1>2. user'[u] = user[u] /\ reply'[u] # None
  BY <1>1
<1>3. CASE form[h].type = "supplier"
  BY <1>1, <1>2, <1>3, OtherRow DEF Writes
<1>4. CASE form[h].type # "supplier"
  BY <1>2, <1>4, AnswerRow
<1> QED
  BY <1>3, <1>4

LEMMA NextRow ==
    ASSUME TypeInv, [Next]_vars, NEW u \in Ids, reply[u] # None
    PROVE  RowFromCopy(u)
<1> USE DEF TypeInv, TypeOK
<1>1. ASSUME NEW h \in Handlers, Arrive(h) PROVE RowFromCopy(u)
  <2>1. ASSUME NEW f \in Registrations, CheckRegistration(h, f) PROVE RowFromCopy(u)
    BY <2>1, AccountsAssumption, OtherRow DEF CheckRegistration, Writes, Writing
  <2>2. ASSUME NEW v \in Ids, NEW f \in Changes, LoadUser(h, v, f)
        PROVE RowFromCopy(u)
    BY <2>2 DEF LoadUser, Load, history, RowFromCopy, Writes, Continues
  <2>3. ASSUME NEW v \in Ids, NEW t \in Texts \cup {<<>>}, LoadProfile(h, v, t)
        PROVE RowFromCopy(u)
    <3>1. PICK step \in {"saveprofile", "checkprofile"} :
              pc' = [pc EXCEPT ![h] = step]
      BY <2>3 DEF LoadProfile, Load
    <3>2. ~Writes(h, u)'
      BY <3>1 DEF Writes, Writing
    <3>3. \A g \in Handlers \ {h} :
              /\ pc'[g] = pc[g] /\ target'[g] = target[g]
              /\ copy'[g] = copy[g] /\ form'[g] = form[g]
      BY <2>3, <3>1 DEF LoadProfile, Load
    <3>4. user'[u] = user[u] /\ reply'[u] = reply[u]
      BY <2>3 DEF LoadProfile, history
    <3> QED
      BY <3>2, <3>3, <3>4, OtherRow
  <2> QED
    BY <1>1, <2>1, <2>2, <2>3 DEF Arrive
<1>2. ASSUME NEW h \in Handlers, Continue(h) PROVE RowFromCopy(u)
  <2>1. CASE InsertUser(h)
    BY <2>1, InsertUserRow
  <2>2. CASE InsertUserFails(h) \/ CheckUserRefuses(h) \/ SaveProfile(h)
    BY <2>2, AnswerRow DEF InsertUserFails, CheckUserRefuses, SaveProfile, history
  <2>3. CASE SaveCode(h)
    <3>1. Writes(h, target[h]) /\ ~Writes(h, u)'
      BY <2>3 DEF SaveCode, Writes, Writing
    <3>2. user'[u] = user[u] \/ (Writes(h, u) /\ user'[u] = copy[h])
      BY <2>3, <3>1 DEF SaveCode
    <3> QED
      BY <2>3, <3>1, <3>2, OtherRow DEF SaveCode, history
  <2>4. CASE InsertProfile(h)
    BY <2>4, OtherRow DEF InsertProfile, history, Writes, Writing
  <2>5. CASE RegistrationBreaks(h)
    BY <2>5, AnswerRow DEF RegistrationBreaks
  <2>6. CASE CheckUser(h)
    <3>1. /\ Writes(h, target[h])
          /\ copy' = [copy EXCEPT ![h] = Apply(copy[h], form[h])]
          /\ UNCHANGED <<user, target, form, reply>>
          /\ pc' = [pc EXCEPT ![h] = "save"]
      BY <2>6 DEF CheckUser, Writes, Writing
    <3> QED
      BY <3>1 DEF RowFromCopy, Writes, Continues
  <2>7. CASE SaveUser(h)
    <3>1. Writes(h, target[h])
      BY <2>7 DEF SaveUser, Writes, Writing
    <3>2. user'[u] = user[u] \/ (Writes(h, u) /\ user'[u] = copy[h])
      BY <2>7, <3>1 DEF SaveUser
    <3> QED
      BY <2>7, <3>2, AnswerRow DEF SaveUser, history
  <2>8. CASE CheckProfile(h)
    <3>1. CASE Answer(h)
      BY <2>8, <3>1, AnswerRow DEF CheckProfile
    <3>2. CASE /\ pc' = [pc EXCEPT ![h] = "saveprofile"]
               /\ UNCHANGED <<target, copy, form>>
      BY <2>8, <3>2, OtherRow DEF CheckProfile, Writes, Writing
    <3> QED
      BY <2>8, <3>1, <3>2 DEF CheckProfile
  <2> QED
    BY <1>2, <2>1, <2>2, <2>3, <2>4, <2>5, <2>6, <2>7, <2>8 DEF Continue
<1>3. ASSUME NEW h \in Handlers, HandlerFails(h) PROVE RowFromCopy(u)
  BY <1>3, AnswerRow DEF HandlerFails
<1>4. ASSUME NEW v \in Ids, DeleteUser(v) \/ DeleteProfile(v) PROVE RowFromCopy(u)
  BY <1>4 DEF DeleteUser, DeleteProfile, request, history, RowFromCopy, Writes,
              Continues
<1>5. CASE UNCHANGED vars
  BY <1>5 DEF vars, RowFromCopy, Writes, Continues
<1> QED
  BY <1>1, <1>2, <1>3, <1>4, <1>5 DEF Next

(* A deleted user whom no request holds does not come back. *)
THEOREM GoneCorrect == Spec => GoneUserStaysGone
<1>1. TypeInv /\ [Next]_vars => \A u \in Ids : Gone(u) => Gone(u)'
  <2> SUFFICES ASSUME TypeInv, [Next]_vars, NEW u \in Ids, Gone(u)
               PROVE  Gone(u)'
    OBVIOUS
  <2>1. RowFromCopy(u)
    BY NextRow DEF Gone
  <2> QED
    BY <2>1 DEF RowFromCopy, Gone, Exists, Writes, Continues
<1>2. Spec => []TypeInv
  BY InitTyped, NextTyped, PTL DEF Spec
<1> QED
  BY <1>1, <1>2, PTL DEF Spec, GoneUserStaysGone

(* A deactivated user stays so until a request asks for the contrary. *)
THEOREM DeactivatedCorrect == Spec => DeactivatedUserStaysOut
<1> DEFINE Out(u) == \/ ~Exists(u)'
                     \/ Deactivated(u)'
                     \/ \E h \in Handlers : target'[h] = u /\ form'[h].active = "on"
<1>1. TypeInv /\ ProfileInv /\ [Next]_vars => \A u \in Ids : Deactivated(u) => Out(u)
  <2> SUFFICES ASSUME TypeInv, ProfileInv, [Next]_vars, NEW u \in Ids,
                      Deactivated(u), Exists(u)',
                      \A h \in Handlers : target'[h] = u => form'[h].active # "on"
               PROVE  Deactivated(u)'
    OBVIOUS
  <2>1. RowFromCopy(u)
    BY NextRow DEF Deactivated, ProfileInv, Untouched, Unused
  <2>2. ~user'[u].active
    BY <2>1 DEF RowFromCopy, Deactivated, Writes, Exists
  <2>3. ASSUME NEW h \in Handlers, Writes(h, u)' PROVE ~copy'[h].active
    <3>1. CASE copy'[h] = user[u]
      BY <3>1 DEF Deactivated
    <3>2. CASE Continues(h, u)
      <4>1. ~copy[h].active /\ form[h].active # "on" /\ copy[h] \in User
        BY <3>2 DEF Continues, Writes, Deactivated, TypeInv, RequestShape
      <4>2. ~Apply(copy[h], form[h]).active
        BY <4>1 DEF Apply, User
      <4> QED
        BY <3>2, <4>1, <4>2 DEF Continues
    <3> QED
      BY <2>1, <2>3, <3>1, <3>2 DEF RowFromCopy
  <2> QED
    BY <2>2, <2>3 DEF Deactivated, Writes
<1>2. Spec => [](TypeInv /\ ProfileInv)
  BY InitTyped, NextTyped, InitProfile, NextProfile, PTL DEF Spec
<1> QED
  BY <1>1, <1>2, PTL DEF Spec, DeactivatedUserStaysOut

-----------------------------------------------------------------------------
(* What the control digits are for: they tell a wrong digit.               *)

DigitsOf(n) == [1 .. n -> Digit]

(* The sums of products are numbers. *)
LEMMA Products ==
    \A a, b \in Nat : /\ a + b \in Nat
                     /\ 2 * a \in Nat /\ 3 * a \in Nat /\ 4 * a \in Nat
                     /\ 5 * a \in Nat /\ 6 * a \in Nat /\ 7 * a \in Nat
                     /\ 8 * a \in Nat /\ 9 * a \in Nat /\ 10 * a \in Nat
  OBVIOUS

LEMMA SumsAreNumbers ==
    /\ \A d \in DigitsOf(10) : Sum10(d) \in Nat
    /\ \A d \in DigitsOf(12) : Sum12First(d) \in Nat /\ Sum12Second(d) \in Nat
<1>1. ASSUME NEW d \in DigitsOf(10) PROVE Sum10(d) \in Nat
  <2>1. /\ d[1] \in Nat /\ d[2] \in Nat /\ d[3] \in Nat /\ d[4] \in Nat
        /\ d[5] \in Nat /\ d[6] \in Nat /\ d[7] \in Nat /\ d[8] \in Nat
        /\ d[9] \in Nat
    BY DEF DigitsOf, Digit
  <2> QED
    BY <2>1, Products, Zenon DEF Sum10
<1>2. ASSUME NEW d \in DigitsOf(12)
      PROVE  Sum12First(d) \in Nat /\ Sum12Second(d) \in Nat
  <2>1. /\ d[1] \in Nat /\ d[2] \in Nat /\ d[3] \in Nat /\ d[4] \in Nat
        /\ d[5] \in Nat /\ d[6] \in Nat /\ d[7] \in Nat /\ d[8] \in Nat
        /\ d[9] \in Nat /\ d[10] \in Nat /\ d[11] \in Nat
    BY DEF DigitsOf, Digit
  <2>2. Sum12First(d) \in Nat
    BY <2>1, Products, Zenon DEF Sum12First
  <2>3. Sum12Second(d) \in Nat
    BY <2>1, Products, Zenon DEF Sum12Second
  <2> QED
    BY <2>2, <2>3
<1> QED
  BY <1>1, <1>2

(* A wrong digit in place i changes the sums by its weight only. *)
LEMMA WrongIn10 ==
    ASSUME NEW d \in DigitsOf(10), NEW i \in 1 .. 10, NEW y \in Digit
    PROVE  LET e == [d EXCEPT ![i] = y]
           IN  /\ i = 1 => Sum10(e) - Sum10(d) = 2 * y - 2 * d[1]
               /\ i = 2 => Sum10(e) - Sum10(d) = 4 * y - 4 * d[2]
               /\ i = 3 => Sum10(e) - Sum10(d) = 10 * y - 10 * d[3]
               /\ i = 4 => Sum10(e) - Sum10(d) = 3 * y - 3 * d[4]
               /\ i = 5 => Sum10(e) - Sum10(d) = 5 * y - 5 * d[5]
               /\ i = 6 => Sum10(e) - Sum10(d) = 9 * y - 9 * d[6]
               /\ i = 7 => Sum10(e) - Sum10(d) = 4 * y - 4 * d[7]
               /\ i = 8 => Sum10(e) - Sum10(d) = 6 * y - 6 * d[8]
               /\ i = 9 => Sum10(e) - Sum10(d) = 8 * y - 8 * d[9]
               /\ i = 10 => Sum10(e) = Sum10(d)
<1>1. DOMAIN d = 1 .. 10 /\ y \in Nat /\ \A j \in 1 .. 10 : d[j] \in Nat
  BY DEF DigitsOf, Digit
<1> QED
  BY <1>1 DEF Sum10

LEMMA WrongIn12First ==
    ASSUME NEW d \in DigitsOf(12), NEW i \in 1 .. 12, NEW y \in Digit
    PROVE  LET e == [d EXCEPT ![i] = y]
           IN  /\ i = 1 => Sum12First(e) - Sum12First(d) = 7 * y - 7 * d[1]
               /\ i = 2 => Sum12First(e) - Sum12First(d) = 2 * y - 2 * d[2]
               /\ i = 3 => Sum12First(e) - Sum12First(d) = 4 * y - 4 * d[3]
               /\ i = 4 => Sum12First(e) - Sum12First(d) = 10 * y - 10 * d[4]
               /\ i = 5 => Sum12First(e) - Sum12First(d) = 3 * y - 3 * d[5]
               /\ i = 6 => Sum12First(e) - Sum12First(d) = 5 * y - 5 * d[6]
               /\ i = 7 => Sum12First(e) - Sum12First(d) = 9 * y - 9 * d[7]
               /\ i = 8 => Sum12First(e) - Sum12First(d) = 4 * y - 4 * d[8]
               /\ i = 9 => Sum12First(e) - Sum12First(d) = 6 * y - 6 * d[9]
               /\ i = 10 => Sum12First(e) - Sum12First(d) = 8 * y - 8 * d[10]
               /\ i = 11 => Sum12First(e) = Sum12First(d)
<1>1. DOMAIN d = 1 .. 12 /\ y \in Nat /\ \A j \in 1 .. 12 : d[j] \in Nat
  BY DEF DigitsOf, Digit
<1> QED
  BY <1>1 DEF Sum12First

LEMMA WrongIn12Second ==
    ASSUME NEW d \in DigitsOf(12), NEW i \in 1 .. 12, NEW y \in Digit
    PROVE  LET e == [d EXCEPT ![i] = y]
           IN  /\ i = 1 => Sum12Second(e) - Sum12Second(d) = 3 * y - 3 * d[1]
               /\ i = 2 => Sum12Second(e) - Sum12Second(d) = 7 * y - 7 * d[2]
               /\ i = 3 => Sum12Second(e) - Sum12Second(d) = 2 * y - 2 * d[3]
               /\ i = 4 => Sum12Second(e) - Sum12Second(d) = 4 * y - 4 * d[4]
               /\ i = 5 => Sum12Second(e) - Sum12Second(d) = 10 * y - 10 * d[5]
               /\ i = 6 => Sum12Second(e) - Sum12Second(d) = 3 * y - 3 * d[6]
               /\ i = 7 => Sum12Second(e) - Sum12Second(d) = 5 * y - 5 * d[7]
               /\ i = 8 => Sum12Second(e) - Sum12Second(d) = 9 * y - 9 * d[8]
               /\ i = 9 => Sum12Second(e) - Sum12Second(d) = 4 * y - 4 * d[9]
               /\ i = 10 => Sum12Second(e) - Sum12Second(d) = 6 * y - 6 * d[10]
               /\ i = 11 => Sum12Second(e) - Sum12Second(d) = 8 * y - 8 * d[11]
               /\ i = 12 => Sum12Second(e) = Sum12Second(d)
<1>1. DOMAIN d = 1 .. 12 /\ y \in Nat /\ \A j \in 1 .. 12 : d[j] \in Nat
  BY DEF DigitsOf, Digit
<1> QED
  BY <1>1 DEF Sum12Second

(* Two sums with the same control digit have the same remainder, or the    *)
(* remainders 0 and 10 ...                                                 *)
LEMMA SameControl ==
    ASSUME NEW a \in Nat, NEW b \in Nat, ControlDigit(a) = ControlDigit(b)
    PROVE  \E k \in Int, r \in {-1, 0, 1} : a - b = 11 * k + r
<1>1. \A n \in Nat : /\ n = 11 * (n \div 11) + (n % 11)
                    /\ n % 11 \in 0 .. 10 /\ n \div 11 \in Nat
  OBVIOUS
<1>2. \/ a % 11 = b % 11
      \/ a % 11 = 0 /\ b % 11 = 10
      \/ a % 11 = 10 /\ b % 11 = 0
  BY <1>1 DEF ControlDigit
<1> DEFINE k == (a \div 11) - (b \div 11)
<1>3. k \in Int /\ k + 1 \in Int /\ k - 1 \in Int
  BY <1>1
<1>4. \/ a - b = 11 * k + 0
      \/ a - b = 11 * (k - 1) + 1
      \/ a - b = 11 * (k + 1) + -1
  BY <1>1, <1>2
<1> HIDE DEF k
<1> QED
  BY <1>3, <1>4

(* ... which is only possible for the control digit 0.                     *)
LEMMA SameRemainder ==
    ASSUME NEW a \in Nat, NEW b \in Nat, ControlDigit(a) = ControlDigit(b),
           ControlDigit(b) # 0
    PROVE  \E k \in Int : a - b = 11 * k
<1>1. \A n \in Nat : /\ n = 11 * (n \div 11) + (n % 11)
                    /\ n % 11 \in 0 .. 10 /\ n \div 11 \in Nat
  OBVIOUS
<1>2. a % 11 = b % 11
  BY <1>1 DEF ControlDigit
<1>3. (a \div 11) - (b \div 11) \in Int
      /\ a - b = 11 * ((a \div 11) - (b \div 11))
  BY <1>1, <1>2
<1> QED
  BY <1>3

(* A weight times a difference of digits is no multiple of 11 ...          *)
LEMMA OneWeight ==
    ASSUME NEW x \in Digit, NEW y \in Digit, x # y, NEW k \in Int
    PROVE  /\ 2 * x - 2 * y # 11 * k
           /\ 3 * x - 3 * y # 11 * k
           /\ 4 * x - 4 * y # 11 * k
           /\ 5 * x - 5 * y # 11 * k
           /\ 6 * x - 6 * y # 11 * k
           /\ 8 * x - 8 * y # 11 * k
           /\ 9 * x - 9 * y # 11 * k
           /\ 10 * x - 10 * y # 11 * k
  BY DEF Digit

(* ... and the two weights of a place never bring the same difference next *)
(* to multiples of 11.                                                     *)
LEMMA TwoWeights ==
    ASSUME NEW x \in Digit, NEW y \in Digit, x # y,
           NEW k \in Int, NEW l \in Int,
           NEW r \in {-1, 0, 1}, NEW s \in {-1, 0, 1}
    PROVE  /\ ~(7 * x - 7 * y = 11 * k + r /\ 3 * x - 3 * y = 11 * l + s)
           /\ ~(2 * x - 2 * y = 11 * k + r /\ 7 * x - 7 * y = 11 * l + s)
           /\ ~(4 * x - 4 * y = 11 * k + r /\ 2 * x - 2 * y = 11 * l + s)
           /\ ~(10 * x - 10 * y = 11 * k + r /\ 4 * x - 4 * y = 11 * l + s)
           /\ ~(3 * x - 3 * y = 11 * k + r /\ 10 * x - 10 * y = 11 * l + s)
           /\ ~(5 * x - 5 * y = 11 * k + r /\ 3 * x - 3 * y = 11 * l + s)
           /\ ~(9 * x - 9 * y = 11 * k + r /\ 5 * x - 5 * y = 11 * l + s)
           /\ ~(4 * x - 4 * y = 11 * k + r /\ 9 * x - 9 * y = 11 * l + s)
           /\ ~(6 * x - 6 * y = 11 * k + r /\ 4 * x - 4 * y = 11 * l + s)
           /\ ~(8 * x - 8 * y = 11 * k + r /\ 6 * x - 6 * y = 11 * l + s)
  BY DEF Digit

(* A number with a wrong digit in place i. *)
LEMMA WrongTyped ==
    ASSUME NEW n \in Nat, NEW d \in DigitsOf(n), NEW i \in 1 .. n, NEW y \in Digit
    PROVE  /\ [d EXCEPT ![i] = y] \in DigitsOf(n)
           /\ [d EXCEPT ![i] = y][i] = y
           /\ \A j \in 1 .. n \ {i} : [d EXCEPT ![i] = y][j] = d[j]
  BY DEF DigitsOf

(* The two control digits of a number with 12 digits tell every wrong      *)
(* digit (validate_inn_12).                                                *)
THEOREM WrongDigitOf12 ==
    ASSUME NEW d \in DigitsOf(12), ValidInn12(d),
           NEW i \in 1 .. 12, NEW y \in Digit \ {d[i]}
    PROVE  ~ValidInn12([d EXCEPT ![i] = y])
<1> DEFINE e == [d EXCEPT ![i] = y]
<1> SUFFICES ASSUME ValidInn12(e) PROVE FALSE
  OBVIOUS
<1>1. /\ e \in DigitsOf(12) /\ e[i] = y
      /\ \A j \in 1 .. 12 \ {i} : e[j] = d[j]
  BY WrongTyped
<1>2. CASE i = 12
  <2>1. Sum12Second(e) = Sum12Second(d)
    BY <1>2, WrongIn12Second
  <2> QED
    BY <1>1, <1>2, <2>1 DEF ValidInn12
<1>3. CASE i = 11
  <2>1. Sum12First(e) = Sum12First(d)
    BY <1>3, WrongIn12First
  <2> QED
    BY <1>1, <1>3, <2>1 DEF ValidInn12
<1>4. CASE i \in 1 .. 10
  <2>1. d[11] = e[11] /\ d[12] = e[12] /\ d[i] \in Digit
    BY <1>1, <1>4 DEF DigitsOf
  <2>2. PICK k \in Int, r \in {-1, 0, 1} :
            Sum12First(e) - Sum12First(d) = 11 * k + r
    BY <1>1, <2>1, SumsAreNumbers, SameControl DEF ValidInn12
  <2>3. PICK l \in Int, s \in {-1, 0, 1} :
            Sum12Second(e) - Sum12Second(d) = 11 * l + s
    BY <1>1, <2>1, SumsAreNumbers, SameControl DEF ValidInn12
  <2> HIDE DEF e
  <2> QED
    BY <1>4, <2>1, <2>2, <2>3, WrongIn12First, WrongIn12Second, TwoWeights
       DEF e
<1> QED
  BY <1>2, <1>3, <1>4

(* The control digit of a number with 10 digits tells every wrong digit,   *)
(* itself included, unless it is 0: the remainders 0 and 10 have the same. *)
THEOREM WrongDigitOf10 ==
    ASSUME NEW d \in DigitsOf(10), ValidInn10(d),
           NEW i \in 1 .. 10, NEW y \in Digit \ {d[i]},
           ValidInn10([d EXCEPT ![i] = y])
    PROVE  i # 10 /\ d[10] = 0
<1> DEFINE e == [d EXCEPT ![i] = y]
<1>1. /\ e \in DigitsOf(10) /\ e[i] = y /\ d[i] \in Digit
      /\ \A j \in 1 .. 10 \ {i} : e[j] = d[j]
  BY WrongTyped DEF DigitsOf
<1>2. i # 10
  <2> SUFFICES ASSUME i = 10 PROVE FALSE
    OBVIOUS
  <2>1. Sum10(e) = Sum10(d)
    BY WrongIn10
  <2> QED
    BY <1>1, <2>1 DEF ValidInn10
<1>3. ASSUME d[10] # 0 PROVE FALSE
  <2>1. d[10] = e[10]
    BY <1>1, <1>2
  <2>2. PICK k \in Int : Sum10(e) - Sum10(d) = 11 * k
    BY <1>1, <1>3, <2>1, SumsAreNumbers, SameRemainder DEF ValidInn10
  <2> HIDE DEF e
  <2> QED
    BY <1>1, <1>2, <2>2, WrongIn10, OneWeight DEF e
<1> QED
  BY <1>2, <1>3
=============================================================================
