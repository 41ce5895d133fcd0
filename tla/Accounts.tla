------------------------------ MODULE Accounts ------------------------------
(***************************************************************************)
(* Accounts of the ordering service: registration (UserViewSet.register    *)
(* and UserRegistrationSerializer), changes of a user and of a supplier    *)
(* profile, their deletion, and the answer of password_reset.              *)
(*                                                                         *)
(* An action is one statement of the database, which commits by itself,    *)
(* with the Python code around it.  Model.save() writes EVERY column of    *)
(* the copy the request has loaded and inserts the row again when the      *)
(* UPDATE finds none.  The table of profiles is indexed by the user, which *)
(* a unique column allows.                                                 *)
(***************************************************************************)
EXTENDS TaxNumbers, FiniteSets

CONSTANTS
    Ids,            \* primary keys of users, each used by one INSERT at most
    Handlers,       \* concurrent requests
    Names,
    Emails, Normal, \* addresses; normalize_email lowers the domain
    Blank,          \* the empty address, which is one of them
    Texts,          \* tax numbers
    Registrations,  \* the data registrations may carry in this instance
    Changes,        \* the fields a change of a user may carry
    Ops             \* the operations users issue in this instance

None == "none"
Keep == "keep"
Types == {"client", "supplier"}     \* "admin" of user_type acts as a client

User == [name : Names, email : Emails, type : Types, active : BOOLEAN]
NoUser == [name |-> None, email |-> None, type |-> None, active |-> FALSE]

(* The data of a request; Keep is a field the request does not carry.      *)
Form == [name : Names \cup {Keep}, email : Emails \cup {Keep},
         type : Types \cup {Keep}, active : {"on", "off", Keep},
         tax : Texts \cup {<<>>}]
NoForm == [name |-> Keep, email |-> Keep, type |-> Keep, active |-> Keep,
           tax |-> <<>>]

ASSUME AccountsAssumption ==
    /\ Texts \subseteq Text
    /\ \A t \in Texts \cup {<<>>} : Registrable(t) => Cleaned(t) \in Texts
    /\ <<>> \notin Texts
    /\ Normal \in [Emails -> Emails]
    /\ Blank \in Emails /\ Normal[Blank] = Blank
    /\ Registrations \subseteq
           {f \in Form : f.name # Keep /\ (f.email = Keep => f.type = Keep)}
    /\ Changes \subseteq {f \in Form : f.type = Keep /\ f.tax = <<>>}
    /\ None \notin Ids \cup Names \cup Emails
    /\ Keep \notin Names \cup Emails

VARIABLES
    user,       \* table users
    profile,    \* table suppliers: the tax number, <<>> where there is none
    pc,         \* the next statement of each handler
    target,     \* the user a handler works on
    copy,       \* the row a handler is going to write
    form,       \* what its request carries
    reply,      \* history: how the registration of a user has ended
    doubtful,   \* history: addresses whose check said little, see Check
    edited      \* history: users whose tax number was changed by hand

vars == <<user, profile, pc, target, copy, form, reply, doubtful, edited>>
request == <<pc, target, copy, form>>
history == <<reply, doubtful, edited>>

Init ==
    /\ user = [u \in Ids |-> NoUser]
    /\ profile = [u \in Ids |-> <<>>]
    /\ pc = [h \in Handlers |-> "idle"]
    /\ target = [h \in Handlers |-> None]
    /\ copy = [h \in Handlers |-> NoUser]
    /\ form = [h \in Handlers |-> NoForm]
    /\ reply = [u \in Ids |-> None]
    /\ doubtful = {}
    /\ edited = {}

-----------------------------------------------------------------------------
(* Helpers *)

Exists(u) == user[u] # NoUser
HasProfile(u) == profile[u] # <<>>

(* Variant: only active users count. *)
EmailTakenByActive(e) == \E u \in Ids : user[u].email = e /\ user[u].active

EmailTaken(e) == \E u \in Ids : user[u].email = e

(* The unique columns users.username and suppliers.tax_number. *)
NameTakenFrom(u, n) == \E v \in Ids \ {u} : user[v].name = n
TaxTakenFrom(u, t) == \E v \in Ids \ {u} : profile[v] = t

(* create_user() of a registration normalises the address; POST /users/,   *)
(* the form without a type, stores it as it is, or blank without one.      *)
AddressOf(f) ==
    CASE f.email = Keep -> Blank
      [] f.email # Keep /\ f.type = Keep -> f.email
      [] OTHER -> Normal[f.email]

(* The address that the request of h is going to store, None if there is   *)
(* none.                                                                   *)
Claim(h) ==
    IF pc[h] = "insert" THEN AddressOf(form[h]) ELSE copy[h].email

(* Another request, for another user than u, is about to store e. *)
Contested(h, u, e) ==
    \E g \in Handlers \ {h} :
        Claim(g) = e /\ (target[g] = None \/ target[g] # u)

(* The check of an address is worth little when another request is about   *)
(* to store the address, or when it is stored in another spelling.         *)
Check(h, u, sent, stored) ==
    doubtful' = IF sent # stored \/ Contested(h, u, stored)
                THEN doubtful \cup {stored}
                ELSE doubtful

(* Variants: a PATCH overwrites what it does not carry; a missing          *)
(* is_active means TRUE.                                                   *)
ApplyAll(r, f) == [r EXCEPT !.name = f.name, !.email = f.email]
ApplyActive(r, f) == [r EXCEPT !.active = f.active # "off"]

(* setattr of the fields the request carries; user_type is read-only. *)
Apply(r, f) ==
    [r EXCEPT !.name = IF f.name = Keep THEN @ ELSE f.name,
              !.email = IF f.email = Keep THEN @ ELSE f.email,
              !.active = IF f.active = Keep THEN @ ELSE f.active = "on"]

(* The handler has answered. *)
Answer(h) ==
    /\ pc' = [pc EXCEPT ![h] = "idle"]
    /\ target' = [target EXCEPT ![h] = None]
    /\ copy' = [copy EXCEPT ![h] = NoUser]
    /\ form' = [form EXCEPT ![h] = NoForm]

(* Every request but a registration comes from an active user. *)
Authenticated == \E u \in Ids : user[u].active

(* The handler has loaded user u, or the profile of u, for a request f. *)
Load(h, u, f, step) ==
    /\ pc[h] = "idle"
    /\ Authenticated
    /\ pc' = [pc EXCEPT ![h] = step]
    /\ target' = [target EXCEPT ![h] = u]
    /\ form' = [form EXCEPT ![h] = f]

-----------------------------------------------------------------------------
(* POST /users/register/, and POST /users/, which makes a client           *)

(* Variant: the number is stored as it was sent. *)
AsSent(t) == t

(* validate() replaces the number by the cleaned one. *)
ToStore(t) == Cleaned(t)

(* The name, the e-mail as it was sent, if it was, the tax number of a     *)
(* supplier; a refusal is a 400 (500 for a registration without an e-mail) *)
(* and changes nothing.  The name is backed by a unique column, so that it *)
(* does not matter that it is looked up in an earlier statement than the   *)
(* e-mail.                                                                 *)
CheckRegistration(h, f) ==
    /\ "register" \in Ops
    /\ pc[h] = "idle"
    /\ f.type = Keep => Authenticated
    /\ ~NameTakenFrom(None, f.name)
    /\ f.type = "supplier" => Registrable(f.tax)
    /\ IF f.email = Keep
       THEN UNCHANGED doubtful
       ELSE ~EmailTaken(f.email) /\ Check(h, None, f.email, AddressOf(f))
    /\ pc' = [pc EXCEPT ![h] = "insert"]
    /\ form' = [form EXCEPT ![h] = IF f.type = "supplier"
                                   THEN [f EXCEPT !.tax = ToStore(f.tax)]
                                   ELSE [f EXCEPT !.tax = <<>>]]
    /\ UNCHANGED <<user, profile, target, copy, reply, edited>>

(* Variant: the key of a deleted user is given again. *)
Absent(u) == ~Exists(u)

(* The keys come from AUTOINCREMENT. *)
Unused(u) == reply[u] = None

NewUser(f) == [name |-> f.name, email |-> AddressOf(f),
               type |-> IF f.type = Keep THEN "client" ELSE f.type,
               active |-> f.type = Keep => f.active = "on"]

(* INSERT of the user, which ends the request for a client.  The form of   *)
(* POST /users/ makes an inactive user when it does not carry is_active.   *)
InsertUser(h) ==
    \E u \in Ids :
        /\ pc[h] = "insert"
        /\ ~NameTakenFrom(None, form[h].name)
        /\ Unused(u)
        /\ user' = [user EXCEPT ![u] = NewUser(form[h])]
        /\ IF form[h].type = "supplier"
           THEN /\ pc' = [pc EXCEPT ![h] = "code"]
                /\ target' = [target EXCEPT ![h] = u]
                /\ copy' = [copy EXCEPT ![h] = NewUser(form[h])]
                /\ reply' = [reply EXCEPT ![u] = "running"]
                /\ UNCHANGED form
           ELSE Answer(h) /\ reply' = [reply EXCEPT ![u] = "201"]
        /\ UNCHANGED <<profile, doubtful, edited>>

(* The unique name was taken after the check: IntegrityError, 500. *)
InsertUserFails(h) ==
    /\ pc[h] = "insert"
    /\ NameTakenFrom(None, form[h].name)
    /\ Answer(h)
    /\ UNCHANGED <<user, profile, history>>

(* user.save() with a new supplier_code, all columns. *)
SaveCode(h) ==
    /\ pc[h] = "code"
    /\ ~NameTakenFrom(target[h], copy[h].name)
    /\ user' = [user EXCEPT ![target[h]] = copy[h]]
    /\ pc' = [pc EXCEPT ![h] = "profile"]
    /\ copy' = [copy EXCEPT ![h] = NoUser]
    /\ UNCHANGED <<profile, target, form, history>>

(* Supplier.objects.create() of the serializer. *)
InsertProfile(h) ==
    LET u == target[h]
    IN  /\ pc[h] = "profile"
        /\ Exists(u)
        /\ ~HasProfile(u)
        /\ ~TaxTakenFrom(u, form[h].tax)
        /\ profile' = [profile EXCEPT ![u] = form[h].tax]
        /\ pc' = [pc EXCEPT ![h] = "again"]
        /\ UNCHANGED <<user, target, copy, form, history>>

(* A registration answers 500 and leaves what it has stored: a name or a   *)
(* tax number is taken, or the user is gone.  The view then inserts the    *)
(* profile a second time, without a tax number, which no table accepts, so *)
(* that every registration of a supplier ends here.                        *)
RegistrationBreaks(h) ==
    LET u == target[h]
    IN  /\ \/ pc[h] = "code" /\ NameTakenFrom(u, copy[h].name)
           \/ /\ pc[h] = "profile"
              /\ ~Exists(u) \/ HasProfile(u) \/ TaxTakenFrom(u, form[h].tax)
           \/ pc[h] = "again"
        /\ Answer(h)
        /\ reply' = [reply EXCEPT ![u] = "500"]
        /\ UNCHANGED <<user, profile, doubtful, edited>>

-----------------------------------------------------------------------------
(* PUT and PATCH /users/{id}/ ; a form that keeps all fields is a change   *)
(* of another column, upload_avatar and delete_avatar among them.  A PUT   *)
(* sent as a form without is_active sets it to FALSE.                      *)

LoadUser(h, u, f) ==
    /\ "edit" \in Ops
    /\ Exists(u)
    /\ Load(h, u, f, "check")
    /\ copy' = [copy EXCEPT ![h] = user[u]]
    /\ UNCHANGED <<user, profile, history>>

(* The validators: 400 when another user has the name, or any user, the    *)
(* edited one included, has the e-mail.                                    *)
CheckUser(h) ==
    LET f == form[h]
        u == target[h]
    IN  /\ pc[h] = "check"
        /\ f.name # Keep => ~NameTakenFrom(u, f.name)
        /\ IF f.email = Keep
           THEN UNCHANGED doubtful
           ELSE ~EmailTaken(f.email) /\ Check(h, u, f.email, f.email)
        /\ pc' = [pc EXCEPT ![h] = "save"]
        /\ copy' = [copy EXCEPT ![h] = Apply(copy[h], f)]
        /\ UNCHANGED <<user, profile, target, form, reply, edited>>

CheckUserRefuses(h) ==
    LET f == form[h]
    IN  /\ pc[h] = "check"
        /\ \/ f.name # Keep /\ NameTakenFrom(target[h], f.name)
           \/ f.email # Keep /\ EmailTaken(f.email)
        /\ Answer(h)
        /\ UNCHANGED <<user, profile, history>>

(* UPDATE of all columns, or INSERT when the row is gone; a name that was  *)
(* taken meanwhile is a 500.                                               *)
SaveUser(h) ==
    LET u == target[h]
    IN  /\ pc[h] = "save"
        /\ user' = IF NameTakenFrom(u, copy[h].name)
                   THEN user
                   ELSE [user EXCEPT ![u] = copy[h]]
        /\ Answer(h)
        /\ UNCHANGED <<profile, history>>

(* DELETE /users/{id}/ takes the profile with it, and the profile its      *)
(* products, which are in Imports and Images.  A supplier with items in    *)
(* orders is protected: 500, and nothing changes.                          *)
DeleteUser(u) ==
    /\ "delete" \in Ops
    /\ Authenticated
    /\ Exists(u)
    /\ user' = [user EXCEPT ![u] = NoUser]
    /\ profile' = [profile EXCEPT ![u] = <<>>]
    /\ UNCHANGED <<request, history>>

-----------------------------------------------------------------------------
(* PUT and PATCH /suppliers/{id}/ ; a request that keeps the number, and   *)
(* toggle_accept_orders, write back the one they have loaded.              *)

LoadProfile(h, u, t) ==
    /\ "profile" \in Ops
    /\ HasProfile(u)
    /\ LET step == IF t = <<>> THEN "saveprofile" ELSE "checkprofile"
           number == IF t = <<>> THEN profile[u] ELSE t
       IN  Load(h, u, [NoForm EXCEPT !.tax = number], step)
    /\ UNCHANGED <<user, profile, copy, history>>

(* Variant: the validators of the column are not run. *)
CheckProfileUnique(h) ==
    LET u == target[h]
    IN  /\ pc[h] = "checkprofile"
        /\ IF ~TaxTakenFrom(u, form[h].tax)
           THEN /\ pc' = [pc EXCEPT ![h] = "saveprofile"]
                /\ edited' = edited \cup {u}
                /\ UNCHANGED <<target, copy, form>>
           ELSE Answer(h) /\ UNCHANGED edited
        /\ UNCHANGED <<user, profile, reply, doubtful>>

(* The validators of the column: 400 when the number is no good or another *)
(* profile has it.                                                         *)
CheckProfile(h) ==
    LET u == target[h]
    IN  /\ pc[h] = "checkprofile"
        /\ IF Storable(form[h].tax) /\ ~TaxTakenFrom(u, form[h].tax)
           THEN /\ pc' = [pc EXCEPT ![h] = "saveprofile"]
                /\ edited' = edited \cup {u}
                /\ UNCHANGED <<target, copy, form>>
           ELSE Answer(h) /\ UNCHANGED edited
        /\ UNCHANGED <<user, profile, reply, doubtful>>

(* Variant: the foreign key to the user is not checked. *)
SaveProfileUnchecked(h) ==
    /\ pc[h] = "saveprofile"
    /\ profile' = [profile EXCEPT ![target[h]] = form[h].tax]
    /\ Answer(h)
    /\ UNCHANGED <<user, history>>

(* All columns, or INSERT when the row is gone; 500 when the number was    *)
(* taken or the user deleted meanwhile.                                    *)
SaveProfile(h) ==
    LET u == target[h]
    IN  /\ pc[h] = "saveprofile"
        /\ profile' = IF Exists(u) /\ ~TaxTakenFrom(u, form[h].tax)
                      THEN [profile EXCEPT ![u] = form[h].tax]
                      ELSE profile
        /\ Answer(h)
        /\ UNCHANGED <<user, history>>

(* DELETE /suppliers/{id}/, with the products (in Imports and Images), or  *)
(* refused as above.                                                       *)
DeleteProfile(u) ==
    /\ "delete" \in Ops
    /\ Authenticated
    /\ HasProfile(u)
    /\ profile' = [profile EXCEPT ![u] = <<>>]
    /\ UNCHANGED <<user, request, history>>

-----------------------------------------------------------------------------
(* POST /users/password_reset/ : User.objects.get(email = e), but for the  *)
(* blank address, which the serializer refuses.  An address nobody has is  *)
(* answered like one that somebody has.                                    *)
PasswordReset(e) ==
    CASE e = Blank -> "400"
      [] e # Blank /\ Cardinality({u \in Ids : user[u].email = e}) > 1 -> "500"
      [] OTHER -> "200"

(* A database error or a killed process ends a request in the middle. *)
HandlerFails(h) ==
    /\ "fail" \in Ops
    /\ pc[h] # "idle"
    /\ Answer(h)
    /\ reply' = IF pc[h] \in {"code", "profile", "again"}
                THEN [reply EXCEPT ![target[h]] = "500"]
                ELSE reply
    /\ UNCHANGED <<user, profile, doubtful, edited>>

(* A request arrives. *)
Arrive(h) ==
    \/ \E f \in Registrations : CheckRegistration(h, f)
    \/ \E u \in Ids :
           \/ \E f \in Changes : LoadUser(h, u, f)
           \/ \E t \in Texts \cup {<<>>} : LoadProfile(h, u, t)

(* The server runs the next statement of a request. *)
Continue(h) ==
    \/ InsertUser(h) \/ InsertUserFails(h)
    \/ SaveCode(h) \/ InsertProfile(h) \/ RegistrationBreaks(h)
    \/ CheckUser(h) \/ CheckUserRefuses(h) \/ SaveUser(h)
    \/ CheckProfile(h) \/ SaveProfile(h)

Next ==
    \/ \E h \in Handlers : Arrive(h) \/ Continue(h) \/ HandlerFails(h)
    \/ \E u \in Ids : DeleteUser(u) \/ DeleteProfile(u)

Spec == Init /\ [][Next]_vars
-----------------------------------------------------------------------------
(* Properties *)

(* Steps of a request that is going to write a user, and the others.       *)
Writing == {"code", "check", "save"}
Steps == Writing \cup {"idle", "insert", "profile", "again", "checkprofile",
                      "saveprofile"}

(* Every variable has a value of its table or request. *)
TypeOK ==
    /\ user \in [Ids -> User \cup {NoUser}]
    /\ profile \in [Ids -> Texts \cup {<<>>}]
    /\ pc \in [Handlers -> Steps]
    /\ target \in [Handlers -> Ids \cup {None}]
    /\ copy \in [Handlers -> User \cup {NoUser}]
    /\ form \in [Handlers -> Form]
    /\ reply \in [Ids -> {None, "running", "201", "500"}]
    /\ doubtful \subseteq Emails
    /\ edited \subseteq Ids

(* A profile belongs to a user that is there and is a supplier, although   *)
(* users are deleted and come back by stale saves, and profiles do.        *)
ProfilesBelongToSuppliers ==
    \A u \in Ids :
        HasProfile(u) => Exists(u) /\ user[u].type = "supplier"

(* password_reset answers 500 only for an address that two requests were   *)
(* about to store at the same time, or that was sent in another spelling   *)
(* than the stored one: no column makes addresses unique, and a copy       *)
(* loaded earlier may write an address back that was given up meanwhile.   *)
(* Users without an address are many, and nobody asks for their password.  *)
PasswordResetWorks ==
    \A e \in Emails : PasswordReset(e) = "500" => e \in doubtful

(* The number of a profile is a valid one, in the form in which the unique *)
(* column compares it, unless somebody has changed it by hand: the change  *)
(* is checked by the regular expression only.                              *)
RegisteredNumberIsValid ==
    \A u \in Ids :
        HasProfile(u) /\ u \notin edited => IsTaxNumber(profile[u])

(* What is in the column passes the validators of the column, so that its  *)
(* form can be saved again as it is: the rows a registration inserts do    *)
(* not go through them, and a change by hand goes through nothing else.    *)
StoredNumbersFit == \A u \in Ids : HasProfile(u) => Storable(profile[u])

(* u was deleted and no request is going to write it back. *)
Gone(u) ==
    /\ reply[u] # None /\ ~Exists(u)
    /\ \A h \in Handlers : target[h] = u => pc[h] \notin Writing

(* A deleted user comes back by the save of an older copy only. *)
GoneUserStaysGone == [][\A u \in Ids : Gone(u) => Gone(u)']_vars

(* u was deactivated and no request is going to write an older copy. *)
Deactivated(u) ==
    /\ Exists(u) /\ ~user[u].active
    /\ \A h \in Handlers :
           target[h] = u /\ pc[h] \in Writing =>
               ~copy[h].active /\ form[h].active # "on"

(* A deactivated user stays so until a request asks for the contrary. *)
DeactivatedUserStaysOut ==
    [][\A u \in Ids :
        Deactivated(u) =>
            \/ ~Exists(u)'
            \/ Deactivated(u)'
            \/ \E h \in Handlers : target'[h] = u /\ form'[h].active = "on"]_vars
=============================================================================
