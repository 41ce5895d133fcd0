---------------------------- MODULE ImagesProofs ----------------------------
(* Theorems about Images, for every set of objects, handlers and workers,  *)
(* and any number of sizes, retries and uploads.                           *)
EXTENDS Images, TLAPS

(* v is no picture, or one sent for the object o, u being all uploads. *)
Upload(u, v, o) == v = 0 \/ (v \in DOMAIN u /\ u[v] = o)

(* What may be written to the row of o: its own pictures, an owner of the  *)
(* right kind, and no thumbnail later than the picture but one sent.       *)
FitsThumb(u, r, v, o) ==
    \/ v = Sent /\ o \in Products \cup Extras
    \/ v \in Nat /\ Upload(u, v, o) /\ (r.pic # 0 => v <= r.pic)

Fits(u, r, o) ==
    r \in Row =>
        /\ Upload(u, r.pic, o)
        /\ r.owner \in OwnersOf(o)
        /\ \A s \in Sizes : FitsThumb(u, r, r.thumbs[s], o)

(* The invariant, by the part of the state it is about. *)
TablesInv ==
    /\ uploads \in Seq(Objects)
    /\ row \in [Objects -> Row \cup {Gone}]
    /\ files \subseteq DOMAIN uploads
    /\ log \subseteq DOMAIN uploads
    /\ killed \subseteq DOMAIN uploads
    /\ \A o \in Objects : Fits(uploads, row[o], o)

RequestsInv ==
    /\ pc \in [Handlers -> Steps \cup {"idle"}]
    /\ target \in [Handlers -> Objects \cup {None}]
    /\ copy \in [Handlers -> Row \cup {Gone}]
    /\ \A h \in Handlers :
           pc[h] # "idle" => /\ target[h] \in Objects
                             /\ copy[h] \in Row
                             /\ Fits(uploads, copy[h], target[h])

TasksInv ==
    /\ broker \subseteq Task
    /\ job \in [Workers -> Task \cup {NoTask}]
    /\ loaded \in [Workers -> Row \cup {Gone}]
    /\ next \in [Workers -> 1 .. Last + 1]
    /\ opened \in [Workers -> BOOLEAN]
    /\ \A w \in Workers :
           job[w] # NoTask => /\ job[w] \in Task
                              /\ loaded[w] \in Row
                              /\ loaded[w].pic # 0
                              /\ Fits(uploads, loaded[w], job[w].object)

Inv == TablesInv /\ RequestsInv /\ TasksInv

-----------------------------------------------------------------------------
(* What the handlers and tasks make of a row that fits fits again. *)

LEMMA BlankFits ==
    ASSUME NEW u, NEW o \in Objects, NEW p \in OwnersOf(o)
    PROVE  Blank(p) \in Row /\ Fits(u, Blank(p), o)
<1>1. p \in Objects \cup {None}
  BY DEF OwnersOf, Objects, Pictured
<1>2. /\ Blank(p) \in Row /\ Blank(p).pic = 0 /\ Blank(p).owner = p
      /\ \A s \in Sizes : Blank(p).thumbs[s] = 0
  BY <1>1 DEF Blank, Row
<1> QED
  BY <1>2 DEF Fits, FitsThumb, Upload

LEMMA GrownFits ==
    ASSUME NEW u \in Seq(Objects), NEW x \in Objects, NEW r, NEW o,
           Fits(u, r, o)
    PROVE  Fits(Append(u, x), r, o)
<1>1. ASSUME NEW v \in Nat, Upload(u, v, o)
      PROVE  Upload(Append(u, x), v, o)
  BY <1>1 DEF Upload
<1>2. SUFFICES ASSUME r \in Row PROVE Fits(Append(u, x), r, o)
  BY DEF Fits
<1>3. r.pic \in Nat
  BY <1>2 DEF Row
<1> QED
  BY <1>1, <1>2, <1>3 DEF Fits, FitsThumb

LEMMA NewPictureFits ==
    ASSUME NEW u \in Seq(Objects), NEW o \in Objects, NEW r \in Row,
           Fits(u, r, o)
    PROVE  /\ WithPic(r, Len(u) + 1) \in Row
           /\ Fits(Append(u, o), WithPic(r, Len(u) + 1), o)
<1> DEFINE v == Len(u) + 1
<1> DEFINE q == WithPic(r, v)
<1>1. v \in Nat /\ v # 0
  OBVIOUS
<1>2. q \in Row /\ q.pic = v /\ q.thumbs = r.thumbs /\ q.owner = r.owner
  BY <1>1 DEF WithPic, Row
<1>3. Upload(Append(u, o), v, o)
  BY DEF Upload
<1>4. ASSUME NEW s \in Sizes, r.thumbs[s] # Sent
      PROVE  /\ r.thumbs[s] \in Nat
             /\ Upload(Append(u, o), r.thumbs[s], o)
             /\ r.thumbs[s] <= v
  <2>1. r.thumbs[s] \in Nat /\ Upload(u, r.thumbs[s], o)
    BY <1>4 DEF Fits, FitsThumb
  <2> QED
    BY <2>1 DEF Upload
<1>5. \A s \in Sizes : r.thumbs[s] = Sent => o \in Products \cup Extras
  BY ImagesAssumption DEF Fits, FitsThumb
<1>6. r.owner \in OwnersOf(o)
  BY DEF Fits
<1> HIDE DEF v, q
<1>7. Fits(Append(u, o), q, o)
  BY <1>2, <1>3, <1>4, <1>5, <1>6 DEF Fits, FitsThumb
<1> QED
  BY <1>2, <1>7 DEF v, q

LEMMA NoPictureFits ==
    ASSUME NEW u, NEW o, NEW r \in Row, Fits(u, r, o)
    PROVE  WithPic(r, 0) \in Row /\ Fits(u, WithPic(r, 0), o)
<1> DEFINE q == WithPic(r, 0)
<1>1. q \in Row /\ q.pic = 0 /\ q.thumbs = r.thumbs /\ q.owner = r.owner
  BY DEF WithPic, Row
<1> HIDE DEF q
<1>2. Fits(u, q, o)
  BY <1>1 DEF Fits, FitsThumb, Upload
<1> QED
  BY <1>1, <1>2 DEF q

LEMMA SamePicture ==
    ASSUME NEW r \in Row
    PROVE  WithPic(r, r.pic) = r
BY DEF WithPic, Row

LEMMA ThumbFits ==
    ASSUME NEW u, NEW o, NEW r \in Row, NEW s \in Sizes, NEW v \in {0, r.pic},
           Fits(u, r, o)
    PROVE  /\ WithThumb(r, s, v) \in Row
           /\ WithThumb(r, s, v).pic = r.pic
           /\ WithThumb(r, s, v).owner = r.owner
           /\ Fits(u, WithThumb(r, s, v), o)
<1> DEFINE q == WithThumb(r, s, v)
<1>1. r.pic \in Nat /\ v \in Nat
  BY DEF Row
<1>2. /\ q \in Row
      /\ q.pic = r.pic
      /\ q.owner = r.owner
      /\ q.thumbs = [r.thumbs EXCEPT ![s] = v]
  BY <1>1 DEF WithThumb, Row
<1>3. \A b \in Sizes : q.thumbs[b] = IF b = s THEN v ELSE r.thumbs[b]
  BY <1>2 DEF Row
<1> HIDE DEF q
<1>4. Upload(u, r.pic, o) /\ Upload(u, v, o)
  BY DEF Fits, Upload
<1>5. r.pic # 0 => v <= r.pic
  BY <1>1
<1>6. \A b \in Sizes : FitsThumb(u, q, q.thumbs[b], o)
  BY <1>1, <1>2, <1>3, <1>4, <1>5 DEF Fits, FitsThumb
<1>7. Fits(u, q, o)
  BY <1>2, <1>4, <1>6 DEF Fits
<1> QED
  BY <1>2, <1>7 DEF q

(* A form changes the thumbnails and the owner only, and only of objects   *)
(* that have such fields.                                                  *)
LEMMA FormFits ==
    ASSUME NEW u, NEW o \in Objects, NEW r \in Row,
           NEW t \in FormThumbs(o, r), NEW p \in FormOwners(o, r), Fits(u, r, o)
    PROVE  /\ [r EXCEPT !.thumbs = t, !.owner = p] \in Row
           /\ [r EXCEPT !.thumbs = t, !.owner = p].pic = r.pic
           /\ Fits(u, [r EXCEPT !.thumbs = t, !.owner = p], o)
<1> DEFINE q == [r EXCEPT !.thumbs = t, !.owner = p]
<1>1. p \in OwnersOf(o) /\ p \in Objects \cup {None}
  BY DEF FormOwners, Fits, OwnersOf, Objects, Pictured
<1>2. t \in [Sizes -> Nat \cup {Sent}]
  BY DEF FormThumbs, Row
<1>3. q \in Row /\ q.pic = r.pic /\ q.thumbs = t /\ q.owner = p
  BY <1>1, <1>2 DEF Row
<1> HIDE DEF q
<1>4. ASSUME NEW s \in Sizes PROVE FitsThumb(u, q, t[s], o)
  <2>1. FitsThumb(u, q, r.thumbs[s], o)
    BY <1>3 DEF Fits, FitsThumb
  <2>2. HasFields(o) => FitsThumb(u, q, 0, o) /\ FitsThumb(u, q, Sent, o)
    BY <1>3 DEF FitsThumb, Upload, Row, HasFields
  <2>3. t[s] = r.thumbs[s] \/ (HasFields(o) /\ t[s] \in {0, Sent})
    BY DEF FormThumbs
  <2> QED
    BY <2>1, <2>2, <2>3
<1>5. Upload(u, q.pic, o)
  BY <1>3 DEF Fits
<1>6. Fits(u, q, o)
  BY <1>1, <1>3, <1>4, <1>5 DEF Fits
<1> QED
  BY <1>3, <1>6 DEF q

-----------------------------------------------------------------------------
LEMMA GoneFits ==
    ASSUME NEW u, NEW o
    PROVE  Gone \notin Row /\ Fits(u, Gone, o)
BY ImagesAssumption DEF Fits, Gone, Row, Sizes

LEMMA InitInv == Init => Inv
<1> SUFFICES ASSUME Init PROVE Inv
  OBVIOUS
<1>1. TablesInv
  <2>1. PICK user \in [Suppliers -> Avatars], supplier \in [Products -> Suppliers] :
            row = [o \in Objects |->
                       CASE o \in Avatars   -> Blank(None)
                         [] o \in Suppliers -> Blank(user[o])
                         [] o \in Products  -> Blank(supplier[o])
                         [] OTHER          -> Gone]
    BY DEF Init
  <2>2. ASSUME NEW o \in Objects
        PROVE  row[o] = Gone \/ \E p \in OwnersOf(o) : row[o] = Blank(p)
    <3>1. CASE o \in Avatars
      BY <2>1, <3>1, ImagesAssumption DEF OwnersOf
    <3>2. CASE o \in Suppliers
      BY <2>1, <3>2, ImagesAssumption DEF OwnersOf
    <3>3. CASE o \in Products
      BY <2>1, <3>3, ImagesAssumption DEF OwnersOf
    <3>4. CASE o \in Extras
      BY <2>1, <3>4, ImagesAssumption
    <3> QED
      BY <3>1, <3>2, <3>3, <3>4 DEF Objects, Pictured
  <2>3. \A o \in Objects : row[o] \in Row \cup {Gone} /\ Fits(uploads, row[o], o)
    BY <2>2, BlankFits, GoneFits
  <2>4. row \in [Objects -> Row \cup {Gone}]
    BY <2>1, <2>3
  <2> QED
    BY <2>3, <2>4 DEF Init, TablesInv
<1>2. RequestsInv /\ TasksInv
  BY ImagesAssumption DEF Init, RequestsInv, TasksInv
<1> QED
  BY <1>1, <1>2 DEF Inv

(* Pictures are only added, so that what fits stays fitting. *)
LEMMA UploadsGrow ==
    ASSUME TablesInv, RequestsInv, [Next]_vars
    PROVE  /\ uploads' \in Seq(Objects)
           /\ DOMAIN uploads \subseteq DOMAIN uploads'
           /\ \A r, o : Fits(uploads, r, o) => Fits(uploads', r, o)
<1>1. uploads' = uploads \/ \E x \in Objects : uploads' = Append(uploads, x)
  <2>1. ASSUME NEW h \in Handlers, Arrive(h)
        PROVE  uploads' = uploads \/ \E x \in Objects : uploads' = Append(uploads, x)
    BY <2>1 DEF Arrive, LoadForUpload, AddImage, LoadForEdit, LoadForDelete,
                LoadForDestroy, Load
  <2>2. ASSUME NEW h \in Handlers, Continue(h)
        PROVE  uploads' = uploads \/ \E x \in Objects : uploads' = Append(uploads, x)
    <3>1. CASE SaveUpload(h) \/ SaveReplace(h)
      BY <3>1 DEF SaveUpload, SaveReplace, StorePicture, RequestsInv
    <3>2. CASE ~(SaveUpload(h) \/ SaveReplace(h))
      BY <2>2, <3>2 DEF Continue, QueueTask, SaveEdit, DeletePicture,
                        SaveDeleted, WipeThumb, FinishDelete, Destroy
    <3> QED
      BY <3>1, <3>2
  <2>3. ASSUME NEW h \in Handlers, HandlerFails(h)
        PROVE  uploads' = uploads \/ \E x \in Objects : uploads' = Append(uploads, x)
    BY <2>3 DEF HandlerFails, RequestsInv
  <2>4. ASSUME NEW w \in Workers, Work(w)
        PROVE  uploads' = uploads
    BY <2>4 DEF Work, TakeTask, MakeThumb, SkipThumb, SaveThumbs, RetryTask,
                LoseTask, KillWorker
  <2> QED
    BY <2>1, <2>2, <2>3, <2>4 DEF Next, vars
<1>2. uploads \in Seq(Objects)
  BY DEF TablesInv
<1>3. ASSUME NEW x \in Objects, uploads' = Append(uploads, x)
      PROVE  /\ uploads' \in Seq(Objects)
             /\ DOMAIN uploads \subseteq DOMAIN uploads'
  BY <1>2, <1>3
<1> QED
  BY <1>1, <1>2, <1>3, GrownFits

(* A request that ends holds nothing. *)
LEMMA AnswerKeeps ==
    ASSUME TablesInv, RequestsInv, [Next]_vars, NEW h \in Handlers, Answer(h)
    PROVE  RequestsInv'
<1>1. \A g \in Handlers :
          g # h => pc'[g] = pc[g] /\ target'[g] = target[g] /\ copy'[g] = copy[g]
  BY DEF Answer, RequestsInv
<1>2. pc'[h] = "idle"
  BY DEF Answer, RequestsInv
<1>3. /\ pc' \in [Handlers -> Steps \cup {"idle"}]
      /\ target' \in [Handlers -> Objects \cup {None}]
      /\ copy' \in [Handlers -> Row \cup {Gone}]
  BY DEF Answer, RequestsInv
<1> QED
  BY <1>1, <1>2, <1>3, UploadsGrow DEF RequestsInv

(* A request that goes on with a row that fits the object it works on. *)
LEMMA HoldKeeps ==
    ASSUME TablesInv, RequestsInv, [Next]_vars,
           NEW h \in Handlers, NEW step \in Steps, NEW o \in Objects, NEW r \in Row,
           Fits(uploads', r, o),
           pc' = [pc EXCEPT ![h] = step],
           target' = [target EXCEPT ![h] = o],
           copy' = [copy EXCEPT ![h] = r]
    PROVE  RequestsInv'
<1>1. \A g \in Handlers :
          g # h => pc'[g] = pc[g] /\ target'[g] = target[g] /\ copy'[g] = copy[g]
  BY DEF RequestsInv
<1>2. target'[h] = o /\ copy'[h] = r
  BY DEF RequestsInv
<1>3. /\ pc' \in [Handlers -> Steps \cup {"idle"}]
      /\ target' \in [Handlers -> Objects \cup {None}]
      /\ copy' \in [Handlers -> Row \cup {Gone}]
  BY DEF RequestsInv
<1>4. ASSUME NEW g \in Handlers, pc'[g] # "idle"
      PROVE  /\ target'[g] \in Objects
             /\ copy'[g] \in Row
             /\ Fits(uploads', copy'[g], target'[g])
  <2>1. CASE g = h
    BY <2>1, <1>2
  <2>2. CASE g # h
    BY <1>1, <1>4, <2>2, UploadsGrow DEF RequestsInv
  <2> QED
    BY <2>1, <2>2
<1> QED
  BY <1>3, <1>4 DEF RequestsInv

(* A row that fits is written, or the row is deleted. *)
LEMMA WriteKeeps ==
    ASSUME TablesInv, RequestsInv, [Next]_vars,
           NEW o \in Objects, NEW r \in Row \cup {Gone},
           Fits(uploads', r, o),
           row' = [row EXCEPT ![o] = r],
           files' \subseteq DOMAIN uploads',
           log' \subseteq DOMAIN uploads',
           killed' \subseteq DOMAIN uploads'
    PROVE  TablesInv'
<1>1. \A b \in Objects : b # o => row'[b] = row[b]
  BY DEF TablesInv
<1>2. row'[o] = r /\ row' \in [Objects -> Row \cup {Gone}]
  BY DEF TablesInv
<1>3. ASSUME NEW b \in Objects
      PROVE  Fits(uploads', row'[b], b)
  <2>1. CASE b = o
    BY <2>1, <1>2
  <2>2. CASE b # o
    BY <2>2, <1>1, UploadsGrow DEF TablesInv
  <2> QED
    BY <2>1, <2>2
<1> QED
  BY <1>2, <1>3, UploadsGrow DEF TablesInv

(* No row is written. *)
LEMMA TablesStay ==
    ASSUME TablesInv, RequestsInv, [Next]_vars,
           row' = row,
           files' \subseteq DOMAIN uploads',
           log' \subseteq DOMAIN uploads',
           killed' \subseteq DOMAIN uploads'
    PROVE  TablesInv'
BY UploadsGrow DEF TablesInv

LEMMA RequestsStay ==
    ASSUME TablesInv, RequestsInv, [Next]_vars, UNCHANGED request
    PROVE  RequestsInv'
BY UploadsGrow DEF RequestsInv, request

LEMMA TasksStay ==
    ASSUME TablesInv, RequestsInv, TasksInv, [Next]_vars,
           broker' \subseteq Task, UNCHANGED work
    PROVE  TasksInv'
BY UploadsGrow DEF TasksInv, work

(* Every other thing that is in the way of Inv' in a step of a handler:    *)
(* the workers hold what they held.                                        *)
LEMMA HandlerStep ==
    ASSUME Inv, [Next]_vars, TablesInv', RequestsInv',
           broker' \subseteq Task, UNCHANGED work
    PROVE  Inv'
BY TasksStay DEF Inv

(* A request begins, holding the row or what a form makes of it.           *)
LEMMA StepLoad ==
    ASSUME Inv, [Next]_vars, NEW h \in Handlers, NEW o \in Objects,
           NEW step \in Steps, Load(h, o, step) \/ LoadForEdit(h, o, step)
    PROVE  Inv'
<1>1. row[o] \in Row /\ Fits(uploads, row[o], o)
  BY DEF Inv, TablesInv, Load, LoadForEdit, Exists
<1>2. /\ uploads' = uploads /\ UNCHANGED <<row, files, log, killed, work>>
      /\ broker' \subseteq Task
      /\ pc' = [pc EXCEPT ![h] = step]
      /\ target' = [target EXCEPT ![h] = o]
  BY DEF Load, LoadForEdit, Inv, TasksInv
<1>3. TablesInv'
  BY <1>2, TablesStay DEF Inv, TablesInv
<1>4. PICK r \in Row : Fits(uploads', r, o) /\ copy' = [copy EXCEPT ![h] = r]
  <2>1. CASE Load(h, o, step)
    BY <1>1, <1>2, <2>1 DEF Load
  <2>2. CASE LoadForEdit(h, o, step)
    <3>1. PICK t \in FormThumbs(o, row[o]), p \in FormOwners(o, row[o]) :
              copy' = [copy EXCEPT ![h] =
                           [row[o] EXCEPT !.thumbs = t, !.owner = p]]
      BY <2>2 DEF LoadForEdit
    <3> QED
      BY <1>1, <1>2, <3>1, FormFits
  <2> QED
    BY <2>1, <2>2
<1>5. RequestsInv'
  BY <1>2, <1>4, HoldKeeps DEF Inv
<1> QED
  BY <1>2, <1>3, <1>5, HandlerStep

LEMMA StepAdd ==
    ASSUME Inv, [Next]_vars, NEW h \in Handlers, NEW o \in Objects, AddImage(h, o)
    PROVE  Inv'
<1>1. uploads \in Seq(Objects)
  BY DEF Inv, TablesInv
<1>2. PICK p \in Products :
          /\ row' = [row EXCEPT ![o] = WithPic(Blank(p), NewPicture)]
          /\ copy' = [copy EXCEPT ![h] = WithPic(Blank(p), NewPicture)]
  BY DEF AddImage
<1>3. /\ WithPic(Blank(p), NewPicture) \in Row
      /\ Fits(uploads', WithPic(Blank(p), NewPicture), o)
  <2>1. p \in OwnersOf(o)
    BY ImagesAssumption DEF AddImage, OwnersOf
  <2>2. Blank(p) \in Row /\ Fits(uploads, Blank(p), o)
    BY <2>1, BlankFits
  <2>3. uploads' = Append(uploads, o)
    BY DEF AddImage
  <2> QED
    BY <1>1, <2>2, <2>3, NewPictureFits DEF NewPicture
<1>4. NewPicture \in DOMAIN uploads' /\ DOMAIN uploads \subseteq DOMAIN uploads'
  BY <1>1 DEF AddImage, NewPicture
<1>5. TablesInv'
  BY <1>2, <1>3, <1>4, WriteKeeps DEF AddImage, Inv, TablesInv
<1>6. RequestsInv'
  BY <1>2, <1>3, HoldKeeps DEF AddImage, Inv, Steps
<1> QED
  BY <1>5, <1>6, HandlerStep DEF AddImage, Inv, TasksInv

LEMMA StepArrive ==
    ASSUME Inv, [Next]_vars, NEW h \in Handlers, Arrive(h)
    PROVE  Inv'
<1>1. PICK o \in Objects :
          \/ AddImage(h, o)
          \/ \E step \in Steps : Load(h, o, step) \/ LoadForEdit(h, o, step)
  <2>1. {"upload", "edit", "replace", "clear", "delete", "wipe", "destroy"}
            \subseteq Steps
    BY DEF Steps
  <2> QED
    BY <2>1 DEF Arrive, LoadForUpload, LoadForDelete, LoadForDestroy
<1> QED
  BY <1>1, StepLoad, StepAdd

(* A request stores a picture, whatever it does afterwards. *)
LEMMA StepStore ==
    ASSUME Inv, [Next]_vars, NEW h \in Handlers, pc[h] # "idle",
           StorePicture(h), UNCHANGED <<log, killed>>
    PROVE  /\ TablesInv'
           /\ WithPic(copy[h], NewPicture) \in Row
           /\ Fits(uploads', WithPic(copy[h], NewPicture), target[h])
<1>1. /\ uploads \in Seq(Objects)
      /\ target[h] \in Objects
      /\ copy[h] \in Row
      /\ Fits(uploads, copy[h], target[h])
  BY DEF Inv, TablesInv, RequestsInv
<1>2. uploads' = Append(uploads, target[h])
  BY DEF StorePicture
<1>3. /\ WithPic(copy[h], NewPicture) \in Row
      /\ Fits(uploads', WithPic(copy[h], NewPicture), target[h])
  BY <1>1, <1>2, NewPictureFits DEF NewPicture
<1>4. NewPicture \in DOMAIN uploads' /\ DOMAIN uploads \subseteq DOMAIN uploads'
  BY <1>1, <1>2 DEF NewPicture
<1>5. /\ files' \subseteq DOMAIN uploads' /\ log' \subseteq DOMAIN uploads'
      /\ killed' \subseteq DOMAIN uploads'
  BY <1>4 DEF StorePicture, Inv, TablesInv
<1>6. row' = [row EXCEPT ![target[h]] = WithPic(copy[h], NewPicture)]
  BY DEF StorePicture
<1> QED
  BY <1>1, <1>3, <1>5, <1>6, WriteKeeps DEF Inv

LEMMA StepContinue ==
    ASSUME Inv, [Next]_vars, NEW h \in Handlers, Continue(h)
    PROVE  Inv'
<1>1. pc[h] # "idle"
  BY DEF Continue, SaveUpload, QueueTask, SaveEdit, SaveReplace, DeletePicture,
         SaveDeleted, WipeThumb, FinishDelete, Destroy
<1>2. /\ target[h] \in Objects
      /\ copy[h] \in Row
      /\ Fits(uploads, copy[h], target[h])
      /\ target = [target EXCEPT ![h] = target[h]]
      /\ copy = [copy EXCEPT ![h] = copy[h]]
      /\ pc = [pc EXCEPT ![h] = pc[h]]
      /\ pc[h] \in Steps
  BY <1>1 DEF Inv, RequestsInv
<1>3. /\ files \subseteq DOMAIN uploads
      /\ log \subseteq DOMAIN uploads
      /\ killed \subseteq DOMAIN uploads
      /\ broker \subseteq Task
      /\ TablesInv /\ RequestsInv
  BY DEF Inv, TablesInv, TasksInv
<1>4. {"queue", "deleted", "wipe"} \subseteq Steps
  BY DEF Steps
<1>5. CASE SaveUpload(h)
  <2>1. TablesInv' /\ RequestsInv'
    BY <1>1, <1>2, <1>3, <1>4, <1>5, StepStore, HoldKeeps DEF SaveUpload
  <2> QED
    BY <1>3, <1>5, <2>1, HandlerStep DEF SaveUpload
<1>6. CASE QueueTask(h)
  <2>1. [object |-> target[h], id |-> copy[h].pic, retries |-> 0] \in Task
    BY <1>2, ImagesAssumption DEF Task, Row
  <2>2. TablesInv' /\ RequestsInv'
    BY <1>3, <1>6, TablesStay, AnswerKeeps DEF QueueTask
  <2> QED
    BY <1>3, <1>6, <2>1, <2>2, HandlerStep DEF QueueTask
<1>7. CASE SaveEdit(h)
  <2>1. PICK r \in Row :
            Fits(uploads', r, target[h]) /\ row' = [row EXCEPT ![target[h]] = r]
    <3>1. WithPic(copy[h], copy[h].pic) = copy[h]
      BY <1>2, SamePicture
    <3> QED
      BY <1>2, <1>7, <3>1, NoPictureFits DEF SaveEdit
  <2>2. TablesInv'
    BY <1>2, <1>3, <1>7, <2>1, WriteKeeps DEF SaveEdit
  <2> QED
    BY <1>3, <1>7, <2>2, AnswerKeeps, HandlerStep DEF SaveEdit
<1>8. CASE SaveReplace(h)
  <2>1. TablesInv' /\ RequestsInv'
    BY <1>1, <1>3, <1>8, StepStore, AnswerKeeps DEF SaveReplace
  <2> QED
    BY <1>3, <1>8, <2>1, HandlerStep DEF SaveReplace
<1>9. CASE DeletePicture(h)
  <2>1. TablesInv'
    BY <1>3, <1>9, TablesStay DEF DeletePicture
  <2>2. RequestsInv'
    BY <1>2, <1>3, <1>4, <1>9, NoPictureFits, HoldKeeps DEF DeletePicture
  <2> QED
    BY <1>3, <1>9, <2>1, <2>2, HandlerStep DEF DeletePicture
<1>10. CASE SaveDeleted(h)
  <2>1. TablesInv'
    BY <1>2, <1>3, <1>10, WriteKeeps DEF SaveDeleted
  <2>2. RequestsInv'
    BY <1>2, <1>3, <1>4, <1>10, HoldKeeps DEF SaveDeleted
  <2> QED
    BY <1>3, <1>10, <2>1, <2>2, HandlerStep DEF SaveDeleted
<1>11. CASE WipeThumb(h)
  <2>1. PICK s \in Sizes :
            /\ row' = [row EXCEPT ![target[h]] = WithThumb(copy[h], s, 0)]
            /\ copy' = [copy EXCEPT ![h] = WithThumb(copy[h], s, 0)]
            /\ UNCHANGED <<files, broker, uploads, log, killed, pc, target, work>>
    BY <1>11 DEF WipeThumb
  <2> DEFINE r == WithThumb(copy[h], s, 0)
  <2>2. r \in Row /\ Fits(uploads', r, target[h])
    BY <1>2, <2>1, ThumbFits
  <2>3. TablesInv'
    BY <1>2, <1>3, <2>1, <2>2, WriteKeeps
  <2>4. RequestsInv'
    BY <1>2, <1>3, <2>1, <2>2, HoldKeeps
  <2> QED
    BY <1>3, <2>1, <2>3, <2>4, HandlerStep
<1>12. CASE FinishDelete(h)
  <2>1. TablesInv'
    BY <1>2, <1>3, <1>12, GoneFits, WriteKeeps DEF FinishDelete
  <2> QED
    BY <1>3, <1>12, <2>1, AnswerKeeps, HandlerStep DEF FinishDelete
<1>13. CASE Destroy(h)
  <2>1. /\ \A o \in Objects : row'[o] \in {Gone, row[o]}
        /\ row' \in [Objects -> Row \cup {Gone}]
        /\ files' \subseteq files /\ UNCHANGED <<uploads, log, killed>>
    BY <1>13 DEF Destroy, Inv, TablesInv
  <2>2. TablesInv'
    BY <2>1, GoneFits DEF Inv, TablesInv
  <2> QED
    BY <1>3, <1>13, <2>2, AnswerKeeps, HandlerStep DEF Destroy
<1> QED
  BY <1>5, <1>6, <1>7, <1>8, <1>9, <1>10, <1>11, <1>12, <1>13 DEF Continue

LEMMA StepFails ==
    ASSUME Inv, [Next]_vars, NEW h \in Handlers, HandlerFails(h)
    PROVE  Inv'
<1>1. /\ uploads' \in Seq(Objects) /\ DOMAIN uploads \subseteq DOMAIN uploads'
      /\ row' = row /\ UNCHANGED <<broker, log, killed, work>>
  BY UploadsGrow DEF HandlerFails, Inv
<1>2. files' \subseteq DOMAIN uploads'
  BY <1>1 DEF HandlerFails, NewPicture, Inv, TablesInv
<1>3. log' \subseteq DOMAIN uploads' /\ killed' \subseteq DOMAIN uploads'
  BY <1>1 DEF Inv, TablesInv
<1>4. TablesInv' /\ RequestsInv'
  BY <1>1, <1>2, <1>3, TablesStay, AnswerKeeps DEF HandlerFails, Inv
<1> QED
  BY <1>1, <1>4, HandlerStep DEF Inv, TasksInv

-----------------------------------------------------------------------------
(* The workers *)

(* A worker that ends its task holds nothing. *)
LEMMA IdleKeeps ==
    ASSUME Inv, [Next]_vars, NEW w \in Workers, Idle(w), broker' \subseteq Task
    PROVE  TasksInv'
<1>1. \A v \in Workers : v # w => job'[v] = job[v] /\ loaded'[v] = loaded[v]
  BY DEF Idle, Inv, TasksInv
<1>2. job'[w] = NoTask
  BY DEF Idle, Inv, TasksInv
<1>3. /\ job' \in [Workers -> Task \cup {NoTask}]
      /\ loaded' \in [Workers -> Row \cup {Gone}]
      /\ next' \in [Workers -> 1 .. Last + 1]
      /\ opened' \in [Workers -> BOOLEAN]
  BY ImagesAssumption DEF Idle, Inv, TasksInv
<1> QED
  BY <1>1, <1>2, <1>3, UploadsGrow DEF Inv, TasksInv

(* A worker goes on with a row that fits the object of its task. *)
LEMMA WorkKeeps ==
    ASSUME Inv, [Next]_vars,
           NEW w \in Workers, NEW t \in Task, NEW r \in Row,
           NEW n \in 1 .. Last + 1, NEW b \in BOOLEAN,
           r.pic # 0, Fits(uploads', r, t.object),
           broker' \subseteq Task,
           job' = [job EXCEPT ![w] = t],
           loaded' = [loaded EXCEPT ![w] = r],
           next' = [next EXCEPT ![w] = n],
           opened' = [opened EXCEPT ![w] = b]
    PROVE  TasksInv'
<1>1. \A v \in Workers : v # w => job'[v] = job[v] /\ loaded'[v] = loaded[v]
  BY DEF Inv, TasksInv
<1>2. job'[w] = t /\ loaded'[w] = r
  BY DEF Inv, TasksInv
<1>3. /\ job' \in [Workers -> Task \cup {NoTask}]
      /\ loaded' \in [Workers -> Row \cup {Gone}]
      /\ next' \in [Workers -> 1 .. Last + 1]
      /\ opened' \in [Workers -> BOOLEAN]
  BY DEF Inv, TasksInv
<1>4. ASSUME NEW v \in Workers, job'[v] # NoTask
      PROVE  /\ job'[v] \in Task
             /\ loaded'[v] \in Row
             /\ loaded'[v].pic # 0
             /\ Fits(uploads', loaded'[v], job'[v].object)
  <2>1. CASE v = w
    BY <2>1, <1>2
  <2>2. CASE v # w
    BY <1>1, <1>4, <2>2, UploadsGrow DEF Inv, TasksInv
  <2> QED
    BY <2>1, <2>2
<1> QED
  BY <1>3, <1>4 DEF TasksInv

LEMMA WorkerStep ==
    ASSUME Inv, [Next]_vars, TasksInv', UNCHANGED request,
           row' = row, files' = files, log' \subseteq DOMAIN uploads',
           killed' \subseteq DOMAIN uploads'
    PROVE  Inv'
<1>1. TablesInv'
  BY TablesStay, UploadsGrow DEF Inv, TablesInv
<1> QED
  BY <1>1, RequestsStay DEF Inv

LEMMA StepWork ==
    ASSUME Inv, [Next]_vars, NEW w \in Workers, Work(w)
    PROVE  Inv'
<1>1. /\ files \subseteq DOMAIN uploads
      /\ log \subseteq DOMAIN uploads
      /\ killed \subseteq DOMAIN uploads
      /\ broker \subseteq Task
      /\ job = [job EXCEPT ![w] = job[w]]
      /\ loaded = [loaded EXCEPT ![w] = loaded[w]]
      /\ next = [next EXCEPT ![w] = next[w]]
      /\ opened = [opened EXCEPT ![w] = opened[w]]
      /\ next[w] \in 1 .. Last + 1
      /\ opened[w] \in BOOLEAN
      /\ 1 \in 1 .. Last + 1
      /\ \A s \in Sizes : s + 1 \in 1 .. Last + 1
  BY ImagesAssumption DEF Inv, TablesInv, TasksInv, Sizes
<1>2. ASSUME job[w] # NoTask
      PROVE  /\ job[w] \in Task
             /\ job[w].object \in Objects
             /\ loaded[w] \in Row
             /\ loaded[w].pic # 0
             /\ Fits(uploads, loaded[w], job[w].object)
             /\ loaded[w].pic \in DOMAIN uploads
  <2>1. /\ job[w] \in Task
        /\ loaded[w] \in Row
        /\ loaded[w].pic # 0
        /\ Fits(uploads, loaded[w], job[w].object)
    BY <1>2 DEF Inv, TasksInv
  <2> QED
    BY <2>1 DEF Fits, Upload, Task
<1>3. ASSUME job[w] # NoTask, log' = log \cup {loaded[w].pic}, uploads' = uploads
      PROVE  log' \subseteq DOMAIN uploads'
  BY <1>1, <1>2, <1>3
<1>4. CASE TakeTask(w)
  <2>1. PICK t \in broker :
            /\ broker' = broker \ {t}
            /\ IF Exists(t.object) /\ row[t.object].pic # 0
               THEN /\ job' = [job EXCEPT ![w] = t]
                    /\ loaded' = [loaded EXCEPT ![w] = row[t.object]]
                    /\ UNCHANGED <<next, opened>>
               ELSE UNCHANGED work
            /\ UNCHANGED <<row, files, uploads, log, killed, request>>
    BY <1>4 DEF TakeTask
  <2>2. t \in Task /\ t.object \in Objects /\ broker' \subseteq Task
    BY <1>1, <2>1 DEF Task
  <2>3. CASE Exists(t.object) /\ row[t.object].pic # 0
    <3>1. /\ row[t.object] \in Row
          /\ Fits(uploads, row[t.object], t.object)
      BY <2>2, <2>3 DEF Inv, TablesInv, Exists
    <3>2. TasksInv'
      BY <1>1, <2>1, <2>2, <2>3, <3>1, WorkKeeps
    <3> QED
      BY <1>1, <2>1, <3>2, WorkerStep
  <2>4. CASE ~(Exists(t.object) /\ row[t.object].pic # 0)
    <3>1. TasksInv'
      BY <2>1, <2>2, <2>4, TasksStay DEF Inv
    <3> QED
      BY <1>1, <2>1, <3>1, WorkerStep
  <2> QED
    BY <2>3, <2>4
<1>5. CASE MakeThumb(w)
  <2>1. job[w] # NoTask /\ next[w] \in Sizes
    BY <1>5 DEF MakeThumb
  <2> DEFINE r == WithThumb(loaded[w], next[w], loaded[w].pic)
  <2>2. r \in Row /\ r.pic # 0 /\ Fits(uploads', r, job[w].object)
    BY <1>2, <1>5, <2>1, ThumbFits DEF MakeThumb
  <2>3. TasksInv'
    <3>1. /\ broker' \subseteq Task
          /\ job' = [job EXCEPT ![w] = job[w]]
          /\ loaded' = [loaded EXCEPT ![w] = r]
          /\ next' = [next EXCEPT ![w] = next[w] + 1]
          /\ opened' = [opened EXCEPT ![w] = TRUE]
      BY <1>1, <1>5 DEF MakeThumb
    <3>2. next[w] + 1 \in 1 .. Last + 1
      BY <1>1, <2>1
    <3> HIDE DEF r
    <3> QED
      BY <1>2, <2>1, <2>2, <3>1, <3>2, WorkKeeps
  <2> QED
    BY <1>1, <1>5, <2>3, WorkerStep DEF MakeThumb
<1>6. CASE SkipThumb(w)
  <2>1. job[w] # NoTask /\ next[w] \in Sizes
    BY <1>6 DEF SkipThumb
  <2>2. CanRead(w) \in BOOLEAN
    BY <1>1 DEF CanRead
  <2>3. TasksInv'
    <3>1. /\ broker' \subseteq Task
          /\ job' = [job EXCEPT ![w] = job[w]]
          /\ loaded' = [loaded EXCEPT ![w] = loaded[w]]
          /\ next' = [next EXCEPT ![w] = next[w] + 1]
          /\ opened' = [opened EXCEPT ![w] = CanRead(w)]
          /\ uploads' = uploads
      BY <1>1, <1>6 DEF SkipThumb
    <3>2. next[w] + 1 \in 1 .. Last + 1
      BY <1>1, <2>1
    <3> QED
      BY <1>2, <2>1, <2>2, <3>1, <3>2, WorkKeeps
  <2> QED
    BY <1>1, <1>3, <1>6, <2>1, <2>3, WorkerStep DEF SkipThumb
<1>7. CASE SaveThumbs(w)
  <2>1. TablesInv'
    BY <1>1, <1>2, <1>7, WriteKeeps DEF SaveThumbs, Inv
  <2>2. TasksInv'
    BY <1>1, <1>7, IdleKeeps DEF SaveThumbs
  <2> QED
    BY <1>7, <2>1, <2>2, RequestsStay DEF SaveThumbs, Inv
<1>8. CASE RetryTask(w)
  <2>1. job[w] # NoTask /\ job[w].retries < MaxRetries
    BY <1>8 DEF RetryTask, TaskFails
  <2>2. [job[w] EXCEPT !.retries = @ + 1] \in Task
    BY <1>2, <2>1, ImagesAssumption DEF Task
  <2>3. TasksInv'
    BY <1>1, <1>8, <2>2, IdleKeeps DEF RetryTask
  <2> QED
    BY <1>1, <1>3, <1>8, <2>1, <2>3, WorkerStep DEF RetryTask
<1>9. CASE LoseTask(w)
  <2>1. TasksInv'
    BY <1>1, <1>9, IdleKeeps DEF LoseTask
  <2> QED
    BY <1>1, <1>3, <1>9, <2>1, WorkerStep DEF LoseTask, TaskFails
<1>10. CASE KillWorker(w)
  <2>1. TasksInv'
    BY <1>1, <1>10, IdleKeeps DEF KillWorker
  <2>2. killed' \subseteq DOMAIN uploads'
    BY <1>1, <1>2, <1>10 DEF KillWorker
  <2> QED
    BY <1>1, <1>10, <2>1, <2>2, WorkerStep DEF KillWorker
<1> QED
  BY <1>4, <1>5, <1>6, <1>7, <1>8, <1>9, <1>10 DEF Work

LEMMA StepInv == Inv /\ [Next]_vars => Inv'
<1> SUFFICES ASSUME Inv, [Next]_vars PROVE Inv'
  OBVIOUS
<1>1. CASE UNCHANGED vars
  BY <1>1 DEF vars, Inv, TablesInv, RequestsInv, TasksInv
<1>2. CASE Next
  BY <1>2, StepArrive, StepContinue, StepFails, StepWork DEF Next
<1> QED
  BY <1>1, <1>2

(* However requests, tasks and failures interleave, every row, every copy  *)
(* a request holds and every instance a task has loaded is of its type;    *)
(* what the log and the storage name has been sent; no task is tried more  *)
(* than MaxRetries + 1 times.                                              *)
THEOREM TypeCorrect == Spec => []TypeOK
<1>1. Spec => []Inv
  BY InitInv, StepInv, PTL DEF Spec
<1>2. Inv => TypeOK
  BY GoneFits DEF Inv, TablesInv, RequestsInv, TasksInv, TypeOK, Exists, Fits
<1> QED
  BY <1>1, <1>2, PTL

(* Nobody is ever shown a thumbnail that a task has made of a later        *)
(* picture than the picture beside it, nor of another object; and of a     *)
(* user nobody is shown a thumbnail that no task has made.                 *)
THEOREM ThumbsCorrect == Spec => []ThumbsNeverNewer
<1>1. Spec => []Inv
  BY InitInv, StepInv, PTL DEF Spec
<1>2. Inv => ThumbsNeverNewer
  <2> SUFFICES ASSUME Inv, NEW o \in Objects
               PROVE  Follows(row[o], o)
    BY DEF ThumbsNeverNewer
  <2>1. row[o] # Gone => row[o] \in Row /\ Fits(uploads, row[o], o)
    BY DEF Inv, TablesInv
  <2>2. CASE row[o] = Gone
    BY <2>2 DEF Follows, Gone
  <2>3. CASE row[o] # Gone
    <3>1. DOMAIN row[o].thumbs = Sizes
      BY <2>1, <2>3 DEF Row
    <3>2. ASSUME NEW s \in Sizes
          PROVE  FitsThumb(uploads, row[o], row[o].thumbs[s], o)
      BY <2>1, <2>3 DEF Fits
    <3> QED
      BY <3>1, <3>2, ImagesAssumption DEF Follows, FitsThumb, Upload, HasFields
  <2> QED
    BY <2>2, <2>3
<1> QED
  BY <1>1, <1>2, PTL

-----------------------------------------------------------------------------
(* What goes with what                                                     *)

LEMMA OwnerKind ==
    ASSUME TablesInv, NEW o \in Objects
    PROVE  Owner(o) \in OwnersOf(o) \cup {None}
<1>1. row[o] \in Row => row[o].owner \in OwnersOf(o)
  BY DEF TablesInv, Fits
<1>2. Gone.owner = None
  BY DEF Gone
<1> QED
  BY <1>1, <1>2 DEF Owner, TablesInv

(* Four steps upwards lead to nothing.                                     *)
LEMMA OwnerEnds ==
    ASSUME TablesInv, NEW o \in Objects
    PROVE  Owner(Owner(Owner(Owner(o)))) = None
<1>0. Owner(None) = None
  BY ImagesAssumption DEF Owner
<1>1. \A a \in Avatars : Owner(a) = None
  BY OwnerKind, ImagesAssumption DEF OwnersOf, Objects, Pictured
<1>2. \A t \in Suppliers : Owner(t) \in Avatars \cup {None}
  BY OwnerKind, ImagesAssumption DEF OwnersOf, Objects, Pictured
<1>3. \A p \in Products : Owner(p) \in Suppliers \cup {None}
  BY OwnerKind, ImagesAssumption DEF OwnersOf, Objects, Pictured
<1>4. \A e \in Extras : Owner(e) \in Products \cup {None}
  BY OwnerKind, ImagesAssumption DEF OwnersOf, Objects, Pictured
<1>5. \A t \in Suppliers : Owner(Owner(t)) = None
  BY <1>0, <1>1, <1>2
<1>6. \A p \in Products : Owner(Owner(Owner(p))) = None
  BY <1>0, <1>3, <1>5
<1>7. \A e \in Extras : Owner(Owner(Owner(Owner(e)))) = None
  BY <1>0, <1>4, <1>6
<1> QED
  BY <1>0, <1>1, <1>5, <1>6, <1>7 DEF Objects, Pictured

(* What is above p is above o, when p is.                                  *)
LEMMA ChainUpwards ==
    ASSUME TablesInv, NEW o \in Objects, NEW p \in Chain(o)
    PROVE  Chain(p) \subseteq Chain(o)
<1>1. Owner(None) = None
  BY ImagesAssumption DEF Owner
<1> QED
  BY <1>1, OwnerEnds DEF Chain

LEMMA ChainKind ==
    ASSUME TablesInv, NEW o \in Objects
    PROVE  /\ o \in Chain(o)
           /\ Chain(o) \subseteq Objects
           /\ \A p \in Chain(o) : p # o => p \notin Extras
<1>1. Owner(None) = None
  BY ImagesAssumption DEF Owner
<1>2. \A x \in Objects : Owner(x) \in (Objects \ Extras) \cup {None}
  BY OwnerKind, ImagesAssumption DEF OwnersOf, Objects, Pictured
<1>3. o # None
  BY ImagesAssumption
<1> HIDE DEF Objects
<1> QED
  BY <1>1, <1>2, <1>3 DEF Chain

LEMMA ChainStays ==
    ASSUME TablesInv, NEW o \in Objects,
           \A p \in Chain(o) : row'[p].owner = row[p].owner
    PROVE  Chain(o)' = Chain(o)
<1>1. \A p \in Chain(o) : Owner(p)' = Owner(p)
  BY ChainKind DEF Owner
<1>2. Owner(None) = None /\ Owner(None)' = None
  BY ImagesAssumption DEF Owner
<1>3. \A p \in Chain(o) \cup {None} : Owner(p)' = Owner(p)
  BY <1>1, <1>2
<1>4. /\ o \in Chain(o) \cup {None} /\ Owner(o) \in Chain(o) \cup {None}
      /\ Owner(Owner(o)) \in Chain(o) \cup {None}
  BY DEF Chain
<1>5. Owner(o)' = Owner(o)
  BY <1>3, <1>4
<1>6. Owner(Owner(o))' = Owner(Owner(o))
  <2>1. Owner(Owner(o))' = IF Owner(o)' \in Objects THEN row'[Owner(o)'].owner ELSE None
    BY DEF Owner
  <2>2. Owner(Owner(o))' = IF Owner(o) \in Objects THEN row'[Owner(o)].owner ELSE None
    BY <1>5, <2>1
  <2>3. Owner(Owner(o)) = IF Owner(o) \in Objects THEN row[Owner(o)].owner ELSE None
    BY DEF Owner
  <2>4. Owner(o) \in Objects => Owner(o) \in Chain(o)
    BY <1>4, ImagesAssumption
  <2> QED
    BY <2>2, <2>3, <2>4
<1>7. Owner(Owner(Owner(o)))' = Owner(Owner(Owner(o)))
  <2> DEFINE x == Owner(Owner(o))
  <2>1. Owner(Owner(Owner(o)))' = IF x' \in Objects THEN row'[x'].owner ELSE None
    BY DEF Owner
  <2>2. Owner(Owner(Owner(o)))' = IF x \in Objects THEN row'[x].owner ELSE None
    BY <1>6, <2>1
  <2>3. Owner(x) = IF x \in Objects THEN row[x].owner ELSE None
    BY DEF Owner
  <2>4. x \in Objects => x \in Chain(o)
    BY <1>4, ImagesAssumption
  <2> QED
    BY <2>2, <2>3, <2>4
<1> QED
  BY <1>5, <1>6, <1>7 DEF Chain

-----------------------------------------------------------------------------
(* A picture stays                                                         *)

(* No other object has a copy or an instance with the picture of o.        *)
LEMMA OwnPicture ==
    ASSUME Inv, NEW o \in Objects, PictureSettled(o)
    PROVE  /\ row[o] \in Row /\ row[o].pic # 0
           /\ \A h \in Handlers :
                  pc[h] # "idle" /\ target[h] # o => copy[h].pic # row[o].pic
           /\ \A p \in Objects : p # o => row[p].pic # row[o].pic
<1>1. /\ row[o] \in Row /\ row[o].pic \in DOMAIN uploads /\ row[o].pic # 0
      /\ uploads[row[o].pic] = o
  BY DEF Inv, TablesInv, PictureSettled, Exists, Fits, Upload
<1>2. ASSUME NEW p \in Objects, p # o PROVE row[p].pic # row[o].pic
  <2>1. row[p] = Gone \/ Upload(uploads, row[p].pic, p)
    BY DEF Inv, TablesInv, Fits
  <2> QED
    BY <1>1, <1>2, <2>1 DEF Upload, Gone
<1> QED
  BY <1>1, <1>2 DEF Inv, RequestsInv, Fits, Upload

(* The requests other than h hold what they held, and h holds nothing of   *)
(* o and what o is deleted with, or goes on with something above o that it *)
(* leaves where it is.                                                     *)
Leaves(h, o) ==
    /\ \A g \in Handlers \ {h} :
           pc'[g] = pc[g] /\ target'[g] = target[g] /\ copy'[g] = copy[g]
    /\ \/ target'[h] \notin Chain(o)
       \/ /\ target'[h] = target[h] /\ target[h] # o
          /\ pc[h] # "queue" /\ pc'[h] # "destroy"
          /\ copy'[h].owner = copy[h].owner

LEMMA AnswerLeaves ==
    ASSUME Inv, NEW h \in Handlers, NEW o \in Objects, Answer(h)
    PROVE  Leaves(h, o)
  BY DEF Answer, Leaves, Inv, RequestsInv, Chain

LEMMA HandlerSettled ==
    ASSUME Inv, NEW h \in Handlers, NEW o \in Objects, PictureSettled(o),
           Leaves(h, o), row'[o] \in Row, row'[o].pic = row[o].pic,
           row[o].pic \in files', UNCHANGED work,
           \A p \in Chain(o) : row'[p].owner = row[p].owner
    PROVE  PictureSettled(o)'
<1>1. row'[o] # Gone
  BY GoneFits
<1>2. Chain(o)' = Chain(o) /\ o \in Chain(o)
  BY ChainStays, ChainKind DEF Inv
<1>3. ASSUME NEW p \in Chain(o) PROVE Stands(p)'
  <2>1. Stands(p)
    BY DEF PictureSettled
  <2>2. ASSUME NEW g \in Handlers, target'[g] = p
        PROVE  /\ pc'[g] # "destroy"
               /\ pc'[g] = "queue" \/ copy'[g].owner = row'[p].owner
    <3>1. CASE g # h
      BY <2>1, <2>2, <3>1 DEF Leaves, Stands
    <3>2. CASE g = h
      BY <2>1, <2>2, <3>2 DEF Leaves, Stands
    <3> QED
      BY <3>1, <3>2
  <2>3. ASSUME NEW w \in Workers, job'[w].object = p
        PROVE  loaded'[w].owner = row'[p].owner
    BY <2>1, <2>3 DEF Stands, work
  <2> QED
    BY <2>2, <2>3 DEF Stands
<1>4. ASSUME NEW g \in Handlers, target'[g] = o
      PROVE  \/ pc'[g] = "queue"
             \/ pc'[g] = "edit" /\ copy'[g].pic = row'[o].pic
  <2>1. g # h
    BY <1>2, <1>4 DEF Leaves
  <2> QED
    BY <1>4, <2>1 DEF Leaves, PictureSettled
<1>5. \A w \in Workers : job'[w].object = o => loaded'[w].pic = row'[o].pic
  BY DEF PictureSettled, work
<1> QED
  BY <1>1, <1>2, <1>3, <1>4, <1>5 DEF PictureSettled, Exists

LEMMA ArriveSettled ==
    ASSUME Inv, NEW h \in Handlers, NEW o \in Objects, PictureSettled(o), Arrive(h),
           ~Begins(o)
    PROVE  PictureSettled(o)'
<1>1. row[o] \in Row
  BY OwnPicture
<1>2. pc[h] = "idle"
  BY DEF Arrive, LoadForUpload, AddImage, LoadForEdit, LoadForDelete, LoadForDestroy,
         Load
<1>3. target'[h] \notin Chain(o)
  BY <1>2 DEF Begins
<1>4. ASSUME NEW p \in Objects, NEW step, Load(h, p, step) \/ LoadForEdit(h, p, step)
      PROVE  PictureSettled(o)'
  <2>1. /\ Leaves(h, o)
        /\ UNCHANGED <<row, files, work>>
    BY <1>3, <1>4 DEF Load, LoadForEdit, Leaves, Inv, RequestsInv
  <2> QED
    BY <1>1, <2>1, HandlerSettled DEF PictureSettled
<1>5. ASSUME NEW p \in Objects, AddImage(h, p) PROVE PictureSettled(o)'
  <2>1. Leaves(h, o) /\ p \notin Chain(o)
    BY <1>3, <1>5 DEF AddImage, Leaves, Inv, RequestsInv
  <2>2. \A x \in Objects : x # p => row'[x] = row[x]
    BY <1>5 DEF AddImage, Inv, TablesInv
  <2>3. \A x \in Chain(o) : row'[x] = row[x]
    BY <2>1, <2>2, ChainKind DEF Inv
  <2>4. o \in Chain(o)
    BY ChainKind DEF Inv
  <2> QED
    BY <1>1, <1>5, <2>1, <2>3, <2>4, HandlerSettled DEF AddImage, PictureSettled
<1> QED
  BY <1>4, <1>5 DEF Arrive, LoadForUpload, LoadForDelete, LoadForDestroy

(* A request about another object, at a step that writes the row of what   *)
(* it is about, and perhaps removes a file.                                *)
LEMMA ElsewhereSettled ==
    ASSUME Inv, NEW h \in Handlers, NEW o \in Objects, PictureSettled(o),
           pc[h] \notin {"idle", "queue", "edit"},
           Leaves(h, o), UNCHANGED work,
           \/ row' = row
           \/ \E r : /\ row' = [row EXCEPT ![target[h]] = r]
                     /\ r.owner = copy[h].owner \/ target[h] \in Extras,
           files \ {copy[h].pic} \subseteq files'
    PROVE  PictureSettled(o)'
<1>1. target[h] # o
  BY DEF PictureSettled
<1>2. row'[o] = row[o]
  BY <1>1 DEF Inv, TablesInv
<1>3. row[o].pic \in files'
  BY <1>1, OwnPicture DEF PictureSettled
<1>4. ASSUME NEW p \in Chain(o) PROVE row'[p].owner = row[p].owner
  <2>1. CASE p = target[h]
    <3>1. copy[h].owner = row[p].owner
      BY <2>1 DEF PictureSettled, Stands
    <3>2. target[h] \notin Extras
      BY <1>1, <2>1, ChainKind DEF Inv
    <3>3. p \in Objects
      BY ChainKind DEF Inv
    <3> QED
      BY <2>1, <3>1, <3>2, <3>3 DEF Inv, TablesInv
  <2>2. CASE p # target[h]
    BY <2>2, ChainKind DEF Inv, TablesInv
  <2> QED
    BY <2>1, <2>2
<1> QED
  BY <1>2, <1>3, <1>4, OwnPicture, HandlerSettled

LEMMA ContinueSettled ==
    ASSUME Inv, NEW h \in Handlers, NEW o \in Objects, PictureSettled(o), Continue(h)
    PROVE  PictureSettled(o)'
<1> USE DEF Inv, RequestsInv
<1>0. /\ pc[h] # "idle" /\ target[h] \in Objects /\ copy[h] \in Row
      /\ \A v : WithPic(copy[h], v).owner = copy[h].owner
      /\ \A s, v : WithThumb(copy[h], s, v).owner = copy[h].owner
  BY DEF Continue, SaveUpload, QueueTask, SaveEdit, SaveReplace, DeletePicture,
         SaveDeleted, WipeThumb, FinishDelete, Destroy, WithPic, WithThumb, Row
<1>1. CASE SaveUpload(h)
  <2>1. /\ \A g \in Handlers \ {h} :
               pc'[g] = pc[g] /\ target'[g] = target[g] /\ copy'[g] = copy[g]
        /\ target'[h] = target[h] /\ pc[h] = "upload" /\ pc'[h] = "queue"
        /\ copy'[h] = WithPic(copy[h], NewPicture)
    BY <1>1 DEF SaveUpload
  <2>2. Leaves(h, o)
    BY <1>0, <2>1 DEF Leaves, PictureSettled
  <2>3. /\ row' = [row EXCEPT ![target[h]] = WithPic(copy[h], NewPicture)]
        /\ files \ {copy[h].pic} \subseteq files' /\ UNCHANGED work
    BY <1>1 DEF SaveUpload, StorePicture, Cleanup
  <2> QED
    BY <1>0, <2>1, <2>2, <2>3, ElsewhereSettled
<1>2. CASE SaveReplace(h)
  <2>1. /\ row' = [row EXCEPT ![target[h]] = WithPic(copy[h], NewPicture)]
        /\ files \ {copy[h].pic} \subseteq files' /\ UNCHANGED work
        /\ pc[h] = "replace" /\ Answer(h)
    BY <1>2 DEF SaveReplace, StorePicture, Cleanup
  <2> QED
    BY <1>0, <2>1, AnswerLeaves, ElsewhereSettled
<1>3. CASE QueueTask(h)
  <2>1. Answer(h) /\ UNCHANGED <<row, files, work>>
    BY <1>3 DEF QueueTask
  <2> QED
    BY <2>1, AnswerLeaves, HandlerSettled, OwnPicture DEF PictureSettled
<1>4. CASE SaveEdit(h)
  <2>1. Leaves(h, o) /\ UNCHANGED work
    BY <1>4, AnswerLeaves DEF SaveEdit
  <2>2. CASE pc[h] = "clear"
    <3>1. /\ row' = [row EXCEPT ![target[h]] = WithPic(copy[h], 0)]
          /\ files \ {copy[h].pic} \subseteq files'
      BY <1>4, <2>2 DEF SaveEdit, Cleanup
    <3> QED
      BY <1>0, <2>1, <2>2, <3>1, ElsewhereSettled
  <2>3. CASE pc[h] = "edit"
    <3>1. /\ row' = [row EXCEPT ![target[h]] = copy[h]]
          /\ files' = files
      BY <1>0, <1>4, <2>3, SamePicture DEF SaveEdit, Cleanup
    <3>2. row'[o] = row[o] \/ (target[h] = o /\ row'[o] = copy[h])
      BY <3>1 DEF TablesInv
    <3>3. target[h] = o => copy[h].pic = row[o].pic
      BY <2>3 DEF PictureSettled
    <3>4. ASSUME NEW p \in Chain(o) PROVE row'[p].owner = row[p].owner
      <4>1. p \in Objects
        BY ChainKind
      <4>2. p = target[h] => copy[h].owner = row[p].owner
        BY <2>3 DEF PictureSettled, Stands
      <4> QED
        BY <3>1, <4>1, <4>2 DEF TablesInv
    <3> QED
      BY <1>0, <2>1, <3>1, <3>2, <3>3, <3>4, OwnPicture, HandlerSettled
         DEF PictureSettled
  <2> QED
    BY <1>4, <2>2, <2>3 DEF SaveEdit
<1>5. CASE DeletePicture(h)
  <2>1. /\ \A g \in Handlers \ {h} :
               pc'[g] = pc[g] /\ target'[g] = target[g] /\ copy'[g] = copy[g]
        /\ target'[h] = target[h] /\ pc[h] = "delete" /\ pc'[h] = "deleted"
        /\ copy'[h] = WithPic(copy[h], 0)
        /\ row' = row /\ files' = files \ {copy[h].pic} /\ UNCHANGED work
    BY <1>5 DEF DeletePicture
  <2>2. Leaves(h, o)
    BY <1>0, <2>1 DEF Leaves, PictureSettled
  <2> QED
    BY <2>1, <2>2, ElsewhereSettled
<1>6. CASE SaveDeleted(h)
  <2>1. /\ \A g \in Handlers \ {h} :
               pc'[g] = pc[g] /\ target'[g] = target[g] /\ copy'[g] = copy[g]
        /\ target'[h] = target[h] /\ pc[h] = "deleted" /\ pc'[h] = "wipe"
        /\ copy'[h] = copy[h]
        /\ row' = [row EXCEPT ![target[h]] = copy[h]]
        /\ files' = files /\ UNCHANGED work
    BY <1>6 DEF SaveDeleted
  <2>2. Leaves(h, o)
    BY <1>0, <2>1 DEF Leaves, PictureSettled
  <2> QED
    BY <2>1, <2>2, ElsewhereSettled
<1>7. CASE WipeThumb(h)
  <2>1. PICK s \in Sizes :
            /\ row' = [row EXCEPT ![target[h]] = WithThumb(copy[h], s, 0)]
            /\ copy' = [copy EXCEPT ![h] = WithThumb(copy[h], s, 0)]
            /\ pc[h] = "wipe" /\ UNCHANGED <<files, pc, target, work>>
    BY <1>7 DEF WipeThumb
  <2>2. /\ \A g \in Handlers \ {h} :
               pc'[g] = pc[g] /\ target'[g] = target[g] /\ copy'[g] = copy[g]
        /\ target'[h] = target[h] /\ pc'[h] = "wipe"
        /\ copy'[h] = WithThumb(copy[h], s, 0)
    BY <2>1
  <2>3. Leaves(h, o)
    BY <1>0, <2>1, <2>2 DEF Leaves, PictureSettled
  <2> QED
    BY <1>0, <2>1, <2>3, ElsewhereSettled
<1>8. CASE FinishDelete(h)
  <2>1. /\ pc[h] = "wipe" /\ Answer(h) /\ files' = files /\ UNCHANGED work
        /\ \E r : /\ row' = [row EXCEPT ![target[h]] = r]
                  /\ r.owner = copy[h].owner \/ target[h] \in Extras
    BY <1>8 DEF FinishDelete
  <2> QED
    BY <2>1, AnswerLeaves, ElsewhereSettled
<1>9. CASE Destroy(h)
  <2>1. /\ pc[h] = "destroy" /\ Answer(h) /\ UNCHANGED work
        /\ row' = [x \in Objects |-> IF x \in Below(target[h]) THEN Gone ELSE row[x]]
        /\ files' = files \ ({copy[h].pic} \cup
                             {row[x].pic : x \in Below(target[h]) \ {target[h]}})
    BY <1>9 DEF Destroy
  <2>2. target[h] \notin Chain(o)
    BY <2>1 DEF PictureSettled, Stands
  <2>3. ASSUME NEW p \in Chain(o) PROVE row'[p] = row[p]
    <3>1. p \in Objects /\ target[h] \notin Chain(p)
      BY <2>2, ChainKind, ChainUpwards
    <3> QED
      BY <2>1, <3>1 DEF Below
  <2>4. o \in Chain(o) /\ o \notin Below(target[h]) /\ target[h] # o
    BY <2>2, ChainKind DEF Below
  <2>5. row[o].pic \in files'
    <3>1. ASSUME NEW x \in Below(target[h]) \ {target[h]} PROVE row[x].pic # row[o].pic
      BY <2>4, OwnPicture DEF Below
    <3>2. copy[h].pic # row[o].pic /\ row[o].pic \in files
      BY <1>0, <2>4, OwnPicture DEF PictureSettled
    <3> QED
      BY <2>1, <3>1, <3>2
  <2> QED
    BY <2>1, <2>3, <2>4, <2>5, AnswerLeaves, OwnPicture, HandlerSettled
<1> QED
  BY <1>1, <1>2, <1>3, <1>4, <1>5, <1>6, <1>7, <1>8, <1>9 DEF Continue

LEMMA WorkSettled ==
    ASSUME Inv, NEW w \in Workers, NEW o \in Objects, PictureSettled(o), Work(w)
    PROVE  PictureSettled(o)'
<1> USE DEF Inv, TasksInv
<1>1. UNCHANGED <<files, request>>
  BY DEF Work, TakeTask, MakeThumb, SkipThumb, SaveThumbs, RetryTask, LoseTask,
         KillWorker
<1>2. \A v \in Workers \ {w} : job'[v] = job[v] /\ loaded'[v] = loaded[v]
  BY DEF Work, TakeTask, MakeThumb, SkipThumb, SaveThumbs, RetryTask, LoseTask,
         KillWorker, Idle, work
<1>3. /\ row' = row \/ (/\ job[w] # NoTask /\ loaded[w] \in Row
                        /\ row' = [row EXCEPT ![job[w].object] = loaded[w]])
      /\ \/ job'[w].object = None
         \/ /\ job'[w].object = job[w].object /\ loaded'[w].pic = loaded[w].pic
            /\ loaded'[w].owner = loaded[w].owner
            /\ row' = row
         \/ /\ loaded'[w] = row[job'[w].object]
            /\ row' = row
  <2>1. CASE TakeTask(w)
    <3> PICK t \in broker :
            /\ \/ /\ job' = [job EXCEPT ![w] = t]
                  /\ loaded' = [loaded EXCEPT ![w] = row[t.object]]
               \/ UNCHANGED work
            /\ row' = row
      BY <2>1 DEF TakeTask
    <3> QED
      BY DEF work
  <2>2. CASE MakeThumb(w)
    <3>1. /\ WithThumb(loaded[w], next[w], loaded[w].pic).pic = loaded[w].pic
          /\ WithThumb(loaded[w], next[w], loaded[w].pic).owner = loaded[w].owner
      BY <2>2 DEF MakeThumb, WithThumb, Row
    <3> QED
      BY <2>2, <3>1 DEF MakeThumb
  <2>3. CASE SkipThumb(w)
    BY <2>3 DEF SkipThumb
  <2>4. ASSUME Idle(w) PROVE job'[w].object = None
    BY <2>4 DEF Idle, NoTask
  <2>5. CASE SaveThumbs(w)
    BY <2>4, <2>5 DEF SaveThumbs
  <2>6. CASE RetryTask(w) \/ LoseTask(w) \/ KillWorker(w)
    BY <2>4, <2>6 DEF RetryTask, LoseTask, KillWorker
  <2> QED
    BY <2>1, <2>2, <2>3, <2>5, <2>6 DEF Work
<1>4. ASSUME NEW p \in Chain(o)
      PROVE  /\ row'[p].owner = row[p].owner
             /\ Stands(p)'
  <2>1. p \in Objects /\ p # None /\ Stands(p)
    BY ChainKind, ImagesAssumption DEF PictureSettled
  <2>2. row'[p].owner = row[p].owner
    BY <1>3, <2>1 DEF Stands, TablesInv
  <2>3. ASSUME NEW v \in Workers, job'[v].object = p
        PROVE  loaded'[v].owner = row'[p].owner
    <3>1. CASE v # w
      BY <1>2, <2>1, <2>2, <2>3, <3>1 DEF Stands
    <3>2. CASE v = w
      BY <1>3, <2>1, <2>2, <2>3, <3>2 DEF Stands
    <3> QED
      BY <3>1, <3>2
  <2> QED
    BY <1>1, <2>1, <2>2, <2>3 DEF Stands, request
<1>5. Chain(o)' = Chain(o)
  BY <1>4, ChainStays
<1>6. /\ row'[o].pic = row[o].pic /\ row'[o] \in Row
  BY <1>3, OwnPicture DEF PictureSettled, TablesInv
<1>7. ASSUME NEW v \in Workers, job'[v].object = o
      PROVE  loaded'[v].pic = row'[o].pic
  <2>1. CASE v # w
    BY <1>2, <1>6, <1>7, <2>1 DEF PictureSettled
  <2>2. CASE v = w
    BY <1>3, <1>6, <1>7, <2>2, ImagesAssumption DEF PictureSettled
  <2> QED
    BY <2>1, <2>2
<1>8. row'[o] # Gone
  BY <1>6, GoneFits
<1> QED
  BY <1>1, <1>4, <1>5, <1>6, <1>7, <1>8 DEF PictureSettled, Exists, request

(* A picture that is in the table and in the storage, that no request or   *)
(* task holds another version of, and whose object stands where it is,     *)
(* stays until a request begins for the object or what it is deleted with. *)
THEOREM SettledCorrect == Spec => SettledPictureStays
<1> DEFINE Stays(o) == PictureSettled(o) => PictureSettled(o)' \/ Begins(o)
<1>1. Inv /\ [Next]_vars => \A o \in Objects : Stays(o)
  <2> SUFFICES ASSUME Inv, [Next]_vars, NEW o \in Objects, PictureSettled(o), ~Begins(o)
               PROVE  PictureSettled(o)'
    OBVIOUS
  <2>1. ASSUME NEW h \in Handlers, HandlerFails(h) PROVE PictureSettled(o)'
    <3>1. Answer(h) /\ row' = row /\ UNCHANGED work /\ files \subseteq files'
      BY <2>1 DEF HandlerFails
    <3> QED
      BY <3>1, AnswerLeaves, HandlerSettled, OwnPicture DEF PictureSettled
  <2>2. CASE UNCHANGED vars
    BY <2>2 DEF vars, PictureSettled, Exists, Chain, Owner, Stands
  <2> QED
    BY <2>1, <2>2, ArriveSettled, ContinueSettled, WorkSettled DEF Next
<1>2. Spec => []Inv
  BY InitInv, StepInv, PTL DEF Spec
<1> QED
  BY <1>1, <1>2, PTL DEF Spec, SettledPictureStays

-----------------------------------------------------------------------------
(* Requests and tasks that are never about the same object at the same     *)
(* time, nor a deletion about something the object of another is deleted   *)
(* with, as if each of them held locks.                                    *)

OneAtATime ==
    /\ \A g, h \in Handlers : target[g] = target[h] /\ target[g] # None => g = h
    /\ \A v, w \in Workers : job[v].object = job[w].object /\ job[v] # NoTask
           => v = w
    /\ \A h \in Handlers, w \in Workers :
           target[h] = job[w].object => target[h] = None
    /\ \A h \in Handlers :
           pc[h] = "destroy" =>
               /\ \A g \in Handlers \ {h} : target[h] \notin Chain(target[g])
               /\ \A w \in Workers : target[h] \notin Chain(job[w].object)

(* What a request or a task holds is what the row shows, but for the       *)
(* picture a deletion has taken away, the thumbnails, and what a form      *)
(* brings.                                                                 *)
Current(h) ==
    /\ pc[h] \in Steps \ {"queue", "deleted"} => copy[h].pic = row[target[h]].pic
    /\ pc[h] = "deleted" => copy[h].pic = 0
    /\ pc[h] \in {"delete", "deleted"} => copy[h].owner = row[target[h]].owner

CurrentTask(w) ==
    job[w] # NoTask => /\ loaded[w].pic = row[job[w].object].pic
                       /\ loaded[w].owner = row[job[w].object].owner

CurrentInv ==
    /\ \A h \in Handlers : Current(h)
    /\ \A w \in Workers : CurrentTask(w)

LEMMA InitCurrent == Init => CurrentInv
  BY DEF Init, CurrentInv, Current, CurrentTask, Steps

(* A step of a request leaves the others and the tasks as they are, and    *)
(* the rows they are about.                                                *)
LEMMA OthersCurrent ==
    ASSUME Inv, CurrentInv, NEW g \in Handlers, Current(g)',
           \A h \in Handlers \ {g} :
               /\ pc'[h] = pc[h] /\ target'[h] = target[h] /\ copy'[h] = copy[h]
               /\ pc[h] # "idle" => row'[target[h]] = row[target[h]],
           UNCHANGED work,
           \A w \in Workers : job[w] # NoTask =>
               row'[job[w].object] = row[job[w].object]
    PROVE  CurrentInv'
<1>1. ASSUME NEW h \in Handlers, h # g PROVE Current(h)'
  BY <1>1 DEF CurrentInv, Current, Steps
<1>2. ASSUME NEW w \in Workers PROVE CurrentTask(w)'
  BY <1>2 DEF CurrentInv, CurrentTask, work
<1> QED
  BY <1>1, <1>2 DEF CurrentInv

(* The same when g writes its own row, and others only when it deletes     *)
(* what is below.                                                          *)
LEMMA OwnRowCurrent ==
    ASSUME Inv, CurrentInv, OneAtATime, NEW g \in Handlers, Current(g)',
           pc[g] # "idle",
           \A h \in Handlers \ {g} :
               pc'[h] = pc[h] /\ target'[h] = target[h] /\ copy'[h] = copy[h],
           UNCHANGED work,
           \A o \in Objects \ {target[g]} :
               row'[o] = row[o] \/ (pc[g] = "destroy" /\ target[g] \in Chain(o))
    PROVE  CurrentInv'
<1>1. target[g] \in Objects
  BY DEF Inv, RequestsInv
<1>2. ASSUME NEW h \in Handlers \ {g}, pc[h] # "idle"
      PROVE  row'[target[h]] = row[target[h]]
  BY <1>1, <1>2, ImagesAssumption DEF OneAtATime, Inv, RequestsInv
<1>3. ASSUME NEW w \in Workers, job[w] # NoTask
      PROVE  row'[job[w].object] = row[job[w].object]
  BY <1>1, <1>3, ImagesAssumption DEF OneAtATime, Inv, TasksInv, Task
<1> QED
  BY <1>2, <1>3, OthersCurrent

LEMMA AnswerCurrent ==
    ASSUME Inv, CurrentInv, OneAtATime, NEW g \in Handlers, pc[g] # "idle",
           Answer(g), UNCHANGED work,
           \A o \in Objects \ {target[g]} :
               row'[o] = row[o] \/ (pc[g] = "destroy" /\ target[g] \in Chain(o))
    PROVE  CurrentInv'
<1>1. /\ \A h \in Handlers \ {g} :
             pc'[h] = pc[h] /\ target'[h] = target[h] /\ copy'[h] = copy[h]
      /\ pc'[g] = "idle"
  BY DEF Answer, Inv, RequestsInv
<1>2. Current(g)'
  BY <1>1 DEF Current, Steps
<1> QED
  BY <1>1, <1>2, OwnRowCurrent

LEMMA ArriveCurrent ==
    ASSUME Inv, CurrentInv, OneAtATime, OneAtATime', NEW g \in Handlers, Arrive(g)
    PROVE  CurrentInv'
<1>1. ASSUME NEW o \in Objects, NEW step \in Steps \ {"queue", "deleted"},
             Load(g, o, step)
      PROVE  CurrentInv'
  <2>1. /\ \A h \in Handlers \ {g} :
               pc'[h] = pc[h] /\ target'[h] = target[h] /\ copy'[h] = copy[h]
        /\ pc'[g] = step /\ target'[g] = o /\ copy'[g] = row[o]
        /\ row' = row /\ UNCHANGED work
    BY <1>1 DEF Load, Inv, RequestsInv
  <2>2. Current(g)'
    BY <2>1 DEF Current
  <2> QED
    BY <2>1, <2>2, OthersCurrent
<1>2. ASSUME NEW o \in Objects, NEW step \in {"edit", "replace", "clear"},
             LoadForEdit(g, o, step)
      PROVE  CurrentInv'
  <2>1. PICK t \in FormThumbs(o, row[o]), p \in FormOwners(o, row[o]) :
            copy' = [copy EXCEPT ![g] = [row[o] EXCEPT !.thumbs = t, !.owner = p]]
    BY <1>2 DEF LoadForEdit
  <2>2. row[o] \in Row /\ Fits(uploads, row[o], o)
    BY <1>2 DEF LoadForEdit, Exists, Inv, TablesInv
  <2>3. [row[o] EXCEPT !.thumbs = t, !.owner = p].pic = row[o].pic
    BY <2>2 DEF Row
  <2>4. /\ \A h \in Handlers \ {g} :
               pc'[h] = pc[h] /\ target'[h] = target[h] /\ copy'[h] = copy[h]
        /\ pc'[g] = step /\ target'[g] = o /\ copy'[g].pic = row[o].pic
        /\ row' = row /\ UNCHANGED work
    BY <1>2, <2>1, <2>3 DEF LoadForEdit, Inv, RequestsInv
  <2>5. Current(g)'
    BY <2>4 DEF Current
  <2> QED
    BY <2>4, <2>5, OthersCurrent
<1>3. ASSUME NEW o \in Objects, AddImage(g, o) PROVE CurrentInv'
  <2>1. /\ \A h \in Handlers \ {g} :
               pc'[h] = pc[h] /\ target'[h] = target[h] /\ copy'[h] = copy[h]
        /\ pc'[g] = "queue" /\ target'[g] = o /\ UNCHANGED work
        /\ \A p \in Objects \ {o} : row'[p] = row[p]
    BY <1>3 DEF AddImage, Inv, RequestsInv, TablesInv
  <2>2. Current(g)'
    BY <2>1 DEF Current, Steps
  <2>3. ASSUME NEW h \in Handlers \ {g}, pc[h] # "idle"
        PROVE  row'[target[h]] = row[target[h]]
    <3>1. target[h] \in Objects /\ target'[h] # target'[g]
      BY <2>1, <2>3, ImagesAssumption DEF OneAtATime, Inv, RequestsInv
    <3> QED
      BY <2>1, <2>3, <3>1
  <2>4. ASSUME NEW w \in Workers, job[w] # NoTask
        PROVE  row'[job[w].object] = row[job[w].object]
    <3>1. job[w].object \in Objects /\ job'[w].object # target'[g]
      BY <2>1, <2>4, ImagesAssumption DEF OneAtATime, Inv, TasksInv, Task, work
    <3> QED
      BY <2>1, <3>1 DEF work
  <2> QED
    BY <2>1, <2>2, <2>3, <2>4, OthersCurrent
<1> QED
  BY <1>1, <1>2, <1>3
     DEF Arrive, LoadForUpload, LoadForDelete, LoadForDestroy, Steps

LEMMA ContinueCurrent ==
    ASSUME Inv, CurrentInv, OneAtATime, NEW g \in Handlers, Continue(g)
    PROVE  CurrentInv'
<1> USE DEF Inv, RequestsInv
<1>1. /\ pc[g] # "idle" /\ target[g] \in Objects /\ copy[g] \in Row
      /\ row \in [Objects -> Row \cup {Gone}]
      /\ \A v \in Nat : WithPic(copy[g], v).pic = v
      /\ \A v : WithPic(copy[g], v).owner = copy[g].owner
  BY DEF Continue, SaveUpload, QueueTask, SaveEdit, SaveReplace, DeletePicture,
         SaveDeleted, WipeThumb, FinishDelete, Destroy, TablesInv, WithPic, Row
<1>2. /\ UNCHANGED work
      /\ \A o \in Objects \ {target[g]} :
             row'[o] = row[o] \/ (pc[g] = "destroy" /\ target[g] \in Chain(o))
  BY <1>1 DEF Continue, SaveUpload, QueueTask, SaveEdit, SaveReplace, StorePicture,
         DeletePicture, SaveDeleted, WipeThumb, FinishDelete, Destroy, Below
<1>3. CASE Answer(g)
  BY <1>1, <1>2, <1>3, AnswerCurrent
<1>4. CASE SaveUpload(g)
  <2>1. /\ \A h \in Handlers \ {g} :
               pc'[h] = pc[h] /\ target'[h] = target[h] /\ copy'[h] = copy[h]
        /\ pc'[g] = "queue"
    BY <1>4 DEF SaveUpload
  <2>2. Current(g)'
    BY <2>1 DEF Current, Steps
  <2> QED
    BY <1>1, <1>2, <2>1, <2>2, OwnRowCurrent
<1>5. CASE DeletePicture(g)
  <2>1. /\ \A h \in Handlers \ {g} :
               pc'[h] = pc[h] /\ target'[h] = target[h] /\ copy'[h] = copy[h]
        /\ pc[g] = "delete" /\ pc'[g] = "deleted" /\ UNCHANGED <<row, target>>
        /\ copy'[g] = WithPic(copy[g], 0)
    BY <1>5 DEF DeletePicture
  <2>2. Current(g)'
    BY <1>1, <2>1 DEF CurrentInv, Current, Steps
  <2> QED
    BY <1>1, <1>2, <2>1, <2>2, OwnRowCurrent
<1>6. CASE SaveDeleted(g)
  <2>1. /\ \A h \in Handlers \ {g} :
               pc'[h] = pc[h] /\ target'[h] = target[h] /\ copy'[h] = copy[h]
        /\ pc'[g] = "wipe" /\ UNCHANGED <<target, copy>>
        /\ row'[target[g]] = copy[g]
    BY <1>1, <1>6 DEF SaveDeleted
  <2>2. Current(g)'
    BY <2>1 DEF Current, Steps
  <2> QED
    BY <1>1, <1>2, <2>1, <2>2, OwnRowCurrent
<1>7. CASE WipeThumb(g)
  <2>1. /\ \A h \in Handlers \ {g} :
               pc'[h] = pc[h] /\ target'[h] = target[h] /\ copy'[h] = copy[h]
        /\ pc'[g] = "wipe" /\ UNCHANGED target
        /\ row'[target[g]] = copy'[g]
    BY <1>1, <1>7 DEF WipeThumb
  <2>2. Current(g)'
    BY <2>1 DEF Current, Steps
  <2> QED
    BY <1>1, <1>2, <2>1, <2>2, OwnRowCurrent
<1> QED
  BY <1>3, <1>4, <1>5, <1>6, <1>7
     DEF Continue, QueueTask, SaveEdit, SaveReplace, FinishDelete, Destroy

LEMMA WorkCurrent ==
    ASSUME Inv, CurrentInv, OneAtATime, NEW w \in Workers, Work(w)
    PROVE  CurrentInv'
<1> USE DEF Inv, TasksInv
<1>1. /\ UNCHANGED request
      /\ \A v \in Workers \ {w} : job'[v] = job[v] /\ loaded'[v] = loaded[v]
      /\ \A o \in Objects : o # job[w].object => row'[o] = row[o]
  BY DEF Work, TakeTask, MakeThumb, SkipThumb, SaveThumbs, RetryTask, LoseTask,
         KillWorker, Idle, work, TablesInv
<1>2. ASSUME NEW h \in Handlers PROVE Current(h)'
  <2>1. pc[h] # "idle" => target[h] \in Objects /\ target[h] # job[w].object
    BY ImagesAssumption DEF OneAtATime, RequestsInv
  <2> QED
    BY <1>1, <2>1 DEF CurrentInv, Current, request, Steps
<1>3. ASSUME NEW v \in Workers \ {w} PROVE CurrentTask(v)'
  <2>1. job[v] # NoTask =>
            job[v].object \in Objects /\ job[v].object # job[w].object
    BY DEF OneAtATime, Task
  <2> QED
    BY <1>1, <2>1 DEF CurrentInv, CurrentTask
<1>4. CurrentTask(w)'
  <2>1. CASE TakeTask(w)
    BY <2>1 DEF TakeTask, CurrentInv, CurrentTask, work
  <2>2. CASE MakeThumb(w)
    <3>1. /\ WithThumb(loaded[w], next[w], loaded[w].pic).pic = loaded[w].pic
          /\ WithThumb(loaded[w], next[w], loaded[w].pic).owner = loaded[w].owner
      BY <2>2 DEF MakeThumb, WithThumb, Row
    <3> QED
      BY <2>2, <3>1 DEF MakeThumb, CurrentInv, CurrentTask
  <2>3. CASE SkipThumb(w)
    BY <2>3 DEF SkipThumb, CurrentInv, CurrentTask
  <2>4. CASE SaveThumbs(w) \/ RetryTask(w) \/ LoseTask(w) \/ KillWorker(w)
    BY <2>4 DEF SaveThumbs, RetryTask, LoseTask, KillWorker, Idle, CurrentTask
  <2> QED
    BY <2>1, <2>2, <2>3, <2>4 DEF Work
<1> QED
  BY <1>2, <1>3, <1>4 DEF CurrentInv

LEMMA StepCurrent ==
    Inv /\ CurrentInv /\ OneAtATime /\ OneAtATime' /\ [Next]_vars => CurrentInv'
<1> SUFFICES ASSUME Inv, CurrentInv, OneAtATime, OneAtATime', [Next]_vars
             PROVE  CurrentInv'
  OBVIOUS
<1>1. ASSUME NEW h \in Handlers, HandlerFails(h) PROVE CurrentInv'
  BY <1>1, AnswerCurrent DEF HandlerFails
<1>2. CASE UNCHANGED vars
  BY <1>2 DEF vars, CurrentInv, Current, CurrentTask
<1> QED
  BY <1>1, <1>2, ArriveCurrent, ContinueCurrent, WorkCurrent DEF Next

(* Where requests and tasks for one object never overlap, a task leaves    *)
(* the picture as it is, and so does its failure: the lost avatar is a     *)
(* race of a task with a request, or of two tasks, and nothing else.       *)
THEOREM LoneTaskCorrect == Spec /\ []OneAtATime => TaskKeepsPicture
<1> DEFINE Keeps(w) ==
        (job[w] # NoTask /\ next[w] = Last + 1 /\ job'[w] = NoTask)
            => row'[job[w].object].pic = row[job[w].object].pic
<1>1. ASSUME Inv, CurrentInv, OneAtATime, [Next]_vars, NEW w \in Workers,
             job[w] # NoTask, job'[w] = NoTask
      PROVE  row'[job[w].object].pic = row[job[w].object].pic
  <2> USE DEF Inv, TasksInv
  <2>1. job[w].object \in Objects /\ job'[w] # job[w]
    BY <1>1 DEF Task
  <2>2. ASSUME NEW h \in Handlers, Arrive(h) \/ Continue(h) \/ HandlerFails(h)
        PROVE  UNCHANGED job
    BY <2>2 DEF Arrive, LoadForUpload, LoadForEdit, LoadForDelete, LoadForDestroy,
            Load, AddImage, Continue, SaveUpload, QueueTask, SaveEdit, SaveReplace,
            DeletePicture, SaveDeleted, WipeThumb, FinishDelete, Destroy,
            HandlerFails, work
  <2>3. ASSUME NEW v \in Workers \ {w}, Work(v) PROVE job'[w] = job[w]
    BY <1>1, <2>3 DEF Work, TakeTask, MakeThumb, SkipThumb, SaveThumbs, RetryTask,
            LoseTask, KillWorker, Idle, work
  <2>4. Work(w)
    BY <1>1, <2>1, <2>2, <2>3 DEF Next, vars
  <2>5. SaveThumbs(w) \/ UNCHANGED row
    BY <2>4 DEF Work, TakeTask, MakeThumb, SkipThumb, RetryTask, LoseTask, KillWorker
  <2>6. CASE SaveThumbs(w)
    <3>1. row'[job[w].object] = loaded[w]
      BY <1>1, <2>1, <2>6 DEF SaveThumbs, TablesInv
    <3> QED
      BY <1>1, <3>1 DEF CurrentInv, CurrentTask
  <2> QED
    BY <2>5, <2>6
<1>2. Inv /\ CurrentInv /\ OneAtATime /\ [Next]_vars => \A w \in Workers : Keeps(w)
  BY <1>1
<1>3. Spec /\ []OneAtATime => [](Inv /\ CurrentInv)
  BY InitInv, StepInv, InitCurrent, StepCurrent, PTL DEF Spec
<1>4. Spec => [][Next]_vars
  BY PTL DEF Spec
<1> QED
  BY <1>2, <1>3, <1>4, PTL DEF TaskKeepsPicture

(* The picture of every row is in the storage, unless the request that has *)
(* just removed the file is about to say so in the row.                    *)
PicturesStored ==
    \A o \in Objects :
        row[o].pic # 0 =>
            \/ row[o].pic \in files
            \/ \E h \in Handlers : pc[h] = "deleted" /\ target[h] = o

FilesInv == PicturesStored /\ log = {}

(* A step of the request g, by what it does to each row.                   *)
LEMMA StoredKept ==
    ASSUME PicturesStored, NEW g \in Handlers,
           \A h \in Handlers \ {g} : pc'[h] = pc[h] /\ target'[h] = target[h],
           \A o \in Objects :
               \/ row'[o].pic = 0
               \/ row'[o].pic \in files'
               \/ pc'[g] = "deleted" /\ target'[g] = o
               \/ /\ row'[o].pic = row[o].pic
                  /\ row[o].pic \in files => row[o].pic \in files'
                  /\ pc[g] = "deleted" => target[g] # o
    PROVE  PicturesStored'
<1> SUFFICES ASSUME NEW o \in Objects, row'[o].pic # 0, row'[o].pic \notin files',
                    ~(pc'[g] = "deleted" /\ target'[g] = o)
             PROVE  \E h \in Handlers : pc'[h] = "deleted" /\ target'[h] = o
  BY DEF PicturesStored
<1>1. /\ row[o].pic # 0 /\ row[o].pic \notin files
      /\ pc[g] = "deleted" => target[g] # o
  OBVIOUS
<1>2. PICK h \in Handlers : pc[h] = "deleted" /\ target[h] = o
  BY <1>1 DEF PicturesStored
<1> QED
  BY <1>1, <1>2

(* What the request g holds is no picture of another object.               *)
LEMMA OthersPicture ==
    ASSUME Inv, NEW g \in Handlers, pc[g] # "idle", NEW o \in Objects,
           o # target[g], row[o].pic # 0
    PROVE  row[o].pic # copy[g].pic
<1>1. copy[g] \in Row /\ Upload(uploads, copy[g].pic, target[g])
  BY DEF Inv, RequestsInv, Fits
<1>2. row[o] \in Row /\ Upload(uploads, row[o].pic, o)
  BY GoneFits DEF Inv, TablesInv, Fits, Gone
<1> QED
  BY <1>1, <1>2 DEF Upload

LEMMA ArriveStored ==
    ASSUME Inv, FilesInv, NEW g \in Handlers, Arrive(g)
    PROVE  FilesInv'
<1> USE DEF Inv, RequestsInv, TablesInv
<1>1. ASSUME NEW o \in Objects, NEW step, Load(g, o, step) \/ LoadForEdit(g, o, step)
      PROVE  FilesInv'
  <2>1. /\ pc[g] = "idle" /\ UNCHANGED <<row, files, log>>
        /\ \A h \in Handlers \ {g} : pc'[h] = pc[h] /\ target'[h] = target[h]
    BY <1>1 DEF Load, LoadForEdit
  <2> QED
    BY <2>1, StoredKept DEF FilesInv
<1>2. ASSUME NEW o \in Objects, AddImage(g, o) PROVE FilesInv'
  <2>1. row'[o].pic \in files' /\ \A p \in Objects \ {o} : row'[p] = row[p]
    <3>1. \A p : WithPic(Blank(p), NewPicture).pic = NewPicture
      BY DEF WithPic, Blank
    <3> QED
      BY <1>2, <3>1 DEF AddImage
  <2> QED
    BY <1>2, <2>1, StoredKept DEF AddImage, FilesInv
<1> QED
  BY <1>1, <1>2 DEF Arrive, LoadForUpload, LoadForDelete, LoadForDestroy

(* The owner of every row is there: the database refuses what would break  *)
(* this, and a deletion takes what is below along.                         *)
OwnersInv ==
    \A o \in Objects : row[o].owner # None => Exists(row[o].owner)

LEMMA OwnersWrite ==
    ASSUME Inv, OwnersInv, NEW x \in Objects, NEW r \in Row, Accepts(r),
           row' = [row EXCEPT ![x] = r]
    PROVE  OwnersInv'
<1>1. r # Gone /\ row \in [Objects -> Row \cup {Gone}]
  BY GoneFits DEF Inv, TablesInv
<1>2. ASSUME NEW o \in Objects, row'[o].owner # None
      PROVE  row'[row'[o].owner] # Gone
  <2> DEFINE p == row'[o].owner
  <2>1. p \in Objects
    <3>1. r.owner \in Objects \cup {None}
      BY DEF Row
    <3>2. row[o].owner \in Objects \cup {None}
      BY <1>1 DEF Row, Gone
    <3> QED
      BY <1>1, <1>2, <3>1, <3>2
  <2>2. row[p] # Gone
    BY <1>1, <1>2 DEF OwnersInv, Accepts, Exists
  <2> HIDE DEF p
  <2>3. row'[p] # Gone
    BY <1>1, <2>1, <2>2
  <2> QED
    BY <2>3 DEF p
<1> QED
  BY <1>2 DEF OwnersInv, Exists

LEMMA InitOwners == Init => OwnersInv
<1> SUFFICES ASSUME Init, NEW o \in Objects, row[o].owner # None
             PROVE  Exists(row[o].owner)
  BY DEF OwnersInv
<1>1. PICK user \in [Suppliers -> Avatars], supplier \in [Products -> Suppliers] :
          row = [x \in Objects |->
                     CASE x \in Avatars   -> Blank(None)
                       [] x \in Suppliers -> Blank(user[x])
                       [] x \in Products  -> Blank(supplier[x])
                       [] OTHER          -> Gone]
  BY DEF Init
<1>2. \A p \in Avatars \cup Suppliers : row[p] \in {Blank(x) : x \in Objects \cup {None}}
  BY <1>1, ImagesAssumption DEF Objects, Pictured
<1>3. \A x \in Objects \cup {None} : Blank(x) # Gone
  BY ImagesAssumption DEF Blank, Gone, Sizes
<1>4. \A p \in Avatars \cup Suppliers : Exists(p)
  BY <1>2, <1>3 DEF Exists
<1>5. \A x : Blank(x).owner = x
  BY DEF Blank
<1>6. CASE o \in Avatars
  <2>1. row[o] = Blank(None)
    BY <1>1, <1>6, ImagesAssumption DEF Objects, Pictured
  <2> QED
    BY <1>5, <2>1
<1>7. CASE o \in Suppliers
  BY <1>1, <1>4, <1>5, <1>7, ImagesAssumption
<1>8. CASE o \in Products
  BY <1>1, <1>4, <1>5, <1>8, ImagesAssumption
<1>9. CASE o \in Extras
  BY <1>1, <1>9, ImagesAssumption DEF Gone
<1> QED
  BY <1>6, <1>7, <1>8, <1>9 DEF Objects, Pictured

LEMMA StepOwners == Inv /\ OwnersInv /\ [Next]_vars => OwnersInv'
<1> SUFFICES ASSUME Inv, OwnersInv, [Next]_vars PROVE OwnersInv'
  OBVIOUS
<1>1. CASE row' = row
  BY <1>1 DEF OwnersInv, Exists
<1>2. ASSUME NEW g \in Handlers, Arrive(g), row' # row PROVE OwnersInv'
  <2>1. PICK o \in Extras, p \in Products :
            /\ row' = [row EXCEPT ![o] = WithPic(Blank(p), NewPicture)]
            /\ Exists(p)
    BY <1>2 DEF Arrive, LoadForUpload, LoadForEdit, LoadForDelete, LoadForDestroy,
                Load, AddImage
  <2>2. /\ WithPic(Blank(p), NewPicture) \in Row
        /\ WithPic(Blank(p), NewPicture).owner = p
    <3>1. Blank(p) \in Row /\ Blank(p).owner = p
      BY DEF Blank, Row, Objects, Pictured
    <3>2. NewPicture \in Nat
      BY DEF NewPicture, Inv, TablesInv
    <3> QED
      BY <3>1, <3>2 DEF WithPic, Row
  <2> QED
    BY <2>1, <2>2, OwnersWrite DEF Accepts, Objects, Pictured
<1>3. ASSUME NEW g \in Handlers, Continue(g), row' # row PROVE OwnersInv'
  <2>1. /\ target[g] \in Objects /\ copy[g] \in Row
        /\ Fits(uploads, copy[g], target[g])
        /\ \A v \in Nat : /\ WithPic(copy[g], v) \in Row
                          /\ WithPic(copy[g], v).owner = copy[g].owner
    BY <1>3 DEF Continue, SaveUpload, QueueTask, SaveEdit, SaveReplace,
            DeletePicture, SaveDeleted, WipeThumb, FinishDelete, Destroy,
            Inv, RequestsInv, WithPic, Row
  <2>2. NewPicture \in Nat /\ copy[g].pic \in Nat
    BY <2>1 DEF NewPicture, Inv, TablesInv, Row
  <2>3. CASE SaveUpload(g) \/ SaveReplace(g)
    BY <2>1, <2>2, <2>3, OwnersWrite DEF SaveUpload, SaveReplace, StorePicture, Accepts
  <2>4. CASE SaveEdit(g)
    BY <2>1, <2>2, <2>4, OwnersWrite DEF SaveEdit, Accepts
  <2>5. CASE SaveDeleted(g)
    BY <2>1, <2>5, OwnersWrite DEF SaveDeleted
  <2>6. CASE WipeThumb(g)
    <3>1. PICK s \in Sizes :
              row' = [row EXCEPT ![target[g]] = WithThumb(copy[g], s, 0)]
      BY <2>6 DEF WipeThumb
    <3>2. /\ WithThumb(copy[g], s, 0) \in Row
          /\ WithThumb(copy[g], s, 0).owner = copy[g].owner
      BY <2>1 DEF WithThumb, Row
    <3>3. Accepts(copy[g])
      BY <2>6 DEF WipeThumb
    <3> QED
      BY <2>1, <3>1, <3>2, <3>3, OwnersWrite DEF Accepts
  <2>7. CASE FinishDelete(g)
    <3>1. CASE target[g] \in Extras
      <4>1. row' = [row EXCEPT ![target[g]] = Gone]
        BY <2>7, <3>1 DEF FinishDelete
      <4>2. ASSUME NEW o \in Objects, row'[o].owner # None
            PROVE  row'[row'[o].owner] # Gone
        <5>1. row'[o] = row[o] /\ row[o] \in Row
          BY <4>1, <4>2, GoneFits DEF Gone, Inv, TablesInv
        <5>2. row[o].owner \in Objects \ Extras
          BY <4>2, <5>1, ImagesAssumption
             DEF Inv, TablesInv, Fits, OwnersOf, Objects, Pictured
        <5>3. Exists(row[o].owner)
          BY <4>2, <5>1 DEF OwnersInv
        <5>4. row'[row[o].owner] = row[row[o].owner]
          BY <3>1, <4>1, <5>2 DEF Inv, TablesInv
        <5> QED
          BY <5>1, <5>3, <5>4 DEF Exists
      <4> QED
        BY <4>2 DEF OwnersInv, Exists
    <3>2. CASE target[g] \notin Extras
      <4>1. row' = [row EXCEPT ![target[g]] = copy[g]]
        BY <2>7, <3>2 DEF FinishDelete
      <4>2. Accepts(copy[g])
        BY <2>7, <3>2 DEF FinishDelete
      <4> QED
        BY <2>1, <4>1, <4>2, OwnersWrite
    <3> QED
      BY <3>1, <3>2
  <2>8. CASE Destroy(g)
    <3>1. row' = [o \in Objects |-> IF target[g] \in Chain(o) THEN Gone ELSE row[o]]
      BY <2>8 DEF Destroy, Below
    <3>2. ASSUME NEW o \in Objects, row'[o].owner # None
          PROVE  row'[row'[o].owner] # Gone
      <4>1. row'[o] = row[o] /\ target[g] \notin Chain(o)
        BY <3>1, <3>2 DEF Gone
      <4>2. Exists(row[o].owner) /\ row[o].owner \in Chain(o)
        BY <3>2, <4>1 DEF OwnersInv, Chain, Owner
      <4>3. row[o].owner \in Objects /\ target[g] \notin Chain(row[o].owner)
        BY <4>1, <4>2, ChainKind, ChainUpwards DEF Inv
      <4> QED
        BY <3>1, <4>1, <4>2, <4>3 DEF Exists
    <3> QED
      BY <3>2 DEF OwnersInv, Exists
  <2>9. CASE QueueTask(g) \/ DeletePicture(g)
    BY <1>3, <2>9 DEF QueueTask, DeletePicture
  <2> QED
    BY <1>3, <2>3, <2>4, <2>5, <2>6, <2>7, <2>8, <2>9 DEF Continue
<1>4. ASSUME NEW w \in Workers, Work(w), row' # row PROVE OwnersInv'
  <2>1. SaveThumbs(w)
    BY <1>4 DEF Work, TakeTask, MakeThumb, SkipThumb, RetryTask, LoseTask, KillWorker
  <2>2. job[w].object \in Objects /\ loaded[w] \in Row
    BY <2>1 DEF SaveThumbs, Inv, TasksInv, Task
  <2> QED
    BY <2>1, <2>2, OwnersWrite DEF SaveThumbs
<1> QED
  BY <1>1, <1>2, <1>3, <1>4 DEF Next, HandlerFails, vars

LEMMA ContinueStored ==
    ASSUME Inv, CurrentInv, FilesInv, NEW g \in Handlers, Continue(g)
    PROVE  FilesInv'
<1>1. /\ pc[g] # "idle" /\ target[g] \in Objects /\ copy[g] \in Row
      /\ row \in [Objects -> Row \cup {Gone}] /\ log' = log
  BY DEF Continue, SaveUpload, QueueTask, SaveEdit, SaveReplace, DeletePicture,
         SaveDeleted, WipeThumb, FinishDelete, Destroy, Inv, RequestsInv, TablesInv
<1>2. \A h \in Handlers \ {g} : pc'[h] = pc[h] /\ target'[h] = target[h]
  BY <1>1 DEF Continue, SaveUpload, QueueTask, SaveEdit, SaveReplace, DeletePicture,
         SaveDeleted, WipeThumb, FinishDelete, Destroy, Answer, Inv, RequestsInv
<1>3. ASSUME NEW o \in Objects, o # target[g]
      PROVE  \/ row'[o].pic = 0
             \/ /\ row'[o].pic = row[o].pic
                /\ row[o].pic \in files => row[o].pic \in files'
  <2>1. CASE Destroy(g)
    <3>1. /\ row' = [x \in Objects |-> IF x \in Below(target[g]) THEN Gone ELSE row[x]]
          /\ files' = files \ ({copy[g].pic} \cup
                               {row[x].pic : x \in Below(target[g]) \ {target[g]}})
      BY <2>1 DEF Destroy
    <3>2. CASE o \in Below(target[g])
      BY <3>1, <3>2 DEF Gone
    <3>3. CASE o \notin Below(target[g]) /\ row[o].pic # 0
      <4>1. row[o].pic # copy[g].pic
        BY <1>1, <1>3, <3>3, OthersPicture
      <4>2. ASSUME NEW x \in Below(target[g]) PROVE row[x].pic # row[o].pic
        <5>1. x \in Objects /\ x # o
          BY <3>3 DEF Below
        <5>2. row[o] \in Row /\ Upload(uploads, row[o].pic, o)
          BY <3>3 DEF Inv, TablesInv, Fits, Gone
        <5>3. row[x] = Gone \/ Upload(uploads, row[x].pic, x)
          BY <5>1 DEF Inv, TablesInv, Fits
        <5> QED
          BY <3>3, <5>1, <5>2, <5>3 DEF Upload, Gone
      <4> QED
        BY <3>1, <3>3, <4>1, <4>2
    <3> QED
      BY <3>1, <3>2, <3>3
  <2>2. CASE ~Destroy(g)
    <3>1. /\ \A x \in Objects \ {target[g]} : row'[x] = row[x]
          /\ files \ {copy[g].pic} \subseteq files'
      BY <1>1, <2>2 DEF Continue, SaveUpload, QueueTask, SaveEdit, SaveReplace,
             StorePicture, DeletePicture, SaveDeleted, WipeThumb, FinishDelete, Cleanup
    <3> QED
      BY <1>1, <1>3, <3>1, OthersPicture
  <2> QED
    BY <2>1, <2>2
<1> DEFINE Own == \/ row'[target[g]].pic = 0
                  \/ row'[target[g]].pic \in files'
                  \/ pc'[g] = "deleted" /\ target'[g] = target[g]
                  \/ /\ row'[target[g]].pic = row[target[g]].pic
                     /\ files' = files /\ pc[g] # "deleted"
<1>4. ASSUME SaveUpload(g) \/ SaveReplace(g) PROVE Own
  <2>1. row'[target[g]].pic = NewPicture
    BY <1>1, <1>4 DEF SaveUpload, SaveReplace, StorePicture, WithPic, Row
  <2>2. NewPicture \in files'
    BY <1>4 DEF SaveUpload, SaveReplace, StorePicture, Cleanup
  <2> QED
    BY <2>1, <2>2
<1>5. ASSUME QueueTask(g) PROVE Own
  BY <1>5 DEF QueueTask
<1>6. ASSUME SaveEdit(g) PROVE Own
  <2>1. CASE pc[g] = "clear"
    BY <1>1, <1>6, <2>1 DEF SaveEdit, WithPic, Row
  <2>2. CASE pc[g] = "edit"
    <3>1. row'[target[g]] = copy[g] /\ files' = files
      BY <1>1, <1>6, <2>2, SamePicture DEF SaveEdit, Cleanup
    <3> QED
      BY <2>2, <3>1 DEF CurrentInv, Current, Steps
  <2> QED
    BY <1>6, <2>1, <2>2 DEF SaveEdit
<1>7. ASSUME DeletePicture(g) PROVE Own
  BY <1>7 DEF DeletePicture, Inv, RequestsInv
<1>8. ASSUME SaveDeleted(g) PROVE Own
  BY <1>1, <1>8 DEF SaveDeleted, CurrentInv, Current
<1>9. ASSUME WipeThumb(g) PROVE Own
  <2>1. copy[g].pic = row[target[g]].pic
    BY <1>9 DEF WipeThumb, CurrentInv, Current, Steps
  <2>2. PICK s \in Sizes : row'[target[g]] = WithThumb(copy[g], s, 0)
    BY <1>1, <1>9 DEF WipeThumb
  <2>3. row'[target[g]].pic = copy[g].pic
    BY <1>1, <2>2 DEF WithThumb, Row
  <2> QED
    BY <1>9, <2>1, <2>3 DEF WipeThumb
<1>10. ASSUME FinishDelete(g) PROVE Own
  <2>1. copy[g].pic = row[target[g]].pic
    BY <1>10 DEF FinishDelete, CurrentInv, Current, Steps
  <2>2. row'[target[g]] \in {Gone, copy[g]}
    BY <1>1, <1>10 DEF FinishDelete
  <2> QED
    BY <1>10, <2>1, <2>2 DEF FinishDelete, Gone
<1>11. ASSUME Destroy(g) PROVE Own
  <2>1. target[g] \in Below(target[g])
    BY <1>1, ChainKind DEF Below, Inv
  <2> QED
    BY <1>1, <1>11, <2>1 DEF Destroy, Gone
<1>12. Own
  BY <1>4, <1>5, <1>6, <1>7, <1>8, <1>9, <1>10, <1>11 DEF Continue
<1>13. PicturesStored'
  BY <1>2, <1>3, <1>12, StoredKept DEF FilesInv
<1> QED
  BY <1>1, <1>13 DEF FilesInv

(* Nothing is refused that would leave a row with a removed picture.       *)
LEMMA FailsStored ==
    ASSUME Inv, CurrentInv, OwnersInv, FilesInv, "error" \notin Failures,
           NEW g \in Handlers, HandlerFails(g)
    PROVE  FilesInv'
<1>1. /\ row' = row /\ files \subseteq files' /\ log' = log /\ Refused(g)
      /\ \A h \in Handlers \ {g} : pc'[h] = pc[h] /\ target'[h] = target[h]
  BY DEF HandlerFails, Answer, Inv, RequestsInv
<1>2. pc[g] # "deleted"
  <2>1. target[g] \in Objects \/ pc[g] # "deleted"
    BY DEF Inv, RequestsInv
  <2>2. pc[g] = "deleted" => copy[g].owner = row[target[g]].owner
    BY DEF CurrentInv, Current
  <2> QED
    BY <1>1, <2>1, <2>2 DEF Refused, Accepts, OwnersInv
<1> QED
  BY <1>1, <1>2, StoredKept DEF FilesInv

LEMMA WorkStored ==
    ASSUME Inv, CurrentInv, OwnersInv, OneAtATime, FilesInv, "error" \notin Failures,
           NEW w \in Workers, Work(w)
    PROVE  FilesInv'
<1> USE DEF Inv, TasksInv, TablesInv
<1>1. UNCHANGED <<files, request>>
  BY DEF Work, TakeTask, MakeThumb, SkipThumb, SaveThumbs, RetryTask, LoseTask,
         KillWorker
<1>2. \A o \in Objects : row'[o].pic = row[o].pic
  BY DEF Work, TakeTask, MakeThumb, SkipThumb, SaveThumbs, RetryTask, LoseTask,
         KillWorker, CurrentInv, CurrentTask
<1>3. ASSUME job[w] # NoTask PROVE CanRead(w) /\ Accepts(loaded[w])
  <2>1. /\ job[w].object \in Objects /\ loaded[w].pic # 0
        /\ loaded[w].pic = row[job[w].object].pic
        /\ loaded[w].owner = row[job[w].object].owner
    BY <1>3 DEF CurrentInv, CurrentTask, Task
  <2>2. \A h \in Handlers : target[h] # job[w].object
    BY <2>1, ImagesAssumption DEF OneAtATime
  <2>3. CanRead(w)
    BY <2>1, <2>2 DEF FilesInv, PicturesStored, CanRead
  <2>4. Accepts(loaded[w])
    BY <2>1 DEF OwnersInv, Accepts
  <2> QED
    BY <2>3, <2>4
<1>4. log' = log
  BY <1>3 DEF Work, TakeTask, MakeThumb, SkipThumb, SaveThumbs, RetryTask, LoseTask,
         TaskFails, KillWorker
<1> QED
  BY <1>1, <1>2, <1>4 DEF FilesInv, PicturesStored, request

(* Where, besides, no storage, database or broker error happens, every     *)
(* picture a user, a product or an additional image shows is in the        *)
(* storage, whatever is uploaded, replaced, cleared, deleted and           *)
(* destroyed, what is below included; every task finds the file it is to   *)
(* read, no save of a task is refused, and none logs an error.             *)
THEOREM LoneTaskStored ==
    ASSUME "error" \notin Failures
    PROVE  Spec /\ []OneAtATime => [](PicturesStored /\ log = {})
<1>1. Init => FilesInv
  <2>1. \A p : Blank(p).pic = 0
    BY DEF Blank
  <2> QED
    BY <2>1 DEF Init, FilesInv, PicturesStored, Gone
<1>2. ASSUME Inv, CurrentInv, OwnersInv, OneAtATime, FilesInv, [Next]_vars
      PROVE  FilesInv'
  <2> USE <1>2
  <2>1. CASE UNCHANGED vars
    BY <2>1 DEF vars, FilesInv, PicturesStored
  <2> QED
    BY <2>1, ArriveStored, ContinueStored, FailsStored, WorkStored DEF Next
<1>3. Spec /\ []OneAtATime => [](Inv /\ CurrentInv /\ OwnersInv /\ FilesInv)
  BY <1>1, <1>2, InitInv, StepInv, InitCurrent, StepCurrent, InitOwners, StepOwners,
     PTL DEF Spec
<1>4. FilesInv => PicturesStored /\ log = {}
  BY DEF FilesInv
<1> QED
  BY <1>3, <1>4, PTL
=============================================================================
