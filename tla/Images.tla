------------------------------- MODULE Images -------------------------------
(***************************************************************************)
(* Pictures and their thumbnails: upload_avatar, delete_avatar,            *)
(* upload_image, add_additional_image, remove_additional_image, the        *)
(* generic update and destroy of users, suppliers and products, the forms  *)
(* of the admin site, the three Celery tasks that make thumbnails, and     *)
(* django-cleanup, which removes the files a saved instance no longer      *)
(* names.                                                                  *)
(*                                                                         *)
(* An action is one statement on the database with the file operations     *)
(* beside it.  Model.save() writes every column of the loaded copy, the    *)
(* names of picture and thumbnails among them, and inserts the row when it *)
(* is gone.                                                                *)
(*                                                                         *)
(* A picture is the number of its upload, 0 for none, and a thumbnail is   *)
(* the picture it shows, or Sent when a form has brought it.  Files have   *)
(* names of their own; those of the thumbnails are not tracked.            *)
(*                                                                         *)
(* A row goes with its owner, by cascade: a supplier with the user, a      *)
(* product with the supplier, an additional image with the product.        *)
(***************************************************************************)
EXTENDS Naturals, Sequences, FiniteSets

CONSTANTS
    Avatars,     \* users, for their avatar
    Suppliers,   \* supplier profiles, which have no picture
    Products,    \* products, for their main image
    Extras,      \* primary keys of additional images, each created once
    Handlers,    \* concurrent requests
    Workers,     \* Celery worker processes
    Last,        \* number of thumbnail sizes
    Sent,        \* a thumbnail that no task has made
    MaxRetries,  \* max_retries of the tasks
    MaxUploads,  \* bound: pictures sent in this instance
    Uploaded,    \* bounds: the objects whose pictures are sent and deleted
    Emptied,     \*   by the operations for them,
    Edited,      \*   those that forms are about,
    Destroyed,   \*   and those that are deleted in this instance
    Failures     \* of {"error", "kill"}, what happens in this instance

Pictured == Avatars \cup Products \cup Extras
Objects == Pictured \cup Suppliers
Sizes == 1 .. Last
None == "none"

ASSUME ImagesAssumption ==
    /\ Last \in Nat \ {0}
    /\ MaxRetries \in Nat
    /\ MaxUploads \in Nat
    /\ Sent \notin Nat
    /\ None \notin Objects
    /\ Avatars \cap (Suppliers \cup Products \cup Extras) = {}
    /\ Suppliers \cap (Products \cup Extras) = {}
    /\ Products \cap Extras = {}

(* The foreign key of a row of each table. *)
OwnersOf(o) ==
    CASE o \in Suppliers -> Avatars
      [] o \in Products  -> Suppliers
      [] o \in Extras    -> Products
      [] OTHER           -> {None}

Row == [pic : Nat, thumbs : [Sizes -> Nat \cup {Sent}], owner : Objects \cup {None}]
Blank(p) == [pic |-> 0, thumbs |-> [s \in Sizes |-> 0], owner |-> p]
Gone == [pic |-> 0, thumbs |-> <<>>, owner |-> None]
Task == [object : Objects, id : Nat, retries : 0 .. MaxRetries]
NoTask == [object |-> None, id |-> 0, retries |-> 0]

VARIABLES
    row,      \* the tables users, suppliers, products and product_images
    files,    \* pictures in the storage
    broker,   \* tasks queued in Redis
    uploads,  \* history: the object of every picture sent
    log,      \* history: the pictures whose task has logged an error
    killed,   \* history: the pictures whose task ended with its worker
    pc,       \* the next statement of each handler
    target,   \* the object a handler works on
    copy,     \* the instance a handler has loaded
    job,      \* the task a worker runs
    loaded,   \* the instance it has loaded
    next,     \* the size it makes next
    opened    \* it has the file of the picture open

request == <<pc, target, copy>>
work == <<job, loaded, next, opened>>
vars == <<row, files, broker, uploads, log, killed, pc, target, copy, job, loaded,
          next, opened>>

Init ==
    /\ \E user \in [Suppliers -> Avatars], supplier \in [Products -> Suppliers] :
           /\ \A s, t \in Suppliers : user[s] = user[t] => s = t
           /\ row = [o \in Objects |->
                      CASE o \in Avatars   -> Blank(None)
                        [] o \in Suppliers -> Blank(user[o])
                        [] o \in Products  -> Blank(supplier[o])
                        [] OTHER          -> Gone]
    /\ files = {}
    /\ broker = {}
    /\ uploads = <<>>
    /\ log = {}
    /\ killed = {}
    /\ pc = [h \in Handlers |-> "idle"]
    /\ target = [h \in Handlers |-> None]
    /\ copy = [h \in Handlers |-> Gone]
    /\ job = [w \in Workers |-> NoTask]
    /\ loaded = [w \in Workers |-> Gone]
    /\ next = [w \in Workers |-> 1]
    /\ opened = [w \in Workers |-> FALSE]

-----------------------------------------------------------------------------
(* Helpers *)

Exists(o) == row[o] # Gone
NewPicture == Len(uploads) + 1
WithPic(r, v) == [r EXCEPT !.pic = v]
WithThumb(r, s, v) == [r EXCEPT !.thumbs[s] = v]

(* o and what it is deleted with, upwards. *)
Owner(x) == IF x \in Objects THEN row[x].owner ELSE None
Chain(o) ==
    {o, Owner(o), Owner(Owner(o)), Owner(Owner(Owner(o)))} \ {None}

(* The foreign key of a saved row names a row. *)
Accepts(r) == r.owner # None => Exists(r.owner)

(* Variant: the name is not compared. *)
CleanupAlways(o, old, new) == IF Exists(o) THEN {old} ELSE {}

(* django-cleanup after save(): the file the instance was loaded with goes *)
(* when the instance names another one now; not when save() has inserted.  *)
Cleanup(o, old, new) == IF Exists(o) /\ old # new THEN {old} ELSE {}

Answer(h) ==
    /\ pc' = [pc EXCEPT ![h] = "idle"]
    /\ target' = [target EXCEPT ![h] = None]
    /\ copy' = [copy EXCEPT ![h] = Gone]

(* get_object() *)
Load(h, o, step) ==
    /\ pc[h] = "idle"
    /\ Exists(o)
    /\ pc' = [pc EXCEPT ![h] = step]
    /\ target' = [target EXCEPT ![h] = o]
    /\ copy' = [copy EXCEPT ![h] = row[o]]
    /\ UNCHANGED <<row, files, broker, uploads, log, killed, work>>

(* instance.avatar = file; instance.save(): the file is stored, the row    *)
(* written, the replaced file removed.                                     *)
StorePicture(h) ==
    LET o == target[h]
    IN  /\ Len(uploads) < MaxUploads
        /\ Accepts(copy[h])
        /\ row' = [row EXCEPT ![o] = WithPic(copy[h], NewPicture)]
        /\ files' = (files \cup {NewPicture})
                        \ Cleanup(o, copy[h].pic, NewPicture)
        /\ uploads' = Append(uploads, o)

-----------------------------------------------------------------------------
(* PATCH upload_avatar, PATCH upload_image *)

LoadForUpload(h, o) ==
    /\ o \in Uploaded
    /\ o \in Avatars \cup Products
    /\ Load(h, o, "upload")

SaveUpload(h) ==
    /\ pc[h] = "upload"
    /\ StorePicture(h)
    /\ copy' = [copy EXCEPT ![h] = WithPic(copy[h], NewPicture)]
    /\ pc' = [pc EXCEPT ![h] = "queue"]
    /\ UNCHANGED <<broker, log, killed, target, work>>

(* POST add_additional_image: ProductImage.objects.create() *)
AddImage(h, o) ==
    /\ pc[h] = "idle"
    /\ o \in Extras
    /\ \A n \in DOMAIN uploads : uploads[n] # o
    /\ Len(uploads) < MaxUploads
    /\ \E p \in Products :
           LET r == WithPic(Blank(p), NewPicture)
           IN  /\ Exists(p)
               /\ row' = [row EXCEPT ![o] = r]
               /\ copy' = [copy EXCEPT ![h] = r]
    /\ files' = files \cup {NewPicture}
    /\ uploads' = Append(uploads, o)
    /\ pc' = [pc EXCEPT ![h] = "queue"]
    /\ target' = [target EXCEPT ![h] = o]
    /\ UNCHANGED <<broker, log, killed, work>>

(* process_*.delay(id), and the answer *)
QueueTask(h) ==
    /\ pc[h] = "queue"
    /\ broker' = broker \cup
           {[object |-> target[h], id |-> copy[h].pic, retries |-> 0]}
    /\ Answer(h)
    /\ UNCHANGED <<row, files, uploads, log, killed, work>>

-----------------------------------------------------------------------------
(* PUT and PATCH of a user, a supplier or a product, and the admin forms.  *)
(* A picture that is sent here is never processed, and may be emptied, but *)
(* for an additional image.  The thumbnails of products and additional     *)
(* images are fields like others, and so is what the row belongs to.       *)

HasFields(o) == o \in Products \cup Extras

(* In a form of the row r of o every thumbnail is kept, emptied or sent,   *)
FormThumbs(o, r) ==
    IF HasFields(o)
    THEN {t \in [Sizes -> {0, Sent} \cup {r.thumbs[s] : s \in Sizes}] :
             \A s \in Sizes : t[s] \in {0, Sent, r.thumbs[s]}}
    ELSE {r.thumbs}

(* and the owner is kept or any other.                                     *)
FormOwners(o, r) ==
    {r.owner} \cup {p \in OwnersOf(o) : HasFields(o) /\ Exists(p)}

LoadForEdit(h, o, step) ==
    /\ o \in Edited
    /\ pc[h] = "idle"
    /\ Exists(o)
    /\ \/ step = "edit"
       \/ step = "replace" /\ o \in Pictured
       \/ step = "clear" /\ o \in Avatars \cup Products
    /\ pc' = [pc EXCEPT ![h] = step]
    /\ target' = [target EXCEPT ![h] = o]
    /\ \E t \in FormThumbs(o, row[o]), p \in FormOwners(o, row[o]) :
           copy' = [copy EXCEPT ![h] =
                        [row[o] EXCEPT !.thumbs = t, !.owner = p]]
    /\ UNCHANGED <<row, files, broker, uploads, log, killed, work>>

SaveEdit(h) ==
    LET old == copy[h].pic
        pic == IF pc[h] = "clear" THEN 0 ELSE old
    IN  /\ pc[h] \in {"edit", "clear"}
        /\ Accepts(copy[h])
        /\ row' = [row EXCEPT ![target[h]] = WithPic(copy[h], pic)]
        /\ files' = files \ Cleanup(target[h], old, pic)
        /\ Answer(h)
        /\ UNCHANGED <<broker, uploads, log, killed, work>>

SaveReplace(h) ==
    /\ pc[h] = "replace"
    /\ StorePicture(h)
    /\ Answer(h)
    /\ UNCHANGED <<broker, log, killed, work>>

-----------------------------------------------------------------------------
(* DELETE delete_avatar and remove_additional_image.  Each FieldFile       *)
(* .delete() removes the file, sets the field to None and saves the        *)
(* instance; of an empty field it does nothing.                            *)

LoadForDelete(h, o) ==
    /\ o \in Emptied
    /\ \/ o \in Avatars /\ row[o].pic # 0
       \/ o \in Extras
    /\ Load(h, o, IF row[o].pic # 0 THEN "delete" ELSE "wipe")

DeletePicture(h) ==
    /\ pc[h] = "delete"
    /\ files' = files \ {copy[h].pic}
    /\ copy' = [copy EXCEPT ![h] = WithPic(copy[h], 0)]
    /\ pc' = [pc EXCEPT ![h] = "deleted"]
    /\ UNCHANGED <<row, broker, uploads, log, killed, target, work>>

SaveDeleted(h) ==
    /\ pc[h] = "deleted"
    /\ Accepts(copy[h])
    /\ row' = [row EXCEPT ![target[h]] = copy[h]]
    /\ pc' = [pc EXCEPT ![h] = "wipe"]
    /\ UNCHANGED <<files, broker, uploads, log, killed, target, copy, work>>

(* The thumbnails follow one by one, in the order of their sizes. *)
WipeThumb(h) ==
    \E s \in Sizes :
        LET r == WithThumb(copy[h], s, 0)
        IN  /\ pc[h] = "wipe"
            /\ copy[h].thumbs[s] # 0
            /\ Accepts(copy[h])
            /\ \A b \in 1 .. (s - 1) : copy[h].thumbs[b] = 0
            /\ row' = [row EXCEPT ![target[h]] = r]
            /\ copy' = [copy EXCEPT ![h] = r]
            /\ UNCHANGED <<files, broker, uploads, log, killed, pc, target, work>>

(* user.save(), or image_obj.delete() *)
FinishDelete(h) ==
    /\ pc[h] = "wipe"
    /\ \A s \in Sizes : copy[h].thumbs[s] = 0
    /\ target[h] \notin Extras => Accepts(copy[h])
    /\ row' = [row EXCEPT ![target[h]] =
                   IF target[h] \in Extras THEN Gone ELSE copy[h]]
    /\ Answer(h)
    /\ UNCHANGED <<files, broker, uploads, log, killed, work>>

-----------------------------------------------------------------------------
(* DELETE of a user, a supplier or a product, and deletions on the admin   *)
(* site: the object goes with everything below it in one transaction;      *)
(* django-cleanup removes the files the deleted instances name, the one of *)
(* the object as it was loaded.                                            *)

LoadForDestroy(h, o) ==
    /\ o \in Destroyed
    /\ Load(h, o, "destroy")

Below(x) == {o \in Objects : x \in Chain(o)}

Destroy(h) ==
    LET below == Below(target[h])
    IN  /\ pc[h] = "destroy"
        /\ row' = [o \in Objects |-> IF o \in below THEN Gone ELSE row[o]]
        /\ files' = files \ ({copy[h].pic} \cup
                              {row[o].pic : o \in below \ {target[h]}})
        /\ Answer(h)
        /\ UNCHANGED <<broker, uploads, log, killed, work>>

-----------------------------------------------------------------------------
(* The database refuses to save a row whose owner is gone, and may refuse  *)
(* to delete one an order names.                                           *)
Refused(h) ==
    \/ pc[h] = "destroy"
    \/ /\ pc[h] \in {"upload", "edit", "replace", "clear", "deleted", "wipe"}
       /\ ~Accepts(copy[h])

(* A refusal, a database or broker error, or a killed server process.  The *)
(* file of a picture that is sent is stored before the row.                *)
HandlerFails(h) ==
    /\ pc[h] # "idle"
    /\ "error" \in Failures \/ Refused(h)
    /\ \/ UNCHANGED <<files, uploads>>
       \/ /\ pc[h] \in {"upload", "replace"}
          /\ Len(uploads) < MaxUploads
          /\ files' = files \cup {NewPicture}
          /\ uploads' = Append(uploads, target[h])
    /\ Answer(h)
    /\ UNCHANGED <<row, broker, log, killed, work>>

-----------------------------------------------------------------------------
(* Celery workers *)

Idle(w) ==
    /\ job' = [job EXCEPT ![w] = NoTask]
    /\ loaded' = [loaded EXCEPT ![w] = Gone]
    /\ next' = [next EXCEPT ![w] = 1]
    /\ opened' = [opened EXCEPT ![w] = FALSE]

(* Variant: an object that has thumbnails is left alone. *)
TakeTaskOnce(w) ==
    \E t \in broker :
        /\ job[w] = NoTask
        /\ broker' = broker \ {t}
        /\ IF row[t.object].pic # 0 /\ row[t.object].thumbs[1] = 0
           THEN /\ job' = [job EXCEPT ![w] = t]
                /\ loaded' = [loaded EXCEPT ![w] = row[t.object]]
                /\ UNCHANGED <<next, opened>>
           ELSE UNCHANGED work
        /\ UNCHANGED <<row, files, uploads, log, killed, request>>

(* objects.get(id): a task whose object is gone, or has no picture, ends.  *)
TakeTask(w) ==
    \E t \in broker :
        /\ job[w] = NoTask
        /\ broker' = broker \ {t}
        /\ IF Exists(t.object) /\ row[t.object].pic # 0
           THEN /\ job' = [job EXCEPT ![w] = t]
                /\ loaded' = [loaded EXCEPT ![w] = row[t.object]]
                /\ UNCHANGED <<next, opened>>
           ELSE UNCHANGED work
        /\ UNCHANGED <<row, files, uploads, log, killed, request>>

(* create_thumbnail(): the file is opened by the name that was loaded, and *)
(* stays open for the next sizes, also when it is removed meanwhile.       *)
CanRead(w) == opened[w] \/ loaded[w].pic \in files

MakeThumb(w) ==
    /\ job[w] # NoTask
    /\ next[w] \in Sizes
    /\ CanRead(w)
    /\ loaded' = [loaded EXCEPT ![w] =
                      WithThumb(loaded[w], next[w], loaded[w].pic)]
    /\ next' = [next EXCEPT ![w] = next[w] + 1]
    /\ opened' = [opened EXCEPT ![w] = TRUE]
    /\ UNCHANGED <<row, files, broker, uploads, log, killed, job, request>>

(* The file is missing or no picture: None, and the size is skipped. *)
SkipThumb(w) ==
    /\ job[w] # NoTask
    /\ next[w] \in Sizes
    /\ ~CanRead(w) \/ "error" \in Failures
    /\ log' = log \cup {loaded[w].pic}
    /\ next' = [next EXCEPT ![w] = next[w] + 1]
    /\ opened' = [opened EXCEPT ![w] = CanRead(w)]
    /\ UNCHANGED <<row, files, broker, uploads, killed, job, loaded, request>>

(* Variant: save(update_fields = [the thumbnails]). *)
SaveThumbsOnly(w) ==
    /\ job[w] # NoTask
    /\ next[w] = Last + 1
    /\ row' = IF Exists(job[w].object)
              THEN [row EXCEPT ![job[w].object].thumbs = loaded[w].thumbs]
              ELSE row
    /\ Idle(w)
    /\ UNCHANGED <<files, broker, uploads, log, killed, request>>

(* save(), which writes the picture too *)
SaveThumbs(w) ==
    /\ job[w] # NoTask
    /\ next[w] = Last + 1
    /\ Accepts(loaded[w])
    /\ row' = [row EXCEPT ![job[w].object] = loaded[w]]
    /\ Idle(w)
    /\ UNCHANGED <<files, broker, uploads, log, killed, request>>

(* An error of the storage or of the database, or a save that is refused.  *)
TaskFails(w) ==
    /\ job[w] # NoTask
    /\ \/ "error" \in Failures
       \/ next[w] = Last + 1 /\ ~Accepts(loaded[w])

(* Variants: the countdown of the tries is lost, or off by one. *)
RetryForever(w) ==
    /\ TaskFails(w)
    /\ broker' = broker \cup {job[w]}
    /\ log' = log \cup {loaded[w].pic}
    /\ Idle(w)
    /\ UNCHANGED <<row, files, uploads, killed, request>>
RetryOnceMore(w) ==
    /\ TaskFails(w)
    /\ job[w].retries <= MaxRetries
    /\ broker' = broker \cup {[job[w] EXCEPT !.retries = @ + 1]}
    /\ log' = log \cup {loaded[w].pic}
    /\ Idle(w)
    /\ UNCHANGED <<row, files, uploads, killed, request>>

(* self.retry() queues the task again and raises Retry, which the task     *)
(* catches itself, so that it reports that all attempts are used up.       *)
RetryTask(w) ==
    /\ TaskFails(w)
    /\ job[w].retries < MaxRetries
    /\ broker' = broker \cup {[job[w] EXCEPT !.retries = @ + 1]}
    /\ log' = log \cup {loaded[w].pic}
    /\ Idle(w)
    /\ UNCHANGED <<row, files, uploads, killed, request>>

(* The last attempt fails, or the broker does not take the next one; the   *)
(* task logs this too.                                                     *)
LoseTask(w) ==
    /\ TaskFails(w)
    /\ log' = log \cup {loaded[w].pic}
    /\ Idle(w)
    /\ UNCHANGED <<row, files, broker, uploads, killed, request>>

(* The worker is killed and started again: the task was acknowledged when  *)
(* it was taken, and nothing is logged.                                    *)
KillWorker(w) ==
    /\ "kill" \in Failures
    /\ job[w] # NoTask
    /\ killed' = killed \cup {loaded[w].pic}
    /\ Idle(w)
    /\ UNCHANGED <<row, files, broker, uploads, log, request>>

-----------------------------------------------------------------------------
Arrive(h) ==
    \E o \in Objects :
        \/ LoadForUpload(h, o)
        \/ AddImage(h, o)
        \/ \E step \in {"edit", "replace", "clear"} : LoadForEdit(h, o, step)
        \/ LoadForDelete(h, o)
        \/ LoadForDestroy(h, o)

Continue(h) ==
    \/ SaveUpload(h) \/ QueueTask(h) \/ SaveEdit(h) \/ SaveReplace(h)
    \/ DeletePicture(h) \/ SaveDeleted(h) \/ WipeThumb(h) \/ FinishDelete(h)
    \/ Destroy(h)

Work(w) ==
    \/ TakeTask(w) \/ MakeThumb(w) \/ SkipThumb(w) \/ SaveThumbs(w)
    \/ RetryTask(w) \/ LoseTask(w) \/ KillWorker(w)

Next ==
    \/ \E h \in Handlers : Arrive(h) \/ Continue(h) \/ HandlerFails(h)
    \/ \E w \in Workers : Work(w)

Spec == Init /\ [][Next]_vars

(* The workers run, and are started again when they are killed; nothing is *)
(* asked of clients or of the server.  Which task is taken, and whether a  *)
(* step fails, is left open.                                               *)
FairSpec == Spec /\ \A w \in Workers : WF_vars(Work(w))

-----------------------------------------------------------------------------
(* Properties *)

Steps == {"upload", "queue", "edit", "replace", "clear", "delete", "deleted",
          "wipe", "destroy"}

(* Every variable has a value of its table, queue, request or task; in     *)
(* particular a task runs MaxRetries + 1 times at most.                    *)
TypeOK ==
    /\ row \in [Objects -> Row \cup {Gone}]
    /\ \A o \in Objects : Exists(o) => row[o].owner \in OwnersOf(o)
    /\ files \subseteq DOMAIN uploads
    /\ broker \subseteq Task
    /\ uploads \in Seq(Objects)
    /\ log \subseteq DOMAIN uploads
    /\ killed \subseteq DOMAIN uploads
    /\ pc \in [Handlers -> Steps \cup {"idle"}]
    /\ target \in [Handlers -> Objects \cup {None}]
    /\ copy \in [Handlers -> Row \cup {Gone}]
    /\ job \in [Workers -> Task \cup {NoTask}]
    /\ loaded \in [Workers -> Row \cup {Gone}]
    /\ next \in [Workers -> 1 .. Last + 1]
    /\ opened \in [Workers -> BOOLEAN]

(* The thumbnails that tasks have made for r show its picture or an        *)
(* earlier one of its object, and the others belong to an object whose     *)
(* form has a field for them.                                              *)
Follows(r, o) ==
    \A s \in DOMAIN r.thumbs :
        /\ r.thumbs[s] = Sent => HasFields(o)
        /\ r.thumbs[s] \notin {0, Sent} /\ r.pic # 0 =>
               /\ r.thumbs[s] <= r.pic
               /\ uploads[r.thumbs[s]] = o

(* No user, product or additional image shows a picture with thumbnails    *)
(* that a task has made of a later picture or of another object, although  *)
(* requests and tasks write back all columns of copies they loaded before. *)
(* A thumbnail no task has made is one that a form of the product or the   *)
(* additional image has sent; users have none.                             *)
ThumbsNeverNewer == \A o \in Objects : Follows(row[o], o)

(* What requests and tasks are about to save of p, which o is deleted      *)
(* with, leaves it where it is, and no deletion of p is under way.         *)
Stands(p) ==
    /\ \A h \in Handlers :
           target[h] = p => /\ pc[h] # "destroy"
                            /\ pc[h] = "queue" \/ copy[h].owner = row[p].owner
    /\ \A w \in Workers : job[w].object = p => loaded[w].owner = row[p].owner

(* The picture of o is in the storage, whoever is about to save o has      *)
(* loaded it with this picture and leaves it alone, and o and what it is   *)
(* deleted with stand.                                                     *)
PictureSettled(o) ==
    /\ Exists(o)
    /\ row[o].pic \in files
    /\ \A h \in Handlers :
           target[h] = o => \/ pc[h] = "queue"
                            \/ pc[h] = "edit" /\ copy[h].pic = row[o].pic
    /\ \A w \in Workers : job[w].object = o => loaded[w].pic = row[o].pic
    /\ \A p \in Chain(o) : Stands(p)

Begins(o) == \E h \in Handlers : pc[h] = "idle" /\ target'[h] \in Chain(o)

(* A settled picture and its file stay until a request begins for the      *)
(* object or for something it is deleted with, its product, supplier or    *)
(* user: neither the tasks, whatever fails in them, nor uploads, edits and *)
(* deletions elsewhere lose it, with everything these take along.          *)
SettledPictureStays ==
    [][\A o \in Objects :
        PictureSettled(o) => PictureSettled(o)' \/ Begins(o)]_vars

(* What "creates thumbnails" says of the tasks: the picture itself is left *)
(* as it is.                                                               *)
TaskKeepsPicture ==
    [][\A w \in Workers :
        (job[w] # NoTask /\ next[w] = Last + 1 /\ job'[w] = NoTask)
            => row'[job[w].object].pic = row[job[w].object].pic]_vars

Pending(o) ==
    \/ \E t \in broker : t.object = o
    \/ \E w \in Workers : job[w].object = o

(* A settled picture with a task under way gets all of its thumbnails,     *)
(* unless a request disturbs it, its task logs an error, or the worker     *)
(* that had the task was killed: no log tells of these last.               *)
ThumbnailsArrive ==
    \A o \in Objects :
        (PictureSettled(o) /\ Pending(o))
            ~> \/ ~PictureSettled(o)
               \/ \A s \in Sizes : row[o].thumbs[s] = row[o].pic
               \/ row[o].pic \in log \cup killed

(* Processing ends: once no more tasks are sent, the queue is emptied and  *)
(* the workers are idle for good, however often tasks fail.                *)
TasksEnd == <>[](broker = {} /\ \A w \in Workers : job[w] = NoTask)
=============================================================================
