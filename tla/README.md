# Verification of the ordering service

TLA+ specifications of the backend in `src/orders`: a Django REST service with
which retail clients order goods of several suppliers, with Celery workers for
mails and thumbnails, Redis as broker and cache, and SQLite as database. Line
numbers below are those of `src/orders/backend/` unless a path says otherwise.

The hard part of this program is not any single handler, each of which is a few
lines. It is that `ATOMIC_REQUESTS` is off and almost nothing opens a
transaction: every ORM statement commits by itself, requests interleave between
statements, `Model.save()` writes back *all* columns of a copy loaded earlier
(and inserts the row again when it is gone), and workers do the same seconds
later. The models therefore take one statement of the database, or one call of
the broker, as the unit of atomicity.

## 1. Inventory

| Component | State | Operations | Interacts with |
|---|---|---|---|
| Orders API (`views.py` 773-863, `serializers.py` 404-505) | `orders`, `order_items` | create, confirm, cancel, update, destroy | catalogue (stock, supplier of a product), mails (queues two tasks), admin form (same rows) |
| Order mails (`tasks.py` 16-115) | Redis queue, task results | confirmation, invoice | read orders and items while the request may still be running |
| Supplier switch (`views.py` 244-254) | `suppliers.is_active` | toggle | nothing reads the flag |
| Admin forms (`admin.py`) | the rendered form | open, submit | orders, pictures |
| Pictures (`views.py` 176-233, 657-770, `tasks.py` 117-356) | picture and thumbnail columns of users, products, additional images; files; queue | upload, replace, clear, edit, delete, destroy with what is below, three thumbnail tasks with retries | all handlers that save or delete a user, supplier or product; django-cleanup |
| Price-list import (`views.py` 321-610) | `products`, `product_attributes`, `categories`, `price_update_logs` | import of a file, record by record | requests about single products |
| Products (`views.py` 288-319, `serializers.py` 307-354) | `products`, `product_attributes` | list, create, update, delete; deletion of a supplier with all products | import, orders (their items protect a product), pictures, catalogue cache |
| Caches (`cache_utils.py`, `views.py` 263-279, 300-319, 866-899, `signals.py`) | Redis | category list, catalogue, statistics | all tables they copy |
| Accounts (`views.py` 63-254, `serializers.py` 24-224, `models.py` 11-138) | `users`, `suppliers` | register, login, password reset, create, update, delete of users and profiles | every handler through the user |
| Throttling (`throttling.py`) | request times per key in Redis | allow or refuse | every handler |
| Social login, JWT, settings, migrations | | | see "Not modelled" |

What is hard about each, and what makes it right:

* **Orders.** Placing an order is 2 + n statements and two broker calls; confirm,
  cancel, update and the admin form load, think and save. Right means: the total
  is never a part of the sum, unless staff type one; an order that shows its total has all
  its lines;
  what a request has settled is not undone by somebody's stale copy; a supplier
  touches only orders with its items; a shipped order is not cancelled.
* **Mails.** Acknowledged when taken, so sent at most once; errors become results
  and are not retried. Right means: nobody is mailed twice, a mail lists the whole
  order, an order answered with 201 has both of its tasks, no task stays for ever.
* **Pictures.** A task saves the whole row it loaded before working on it. Right
  means: the thumbnails it makes never belong to a later picture or another object than the
  one shown, a picture nobody is changing does not get lost, retries end, thumbnails
  arrive unless an error was logged or the worker was killed.
* **Import.** One transaction per file but no savepoint per record. Right means: what
  is committed is what the file says as a whole, the same file twice changes
  nothing, an import that fails leaves nothing.
* **Caches.** Time-to-live only: `signals.py`, which should invalidate, is never
  imported. Right means: an answer is at most one lifetime and one request old and is about
  the user who asks.
* **Products.** Creation and update write the product, delete its attributes and create
  them again, each statement for itself. Right means: a product is what its writers made
  of it unless one of them held an older copy; no attribute and no item of an order is
  left without its product, no product without its supplier.
* **Accounts.** Check-then-insert on user name, e-mail and tax number, two rows per
  supplier, `save()` of all columns. Right means: a profile belongs to a supplier who is
  there; the API stores no unchecked tax number; a deleted user stays deleted and a
  deactivated one inactive, unless a request holds an older copy; two users share an
  address only by a race or by another spelling, or if they have none.

## 2. Modules

| Module | What it is |
|---|---|
| `OrderBook` | abstract specification: lines arrive one by one, then a total, then two mails |
| `Orders` | orders, admin form, switch, mail tasks; implements `OrderBook` |
| `OrdersProofs` | TLAPS: three theorems about `Orders` |
| `OrdersMailProofs` | TLAPS: the mails of an order |
| `OrdersSettledProofs` | TLAPS: what stays when requests write back whole rows, with and without races, and how long a request takes |
| `OrdersBookProofs` | TLAPS: `Orders` implements `OrderBook`, and mails go one way |
| `Images` | pictures, thumbnails, the tasks that make them, what the rows belong to |
| `ImagesProofs` | TLAPS: all safety properties of `Images`, and what holds where requests and tasks do not meet |
| `Catalogue` | abstract specification: the catalogue changes by whole price lists, by writes of single products and by deletions of a supplier with all products |
| `Imports` | the catalogue: price-list imports, requests about single products, deletions of suppliers, orders that refer to products; implements `Catalogue` |
| `ImportsProofs` | TLAPS: all that the run of `Imports` checks, `Catalogue` included, and when imports are never aborted and products never contested |
| `StatisticsBook` | abstract specification: statistics are shown, made for one user and not too old |
| `Caches` | what is kept in Redis, beside the orders and categories it was read from; implements `StatisticsBook` |
| `CachesProofs` | TLAPS: `Caches` implements `StatisticsBook`, its invariants, and when the shared key is harmless |
| `TaxNumbers` | the check of a tax number: operators only; `AccountsProofs` has the theorems about them |
| `Accounts` | users and supplier profiles; extends `TaxNumbers` |
| `AccountsProofs` | TLAPS: all that the run of `Accounts` checks, when addresses are unique, and which wrong digits a tax number shows |
| `MCOrders`, `MCImages`, `MCImports`, `MCCaches`, `MCAccounts` | small instances for TLC |

### Orders

`row`, `items`, `accepting` are the tables; `broker`, `results`, `job` are Celery;
`pc`, `who`, `target`, `copy`, `basket`, `edit` are what a request holds between two
statements. `cart` and `reply` are history variables that no action reads in a guard,
except that `reply[o] = None` says that the primary key `o` has not been used.

| Code | Actions |
|---|---|
| `create` (`serializers.py` 463-495), `perform_create` (`views.py` 806-815) | `BeginCreate` (validation), `InsertOrder`, `InsertItem` once per line, `InsertItemFails`, `SaveTotal`, `QueueConfirmation`, `QueueInvoice` |
| `confirm` | `LoadForConfirm`, `CheckItems`, `SaveConfirm` |
| `cancel` | `LoadForCancel`, `SaveCancel` |
| `update`, `partial_update` | `LoadForUpdate`, `SaveUpdate` |
| `destroy` | `LoadForDestroy`, `Delete` |
| `OrderAdmin` | `AdminOpen`, `AdminSubmit` (with an amount of `Amounts`), `AdminSubmitGone` |
| `toggle_accept_orders` | `LoadToggle`, `SaveToggle` |
| the two mail tasks | `TakeTask`, `SendMail`, `LoseMail` |
| a failing database, broker or process | `HandlerFails` |

Abstractions. An amount of money is the set of the lines it sums, so that 0, a part and the
whole can be told apart; prices are not needed. The total is an editable field of the order
form (`admin.py` 214): staff send the one that was rendered, or type another, which is `Typed`
whatever it is. `Retyped` bounds the orders whose amount they type over, and `Switching` the
suppliers that flip their switch; both may be all in the theorems. `confirmed_at` is the
supplier whose request has set it. Stock is a constant: no statement of the program changes it
when an order is placed. Addresses, phones and notes are written by an edit that changes
neither status nor client. A mail is the set of lines it lists; its total is not tracked.
`Task.retry` does not occur: the mail tasks return errors. The deletion of a client, which
cascades to the client's orders, is for each of them like a deletion by staff, except that no
stale copy brings it back, since its client is gone.

### Images

A picture is the number of its upload, and a thumbnail is the picture it shows, or `Sent` when
a form has brought it. One action is one statement with the file operations beside it. `files`
holds the pictures in the storage; names are never reused (Django adds a random suffix when a
name is in use; a name that becomes free again is not modelled); thumbnail files are not
tracked. `opened` says that a task has the picture open: Pillow keeps reading it after
django-cleanup has removed the name. `uploads`, `log` and `killed` are history.

Every row names its owner: the user of a supplier profile, the supplier of a product, the
product of an additional image. A deletion takes along what is below (`Below`), with its
files, and a `save()` whose owner is gone is refused by the foreign key (`Accepts`).
`ProductSerializer` has `fields = '__all__'`, so a `PUT` or `PATCH` of a product may send or
empty its four thumbnails, move it to another supplier and empty the picture, and the admin
form of a product may do the same; `FormThumbs` and `FormOwners` say what a form may carry. The
thumbnails of users are read-only, and so is the user of a supplier profile. A product that
is created with a picture is a product without one whose form replaces it.

| Code | Actions |
|---|---|
| `upload_avatar`, `upload_image` | `LoadForUpload`, `SaveUpload`, `QueueTask` |
| `add_additional_image` | `AddImage`, `QueueTask` |
| `PUT`, `PATCH` of a user, supplier or product, and their admin forms | `LoadForEdit`, `SaveEdit` (which also empties the picture), `SaveReplace` |
| `delete_avatar`, `remove_additional_image` | `LoadForDelete`, `DeletePicture`, `SaveDeleted`, `WipeThumb` per size, `FinishDelete` |
| `DELETE` of a user, supplier or product, with everything below | `LoadForDestroy`, `Destroy` |
| `process_user_avatar`, `process_product_image`, `process_product_additional_image` | `TakeTask`, `MakeThumb` or `SkipThumb` per size, `SaveThumbs`, `RetryTask`, `LoseTask` |
| a refused statement, a failing database or broker, a killed server | `HandlerFails` |
| a killed worker | `KillWorker` |

### Imports

A record is its sku, category, contents and the *kind* of each field that validation
tells apart: absent, blank, the number 0, the string "0", a number, a negative one, one the
column has no room for, an infinite one, a text. An entry of the list that is a number or null
has the shape `"scalar"`; a category that is null fails the record like a statement that fails
at once. `product` is indexed by primary key, since `save()` writes by key while an import
finds rows by sku; `sequence` is the last key given (`AUTOINCREMENT`: a key is never given
again), and an attribute is one value per product. `before` is the database when the
transaction was opened, and what other requests read until it is committed. An import is
the one writer while its transaction is open (SQLite), but requests that have loaded a
product before may save it afterwards. `ordered` stands for the items of orders. Categories
only grow: the admin form that deletes them is not modelled. A request that comes while a
transaction is open sees neither the products nor the categories it has written (`Seen`,
`SeenCategories`): if it did, it could store a product in a category that is then rolled back.

The deletion of a supplier, or of his user, first looks up his products and what refers to
them (`GatherProducts`), and then deletes what it has found (`WithdrawSupplier`): a product
that has got an order item, or that he was given, in between makes it a 500. He may come back,
without products, by the save of an older copy (`RestoreSupplier`; `Accounts` says how).

What the columns refuse (`Unstorable`) they refuse of a row that is written only: with
`update_existing = False` a negative minimum fails the record that creates its product and
does nothing to one that finds it. This is why `ImportIsIdempotent` exempts such records.

`serial` is a history variable: the product as it would be if every request had loaded it at
the moment it wrote it, or `Contested` from a write on during which another request held a
copy.

| Code | Actions |
|---|---|
| `import_products` up to the transaction | `BeginImport` |
| `_validate_product_data`, `_process_product_record` | `RefuseRecord`, `ProcessRecord`, `StatementFails`, `AbortImport` |
| end of the transaction, `PriceUpdateLog` | `Commit`, `WriteLog` |
| `ProductSerializer.create` | `CreateProduct`, `CreateAttribute` |
| `ProductSerializer.update` | `LoadForUpdate`, `SaveProduct`, `ClearAttributes`, `CreateAttribute` |
| deletion of a product (cascade to attributes, protected by items) | `LoadForDelete`, `DeleteProduct` |
| `DELETE` of a supplier or user, with all products | `GatherProducts`, `WithdrawSupplier`; `RestoreSupplier` |
| an item of an order stored, the last one deleted | `OrderProduct` |

`Catalogue` is what is left when records, transactions, copies, failures and logs are
forgotten. A price list is one step: it stores products of its sender, under the key of the
sku or under a new key, with categories that are there, and takes away no product, sku,
category or attribute, however many of its records fail. One more step is about many
products: a supplier goes (`Withdraw`) with all products he has, and with those he had when
his deletion began, if no order has one. Every other step is about one product: a product is
created under a new key, or written (which brings a deleted one back), always with a sku that
is free and a category and a supplier that are there; deleted with its attribute when no order
has it; its attribute is cleared, and set when there is none.
`ImportMatchesFile` says what a price list stores; `Catalogue` says what it must leave alone,
also when statements fail. The refinement maps the tables to `Committed`, the tables as they
were when the transaction was opened, for as long as it is open.

### Caches

`order` and `root` are the tables, `cache` is Redis (an entry is its data and its age in
ticks), `pc`, `who`, `asked`, `draft`, `delay` are a request. `since`, a history
variable, counts the ticks since an order has changed.

| Code | Actions |
|---|---|
| `CacheManager.get`, hit, miss or error | `Get` |
| the queries after a miss, one by one | `Read` |
| `CacheManager.set` | `Store` |
| the end of the request | `Answer`, `HandlerFails` |
| placing, changing and deleting an order; creating, deleting and moving a category | `ChangeOrder`, `ChangeCategory` |
| expiry | `Tick` |

The model has no invalidation because the program has none: `signals.py` would call it and
nothing imports `signals.py`. A query over orders answers the set of orders that it counts or
sums. The row of an order is its status, its client and the suppliers of its items, each of
which may change (`Rows` are the rows it may have in an instance): `client` is a writable field
of `OrderSerializer` and of the order form. A category is there and has no parent,
or not. The data of the catalogue are not followed: a hit never reaches the answer, because
`filter_queryset` needs a queryset and gets a list. An error of Redis is a miss, or a `set`
that does nothing, as `cache_utils.py` 91 and 102 have it. The lifetimes, 2, 10 and 60
minutes, are numbers of ticks; a tick is no shorter than what an instance needs to tell
"within" from "after".

`StatisticsBook` is what is left when Redis, keys, entries, queries and the other lists are
forgotten: an order changes, a tick passes, and a request *shows* a list of numbers. Whoever
is shown it, the list was made for one user (himself, or some supplier if he is one), and about
every order that has not changed for one lifetime and one request it is right: it counts the
order if, and only if, that user may see it and it has the status. So the shared key of
suppliers never yields a mixture of two suppliers' numbers, only the numbers of another one;
and an order that was given to another client is in the old client's numbers no longer than that.

### Accounts

`user` and `profile` are the tables (a profile is its tax number, `<<>>` where there is none,
indexed by the user since the column is unique); `pc`, `target`, `copy`, `form` are a request.
`reply`, `doubtful` and `edited` are history: how a registration ended (and thereby which keys
are used), which addresses were checked while somebody else was about to store them or in
another spelling, whose number was changed by hand. Passwords, names of people and companies,
phones and groups are columns that travel with the row and are left out; the avatar handlers of
`Images` appear as saves of a form that carries none of the fields. `Blank` is the empty
address: `POST /users/` does not require an e-mail, stores `''` without one, and no validator
runs, so that many clients may have it; `password_reset` refuses it. What the deletion of a
user or a profile takes along, the products and pictures, is in `Imports` and `Images`. A
character of a tax number is a digit, a separator or something else.

| Code | Actions |
|---|---|
| `register` and `UserRegistrationSerializer` | `CheckRegistration`, `InsertUser`, `InsertUserFails`, `SaveCode`, `InsertProfile`, `RegistrationBreaks` |
| `POST /users/` | `CheckRegistration`, `InsertUser`, with a form without a type |
| `PUT`, `PATCH /users/{id}/`, `upload_avatar`, `delete_avatar` | `LoadUser`, `CheckUser`, `CheckUserRefuses`, `SaveUser` |
| `DELETE /users/{id}/` | `DeleteUser` |
| `PUT`, `PATCH /suppliers/{id}/`, `toggle_accept_orders` | `LoadProfile`, `CheckProfile`, `SaveProfile` |
| `DELETE /suppliers/{id}/` | `DeleteProfile` |
| `password_reset` | the operator `PasswordReset`: it changes nothing |
| a failing database or process | `HandlerFails` |

`POST /suppliers/` has no action: the serializer never fills the required user, so that it
answers 500 and stores nothing. Every registration of a supplier ends in
`RegistrationBreaks`: `views.py` 86 inserts the profile which `serializers.py` 214 has
inserted already, and without a tax number. User and profile stay, and the answer is 500.
A `PUT` that is sent as a form without `is_active` deactivates the user, and so does
`POST /users/`: an absent check box is `False`.

## 3. What the runs check

| Run | Instance | Shows |
|---|---|---|
| `orders_race` | 1 staff order, 1 new order, 2 suppliers, 2 requests, 1 worker; create, confirm, cancel, update, switch, failures | `TypeOK`, `BilledOrderIsComplete`, `MailListsWholeOrder`, `SettledTotalStays`, `SettledConfirmationStays`, `SuppliersTouchOnlyTheirOrders`, and the refinement `ImplementsBook` |
| `orders_admin` | the same with 1 supplier, the admin form and deletions instead of cancel, update and switch; staff may type over the amount of the new order; under `FairSpec` | `TotalNeverPartial`, `AnsweredOrderIsAnnounced`, `SettledTotalStays`, `SettledConfirmationStays`, `RequestsEnd`, `PlacedOrderIsAnnounced` |
| `images_race` | 1 user with 1 supplier, 1 product and 1 additional image, 2 requests, 1 worker, 1 size, 2 uploads, no retry; uploads and forms of the product, deletion of the product and the supplier, errors | `TypeOK`, `ThumbsNeverNewer`, `SettledPictureStays` |
| `images_live` | 1 user with 1 supplier and 1 product, 1 request, 1 worker, 2 sizes, 2 uploads, 1 retry; forms of the product, deletion of the supplier, errors and killed workers; under `FairSpec` | `ThumbnailsArrive`, `TasksEnd` |
| `imports` | 2 suppliers, 2 skus, 2 keys, 2 categories, 5 files, 2 imports; create, update, delete, order, deletion of a supplier, failures | `TypeOK`, `ReferencesHold`, `UncontestedProductIsSerial`, `ImportMatchesFile`, `ImportIsIdempotent`, and the refinement `ImplementsCatalogue` |
| `caches` | 2 clients, 2 suppliers, 1 order that is placed, shipped, given to the other client and deleted, 1 category, 2 requests, under `FairSpec` | `TypeOK`, `ClientsGetTheirOwn`, `StatisticsNotTooOld`, `NewCategoryAppears`, `CatalogueComesBack`, and the refinement `ImplementsStatistics` |
| `accounts` | 2 users, 2 names, 3 spellings of 2 addresses and none, 4 numbers, 2 requests; registration, changes, deletion, failures | `TypeOK`, `ProfilesBelongToSuppliers`, `PasswordResetWorks`, `RegisteredNumberIsValid`, `StoredNumbersFit`, `GoneUserStaysGone`, `DeactivatedUserStaysOut` |
| `cancel_after_shipment` | violation | `CancelRespectsShipment` |
| `closed_supplier` | violation | `ClosedSupplierGetsNoOrder` |
| `images_task_overwrites` | violation | `TaskKeepsPicture` |
| `imports_bad_price` | violation | `BadPriceFailsItsRecord` |
| `supplier_statistics` | violation | `SuppliersGetTheirOwn` |

The violations are disagreements of the code with its own texts:

1. `cancel` tests the status of the copy it loaded; an order shipped in between is
   cancelled, against its message "cannot cancel an order that is already shipped".
2. A supplier who has switched orders off still gets them: no code reads the flag.
3. A thumbnail task writes back the picture it started from: an avatar sent meanwhile
   is replaced by a name whose file is gone.
4. A price that is no number raises `decimal.InvalidOperation`, which
   `except (ValueError, TypeError)` does not catch: the import of all records ends
   with 500, instead of an error for the record.
5. All suppliers share one key for their statistics: within its lifetime each of them is
   answered with the numbers, and the recent orders, of the one who asked first.

For four of them a theorem names the whole cause: under a condition that excludes it, the
same property holds (`LoneCancelCorrect`, `LoneTaskCorrect`, `ReadableFilesCorrect`,
`LoneSupplierCorrect` for 1, 3, 4 and 5; section 4). Nothing but reading the flag would
help the second.

The properties of the passing runs say what *does* hold in spite of lost updates. They
are weaker than one may wish, on purpose: `OrderBook` has an action `Unbill`, because a
confirmation may write back the total 0 that it loaded during the placing; the
"settled" properties say that this is the only way, that is, once no request holds an
older copy, what is in the row stays, but for an amount that staff type over it.
`BilledOrderIsComplete`, `MailListsWholeOrder`,
`SuppliersTouchOnlyTheirOrders` and `ImplementsBook` are stated for behaviours without
deletions: a deletion in the middle of a placing brings the row back without its items, and
such an order is billed and mailed. The code does nothing against it, and no text of the
repository speaks of it; what still holds of it is in `orders_admin`, where deletions happen.
`GoneUserStaysGone`, `DeactivatedUserStaysOut` and `UncontestedProductIsSerial` are of the
same kind: what the row holds is settled once nobody holds an older copy.
`PasswordResetWorks` names the two ways in which an address can be stored twice, and
excludes the third that one might fear, a copy that writes back an address given up
meanwhile: the check looks at the table, and the copies of requests count as claims.
`SettledPictureStays` excepts a request about the object or about what it is deleted with, its
product, supplier or user: a deletion of these takes the picture along. `ThumbnailsArrive`
excepts what the log names and, apart from that, a killed worker, which logs nothing.
`ClientsGetTheirOwn` lets an order that was taken from a client be counted for a lifetime and
a request; until then the entry kept for him still has it.

### Bounds

Two concurrent requests are enough for each of the races listed in the hazards, all of which
are between a writer and one older copy; a third request adds a second older copy, which the
"settled" properties quantify over in the same way. One worker runs beside them; two tasks of
one order are in the queue in any order. A staff order must exist because the serializer wants
each item to name an existing order (`serializers.py` 419), and so that some order is always
there to race for. Carts have two lines, the least number for which a part of the sum exists,
and one cart is refused for lack of stock. `Buyers`, `Edits` and `Ops` select who does what in
an instance. `Retyped` is the new order, whose total a create request writes beside the form,
and `Switching` one of the suppliers, since the switch meets nothing else. Two sizes of
thumbnails show that one may be missing, which liveness is about, and one is enough for what a
copy may bring back; `MaxUploads = 2` is an old and a new picture, `MaxRetries = 1` a first
attempt and a last one in `images_live`, where retries matter (a retry starts from the row
again, as a first attempt does, so that `images_race` needs none); the code has 3 sizes of an avatar, 4 of a product and 3 of an
additional image, and 3 retries. `Uploaded`, `Emptied`, `Edited` and `Destroyed` say which
objects each kind of request is about in an instance, and `Failures` whether statements end in
errors and workers are killed: the chain from the user down to the additional image is as long
as the code's, and the runs delete products and suppliers; the theorems have no such bounds.
`MaxLogs = 2` is an import and its repetition. In `caches` a request may last one tick
(`MaxDelay = 1`, so that an old list can be stored after the moment that made it old), the
catalogue lives two ticks and the other lists one; statistics are two numbers that overlap, all
orders and the pending ones, so that they can disagree. `TwoKeys` is a bound on the states
explored: the requests that run and the entries that are kept are about one kind of list and at
most two keys, the order is there beside statistics only and the category beside the other
lists. Lists of different kinds share neither key nor table, and no step is about more than one
key; what the bound cuts off (also for the two liveness properties) is a third user's entry
beside two others. The theorems have no such bound. The files hold a sku twice, a record of
each outcome, a negative minimum that meets a product or not, a price that is no number, an
entry that is no object and an infinite stock; the run of the finding has only the files whose
records are objects with a readable stock (`PriceFiles`). `MaxId = 2`: a product, and the one
that is created under its sku after its deletion while a request still holds the first (its
save must then be refused, for the sku is taken). The instance has no update that changes a
sku, and one of the two skus is only in the file that is rolled back; the module and its
theorems cover both. In `accounts` two users are enough for every pair that can collide, and
two requests for every race between a check and a save; the numbers are a valid one, the same
with a dash, one with a wrong control digit and one that only the regular expression of the
column accepts; the addresses are two, one of them in another spelling, and the blank one.

Symmetry: requests are interchangeable (`HandlerSymmetry`), and so are the suppliers of
`Imports` and the keys of `Accounts`; it is used only where no liveness property is checked.
Deadlock is checked where the system cannot stop; it is switched off where all orders may have
been deleted (`orders_admin`) and where the bound on uploads, imports or keys is used up.

### Fairness

`Orders!FairSpec`: weak fairness of the next statement of every accepted request (a server
thread runs on; a failure ends the request) and of each worker's step. Nobody has to send a
request, and an admin form may stay open for ever. `Images!FairSpec` asks only that the workers
run and are started again when they are killed. `Caches!FairSpec`: requests go on, and time
passes. Which task is taken and whether a step fails is left open, so no property depends on
the broker being first-in-first-out or on success.

## 4. What is proved

The theorems whose names begin with `Lone`, and `AddressesUnique`, have a hypothesis about
the behaviour, `[]One...`: no two requests (or tasks) are about the same order, object,
product or address at the same time, as if each held a lock on its row from the load to the
save. The code takes no such lock, which is what the findings and the exceptions in the
"settled" properties are about; these theorems say that the missing lock is all that is
wrong. Many behaviours satisfy the hypothesis, among them all those in which each request or task
ends before the next one for the same row begins; where requests overlap it asks nothing
as long as they are about different rows.

`OrdersProofs`, for any number of orders, requests, workers, accounts, products, carts
and edits, assuming only `OrdersAssumption` and `EditsAssumption` (well-typed constants,
disjoint kinds of accounts):

* `TypeCorrect`: `Spec => [](TypeOK /\ RequestShape)`. `RequestShape` is needed to make
  it inductive: what a request holds at each of its statements, in particular that a
  copy about to be saved is a row.
* `TotalCorrect`: `Spec => []TotalNeverPartial`, with deletions and failures: an order shows 0,
  the whole total, or an amount that staff typed. The strengthening `TotalInv` says that a copy
  that may be saved has one of these totals, that only the create request of an order holds a
  growing sum, and that it holds it at `items`, where it cannot be saved; and that no order has
  two of them.
* `LinesCorrect`: if `"destroy" \notin Ops`, then
  `Spec => [](BilledOrderIsComplete /\ MailListsWholeOrder)`. `LinesInv` follows the
  lines from the request (the items stored are those summed so far) through rows, copies
  and queued tasks (which exist only for complete orders) to the mails.

The assumption of `LinesCorrect` is necessary: `orders_admin` has behaviours in which a
deleted order returns without items.

`OrdersMailProofs`, `OrdersSettledProofs` and `OrdersBookProofs` build on these, from the
same assumptions:

* `AnnouncedCorrect`: `Spec => []AnsweredOrderIsAnnounced`, with deletions and failures.
  `MailInv` says that a task is in one place and has one result (`Once`), what each answer
  says about the tasks of its order (`RepliesMean`), and which of them a placing request has
  already queued (`PlacingQueues`). It needs `TotalInv`: two requests that place the same
  order would queue its mails twice.
* `SettledTotalCorrect` and `SettledConfirmationCorrect`: the two action properties. The
  lemma `EveryStep` goes through all steps once and says what each may do to the row of an
  order (nothing, or what one request makes of its copy) and to the copies of it (nothing,
  a fresh one, or one more line summed). A sum that lacks a line is never the whole total,
  which is the case where `TotalInv` is needed. A form changes a settled total only when
  staff type another amount into it.
* `SuppliersCorrect`: if `"destroy" \notin Ops`, then `Spec => SuppliersTouchOnlyTheirOrders`.
  A request that goes to save for a supplier has seen an item of his when it loaded the
  order (`TouchInv`), and without deletions items only grow.
* `LoneCancelCorrect`: `Spec /\ []OneRequestPerOrder => CancelRespectsShipment`, the
  property that `cancel_after_shipment` violates. Under the hypothesis what a request has
  loaded is the row at each later moment (`CurrentInv`), so the status that `cancel` has
  tested is the one it overwrites.
* `LoneRequestKeeps`: under the same hypothesis, a `confirmed_at` that is stored stays as long
  as the order is there, and a total changes only by a form in which staff typed another
  amount (`Types`), without the exception for older copies: from `CurrentInv` both are
  settled at every moment (`SettledAtOnce`), and `SettledTotalCorrect` and its companion do
  the rest.
* `RequestsShrink`: a request has at most `n + 4` statements to go, where `n` is the number
  of lines of its cart. `Left` counts them, the lines as the cardinality of those not yet
  summed; each statement of the request lowers it and no other step touches it. This is
  the safety half of `RequestsEnd`, which TLC checks under fairness.
* `MailsGoOnward`: each mail of each order goes from `"none"` to `"queued"` and from there to
  `"sent"` or `"lost"`, once, also when orders are deleted, where `BookCorrect` does
  not apply; what is needed of `MailInv` is that a task is in one place.
* `BookCorrect`: if `"destroy" \notin Ops`, then `Spec => ImplementsBook`. Under
  `TypeInv`, `TotalInv`, `LinesInv` and `MailInv`, and because an order with mails has lines
  (`CartsFilled`), each step is one of the book: an INSERT opens an order, an item adds a
  line, a `save()` bills or unbills a complete order, a result delivers a queued mail, and
  everything else stutters.

`ImagesProofs`, for any sets of objects, requests, workers and sizes and any bounds on
uploads and retries, assuming only `ImagesAssumption`:

* `TypeCorrect`: `Spec => []TypeOK`. An upload must not be queued or saved under a number
  that was never given, so the invariant carries what requests and tasks hold.
* `ThumbsCorrect`: `Spec => []ThumbsNeverNewer`, about the thumbnails that tasks have made;
  those that a form has brought (`Sent`) are exempt, and users have none of them. The invariant
  `Inv` says that every row, in the table, in a request or in a worker, *fits* its object: its
  picture and the thumbnails tasks have made are blank or uploads of that object, and where
  there is a picture no thumbnail is later. It survives `save()` of all columns because the
  columns of one copy fit each other, forms because they keep, empty or send a thumbnail, and
  `WipeThumb` and `SaveThumbs` because they only blank a thumbnail, or write picture and
  thumbnails together (`TablesInv`, `RequestsInv`, `TasksInv`). A task that saved its
  thumbnails alone would break it, which is the mutant of this property.
* `SettledCorrect`: `Spec => SettledPictureStays`. Pictures of different objects have
  different numbers (`OwnPicture`, from `Inv`), so no cleanup elsewhere removes the file; a copy
  of the object itself is not older, by the definition of `PictureSettled`. A deletion that
  takes the object along is one of something on its chain of owners, which stands: no
  request is deleting it, and no copy that may be saved hangs it elsewhere (`Stands`).
* `LoneTaskCorrect`: `Spec /\ []OneAtATime => TaskKeepsPicture`, the property that
  `images_task_overwrites` violates: where no request and no other task is about the object
  of a task, and no deletion about what it is deleted with, the picture it started from is
  still there when it saves (`CurrentInv`, and `OwnersInv` for the rows above).
* `LoneTaskStored`: if, besides, `"error" \notin Failures`, then every row names a file that is
  in the storage, except between the removal of a file and the `save()` that forgets it, and no
  task ever reports an error, with all deletions and killed workers. Errors are excluded
  because one in that gap leaves the name of a removed file for good.

`AccountsProofs`, for any sets of users, requests, names, addresses with any
normalisation, numbers and forms, assuming only `AccountsAssumption`:

* `TypeCorrect`: `Spec => [](TypeOK /\ RequestShape)`.
* `ProfilesCorrect`: `Spec => []ProfilesBelongToSuppliers`. The user of a key never changes
  its type, in the table or in a copy, which is what lets a profile survive stale saves.
* `NumbersCorrect`: `Spec => []RegisteredNumberIsValid`. A number on its way to a profile
  is a checked one, the one that is there, or that of a user in `edited`.
* `ResetCorrect`: `Spec => []PasswordResetWorks`. Two *claims* to an address, by rows or
  requests and for different users, make it doubtful unless it is blank; the number of users
  with an address is at most one when all of them are equal.
* `GoneCorrect`, `DeactivatedCorrect`: the two action properties.
* `FitsCorrect`: `Spec => []StoredNumbersFit`. `serializers.py` 214 inserts a number without
  asking the validators of the column; that they would accept it is a fact about the two
  checks (what `validate_tax_number` leaves is 10 or 12 digits), and `FitInv` adds the numbers
  on their way through a change of the profile, which the validators have seen.
* `AddressesUnique`: if each address is its own normal form, then under
  `[]OneRequestPerAddress` no two users share an address other than the blank one. The
  hypothesis keeps every other address out of `doubtful` (`NoDoubt`), and `AddressInv`, which
  `ResetCorrect` rests on, leaves no other way.
* `WrongDigitOf12`, `WrongDigitOf10`: of a valid number, `validate_inn_12` refuses every
  one that differs in one digit. `validate_inn_10` does too, with one exception: both have
  the control digit 0, which stands for the remainders 0 and 10. Such pairs exist; of twelve
  digits the two control digits never fail together, since the weights of a place differ in
  them. A wrong digit moves a weighted sum by an amount that 11 does not divide (`OneWeight`), and
  never both sums of twelve digits to within one of a multiple of 11 (`TwoWeights`), which is
  what equal control digits would take.

`ImportsProofs`, for any files and forms, suppliers, skus, requests and bounds, assuming only
`ImportsAssumption`:

* `ReferencesCorrect`: `Spec => []ReferencesHold`. The tables that a rollback restores refer
  to rows that are there, and nobody orders or deletes while it may be restored. No product
  is without its supplier either: a deletion finds at its statement all that he has.
* `SerialCorrect`: `Spec => []UncontestedProductIsSerial`. A copy that is held is the product
  as it is, or the product is contested; the proof needs that a request reads the committed
  row (`Seen`) and that a key is given once.
* `TypeCorrect`: `Spec => []TypeOK`. That the bounds of the instance are never left takes
  three more invariants. `RoomInv`: no row is beyond the last key given, neither in the
  tables nor in those of a rollback, no request is about such a row, and an open import has
  a key left for each new sku of its file; storing one takes one key and leaves one new sku
  less. `LogInv`: the imports that are open or wait for their log have their row. `CountInv`:
  successes stay behind records.
* `MatchCorrect`: `Spec => ImportMatchesFile`. `MatchInv` states the property for the records
  read so far (`SkuMatches`), which needs the unique sku (`UniqueInv`): only then is the row
  a record finds the one that an earlier record of the sku has stored. At the end of the file
  the records so far are all (`CommitsAtEnd`).
* `IdempotentCorrect`: `Spec => ImportIsIdempotent`. `AttributeInv` adds the attributes to
  `MatchInv`. `LatestInv` says that, as long as nothing was written since an import, the
  committed tables show what its file says (`Shows`); the second import ends in tables that
  show the same file, and there is only one way to show it from tables that already do
  (`Again`). Exempt are files with a record the columns refuse, sent without
  `update_existing`: it fails when it creates and succeeds when it finds.
* `CatalogueCorrect`: `Spec => ImplementsCatalogue`. `ProgressInv` compares the tables of an
  open import with those it began with: each product that differs is *stored by* its supplier
  (`StoredBy`), under its old sku or under a new key, and every key it has taken is in use.
  `CategoryInv` says that the categories of rows, of the rows of a rollback and of what an
  update is going to store are there; it is inductive only because a request sees no
  category that may be rolled back. With `RoomInv`, `UniqueInv` and `ReferenceInv` the
  commit is `Import` (`CommitBook`), each statement outside is one action (`CreateBook`,
  `SaveBook`, `AttributeBook`, `DeleteBook`, `OrderedBook`), the deletion of a supplier is
  `Withdraw`, and the rest is a stutter (`QuietBook`), a rollback among it.
* `ReadableFilesCorrect`: if `"fail" \notin Ops` and no record of a file raises what nobody
  catches (`Raises`: a number or null instead of an object, a price or cost price that is no
  number, an infinite stock), then `Spec => BadPriceFailsItsRecord`, the property that
  `imports_bad_price` violates: whatever else is wrong with the records, each import gets to
  its commit.
* `LoneRequestSerial`: under `[]OneRequestPerProduct` the tables are the serial ones whenever
  no transaction is open. The hypothesis is about updates: nobody else holds, imports or
  deletes the product that one has loaded. `Contested` then never occurs, and `SerialInv` is what
  `SerialCorrect` proves anyway.

`CachesProofs`, for any users, orders, requests, statistics and lifetimes, assuming only
`CachesAssumption` (among others, that nobody is both client and supplier):

* `TypeCorrect`: `Spec => [](TypeOK /\ RequestShape)`.
* `PeerCorrect`, the invariant behind the others: `Spec => [](TypeInv /\ PeerInv)`. The
  users who share a key are *peers* (`SameKey`: a client and himself, all suppliers). What is
  read, kept or answered was made for ONE of the peers, and about every order that has not
  changed since the request came, or for the age of the entry and `MaxDelay`, it is right: it
  counts the order if and only if it is his and has the status. Both sides grow by a tick with
  `since` (`MadeFor`, `RightAbout`).
* `OwnCorrect`: `Spec => ClientsGetTheirOwn`, an action property of each answer: a client is
  his only peer, so what is counted was his, and still is unless the order has changed
  within a lifetime and a request (`AnsweredMade`, `RightIsOwn`).
* `LoneSupplierCorrect`: if at most one supplier asks for statistics, then
  `Spec => SuppliersGetTheirOwn`. The property is the one that `supplier_statistics`
  violates with two of them: the shared key is the whole cause.
* `AgeCorrect`: `Spec => []StatisticsNotTooOld`, since an entry is younger than its lifetime.
* `BookCorrect`: `Spec => ImplementsStatistics`. The only steps that show something are a hit
  (`GetBook`: the entry is younger than its lifetime) and a `set` that answers (`StoreBook`:
  what was read is no older than a request); both are `Show` with the peer as witness, under
  `PeerInv`. Everything that ends a request is `Hide` or a stutter.

Only model-checked: liveness, under fairness, which is out of TLAPS's reach (`RequestsEnd`,
`PlacedOrderIsAnnounced`, `ThumbnailsArrive`, `TasksEnd`, `NewCategoryAppears`,
`CatalogueComesBack`). Every safety and action property of the passing runs is proved. The
sums of a tax number are written out, place by place, and not folded, so that the provers
can compute with them.

## 5. Not modelled

* *Throttling*: classes of Django REST framework with a scope and a rate; the list of
  request times, and its concurrent update, are the library's.
* *Login* and *me*, which change no state, and what the admin forms of users, suppliers and
  products write besides pictures and owners. The 403 of `login` cannot be reached, since
  `authenticate` knows no inactive users.
* *Social login*: `orders/settings.py` 603 names `api.pipeline`, which does not exist
  (the file is `backend/ipeline.py`): the library's own steps run, and importing the next
  one fails. What these steps store is the library's.
* *JWT*: the library's; requests are modelled from the authenticated user on.
* *Parsing* of CSV, JSON and YAML beyond the kinds of values it yields; pixels, formats
  and paths of images; wording of mails; `export_template` and the read-only views.
* *`optimize_image`*, which nothing calls, and *`cleanup_unused_images`*, a stub.
* The stock is not reserved by any code; hazards that no property covers are listed in
  `PROJECT.json` with the reason.

## 6. Plan

1. Done: `OrderBook`, `Orders`, `Images`, `Catalogue`, `Imports`, `StatisticsBook`, `Caches`,
   `Accounts`.
2. Done, as theorems: every safety and action property of the passing runs; that `Orders`
   (without deletions), `Imports` and `Caches` implement their abstract specifications; for
   four of the five findings, that the named cause is the only one. Liveness stays with TLC.
3. `Imports` with updates that change a sku in its instance, so that two products coexist
   and a `save()` meets a sku that is taken. The theorems of `ImportsProofs` cover this case
   already; the instance of `imports` would be too large with it and with failures.
4. An abstract specification of `Images`: what a client may rely on of a picture and its
   thumbnails, with no mention of tasks, copies and files.
