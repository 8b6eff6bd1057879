# TLA+ verification of the e-commerce API

The repository is an HTTP API (Rust, axum, sqlx) for a shop. It keeps all of its state in
PostgreSQL, images in Cloudinary, and sends e-mail in background tasks. Any number of
requests run at once, each as an async task over a pool of connections, next to a cleanup
worker that wakes up at an interval; several instances of the process may share the
database. What is hard about it is what happens *between* the SQL statements of one
request: the code relies on row locks (`SELECT ... FOR UPDATE`), on conditional `UPDATE`s
and on transactions that are rolled back when a handler returns early, fails, or is dropped
because its client went away.

The modules here model that: every transaction as a process whose steps are its SQL
statements, with row locks, rollbacks, deadlock victims and lost connections. TLC checks
small instances; TLAPS proves the main results for every instance.

Paths below are relative to the code root, `src/src/` of this tree.

## Inventory

| Component | State | Operations | Interacts with | What makes it correct |
|---|---|---|---|---|
| Orders and stock (`order/`) | `orders`, `order_items`, `products.stock` | `create_order`, `update_order_payment_slip`, `update_order_for_admin`, listings | product rows (locks), cart (cleared by a checkout), address (snapshot), image store (slip), e-mail | nothing oversold or lost, statuses follow the documented table, a checkout is all or nothing |
| Product rows (`product/service.rs`) | `products` | create, update, delete (= deactivate) | orders take and return stock; categories; slug history | an absolute stock edit does not corrupt what checkouts computed |
| Product images (`product/`) | `product_images`, `pending_product_images`, `pending_product_image_deletions`, Cloudinary | upload, attach, set primary, reorder, delete, queue a deletion | cleanup worker, image store | no image in use is deleted, no image is orphaned for ever, exactly one primary |
| Cleanup worker (`shared/maintenance.rs`) | none of its own | one pass: expired tokens, codes, tickets, unverified users; stale orders; expired images; queued deletions | every table | cancels only what is stale; orders over their timeout do not keep their stock for ever |
| Cart (`cart/`) | `carts`, `cart_items` | add, set quantity, remove, clear | stock read without a lock; cleared by checkout | a cart never asks for more than there has been |
| Sessions (`auth/service.rs`) | `refresh_tokens` (hash, family, successor, consumed_at, revoked_at, expires_at) | login, rotate, logout, revoke family / all of a user | user row, password change and reset | a replayed token ends its family; no session survives a revocation; concurrent use of one token gives one successor |
| Registration and codes (`auth/service.rs`) | `users`, `email_verifications` | register, verify, resend, forgot / reset password | e-mail, sessions | one current code per address and purpose, used once, bounded attempts |
| Social login (`auth/`) | `account_providers`, `oauth_login_tickets` | find or create, link, exchange ticket | sessions | one verified account per provider identity; only its user links an account that is verified |
| Profile and e-mail change (`user/`) | `users` | edit, avatar, request and confirm a new e-mail | codes, image store | addresses stay unique |
| Addresses (`address/`) | `addresses` | create, update, delete | locked by `create_order` | a user with addresses has exactly one default; orders keep what their address said |
| Catalogue (`category/`, slugs in `product/service.rs`) | `categories`, `product_slug_history`, `category_slug_history` | create, rename, delete, look up | products | a link by slug leads to its row, and old links keep leading to the row they led to; no product points at a deleted category |
| Rate limiter (`shared/rate_limit.rs`) | a map of windows in memory | check | auth handlers | never more than the limit in a window |
| E-mail (`shared/email.rs`, `shared/background.rs`) | none | spawned tasks | after commits | nothing is promised |
| Extraction, JWT, security headers, errors, pagination, configuration, `bin/` | none | pure | | not modelled |

The behaviours that are hard to test - lock order, stale reads between statements, partial
failure across PostgreSQL and Cloudinary, a worker racing requests - are listed one by one,
at their lines, under `hazards` in `PROJECT.json`.

## Modules

| Module | What it is |
|---|---|
| `OrderQuantities` | sums of quantities over order lines, as cardinalities (no recursion, so that they can be proved about) |
| `OrderQuantities_proofs` | what appending a line, adding or removing an order does to those sums |
| `OrderStock` | orders, stock, carts and the transactions over them |
| `OrderStockInv`, `OrderStock_proofs` | its inductive invariant; the theorems |
| `RefreshSessions` | refresh tokens, the foreign keys among them and to their user, and the transactions over them |
| `RefreshSessionsInv`, `RefreshSessions_proofs` | its inductive invariant; the theorems |
| `VerificationCodes` | accounts, the codes e-mailed to them, their links with a login provider, and the transactions over these |
| `VerificationCodesInv`, `VerificationCodes_proofs` | its inductive invariant; the theorems |
| `Images` | the images of products, the image store, the requests and the worker that write to both |
| `ImagesInv`, `Images_proofs` | its inductive invariant; the theorems |
| `SlugDirectory` | abstract: what looking rows up by slug promises |
| `Catalogue` | categories, the slugs of products and categories and their history; implements `SlugDirectory` twice |
| `CatalogueInv`, `Catalogue_proofs` | its inductive invariant; the theorems, the refinement among them |
| `Customer` | what one customer's requests write: addresses, checkouts as far as the address is concerned, profile image, payment slips, cart |
| `CustomerInv`, `Customer_proofs` | its inductive invariant; the theorems |
| `MC*` | instances for TLC, each used by the `.cfg` files named after its module |

Each group has its tables to itself, or its columns of a table that another group writes too: of `products`,
`OrderStock` has stock, price and `is_active`, `Images` the image, `Catalogue` the slug and category; of
`users`, `VerificationCodes` has the account and `Customer` the image. So they are checked apart.
Where two meet, each has what the other does to it: `UserFree` and `userLock` of `RefreshSessions` stand for the requests
that hold the account, `CloseOrder` and `ChangeStock` of `Customer` for the steps of `OrderStock`,
`BeginUpdate` of `Images` and `BeginUpdateProduct` of `Catalogue` are the parts of one `update_product`.

All models share their shape. The variables are committed rows. `tx[t]` is the request or worker
`t`: where it is (`pc`), what it has read, what it has written and not committed. A step is one SQL statement,
or the ones after it up to the next that waits or reads what others write. `Begin...` starts a
transaction, `Commit...`/`Write...` ends it, and a rollback forgets the record and releases the locks. History
variables are named as such; no action is guarded by one.

### OrderStock and the code

The database variables (`stock`, `price`, `active`, `status`, `lines`, `owner`, `tracking`,
`slip`, `cart`) hold committed rows. `tx[t]` is the transaction run by `t`, a request handler or
a cleanup worker: where it is (`pc`), what it has read and what it has written and not yet
committed. A rollback forgets the record and releases the locks `rowLock`, `orderLock`.
`supplied` is history: the units ever put on sale, corrected by each admin edit.

| Action | Code |
|---|---|
| `BeginCreate`, `LockLine`, `RejectLine`, `TakeLine`, `ClearCart`, `CommitCreate` | `create_order`, statement by statement: lock and check a product row, take from it, go on with the next item; clear the cart; commit |
| `BeginAdmin`, `CommitAdmin` | `update_order_for_admin`: the transition and tracking rules under the order's lock |
| `BeginSlip`, `CommitSlip` | `update_order_payment_slip` |
| `BeginStale`, `CommitStale` | `cancel_stale_orders`: the oldest stale orders nobody has locked, at most `BatchSize` |
| `RestoreRow`, `RestoreOverflow` | the `UPDATE products ... FROM` of both cancellations: row by row, waiting for locks, failing when the result leaves the column |
| `UpdateProduct`, `DeleteProduct` | the stock, price and `is_active` columns of `update_product`, `delete_product` |
| `AddToCart`, `RemoveFromCart` | rows of `cart_items` coming and going |
| `TimeOut` | the clock passing the timeout of an order |
| `DeadlockVictim` | PostgreSQL aborting one transaction of a cycle of waiters |
| `Abort` | the process, the connection or the client is lost in mid-transaction |

Left out on purpose: the lock `create_order` takes on the address row (it is in
`Customer`), and the lock `update_order_for_admin` takes on the buyer's row next to the order's. The latter delays
requests of the buyer, and it can be in a lock cycle with the deletion of an address, which holds the buyer and
reaches the order by `ON DELETE SET NULL`; neither has committed anything then, so the victim leaves what `Abort` leaves. Also left out: amounts of money, a function of the lines; UUIDs, which are numbers in creation
order; the time at which a waiter for an *order* row queues (a `Begin` action happens when
the row is free); an upsert that only raises a cart quantity; the text of e-mails. The
restore of the worker computes `SUM(quantity)::INT`; its overflow is the outcome
`RestoreOverflow` already has.

### RefreshSessions and the code

`rows`, `owner`, `family`, `next` (= `replaced_by_token_id`), `consumed`, `revoked` and
`expired` are the columns of `refresh_tokens`; `fresh` holds the tokens consumed less than
`REFRESH_TOKEN_IDEMPOTENT_WINDOW_SECONDS` ago. `tx[t]` is a request or the cleanup worker, as in
`OrderStock`. History: `answers[k]` are the tokens handed out for `k`, `epoch[u]` counts the
password changes of a user, `born[k]` is the epoch of the login `k` descends from.

| Action | Code |
|---|---|
| `BeginRotate`, `Insert`, `CommitRotate` | `rotate_refresh_token` with an unused token: lock it; build the successor; `UPDATE`, `INSERT` (waits for the users row, then holds its key share), `UPDATE`; commit |
| `BeginRepeat`, `AnswerAgain`, `DetectReuse` | the same with a token consumed before: lock its successor; hand it out again, or go on to the revocation |
| `Select`, `TakeRow`, `CommitRevoke` | `revoke_refresh_token_family`: the `UPDATE` fixes its rows when it starts and locks them one by one, in any order |
| `BeginLogout`, `BeginCleanup`, `BeginPassword`, with `Select`, `TakeRow`, `TakeLink`, `CommitDelete` | `logout`; the worker's `DELETE` of expired tokens; `change_password`, `set_password` and `reset_password`, which lock the users row first. `TakeLink` is `ON DELETE SET NULL` reaching the rows that point at the deleted ones |
| `Login` | `create_refresh_token`, for its four callers |
| `Age`, `Expire` | the clock |
| `DeadlockVictim`, `Abort` | as in `OrderStock` |

A client is not modelled: any committed token may be presented at any time, which covers
every retry, every second tab and every lost answer. Left out: requests refused with
no change (unknown, revoked or expired token, wrong password); `parent_token_id` except as a row that a deletion
locks; the reads `login` makes before its `INSERT` (its hazard is listed, and no document
promises otherwise); `is_active`, which no code changes; the code that
`reset_password` locks before the user; access tokens, which are not stored.
A `Begin` action happens when the first row is free, because nothing is held while waiting for
it; every later wait is a state.

### VerificationCodes and the code

`addr`, `verified`, `password` and `old` are columns of `users` (`email`, `is_verified`,
`password_hash`, an `updated_at` before the retention limit); `row[c]` is the row of code `c` in
`email_verifications`, or `NoRow`. A code is the number of the request that made it and a
password is named by the registration that chose it. History: `row[c].madeFor`, the password the account had when
`c` was made; `guesses` and `uses`, the wrong and the right presentations of each code.

| Action | Code |
|---|---|
| `BeginRegister`, `InsertUser` | `create_email_verification`: lock the account of the address, or insert it, which waits for and may fail on the unique index |
| `BeginResend`, `BeginForgot`, `BeginChange` | `resend_email_verification`, `request_password_reset`, `request_email_change` up to the replacement of the code |
| `Delete`, `TakeRow`, `InsertCode`, `CheckKey`, `CommitCode` | `replace_email_verification`, `replace_email_change_verification`: the `DELETE` fixes its rows when it starts and locks them in any order; the `INSERT` waits for other inserts and deletions of a colliding row, and fails when one has committed since; its foreign key waits for the users row; commit |
| `Mail` | the handler sending the code after the commit, and the `clear_pending_*` it runs when it cannot |
| `BeginVerify`, `BeginCheck`, `Find`, `Load`, `Refuse`, `Wrong`, `Right` | `verify_email_and_issue_tokens`, `reset_password`, `verify_email_change`, and `load_and_validate_email_verification` (and its twin in `user/service.rs`) in them |
| `ResetPassword`, `LockMove`, `Move` | what the last two do with a right code |
| `BeginSocial`, `BeginConnect`, `InsertLink`, `CommitLink` | `resolve_social_user`, `link_social_identity`: the account is locked, or inserted; `insert_provider_link` waits for and may fail on the unique index; the account is marked verified with the commit |
| `BeginCleanup`, `BeginPurge`, `CommitDelete` | the worker's `DELETE`s of expired codes and of accounts never verified, with `ON DELETE CASCADE` |
| `Expire`, `GrowOld`, `DeadlockVictim`, `Abort` | as above |

Whether a presented code is the right one is a free choice, so every guess is covered. Left
out: registrations without an account (codes with a NULL `user_id` for `REGISTER`, which no code writes
since migration 002 emptied the table); the rate limits in front of the handlers; `is_active`; the sessions that
`verify` issues and `reset` revokes (`RefreshSessions`); password changes of logged-in users, which
need a verified account. Links are those of one provider, since no statement touches two providers' rows. A social login that finds its
identity linked changes nothing: `maybe_mark_user_verified_from_social` would only write to an account that is linked and not
verified, and `AccountsAreUnique` says there is none. Simplified: `replace_email_verification` issues two `DELETE`s, by address and by account, modelled as one
(the model's may take its rows in either order); the purge takes one account at a time.

### Images and the code

`stored` is the image store; `pending` (with `expired`) is `pending_product_images`, `queue` is
`pending_product_image_deletions`, `gallery[p]` the rows of `product_images` and `shown[p]` is
`products.image_public_id`. `unsent` are the uploads still to come. History: `raced`, set when an
update went on from a read that was no longer true.

| Action | Code |
|---|---|
| `Upload`, `SavePending`, `SaveFails` | `upload_image`: the file is in the store, then its row is written, or the file taken back |
| `BeginCreate`, `BeginUpdate`, `BeginAttach`, `BeginReorder`, `BeginDelete` | the handlers up to the start of their transaction; `BeginUpdate` reads the previous image there, without a lock (`product/handler.rs:102`) |
| `LockProduct`, `KeepImage`, `ConsumePending`, `RejectUpload`, `RejectRequest` | `lock_product_for_update` and the gallery read under it; `consume_pending_product_image`, a `DELETE` that waits for another one; the refusals |
| `CommitImage` | `replace_primary_product_image`, `attach_product_image`, `apply_product_image_order`, `delete_product_image_internal`, each with its `sync_product_primary_image`, and the commit |
| `Discard`, `DiscardFails` | `delete_cloudinary_image_or_queue` after the commit; a failed call may have deleted the file nevertheless |
| `BeginPass`, `SweepFile`, `SweepRow`, `SelectQueue`, `RetryFile`, `RetryRow`, `SkipFile`, `EndPass` | the worker's two loops, a store call and a row at a time |
| `Expire`, `Abort` | the clock; lost requests and failed statements |

Left out: who uploaded an image (one admin); the image's URL, which its id determines; the limit of
100 images a pass takes; the name a gallery row has in requests (its id), since
an image is in it once.

### Catalogue and the code

`name` and `slug` are columns of `categories` and `products`, `former` their history tables,
`assigned` is `products.category_id`. `SlugOf[x]` is the sequence `slugify(x)`, and the same with
`-2`, `-3`, ... as `append_slug_suffix` makes it, so that two names can collide. History:
`tx[t].free` says that at some moment no other row had, or had had, the slug a request is looking at, and `overtaken`
that such a slug was taken and given up by another row before the request wrote it.

| Action | Code |
|---|---|
| `BeginCreateCategory`, `BeginUpdateCategory`, `BeginCreateProduct`, `BeginUpdateProduct` | the requests up to their transaction, `ensure_category_exists` included |
| `LockRow`, `RowIsGone` | `lock_category_for_update`, `lock_product_for_update` |
| `CheckName`, `NameIsTaken` | `ensure_category_name_available` |
| `CheckCandidate` | one `SELECT` of the loop of `generate_unique_category_slug`, `generate_unique_product_slug`: on the table, then on the history, then the next suffix |
| `WriteRow`, `RefuseWrite` | the `INSERT` or `UPDATE`, `save_..._slug_history`, the commit; what the indexes and the foreign key refuse |
| `BeginDeleteCategory`, `DeleteCategory` | `delete_category`: the count, then the `DELETE` with its cascade and `ON DELETE SET NULL` |
| `Lookup` | `get_category`, `resolve_active_product_by_identifier` with a slug: the row that has it, or else the one that had it |

Simplified: the writes of a request come with its commit. A second writer of the same slug waits for the
first and is then refused, or goes on if that one is rolled back, which is what the
model's later `WriteRow` finds. A `DELETE` of a category that has to wait is modelled as not begun. Lookups
ignore `is_active` (in `OrderStock`): a link to a deactivated product leads to it, and is answered 404.

`Catalogue` implements `SlugDirectory` for products and for categories: `canonical` is `slug`,
`leads` is the function from slugs to what `Lookup` finds. `WriteRow` is `Publish` or a stutter, `DeleteCategory` is
`Delete`, every other step a stutter. `SlugDirectory` is strict: a slug leads to one row until that row is deleted, whatever other rows
are named. The code implements it up to the first step that sets `overtaken`, which `LinksOfProducts` and `LinksOfCategories`
say (`[][overtaken' \/ ...]`); what happens then is under Findings.

### Customer and the code

`book` are the rows of `addresses` in the order of `created_at`, `orders[o]` what an order
copied from its address, which address it refers to, its slip and whether slips are still
taken; `avatar` is `users.image_public_id`, `stored` the image store, `cart` the quantity of one cart row, `stock` what
its product has. History: `peak`, the highest `stock` has been; `unanswered`, set when a commit went through and the
answer was lost.

| Action | Code |
|---|---|
| `BeginCreateAddress`, `BeginUpdateAddress`, `BeginDeleteAddress`, `LockOwner`, `ReadAddresses`, `AddressIsGone`, `WriteAddresses` | `create_address`, `update_address`, `delete_address`: `lock_address_owner`, the rows locked, `select_replacement_address_id`, the writes |
| `BeginCheckout`, `PickAddress`, `NoSuchAddress`, `PlaceOrder` | `create_order`: the address `FOR UPDATE`, the `INSERT` with its foreign key to the customer, the cart cleared |
| `BeginProfileImage`, `BeginSlip`, `BeginRemoveImage`, `LockProfile`, `LockOrder`, `OrderIsClosed`, `WritePicture`, `Discard` | `update_profile` and `update_order_payment_slip` with their handlers: upload, row lock, write, commit, deletion of the previous file |
| `SaveFails`, `WriteUnanswered` | the transaction fails and the handler takes its upload back - also when only the answer to the commit was lost |
| `BeginCart`, `WriteCart`, `RefuseCart`, `DropCart` | `fetch_active_product_availability`, then the upsert or update; `remove_item_from_cart`, `clear_cart` |
| `DeadlockVictim` | a checkout holds an address and asks for the customer, an address request the other way round |
| `CloseOrder`, `ChangeStock`, `Abort` | `OrderStock`; lost requests |

What `ReadAddresses` keeps of the addresses is `Seen`: whether the address is, or is to be, the default (`Defaults`), and which
one takes its place (`Replacement`, the `Latest` of the `Others`). `Written` is what the statements up to the commit make of the
book. One customer is enough: no statement touches the rows of two. One product in the cart, since the rows of a cart are independent.
Left out: profile images that are not in the store (a provider's avatar), which `Discard` would not
find; the customer's name and telephone number; a profile update that keeps the image; the products and the status of an
order, which are in `OrderStock`.

## Runs

| Run | Instance | What it shows |
|---|---|---|
| `orders` | 1 product, 2 prices, request lists that repeat the product, 1 cart row, 2 handlers, 1 worker whose batch is 2, 2 orders, every target status but `PAYMENT_REVIEW`, which only slips reach here | `TypeOK`, `NoOversell`, `LockedStockSuffices`, `ShippedIsTracked`, `CheckoutIsAtomic`, `OnlyDocumentedMoves`, `AutoCancelOnlyStale` |
| `orders_live` | 2 products ordered in opposite orders, 2 handlers, a worker whose batch is 1, stock edits of 1 product, fairness | `StockConserved`: deadlocks, both kinds of cancellation, restores that overflow and edits lose and create no unit; `EveryTransactionEnds`, `StaleOrdersAreHandled` |
| `repeat` | a request list that repeats a product, stock edits | *violates* `StockConserved` (below) |
| `sessions` | 1 user, 2 requests at a time, 3 tokens, 1 password change, 1 expiry, 1 lost transaction, fairness | `TypeOK`, `InsertNeverConflicts`, `OneAnswer`, `PasswordEndsSessions`, `SessionsStayEnded`, `RequestsEnd` |
| `reuse` | 2 requests at a time, 4 tokens | *violates* `ReuseEndsSession` (below) |
| `codes_register` | 1 address, 2 accounts to come, 2 requests at a time, 2 codes, 1 expiry, 1 lost transaction, 1 identity, fairness | `TypeOK`, `CodeVerifiesItsPassword`, `VerifiedAccountsStay`, `OwnersLink`, `ExpiredCodesGo` |
| `codes_change` | 1 verified account, 1 to come, 2 addresses, 3 requests at a time, 2 codes of 2 attempts, 2 expiries, 1 identity | `AccountsAreUnique`, `AttemptsAreLimited`, `DeletedCodesStayDead` |
| `images` | 2 products, one of them created, 2 requests at a time, 1 worker, 3 images of which a product may have 2, 1 fault | `TypeOK`, `GalleryAgrees`, `UploadsAreUsedOnce`, `GalleriesExist`, `NothingLeaks` |
| `images_replaced` | the same without faults | *violates* `ReplacedImagesGo` (below) |
| `catalogue` | 2 categories, 2 products, 2 names whose slugs collide, 2 requests at a time of 4 | `TypeOK`, `OneRowPerSlug`, `LinksOfProducts`, `LinksOfCategories` |
| `catalogue_delete` | 1 category, 1 product | *violates* `OnlyEmptyCategoriesGo` (below) |
| `customer` | 3 addresses with 2 contents, 1 order, 2 files, stock up to 2, 2 requests at a time of 5, 1 fault | `TypeOK`, `OneDefault`, `ShippedAsAddressed`, `PicturesExist`, `NoFileIsForgotten`, `CartIsCovered` |

Bounds of `OrderStock`. Two orders and two handlers with one worker are the fewest with a lock cycle
between checkouts, a cancellation racing a checkout for the same product, and a worker whose
batch is smaller than what is stale (`BatchSize` 1 with 2 orders) or takes both (2). `MaxInt`,
the largest value of an INT column, is 2 in `orders_live`, 3 or 4 elsewhere: so small that a restore on top of an admin's edit overflows. `MaxFaults`
bounds lost transactions (1 in `orders`, none in `orders_live`, where overflows and deadlock victims roll back), `MaxOrders` and `MaxCartRows` what is ever inserted. Handlers are
interchangeable (`SYMMETRY`, in safety runs only, here and below).

Bounds of `RefreshSessions`. Three tokens are a login and two rotations, or two sessions and a
rotation: the fewest with a token whose successor has been used, and with a family next to another.
Two requests at a time are two that present tokens of one family, or one of them and a
password change, logout or cleanup. One user is enough for the properties, which never
relate two users' tokens; the proofs have any number. `reuse` needs a fourth token, because the reused token, its
successor, the token being rotated and the one inserted meanwhile are all different.

Bounds of `VerificationCodes`. Two codes are an old and a current one, or those of two purposes; `codes_change` has three requests
because two that read the same number of attempts and a third that
spends the last one are different. It also has a registration, a social login and an e-mail change for the same
address at once, and two workers that delete the same expired codes in opposite orders, the shortest lock cycle.
One identity is what two logins, or a login and a link request, race for.
`MaxAttempts` is 2 in place of 5: the count is only compared with the limit.

Bounds of `Images`. Three images are one shown, one that replaces it and one that replaces that; two a
product may have are a primary and another. Two requests and the worker
are the actors of every race here; a pass of the worker may overlap any of their steps.

Bounds of `Catalogue`. The name `A 2` has as its slug what `A` gets when `a` is taken, so that the
loop goes on, is overtaken, and runs into the history; four requests create two rows, rename one and give its old slug
to the other. `MaxRequests` also bounds the suffixes: every name has more slugs than there are requests.

Bounds of `Customer`. Three addresses are one deleted, one that takes its place as the default and one that does
not; five requests create three addresses, place the order and edit or delete one.

Fairness (`orders_live`, `sessions`, `codes_register`). `SF(Step(t))`: a transaction that can move again and again does, because
PostgreSQL queues the waiters of a row and tokio polls every task. `WF` on `DeadlockVictim`:
the deadlock detector fires after `deadlock_timeout`. In `orders_live`, `SF(BeginStale)`, and in
`codes_register`, `SF(BeginCleanup)`: the worker's interval
ticks for ever. Nothing is assumed of customers, admins, faults or time, but for the first of two conditions of `StaleOrdersAreHandled`.
`EveryTransactionEnds`, `RequestsEnd` and `ExpiredCodesGo` say that something is the case again and again, the first two of each request.
The instances of the first two have lock cycles, and the two properties rest on the detector seeing every waiter: when the requests of one kind ask
again instead of waiting in the queue of the row (their mutants), a cycle through one of them stays for ever.

`StaleOrdersAreHandled` has two conditions. *Room* (`<>[]~Overfull`): admins may set a stock so high that the units of an
order over its timeout no longer fit into the column. The `UPDATE` of the worker then fails, the whole batch is rolled back, and the next pass
begins with the same order, so that those behind it keep their stock too. Without this condition TLC finds that
behaviour: `BeginStale` and `RestoreOverflow` for ever. It takes a stock near 2^31, and an edit that lowers it ends it: the
property says that then the worker catches up. *No deadlock for ever*: the worker could be the victim every time,
and neither PostgreSQL nor the code excludes it. For the same reason `ExpiredCodesGo` is
checked where no two statements can lock each other out for ever; two workers and several expired codes could. Deadlock checking is off in these
three runs only, where the bounds are meant to end the run's activity; in the others an explicit `Quiescent` step says
where the model may stop.

### Findings

`repeat`: `create_order` accepts a list that names a product in two items, and takes stock for
both. The restore of `update_order_for_admin` (`order/service.rs:477`) joins `products` with
`order_items`; PostgreSQL updates a target row once, whatever the number of rows it joins with. Cancelling
such an order as an admin returns the units of one item only. The cleanup worker sums per product
first and is not affected. Hence `StockConserved` is proved for request lists without
repetition, and `NoOversell` for all.

`reuse`: when a token is found reused, `revoke_refresh_token_family` updates the tokens of the family that its
statement sees at its start. If the latest of them is being rotated just then, the
`UPDATE` waits for that row and never sees the successor, inserted by a transaction
that had not committed. The caller is told to log in again, as `API_DOCS.md` says, but the
successor stays active and the session goes on. This is why `ReuseEndsSession` is not among
the theorems. `OneAnswer` and `SessionsStayEnded` hold nevertheless. A password change is not affected: its lock on the users row
keeps the `INSERT` out (`PasswordEndsSessions`).

`images_replaced`: `update_product` reads the image to delete before its transaction (`product/handler.rs:102`). Two updates that
replace the image at the same time both delete the first one; the one shown in between is neither deleted
nor queued, although the README says that replaced images are. `GalleriesExist` and `NothingLeaks` therefore have
the condition `~raced`. It also covers an upload that expires while the request that uses it is in
its transaction: `NOW()` is the transaction's start, so the worker may already have deleted the file.

`catalogue_delete`: `delete_category` counts the products of a category and deletes it in a second statement; a product that
is put into it in between loses its category, against the function's comment and `API_DOCS.md`.

`overtaken`, in `catalogue`: `API_DOCS.md:1288` says that a current or an old slug resolves to the same product,
`API_DOCS.md:1610` that an old slug still finds its category. The code does not keep this in one interleaving: a request for
row a finds a slug free in the table and in the history; row b is written with it and renamed; then a is written
(`product/service.rs:186` and `276`, `category/service.rs:26` and `101`). The index compares a's slug with the slugs of that moment only, not with the
history, and a lookup prefers the row that has a slug to the one that had it: b's old link leads to a. The run reaches this, and without
`overtaken'` in their definitions both `LinksOfProducts` and `LinksOfCategories` are violated by it. So what is shown and proved of
links, here and by `OneRowPerSlug`, ends at that moment, by the letter of these properties. It is not a run of its own.

## Proofs

All proofs hold for every value of the constants within the named assumptions: any sets of
products, users, handlers, workers, request lists with repeated products and bad quantities
included. `MaxInt` and `MaxLines` are arbitrary.

In `OrderStock`, `IInv` (`OrderStockInv`) is inductive: `Init => IInv` (`InitInv`), `IInv /\ [Next]_vars => IInv'`
(`NextInv`). The properties alone are not: `NoOversell` speaks of committed rows, and the step
that may break it is a commit, which is right because of what the transaction established several steps
earlier and what its locks have kept true since. So `IInv` adds, for each transaction,

- `LocksInv`: which rows it holds;
- `CreateInv`: a checkout holds the row of every product it has taken from, and what it took from
  each is still in stock, at the price it read (`TakeInv`, `DoneInv`); what is left of the basket is what its DELETE saw (`CartInv`);
- `StatusInv`: a cancellation will return what its orders hold, or less when a product is
  repeated (`RestorePlan`), into rows it holds and where it fits (`RestoreInv`);
- `MoveInv`: the check of the transition still holds of the orders it has locked.

Each action is one lemma, in which most transactions are untouched (`Frame` lemmas) and one
changes. The arithmetic is in `OrderQuantities_proofs`: a sum is the cardinality of a set of units,
so that appending a line or moving an order adds or removes a disjoint set.

| Theorem | Establishes |
|---|---|
| `Invariance` | `Spec => []IInv` |
| `TypeCorrect` | `[]TypeOK`, stock within the column |
| `NothingSoldTwice` | `[]NoOversell` |
| `NothingLost` | `[]StockConserved`, assuming `DistinctRequests` |
| `UpdateNeverMisses` | `[]LockedStockSuffices`: the error return at `order/service.rs:135` is dead code |
| `TrackedWhenShipped` | `[]ShippedIsTracked` |
| `AtomicCheckout` | `CheckoutIsAtomic` |
| `MovesAreDocumented` | `OnlyDocumentedMoves` |
| `StaleWhenCancelled` | `AutoCancelOnlyStale` |

In `RefreshSessions`, `IInv` (`RefreshSessionsInv`) is again inductive, and its conjuncts are what
the properties rest on: `OneActive`, the unique index of the migration derived from the code; `AnswersInv`, which
ties `answers` to `next` and `consumed`; `TokensInv`, which keeps the tokens not yet inserted
untouched, so that a new one is always the first of its row. Per transaction, `RotateInv` says that a token being rotated is
locked, still active, and that its successor is nobody else's; `RepeatInv` that the successor waited for is the only answer so
far; `PasswordInv` that the `DELETE` of a password change has every token of the user behind it or ahead of it.
`UsersInv` is the meeting point: no rotation of a user has inserted while a password change holds the users row.
The proof has one lemma per action; `LocalStep`, `StatementStep` and `VisitStep` handle at once
the steps that commit nothing, `Frame`/`OthersKeep` the other transactions.

| Theorem | Establishes |
|---|---|
| `SessionInvariance` | `Spec => []IInv` |
| `TypeCorrect` | `[]TypeOK` |
| `RotationNeverConflicts` | `[]InsertNeverConflicts`: no refresh fails on the unique index |
| `OneSuccessor` | `[]OneAnswer` |
| `PasswordRevokes` | `[]PasswordEndsSessions` |
| `SessionsEnd` | `SessionsStayEnded` |

In `Catalogue`, `IInv` (`CatalogueInv`) says of each request which kind it is at which point (`Shape`), that a row being created is nobody
else's and not there yet (`CreateInv`), and that a row being updated is locked and there (`UpdateInv`). `SearchInv` is what makes two separate `SELECT`s
sound: unless the slug was free at some moment, another row has it, or has had it *and will still have it in its history when the
request looks there*; so a slug that both `SELECT`s pass was free (`WriteInv`), and if it is not any more,
the index refuses it or it was overtaken. `RowsInv` is what the indexes keep. The property `OneRowPerSlug` is not inductive without them, since
the step that would break it is the `INSERT`, several statements after the search. For the refinement, `IInv` gives that a lookup has one
answer, and the proof goes through the actions. `WriteRow` (`WriteLinks`): the new slug led to nobody else, which follows from `WriteInv` and
from the step not setting `overtaken`; the old one is in the row's own history afterwards, and by `OneRowPerSlug` in no other's; so one link changes.
`DeleteCategory` (`DeleteLinks`) removes the links to the category, all other steps change none.

| Theorem | Establishes |
|---|---|
| `CatalogueInvariance` | `Spec => []IInv` |
| `CatalogueTypes` | `[]TypeOK` |
| `SlugsAreUnique` | `[]OneRowPerSlug` |
| `ProductLinksLast`, `CategoryLinksLast` | `LinksOfProducts`, `LinksOfCategories`: `Spec` implements `SlugDirectory` until a slug is overtaken |

In `VerificationCodes`, `IInv` (`VerificationCodesInv`) has, for each transaction, besides which kind it is at which point (`Shape`, `Subject`),

- `HoldInv`: the account it found by its address is still at that address and still not verified, or still verified, because it holds the row.
  This is what makes `CodeVerifiesItsPassword` inductive: the commit of a new code, the password it was made under, and the
  verification are several statements apart, and every other writer of the account waits for the row;
- `CreateInv`: an account being inserted is nobody else's, and once it is in the unique index its address is nobody else's either;
- `MakeInv`: the same for a code and the two unique indexes of `email_verifications`;
- `DeleteInv`: a row that a `DELETE` has visited is locked until the commit, and a purge has every code of its account behind it or ahead of it;
- `CheckInv`: the code it checks is there, with the number of attempts it has read;
- `LinkInv`: an identity being linked is nobody else's.

`CodesInv` ties the history `guesses` to the column `attempts`, without which `AttemptsAreLimited` is not inductive. The action properties follow
from `IInv`: a code is accepted by a transaction that holds its row (`CheckInv`), an account is deleted by one that holds it unverified,
a link is written by one whose account is new, not verified, or its own (`HoldInv`, `CreateInv`).

| Theorem | Establishes |
|---|---|
| `Inductive` | `Spec => []IInv` |
| `TypeCorrect` | `[]TypeOK` |
| `VerifiesItsPassword` | `[]CodeVerifiesItsPassword` |
| `UniqueAccounts` | `[]AccountsAreUnique` |
| `LimitedAttempts` | `[]AttemptsAreLimited` |
| `CodesDieOnce` | `DeletedCodesStayDead` |
| `VerifiedAreKept` | `VerifiedAccountsStay` |
| `LinkedByOwner` | `OwnersLink` |

In `Customer`, `IInv` (`CustomerInv`) has `Shape`, and

- `AddressInv`: a request past `lock_address_owner` holds the row of the customer, and what it has read of the addresses is still so at the write.
  Nobody else can be there, which is why `OneDefault` never needs the unique index; that the
  addresses written have one default when the ones read had is the lemma `NewDefault`, by cases of the three requests;
- `CheckoutInv`: the address a checkout has picked is locked, there, and says what was copied. Since
  address requests lock the addresses they write, a write leaves it alone (`WriteAddressesStep`);
- `FileInv`: the file of a request is in the store, not shown and nobody else's; `PreviousInv`: what it is going to delete is what is shown, since it
  holds the row; `ShownOnce`: no file is shown twice. Without these a deletion could take a picture that is shown. They are
  claimed until an answer to a commit is lost (`~unanswered`), as `PicturesExist` is;
- `CartInv`: the stock a request has read is one there has been.

`QuietStep`, `CommitStep`, `RollbackStep`, `PictureStep` and `EnvironmentStep` say what the steps of a
kind have in common; each action is then one lemma. The book is a sequence, in the order of `created_at`: `OthersFacts`, `WrittenFacts` and
`NamedAfter` turn it into facts about ids. `NoOrderAssumption` says that `None` is not a record.

| Theorem | Establishes |
|---|---|
| `Inductive` | `Spec => []IInv` |
| `TypeCorrect` | `[]TypeOK` |
| `AlwaysOneDefault` | `[]OneDefault` |
| `ShipsAsAddressed` | `ShippedAsAddressed` |
| `ShownPicturesExist` | `[]PicturesExist` |
| `FilesAreRemembered` | `[]NoFileIsForgotten` |
| `CartsAreCovered` | `[]CartIsCovered` |

In `Images`, `IInv` (`ImagesInv`) has `Shape`, and three parts.

- What a request relies on between its read and its commit. `LockInv`: a request past `LockProduct` holds the row of the product, and the
  gallery and image it has read are still there; `CreateInv`: nobody else knows of a product being created (`EmptyInv`: it has no images);
  `ConsumeInv`: the upload it has deleted from `pending_product_images` is locked, so that neither another request nor the worker can take it.
  With these `UploadsAreUsedOnce` is inductive.
- What the commit writes. `GalleryAgrees` is kept by `Attached`, `Replaced`, `Reordered` and `Removed`: a lemma each
  (`AttachedFacts`, ...), about any finite gallery. They need what `ORDER BY` gives: the listing is defined by the number of rows that come before
  a row, and `RankFacts`, `RankedFacts` and `ListingFacts` show that it lists each image once, the shown one first.
- The life of a file (`LifeInv`). `GalleriesExist` is far from inductive: the deletion of a file comes after a commit, or after a fault and a
  restart of the worker. `Dead` are the uploads nobody has a use for any more, and `DeadLasts` says that
  this never changes: nothing shows, saves or lists as pending a file it did not before, save for a new upload. `StoreInv` says that what is queued, or
  about to be deleted, is dead (or an expired upload), and that everything else is in the store; `LeakInv` says where the files are while nothing has failed.
  `StoreInv` is claimed until an update goes on from an outdated read (`~raced`), as `GalleriesExist` is: there the code may delete a file in use (findings above).

`QuietStep` covers the steps that only move a request, `FileStep` those that touch files and not galleries, and
`CommitStep` the commit.

| Theorem | Establishes |
|---|---|
| `Inductive` | `Spec => []IInv` |
| `TypeCorrect` | `[]TypeOK` |
| `GalleriesAgree` | `[]GalleryAgrees` |
| `UploadsUsedOnce` | `[]UploadsAreUsedOnce` |
| `GalleriesAlwaysExist` | `[]GalleriesExist` |
| `NothingIsLeaked` | `[]NothingLeaks` |

Each `IInv` is also an invariant that TLC finds true on the instances of the runs.

Only model-checked: the liveness properties `EveryTransactionEnds`,
`StaleOrdersAreHandled`, `RequestsEnd` and `ExpiredCodesGo` (the prover has no rules for
fairness) and the absence of states where everything waits (TLC's deadlock check).

## Not modelled

- Login tickets (`oauth_login_tickets`): each is inserted by one statement and taken by one `DELETE ... RETURNING`, so that of
  two exchanges of a ticket one finds it; the calls to Google and GitHub, and the cookies of the redirects, keep no state here.
- The order of the steps of a cleanup pass. A pass stops at its first database error and starts from the top at the next tick. No document
  promises more, and the schema gives the first four statements nothing to fail at again and again; a batch of orders that overflows (above) keeps
  the images of that pass waiting as well. The steps are modelled where their tables are, each on its own.
- The rate limiter: counters of one process under a mutex, on which no other component depends.
- An admin's stock value written over sales made since the form was loaded. `update_product` has no version or condition to tell, and no
  document promises one: `supplied` takes the edit for the new truth, so `NoOversell` and `StockConserved` say nothing about it. What they and
  `LockedStockSuffices` say is that an edit never comes between the check of a checkout and its `UPDATE`.
- Background e-mail, whose outcome nothing waits for (the e-mail of a code, which a request does wait for, is in `VerificationCodes`).
- Request extraction, authorization, JWT, headers, error mapping, pagination, configuration, start-up: functions of one request or of the environment.
- The command line tools and demo data of `bin/`; deployment, scripts. Of the schema, the constraints are part of the actions that meet them.

## Plan

`Inventory`, an abstract specification in which an order takes its
units, and a cancellation returns them, in one step, with `OrderStock` shown to implement it.
