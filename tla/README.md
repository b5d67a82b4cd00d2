# Cake O'Clock backend in TLA+

The backend takes cake orders from a website and from WhatsApp, takes payment
through PayU, gives each order to a baker and a rider, follows the delivery on a
map and tells everybody on WhatsApp. These modules model the parts where it is
easiest to go wrong and hardest to test: one order, written by many handlers; its
delivery, followed by many sockets; the messages that go out about it and those that
come in; the conversation that orders a cake; the checkout; and the staff's shifts.

## The system

One FastAPI process serves HTTP, webhooks and WebSockets. Routes are plain
functions, so they run on a pool of threads; each has a database session of its
own. `payu_callback` and the sockets run on the event loop. A second process,
the event worker, runs the morning queue and reads a Redis list. State is in
PostgreSQL (orders, users, messages, shifts, coupons, stock) and Redis (positions of
riders, one-time codes, message de-duplication).

| Component | State it keeps | Operations | What makes it correct | Module |
|---|---|---|---|---|
| Order lifecycle (`models/order.py`, `services/order_service.py`, `api/routes/orders.py`) | the order's row | create, change status, cancel, retry | each change is in the table, each gate opens with its key | `OrderLifecycle` |
| Proof of work (`api/routes/orders.py`) | photograph, approval, handover photograph | upload, verify, reject, handover | a cake is packed on the photograph on its order, and that one was approved | `OrderLifecycle` |
| Payments (`api/routes/payments.py`) | payment status, transaction id | create payment, demo, callback, release | money taken settles the order, once, and releases it | `OrderLifecycle` |
| Assignment engine (`services/assignment_engine.py`) | baker and rider of an order | assign, transfer, accept | an assigned and payable order moves on | `OrderLifecycle` |
| Staff commands (`api/routes/webhook.py`) | none | APPROVE, REJECT, PAID, CANCEL, START, DONE, ... | do what the website does | `OrderLifecycle` |
| Event worker (`workers/event_worker.py`) | the day it last ran | morning queue, events | queued orders get a baker each morning | `OrderLifecycle` |
| Delivery tracking (`services/delivery_tracking.py`) | three Redis keys per delivery | start, ping, reassign, stop | only who carries a delivery goes on reporting it | `LiveTracking` |
| Fleet and sockets (`services/fleet_tracking.py`, `api/routes/websocket.py`, `core/broadcast.py`) | open sockets, tracked orders | connect, fan out, wind down | everybody watching learns that a delivery ended | `LiveTracking` |
| WhatsApp outbox (`services/wa_outbox.py`, `services/whatsapp_sender.py`) | a row per message | queue, attempt, retry | a message goes out twice only for a cause, and what is settled stays so | `Outbox` |
| Notifications and consent (`services/wa_notifications.py`, `services/wa_consent.py`) | the opt-in of each person | dispatch, opt in, opt out | nobody is told who had not consented | `Outbox` |
| WhatsApp inbox and signup (`api/routes/webhook.py`) | ids claimed, the step of a signup | receive, claim, sign up, STOP, START | a message is acted on once; consent is an answer to the question; the last word stands | `Inbox` |
| Customer conversation (`services/wa_customer_flow.py`) | the record of a conversation | one step per message | what is ordered is whole; areas, days and times are asked for with a choice | `Conversation` |
| Store hours (`services/store_hours.py`) | settings | which days and slots, what the API accepts | no slot before the lead time, or on a blocked day | `StoreHours` |
| Pricing (`services/pricing_engine.py`) | rules and their prices | price an item, a discount | what is not on sale is refused, never free | `Pricing` |
| Checkout (`services/order_service.py`, `api/routes/coupons.py`, `products.py`, `admin.py`) | stock, code, option, product | place, cancel, edit | no unit of stock is lost; a code keeps its limit; a discount is of the cakes | `Shop` |
| Attendance (`services/attendance.py`, `api/routes/attendance.py`, `staff.py`) | shifts, duty flag | clock in and out, deactivate | at most one open shift, of bounded length, of somebody on duty | `Attendance` |
| OTP and authentication (`services/otp_service.py`, `api/routes/auth.py`) | codes and counters in Redis | send, verify | five wrong guesses burn a code; five sends an hour | - |

Handlers meet in the database, and for deliveries in Redis and on the event loop: they call each other as functions
(the staff commands, the callback and the engine all end in
`update_order_status`), and what a handler has read may have changed by the time it
writes.

### What is hard here

- **Stale copies.** A session keeps the row it has read. `update_order_status`
  locks the row, but a locking query returns the copy the session already holds, so
  a route that looked at the order first decides on what it saw then.
- **Several commits in one handler.** The callback commits PAID, then CONFIRMED,
  then a baker, then ASSIGNED. Others run, or the process dies, in between.
- **Partial updates.** An UPDATE carries the columns that differ from the copy, so
  two handlers can each write half of a row.
- **Answers out of order.** PayU repeats a callback and sends it late. Meta repeats a
  message, and two messages written in a row are handled on two threads.
- **Calls whose outcome is lost.** A message is sent between two commits; what Meta did with it is
  known only if the second one succeeds.
- **A model that reads.** What a customer's message means is decided by a language model, which may
  answer anything at any step; the steps must be safe whatever it says.
- **Time that passes between a question and its answer.** Slots go, products are taken off sale,
  delivery is switched off, a shift goes stale.
- **Two worlds.** A handler on a thread writes the database and Redis itself, but what it
  does to sockets is a coroutine it hands to the event loop. A snapshot goes the other
  way: it is read on a thread and applied on the loop.
- **Many doors.** The website, the admin table, WhatsApp, the engine and the worker
  all move an order, and a rule only one of them keeps is not a rule.

`PROJECT.json` lists each hazard at its line, with the properties that would catch it.

## The modules

| Module | What it is |
|---|---|
| `OrderRules` | the statuses, the transition table, the columns of the row that decide anything, and one operator per gate of `update_order_status` |
| `OrderGates` | the abstract specification: an order is only where the keys it has earned let it be, and no key is taken back |
| `OrderLifecycle` | the handlers: every write of an order's row |
| `MCOrderLifecycle` | constants for TLC |
| `OrderLifecycleProofs` | theorems, for any constants |
| `LiveTracking` | a delivery on the road: Redis, the riders' GPS sockets, the admins' fleet view, the customers' maps, and the loop that serves them |
| `MCLiveTracking` | constants for TLC |
| `LiveTrackingProofs` | theorems, for any constants |
| `Outbox` | who is told of what, the table of messages, sending and retrying |
| `Inbox` | messages coming in: the claim, consent, signing up; extends `Outbox`, whose consent it changes |
| `MCMessages` | constants for TLC; the two ways of messages explored side by side |
| `OutboxProofs`, `InboxProofs` | theorems, for any constants |
| `StoreHours` | lead time, slots and days, as operators |
| `Conversation` | the customer's conversation; extends `StoreHours` |
| `MCConversation`, `ConversationProofs` | constants for TLC; theorems |
| `Pricing` | what is sellable and what it costs, as operators |
| `Shop` | checkout and the catalogue it reads; extends `Pricing` |
| `MCShop`, `ShopProofs` | constants for TLC; theorems |
| `Attendance` | the shifts of one member of staff |
| `MCAttendance`, `AttendanceProofs` | symmetry for TLC; theorems |
| `SumProofs` | what the library's sum over a finite set does; the proofs about `Shop` and `Attendance` rest on it |

`LiveTracking` takes the order's status and rider from `OrderLifecycle` as two functions,
and allows the changes that one allows for a packed delivery: on the road, delivered,
failed, on the road again, and another rider at any time, by acceptance, by the engine or by an admin.

### Orders: how state and actions correspond to the code

`row` is the orders table. `job[w]` is what the thread `w` is doing: the task ahead of it,
the order, and the copy its session holds (`None` after a commit, which expires
it). `payu` is what PayU knows of each transaction id. `past` is a history that only
properties read.

A request is two or more steps:

- `Arrive` is the route's first query with its own checks (`RiderMay`, `BakerMay`,
  `CustomerMay`, `AdminMay`, `CounterMay`, `StaffingMay`, `PhotoMay`, `PayMay`, one
  per file or group of routes).
- `Move` or `Refuse` is `update_order_status` up to its commit, decided by `MayBecome`
  on the copy. `Continuation` is what it goes on to do: a baker after CONFIRMED, a
  rider after PACKAGED, and the second half of the APPROVE reply.
- `Reload` is the next query after a commit, where the handler may find nothing left
  to do.
- `PatchStatus`, `UpdatePaymentStatus` and `PayuCallback` are one step each: the first
  and the last lock a row that they have not read before, and the second writes one column
  without looking at it.
- `UploadProof`, `VerifyProof`, `ApproveFirst`, `RejectProof`, `UploadHandover`,
  `BadImage`: photographs. `AssignBaker`, `TransferBaker`, `AssignRider`,
  `NobodyAvailable`: the engine; `AssignBaker` is the engine's choice or an admin's
  (`auto_assign_baker`, `admin_assign_baker`). The request `ProcessQueue` is the morning queue, or
  an admin who runs it, for an order that is `Queued`. `CreatePaymentOrder`, `DemoPay`,
  `ReleaseForProduction`: payment. `Put` is the partial UPDATE.
- `CustomerPays` and `AttemptFails` happen at PayU; they and `Presented` model PayU from
  how the code uses it.
- `Crash` ends the process: handlers lose what they had still to do.

Abstractions, all of them:

- Whose order it is, and who may ask: an admin may do everything a baker or a rider may, so
  ownership never stops a step and is left out.
- Who is on duty and least loaded: any of the staff, or nobody.
- Notifications, broadcasts, tracking, the event log, stock and prices write other
  tables. They do not decide what an order does next; the other modules have them.
- A callback that fails a check, or reports a failure, changes nothing and is not a
  step. The amount is the order's.
- A PATCH to DELIVERY_FAILED gives its reason.
- The second rider assignment of the APPROVE reply is the first one tried again, and
  is one task with it.
- Photographs are numbered per order. Names given to files by `save_image` do not repeat.

### Deliveries: how state and actions correspond to the code

| Variable | In the code |
|---|---|
| `status`, `rider` | the orders table |
| `meta`, `fix` | the keys `delivery:<id>:meta` (its `rider_id`) and `delivery:<id>` |
| `job` | what a request handler has still to do after its commit |
| `loop` | coroutines handed over with `run_coroutine_threadsafe`, and how far each has come |
| `sock` | riders' GPS connections, with the `revoked` flag of `RiderSocketRegistry` |
| `active`, `completed` | `FleetManager.active_orders` and `completed_orders` |
| `desk` | what each admin's board lists, and the snapshot being read for it |
| `watch` | `DeliveryTrackingManager.watchers` |

- `SendOut`, `EndDelivery`: the commit of `update_order_status`, whose handler goes on with
  `start_delivery_tracking`, or with `LookToStop` and `stop_delivery_tracking`, and ends
  with `Dispatch`.
- A rider is written in two steps. `ReadOrder` reads the order: `rider_self_accept` and `auto_assign_rider` go on only if it
  has no rider (one action, `rider_self_accept`, writes for both), `admin_assign_rider` if it has another. What was decided on that reading is then written,
  whoever has become the rider since. For an acceptance that is all, on the road or not: nothing is swapped and no socket closed,
  and the sockets of a rider it passes over carry `passed`. An admin's change of a delivery on the road goes on with
  `LookAtMeta` and `set_tracking_rider`, and has the loop close the sockets.
- Each round trip to Redis is a step, so a key read is not always a key still there. `AskStart` and `AskStop` are the two tracking routes.
- `DeliveryStarted`, `DeliveryCompleted`, `RiderReassigned` are the coroutines; `TellWatchers` and
  `FinishSockets` are what `DeliveryCompleted` goes on to do.
- `Authorise`, `Register`, `Receive`, `Ping`, `Forward`, `HangUp`: a GPS socket, a step per
  `await`. The database is read in `Authorise` and never again.
- `ReadSnapshot` and `SendSnapshot`: the fleet snapshot, read on a thread and sent from the
  loop. A resync is another one.
- `AskToWatch` lets a customer in, on a thread, and `add_watcher` registers them after the handshake was answered; a delivery can end in between.
- `Expire` models keys that time out or are evicted. `RedisMayFail` lets each call fail, which
  the code logs and passes over.

Abstractions:

- Positions have no values; the trail of positions, distances and estimates are left out.
- Sockets of one order are closed one after another, with an `await` after each. That is one step:
  a frame on a socket not yet reached is as one before it, and a newcomer is not in the list
  that is being walked, as one after it. A broadcast to the admins is one step for the same reason.
- `admin_assign_rider` commits and refreshes in one step. What it would see of a change in
  between is a swap too many, or none for a delivery whose end closes the sockets anyway.
- An admin may open a GPS socket too; it counts as the rider it is credited to.
- `late` (the sockets of the order were closed while this one was being let in), `passed` (an acceptance on a stale
  reading replaced this socket's rider) and `road` (the customer was registered while the delivery was on the road) are histories.
- `overlap` says whether deliveries move on before the last answer. Init leaves it open, and a property may be claimed where it is FALSE.

### Messages: how state and actions correspond to the code

| Variable | In the code |
|---|---|
| `consent` | `User.whatsapp_opt_in` |
| `outbox` | the table `whatsapp_messages`: recipient, status, attempts |
| `sending` | what a handler has still to do: people to tell, rows to send, the attempts on the copy it read, the sender's answer |
| `wrote`, `copies`, `queued` | what the customer wrote, Meta's deliveries of it, and the background tasks of the webhook |
| `seen` | the Redis keys `wa:msg:<id>` |
| `account`, `signup` | whether the number has a `User`; the Redis key `wa:pending_signup:<phone>` |
| `thread` | what a thread has read and has still to do |

- `Dispatch` is a status that was committed and its list of people (`Recipients`, the branches of
  `wa_notifications`); `LookUpAdmins` is the query for the admins when their turn comes; `Skip`, `Queue` and
  `QueueUnwritten` are the first commit of `queue_and_send`. `Retry` is the query of `retry_pending`. `Send`
  is the call of Meta in `_attempt`, and `Commit`, `CommitFails` or `Crash` what becomes of its outcome. `n` and `was`
  are the attempts and the status on the copy a handler has of the row it is at: the attempts it writes are one more than it
  read, and a status that is what it read is not written (`Settled`).
- `Outcome` translates the sender's answer: an id is SENT, an error FAILED, and `None` SKIPPED - whether the
  sender is off or the network failed, since `whatsapp_sender.py` answers both with `None`.
- `receive_whatsapp`, `Claim`, `Duplicate`, `ClaimFails` are the webhook and `_already_processed`. `Look` is what a
  thread reads: the account, then the signup. `OptOutByText`, `OptInByText` and the steps of `_handle_new_user`
  are an action each, committed before the reply (`send_reply`). `Agree` commits the account and `ClearSignup`
  removes the signup after it.
- `Restart` loses tasks and threads, `SignupExpires` the key.

`signup` carries the tries at a name beside the step: a second text that is no name is taken as "WhatsApp Customer", and a word like START is taken
for a name (`NameTexts`, `_looks_like_a_name`).

Abstractions: a message's text is one of six meanings. A claim does not expire: the code forgets it after a day
(`webhook.py:119`), and a message that is delivered again later than that is handled again. The order's people are people, and consent includes
having a phone number. A customer with an account goes on to the conversation, which is the next module. Writes
of one handler to the table that nobody reads in between are one step.

### Conversation: how state and actions correspond to the code

`chat` is the Redis record of one customer, with its step and what it holds of each choice: the lists that
were shown or offered, the product, whether a size was chosen, the flavour, the address, the area, the day and the
hour. `thread` is what each thread read (`handle_customer_message` reads the record once) and whether it has placed
an order and not yet cleared the record. `now`, `shop`, `listing`, `flavours` and `zones` are the clock, the settings, the products, and
the flavours and areas that are switched on.

- `parse_message` is what a message may be read as: the rules of `_quick_match` and whatever the language model
  answers, except at the two steps that take text as it comes.
- One action per step and kind of answer. An action writes the whole record (`_set_state`, `_clear_state`) or leaves
  it (`Keep`: a question, a complaint, a look at the menu, an answer that was not among those offered).
- `_match_product` is a product called by name at any of the first three steps. `ChooseProduct` picks from the
  category as it is now, or from the list that was shown if nothing is left in it. `Back` goes up one level.
- `_ask_for_flavor`, `_flavour_list_prompt` and `_flavour_prompt_again` list the flavours there are when they ask, which may be none;
  `ChooseFlavor` takes one that was listed or one called by name. `ToStreet` asks for the area only where there are areas.
- `_go_to_dates` offers the days that have a slot and ends the conversation when there is none. `ChooseDate`
  asks for the slots again, and for the days when they are gone. `_quote` and `ItemGone` are the summary; a
  flavour that was switched off since makes it fail, and the record stays at SELECT_TIME.
- `Confirm` commits the order if `create_order_accepts` it, and `ClearAfterOrder` clears the record; `Refused`
  clears it without one. `Crash` is a restart in between. `Lapse` is the twenty minutes of silence, or the hour
  after which Redis forgets.

Abstractions: prices, quantities and texts are left out, and so is the difference between a size and another. Sections that are hidden and products for internal use are as products off sale. A list of sizes is
never empty. Of `StoreHours`, what the conversation asks: `is_store_open`, `rush_is_sellable` and `schedule_order_delivery` are left out. Someone without an account goes through `Inbox` first. Moments are whole hours.

### Checkout: how state and actions correspond to the code

`product`, `option`, `on`, `stock` and `coupon` are the rows an order depends on, one of each kind; `orders` are
the orders placed; `desk` is what each handler has read. A handler reads, decides and writes what it
changed over what is there, as the ORM does: a column is written if it differs from the copy.

- `PriceItems` is the loop of `create_order` over its lines: what is not sellable is refused, prices are
  fixed and add-ons are taken on the copy (`Left` is what stays on the shelf). `_apply_coupon` reads the code. `Place` is the commit.
  `LookAtOrder` and `_restore_addon_stock` are a cancellation. `Refuse` is an error, or a process that dies, before the commit.
- The routes of `coupons.py` (`create_coupon`, `update_coupon`, `toggle_coupon`, `delete_coupon`), of `products.py`
  (`update_product_option`, `SetPrice`, `SetTags`, `toggle_availability`, ...) and of the rules in `admin.py` (`ToggleRow`,
  `set_addon_stock`). A route whose write depends on what it read is two steps (`ReadCode`, `ReadOption`, `ReadProduct`).
- `update_product_option` takes what was asked for (`Asking`: each value absent, null or given), clears the other rule, and refuses what would leave
  both or neither. `set_addon_stock` sets any integer, or none.
- `supply` is the stock an admin last set, a history. `alone` says that handlers take turns. The code has no lock here, so what it decides on a copy
  holds only then; the properties that need it say so, and the others do not have it.

Abstractions: whole rupees; one line per order (an order of several does for each what it does for one); sizes in
tenths of a kilogram; expiry of a code is as one switched off.

### Attendance: how state and actions correspond to the code

`shifts` are one person's rows of `shifts`; `on_duty` and `is_active` columns of the user; `clerk` is what a
handler loaded and found. `Load` is a request that reached its route: `i_am_in`, `i_am_off`, `send_home`, the two duty toggles,
`toggle_staff_active`, and looks. `open_shift` is the query every path makes first, and the commit that ends a stale shift; `clock_in`
and `clock_out` are the commits that follow; `Look` is the answer most handlers give, which asks for the open shift
again. `Tick` passes time when nobody is at work. `hours_today` is the sum over the shifts that touch today.

## What the runs check

| Run | Setting | Shows |
|---|---|---|
| `lifecycle_serial` | one handler, crashes, two transaction ids, two photographs, a legacy cash order, a shop that takes payments through PayU | `StatusFollowsTable`: whatever the route, each change of status is in the table, the callback's included. `ApprovedIsInTheBox`, `PackedWasChecked`: an approval stands for the photograph on the order, and a cake is packed only on one that was itself approved. `MoneyHonoured`: a payment under an id the service minted is not turned away because another checkout replaced the id, unless the order was placed for cash |
| `lifecycle_racing` | two handlers, interleaved at every load and commit | `PaidBeforeKitchen`, `BranchesDoNotCross`, `RoadHasRider` hold on stale copies too; `SettledIsInHand`: between PAID and the release some handler always holds the order; `GatesKept`: the handlers implement `OrderGates` |
| `lifecycle_live` | two handlers around payment, fairness | `SettledIsReleased`, `RequestsAreAnswered` |
| `lifecycle_stale_lock` | two handlers | `StatusFollowsTable` violated: see below |
| `lifecycle_stuck_paid` | one handler | `PaidWaitsInQueue` violated |
| `lifecycle_sent_back` | one handler, every way of sending a cake back | `RejectedStaysOut` violated |
| `tracking` | two riders, a GPS socket, a customer, an admin; riders accept, admins reassign, changes overlap or not, Redis fails | `OnlyTheCarrierReports`: once the closing of its sockets is done, a delivery is reported by its rider, and otherwise only by a socket that was let in late or whose rider a stale acceptance passed over. `NobodyLeftWatching`: a customer who was registered while it was on the road is told of the end. `OverIsOffTheMap`: where changes do not overlap, a delivery that is over is on no board and not active, whatever snapshot was being read |
| `messages` | two handlers that notify and retry, commits that fail, crashes; three messages of a customer, one delivered twice, two threads, a restart or a Redis that fails | `TwiceHasACause`, `AttemptsAreBounded`: a message reaches somebody once, after at most `MAX_ATTEMPTS` calls, and once more of each for every lost outcome and every time a row is taken up that another handler has. `RefusedIsNeverSent`, `SettledIsFinal`: a refused message is not sent later, and what is settled is not reopened. `HandledOnce`, `LastWordCounts`, `ConsentIsInformed`: duplicates are not acted on, the last STOP or START stands, and a YES is recorded only if it answers the question |
| `outbox_outage` | the same | `OutageIsRetried` violated |
| `conversation` | two threads, two products in two categories of one group, two moments, every switch of the shop | `PlacedIsWhole`: however messages cross, what is ordered is whole. `SomewhereSometime`: whoever is asked for an area, a day or a time has one to choose |
| `shop` | two handlers, three requests, two orders, two changes by admins; at once, or in turn | `CountIsNeverAhead`: every use is an order, whoever races. `CouponsTouchOnlyCakes`: the discount is at most the cakes, for every code of at most a hundred per cent. In turn: `CapIsKept`; `NoUnitIsLost`: what is on the shelf and what orders asked for come to no less than was put there |
| `attendance` | two handlers, two shifts, a day of three hours, stale after two | `ShiftsAreBounded`: no shift is longer than the limit, whoever races. In turn: `OneShiftAtWork`, `HoursFitTheDay` |

In `lifecycle_serial` an admin sets PAID and no other payment status: setting FAILED or REFUNDED while the customer is at
PayU makes the next checkout mint another id, and an earlier one is turned away, as `create_payment_order` intends. Its cakes are sent back in
every way the code has; what that does to a rejected photograph is `lifecycle_sent_back`.

`GatesKept` asks for a key that a photograph of the order was checked, whichever: with two handlers that is all there is (an approval committed between
another handler's load and its upload is kept), and that it was the photograph packed is `PackedWasChecked`, of one handler.

`CHECK_DEADLOCK FALSE` is said where the model ends by its bounds: the table of messages is full, the customer has
no more to say, orders and edits are used up, the clock has stopped.

### Bounds

- **One order.** No action reads or writes two orders; the theorems are for any number.
- **Two handlers.** Each hazard found needs one handler that acts on a stale copy and
  one that makes it stale. The handlers are alike, so the racing run uses
  symmetry. It asks for each step in one way; other ways make the same steps.
- **Two transaction ids** (`Txns`): one to be reused or replaced, one to replace it. A checkout
  that needs a third waits.
- **Two photographs** (`MaxShots`) with one handler, so that one can be rejected and the other
  approved; one where handlers race. An upload past the bound waits, or is refused by `BadImage`.
- **One baker and one rider** of orders. Nothing compares two of them there but `Put`, and no property
  depends on which one an order has. What two riders do to a delivery is in `tracking`, which has two.

- **One delivery** (`OneDelivery`). Only the eviction of tombstones relates two, and it needs more than
  `COMPLETED_MEMORY` deliveries to end while one snapshot is read. `COMPLETED_MEMORY` is 2, so that a
  delivery that ends twice would be in the list twice if an entry were not moved.
- **Two pending** (`MaxPending`): handlers at work and coroutines not done, together. Two handlers race, or
  one races a coroutine.
- **Who is there** (`Explored`). Where changes overlap, the rider's socket and the customer are explored one at a time and without the admin: they do not see
  each other. Where changes do not overlap, which is where `OverIsOffTheMap` is claimed, the admin is there with the rider's socket, and the rider is settled:
  no board depends on who it is.
- **One connection of each kind.** GPS sockets do not see each other, nor do customers. An admin's resync
  changes `active_orders` for all, and one admin can do that at any time.

- **Messages.** Two handlers, for a row that one sends and the other retries. Two rows: a retry counts attempts on the copy
  it read for its first row and reads the others again. Two attempts (`MAX_ATTEMPTS`; the code has three): one short of the
  limit and one at it. `MaxSpare` 1: one outcome lost, or one row taken by two. The customer, and one person for everybody
  else: the notices CONFIRMED (customer, then admins) and PACKAGED (a rider) tell two people and one.
- Three messages, for a name, an answer and a change of mind; any number of meanings each. One of them comes twice (`MaxCopies`).
  The customer waits for replies (`Patient`). Redis fails for one message, once, or the process is restarted once, never both: the two
  excuse the same properties. The two ways share only the consent, and `MCMessages` explores each with the other at rest.
- **Conversation.** Two threads, one to read an old record and one to write a new one. Two products: one with sizes of its own and
  flavours, and one without either, in two categories, so that a category can be emptied. One group. Two slots a day and two days, at eight in the morning and two
  in the afternoon, with a lead of five hours: at eight today's morning slot is gone, at two both are, and a block takes what is left. One flavour and one area, each on or off. Either the menu changes in a conversation, in the
  morning, or the clock, the block and the areas do (`changes`), and delivery in both; one that sees everything change is left to the proofs.
- **Shop.** Two handlers; three requests that differ in size, code, add-on, fulfilment and area; two codes, one flat above the price of a cake and one
  of a hundred per cent; limits of none, nothing and one; no stock counted, two, which one order empties and the next is clamped at, or one less than nothing, which an admin may set. Two orders, one to use a
  limit up. Two edits, for one that ends what another had begun. Two prices of the option, the cheaper at first (`MCInit`), so that an
  edit may change it while a customer is asking.
- **Attendance.** Two handlers; a day of three hours and four hours of clock, so that a shift may pass midnight; stale after two, so that one may be found in time, late, and
  after midnight; two shifts.

### Fairness

`FairSpec` has weak fairness of `Continue(w)` for each handler: a thread that serves a
request runs on until it has answered. Nothing is assumed of requests, of customers or of
PayU. Liveness is checked without crashes, for a handler that dies is never resumed: after
one, an order whose payment was committed and not released stays at RECEIVED, since
the repeated callback finds it PAID.

The other modules state no fairness. A customer may stop answering at any step, an admin need not retry, staff
may not clock out, and what a restart loses nobody resumes: the code promises nothing that must eventually happen there.

### What the violated runs show

- `lifecycle_stale_lock`: `StatusFollowsTable` with two handlers. START is sent and
  reads ASSIGNED; an admin cancels; START passes the table on its copy and commits
  IN_PRODUCTION. The lock in `update_order_status` is meant to prevent that.
- `lifecycle_stuck_paid`: an admin confirms an unpaid order and gives it a baker, whose
  ASSIGNED is refused for want of payment. The customer pays; `auto_assign_baker`
  finds a baker and returns. The order stays at CONFIRMED, and the queue lists only orders
  without a baker.
- `lifecycle_sent_back`: a photograph is uploaded and approved, and Shriya sends the cake back by REJECT on WhatsApp (or an admin by a PATCH to IN_PRODUCTION).
  Only the status changes. The baker presses done, the gates find the photograph and the approval, and the cake is packed on the one it was sent back with.
- `outbox_outage`: a message is queued and sent; the network is down, and the sender answers `None`; the
  message becomes SKIPPED. `retry_pending` selects PENDING and FAILED, so nothing tries it again, and the
  backlog the outbox is for does not form.

### What does not hold, and has no run

These are stated in the modules and can be seen by adding the property to the configuration named.

| Property | Configuration | What happens | Against |
|---|---|---|---|
| `RetryGetsFreshTxn` | `lifecycle_serial` | a failed attempt leaves the order PENDING, so the next checkout reuses its id, which PayU refuses | `payments.py:222-223` "a genuine retry needs a fresh one" |
| `NoPositionLeft` | `tracking` with `RedisMayFail = FALSE` | a frame has been received; the handler that delivers the order removes the keys; the frame is written, since the socket is revoked only when the loop gets to it. The position stays for a day | `websocket.py:450-451`, `broadcast.py:130-131` "so no further positions can be written for a completed order" |
| `FailedIsOnTheBoard` | `tracking` | a failed delivery is remembered as completed, and the next snapshot is sent without it | `fleet_tracking.py:37-38` "exactly the case an operator needs to see on this board" |
| `DeliversWhileOn` | `conversation` | delivery is switched off after the address was given; the order is placed for delivery | `order_service.py:116-117` "The bot never reaches this point with a delivery while the switch is off" |
| `PickupIsFree` | `shop` | a pickup that carries an area is stored without it (line 150) and charged for it (line 215) | `order_service.py:147-149` "used to be charged for a delivery nobody made" |
| `PlaceholderIsNotSold` | `shop` | a product is created with the placeholder's tag and published, or given the tag while on sale | `models/product.py:57` "it is never available" |
| `RosterAgrees` | `attendance` | a shift found stale is closed and the duty flag stays | `services/attendance.py:6-9`, `baker.py:126-128` "cannot drift" |

Seen while modelling, and stated by no property: a retry does not ask for consent again, so a message written before an
opt-out is sent after it (`wa_consent.py:9` says every notification goes through `may_message`); a code of more than a
hundred per cent takes more than the cakes (`order_service.py:222-224`); cancelling an order that found less stock than it
asked for returns what it asked for (`order_service.py:597` says it returns "the finite add-on units an order was holding"), and two handlers at once can lose or
double what they take or return; two admins at once can leave an option with both a price and a multiplier (`products.py:304-306`); a stock can be set below
nothing; a cash order that is checked out twice is minted an id each time, so a payment under the first is turned away; a rider who was passed over by a late acceptance
stays connected, and one who was let in and not yet registered when the delivery ended, as does such a customer; a flavour switched off after it was chosen leaves a conversation at
SELECT_TIME, where every answer fails; a list of categories, products or flavours can be empty; an offered time may be refused when it is confirmed late; a shop whose hours pass midnight offers no slots, though `_within_hours` handles such hours.

## What is proved

### Orders

In `OrderLifecycleProofs`, for any orders, handlers, staff, ids and bounds, and any
subset of the requests, from the assumptions named in `OrderRules` and `OrderLifecycle` (types of the
constants, and that `None` is none of them):

| Theorem | Statement |
|---|---|
| `TypeCorrect` | `Spec => []TypeOK` |
| `Invariance` | `Spec => []IInv` |
| `PaidFirst`, `Branches`, `Carried` | `[]PaidBeforeKitchen`, `[]BranchesDoNotCross`, `[]RoadHasRider`: invariants of the racing run |
| `Implementation` | `Spec => GatesKept`: the handlers implement `OrderGates` |
| `InHand` | `Spec => []SettledIsInHand`, if the process does not die |
| `TableIsFollowed`, `ApprovedIsKept`, `CheckedFirst` | `StatusFollowsTable`, `[]ApprovedIsInTheBox`, `PackedWasChecked`, for one handler at a time |
| `MoneyIsHonoured` | `[]MoneyHonoured`, for one handler at a time, a shop that takes payments through PayU alone, and an admin who marks orders paid or pending |

The safety invariants are not inductive: a handler decides on its copy, and says nothing
of the row. `IInv` adds what makes the copy good enough. A row is *sound* when its history
confirms what it says (it is payable only if it was paid for, verified only if some
photograph was checked, ...), every copy is as sound as a row, and what a row has earned since
the copy was made it has *kept* (a rider stays, a handover photograph stays, the way of
fulfilment never changes). History only grows, so a copy stays sound however old it is. A
worker's step is abstracted to `Step` - one row, one history and one job change, soundly -
and each action is shown to be one; `StepKeepsIInv` then needs to be proved once.
`GatesAreSound` is the heart: a status the gates let a stale copy become is sound in the row as it
is now. `Predecessors` reads off the table what a status can follow.

The status of a row is *not* among what it keeps: that is the finding of
`lifecycle_stale_lock`, and why `OrderGates` promises nothing of the order of statuses.

The last four are the properties of `lifecycle_serial`, and say *one at a time* as the assumption that two handlers are
the same one. No copy is then older than the row (`Current`), so each action does to the row what its gate allows of the copy
(`Serves`). `CheckedFirst` rests on `ApprovedIsKept`: the gate asks only whether the order was approved, and the approval stands for the photograph that is on it.
Money needs more of the row (`Honest`): an id PayU has heard of is the one on the order, unless the order was placed for cash or
has been payable; checkout mints another only where PayU has heard of none (`CheckoutIsHonest`), which an admin who marks a payment failed
or refunded would break, and the demo payment too (`NoDemoHolds`).

### Deliveries

In `LiveTrackingProofs`, for any deliveries, riders, handlers and connections, with or without failures of Redis:

| Theorem | Statement |
|---|---|
| `TrackingInvariance` | `Spec => []IInv` |
| `CarrierAlone` | `Spec => []OnlyTheCarrierReports` |
| `CustomersAreTold` | `Spec => []NobodyLeftWatching` |
| `TrackingTypeCorrect` | `Spec => []TypeOK`: among others, that the fleet remembers at most `COMPLETED_MEMORY` deliveries, and none twice |
| `OverStaysOffTheMap` | `Spec => []OverIsOffTheMap`, if the fleet can remember every delivery there is |

A socket is let in on what the table says, and the table moves on without it, so the property says
nothing of the steps in between. `IInv` does: a socket that was neither let in late nor passed over is right, or a closing of its order is on its
way - in some handler's hands or on the loop. Every change that makes a socket wrong begins a closing
(`HandlerStep`); a handler passes it on whether Redis fails or not (`HandlersKeepIInv`), to the loop
(`DispatchKeepsIInv`); and there only its own run takes it away, revoking every socket it finds
(`ClosingStep`, which rests on what `RemoveAt` leaves of a sequence). `HandlerStep`, `SocketStep`
and `ClosingStep` are the three kinds of step; each action is shown to be one of them.

An acceptance is not one of the changes that begin a closing: it writes a rider on a reading that may be old, and whose sockets
that makes wrong is what `passed` records (`AcceptKeepsIInv`).

`WatchInv` is the same of the customers: whoever was registered while a delivery was on the road, and watches one that is delivered, is owed a word
that some handler has or a coroutine has not said (`Telling`). A handler passes it on (`HandlersTell`, `DispatchTells`), and it leaves
the loop only by being said (`LoopTells`).

`OverIsOffTheMap` is about the fleet, and needs two things (`Roomy`). A change of a delivery comes after the last one was
handed to the loop (`overlap` is FALSE, which is part of the property), for otherwise a start that was held up is announced after the end. And the fleet can remember
every delivery there is: it drops the oldest of `COMPLETED_MEMORY`, and a snapshot read before a delivery ended that has been
dropped brings it back. With both, the last word on a delivery that is not on the road is that it ended: said, or in the hands of
a handler, or on the loop with no start behind it (`OnItsWay`, `FinishWaits`). Once said, it is in no list (`Over`), and a snapshot that is still being
read either is without it or will be filtered by what the fleet remembers (`ReadWithout`). Requests, handlers,
coroutines and snapshots are the four kinds of step.

### Outbox

In `OutboxProofs`, of `OutboxSpec`, for any finitely many senders and admins, any rows, notices and numbers of attempts:

| Theorem | Statement |
|---|---|
| `OutboxInvariance` | `OutboxSpec => []IInv` |
| `OutboxTypeCorrect` | `[]OutboxTypeOK` |
| `ReachedOnce`, `AskedSoOften` | `[]TwiceHasACause`, `[]AttemptsAreBounded` |
| `RefusedStaysUntold`, `SettledStays` | `[]RefusedIsNeverSent`, `SettledIsFinal` |

Two handlers that send one row write it from what each read, so the number of attempts on the row may go *down*, and neither
it nor the status says what Meta was asked. What does is an account. A handler that takes a row up is going to
call once: `Spent(i)` is the calls made and those that are still to come, `Reached(i)` the deliveries made and those that may
still come. Taking up a row that nobody has is paid for by one of its attempts, and taking up one that somebody has by
`spare`, as is an outcome that is lost. `RowOK(i)` says that the accounts balance: `Spent(i)` is at most
the attempts of the row and `spare`, plus the one that whoever holds the row has not written yet; and at most the limit and `spare`.
`CopyOK(s, i)` says it of the copy a handler holds, since that is what it writes from: an attempt that a stale copy sets back
was paid for in `spare` when the second handler took the row up.
The actions are reduced to what they do to one row (taken up, called, written, let go), each of which is a lemma; each action is
then shown to do one of them to the row it is at and nothing to the others.

### Inbox

In `InboxProofs`, of `InboxSpec`, for any messages, threads and copies and any number of failures of Redis:

| Theorem | Statement |
|---|---|
| `InboxInvariance` | `InboxSpec => []IInv` |
| `InboxTypeCorrect` | `InboxSpec => []InboxTypeOK` |
| `ActedOnOnce` | `InboxSpec => []HandledOnce` |
| `PatienceInvariance` | `InboxSpec => []Patience` |
| `LastWordStands` | `[]LastWordCounts`, if the customer waits for replies (`Patient`) |
| `ConsentWasAskedFor` | `ConsentIsInformed`, if the customer waits for replies |

`HandledOnce` counts what was done and says nothing of threads that are about to do it. `Spent` does: what was done
plus the threads that have begun and not acted is at most the claims there are, one if the id is in Redis and one for
each that failed. A claim adds a holder and a claim (`SomebodyClaims`), acting turns a holder into a deed
(`SomebodyActs`), and a restart only loses holders.

The last two are of a customer who waits, as the run has it: somebody who writes STOP and START at once is served by two threads, in
either order, and the code does not promise which. Waiting is a guard of `Write`, and what makes it
enough is `Patience`: the messages that may still be acted on are one, the last written (`LastOpen`), and its
only thread has claimed it (`Claimed`). So nobody changes the account or the consent between a thread's reading and its
acting (`AsRead`), and the word acted on last is the last one written (`LastWord`). For the consent, `Untold`
says that while a message waits that was written before the customer had seen the question, the signup is not at the step that
takes an answer. It holds until the process is restarted, which forgets what was queued.

### Conversation

In `ConversationProofs`, for any products, menus, hours, moments and threads:

| Theorem | Statement |
|---|---|
| `Soundness` | `ChatSpec => []IInv` |
| `ChatTypeCorrect`, `DaysTimesAndAreas` | `[]ChatTypeOK`, `[]SomewhereSometime` |
| `WholeOrders` | `PlacedIsWhole` |

A thread writes a record made from the copy it read, however old, so nothing can be said of the record that is not
said of every copy. `Sound(c)` says what a record holds at its step, and `IInv` says it of the record and of all
copies. Then each way of making a record from another keeps it sound (the lemmas on the prompts, the dates and the product), whatever was
written meanwhile. Confirming needs a sound copy at the step CONFIRM, which is a whole order.

### Checkout

In `ShopProofs`, for any rows, prices, requests, codes, limits and handlers:

| Theorem | Statement |
|---|---|
| `ShopInvariance` | `ShopSpec => []IInv` |
| `EveryUseIsAnOrder` | `[]CountIsNeverAhead`, whoever races |
| `TurnsAreTaken` | `[](IInv /\ TakingTurns)` |
| `LimitsHold` | `[]CapIsKept`, for handlers that take turns |
| `BooksAreKept` | `ShopSpec => []SInv` |
| `ShopTypeCorrect`, `ExtrasArePaidFor` | `[]ShopTypeOK`, `[]CouponsTouchOnlyCakes`, whoever races |
| `NothingIsLost` | `[]NoUnitIsLost`, for handlers that take turns |

A count that is written is one more than one that was read, and the order that earns it is committed with it: so every
count, committed or held by a handler, is *earned* by the orders there are, and a lost update can only make it less. `TakingTurns` adds, when
handlers take turns, that the one at work holds the rows as they are, so what it decided is so when it commits.

`SInv` adds the books (`Books`). What an order carries was worked out from one copy of its code and one price, so a discount is never more than the cakes it
is of, whatever was edited since (`Discounted`); that is said of the order as `Place` makes it. What orders asked for (`Asked`) is a sum over those that stand. Placing an order adds its
term and cancelling takes it out (`TotalFromOne`, `TotalFrom`); the shelf gives no more than the term and gets all of it back, because the one at work holds the shelf as it is
(`Looking`). That the shelf may get back more than it gave is why the property is an inequality. An admin who sets the stock anew moves both sides.

### Attendance

In `AttendanceProofs`, for any handlers, hours and shifts:

| Theorem | Statement |
|---|---|
| `StaffInvariance` | `StaffSpec => []IInv` |
| `StaffTypeCorrect`, `Bounded` | `[]StaffTypeOK`, `[]ShiftsAreBounded`, whoever races |
| `TurnsInvariance` | `StaffSpec => []TInv` |
| `OneAtATime` | `[]OneShiftAtWork`, for handlers that take turns |
| `ShiftsInOrder` | `StaffSpec => []HInv` |
| `NoMoreThanTheDay` | `[]HoursFitTheDay`, for handlers that take turns |

A handler ends the shift it found, at the hour it is. What it found was not stale (`FoundInTime`), the clock
stands still while it works, so it ends in time. For one at a time, what it found is the only open shift (`Current`).

Then each shift has ended when the next begins (`Chain`), a stale one included, which is ended in the past but not
before it began. So the part of today that the shifts before the last cover lies before the last begins, and the last covers what
is left: the hours of a day are no more than it has had. That is an induction on the number of shifts, taking the last one out of the sum.

### Sums

The stock and the hours are sums the library defines by recursion (`MapThenSumSet`). `SumProofs` proves what the two components need of
them: the sum over the empty set is nothing; any element can be taken out of it (`TotalFrom`), though the library takes out the one that
`CHOOSE` picks; it is a number if its terms are; it depends on nothing else. The induction is over the number of elements.
The library's induction theorems cannot be used here, as they are about operators; instead the numbers a fact is true of are made a *set*, and
`Counting` shows from the well-foundedness of `<` (`WFMin`) that a set with 0 and every successor has every number.

### What is assumed

The assumptions on constants are those named in the modules, which TLC evaluates in each run: that constants have their types, that
the value which stands for nothing is none of the others (`NoneAssumption`, `NothingAssumption`, `ActorsAssumption`, ...), and that people,
handlers, messages and threads that are counted are finitely many (`Staffing`, `InboxBounds`). A theorem that needs more - one handler
at a time, a process that does not die, a customer who waits, a fleet with room - says so as its own `ASSUME`, and the run
of that property has constants that satisfy it. `alone`, in the checkout and in attendance, is a variable that Init leaves open, and
so part of the property.

### What is only model-checked

Every invariant and every action property of the passing runs is a theorem. What is left to TLC are the two liveness properties, `SettledIsReleased` and
`RequestsAreAnswered`: they need fairness, and so ENABLED, which is beyond the prover. The runs that expect a violation are counterexamples, and
a matter for TLC too. And the theorems do not replace the runs: that the hypotheses can be met, and that what is forbidden is near, is what the runs and their
mutants show.

## What is not modelled, and the plan

- One-time codes: the counters of sends and wrong guesses, and that a code is burned. The next module to write (`OtpCounters`); signing in and
  tokens would be its callers. Passwords, tokens and the rate limits of `core/` are single calls of a library.
- The morning queue's marker, and the Redis list of events, which nothing but a log reads.
- The order feed and the rider roster of the admins' sockets; the trail of positions.
- Which of the staff on duty is least loaded: any of them may be chosen.
- What is said to customers: texts, templates, languages, the answers of the language model, escalation to a person.
- Prices to the paisa: the code computes with floats and rounds.
- Reviews, addresses, pictures, sections, ingredients, build-a-cake, enquiries, schemas, seeds, scripts and migrations: rows that
  are written alone and read alone, with no state between two requests.

Next, in this order: `OtpCounters`; a composition of `OrderLifecycle` with `Shop`'s cancellation, so that two cancellations on stale
copies and the stock they return are seen together; theorems about the pure operators of `Pricing` and `StoreHours`.
