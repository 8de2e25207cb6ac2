# Verification of the repair-service backend

TLA+ models of the NestJS/Prisma backend in `src/`, TLC configurations that
check them on small instances, and proofs, checked by the TLA+ proof system, of
what matters most for every value of the constants. Source paths below are
relative to `src/src/` of the repository.

## 1. Inventory

The backend runs a repair business. A customer orders services, some with an
appointment; an administrator confirms the order; a technician drives there,
quotes, repairs, takes payment; the administrator completes the order and the
customer reviews the technician. Every HTTP request is an async handler of a
service class over PostgreSQL. All state is in the database, except the socket
map and the OTP cache. There are no queues or background jobs: concurrency is
requests that overlap at their `await`s, and failure is a request that stops
between two statements.

| component | state | operations | what is hard | what makes it correct |
|---|---|---|---|---|
| order workflow (`appointments`, `service-orders`, `service-order-details`) | status of order, detail and appointment; prices and total; parts stock; status history and its copy; warranties | 11 handlers of customer, administrator, technician | three status columns written by many handlers that check at most one of them; a total kept incrementally; handlers that throw after a first write | the statuses agree, no step of the repair is skipped, the total never falls below the prices, a cancellation is final |
| the same handlers overlapping | the same rows; row locks; values read earlier | their statements | stale checks, absolute writes, some `$transaction`s bypassed through `this.prisma`, locks in several orders | what survives any overlap and any crash: the trail of a repair, the ledger of the parts; every request ends; without overlap it is the workflow above |
| reviews (`reviews`) | `Review` rows, rating and count of a technician | `customerCreate` | check outside the transaction, read-modify-write of an average, rounding | the average stays within one to five stars, the count is never above the number of reviews, exact without overlap |
| devices, notifications (`users.upsertDevice`, `notifications`, `devices`) | device rows with owner and age, notification rows | login, the notification of a new order | count, find and delete in separate statements; a token that changes hands | bounded devices; only one's own oldest is removed |
| service catalog (`services`) | services, images, rows that refer to them | create, update, remove; the check by an order | row locks in two orders, unique empty slug, check then delete against foreign keys | transactions deadlock only over an image both delete; a removal that a foreign key stops has removed nothing |
| accounts (`users`, `auth`) | users, addresses, tokens issued | verify, login, register, reset, update, delete, addresses | lookups by phone followed by writes by id; counting before inserting | the address limit; a reset changes the password of the account with the phone and of no other |
| uploads (`file-upload`, `file-storage`) | what Google Drive holds, the calls under way, the response | three endpoints, three Drive calls for every file | `Promise.all` answers at the first failure while the rest goes on | links in a good answer are public; no request waits with nothing under way |
| push channel (`notifications/socket`) | a map from user to socket, the callbacks of `setImmediate` | connect, send, the two handlers that push | a push leaves before its transaction commits; sockets are replaced and never removed | what is pushed follows a status that was committed; what a user receives is in order and nothing comes twice |
| roles, permissions, guard (`roles`, `permissions`, `auth/passport`) | tables that only grow | create role, create permission, add permissions, read them; the guard before every handler | the guard looks once, before everything else; a list is checked, inserted and read back in three statements | the guard stays right until the answer; nobody without the right grants anything; lists are granted whole |
| after-sales (`appointments`, `service-order-details`) | warranties, support requests | complete-repair's warranty, warranty list, support requests, status and history of an appointment | calendar arithmetic, days that pass while they are shown, owner checks before inserts | a warranty lasts what it promises; the days shown hold; records belong to the customer of the repair |
| transactions and connections (`database`, every `$transaction`) | pool, row locks, time limits | open, statements inside and outside, commit, expire, abort | statements on a second connection, locks in the order the client sent, expiry in the middle | requests stand still only for the two reasons known, cost no part, and all end |
| spare-parts search, technicians, repair images, FCM | reads, stubs, one outgoing call | | nothing is decided by them | not modelled, see section 7 |
| controllers, DTOs, interceptors, pagination, mail, seeds | none | formatting, routing | | not modelled; routes and DTOs bound the inputs |

Handlers meet through rows: the workflow reads the catalog when an order is
placed and the accounts for its customer, completion enables reviews, an order
triggers a notification that reads the devices logins wrote, a technician's
status update pushes through the socket gateway, a warranty makes a service
impossible to remove, the permissions one handler grants admit the next request.
The only callbacks are the `setImmediate`s of two handlers.

## 2. Modules

| module | models | extends |
|---|---|---|
| `OrderWorkflow` | one order; each handler one step | |
| `OrderWorkflow_proofs` | fifteen theorems about it, about `OrderRequests` and about the mapping | `OrderRequestsRefinement` |
| `OrderRequests` | the same handlers, statement by statement | `OrderWorkflow` |
| `OrderRequestsRefinement` | the mapping from the second to the first | `OrderRequests`, `INSTANCE OrderWorkflow` |
| `Reviews`, `Reviews_proofs` | reviews and ratings; four theorems | |
| `DeviceRegistry`, `DeviceRegistry_proofs` | devices and the notification of an order; three theorems | |
| `ServiceCatalog`, `ServiceCatalog_proofs` | services, images, references; three theorems | |
| `Accounts`, `Accounts_proofs` | users, tokens, addresses; three theorems | |
| `Uploads`, `Uploads_proofs` | files on their way to Drive; three theorems | |
| `Access` | tables of roles and permissions, the guard, the handlers that extend them | |
| `AfterSales`, `AfterSales_proofs` | warranties and support requests behind that guard; nine theorems | `Access` |
| `ConnectionPool` | transactions: connections, locks, limits, deadlock detection | |
| `SparePartStock` | `addSpareParts` on the pool | `ConnectionPool` |
| `StatusPush` | the two handlers that push, those that move the status beside them, the event loop, the gateway | `ConnectionPool` |
| `Transactions`, `Transactions_proofs` | both on one pool: Next, fairness, what stands still; seven theorems | `SparePartStock`, `StatusPush` |
| `MC*` | the small instances for TLC | the module of that name |

Each module begins with its constants and variables, then a section of *faulty
variants*: operators with the parameters of a later one, each a slip a
maintainer could make. They take part in no behaviour. For every property that
is checked there is one that breaks it when it takes the place of the operator
it imitates; `PROJECT.json` ("mutants") lists them, so each property is known to
react to the code.

### 2.1 OrderWorkflow

An action is a handler run alone. Its guard collects the checks before the first
write (a request that fails them changes nothing), its primed variables are all
the writes, also those that stay when the handler throws later.

| action | handler |
|---|---|
| `CreateServiceOrder` | `ServiceOrdersService.createServiceOrder`. `Appointment.serviceOrderId` is unique, so at most one appointment commits. |
| `CustomerUpdate` | `customerUpdate`. The appointment is written through `this.prisma`, outside the transaction, and stays rescheduled when the checks on detail and order fail. |
| `CustomerQuoteConfirm` | `customerQuoteConfirm`. It writes the appointment, then throws if the detail is not `booked`. |
| `CustomerCancel` | `customerCancel`, in any status |
| `AdminConfirm`, `AdminComplete` | `adminConfirm`, `adminComplete` |
| `UpdateAppointmentStatus`, `CompleteRepair`, `AddSpareParts` | the technician's handlers of `AppointmentsService` |
| `Quote` | `ServiceOrderDetailsService.quote` |
| `TechnicianUpdatePaymentStatus` | the handler of that name. A caller without `technicianId` matches any appointment, because Prisma drops a filter that is `undefined`. |
| `AssignTechnician` | no handler writes `technicianId`: it is set in the database (external) |

Abstractions: a list of spare parts is known by its largest item (the stock
check looks at items one by one) and its sum (the writes add up); there is one
kind of part; `basePrice + additionalPrice` is one number; history rows are a
set of pairs; dates, notes and images are left out, except whether images come
with a completed repair, which decides on the warranty.

### 2.2 OrderRequests

Slots (`Workers`) hold requests under way: the handler, its next statement, its
argument and the value it read before. A statement outside a transaction is
visible at once. The writes of a transaction appear when it commits, and a row
it has written is locked until then (`locked`); other writers of the row wait.
`findMany` with `include` is one read. `Fail` stops a request between two
statements: process, connection or transaction timeout. What it wrote outside a
transaction stays. `createServiceOrder` stays one step, since no other request
sees its rows before it commits.

### 2.3 The other components

* `Reviews`: ratings in hundredths, the scale of `Decimal(3,2)`. `NewAverages`
  holds the column values nearest to the weighted mean, both of them at a tie,
  because the division is done in binary floating point first. A request is
  check, read in the transaction, commit.
* `DeviceRegistry`: one step per statement of `upsertDevice`; a login that
  finds its victim deleted throws (`Gone`). Of the dates of registration only
  the order is kept (`older`). The notification of an order is
  create, send (a transaction), mark. `ActiveDevicesOf` compares with `'active'`
  as the code does, and nothing stores that.
* `ServiceCatalog`: each handler is one transaction, split where it reads what
  another may change or waits for a lock. `HoldsService`, `HoldsImages` and
  `HoldsEmptySlug` say what a transaction has locked, `WaitsFor` what the next
  statement of another needs. A slug is a pair of name and id.
* `Accounts`: tokens carry `username` and `sub` (login), `phoneNumber`
  (verification) or neither (Google). User and address rows exist at first,
  written into the database: no handler makes a first account, and
  `createUserAddress` refuses a first address. `held` remembers which phones each
  account has had.
* `Uploads`: three Drive calls for every file, each of which fails before or
  after Drive acted. A created file without an id makes the next call fail and
  is counted as a failed create. A file of exactly the limit is refused by the
  two endpoints with a size validator.
* `Access`: rows of the tables stand for their names, which are unique and never
  change. `RolesOf` is a constant, because no handler writes `UserRole`. A
  request is before the guard, refused, inside its handler or answered; the
  answer is kept until the client has read it, so that properties can speak of
  what was shown. `Required` is the table of the route decorators.
* `AfterSales`: the handlers around one repair, as calls that go through
  `Access`. Time is in half days; `CalculateEndDate` is `setDate`, `setMonth` and
  `setFullYear` on a calendar with real month lengths, `RemainingDays` the
  rounding of `findAllServiceWarranty`. The other guarded routes run through
  `OrderHandler`, which changes nothing here. `CompleteRepair` may fail: the status
  checks before it and the foreign key of the warranty are not in this module.
* `ConnectionPool`: a transaction holds a connection from `Open` to `Commit`,
  `Throw` or `Expire`. `Reads` and `Writes` are its statements, a write waits for the
  row lock; `ReadsOutside` is a statement through `this.prisma`, which needs a
  connection more. After `Expire` the callback goes on, and its next statement
  in the transaction throws (`FindsClosed`).
* `SparePartStock`: a list of items over several parts, checked on a read outside
  the transaction, then decremented row by row in the client's order. Stock
  changes at commit. `PartId` is needed only to say which lists are sorted. The
  rows of detail and order, written before the commit, are left out: every handler
  that writes both writes the detail first, so they close no circle.
* `StatusPush`: the push is queued between the two writes of the handler.
  `Deliver` is the event loop and `sendToUser`; `clients` maps a user id to the
  last socket that connected with it, `live` are those still there. For
  `completeRepair` the id handed over is the technician's, not his user's.
  `customerUpdate` is here too: it reads and writes the appointment outside its
  transaction, where `booked` stays when a later check throws. `QuoteAndConfirm`
  and `AdminConfirm` move the status and push nothing.

External, modelled as the code uses them: PostgreSQL and Prisma, Firebase, FCM,
Google Drive, bcrypt, the mailer.

## 3. Runs

| run | instance | states | shows |
|---|---|---|---|
| `workflow` | 2 details, 2 technicians, quotes 0 and 2, part lists (1,1) and (1,2), stock 2, `MaxInt` 5, 3 reschedules | 90,609 | types, agreement of the statuses, repair trail, mirror; a completed order is balanced, a cancellation final, the gap between total and prices never shrinks |
| `requests_serial` | 1 slot, all handlers, 2 details | 178,809 | `OrderRequests` without overlap implements `OrderWorkflow` |
| `requests_overlap` | 2 slots, all handlers, requests may stop, 1 detail | 467,999 | repair trail and parts ledger under any overlap and failure |
| `requests_end` | 2 slots, the seven handlers that lock the appointment or its detail or wait for them | 113,922 | every request ends |
| `cancel_lost` | 2 slots, update and cancel | stops | violated: an overlapping update books a cancelled appointment again |
| `reviews` | 2 slots, 4 details, 1 and 5 stars | 18,340 | range, count, exactness without overlap |
| `devices` | 2 slots, 2 users, 4 tokens, limit 2 | 67,839 | the bound on devices, removal of one's own oldest |
| `catalog` | 2 slots, 2 services of one name, 2 images | 441,315 | deadlocks arise only over an image that is deleted twice, removals are all or nothing |
| `accounts` | 2 slots, 2 users, 2 phones, 2 passwords, 3 address rows, limit 2 | 923,016 | address limit; a reset reaches the account with the phone |
| `uploads` | 2 requests over 2 images, one of exactly the limit of the single upload | 16,129 | public links, nothing forgotten |
| `after_sales` | 2 slots, 4 users, 4 roles, 15 calls, 1 repair, 4 instants, with and without an administrator who may change roles | 808,455 | the guard stays right, grants have an author and are whole, the warranty lasts, the days shown hold, records are the customer's |
| `transactions` | 2 slots, six instances of 1 to 3 connections with 2 to 5 calls each, 2 parts, stock 2, 3 sockets | 162,525 | stock ledger, shortage and deadlock only for the known reasons, pushes earned and in order, every request ends |

**Bounds.** Two slots give every pairwise race; the bounds on devices and
addresses grow with the number of slots, and an overrun that adds up over time would already show
with two. Two details distinguish the detail with the appointment from the
others. `MaxInt` 5 lets totals reach the end of the INTEGER column after two
quotes and some parts, stock 2 is exhausted by one list that names a part twice.
Limits of two stand for five devices and three addresses: the code compares with
the limit only. `MaxReschedules` is the real one in `workflow`, one in
`requests_overlap`, where the count is not at stake. `MaxUser`, `MaxAddress` and
`MaxId` bound the rows of an instance; when they are used up, requests that
would insert wait. Symmetry is used over slots, users, tokens, details and images
that nothing tells apart, and in no run with a liveness property.
`requests_overlap` has a VIEW that leaves out the pushes and the copy of the
status, which handlers write and none reads; and the order's id is no service's
there, so that the insert of a warranty fails (it succeeds in `workflow` and
`requests_serial`). The instants of `after_sales` are noon of 31 January 2024,
which has no counterpart in February, of 29 February and 1 March, and a day
after every warranty has ended. The instances of `transactions` are chosen by
what can go wrong: two lists in opposite orders with one in between that names a
part twice, lists that together exceed the stock, such a list on a single
connection, a `customerUpdate` that needs a second connection beside other
transactions, double sending of a status while a user reconnects, and the whole
repair with its final push to another id. Every call is sent at most once, which
bounds the queue and the sockets. Deadlock is not checked where the system may come to rest:
an order without an appointment or in its last status, all details reviewed,
all uploads answered, every call of an
instance sent.

**Fairness.** `FairRSpec` has strong fairness for every request under way: the
database answers every statement, and PostgreSQL grants a row lock to its waiters
in turn, so a statement that can proceed again and again does. `Transactions`
does with weak fairness, because it models what ends a wait: a statement that can
run does (`Proceed`), as do the limits on waiting for a connection and the
deadlock detector, and a transaction that stays open expires (`TimeOut`). No
fairness is assumed for clients, the event loop or failures.

## 4. Findings

`cancel_lost` ends in a violation of what the code says of itself: `customerUpdate`
checks the status on a snapshot and then writes `booked` unconditionally
(appointments.service.ts:866). A cancellation that commits in between is undone.

Stated in the modules and violated, but not among the runs. A reader can put the
definition into the cfg of the run named last:

* `QuoteConfirmAccepted`: a confirmed order leads to a quoted appointment whose
  detail is `confirmed`, where `customerQuoteConfirm` wants `booked` and answers
  500 after its first write (`workflow`).
* `PaidTotalConsistent`: after a second quote the total of a paid order is too
  high, and the order can never be completed (`workflow`).
* `AnnouncedIsRecorded`: a status is pushed before its transaction commits, and
  the commit may fail (`workflow`).
* `WarrantyNamesService`: the order's id is stored as `serviceId` (`workflow`).
* `CompletesOnlyValidDetails`, `CompletesConfirmedOrder`,
  `CompletionReachesAppointment`: the documentation of `adminComplete` (rejects
  invalid details, wants `confirmed`, updates the appointment) against its code,
  which wants `paid` and leaves both out (`workflow`).
* `StockNeverNegative`: a list that names a part twice passes the stock check
  (`workflow`).
* `FailedSendIsTold`: an order whose notification no device has got is answered
  without a warning and the notification marked `sent`, where
  service-orders.service.ts:55 and :204 and notifications.service.ts:67 promise
  `failed` and a warning (`devices`).
* `VerifiedPhoneRegisters`: the token of a verified phone does not register it,
  which auth.service.ts:144 and auth.controller.ts:65 promise (`accounts`).
* `EveryRescheduleCounts`, `NoDetailLeftNoOrder`: overlapping reschedules count
  once; a cancellation that stops half-way leaves the order (`requests_overlap`).

Met while reading, and modelled as they are: devices are stored as `'ACTIVE'` and
filtered by `'active'` (notifications.service.ts:87), so no device is ever sent
to, while `createServiceOrder` marks the notification `sent`; `verifyPhone` signs
`{phoneNumber}` and `handleRegister` compares `username` (users.service.ts:239),
so a verified phone cannot register and only the token of a login with a phone
can register it once its account is gone or has moved on;
`completeRepair` pushes to the technician's id in `Technicians` as if it were
a user id (appointments.service.ts:501); `createUserAddress` can never add a
first address (users.service.ts:345); `deleteUserAddress` compares the address
id with the user id (users.service.ts:319); an update deletes any images its list
names (services.service.ts:142); the count validator sees one file at a time;
a response without `webViewLink` says `fail-to-upload` with status 201. Met and
outside the models: an update without `description` clears it
(services.service.ts:131), `AccessGuard` dereferences `requiredPermissions` when
only roles are required.

## 5. Proofs

Checked by tlapm for every value of the constants that satisfies the module's
named assumption.

* `OrderWorkflow_proofs`, the handlers. `IInv == TypeOK /\ StatusesAgree /\
  RepairTrail /\ MirrorIsCurrent` is inductive; no conjunct is inductive alone. That
  a paid order has the whole trail needs the trail of the appointment and that
  payment leaves the appointment `technician_done`; that the statuses agree after
  an action on a detail needs their types. One lemma per action, `NextCases` lists
  the actions, and five theorems follow: `TypeCorrect`, `StatusAgreement`,
  `RepairIsTracked`, `MirrorCorrect` and, as an action property from the same
  invariant, `CancellationIsFinal`.
* The money. Sums over the details are folds over a set, and what they need is
  proved first (*sums*, below). `MoneyInv` adds to `IInv` that the total covers
  the prices of the details (`Covers`) and that there is nothing to pay before
  there is an order: a quote adds its price to the total and takes away none, so
  the gap between them can only grow (`GapsStayOpen`), and since `adminComplete`
  lets only an order without a gap through, and nothing moves its prices later,
  `CompletedOrdersBalance`. `PartsAreAccountedFor` is one equation per step.
* The requests. `RInv` says of each slot what its request remembers and relies on
  (`Good`): the trail of the status it has read, a transition that is legal, an
  order that exists. Every one of these lasts while others move, because history
  only grows and an order that exists stays with its appointment (`Grows`,
  `GoodLasts`). So it is enough to look at the request that moves, one lemma per
  handler, and `RequestsTypeCorrect`, `OverlapKeepsTrail` and `OverlapKeepsParts`
  hold for any number of slots, any overlap and any failure.
* The refinement. `RequestsImplementWorkflow` assumes one slot and no failure, as
  the run `requests_serial` does: with two slots the claim is false, as
  `cancel_lost` shows, and with failures a cancellation can stop half-way. `Alone`
  says for each statement of each handler how far the rows are ahead of those the
  abstract state remembers, and what its checks have found; the last statement of
  a request is then the action of `OrderWorkflow`, a request turned away is a
  stutter, every other statement changes neither. `CancellationRepairsItself` is
  about one slot too, but with failures: it states `CancelRepairs`, which no run
  checks.
  `ConstantsAssumption` asks that the null value is no row, that the details are
  finitely many, that numbers are natural and quotes fit their column.
* `Reviews_proofs`. `RatingStaysInRange` and `CountIsBounded` rest on an invariant
  that says the same of the ratings requests have read and not yet used;
  `SerialReviewsAreExact` on one that says that without overlap what was read is
  still current. Its core is the arithmetic of rounding: an error of half a
  hundredth per review, carried along, is at most n(n+1)/4 hundredths over n.
  For any number of requests, details and technicians.
* `Uploads_proofs`. `IInv == TypeOK /\ StageInv /\ AnswerInv`: the stage of a file
  determines what Drive holds of it and whether it has a link, and the answer
  determines which stages its files may be in. `CreatedFilesArePublic` and
  `NoUploadForgotten` follow, for any number of requests and any finite or
  infinite set of files.
* `AfterSales_proofs`. Roles, permissions and grants only grow, and a step moves
  one request (`Grows`, `OneMoves`), so what a request has found out stays true.
  The invariant says what each request under way has found out (`Slot`), what its
  answer shows (`Answer`) and whose the support requests are. Besides the
  properties of the run it gives `ShownIsKept`, that permissions a client was
  shown stay granted, and `RecordsAreKept`, that no warranty changes and no
  support request is lost. For the warranties the calendar comes first: the
  recursive `FirstOf` has a solution (`CalendarEquation`), months have 28 to 31
  days, so every day has its month among the few `MonthOf` looks at
  (`MonthFound`). Every warranty is the row `CompleteRepair` wrote at a moment up
  to now (`Dated`), which gives `WarrantiesLast` for any day and any terms, and
  whatever a customer was shown was right at a moment since (`Shown`), which
  gives `ShownDaysHold`. For any users, roles, calls, repairs and instants.
* `Accounts_proofs`. An insert under way was allowed when its user had fewer than
  `MaxAddresses`; hence his addresses and the inserts under way for him together
  are at most `MaxAddresses - 1` and the number of slots. Without overlap what an
  insert found out is still true when it runs, which gives the limit itself and
  that no address is there twice. `ResetsReachTheirPhone` rests on every account
  having held the phone it has (`Holding`) and on what a reset found when it
  looked being among what was held, which lasts; without overlap the account
  still has the phone (`Recalled`, `SerialInv`).
* `DeviceRegistry_proofs`. The bound needs to count as held by a user his devices
  and those a login of his is about to delete, whoever has them by now: two
  logins may have chosen the same victim, and a victim may have changed hands.
  Devices held and upserts under way together are at most `MaxDevices - 1` and
  the number of slots.
* `ServiceCatalog_proofs`. `Inv` says that a service an update has found is there
  until the update commits, because of its row lock, and that the images removals
  have deleted are their own and no two requests' (`ImagesApart`). In a circle of
  waiting transactions a removal that waits for a service meets an update that
  waits for images, which only a removal holds: `DeadlocksNeedAnImage`.
* `Transactions_proofs`, deadlocks. Of transactions that wait for each other in a
  circle, look at the one that waits for the part with the greatest id: it is
  locked by one that waits for a later item of its own list, which is a greater id
  if the lists are sorted. The invariant says that a row is locked by a request
  that has taken it from its list and goes through the list in order.
  `PushesAreEarned` needs the same of what is queued and of what a request has
  checked.
* Slots and connections. What a step may do to a slot has five forms (`Shape`): it
  stands, a call arrives, its request continues, its transaction expires, it
  ends. From them: a call is under way at most once, no more transactions are open
  than the pool has connections, a locked row belongs to an open transaction
  (`Slots`). `TransactionsTypeCorrect` and `StandstillHasACause` follow, the second
  so: a row lock belongs to a transaction that needs no second connection; if all
  such transactions waited, each would wait for another of them, which is a
  cycle. Without a cycle there are none, so somebody waits for a connection, and
  those that have one all wait for a second.
* Stock. `Balance` sums over the calls that committed; the call that commits is new
  to them and takes exactly its quantities. `OnlyOverlapIsShort`: as long as no
  two requests over a part have met (`contended`), the stock a request has seen is
  the stock there is (`SeenStands`), and its list takes no more than it has seen
  unless it names the part twice.
* Pushes. `PushesArriveInOrder` says where everything received was pushed: what was
  delivered is the beginning of `pushed`, what is queued the rest (`QueueIsRest`),
  and a user's newest message comes from a later push than all before it, because
  it reached his newest connection (`LastConnection`, `ComesFrom`).
* Sums. `MapThenSumSet` and `FirstOf` are recursive, and the induction theorems of
  the library cannot be used here. Instead of them: a table over the subsets of
  a set (the months up to one) that satisfies the equation exists and is unique,
  since a smallest counterexample contradicts itself (`SetInduction`, `Induct`,
  from `WFMin`); the order in which elements are taken does not matter
  (`SumPick`, `SumRemove`). `OrderWorkflow_proofs` and `Transactions_proofs` each
  begin with these lemmas, so that each stands alone.

Assumptions on the constants are those named in the modules: the null value is no
row, amounts are natural, limits and pools are positive, what is counted is finite,
and part ids differ.

Only model-checked: that every request ends (`EveryRequestEnds`, in two runs), since
fairness is beyond the prover. `CancelledStays` is violated and so not provable.
Every other property of a run is stated by a theorem.

## 6. Plan

1. Built: `OrderWorkflow` first, as the heart of the system and the abstract
   specification; `OrderRequests` and the refinement; the components around it
   by the weight of their races; then the guard and after-sales, and the
   transactions on one pool with the push channel. Proofs for each of them.
2. Next proofs: how much of `StatusesAgree` overlapping requests leave standing,
   and which handlers, called alone, break it; that without overlap every
   reschedule counts (`EveryRescheduleCounts`).
3. Next models: the OTP mailed for a forgotten password, once a handler reads
   it; more than one order, for the stock and the technicians they share.

## 7. Not modelled

* FCM (`notifications/fcm`): one outgoing call that changes no state; its result
  counts in `DeviceRegistry` as the devices that accepted a message.
* The OTP `initiatePasswordRecovery` mails (`auth.service.ts:223`): it writes a cache
  entry that no handler reads, and the controller drops the reset token it signs.
  `sendOtpEmail`, `getCache` and `getUserPermissions` have no callers.
* `POST notifications` and `updateUserNotificationStatus`: the first inserts one
  row nothing here reads; the second changes rows that exist only for devices
  sent to, and there are none (`ActiveDevicesOf`).
* Stubs: create, update, remove of spare parts; technicians; update and remove of
  roles and permissions. The rating update of `technicians` has no caller.
* Repair images: rows inserted with a quote or a completed repair and read back
  for display.
* Searches, pagination, categories: they only read.
* Time zones and the milliseconds between two `new Date()` of one handler: the
  clock of `AfterSales` does not move within a step. bcrypt and the expiry of
  tokens: a token is accepted or it is not.
* DTOs, controllers, interceptors, `main.ts`: what a DTO admits is the range of
  the inputs, what a controller calls is the action. The seeds are commented out.
