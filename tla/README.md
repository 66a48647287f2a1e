# A formal model of the Vin microservices

This directory holds TLA+ modules that model the shop in this repository, TLC
configurations that check them on small instances, and TLAPS proofs of what
matters most for instances of any size. Names in the modules are the names in
the code; `PROJECT.json` says for each definition which lines it stands for.

## 1. The system

| Part | State it keeps | Operations that change it | Talks to |
| --- | --- | --- | --- |
| Order (`Vin.Services.OrderAPI`) | orders and lines, outbox, inbox | submit; handlers of `PaymentAuthorized`, `PaymentRejected`, `InventoryReserved`, `InventoryRejected`, `PaymentRefunded` | Product over HTTP, the topic |
| Payment (`Vin.Services.PaymentAPI`) | one payment per order, outbox, inbox | handlers of `OrderSubmitted`, `PaymentRefundRequested` | the topic |
| Inventory (`Vin.Services.InventoryAPI`) | stock, one reservation per order, outbox, inbox | handler of `PaymentAuthorized`; administrator's PUT | the topic |
| Outbox (`Vin.Eventing/Outbox`) | rows with `ProcessedOnUtc`, `DeadLetteredOnUtc`, `Attempts` | enqueue in the caller's transaction; publish a batch of ten each second | the service's database, the topic |
| Inbox consumer (`Vin.Eventing/Consumers`) | rows keyed by `EventId` | receive, check, handle and record in one transaction, complete | its subscription, the handlers |
| Broker (`infra/servicebus/Config.json`) | topic `vin-events`, three subscriptions, a queue for e-mail | peek-lock delivery, five deliveries, one hour to live | every service |
| Cart (`Vin.Services.ShoppingCartAPI`) | headers and details | upsert, remove, coupon | Product, Coupon, the e-mail queue |
| Coupon, Product | one table each | create, update, delete | - |
| Auth | users and roles (ASP.NET Identity) | register, login, roles, password reset | - |
| E-mail | a log of sent mail | one consumer of the queue, without an inbox | SMTP |
| Web (`VinWeb`) | nothing of its own; the cookies it sets | the BFF forwards the browser's requests, and makes a flag of a failure | all of the above |
| Angular client | per page: lists, forms, requests in progress, buttons that are disabled; the user it shows | catalogue, product, cart, order, administration, sign-in, registration, password reset; guards of the routes | the BFF |
| `ResilientHttpMessageHandler` | a circuit per destination | retry, count failures, open and reset | HTTP |

A checkout goes from the browser through the BFF to Order, which stores the
order together with an `OrderSubmitted` row. From there on nothing is called
directly: Payment authorizes or rejects, Inventory reserves or rejects, Order
follows, and compensates through Payment when the goods are refused. Each
handler works in one database transaction that also writes the inbox row and
the outbox rows.

What is hard in it:

* three databases and no transaction across them, with messages that are
  repeated, delayed, reordered, dead-lettered or dropped;
* two loops per service (publisher and consumer) that may stop between any two
  steps, with in-memory state that is lost;
* values that are read, computed with and saved without a lock or a concurrency
  token (stock, carts);
* pages whose requests overlap, whose answers arrive late, out of order, not at
  all, or after the page has been left, and which cannot always tell a failure
  from an empty answer;
* counters with limits: ten attempts per row, five deliveries per message, ten
  rows per batch, five failures per circuit.

What makes each part correct: the services agree on the outcome of an order and
on who holds the money and the goods; an order once decided stays so; every
order is decided; a committed event is published at least once and takes effect
at most once per service; stock is neither made nor lost; a page with nothing in
progress shows what the services hold or says that it does not, and its buttons
come back. The hazards to these, each at its line, are listed in `PROJECT.json`.

## 2. The modules

```
Checkout              abstract: one decision about an order, its money and its goods
   ^ implemented by
CheckoutSaga          three services, any transport
   ^ implemented by                    both extend CheckoutServices
CheckoutDelivery      three services, outboxes, ordered peek-lock subscriptions
OrderTracking         CheckoutSaga and the page that polls it

Outbox                the publisher's batch loop
EventHandling         abstract: an event takes effect at most once
   ^ implemented by
InboxConsumer         the steps of a delivery, several consumers
Inventory             stock under the handler and the administrator

CartContents          abstract: the pieces and the code of one cart
   ^ implemented by                ^ used by
Cart                               Storefront    the cart page, its requests, orders
                                      ^ extended by
                                   Shopping      catalogue, product and cart page

AdminPage             the administration page, over Product and Coupon
Session               who is signed in: cookies, shell, guards and forms

CircuitBreaker        the requests to one destination
EmailConsumer         the e-mail queue, from the cart service to the log
```

The proofs stand in modules of their own, which extend the modules they are about:

| Proofs | About |
| --- | --- |
| `CheckoutSagaProofs` | `CheckoutSaga`, `OrderTracking` |
| `CheckoutDeliveryProofs` | `CheckoutDelivery`; uses `CheckoutSagaProofs` through an instance of it |
| `MessageBusProofs` | `Outbox`, `InboxConsumer` |
| `CartProofs` | `Cart` |
| `ShoppingProofs` | `Shopping`, and `Storefront` below it |
| `AdministrationProofs` | `Inventory`, `AdminPage` |
| `RequestProofs` | `CircuitBreaker`, `EmailConsumer`, `Session` |
| `Sums` | the folds of the community modules over finite sets; used by the first and the fourth |

Modules whose proofs share a module have no name in common; that is why some of
them have an `Init` and a `Spec` and others an `OutboxInit` or a `SessionSpec`.

**CheckoutServices** has the databases of Order, Payment and Inventory as
variables (`status`, `lines`, `payment`, `reservation`, `stock`, `inbox`,
`outbox`) and one operator per handler. A handler that returns early is
`Ignored`, and its event is still recorded in the inbox, as in the code. Line
sets are what `SubmitAsync` lets through: merged, one to twenty pieces. The
amount of money, the wording of reasons and timestamps decide nothing and are
left out; `OrderId.ToByteArray()[0] % n` of the simulator is the constant set
`SimulatorRejects`. An event is a type and an order: that no second row of a
type is ever written for an order is not assumed but proved
(`EventsAreRaisedOnce`).

**CheckoutSaga** lets any event in an outbox reach any consumer that handles it,
at any time and any number of times. It stands for every transport, and what
holds of it holds whatever the broker does.

**CheckoutDelivery** has the transport the repository configures. `Publish`,
`PublishUnsaved` and `PublishFails` are what can happen to a row in
`PublishBatchAsync`; a subscription is a sequence that gives out the oldest
message that is not locked (`MaxConcurrentCalls = 1`); a consumer that stops
leaves its message locked and those behind it are given out first. Copies of an
event for a service without a handler for it are completed without effect and
left out. Inbox check, handler and commit are one step here; `InboxConsumer`
takes them apart and shows that this is sound. `interrupted` is a history
variable: the events Order's consumer had in hand when it stopped.

**OrderTracking** composes `CheckoutSaga` with `order-status.component.ts`.
`Open` and `Close` are the creation and the end of the page, `Tick` the timer of
2.5 seconds, whose `switchMap` gives up the request in progress, `ServeOrder`
the BFF and Order, `Receive` and `Fail` the two branches of the subscription.
`requests` is a set, so that the mistake of not giving up a request can be
expressed. `StepComplete` is the timeline.

**Outbox** is the loop of one publisher: `Load` a batch, publish row by row with
the outcome in memory, `Save` at the end. Rows are numbered by `OccurredOnUtc`
but committed in any order. `accepted` and `failures` are history variables.

**InboxConsumer** is `ProcessMessageAsync` step by step for several consumers:
decode, check the inbox, handle and `SaveChanges` (where the primary key of the
inbox makes one transaction wait for, or fail on, another), commit, complete.
One service process has one consumer; two of them are a scaled-out service, or
a consumer whose lock expired while it was still at work.

**Inventory** takes the reads and the saves of the reservation handler and of
`InventoryController.Set` apart. SQL Server's default isolation holds no lock on
what was only read. `set`, `taken` and `stale` are history variables.

**Cart** has the header and detail rows of one user and the requests of
`CartUpsert`, `RemoveCart`, `ApplyCoupon` and `RemoveCoupon`, split at every
await: each reads, then saves what it computed, and may stop in between.
`FirstOrDefaultAsync` without an order finds any of several headers. The
products and coupons a request names exist: `ApplyCoupon` asks for the coupon,
over HTTP, before it saves and leaves no trace of a refusal; `CartUpsert` does
not ask for the product, and the pages offer only those of the catalogue. `added`, `removed` and `lost` are
history variables; `overlapped` says that two requests were ever in progress
together. **CartContents** is what a user may expect: a count for each product
and a code.

**Storefront** composes `CartContents` with one visit of the cart page: the
request in progress behind each button, `Serve...` for the services behind the
BFF, `Answer...` for the reply. The BFF passes on a refusal, and a service that
does not answer, as a success with a flag; whether the page looks at the flag
differs by request and is kept. Checkout reads the cart and then creates the
order, in two steps, the second of which Order refuses beyond twenty pieces.
`LoseReply` gives up a request before or after it was served, so that an order
may exist whose answer was lost. The e-mail button is a request without effect on
the cart; what becomes of the message is in `EmailConsumer`.

A request that writes the cart has a beginning and an end (`Take`, `Done`): `serving`
is what the cart service works on. `CartContents` is what `Cart` implements while
requests come one at a time; when one is taken up beside another the visit is
`"interleaved"`, and from then on `Interleave` may put anything within the bound
`Mixed` into the cart, a lost addition or a second line among it. Requests of other
pages, and those that were given up on, last as long (`Elsewhere`,
`ServeElsewhere`).

After an accepted order the page is `"leaving"`: `finalize` has enabled its button
again, and the router waits for `authGuard`, which asks the BFF who is signed in.
`Leave` is the guard's answer, whichever; until then the page can be used.

**Shopping** extends it with the pages before it. `catalog.component.ts` and
`product-detail.component.ts` load their products, or show an error or nothing,
and add pieces, with one flag per page and product; these requests outlive the
page, may overlap at the cart service (`TakeAdd`, `ServeAdd`), and a piece that is
added when the cart page has been read already is, to that page, the doing of
another. `expected` and `emptied` are history variables: the pieces the user has
been told of, and the products of which some were taken out.

**AdminPage** is `admin.component.ts` over the tables of Product and Coupon: the
two lists, which one refresh asks for together (the skeleton stays until both
requests are complete), the two forms, the prompt before a deletion, and the
requests that save and delete. The content of a row is one value; validation is
that a form may hold `Incomplete`, which cannot be sent. A service gives a new
row the next identity and refuses to update or delete one that is gone.
`draft` is a history variable: what became of the content last sent.

**Session** is who is signed in, as the cookie, the services' token, the shell and
the guards see it. A load of the page asks once (`me`); a guard asks at every
navigation to its route and keeps the answer to itself; sign-in and sign-out set
the user from their own answer. `Navigate` is the router, which keeps a component
whose route it is asked for again. `Mount` is a new component with an empty form.
Whether a password is right is a choice; whether somebody has an account is
state, and registration changes it. Of the routes with `authGuard` only the cart is
there: `orders/:id` has the same guard. A cookie lasts fourteen days and the token in
it one hour (`Expire`). `disturbed` collects what the page is not told of.

**CircuitBreaker** is `ResilientHttpMessageHandler.SendAsync` with the
`CircuitState` its requests share. The increment with its comparison, the write
of `_openedUntil` and the reset are separate steps. A request that ends frees its
slot for another. `_openedUntil` is written and read without a lock; its ticks
are one machine word and its offset is always zero, so a reader sees the old or
the new time. A cancelled delay is recorded as a failure or not, depending on
the clause it stands in.

**EmailConsumer** has the publication by the cart service (told to the one who
asks for an e-mail, swallowed by `CartUpsert`), the peek-lock queue and the
consumer, whose row in the log and whose completion of the message are two steps.
A send that fails is a message the queue does not have (`PublishFails`); one that
the broker took although the sender saw it fail, and what the client library sends
again by itself, are left out.

In the modules an operator whose comment begins with *Mistaken* is a plausible
bug, used only to see that a property notices it.

## 3. What is checked

| Run | Instance | Shows |
| --- | --- | --- |
| `OrderTracking.cfg` | three orders (one the simulator rejects), two products, stock for one or two of the orders; a page opened for one after another | the services agree (`OutcomeAgrees`), stock is conserved, events are raised once, `ImplementsCheckout`; the page shows no step that was not taken and takes none back, and the outcome reaches it (`DecisionIsShown`) |
| `CheckoutDelivery.cfg` | two orders, limits 2, two faults of any kind, expiry of messages | every event is accounted for; an answer is passed over, or an order never decided, only if one of its events was given up or Order's consumer stopped with its authorization in hand; the transport implements `CheckoutSaga` |
| `CheckoutDeliveryOvertaken.cfg` | the same with one fault, and messages that do not expire | **violated**: `RejectionCompletes` |
| `Outbox.cfg` | three rows, two of which can never be published, batches of two, limit 2, one stop, one outage | nothing lost, duplicates have a cause, every row settled although poison may fill a batch |
| `InboxConsumer.cfg` | two consumers, five messages (a duplicate, one unhandled, one unreadable, one garbled), two deliveries, two faults | effects happen once, every message is settled, `ImplementsPromise` |
| `Inventory.cfg` | two handlers, two orders, two products, two PUTs | pieces are conserved but for saves over unread changes, reservations are final |
| `Cart.cfg` | four requests of any kind at once, two products, counts one and two | every piece is accounted for (made up by nobody, missing only by a concurrent sweep or a lost addition), what was removed stays removed; unless requests overlap, one row of each and `ImplementsContents` |
| `Shopping.cfg` | one product, two pieces in the cart, a code that asks for more than the cart, two clicks on three pages, two refreshes at once, requests that overlap at the cart service, any reply lost | a settled cart page is current, no order is empty, a second order has one of two causes, what the user was told was added is there until requests overlap, buttons come back |
| `AdminPage.cfg` | a row of each kind and room for another, two values, four clicks, two refreshes at once, any reply lost, another administrator | a settled page lists what is stored or shows an error, content that was sent is kept until it is saved, skeleton and buttons come back |
| `Session.cfg` | an administrator, a customer and a stranger, three clicks, any reply lost, expiry, another page | the shell shows who is signed in, the two cookies go together, the administration page is on the screen for no customer, forms come back, a sign-in leads back to the cart |
| `CircuitBreaker.cfg` | three requests at a time, three attempts, threshold 5 (as in the code), two outages | the count is acted upon, calls return, an outage opens the circuit and a recovery closes it |
| `EmailConsumer.cfg` | two requests for an e-mail, an update and a foreign message, three faults | the log and the queue agree, an accepted request is logged, dead-lettered or expired |

`CHECK_DEADLOCK FALSE` stands where the system may stop: when all orders are
decided, all rows settled, all messages consumed, all requests on a cart
answered or the visit of a page over. In `OrderTracking` a page can always be
closed or opened again, and in `CircuitBreaker` a request always follows. A
type invariant is a conjunct of a property of its run, or is proved. Five properties are not in a run and proved only, at no cost
in states: `RefundOnlyWithoutGoods` and `OutcomeIsFinal` of the saga,
`NotGivenUpEarly` of the outbox, `CompletedWasHandled` and
`OneTransactionPerEvent` of the consumer.

### Bounds

The limits of the code (10 attempts, 5 deliveries, batches of 10) are constants,
and the runs give them the smallest values at which the limit is reached with
the faults at hand and can also be missed. `MaxFaults`, `MaxStops` and
`MaxOutages` bound the faults of a behaviour, because with unbounded faults no
message ever gets through; in `CheckoutDelivery.cfg` they suffice to use up the
attempts of a row or the deliveries of a message, and `OrdersAreDecidedOrGivenUp`
then names the event that was given up. Two orders are needed for
competition over stock and for messages that overtake each other; three in the
saga, so that one may be rejected by the simulator beside them, and the page may
be open for any. Four requests on a cart
are enough for two headers with a line each and a removal of either; a fifth
would repeat what one of them did. Two refreshes suffice for replies to change
places. `MaxClicks` bounds a visit, not what is in progress: two clicks of
`Shopping` are two requests that overlap, with each other or with the first of
another page, an addition and the order of it, or an order and the one that follows
it; the properties relate two requests, and the theorems hold for any number.
Three sign in, out and in again as somebody else; four edit, type, save and type
on while the answer is under way. What others do counts as a click. Opening the
cart and the order page, whose number is bounded by the model, costs none. `Mixed`
is one cart: three pieces, where two and two additions of one would be four. Two
identities are a row that is there and one to come; three accounts are both roles
and one without an account. The theorems need none of these bounds.

### Fairness

Publisher and consumer are hosted services that loop for ever and are restarted
(`restart: unless-stopped` in `compose.yaml`), so `Publish`, `Deliver`, `Load`,
`Save` and the steps of a consumer that has a message are weakly fair. Locks
expire by themselves (`LockDuration`). The end of an outage is assumed fair in
`Outbox` only, where every row is settled one way or the other. A request of
`CircuitBreaker` or of a page goes on or times out (`HttpClient.Timeout` is
eight seconds; the browser's own requests end too) and its reply is handled,
hence the weak fairness of each `...Step`; that the router leaves (`Leave`) is not
assumed, nor that requests of other pages end; a circuit's twenty seconds pass; a
destination need never recover. The timer of `OrderTracking` ticks and Order
answers, weakly fair; `Receive` is strongly fair, since a tick disables it again
and again: of all the requests one is answered within 2.5 seconds. An order
service that always took longer would never be heard. No fairness is assumed of
customers, administrators, services of the saga under an open page or faults, or
of the requests in `Cart`, which has safety properties only.

### Where the code and its documents disagree

One of these is a run that ends in a counterexample, the second. The others were
met while modelling: the models contain the behaviour, and where a property
would fail for it the property names it as a premise.

*In the services*

1. *Asking for one piece less adds pieces.* The stepper of the cart page,
   labelled "Decrease quantity", sends the new count, and `CartUpsert` adds what
   it is sent to the count of the line: one piece instead of two makes three
   (`Stepper`, `ServeUpdate`).
2. *An answer may overtake the authorization it follows from.* Order's consumer
   stops with `PaymentAuthorized` locked; Inventory handles its own copy and
   rejects; `InventoryRejected` is delivered to Order first.
   `RequestPaymentCompensation` ignores it, because the order is still
   `PendingPayment`, and the inbox row makes this final. The order then waits in
   `PendingInventory` and the payment is never refunded, although
   `docs/adr/0002-order-saga-outbox-inbox.md:9` says a rejection leads to
   `CompensatingPayment` and on to `Rejected`, and `docs/ARCHITECTURE.md:84` shows
   it as the result of a refusal. The same goes for `InventoryReserved` and
   `Confirm`. `RejectionCompletes` states the documents' promise, with no exception
   but events that were given up, and TLC finds this behaviour with a single stop.
   `AnswersAreActedUpon` and `OrdersAreDecidedOrGivenUp` name the stop (`OutOfTurn`)
   and say that nothing else has the same effect.
3. *A reservation may revive stock that was set to 0.* The handler writes the
   remainder of what it read over an administrator's PUT; the orders that follow
   are reserved from it, although `docs/ARCHITECTURE.md:84` describes setting the
   stock to 0 as the way to see them rejected (`stale` in `ConservedUnlessStale`).
4. *An outage of some ten passes loses an order.* After ten failed attempts a
   row is marked dead-lettered and nothing takes it up again, although
   `docs/ARCHITECTURE.md:86` says that restoring the broker lets the flow
   continue (`GivenUp` in `OrdersAreDecidedOrGivenUp`).
5. *Impatient callers open a circuit.* A cancelled caller's token is recorded as
   a failure of the destination, so five closed browsers shut out a destination
   that never failed; `docs/ARCHITECTURE.md:94` speaks of downstream failures
   (`Abandon`; `RecoveryClosesCircuit` says that it closes once they stop).

*Between the pages and the BFF*

6. *A promotion cannot be removed.* `BffController.RemoveCoupon` applies the empty
   code, which `ApplyCoupon` refuses, and answers `Ok`; the page says "Promotion
   removed." (`ServeRemoveCoupon`, `AnswerRemoveCoupon`).
7. *An outage is shown as emptiness.* The BFF answers 200 without a result, which
   `ApiService` takes for an empty cart or an empty catalogue ("No item matches
   this route."), although the pages have a message for this case and
   `PRODUCT.md:65` asks that failures be product states (`AnswerLoad`,
   `ReceiveProducts`).
8. *An order may be placed twice.* When the answer to a checkout is lost the
   button comes back with an error, and a second click creates a second order;
   the request carries no key. And when the answer comes, `finalize` enables the
   button (`cart.component.ts:234`) while the router still waits for the guard of
   the order's page (`:242`): a click in between orders again
   (`SecondOrderHasACause` says that nothing else leads to it).
9. *A confirmed addition may be lost.* Two additions that overlap, of the catalogue
   and of the product page or of two windows, read the same count in `CartUpsert`
   (`CartAPIController.cs:237`), and the later save overwrites the earlier one;
   both are answered with success, although "Cart updates are confirmed by the Cart
   service before this page reports success" (`product-detail.component.ts:59`;
   "interleaved" in `WhatWasToldIsThere`, `lost` in `PiecesAreAccountedFor`).
10. *A BFF that does not answer is told as a missing sign-in*: every error while
    adding a piece shows "Sign in to route this item to your cart." (`AnswerAdd`).
11. *A registration may fail and succeed.* If its answer is lost, or assigning
    the role fails, the page says that the account could not be created, and it
    exists (`ServeRegister`, `LoseReply`).

*Within the pages*

12. *The late answer wins.* An answer to the question who is signed in, asked
    when the page was loaded, overwrites a sign-in or a sign-out that was
    completed meanwhile (`auth.service.ts:15`; "overlap" in `ShellMatchesSession`).
13. *An administrator who has just signed in sees no link to the administration*:
    the answer to a sign-in has no roles, so the link appears after a reload
    (`AnswerLogin`).
14. *A sign-in form may stay disabled.* When a guard sends a user who has just
    signed in back to the form, the router keeps the component, whose button is
    disabled from the sign-in that succeeded ("kept" in `FormsComeBack`).
15. *The administration page forgets.* The answer to a save empties the form of
    its kind although the administrator has typed on
    (`admin.component.ts:275`), and the answer to a deletion closes the prompt
    although it may name another row by then (`:337`). `DraftsAreKept` therefore
    speaks of content until it is sent and saved.

## 4. What is proved

| Module | Theorems | Argument |
| --- | --- | --- |
| `CheckoutSagaProofs` | `TypeCorrect`, `CausesHold`, `OutcomesAgree`, `RefundsHaveCause`, `RaisedOnce`, `DecisionsAreFinal`, `SagaImplementsCheckout` | `RecordsHaveCauses` |
| | `PiecesAreConserved` | `Conserved`, with `Sums` |
| | `WhatIsShownIsTrue`, `NoStepIsTakenBack`, `TrackingImplementsSaga` | `IInv`, and `AnswersInOrder` beside it |
| `CheckoutDeliveryProofs` | `DeliveryTypeCorrect`, `QueuesHoldRaisedEvents`, `DeliveryImplementsSaga`, `OutcomesAgreeInDelivery`, `PiecesAreConservedInDelivery` | `QueueOK`, then the refinement |
| | `NoEventIsLost`, `AnswersTakenInTurn` | `AccountedFor`; `AllInTurn` |
| `MessageBusProofs` | `OutboxTypeCorrect`, `NothingIsLost`, `NoneIsGivenUpEarly`, `RepetitionIsBounded` | `TableInv` |
| | `TypeCorrect`, `EffectsAreIdempotent`, `CompletionIsJustified`, `TransactionsAreApart`, `ConsumerKeepsPromise` | `IInv` |
| `CartProofs` | `TypeCorrect`, `RemovalIsFinal`, `AloneLeavesOneOfEach`, `PiecesAreNeverMadeUp`, `CartImplementsContents` | types with what a request has read; `Alone`, `Named`, `Accounted`, `Standing` |
| `ShoppingProofs` | `VisitTypeCorrect`, `SecondOrdersHaveACause`, `ToldIsThere`, `SettledPagesAreCurrent` | `OnceOnly`, `Counted`, `FreshPage` |
| `AdministrationProofs` | `StockIsConservedUnlessStale`, `DecisionsStand` | `StockInv` |
| | `AdministrationIsCurrent`, `DraftsStayInTheirForms` | `PageInv`, `DraftsOK` |
| `RequestProofs` | `TypeCorrect`, `ThresholdHolds` | `CountIsCovered` |
| | `LogAndQueueAgree` | `QueueInv` |
| | `ShellShowsSession`, `AdministrationIsGuarded` | `Told`, `Cookies`, `LedAway` |

Every invariant and every action property of a run that passes is the statement
of one of these theorems, and so are the four refinements.

All of them hold for every value of the constants that the modules' named
assumptions allow (quantities are naturals, limits are positive, the simulator
rejects submitted orders only, names of processes and messages are distinct from
the markers for none, the rows an administrator finds are rows); no theorem has a
hypothesis of its own. What a property excepts is in its formula: a theorem about
it says that nothing but the causes it names makes it fail.

*The saga.* `OutcomeAgrees` is not inductive: it says nothing of the events on
their way. `RecordsHaveCauses` does: `EventsMatchRecords` says for each event in
an outbox which record its writer must have and the reverse, and
`RecordsMatchEachOther` which records of the three services can stand beside one
another. With the types it is inductive, for any order of deliveries, because a
handler only acts on an event that is in an outbox. Agreement, causes of
refunds and single events are consequences; the refinement of `Checkout` shows
for each handler that its step is one abstract step or none.

*The page of an order.* With the page, whatever it does, the services still run the
saga (`TrackingImplementsSaga`), so the theorems above hold for the composition
too; the run checks them under `TrackingSpec`. What the page shows was stored at
some time before, so `WhatIsShownIsTrue` needs that nothing it may conclude from a
status is ever taken back (`RecordsStay`: a record of Payment or Inventory does
not vanish, a refusal and an outcome are final) and that a stored status is
justified when it is read (`StoredIsJustified`, from `RecordsHaveCauses` and from
`PaidBeforeInventory`, which the saga's own theorems did not need). That no step
is taken back rests on there being one request at a time, on answers lying
between what is shown and what is stored (`AnswersInOrder`), and on the handlers
of Order, which only move the timeline forward (`StatusAdvances`).

*The pieces.* `StockConserved`, and what becomes of pieces in the cart, are sums:
folds over a set, for which the library has no theorem and an induction with an
operator as its parameter would be needed. `Sums` does without. Of the subsets of
a finite set that would contradict the claim one has fewest elements
(`WFMin` on the naturals), and taking an element out of that one leads to a
contradiction. So the function behind a fold exists, the fold is a number, any
element may be the one added last, and one weight that grows makes the sum grow
by as much. With this `Conserved` needs for each handler only how the reservation
of one order changes the set that is added up.

*The transport.* `CheckoutDelivery` implements `CheckoutSaga` because each message of
a subscription is for an event that was raised and that its service handles
(`QueueOK`): whatever is done to a queue moves, marks or drops messages, and the
databases change only in a transaction of a service that has such an event in
hand (`DbStep`), which the saga allows at any time. Agreement and conservation
then hold here without another word about services. Nothing of that says that an
event arrives. `AccountedFor` follows an event from the row through the
subscription to the inbox, or to where it was given up: a row is marked only once
the topic has it, and a message leaves only when its event is settled.
`AnswersTakenInTurn` is about order. The topic copies the authorization of an
order to Inventory and to Order in one step; Inventory answers after it took its
copy, so at Order the answer is queued behind the authorization, unless that is
settled already; the subscription passes over a message only if it is locked, and
a locked one is handled, unless its consumer stopped before the commit, which
`interrupted` remembers; and handling it takes the order out of `PendingPayment`,
in which answers are ignored. So an answer is passed over after such a stop, or
after the authorization was dead-lettered or expired, and in no other case.

*The outbox.* Each column is tied to what really happened: what is marked as
sent was accepted, attempts never exceed failures (strictly less for a failure
still in memory), a row is dead exactly when its attempts have reached the
limit, and a row not marked as sent has been accepted at most as often as it was
hit by a stop or a failure. A pass only holds pending rows.

*The consumer.* The strengthening is about where consumers may be: within a
transaction only for an event that is not in the inbox, and alone with it; about
to complete only for an event that is in the inbox or needs no handling; what is
queued has a delivery left; a lock is valid exactly for locked messages. The
refinement of `EventHandling` follows step by step: only `Commit` handles an
event, and only a settlement under a valid lock, or an expiry, moves a message.

*The cart.* The rows alone are not inductive: a request writes to the line and
header it has read. `TypeOK` therefore also types what requests hold, and the
foreign key (each line has its header) is kept because a header goes only with
all its lines and an insertion for a missing header fails. A removed line cannot
come back: an insertion makes a row of its own, named by the request that inserts
it, and an update of a row that is gone fails.

Requests that do not overlap find what they read still true when they save, at each
of their steps (`StillTrue`, `Alone`), which gives one header and one line of a
product although no index of the database does. When they overlap, pieces can go
missing but not appear. A sum over the rows is not inductive for that: a late save
may write a smaller count over a larger one, or a larger one back. `Accounted` has
a number for each line which covers its count and every count that a request in
progress has read of it (`Covers`); the sum of these numbers is never more than
what was added less what was taken out, and the sum of the counts is just that
until a save writes over a row and its product counts as lost. For the refinement of `CartContents` nothing is lost
(`Standing`), and the pieces of a product are those added less those taken out.

*The stock.* A row that was read is still there when it is saved (`RowsStay`), and
what the last PUT of a product left, less the pieces reserved since, is what is
stored (`Conserved`), until a save that had read an older quantity makes the
product `stale`. A reservation once written is not written again because the
handler of an order looks for it, and its key refuses a second.

*The pages of the shop.* First which step may change which variable (`WhoActs`,
`CartActs`), then types, with what each request carries. A second order
(`OnceOnly`): as long as no reply to a checkout was lost and nobody clicked while
the page was leaving, an order that was created is one whose answer is still to be
handled, and then its button is disabled, or has made the page set out for the
order's. What the user was told (`Counted`): until requests overlap, what was
expected, with what a page has been answered and not told yet, is no more than
what is in the cart. The page at rest (`FreshPage`): either it shows the cart, or a request of its own that changed
the cart is still to be answered, after which it asks again (`Promised`), or a
refresh is under way that will bring the cart as it is then; refreshes or requests
that overlap, lost replies and other pages are the causes the property names.

*The administration page.* The same with two lists to a refresh and buttons that are
not disabled: `Due` says that a save or a deletion succeeded and its answer has not
been handled; unless it is, or the page shows an error, each list that was brought
is the service's, and each that is not asked for any more is shown (`PageInv`). What
was sent stays in its form (`DraftsOK`) because only one form is saved at a time,
and a save that succeeded has taken what was sent.

*The e-mail queue.* For each message where it may be with what it has been given
(`Settled`): what waits has a delivery left, what is completed has a row, and a
message with a row is completed, about to be, or had its delivery cut short; and
for the one message in hand how far the consumer is with it (`HeldOnce`).

*The session.* Undisturbed, one request that tells the shell who is signed in is
under way at a time and its answer is still true, and otherwise the shell shows
whose the cookie is (`Told`). The cookies are set and removed together, but for
the hour of the token (`Cookies`). That the administration page is guarded is not
inductive: a guard may let an administrator in after somebody else has signed in.
It holds at rest because of `LedAway`: with a customer's cookie that page is on the
screen only while an answer is to come that leads away from it, the one to the form
they signed in with or the one of the guard of the cart, where that form leads.

*The circuit.* `TypeOK` bounds the counter and `ThresholdIsActedOn` names a
request that will act; neither is inductive. `CountIsCovered` says that the
count is below the threshold plus the number of requests that are opening or
resetting: an increment that reaches the threshold adds such a request, and one
leaves their number only by resetting the count to zero.

Left to TLC is what is stated under fairness (`OrdersAreDecidedOrGivenUp`,
`EveryRowIsSettled`, `EveryMessageIsSettled`, `DecisionIsShown`, `PagesComeBack`,
`PageComesBack`, `FormsComeBack`, `SignInLeadsBack`, `CallsReturn`,
`RecoveryClosesCircuit`, `OutageOpensCircuit`, `AcceptedRequestIsSettled`):
liveness and `ENABLED` are out of this prover's reach. TLC also evaluates the
invariants that are proved, since their theorems assume nothing of an instance
and its runs show that the instances are not empty.

## 5. What is not modelled, and the plan

Not modelled, because nothing happens between two of its steps or because it is
not in the path of any property here:

* search, category filter and sorting of the catalogue, which compute a view of
  the list the page has; the notices at the edge of the screen and their timer;
  the menu; the two tabs of the administration page; going back from a page to
  an earlier one;
* the stored shapes of Product and Coupon; Auth's password rules, the content of tokens, the
  role `CUSTOMER`, which nothing asks for, and the mail of a password reset;
* the catalogue client of Order: prices and names are asked for before the first
  write of a checkout, whose failure leaves nothing;
* the MVC pages, which `PRODUCT.md` calls legacy fallback surfaces, and the
  libraries vendored under `wwwroot`;
* health checks, telemetry, migrations, configuration.

Where a part is modelled in a module of its own the others take what it promises:
the pages do not see retries and circuits (a request is answered or comes to
nothing), and `Storefront` sees a cart as `CartContents`, which `Cart` implements
only while requests do not overlap, and as anything at all once they do.

What is left to do, in this order:

1. Compose `Shopping` with `CheckoutSaga`, from the click to the decision, as
   `OrderTracking` does from the order on, and carry the theorems of both over.
2. Prove the safety part of the properties under fairness, where they have one: a
   skeleton of the administration page has a request in progress
   (`SkeletonHasLoad`); that the same is true of every disabled button is not proved.
3. Put `Storefront` on `Cart` in place of `CartContents` and `Interleave`, with one
   request of the page and one of another page on the same rows, to see which carts
   overlapping requests can leave to the page.
