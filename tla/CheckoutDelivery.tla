-------------------------- MODULE CheckoutDelivery --------------------------
(***************************************************************************)
(* The checkout saga with the transport it really has: each service's      *)
(* outbox publisher, the vin-events topic with one ordered peek-lock       *)
(* subscription per service, and the consumer that drains it.  A           *)
(* subscription hands out its messages oldest first, but passes over the   *)
(* ones that are locked; a consumer that stops without settling a message  *)
(* leaves it locked until the lock expires, so the messages behind it are  *)
(* then handed out first.                                                  *)
(*                                                                         *)
(* A behaviour has at most MaxFaults faults: an attempt to publish that    *)
(* fails, a process that stops, a handler that throws, a message that      *)
(* outlives its time to live.                                              *)
(***************************************************************************)
EXTENDS CheckoutServices, Sequences, SequencesExt

CONSTANTS DeadLetterAttemptLimit,  \* failed attempts that dead-letter an outbox row (10)
          MaxDeliveryCount,        \* deliveries the broker makes of a message (5)
          MaxFaults,               \* bound: the faults of a behaviour
          MessagesExpire           \* whether messages may outlive their time to live

ASSUME DeliveryAssumption ==
    /\ DeadLetterAttemptLimit \in Nat \ {0} /\ MaxDeliveryCount \in Nat \ {0}
    /\ MaxFaults \in Nat
    /\ MessagesExpire \in BOOLEAN

VARIABLES processed,     \* the outbox rows with ProcessedOnUtc set
          deadRows,      \* the outbox rows with DeadLetteredOnUtc set
          attempts,      \* the failed attempts recorded in each row
          queue,         \* the messages each subscription holds, oldest first
          deadLetters,   \* the messages in each subscription's dead-letter queue
          expired,       \* the messages each subscription dropped at their end of life
          interrupted,   \* history: what Order's consumer had in hand when it stopped
                         \* before its commit, and left locked
          faults         \* the faults so far

rowVars   == <<processed, deadRows, attempts>>
queueVars == <<queue, deadLetters, expired>>
vars      == <<dbVars, rowVars, queueVars, interrupted, faults>>

Message == [event : Event, deliveries : Nat, locked : BOOLEAN]
Fresh(e) == [event |-> e, deliveries |-> 0, locked |-> FALSE]

TypeOK ==
    /\ DbTypeOK
    /\ processed \subseteq outbox /\ deadRows \subseteq outbox
    /\ attempts \in [Event -> 0..DeadLetterAttemptLimit]
    /\ queue \in [Services -> Seq(Message)]
    /\ deadLetters \in [Services -> SUBSET Event]
    /\ expired \in [Services -> SUBSET Event]
    /\ interrupted \subseteq Event
    /\ faults \in 0..MaxFaults

Init ==
    /\ DbInit
    /\ processed = {} /\ deadRows = {}
    /\ attempts = [e \in Event |-> 0]
    /\ queue = [s \in Services |-> <<>>]
    /\ deadLetters = [s \in Services |-> {}]
    /\ expired = [s \in Services |-> {}]
    /\ interrupted = {}
    /\ faults = 0

(* One of the faults a behaviour may have. *)
Fault == faults < MaxFaults /\ faults' = faults + 1
-----------------------------------------------------------------------------
Submit(o) ==
    /\ SubmitOrder(o)
    /\ UNCHANGED <<rowVars, queueVars, interrupted, faults>>

(* The rows PublishBatchAsync loads. *)
Pending == outbox \ (processed \cup deadRows)

(***************************************************************************)
(* PublishBatchAsync, one row of the batch at a time.  The topic copies    *)
(* the event to every subscription; the copies a service has no handler    *)
(* for are completed without any effect and are left out.                  *)
(***************************************************************************)
Send(e) ==
    /\ queue' = [s \in Services |-> IF e.type \in CanHandle[s]
                                    THEN Append(queue[s], Fresh(e))
                                    ELSE queue[s]]
    /\ UNCHANGED <<dbVars, deadLetters, expired, interrupted>>

Publish(e) ==
    /\ e \in Pending
    /\ Send(e)
    /\ processed' = processed \cup {e}
    /\ UNCHANGED <<deadRows, attempts, faults>>

(* The service stops after the topic took the event and before SaveChanges. *)
PublishUnsaved(e) ==
    /\ e \in Pending
    /\ Fault
    /\ Send(e)
    /\ UNCHANGED <<processed, deadRows, attempts>>

(* The broker cannot be reached. *)
PublishFails(e) ==
    /\ e \in Pending
    /\ Fault
    /\ attempts' = [attempts EXCEPT ![e] = @ + 1]
    /\ deadRows' = IF attempts[e] + 1 >= DeadLetterAttemptLimit
                   THEN deadRows \cup {e} ELSE deadRows
    /\ UNCHANGED <<dbVars, processed, queueVars, interrupted>>
-----------------------------------------------------------------------------
Visible(s) == {i \in DOMAIN queue[s] : ~queue[s][i].locked}

(* Mistaken: several calls at once, so that any message may overtake. *)
ReceivesAny(s, i) == i \in Visible(s)

(* Message i is the one the subscription hands out next. *)
Receives(s, i) == i \in Visible(s) /\ \A j \in Visible(s) : i <= j

(* ProcessMessageAsync runs to its end: the message is completed. *)
Deliver(s) ==
    \E i \in DOMAIN queue[s] :
        /\ Receives(s, i)
        /\ Consume(s, queue[s][i].event)
        /\ queue' = [queue EXCEPT ![s] = RemoveAt(@, i)]
        /\ UNCHANGED <<rowVars, deadLetters, expired, interrupted, faults>>

(* Message i after a delivery that did not end in its completion. *)
Undelivered(s, i, locked) ==
    [queue[s] EXCEPT ![i].deliveries = @ + 1, ![i].locked = locked]

(* The service stops between the commit and CompleteMessageAsync. *)
StopAfterCommit(s) ==
    \E i \in DOMAIN queue[s] :
        /\ Receives(s, i)
        /\ Fault
        /\ Consume(s, queue[s][i].event)
        /\ queue' = [queue EXCEPT ![s] = Undelivered(s, i, TRUE)]
        /\ UNCHANGED <<rowVars, deadLetters, expired, interrupted>>

(* Mistaken: messages are removed when received, not when processed. *)
StopLosesMessage(s) ==
    /\ Fault
    /\ \E i \in DOMAIN queue[s] :
        /\ Receives(s, i)
        /\ queue' = [queue EXCEPT ![s] = RemoveAt(@, i)]
    /\ UNCHANGED <<dbVars, rowVars, deadLetters, expired, interrupted>>

(* The service stops before the commit: nothing was changed. *)
StopBeforeCommit(s) ==
    /\ Fault
    /\ \E i \in DOMAIN queue[s] :
        /\ Receives(s, i)
        /\ queue' = [queue EXCEPT ![s] = Undelivered(s, i, TRUE)]
        /\ interrupted' = IF s = "order" THEN interrupted \cup {queue[s][i].event}
                                         ELSE interrupted
    /\ UNCHANGED <<dbVars, rowVars, deadLetters, expired>>

(* Message i has had its last delivery, or goes back to its place. *)
Return(s, i, q) ==
    IF q[i].deliveries >= MaxDeliveryCount
    THEN /\ queue' = [queue EXCEPT ![s] = RemoveAt(q, i)]
         /\ deadLetters' = [deadLetters EXCEPT ![s] = @ \cup {q[i].event}]
    ELSE /\ queue' = [queue EXCEPT ![s] = q]
         /\ UNCHANGED deadLetters

(* Mistaken: the inbox row is committed before the handler runs. *)
InboxRowSurvivesFailure(s) ==
    /\ Fault
    /\ \E i \in DOMAIN queue[s] :
        /\ Receives(s, i)
        /\ inbox' = [inbox EXCEPT ![s] = @ \cup {queue[s][i].event}]
        /\ Return(s, i, Undelivered(s, i, FALSE))
    /\ UNCHANGED <<orderVars, paymentVars, inventoryVars, outbox, rowVars, expired, interrupted>>

(* An exception rolls the transaction back and the message is abandoned. *)
HandlerFails(s) ==
    /\ Fault
    /\ \E i \in DOMAIN queue[s] :
        /\ Receives(s, i)
        /\ Return(s, i, Undelivered(s, i, FALSE))
    /\ UNCHANGED <<dbVars, rowVars, expired, interrupted>>

LockExpires(s) ==
    /\ \E i \in DOMAIN queue[s] :
        /\ queue[s][i].locked
        /\ Return(s, i, [queue[s] EXCEPT ![i].locked = FALSE])
    /\ UNCHANGED <<dbVars, rowVars, expired, interrupted, faults>>

(* The message is dropped: DeadLetteringOnMessageExpiration is false. *)
Expire(s) ==
    /\ MessagesExpire
    /\ Fault
    /\ \E i \in Visible(s) :
        /\ queue' = [queue EXCEPT ![s] = RemoveAt(@, i)]
        /\ expired' = [expired EXCEPT ![s] = @ \cup {queue[s][i].event}]
    /\ UNCHANGED <<dbVars, rowVars, deadLetters, interrupted>>
-----------------------------------------------------------------------------
Next ==
    \/ \E o \in Orders : Submit(o)
    \/ \E e \in Event : Publish(e)
    \/ \E e \in Event : PublishUnsaved(e)
    \/ \E e \in Event : PublishFails(e)
    \/ \E s \in Services : Deliver(s)
    \/ \E s \in Services : StopAfterCommit(s)
    \/ \E s \in Services : StopBeforeCommit(s)
    \/ \E s \in Services : HandlerFails(s)
    \/ \E s \in Services : LockExpires(s)
    \/ \E s \in Services : Expire(s)

Spec == Init /\ [][Next]_vars

(***************************************************************************)
(* The publishers and consumers are hosted services that run for ever and  *)
(* are restarted by docker compose; locks expire by themselves.  Nothing   *)
(* obliges a customer to submit an order.                                  *)
(***************************************************************************)
Fairness ==
    /\ \A e \in Event : WF_vars(Publish(e))
    /\ \A s \in Services : WF_vars(Deliver(s)) /\ WF_vars(LockExpires(s))

FairSpec == Spec /\ Fairness
-----------------------------------------------------------------------------
Decided(o) == status[o] \in {"Confirmed", "Rejected"}

(***************************************************************************)
(* A committed event is never lost between two tables: its row still waits *)
(* or was given up, or each service that handles it has recorded it in its *)
(* inbox, still has it in its subscription, or has had it dead-lettered or *)
(* expired there (OutboxPublisher, AzureServiceBusEventConsumer).          *)
(***************************************************************************)
EventsAreAccountedFor ==
    /\ TypeOK
    /\ \A e \in outbox :
           \/ e \in Pending \cup deadRows
           \/ \A s \in Services : e.type \in CanHandle[s] =>
                  \/ e \in inbox[s] \cup deadLetters[s] \cup expired[s]
                  \/ \E i \in DOMAIN queue[s] : queue[s][i].event = e

(***************************************************************************)
(* Order acts on Inventory's answer when it takes it: it does not record   *)
(* as handled an answer that reached it before PaymentAuthorized, which    *)
(* Confirm and RequestPaymentCompensation would ignore for good.  Two      *)
(* things take PaymentAuthorized out of its turn, and are the premise:     *)
(* Order's subscription gave it up (dead-lettered or expired), or Order's  *)
(* consumer stopped with it in hand before its commit, so that it stays    *)
(* locked while the answer behind it is handed out.  RejectionCompletes    *)
(* says what the code then does.                                           *)
(***************************************************************************)
OutOfTurn(o) ==
    EventOf("PaymentAuthorized", o) \in deadLetters["order"] \cup expired["order"] \cup interrupted

AnswersAreActedUpon ==
    \A o \in Orders :
        \/ OutOfTurn(o)
        \/ /\ EventOf("InventoryReserved", o) \in inbox["order"] => status[o] = "Confirmed"
           /\ EventOf("InventoryRejected", o) \in inbox["order"] =>
                  status[o] \in {"CompensatingPayment", "Rejected"}

(* An event of the order was given up by its publisher or by a subscription. *)
GivenUp(o) ==
    \E e \in outbox : /\ e.order = o
                      /\ \/ e \in deadRows
                         \/ \E s \in Services : e \in deadLetters[s] \cup expired[s]

(***************************************************************************)
(* Every submitted order is decided in the end, a compensated one after    *)
(* its refund, unless one of its events was given up or Order's consumer   *)
(* stopped with its PaymentAuthorized in hand before its commit.           *)
(***************************************************************************)
OrdersAreDecidedOrGivenUp ==
    \A o \in Orders :
        (status[o] = "PendingPayment") ~> (Decided(o) \/ GivenUp(o) \/ OutOfTurn(o))

(***************************************************************************)
(* What docs/adr/0002-order-saga-outbox-inbox.md:9 and ARCHITECTURE.md:84  *)
(* promise whatever stops: an order whose stock Inventory refused is       *)
(* compensated and becomes Rejected.  The code does not keep it: Order     *)
(* stops with PaymentAuthorized in hand, takes InventoryRejected first,    *)
(* ignores it as the payment is still pending, and records it in its       *)
(* inbox; the authorized order is then never refunded nor decided.         *)
(***************************************************************************)
RejectionCompletes ==
    \A o \in Orders :
        (reservation[o] = "Rejected") ~> (status[o] = "Rejected" \/ GivenUp(o))

(***************************************************************************)
(* With this transport the services still behave as CheckoutSaga says, so  *)
(* that what is proved there holds here.                                   *)
(***************************************************************************)
Saga == INSTANCE CheckoutSaga
ImplementsSaga == Saga!Spec
=============================================================================
