------------------------- MODULE CheckoutServices -------------------------
(***************************************************************************)
(* The databases of the three services that carry out a checkout (Order,   *)
(* Payment, Inventory) and the database transactions they run: the HTTP    *)
(* handler that submits an order and the integration-event handlers.  How  *)
(* events travel between the services is left to the modules that extend   *)
(* this one.                                                               *)
(*                                                                         *)
(* An event is identified by its type and its order.  The code gives every *)
(* outbox row a fresh EventId; EventsAreRaisedOnce, proved in              *)
(* CheckoutSagaProofs, shows that no second row of the same type is ever   *)
(* written for an order, so that the pair is as good as the identifier.    *)
(***************************************************************************)
EXTENDS Integers

CONSTANTS Orders,           \* the orders customers may submit
          Products,         \* the products of the catalogue
          LineChoices,      \* the line sets an order may have once validated and merged
          InitialStock,     \* the configured stock of each product
          SimulatorRejects  \* the orders whose id the payment simulator rejects

(* SubmitAsync lets through 1 to 20 pieces per product, at least one line. *)
MaxLineQuantity == 20

ASSUME CheckoutAssumption ==
    /\ LineChoices \subseteq [Products -> 0..MaxLineQuantity]
    /\ \A choice \in LineChoices : \E p \in Products : choice[p] > 0
    /\ InitialStock \in [Products -> Nat]
    /\ SimulatorRejects \subseteq Orders

VARIABLES status,       \* Order: the status of each order
          lines,        \* Order: the quantity ordered of each product
          payment,      \* Payment: the payment recorded for each order
          reservation,  \* Inventory: the reservation recorded for each order
          stock,        \* Inventory: the available quantity of each product
          inbox,        \* the events each service's inbox table holds
          outbox        \* the events the three outbox tables hold, sent or not

orderVars     == <<status, lines>>
paymentVars   == payment
inventoryVars == <<reservation, stock>>
dbVars        == <<status, lines, payment, reservation, stock, inbox, outbox>>
-----------------------------------------------------------------------------
Services == {"order", "payment", "inventory"}

OrderStatus       == {"NotSubmitted", "PendingPayment", "PendingInventory",
                      "CompensatingPayment", "Confirmed", "Rejected"}
PaymentStatus     == {"None", "Authorized", "Rejected", "Refunded"}
ReservationStatus == {"None", "Reserved", "Rejected"}

EventTypes == {"OrderSubmitted", "PaymentAuthorized", "PaymentRejected",
               "InventoryReserved", "InventoryRejected",
               "PaymentRefundRequested", "PaymentRefunded",
               "OrderConfirmed", "OrderRejected"}

Event == [type : EventTypes, order : Orders]
EventOf(t, o) == [type |-> t, order |-> o]

(* Mistaken: Order has no handler for the rejection of a reservation. *)
CanHandleWithoutRejection == [s \in Services |->
    CASE s = "order"     -> {"PaymentAuthorized", "PaymentRejected", "InventoryReserved",
                             "PaymentRefunded"}
      [] s = "payment"   -> {"OrderSubmitted", "PaymentRefundRequested"}
      [] s = "inventory" -> {"PaymentAuthorized"}]

(* The event types the handlers registered in a service accept. *)
CanHandle == [s \in Services |->
    CASE s = "order"     -> {"PaymentAuthorized", "PaymentRejected", "InventoryReserved",
                             "InventoryRejected", "PaymentRefunded"}
      [] s = "payment"   -> {"OrderSubmitted", "PaymentRefundRequested"}
      [] s = "inventory" -> {"PaymentAuthorized"}]

NoLines == [p \in Products |-> 0]

DbTypeOK ==
    /\ status \in [Orders -> OrderStatus]
    /\ lines \in [Orders -> [Products -> 0..MaxLineQuantity]]
    /\ payment \in [Orders -> PaymentStatus]
    /\ reservation \in [Orders -> ReservationStatus]
    /\ stock \in [Products -> Nat]
    /\ inbox \in [Services -> SUBSET Event]
    /\ outbox \in SUBSET Event

DbInit ==
    /\ status = [o \in Orders |-> "NotSubmitted"]
    /\ lines = [o \in Orders |-> NoLines]
    /\ payment = [o \in Orders |-> "None"]
    /\ reservation = [o \in Orders |-> "None"]
    /\ stock = InitialStock
    /\ inbox = [s \in Services |-> {}]
    /\ outbox = {}
-----------------------------------------------------------------------------
(* A new row of the outbox table, written by the caller's transaction; rows are *)
(* never deleted, PublishBatchAsync only marks them.                            *)
Enqueue(t, o) == outbox' = outbox \cup {EventOf(t, o)}

(* A handler that returns before it changes anything. *)
Ignored == UNCHANGED <<status, lines, payment, reservation, stock, outbox>>

(***************************************************************************)
(* OrderApplicationService.SubmitAsync.  Validation and merging leave one  *)
(* of LineChoices; the order and its OrderSubmitted row are one            *)
(* SaveChanges.                                                            *)
(***************************************************************************)
SubmitOrder(o) ==
    /\ status[o] = "NotSubmitted"
    /\ \E choice \in LineChoices : lines' = [lines EXCEPT ![o] = choice]
    /\ status' = [status EXCEPT ![o] = "PendingPayment"]
    /\ Enqueue("OrderSubmitted", o)
    /\ UNCHANGED <<paymentVars, inventoryVars, inbox>>
-----------------------------------------------------------------------------
(***************************************************************************)
(* Mistaken handlers, which the properties are there to catch: the         *)
(* order closed before its payment is refunded; both payment events        *)
(* raised; a refund that is not recorded; and a reservation without a      *)
(* shortage check, whose decrement is clamped.                             *)
(***************************************************************************)
RejectAtOnce(o) ==
    IF status[o] = "PendingInventory"
    THEN /\ status' = [status EXCEPT ![o] = "Rejected"]
         /\ Enqueue("PaymentRefundRequested", o)
         /\ UNCHANGED <<lines, paymentVars, inventoryVars>>
    ELSE Ignored

AuthorizeAndContinue(o) ==
    IF payment[o] # "None" THEN Ignored
    ELSE /\ payment' = [payment EXCEPT ![o] = IF o \in SimulatorRejects THEN "Rejected" ELSE "Authorized"]
         /\ outbox' = outbox \cup {EventOf("PaymentAuthorized", o)} \cup
                          (IF o \in SimulatorRejects THEN {EventOf("PaymentRejected", o)} ELSE {})
         /\ UNCHANGED <<orderVars, inventoryVars>>

RefundUnrecorded(o) ==
    IF payment[o] = "Authorized"
    THEN Enqueue("PaymentRefunded", o) /\ UNCHANGED <<orderVars, paymentVars, inventoryVars>>
    ELSE Ignored

ReserveClamped(o) ==
    IF reservation[o] # "None" THEN Ignored
    ELSE /\ stock' = [p \in Products |-> IF stock[p] < lines[o][p] THEN 0 ELSE stock[p] - lines[o][p]]
         /\ reservation' = [reservation EXCEPT ![o] = "Reserved"]
         /\ Enqueue("InventoryReserved", o)
         /\ UNCHANGED <<orderVars, paymentVars>>
-----------------------------------------------------------------------------
(* The handlers of OrderSagaEventHandler. *)
OnPaymentAuthorized(o) ==
    IF status[o] = "PendingPayment"
    THEN /\ status' = [status EXCEPT ![o] = "PendingInventory"]
         /\ UNCHANGED <<lines, paymentVars, inventoryVars, outbox>>
    ELSE Ignored

Confirm(o) ==
    IF status[o] = "PendingInventory"
    THEN /\ status' = [status EXCEPT ![o] = "Confirmed"]
         /\ Enqueue("OrderConfirmed", o)
         /\ UNCHANGED <<lines, paymentVars, inventoryVars>>
    ELSE Ignored

RequestPaymentCompensation(o) ==
    IF status[o] = "PendingInventory"
    THEN /\ status' = [status EXCEPT ![o] = "CompensatingPayment"]
         /\ Enqueue("PaymentRefundRequested", o)
         /\ UNCHANGED <<lines, paymentVars, inventoryVars>>
    ELSE Ignored

Reject(o) ==
    IF status[o] \notin {"NotSubmitted", "Confirmed", "Rejected"}
    THEN /\ status' = [status EXCEPT ![o] = "Rejected"]
         /\ Enqueue("OrderRejected", o)
         /\ UNCHANGED <<lines, paymentVars, inventoryVars>>
    ELSE Ignored
-----------------------------------------------------------------------------
(* The handlers of PaymentEventHandler. *)
Authorize(o) ==
    IF payment[o] # "None" THEN Ignored
    ELSE /\ IF o \in SimulatorRejects
            THEN /\ payment' = [payment EXCEPT ![o] = "Rejected"]
                 /\ Enqueue("PaymentRejected", o)
            ELSE /\ payment' = [payment EXCEPT ![o] = "Authorized"]
                 /\ Enqueue("PaymentAuthorized", o)
         /\ UNCHANGED <<orderVars, inventoryVars>>

Refund(o) ==
    IF payment[o] = "Authorized"
    THEN /\ payment' = [payment EXCEPT ![o] = "Refunded"]
         /\ Enqueue("PaymentRefunded", o)
         /\ UNCHANGED <<orderVars, inventoryVars>>
    ELSE Ignored
-----------------------------------------------------------------------------
(***************************************************************************)
(* InventoryEventHandler.  The event carries the lines of the order, which *)
(* never change once submitted.  A product without an inventory row is a   *)
(* product with no stock, every stored line being of at least one piece.   *)
(***************************************************************************)
Shortage(o) == \E p \in Products : stock[p] < lines[o][p]

Reserve(o) ==
    IF reservation[o] # "None" THEN Ignored
    ELSE /\ IF Shortage(o)
            THEN /\ reservation' = [reservation EXCEPT ![o] = "Rejected"]
                 /\ Enqueue("InventoryRejected", o)
                 /\ UNCHANGED stock
            ELSE /\ stock' = [p \in Products |-> stock[p] - lines[o][p]]
                 /\ reservation' = [reservation EXCEPT ![o] = "Reserved"]
                 /\ Enqueue("InventoryReserved", o)
         /\ UNCHANGED <<orderVars, paymentVars>>
-----------------------------------------------------------------------------
(* HandleAsync of the handler that service s registers. *)
Handle(s, e) ==
    \/ s = "order"     /\ e.type = "PaymentAuthorized"      /\ OnPaymentAuthorized(e.order)
    \/ s = "order"     /\ e.type = "PaymentRejected"        /\ Reject(e.order)
    \/ s = "order"     /\ e.type = "InventoryReserved"      /\ Confirm(e.order)
    \/ s = "order"     /\ e.type = "InventoryRejected"      /\ RequestPaymentCompensation(e.order)
    \/ s = "order"     /\ e.type = "PaymentRefunded"        /\ Reject(e.order)
    \/ s = "payment"   /\ e.type = "OrderSubmitted"         /\ Authorize(e.order)
    \/ s = "payment"   /\ e.type = "PaymentRefundRequested" /\ Refund(e.order)
    \/ s = "inventory" /\ e.type = "PaymentAuthorized"      /\ Reserve(e.order)

(***************************************************************************)
(* ProcessMessageAsync up to its commit: an event found in the inbox is    *)
(* skipped, any other is handled in the transaction that records it.       *)
(***************************************************************************)
Consume(s, e) ==
    IF e \in inbox[s]
    THEN UNCHANGED dbVars
    ELSE /\ inbox' = [inbox EXCEPT ![s] = @ \cup {e}]
         /\ Handle(s, e)
=============================================================================
