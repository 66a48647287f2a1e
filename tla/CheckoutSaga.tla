---------------------------- MODULE CheckoutSaga ----------------------------
(***************************************************************************)
(* The checkout saga over any transport whatever.  An event that some      *)
(* transaction wrote to its outbox may from then on be received by every   *)
(* service that accepts it: late or never (the publisher or the broker     *)
(* gives up), after an event raised later, and any number of times (a row  *)
(* published again after a crash, an event delivered again after a lost    *)
(* lock or an unfinished completion).  What is an invariant here holds     *)
(* however the broker misbehaves; CheckoutDelivery has the real transport  *)
(* and implements this specification.                                      *)
(***************************************************************************)
EXTENDS CheckoutServices, FiniteSetsExt

TypeOK == DbTypeOK

Init == DbInit

(* Service s is handed event e, for the first time or not. *)
Deliver(s, e) ==
    /\ e \in outbox
    /\ e.type \in CanHandle[s]
    /\ Consume(s, e)

Next ==
    \/ \E o \in Orders : SubmitOrder(o)
    \/ \E s \in Services, e \in Event : Deliver(s, e)

Spec == Init /\ [][Next]_dbVars
-----------------------------------------------------------------------------
Terminal == {"Confirmed", "Rejected"}

Raised(t, o) == EventOf(t, o) \in outbox

(***************************************************************************)
(* An order says Confirmed only while the customer's payment is held and   *)
(* the goods are reserved, and Rejected only when no money is kept and no  *)
(* goods are: three databases agree although no transaction spans two of   *)
(* them (OrderSagaEventHandler against the two other services' records).   *)
(***************************************************************************)
OutcomeAgrees ==
    \A o \in Orders :
        /\ status[o] = "Confirmed" => payment[o] = "Authorized" /\ reservation[o] = "Reserved"
        /\ status[o] = "Rejected"  => /\ payment[o] \in {"Rejected", "Refunded"}
                                      /\ reservation[o] # "Reserved"

(***************************************************************************)
(* Money is returned only for an order whose goods were refused, and only  *)
(* after Order began to compensate it; goods are looked for only for an    *)
(* order that was paid (RefundAsync, InventoryEventHandler.HandleAsync).   *)
(***************************************************************************)
RefundOnlyWithoutGoods ==
    \A o \in Orders :
        /\ payment[o] = "Refunded" => /\ reservation[o] = "Rejected"
                                      /\ status[o] \in {"CompensatingPayment", "Rejected"}
        /\ reservation[o] # "None" => payment[o] \in {"Authorized", "Refunded"}

(* What the reservations in force take from product p. *)
Taken(p) == MapThenSumSet(LAMBDA o : lines[o][p],
                          {o \in Orders : reservation[o] = "Reserved"})

(***************************************************************************)
(* Every piece is on the shelf or in exactly one reservation, however      *)
(* often PaymentAuthorized is delivered to Inventory: a reservation takes  *)
(* all its lines or none.                                                  *)
(***************************************************************************)
StockConserved ==
    \A p \in Products :
        stock[p] + Taken(p) = InitialStock[p]

(***************************************************************************)
(* Once the customer has been told the outcome, nothing moves any more:    *)
(* neither the order nor its payment nor its reservation, whatever late    *)
(* or repeated events still arrive.                                        *)
(***************************************************************************)
OutcomeIsFinal ==
    [][\A o \in Orders : status[o] \in Terminal =>
           /\ status'[o] = status[o]
           /\ payment'[o] = payment[o]
           /\ reservation'[o] = reservation[o]]_dbVars

(***************************************************************************)
(* Whenever a handler's guard lets it enqueue an event, the outbox holds   *)
(* no row of that type for the order: no customer is charged, refunded or  *)
(* told an outcome by two events of different EventIds, which no inbox     *)
(* could tell apart.                                                       *)
(***************************************************************************)
EventsAreRaisedOnce ==
    \A o \in Orders :
        /\ status[o] = "NotSubmitted" => ~Raised("OrderSubmitted", o)
        /\ status[o] = "PendingInventory" => /\ ~Raised("OrderConfirmed", o)
                                             /\ ~Raised("PaymentRefundRequested", o)
        /\ status[o] \notin Terminal => ~Raised("OrderRejected", o)
        /\ payment[o] = "None" => ~Raised("PaymentAuthorized", o) /\ ~Raised("PaymentRejected", o)
        /\ payment[o] = "Authorized" => ~Raised("PaymentRefunded", o)
        /\ reservation[o] = "None" => /\ ~Raised("InventoryReserved", o)
                                      /\ ~Raised("InventoryRejected", o)

(***************************************************************************)
(* Each event stands in an outbox exactly when the record it announces has *)
(* been made, and each record was made after the one that led to it.  This *)
(* is the inductive invariant the invariants above follow from.            *)
(***************************************************************************)
EventsMatchRecords(o) ==
    /\ Raised("OrderSubmitted", o) <=> status[o] # "NotSubmitted"
    /\ Raised("PaymentAuthorized", o) <=> payment[o] \in {"Authorized", "Refunded"}
    /\ Raised("PaymentRejected", o) <=> payment[o] = "Rejected"
    /\ Raised("PaymentRefunded", o) <=> payment[o] = "Refunded"
    /\ Raised("InventoryReserved", o) <=> reservation[o] = "Reserved"
    /\ Raised("InventoryRejected", o) <=> reservation[o] = "Rejected"
    /\ Raised("OrderConfirmed", o) <=> status[o] = "Confirmed"
    /\ Raised("OrderRejected", o) <=> status[o] = "Rejected"

RecordsMatchEachOther(o) ==
    /\ payment[o] # "None" => status[o] # "NotSubmitted"
    /\ reservation[o] # "None" => payment[o] \in {"Authorized", "Refunded"}
    /\ status[o] = "CompensatingPayment" => Raised("PaymentRefundRequested", o)
    /\ Raised("PaymentRefundRequested", o) => /\ status[o] \in {"CompensatingPayment", "Rejected"}
                                              /\ reservation[o] = "Rejected"
    /\ payment[o] = "Refunded" => Raised("PaymentRefundRequested", o)
    /\ status[o] = "Confirmed" => reservation[o] = "Reserved"
    /\ status[o] = "Rejected" => payment[o] \in {"Rejected", "Refunded"}

RecordsHaveCauses == \A o \in Orders : EventsMatchRecords(o) /\ RecordsMatchEachOther(o)
-----------------------------------------------------------------------------
(***************************************************************************)
(* The saga keeps the promise of Checkout: seen through this mapping,      *)
(* every transaction of the three services is a step of it or changes      *)
(* nothing the customer could tell.                                        *)
(***************************************************************************)
OutcomeOf(orderStatus) ==
    CASE orderStatus = "NotSubmitted" -> "none"
      [] orderStatus = "Confirmed"    -> "confirmed"
      [] orderStatus = "Rejected"     -> "rejected"
      [] OTHER                        -> "open"

MoneyOf(paymentStatus) ==
    CASE paymentStatus = "None"       -> "none"
      [] paymentStatus = "Authorized" -> "held"
      [] paymentStatus = "Rejected"   -> "refused"
      [] paymentStatus = "Refunded"   -> "returned"

GoodsOf(reservationStatus) ==
    CASE reservationStatus = "None"     -> "none"
      [] reservationStatus = "Reserved" -> "held"
      [] reservationStatus = "Rejected" -> "refused"

Outcome == [o \in Orders |-> OutcomeOf(status[o])]
Money   == [o \in Orders |-> MoneyOf(payment[o])]
Goods   == [o \in Orders |-> GoodsOf(reservation[o])]

Abstract == INSTANCE Checkout WITH outcome <- Outcome, money <- Money, goods <- Goods

(* Every behaviour of the saga is one Checkout allows. *)
ImplementsCheckout == Abstract!Spec
=============================================================================
