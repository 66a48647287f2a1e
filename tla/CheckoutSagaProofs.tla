------------------------- MODULE CheckoutSagaProofs -------------------------
(***************************************************************************)
(* The invariants of CheckoutSaga, for any orders, products, line sets,    *)
(* stock and simulator setting, and what follows for the page of an order  *)
(* over it (OrderTracking), the last part of this module.                  *)
(***************************************************************************)
EXTENDS OrderTracking, Sums, TLAPS

(***************************************************************************)
(* Every value stays in its type; of stock this says that no reservation   *)
(* takes a piece that is not there.                                        *)
(***************************************************************************)
LEMMA InitTypeOK == Init => TypeOK
  BY CheckoutAssumption DEF Init, DbInit, TypeOK, DbTypeOK, OrderStatus, PaymentStatus,
     ReservationStatus, NoLines, MaxLineQuantity

LEMMA SubmitTypeOK ==
  ASSUME TypeOK, NEW o \in Orders, SubmitOrder(o)
  PROVE  TypeOK'
<1> USE DEF TypeOK, DbTypeOK, SubmitOrder
<1>1. lines' \in [Orders -> [Products -> 0..MaxLineQuantity]]
  BY CheckoutAssumption
<1>2. outbox' \in SUBSET Event
  BY DEF Enqueue, EventOf, Event, EventTypes
<1>3. status' \in [Orders -> OrderStatus]
  BY DEF OrderStatus
<1> QED
  BY <1>1, <1>2, <1>3 DEF paymentVars, inventoryVars

LEMMA HandleTypeOK ==
  ASSUME TypeOK, NEW s \in Services, NEW e \in Event, Handle(s, e), inbox' \in [Services -> SUBSET Event]
  PROVE  TypeOK'
<1> DEFINE o == e.order
<1> USE DEF TypeOK, DbTypeOK, Ignored, orderVars, paymentVars, inventoryVars
<1>0. o \in Orders
  BY DEF Event
<1>1. ASSUME NEW t \in EventTypes, Enqueue(t, o)
      PROVE  outbox' \in SUBSET Event
  BY <1>0, <1>1 DEF Enqueue, EventOf, Event
<1> HIDE DEF o
<1>2. CASE OnPaymentAuthorized(o)
  BY <1>0, <1>2 DEF OnPaymentAuthorized, OrderStatus
<1>3. CASE Confirm(o)
  BY <1>0, <1>1, <1>3 DEF Confirm, OrderStatus, EventTypes
<1>4. CASE RequestPaymentCompensation(o)
  BY <1>0, <1>1, <1>4 DEF RequestPaymentCompensation, OrderStatus, EventTypes
<1>5. CASE Reject(o)
  BY <1>0, <1>1, <1>5 DEF Reject, OrderStatus, EventTypes
<1>6. CASE Authorize(o)
  BY <1>0, <1>1, <1>6 DEF Authorize, PaymentStatus, EventTypes
<1>7. CASE Refund(o)
  BY <1>0, <1>1, <1>7 DEF Refund, PaymentStatus, EventTypes
<1>8. CASE Reserve(o)
  <2>1. stock' \in [Products -> Nat]
    <3>1. CASE Shortage(o) \/ reservation[o] # "None"
      BY <3>1, <1>8 DEF Reserve
    <3>2. CASE ~Shortage(o) /\ reservation[o] = "None"
      <4>1. \A p \in Products : stock[p] \in Nat /\ lines[o][p] \in 0..20 /\ stock[p] >= lines[o][p]
        BY <3>2, <1>0 DEF Shortage, MaxLineQuantity
      <4>2. stock' = [p \in Products |-> stock[p] - lines[o][p]]
        BY <3>2, <1>8 DEF Reserve
      <4>3. \A p \in Products : stock[p] - lines[o][p] \in Nat
        BY <4>1
      <4> QED
        BY <4>2, <4>3
    <3> QED
      BY <3>1, <3>2
  <2>2. reservation' \in [Orders -> ReservationStatus] /\ outbox' \in SUBSET Event
    BY <1>0, <1>1, <1>8 DEF Reserve, ReservationStatus, EventTypes
  <2> QED
    BY <2>1, <2>2, <1>8 DEF Reserve
<1> QED
  BY <1>2, <1>3, <1>4, <1>5, <1>6, <1>7, <1>8 DEF Handle, o

LEMMA NextTypeOK == TypeOK /\ [Next]_dbVars => TypeOK'
<1> SUFFICES ASSUME TypeOK, [Next]_dbVars PROVE TypeOK'
  OBVIOUS
<1>1. CASE UNCHANGED dbVars
  BY <1>1 DEF dbVars, TypeOK, DbTypeOK
<1>2. ASSUME NEW o \in Orders, SubmitOrder(o) PROVE TypeOK'
  BY <1>2, SubmitTypeOK
<1>3. ASSUME NEW s \in Services, NEW e \in Event, Deliver(s, e) PROVE TypeOK'
  <2>1. CASE e \in inbox[s]
    BY <2>1, <1>1, <1>3 DEF Deliver, Consume
  <2>2. CASE e \notin inbox[s]
    <3>1. inbox' \in [Services -> SUBSET Event]
      BY <2>2, <1>3 DEF Deliver, Consume, TypeOK, DbTypeOK
    <3>2. Handle(s, e)
      BY <2>2, <1>3 DEF Deliver, Consume
    <3> QED
      BY <3>1, <3>2, HandleTypeOK
  <2> QED
    BY <2>1, <2>2
<1> QED
  BY <1>1, <1>2, <1>3 DEF Next

THEOREM TypeCorrect == Spec => []TypeOK
  BY InitTypeOK, NextTypeOK, PTL DEF Spec
-----------------------------------------------------------------------------
(***************************************************************************)
(* RecordsHaveCauses is inductive.  A handler's lemma may assume that the  *)
(* event it handles was raised, which Deliver guarantees.                  *)
(***************************************************************************)
LEMMA RaisedByEnqueue ==
  ASSUME NEW t, NEW o, Enqueue(t, o)
  PROVE  \A u, x : Raised(u, x)' <=> Raised(u, x) \/ (u = t /\ x = o)
BY DEF Enqueue, Raised, EventOf

LEMMA IgnoredKeepsCauses ==
  ASSUME RecordsHaveCauses, Ignored
  PROVE  RecordsHaveCauses'
BY DEF RecordsHaveCauses, EventsMatchRecords, RecordsMatchEachOther, Raised, Ignored

LEMMA SubmitKeepsCauses ==
  ASSUME TypeOK, RecordsHaveCauses, NEW o \in Orders, SubmitOrder(o)
  PROVE  RecordsHaveCauses'
<1>1. \A u, x : Raised(u, x)' <=> Raised(u, x) \/ (u = "OrderSubmitted" /\ x = o)
  BY RaisedByEnqueue DEF SubmitOrder
<1>2. \A x \in Orders : status'[x] = IF x = o THEN "PendingPayment" ELSE status[x]
  BY DEF SubmitOrder, TypeOK, DbTypeOK
<1>3. UNCHANGED <<payment, reservation>>
  BY DEF SubmitOrder, paymentVars, inventoryVars
<1> QED
  BY <1>1, <1>2, <1>3 DEF RecordsHaveCauses, EventsMatchRecords, RecordsMatchEachOther,
     SubmitOrder

LEMMA OrderKeepsCauses ==
  ASSUME TypeOK, RecordsHaveCauses, NEW e \in Event, e \in outbox, Handle("order", e)
  PROVE  RecordsHaveCauses'
<1> DEFINE o == e.order
<1>0. o \in Orders /\ Raised(e.type, o)
  BY DEF Event, Raised, EventOf
<1> HIDE DEF o
<1> USE IgnoredKeepsCauses, RaisedByEnqueue
        DEF TypeOK, DbTypeOK, RecordsHaveCauses, EventsMatchRecords, RecordsMatchEachOther,
            paymentVars, inventoryVars
<1>1. CASE e.type = "PaymentAuthorized" /\ OnPaymentAuthorized(o)
  BY <1>0, <1>1 DEF OnPaymentAuthorized, Raised
<1>2. CASE e.type = "InventoryReserved" /\ Confirm(o)
  BY <1>0, <1>2 DEF Confirm
<1>3. CASE e.type = "InventoryRejected" /\ RequestPaymentCompensation(o)
  BY <1>0, <1>3 DEF RequestPaymentCompensation
<1>4. CASE e.type \in {"PaymentRejected", "PaymentRefunded"} /\ Reject(o)
  BY <1>0, <1>4 DEF Reject
<1> QED
  BY <1>1, <1>2, <1>3, <1>4 DEF Handle, o

LEMMA PaymentKeepsCauses ==
  ASSUME TypeOK, RecordsHaveCauses, NEW e \in Event, e \in outbox, Handle("payment", e)
  PROVE  RecordsHaveCauses'
<1> DEFINE o == e.order
<1>0. o \in Orders /\ Raised(e.type, o)
  BY DEF Event, Raised, EventOf
<1> HIDE DEF o
<1> USE IgnoredKeepsCauses, RaisedByEnqueue
        DEF TypeOK, DbTypeOK, RecordsHaveCauses, EventsMatchRecords, RecordsMatchEachOther,
            orderVars, inventoryVars
<1>1. CASE e.type = "OrderSubmitted" /\ Authorize(o)
  BY <1>0, <1>1 DEF Authorize
<1>2. CASE e.type = "PaymentRefundRequested" /\ Refund(o)
  BY <1>0, <1>2 DEF Refund
<1> QED
  BY <1>1, <1>2 DEF Handle, o

LEMMA InventoryKeepsCauses ==
  ASSUME TypeOK, RecordsHaveCauses, NEW e \in Event, e \in outbox, Handle("inventory", e)
  PROVE  RecordsHaveCauses'
<1> DEFINE o == e.order
<1>0. o \in Orders /\ Raised("PaymentAuthorized", o) /\ Reserve(o)
  BY DEF Event, Raised, EventOf, Handle
<1> HIDE DEF o
<1> QED
  BY <1>0, IgnoredKeepsCauses, RaisedByEnqueue
     DEF Reserve, TypeOK, DbTypeOK, RecordsHaveCauses, EventsMatchRecords,
         RecordsMatchEachOther,
         orderVars, paymentVars

LEMMA NextKeepsCauses == TypeOK /\ RecordsHaveCauses /\ [Next]_dbVars => RecordsHaveCauses'
<1> SUFFICES ASSUME TypeOK, RecordsHaveCauses, [Next]_dbVars PROVE RecordsHaveCauses'
  OBVIOUS
<1>1. CASE UNCHANGED dbVars
  BY <1>1, IgnoredKeepsCauses DEF dbVars, Ignored
<1>2. ASSUME NEW o \in Orders, SubmitOrder(o) PROVE RecordsHaveCauses'
  BY <1>2, SubmitKeepsCauses
<1>3. ASSUME NEW s \in Services, NEW e \in Event, Deliver(s, e) PROVE RecordsHaveCauses'
  <2>1. CASE e \in inbox[s]
    BY <2>1, <1>1, <1>3 DEF Deliver, Consume
  <2>2. CASE e \notin inbox[s]
    BY <2>2, <1>3, OrderKeepsCauses, PaymentKeepsCauses, InventoryKeepsCauses
       DEF Deliver, Consume, Services
  <2> QED
    BY <2>1, <2>2
<1> QED
  BY <1>1, <1>2, <1>3 DEF Next

(* Every event has its record and every record its cause. *)
THEOREM CausesHold == Spec => []RecordsHaveCauses
<1>1. Init => RecordsHaveCauses
  BY DEF Init, DbInit, RecordsHaveCauses, EventsMatchRecords, RecordsMatchEachOther, Raised
<1> QED
  BY <1>1, NextKeepsCauses, TypeCorrect, PTL DEF Spec
-----------------------------------------------------------------------------
(***************************************************************************)
(* The three services agree on the outcome of every order that has one.    *)
(***************************************************************************)
THEOREM OutcomesAgree == Spec => []OutcomeAgrees
<1>1. TypeOK /\ RecordsHaveCauses => OutcomeAgrees
  BY DEF TypeOK, DbTypeOK, ReservationStatus, RecordsHaveCauses, EventsMatchRecords,
         RecordsMatchEachOther, OutcomeAgrees
<1> QED
  BY <1>1, TypeCorrect, CausesHold, PTL

(***************************************************************************)
(* Money is returned only when the goods were refused.                     *)
(***************************************************************************)
THEOREM RefundsHaveCause == Spec => []RefundOnlyWithoutGoods
<1>1. RecordsHaveCauses => RefundOnlyWithoutGoods
  BY DEF RecordsHaveCauses, RecordsMatchEachOther, RefundOnlyWithoutGoods
<1> QED
  BY <1>1, CausesHold, PTL

(***************************************************************************)
(* No transaction writes a second row of a type for the same order, which  *)
(* is why the model may take type and order for the EventId.               *)
(***************************************************************************)
THEOREM RaisedOnce == Spec => []EventsAreRaisedOnce
<1>1. RecordsHaveCauses => EventsAreRaisedOnce
  BY DEF RecordsHaveCauses, EventsMatchRecords, RecordsMatchEachOther, EventsAreRaisedOnce,
     Terminal
<1> QED
  BY <1>1, CausesHold, PTL

(***************************************************************************)
(* A decided order, its payment and its reservation never change again.    *)
(***************************************************************************)
THEOREM DecisionsAreFinal == Spec => OutcomeIsFinal
<1> DEFINE Final == \A o \in Orders : status[o] \in Terminal =>
                       /\ status'[o] = status[o]
                       /\ payment'[o] = payment[o]
                       /\ reservation'[o] = reservation[o]
<1>1. ASSUME TypeOK, RecordsHaveCauses, [Next]_dbVars PROVE [Final]_dbVars
  <2> SUFFICES ASSUME Next PROVE Final
    BY <1>1
  <2> USE <1>1 DEF TypeOK, DbTypeOK, Terminal, Ignored, orderVars, paymentVars, inventoryVars
  <2>1. ASSUME NEW o \in Orders, SubmitOrder(o) PROVE Final
    BY <2>1 DEF SubmitOrder
  <2>2. ASSUME NEW s \in Services, NEW e \in Event, Deliver(s, e) PROVE Final
    <3> DEFINE o == e.order
    <3>0. o \in Orders /\ Raised(e.type, o)
      BY <2>2 DEF Event, Raised, EventOf, Deliver
    <3>1. EventsMatchRecords(o) /\ RecordsMatchEachOther(o)
      BY <3>0 DEF RecordsHaveCauses
    <3> HIDE DEF o
    <3> USE <3>0, <3>1 DEF EventsMatchRecords, RecordsMatchEachOther
    <3>2. CASE e \in inbox[s]
      BY <3>2, <2>2 DEF Deliver, Consume, dbVars
    <3>3. CASE s = "order" /\ Handle(s, e)
      <4>1. \/ OnPaymentAuthorized(o) \/ Confirm(o) \/ RequestPaymentCompensation(o) \/ Reject(o)
        BY <3>3 DEF Handle, o
      <4> QED
        BY <4>1 DEF OnPaymentAuthorized, Confirm, RequestPaymentCompensation, Reject
    <3>4. CASE s = "payment" /\ Handle(s, e)
      <4>1. \/ e.type = "OrderSubmitted" /\ Authorize(o)
            \/ e.type = "PaymentRefundRequested" /\ Refund(o)
        BY <3>4 DEF Handle, o
      <4> QED
        BY <4>1 DEF Authorize, Refund
    <3>5. CASE s = "inventory" /\ Handle(s, e)
      <4>1. e.type = "PaymentAuthorized" /\ Reserve(o)
        BY <3>5 DEF Handle, o
      <4> QED
        BY <4>1 DEF Reserve
    <3> QED
      BY <2>2, <3>2, <3>3, <3>4, <3>5 DEF Deliver, Consume, Services
  <2> QED
    BY <2>1, <2>2 DEF Next
<1> QED
  BY <1>1, TypeCorrect, CausesHold, PTL DEF Spec, OutcomeIsFinal
-----------------------------------------------------------------------------
(***************************************************************************)
(* The saga implements Checkout: the step of a handler is the step of the  *)
(* same meaning, or leaves outcome, money and goods as they were.          *)
(***************************************************************************)
AbstractVars == <<Outcome, Money, Goods>>

LEMMA Meanings ==
  /\ OutcomeOf("NotSubmitted") = "none"
  /\ OutcomeOf("Confirmed") = "confirmed" /\ OutcomeOf("Rejected") = "rejected"
  /\ OutcomeOf("PendingPayment") = "open" /\ OutcomeOf("PendingInventory") = "open"
  /\ OutcomeOf("CompensatingPayment") = "open"
  /\ MoneyOf("None") = "none" /\ MoneyOf("Authorized") = "held"
  /\ MoneyOf("Rejected") = "refused" /\ MoneyOf("Refunded") = "returned"
  /\ GoodsOf("None") = "none" /\ GoodsOf("Reserved") = "held" /\ GoodsOf("Rejected") = "refused"
BY DEF OutcomeOf, MoneyOf, GoodsOf

(* Changing one entry of a record changes its image at that entry only. *)
LEMMA OutcomeUpdate ==
  ASSUME TypeOK, NEW o \in Orders, NEW v, status' = [status EXCEPT ![o] = v]
  PROVE  Outcome' = [Outcome EXCEPT ![o] = OutcomeOf(v)]
BY DEF Outcome, TypeOK, DbTypeOK

LEMMA MoneyUpdate ==
  ASSUME TypeOK, NEW o \in Orders, NEW v, payment' = [payment EXCEPT ![o] = v]
  PROVE  Money' = [Money EXCEPT ![o] = MoneyOf(v)]
BY DEF Money, TypeOK, DbTypeOK

LEMMA GoodsUpdate ==
  ASSUME TypeOK, NEW o \in Orders, NEW v, reservation' = [reservation EXCEPT ![o] = v]
  PROVE  Goods' = [Goods EXCEPT ![o] = GoodsOf(v)]
BY DEF Goods, TypeOK, DbTypeOK

LEMMA UnchangedImages ==
  /\ UNCHANGED status => UNCHANGED Outcome
  /\ UNCHANGED payment => UNCHANGED Money
  /\ UNCHANGED reservation => UNCHANGED Goods
BY DEF Outcome, Money, Goods

(* An order is open exactly between its submission and its decision. *)
LEMMA ImageAt ==
  ASSUME TypeOK, NEW o \in Orders
  PROVE  /\ Outcome[o] = OutcomeOf(status[o])
         /\ Money[o] = MoneyOf(payment[o])
         /\ Goods[o] = GoodsOf(reservation[o])
         /\ status[o] \notin {"NotSubmitted", "Confirmed", "Rejected"} => Outcome[o] = "open"
BY DEF Outcome, Money, Goods, OutcomeOf

LEMMA InitRefines == Init => Abstract!Init
BY Meanings DEF Init, DbInit, Abstract!Init, Outcome, Money, Goods

LEMMA IgnoredRefines ==
  ASSUME Ignored
  PROVE  UNCHANGED AbstractVars
BY UnchangedImages DEF Ignored, AbstractVars

LEMMA SubmitRefines ==
  ASSUME TypeOK, NEW o \in Orders, SubmitOrder(o)
  PROVE  Abstract!Place(o)
<1>1. status[o] = "NotSubmitted" /\ status' = [status EXCEPT ![o] = "PendingPayment"]
  BY DEF SubmitOrder
<1>2. Outcome' = [Outcome EXCEPT ![o] = OutcomeOf("PendingPayment")]
  BY <1>1, OutcomeUpdate
<1>3. Outcome[o] = "none"
  BY <1>1, ImageAt, Meanings
<1>4. UNCHANGED <<Money, Goods>>
  BY UnchangedImages DEF SubmitOrder, paymentVars, inventoryVars
<1> QED
  BY <1>2, <1>3, <1>4, Meanings DEF Abstract!Place

(* An order handler either keeps the order open or decides it. *)
LEMMA OrderRefines ==
  ASSUME TypeOK, RecordsHaveCauses, NEW e \in Event, e \in outbox, Handle("order", e)
  PROVE  Abstract!Next \/ UNCHANGED AbstractVars
<1> DEFINE o == e.order
<1>0. o \in Orders /\ Raised(e.type, o)
  BY DEF Event, Raised, EventOf
<1>1. EventsMatchRecords(o) /\ RecordsMatchEachOther(o)
  BY <1>0 DEF RecordsHaveCauses
<1> HIDE DEF o
<1> USE IgnoredRefines DEF paymentVars, inventoryVars
<1>2. CASE e.type = "PaymentAuthorized" /\ OnPaymentAuthorized(o)
  <2>1. CASE status[o] # "PendingPayment"
    BY <2>1, <1>2 DEF OnPaymentAuthorized
  <2>2. CASE status[o] = "PendingPayment"
    <3>1. status' = [status EXCEPT ![o] = "PendingInventory"] /\ UNCHANGED <<payment, reservation>>
      BY <2>2, <1>2 DEF OnPaymentAuthorized
    <3>2. Outcome' = [Outcome EXCEPT ![o] = OutcomeOf("PendingInventory")]
      BY <3>1, <1>0, OutcomeUpdate
    <3>3. Outcome' = Outcome
      BY <3>2, <2>2, <1>0, ImageAt, Meanings DEF Outcome
    <3> QED
      BY <3>1, <3>3, UnchangedImages DEF AbstractVars
  <2> QED
    BY <2>1, <2>2
<1>3. CASE e.type = "InventoryRejected" /\ RequestPaymentCompensation(o)
  <2>1. CASE status[o] # "PendingInventory"
    BY <2>1, <1>3 DEF RequestPaymentCompensation
  <2>2. CASE status[o] = "PendingInventory"
    <3>1. status' = [status EXCEPT ![o] = "CompensatingPayment"] /\ UNCHANGED <<payment, reservation>>
      BY <2>2, <1>3 DEF RequestPaymentCompensation
    <3>2. Outcome' = [Outcome EXCEPT ![o] = OutcomeOf("CompensatingPayment")]
      BY <3>1, <1>0, OutcomeUpdate
    <3>3. Outcome' = Outcome
      BY <3>2, <2>2, <1>0, ImageAt, Meanings DEF Outcome
    <3> QED
      BY <3>1, <3>3, UnchangedImages DEF AbstractVars
  <2> QED
    BY <2>1, <2>2
<1>4. CASE e.type = "InventoryReserved" /\ Confirm(o)
  <2>1. CASE status[o] # "PendingInventory"
    BY <2>1, <1>4 DEF Confirm
  <2>2. CASE status[o] = "PendingInventory"
    <3>1. payment[o] = "Authorized" /\ reservation[o] = "Reserved"
      BY <2>2, <1>0, <1>1, <1>4 DEF EventsMatchRecords, RecordsMatchEachOther
    <3>2. Abstract!Confirm(o)
      <4>1. status' = [status EXCEPT ![o] = "Confirmed"] /\ UNCHANGED <<payment, reservation>>
        BY <2>2, <1>4 DEF Confirm
      <4>2. Outcome' = [Outcome EXCEPT ![o] = OutcomeOf("Confirmed")]
        BY <4>1, <1>0, OutcomeUpdate
      <4>3. UNCHANGED <<Money, Goods>>
        BY <4>1, UnchangedImages
      <4> QED
        BY <3>1, <2>2, <4>2, <4>3, <1>0, ImageAt, Meanings DEF Abstract!Confirm
    <3> QED
      BY <3>2, <1>0 DEF Abstract!Next
  <2> QED
    BY <2>1, <2>2
<1>5. CASE e.type \in {"PaymentRejected", "PaymentRefunded"} /\ Reject(o)
  <2>1. CASE status[o] \in {"NotSubmitted", "Confirmed", "Rejected"}
    BY <2>1, <1>5 DEF Reject
  <2>2. CASE status[o] \notin {"NotSubmitted", "Confirmed", "Rejected"}
    <3>1. payment[o] \in {"Rejected", "Refunded"}
      BY <1>0, <1>1, <1>5 DEF EventsMatchRecords
    <3>2. Abstract!Reject(o)
      <4>1. status' = [status EXCEPT ![o] = "Rejected"] /\ UNCHANGED <<payment, reservation>>
        BY <2>2, <1>5 DEF Reject
      <4>2. Outcome' = [Outcome EXCEPT ![o] = OutcomeOf("Rejected")]
        BY <4>1, <1>0, OutcomeUpdate
      <4>3. UNCHANGED <<Money, Goods>>
        BY <4>1, UnchangedImages
      <4> QED
        BY <3>1, <2>2, <4>2, <4>3, <1>0, ImageAt, Meanings DEF Abstract!Reject
    <3> QED
      BY <3>2, <1>0 DEF Abstract!Next
  <2> QED
    BY <2>1, <2>2
<1> QED
  BY <1>2, <1>3, <1>4, <1>5 DEF Handle, o

LEMMA PaymentRefines ==
  ASSUME TypeOK, RecordsHaveCauses, NEW e \in Event, e \in outbox, Handle("payment", e)
  PROVE  Abstract!Next \/ UNCHANGED AbstractVars
<1> DEFINE o == e.order
<1>0. o \in Orders /\ Raised(e.type, o)
  BY DEF Event, Raised, EventOf
<1>1. EventsMatchRecords(o) /\ RecordsMatchEachOther(o)
  BY <1>0 DEF RecordsHaveCauses
<1> HIDE DEF o
<1> USE IgnoredRefines DEF orderVars, inventoryVars
<1>2. CASE e.type = "OrderSubmitted" /\ Authorize(o)
  <2>1. CASE payment[o] # "None"
    BY <2>1, <1>2 DEF Authorize
  <2>2. CASE payment[o] = "None"
    <3>1. status[o] \notin {"NotSubmitted", "Confirmed", "Rejected"}
      BY <2>2, <1>0, <1>1, <1>2 DEF EventsMatchRecords, RecordsMatchEachOther
    <3>2. Abstract!TakeMoney(o)
      <4>1. PICK v \in {"Authorized", "Rejected"} : payment' = [payment EXCEPT ![o] = v]
        BY <2>2, <1>2 DEF Authorize
      <4>2. UNCHANGED <<status, reservation>>
        BY <2>2, <1>2 DEF Authorize
      <4>3. MoneyOf(v) \in {"held", "refused"} /\ Money' = [Money EXCEPT ![o] = MoneyOf(v)]
        BY <4>1, <1>0, MoneyUpdate, Meanings
      <4> QED
        BY <3>1, <2>2, <4>2, <4>3, <1>0, ImageAt, UnchangedImages, Meanings
        DEF Abstract!TakeMoney
    <3> QED
      BY <3>2, <1>0 DEF Abstract!Next
  <2> QED
    BY <2>1, <2>2
<1>3. CASE e.type = "PaymentRefundRequested" /\ Refund(o)
  <2>1. CASE payment[o] # "Authorized"
    BY <2>1, <1>3 DEF Refund
  <2>2. CASE payment[o] = "Authorized"
    <3>1. status[o] = "CompensatingPayment" /\ reservation[o] = "Rejected"
      BY <2>2, <1>0, <1>1, <1>3 DEF RecordsMatchEachOther
    <3>2. Abstract!ReturnMoney(o)
      <4>1. payment' = [payment EXCEPT ![o] = "Refunded"] /\ UNCHANGED <<status, reservation>>
        BY <2>2, <1>3 DEF Refund
      <4>2. Money' = [Money EXCEPT ![o] = MoneyOf("Refunded")]
        BY <4>1, <1>0, MoneyUpdate
      <4>3. UNCHANGED <<Outcome, Goods>>
        BY <4>1, UnchangedImages
      <4> QED
        BY <3>1, <2>2, <4>2, <4>3, <1>0, ImageAt, Meanings DEF Abstract!ReturnMoney
    <3> QED
      BY <3>2, <1>0 DEF Abstract!Next
  <2> QED
    BY <2>1, <2>2
<1> QED
  BY <1>2, <1>3 DEF Handle, o

LEMMA InventoryRefines ==
  ASSUME TypeOK, RecordsHaveCauses, NEW e \in Event, e \in outbox, Handle("inventory", e)
  PROVE  Abstract!Next \/ UNCHANGED AbstractVars
<1> DEFINE o == e.order
<1>0. o \in Orders /\ Raised("PaymentAuthorized", o) /\ Reserve(o)
  BY DEF Event, Raised, EventOf, Handle
<1>1. EventsMatchRecords(o) /\ RecordsMatchEachOther(o)
  BY <1>0 DEF RecordsHaveCauses
<1> HIDE DEF o
<1> USE DEF orderVars, paymentVars
<1>2. CASE reservation[o] # "None"
  BY <1>0, <1>2, IgnoredRefines DEF Reserve
<1>3. CASE reservation[o] = "None"
  <2>1. payment[o] = "Authorized" /\ status[o] \notin {"NotSubmitted", "Confirmed", "Rejected"}
    BY <1>3, <1>0, <1>1 DEF EventsMatchRecords, RecordsMatchEachOther
  <2>2. Abstract!TakeGoods(o)
    <3>1. PICK v \in {"Reserved", "Rejected"} : reservation' = [reservation EXCEPT ![o] = v]
      BY <1>0, <1>3 DEF Reserve
    <3>2. UNCHANGED <<status, payment>>
      BY <1>0, <1>3 DEF Reserve
    <3>3. GoodsOf(v) \in {"held", "refused"} /\ Goods' = [Goods EXCEPT ![o] = GoodsOf(v)]
      BY <3>1, <1>0, GoodsUpdate, Meanings
    <3> QED
      BY <2>1, <1>3, <3>2, <3>3, <1>0, ImageAt, UnchangedImages, Meanings
      DEF Abstract!TakeGoods
  <2> QED
    BY <2>2, <1>0 DEF Abstract!Next
<1> QED
  BY <1>2, <1>3

LEMMA NextRefines ==
  TypeOK /\ RecordsHaveCauses /\ [Next]_dbVars => [Abstract!Next]_AbstractVars
<1> SUFFICES ASSUME TypeOK, RecordsHaveCauses, [Next]_dbVars
             PROVE  Abstract!Next \/ UNCHANGED AbstractVars
  OBVIOUS
<1>1. CASE UNCHANGED dbVars
  BY <1>1, IgnoredRefines DEF dbVars, Ignored
<1>2. ASSUME NEW o \in Orders, SubmitOrder(o) PROVE Abstract!Next
  BY <1>2, SubmitRefines DEF Abstract!Next
<1>3. ASSUME NEW s \in Services, NEW e \in Event, Deliver(s, e)
      PROVE  Abstract!Next \/ UNCHANGED AbstractVars
  <2>1. CASE e \in inbox[s]
    BY <2>1, <1>1, <1>3 DEF Deliver, Consume
  <2>2. CASE e \notin inbox[s]
    BY <2>2, <1>3, OrderRefines, PaymentRefines, InventoryRefines
       DEF Deliver, Consume, Services
  <2> QED
    BY <2>1, <2>2
<1> QED
  BY <1>1, <1>2, <1>3 DEF Next

(* Whatever the transport does, the saga keeps what Checkout promises. *)
THEOREM SagaImplementsCheckout == Spec => ImplementsCheckout
  BY InitRefines, NextRefines, TypeCorrect, CausesHold, PTL
     DEF Spec, ImplementsCheckout, Abstract!Spec, Abstract!vars, AbstractVars
-----------------------------------------------------------------------------
(***************************************************************************)
(* The orders whose goods are reserved, finitely many at any time, and the *)
(* pieces of product p in each order.                                      *)
(***************************************************************************)
Holding    == {o \in Orders : reservation[o] = "Reserved"}
PiecesOf(p) == [o \in Orders |-> lines[o][p]]

Conserved ==
    /\ IsFiniteSet(Holding)
    /\ \A p \in Products : stock[p] + Sum(PiecesOf(p), Holding) = InitialStock[p]

LEMMA TakenIsSum ==
  ASSUME IsFiniteSet(Holding), NEW p \in Products
  PROVE  Taken(p) = Sum(PiecesOf(p), Holding)
<1> DEFINE Taking(g) ==
               g = [s \in SUBSET Holding |-> IF s = {} THEN 0 ELSE lines[Some(s)][p] + g[s \ {Some(s)}]]
<1>1. Taken(p) = (CHOOSE g : Taking(g))[Holding]
  BY DEF Taken, MapThenSumSet, MapThenFoldSet, Some, Holding
<1>2. \A s \in SUBSET Holding : s # {} => PiecesOf(p)[Some(s)] = lines[Some(s)][p]
  BY SomeElement DEF PiecesOf, Holding
<1>3. \A g : Taking(g) <=> Adds(g, PiecesOf(p), Holding)
  <2> SUFFICES ASSUME NEW g PROVE Taking(g) <=> Adds(g, PiecesOf(p), Holding)
    OBVIOUS
  <2>1. [s \in SUBSET Holding |-> IF s = {} THEN 0 ELSE lines[Some(s)][p] + g[s \ {Some(s)}]]
        = [s \in SUBSET Holding |-> IF s = {} THEN 0 ELSE PiecesOf(p)[Some(s)] + g[s \ {Some(s)}]]
    BY <1>2
  <2> QED
    BY <2>1 DEF Adds
<1> HIDE DEF Taking
<1>4. Taking(CHOOSE g : Taking(g))
  BY <1>3, FoldExists
<1> DEFINE h == CHOOSE g : Taking(g)
<1>5. Adds(h, PiecesOf(p), Holding)
  BY <1>3, <1>4
<1> HIDE DEF h
<1>6. h[Holding] = Sum(PiecesOf(p), Holding)
  BY <1>5, SumOfFold
<1> QED
  BY <1>1, <1>6 DEF h

(* Lines that no reservation has taken yet, and events, do not count. *)
LEMMA ConservedElsewhere ==
  ASSUME TypeOK, Conserved, UNCHANGED <<reservation, stock>>,
         \A o \in Holding : lines'[o] = lines[o]
  PROVE  Conserved'
<1>1. Holding' = Holding
  BY DEF Holding
<1>2. ASSUME NEW p \in Products
      PROVE  Sum(PiecesOf(p)', Holding) = Sum(PiecesOf(p), Holding)
  <2>1. \A o \in Holding : PiecesOf(p)'[o] = PiecesOf(p)[o]
    BY DEF PiecesOf, Holding
  <2>2. IsFiniteSet(Holding)
    BY DEF Conserved
  <2> QED
    BY <2>1, <2>2, SumOfSame
<1> QED
  BY <1>1, <1>2 DEF Conserved

LEMMA ReserveConserves ==
  ASSUME TypeOK, Conserved, NEW o \in Orders, Reserve(o)
  PROVE  Conserved'
<1>1. UNCHANGED lines
  BY DEF Reserve, Ignored, orderVars
<1>2. CASE UNCHANGED <<reservation, stock>>
  BY <1>1, <1>2, ConservedElsewhere
<1>3. CASE reservation[o] = "None" /\ Shortage(o)
  <2>1. Holding' = Holding /\ UNCHANGED <<lines, stock>>
    BY <1>1, <1>3 DEF Reserve, Holding, TypeOK, DbTypeOK
  <2>2. \A p \in Products : PiecesOf(p)' = PiecesOf(p)
    BY <2>1 DEF PiecesOf
  <2> QED
    BY <2>1, <2>2 DEF Conserved
<1>4. CASE reservation[o] = "None" /\ ~Shortage(o)
  <2>1. Holding' = Holding \cup {o} /\ o \notin Holding /\ stock' = [p \in Products |-> stock[p] - lines[o][p]]
    BY <1>4 DEF Reserve, Holding, TypeOK, DbTypeOK
  <2>2. IsFiniteSet(Holding) /\ IsFiniteSet(Holding')
    BY <2>1, FS_AddElement DEF Conserved
  <2>3. ASSUME NEW p \in Products
        PROVE  stock'[p] + Sum(PiecesOf(p)', Holding') = InitialStock[p]
    <3>1. PiecesOf(p)' = PiecesOf(p) /\ \A x \in Orders : PiecesOf(p)[x] = lines[x][p] /\ lines[x][p] \in Nat
      BY <1>1 DEF PiecesOf, TypeOK, DbTypeOK, MaxLineQuantity
    <3>2. \A x \in Holding \cup {o} : PiecesOf(p)[x] \in Nat
      BY <3>1 DEF Holding
    <3>3. Sum(PiecesOf(p), Holding \cup {o}) = PiecesOf(p)[o] + Sum(PiecesOf(p), Holding)
      BY <2>1, <2>2, <3>2, SumWith
    <3>4. Sum(PiecesOf(p), Holding) \in Nat
      BY <2>2, <3>2, SumIsNumber
    <3>5. stock[p] + Sum(PiecesOf(p), Holding) = InitialStock[p] /\ stock[p] \in Nat
      BY DEF Conserved, TypeOK, DbTypeOK
    <3>6. stock'[p] = stock[p] - lines[o][p]
      BY <2>1
    <3> QED
      BY <2>1, <3>1, <3>3, <3>4, <3>5, <3>6
  <2> QED
    BY <2>2, <2>3 DEF Conserved
<1> QED
  BY <1>2, <1>3, <1>4 DEF Reserve, Ignored

LEMMA NextConserves == TypeOK /\ RecordsHaveCauses /\ Conserved /\ [Next]_dbVars => Conserved'
<1> SUFFICES ASSUME TypeOK, RecordsHaveCauses, Conserved, [Next]_dbVars PROVE Conserved'
  OBVIOUS
<1>1. CASE UNCHANGED dbVars
  BY <1>1, ConservedElsewhere DEF dbVars
<1>2. ASSUME NEW o \in Orders, SubmitOrder(o) PROVE Conserved'
  <2>1. reservation[o] = "None"
    BY <1>2 DEF SubmitOrder, RecordsHaveCauses, RecordsMatchEachOther
  <2>2. \A x \in Holding : lines'[x] = lines[x]
    BY <1>2, <2>1 DEF SubmitOrder, Holding, TypeOK, DbTypeOK
  <2> QED
    BY <1>2, <2>2, ConservedElsewhere DEF SubmitOrder, inventoryVars
<1>3. ASSUME NEW s \in Services, NEW e \in Event, Handle(s, e) PROVE Conserved'
  <2>1. CASE \E o \in Orders : Reserve(o)
    BY <2>1, ReserveConserves
  <2>2. e.order \in Orders
    BY DEF Event
  <2>3. CASE UNCHANGED <<reservation, stock, lines>>
    BY <2>3, ConservedElsewhere
  <2> QED
    BY <1>3, <2>1, <2>2, <2>3 DEF Handle, OnPaymentAuthorized, Confirm,
       RequestPaymentCompensation, Reject,
       Authorize, Refund, Ignored, orderVars, inventoryVars
<1> QED
  BY <1>1, <1>2, <1>3 DEF Next, Deliver, Consume

(***************************************************************************)
(* Every piece is on the shelf or in one reservation, for any stock, any   *)
(* number of orders, and any order and number of deliveries of the events. *)
(***************************************************************************)
THEOREM PiecesAreConserved == Spec => []StockConserved
<1>1. Init => Conserved
  <2> SUFFICES ASSUME Init PROVE Conserved
    OBVIOUS
  <2>1. Holding = {} /\ stock = InitialStock
    BY DEF Init, DbInit, Holding
  <2>2. \A p \in Products : Sum(PiecesOf(p), Holding) = 0
    BY <2>1, SumOfNone
  <2> QED
    BY <2>1, <2>2, FS_EmptySet, CheckoutAssumption DEF Conserved
<1>2. Conserved => StockConserved
  BY TakenIsSum DEF Conserved, StockConserved
<1> QED
  BY <1>1, <1>2, NextConserves, TypeCorrect, CausesHold, PTL DEF Spec
-----------------------------------------------------------------------------
(***************************************************************************)
(* OrderTracking: what the page of an order shows is true of the databases *)
(* of the three services, however late an answer is handled.               *)
(***************************************************************************)

(* An order waits for Inventory only once Payment has recorded it. *)
PaidBeforeInventory ==
    \A o \in Orders : status[o] = "PendingInventory" => payment[o] # "None"

(* A closed page asks nothing, an open one is for a submitted order. *)
PageIsForAnOrder ==
    /\ page.order = NoOrder => requests = {} /\ page.shown = Nothing /\ ~page.polling
    /\ page.order # NoOrder => status[page.order] # "NotSubmitted"

Records == TypeOK /\ RecordsHaveCauses /\ PaidBeforeInventory

IInv == Records /\ PageIsForAnOrder /\ StepsShownWereTaken

(* What a page may conclude from status s of order o. *)
Justified(s, o) ==
    /\ s # "NotSubmitted"
    /\ s # "PendingPayment" => payment[o] # "None"
    /\ s \in {"Confirmed", "CompensatingPayment", "Rejected"} =>
           reservation[o] # "None" \/ payment[o] = "Rejected"
    /\ s \in Terminal => status[o] = s
-----------------------------------------------------------------------------
(* No handler takes back what a page may have concluded about order o. *)
Stays(o) ==
    /\ status[o] # "NotSubmitted" => status'[o] # "NotSubmitted"
    /\ payment[o] # "None" => payment'[o] # "None"
    /\ payment[o] = "Rejected" => payment'[o] = "Rejected"
    /\ reservation[o] # "None" => reservation'[o] # "None"
    /\ status[o] \in Terminal => status'[o] = status[o]
    /\ status'[o] = "PendingInventory" => status[o] = "PendingInventory" \/ payment[o] # "None"

LEMMA RecordsStay ==
  ASSUME TypeOK, RecordsHaveCauses, Next
  PROVE  \A o \in Orders : Stays(o)
<1> USE DEF Stays, TypeOK, DbTypeOK, Terminal, Ignored, orderVars, paymentVars, inventoryVars
<1>1. ASSUME NEW x \in Orders, SubmitOrder(x) PROVE \A o \in Orders : Stays(o)
  BY <1>1 DEF SubmitOrder
<1>2. ASSUME NEW s \in Services, NEW e \in Event, Deliver(s, e) PROVE \A o \in Orders : Stays(o)
  <2> DEFINE x == e.order
  <2>0. x \in Orders /\ Raised(e.type, x)
    BY <1>2 DEF Event, Raised, EventOf, Deliver
  <2>1. EventsMatchRecords(x) /\ RecordsMatchEachOther(x)
    BY <2>0 DEF RecordsHaveCauses
  <2> HIDE DEF x
  <2>2. CASE e \in inbox[s]
    BY <2>2, <1>2 DEF Deliver, Consume, dbVars
  <2>3. CASE s = "order" /\ Handle(s, e)
    <3>1. \/ e.type = "PaymentAuthorized" /\ OnPaymentAuthorized(x)
          \/ Confirm(x) \/ RequestPaymentCompensation(x) \/ Reject(x)
      BY <2>3 DEF Handle, x
    <3>2. CASE e.type = "PaymentAuthorized" /\ OnPaymentAuthorized(x)
      BY <3>2, <2>0, <2>1 DEF OnPaymentAuthorized, EventsMatchRecords
    <3> QED
      BY <3>1, <3>2, <2>0 DEF Confirm, RequestPaymentCompensation, Reject
  <2>4. CASE s = "payment" /\ Handle(s, e)
    <3>1. Authorize(x) \/ Refund(x)
      BY <2>4 DEF Handle, x
    <3> QED
      BY <3>1, <2>0 DEF Authorize, Refund
  <2>5. CASE s = "inventory" /\ Handle(s, e)
    <3>1. Reserve(x)
      BY <2>5 DEF Handle, x
    <3> QED
      BY <3>1, <2>0 DEF Reserve
  <2> QED
    BY <1>2, <2>2, <2>3, <2>4, <2>5 DEF Deliver, Consume, Services
<1> QED
  BY <1>1, <1>2 DEF Next

(* The status that is stored is justified when it is read. *)
LEMMA StoredIsJustified ==
  ASSUME Records, NEW o \in Orders, status[o] # "NotSubmitted"
  PROVE  Justified(status[o], o)
BY DEF Records, TypeOK, DbTypeOK, OrderStatus, ReservationStatus, PaymentStatus,
   PaidBeforeInventory,
       RecordsHaveCauses, EventsMatchRecords, RecordsMatchEachOther, Justified, Terminal

LEMMA JustifiedStays ==
  ASSUME NEW o \in Orders, Stays(o), NEW s, Justified(s, o)
  PROVE  Justified(s, o)'
BY DEF Stays, Justified

(* The invariant of the runs, in the words of this module. *)
LEMMA ShownMeansJustified ==
  StepsShownWereTaken <=> PageTypeOK /\ \A s \in Known \cap OrderStatus : Justified(s, page.order)
BY DEF StepsShownWereTaken, StepComplete, Justified, OrderStatus, Nothing
-----------------------------------------------------------------------------
LEMMA InitIInv == TrackingInit => IInv
<1> SUFFICES ASSUME TrackingInit PROVE IInv
  OBVIOUS
<1>1. Records
  BY InitTypeOK DEF TrackingInit, Records, PaidBeforeInventory, Init, DbInit,
     RecordsHaveCauses,
     EventsMatchRecords, RecordsMatchEachOther, Raised
<1>2. PageIsForAnOrder /\ StepsShownWereTaken
  BY TrackingAssumption DEF TrackingInit, PageIsForAnOrder, StepsShownWereTaken,
     PageTypeOK, Closed, Nothing,
     Known, OrderStatus, Asked
<1> QED
  BY <1>1, <1>2 DEF IInv

(* A transaction of a service. *)
LEMMA ServicesKeepIInv ==
  ASSUME IInv, Next, UNCHANGED pageVars
  PROVE  IInv'
<1> USE DEF IInv, pageVars
<1>1. TypeOK' /\ RecordsHaveCauses'
  BY NextTypeOK, NextKeepsCauses DEF Records
<1>2. \A o \in Orders : Stays(o)
  BY RecordsStay DEF Records
<1>3. PaidBeforeInventory'
  BY <1>2 DEF Records, PaidBeforeInventory, Stays
<1>4. PageTypeOK
  BY DEF StepsShownWereTaken
<1>5. page.order = NoOrder \/ page.order \in Orders
  BY <1>4 DEF PageTypeOK
<1>6. PageIsForAnOrder'
  BY <1>2, <1>5 DEF PageIsForAnOrder, Stays
<1>7. StepsShownWereTaken'
  <2>1. PageTypeOK'
    BY <1>4 DEF PageTypeOK
  <2>2. ASSUME NEW s \in (Known \cap OrderStatus)' PROVE Justified(s, page.order)'
    <3>1. s \in Known \cap OrderStatus
      BY <2>2 DEF Known
    <3>2. page.order \in Orders
      BY <3>1, <1>5 DEF PageIsForAnOrder, Known, Nothing, OrderStatus
    <3>3. Justified(s, page.order)
      BY <3>1, ShownMeansJustified
    <3> QED
      BY <3>2, <3>3, <1>2 DEF Justified, Stays
  <2> QED
    BY <2>1, <2>2 DEF StepsShownWereTaken, StepComplete, Justified, OrderStatus, Nothing
<1> QED
  BY <1>1, <1>3, <1>6, <1>7 DEF Records

(* A step of the page: what it knows afterwards it knew, or has just read. *)
LEMMA PageKeepsIInv ==
  ASSUME IInv, PageNext, UNCHANGED dbVars
  PROVE  IInv'
<1> USE DEF IInv
<1>1. Records'
  BY DEF Records, dbVars, TypeOK, DbTypeOK, RecordsHaveCauses, EventsMatchRecords,
     RecordsMatchEachOther, Raised, PaidBeforeInventory
<1>2. PageTypeOK /\ UNCHANGED <<status, payment, reservation>>
  BY DEF StepsShownWereTaken, dbVars
<1>3. \A s, o : Justified(s, o) => Justified(s, o)'
  BY <1>2 DEF Justified
<1>4. \A s \in Known \cap OrderStatus : Justified(s, page.order)
  BY ShownMeansJustified
<1> DEFINE Goal == PageTypeOK' /\ PageIsForAnOrder' /\ \A s \in (Known \cap OrderStatus)' : Justified(s, page.order)'
<1>5. Goal => PageIsForAnOrder' /\ StepsShownWereTaken'
  BY DEF StepsShownWereTaken, StepComplete, Justified, OrderStatus, Nothing
<1> USE DEF PageTypeOK, PageIsForAnOrder, Known
<1>6. ASSUME NEW o \in Orders, Open(o) PROVE Goal
  <2>1. /\ page'.order = o /\ page'.shown = Nothing
        /\ page' \in [order : Orders, polling : BOOLEAN, shown : {Nothing}, failed : BOOLEAN]
        /\ requests' = requests /\ page.order = NoOrder /\ status[o] # "NotSubmitted"
    BY <1>6 DEF Open, Closed
  <2> QED
    BY <2>1, <1>2, TrackingAssumption DEF OrderStatus, Nothing
<1>7. ASSUME Close PROVE Goal
  BY <1>7 DEF Close, Closed, OrderStatus, Nothing
<1>8. ASSUME Tick PROVE Goal
  BY <1>8, <1>2, <1>3, <1>4 DEF Tick, Asked
<1>9. ASSUME ServeOrder PROVE Goal
  <2>1. page.order \in Orders /\ status[page.order] # "NotSubmitted"
    BY <1>9, <1>2 DEF ServeOrder
  <2>2. Justified(status[page.order], page.order) /\ status[page.order] \in OrderStatus
    BY <2>1, StoredIsJustified DEF Records, TypeOK, DbTypeOK
  <2> QED
    BY <1>9, <1>2, <1>3, <1>4, <2>1, <2>2 DEF ServeOrder, OrderStatus, Asked
<1>10. ASSUME Receive PROVE Goal
  <2>1. PICK s \in requests \cap OrderStatus :
            /\ page' = [page EXCEPT !.shown = s, !.polling = ~IsTerminal(s)]
            /\ requests' = IF IsTerminal(s) THEN {} ELSE requests \ {s}
    BY <1>10 DEF Receive
  <2>2. page.order \in Orders
    BY <2>1, <1>2
  <2>3. /\ page'.order = page.order /\ page'.shown = s
        /\ page' \in [order : Orders, polling : BOOLEAN, shown : OrderStatus, failed : BOOLEAN]
        /\ requests' \subseteq requests
    BY <2>1, <2>2, <1>2 DEF IsTerminal
  <2> QED
    BY <2>1, <2>2, <2>3, <1>2, <1>3, <1>4, TrackingAssumption DEF OrderStatus, Asked
<1>11. ASSUME Fail PROVE Goal
  <2>1. /\ page'.order = page.order /\ page'.shown = page.shown /\ requests' = {}
        /\ page'.polling = FALSE
        /\ page' \in [order : Orders \cup {NoOrder}, polling : BOOLEAN,
                     shown : OrderStatus \cup {Nothing}, failed : BOOLEAN]
    BY <1>11, <1>2 DEF Fail
  <2> QED
    BY <2>1, <1>2, <1>3, <1>4
<1> QED
  BY <1>1, <1>5, <1>6, <1>7, <1>8, <1>9, <1>10, <1>11 DEF PageNext

LEMMA NextIInv == IInv /\ [TrackingNext]_trackingVars => IInv'
<1> SUFFICES ASSUME IInv, [TrackingNext]_trackingVars PROVE IInv'
  OBVIOUS
<1>1. CASE UNCHANGED trackingVars
  BY <1>1 DEF trackingVars, dbVars, pageVars, IInv, Records, TypeOK, DbTypeOK,
     RecordsHaveCauses,
     EventsMatchRecords, RecordsMatchEachOther, Raised, PaidBeforeInventory, PageIsForAnOrder,
     StepsShownWereTaken, PageTypeOK, Known
<1> QED
  BY <1>1, ServicesKeepIInv, PageKeepsIInv DEF TrackingNext

LEMMA InvariantHolds == TrackingSpec => []IInv
  BY InitIInv, NextIInv, PTL DEF TrackingSpec

(***************************************************************************)
(* Every step the page marks complete was taken and the outcome it shows   *)
(* is the order's, and so for every answer on its way.                     *)
(***************************************************************************)
THEOREM WhatIsShownIsTrue == TrackingSpec => []StepsShownWereTaken
  BY InvariantHolds, PTL DEF IInv
-----------------------------------------------------------------------------
(* Every step that is complete with status s is complete with status t. *)
Before(s, t) == \A step \in Steps : StepComplete(step, s) => StepComplete(step, t)

(***************************************************************************)
(* There is one request at a time, and what the page shows, what the       *)
(* answer on its way says and what is stored follow in this order.         *)
(***************************************************************************)
AnswersInOrder ==
    /\ \A s, t \in requests : s = t
    /\ \A s \in Known \cap OrderStatus : Before(s, status[page.order])
    /\ \A s \in requests \cap OrderStatus : Before(page.shown, s)

LEMMA BeforeIsPreorder ==
  /\ \A s : Before(s, s)
  /\ \A s, t, u : Before(s, t) /\ Before(t, u) => Before(s, u)
BY DEF Before

(* The steps of an order only advance: each handler looks at the status first. *)
LEMMA StatusAdvances ==
  ASSUME TypeOK, Next, NEW o \in Orders, status[o] # "NotSubmitted"
  PROVE  Before(status[o], status'[o])
<1> USE DEF TypeOK, DbTypeOK, orderVars
<1>1. CASE status'[o] = status[o]
  BY <1>1 DEF Before
<1>2. ASSUME NEW x \in Orders, SubmitOrder(x) PROVE status'[o] = status[o]
  BY <1>2 DEF SubmitOrder
<1>3. ASSUME NEW s \in Services, NEW e \in Event, Deliver(s, e)
      PROVE  Before(status[o], status'[o])
  <2>1. \/ UNCHANGED status
        \/ OnPaymentAuthorized(e.order) \/ Confirm(e.order)
        \/ RequestPaymentCompensation(e.order) \/ Reject(e.order)
    BY <1>3 DEF Deliver, Consume, Handle, Authorize, Refund, Reserve, Ignored, dbVars
  <2>2. \/ status'[o] = status[o]
        \/ status[o] = "PendingPayment"
        \/ status[o] = "PendingInventory" /\ status'[o] \in {"Confirmed", "CompensatingPayment", "Rejected"}
        \/ status[o] = "CompensatingPayment" /\ status'[o] = "Rejected"
    BY <2>1 DEF OnPaymentAuthorized, Confirm, RequestPaymentCompensation, Reject, Ignored,
       OrderStatus, Event
  <2>3. status[o] = "PendingPayment" => status'[o] \in OrderStatus
    BY <1>3, NextTypeOK DEF Next
  <2> QED
    BY <2>2, <2>3, <1>1 DEF Before, StepComplete, Steps, Nothing, OrderStatus
<1> QED
  BY <1>1, <1>2, <1>3 DEF Next

LEMMA AnswersStayInOrder ==
  ASSUME IInv, AnswersInOrder, [TrackingNext]_trackingVars
  PROVE  AnswersInOrder' /\ (page'.order = page.order => Before(page.shown, page'.shown))
<1> DEFINE Goal == AnswersInOrder' /\ (page'.order = page.order => Before(page.shown, page'.shown))
<1>1. /\ PageTypeOK /\ PageIsForAnOrder
      /\ page.order = NoOrder \/ page.order \in Orders
  BY DEF IInv, StepsShownWereTaken, PageTypeOK
<1>2. \A t : Before(Nothing, t)
  BY DEF Before, StepComplete
<1>3. ASSUME UNCHANGED <<pageVars, status>> PROVE Goal
  BY <1>3, BeforeIsPreorder DEF AnswersInOrder, pageVars, Known
<1>4. ASSUME Next, UNCHANGED pageVars PROVE Goal
  <2>1. CASE page.order = NoOrder
    BY <2>1, <1>1, <1>4, BeforeIsPreorder
       DEF AnswersInOrder, pageVars, Known, PageIsForAnOrder, Nothing, OrderStatus
  <2>2. CASE page.order \in Orders
    <3>1. Before(status[page.order], status'[page.order])
      BY <2>2, <1>1, <1>4, StatusAdvances, TrackingAssumption DEF IInv, Records,
         PageIsForAnOrder
    <3> QED
      BY <3>1, <1>4, BeforeIsPreorder DEF AnswersInOrder, pageVars, Known
  <2> QED
    BY <2>1, <2>2, <1>1
<1>5. ASSUME PageNext, UNCHANGED dbVars PROVE Goal
  <2>0. UNCHANGED status
    BY <1>5 DEF dbVars
  <2>1. ASSUME NEW o \in Orders, Open(o) PROVE Goal
    <3>1. page'.shown = Nothing /\ page.shown = Nothing /\ requests' = {}
      BY <2>1, <1>1 DEF Open, Closed, PageIsForAnOrder
    <3> QED
      BY <3>1, <1>2 DEF AnswersInOrder, Known, Nothing, OrderStatus
  <2>2. ASSUME Close PROVE Goal
    <3>1. page'.shown = Nothing /\ page'.order = NoOrder /\ requests' = {}
      BY <2>2 DEF Close, Closed
    <3>2. page'.order = page.order => page.shown = Nothing
      BY <3>1, <1>1 DEF PageIsForAnOrder
    <3> QED
      BY <3>1, <3>2, <1>2 DEF AnswersInOrder, Known, Nothing, OrderStatus
  <2>3. ASSUME Tick PROVE Goal
    BY <2>0, <2>3, BeforeIsPreorder DEF Tick, AnswersInOrder, Known, Asked, OrderStatus
  <2>4. ASSUME ServeOrder PROVE Goal
    <3>1. requests' = {status[page.order]} /\ page' = page
      BY <2>4 DEF ServeOrder, AnswersInOrder
    <3>2. page.shown \in OrderStatus \/ page.shown = Nothing
      BY <1>1 DEF PageTypeOK
    <3>3. Before(page.shown, status[page.order])
      BY <3>2, <1>2 DEF AnswersInOrder, Known
    <3> QED
      BY <2>0, <3>1, <3>3, BeforeIsPreorder DEF AnswersInOrder, Known
  <2>5. ASSUME Receive PROVE Goal
    <3>1. PICK s \in requests \cap OrderStatus :
              /\ page' = [page EXCEPT !.shown = s, !.polling = ~IsTerminal(s)]
              /\ requests' = IF IsTerminal(s) THEN {} ELSE requests \ {s}
      BY <2>5 DEF Receive
    <3>2. page'.shown = s /\ page'.order = page.order
      BY <3>1, <1>1 DEF PageTypeOK
    <3>3. requests' = {}
      BY <3>1 DEF AnswersInOrder
    <3>4. Before(page.shown, s) /\ Before(s, status[page.order])
      BY <3>1 DEF AnswersInOrder, Known, Asked, OrderStatus
    <3> QED
      BY <2>0, <3>2, <3>3, <3>4 DEF AnswersInOrder, Known
  <2>6. ASSUME Fail PROVE Goal
    <3>1. page'.shown = page.shown /\ page'.order = page.order /\ requests' = {}
      BY <2>6, <1>1 DEF Fail, PageTypeOK
    <3> QED
      BY <2>0, <3>1, BeforeIsPreorder DEF AnswersInOrder, Known
  <2> QED
    BY <1>5, <2>1, <2>2, <2>3, <2>4, <2>5, <2>6 DEF PageNext
<1> QED
  BY <1>3, <1>4, <1>5 DEF TrackingNext, trackingVars, dbVars

(***************************************************************************)
(* While the page is open a step that was complete stays complete.         *)
(***************************************************************************)
THEOREM NoStepIsTakenBack == TrackingSpec => StepsStayComplete
<1>1. TrackingInit => AnswersInOrder
  BY DEF TrackingInit, AnswersInOrder, Closed, Known, Nothing, OrderStatus
<1>2. IInv /\ AnswersInOrder /\ [TrackingNext]_trackingVars => AnswersInOrder'
  BY AnswersStayInOrder
<1>3. ASSUME IInv, AnswersInOrder, [TrackingNext]_trackingVars
      PROVE  [page'.order = page.order =>
                 \A step \in Steps : StepComplete(step, page.shown) => StepComplete(step, page'.shown)]_pageVars
  BY <1>3, AnswersStayInOrder DEF Before
<1> QED
  BY <1>1, <1>2, <1>3, InvariantHolds, PTL DEF TrackingSpec, StepsStayComplete
-----------------------------------------------------------------------------
(***************************************************************************)
(* Whatever the page does, the services below it run the saga, so that     *)
(* what is proved of the saga (its outcomes, its events, its promise) holds *)
(* with the page open.                                                     *)
(***************************************************************************)
THEOREM TrackingImplementsSaga == TrackingSpec => Spec
<1>1. TrackingInit => Init
  BY DEF TrackingInit
<1>2. [TrackingNext]_trackingVars => [Next]_dbVars
  BY DEF TrackingNext, trackingVars, dbVars
<1> QED
  BY <1>1, <1>2, PTL DEF TrackingSpec, Spec
=============================================================================
