----------------------- MODULE CheckoutDeliveryProofs -----------------------
(***************************************************************************)
(* The transport of CheckoutDelivery, for any orders, products, limits and *)
(* number of faults: it implements CheckoutSaga, loses no event between    *)
(* two tables, and brings an answer of Inventory to Order only after the   *)
(* authorization it follows from.                                          *)
(***************************************************************************)
EXTENDS CheckoutDelivery, SequenceTheorems, TLAPS

(* What is proved of the saga, for use here, with no page open over it. *)
NoOrder == CHOOSE o : o \notin Orders
NoPage  == [order |-> NoOrder, polling |-> FALSE, shown |-> "nothing", failed |-> FALSE]

SagaProofs == INSTANCE CheckoutSagaProofs WITH page <- NoPage, requests <- {}

LEMMA SagaAssumption == SagaProofs!CheckoutAssumption /\ SagaProofs!TrackingAssumption
<1>1. SagaProofs!CheckoutAssumption
  BY CheckoutAssumption DEF SagaProofs!CheckoutAssumption, SagaProofs!MaxLineQuantity,
     MaxLineQuantity
<1>2. {o \in Orders : o \notin o} \notin Orders
  OBVIOUS
<1>3. NoOrder \notin Orders
  BY <1>2 DEF NoOrder
<1> QED
  BY <1>1, <1>3 DEF SagaProofs!TrackingAssumption
-----------------------------------------------------------------------------
(* A sequence without its element i: those behind it move up. *)
LEMMA RemoveAtProperties ==
  ASSUME NEW S, NEW q \in Seq(S), NEW i \in DOMAIN q
  PROVE  /\ RemoveAt(q, i) \in Seq(S)
         /\ DOMAIN RemoveAt(q, i) = 1 .. Len(q) - 1
         /\ \A k \in 1 .. Len(q) - 1 : RemoveAt(q, i)[k] = IF k < i THEN q[k] ELSE q[k + 1]
<1>1. Len(q) \in Nat /\ i \in 1 .. Len(q) /\ \A k \in 1 .. Len(q) : q[k] \in S
  BY LenProperties, ElementOfSeq
<1> DEFINE a == SubSeq(q, 1, i - 1)
           b == SubSeq(q, i + 1, Len(q))
<1>2. a \in Seq(S) /\ Len(a) = i - 1 /\ \A k \in 1 .. i - 1 : a[k] = q[k]
  <2>1. i - 1 \in Int /\ \A k \in 1 .. i - 1 : q[k] \in S
    BY <1>1
  <2>2. /\ a \in Seq(S) /\ Len(a) = IF 1 <= i - 1 THEN i - 1 - 1 + 1 ELSE 0
        /\ \A k \in 1 .. i - 1 - 1 + 1 : a[k] = q[1 + k - 1]
    BY <2>1, SubSeqProperties
  <2> QED
    BY <1>1, <2>2
<1>3. b \in Seq(S) /\ Len(b) = Len(q) - i /\ \A k \in 1 .. Len(q) - i : b[k] = q[i + k]
  <2>1. i + 1 \in Int /\ Len(q) \in Int /\ \A k \in i + 1 .. Len(q) : q[k] \in S
    BY <1>1
  <2>2. /\ b \in Seq(S) /\ Len(b) = IF i + 1 <= Len(q) THEN Len(q) - (i + 1) + 1 ELSE 0
        /\ \A k \in 1 .. Len(q) - (i + 1) + 1 : b[k] = q[i + 1 + k - 1]
    BY <2>1, SubSeqProperties
  <2> QED
    BY <1>1, <2>2
<1> HIDE DEF a, b
<1>4. /\ a \o b \in Seq(S) /\ Len(a \o b) = Len(a) + Len(b)
      /\ \A k \in 1 .. Len(a) + Len(b) : (a \o b)[k] = IF k <= Len(a) THEN a[k] ELSE b[k - Len(a)]
  BY <1>2, <1>3, ConcatProperties
<1>5. RemoveAt(q, i) = a \o b
  BY DEF RemoveAt, a, b
<1>6. DOMAIN (a \o b) = 1 .. Len(q) - 1
  BY <1>1, <1>2, <1>3, <1>4, LenProperties
<1>7. ASSUME NEW k \in 1 .. Len(q) - 1
      PROVE  (a \o b)[k] = IF k < i THEN q[k] ELSE q[k + 1]
  <2>1. (a \o b)[k] = IF k <= i - 1 THEN a[k] ELSE b[k - (i - 1)]
    <3>1. Len(a) = i - 1 /\ k \in 1 .. Len(a) + Len(b)
      BY <1>1, <1>2, <1>3
    <3> QED
      BY <3>1, <1>4
  <2>2. CASE k < i
    BY <2>1, <2>2, <1>1, <1>2
  <2>3. CASE ~(k < i)
    <3>1. k - (i - 1) \in 1 .. Len(q) - i /\ i + (k - (i - 1)) = k + 1
      BY <2>3, <1>1
    <3>2. b[k - (i - 1)] = q[i + (k - (i - 1))]
      BY <3>1, <1>3
    <3> QED
      BY <2>1, <2>3, <3>1, <3>2, <1>1
  <2> QED
    BY <2>2, <2>3
<1> QED
  BY <1>4, <1>5, <1>6, <1>7

(* r is q without message i, ... *)
Dropped(q, r, i) ==
    /\ DOMAIN r = 1 .. Len(q) - 1
    /\ \A k \in 1 .. Len(q) - 1 : r[k] = IF k < i THEN q[k] ELSE q[k + 1]

(* ... or q with another count of deliveries or lock of message i. *)
Marked(q, r, i) ==
    /\ DOMAIN r = DOMAIN q /\ r[i].event = q[i].event
    /\ \A k \in DOMAIN q \ {i} : r[k] = q[k]

LEMMA DroppedIndices ==
  ASSUME NEW q \in Seq(Message), NEW r, NEW i \in DOMAIN q, Dropped(q, r, i)
  PROVE  /\ \A k \in DOMAIN r : LET j == IF k < i THEN k ELSE k + 1 IN j \in DOMAIN q \ {i} /\ r[k] = q[j]
         /\ \A j \in DOMAIN q \ {i} : LET k == IF j < i THEN j ELSE j - 1 IN k \in DOMAIN r /\ r[k] = q[j]
BY DEF Dropped

LEMMA DroppedIsNotMarked ==
  ASSUME NEW q \in Seq(Message), NEW i \in DOMAIN q, NEW r, Dropped(q, r, i)
  PROVE  ~Marked(q, r, i)
<1>1. Len(q) \in Nat /\ DOMAIN q = 1 .. Len(q) /\ Len(q) \in 1 .. Len(q)
  BY LenProperties
<1>2. Len(q) \notin 1 .. Len(q) - 1
  BY <1>1
<1> QED
  BY <1>1, <1>2 DEF Dropped, Marked

LEMMA RemoveAtDrops ==
  ASSUME NEW q \in Seq(Message), NEW i \in DOMAIN q, NEW p \in Seq(Message), Marked(q, p, i)
  PROVE  RemoveAt(p, i) \in Seq(Message) /\ Dropped(q, RemoveAt(p, i), i)
<1>1. i \in DOMAIN p /\ Len(p) = Len(q) /\ DOMAIN q = 1 .. Len(q) /\ Len(q) \in Nat /\ i \in 1 .. Len(q)
  BY DEF Marked
<1>2. \A k \in 1 .. Len(q) - 1 : RemoveAt(p, i)[k] = IF k < i THEN p[k] ELSE p[k + 1]
  BY <1>1, RemoveAtProperties
<1>3. \A k \in 1 .. Len(q) - 1 : RemoveAt(p, i)[k] = IF k < i THEN q[k] ELSE q[k + 1]
  BY <1>1, <1>2 DEF Marked
<1> QED
  BY <1>1, <1>3, RemoveAtProperties DEF Dropped
-----------------------------------------------------------------------------
(* Every message is for an event that was raised and that its service handles. *)
QueueOK ==
    /\ queue \in [Services -> Seq(Message)]
    /\ \A s \in Services : \A i \in DOMAIN queue[s] :
           queue[s][i].event \in outbox /\ queue[s][i].event.type \in CanHandle[s]

LEMMA QueuedEvents ==
  ASSUME QueueOK, NEW s \in Services, NEW i \in DOMAIN queue[s]
  PROVE  queue[s][i].event \in Event /\ queue[s][i].event \in outbox
         /\ queue[s][i].event.type \in CanHandle[s]
<1>1. queue[s] \in Seq(Message)
  BY DEF QueueOK
<1>2. queue[s][i] \in Message
  BY <1>1, LenProperties, ElementOfSeq
<1> QED
  BY <1>2 DEF QueueOK, Message

(* Event e has been handled by service s, or given up on its way to it. *)
Settled(s, e) == e \in inbox[s] \cup deadLetters[s] \cup expired[s]

(***************************************************************************)
(* What the six actions of a subscription have in common.  Message i of    *)
(* service s is at hand; its event is handled or nothing is stored; and    *)
(* the message is kept, or its event is settled.                           *)
(***************************************************************************)
QueueStep(s, i) ==
    /\ i \in DOMAIN queue[s]
    /\ queue' \in [Services -> Seq(Message)] /\ \A t \in Services \ {s} : queue'[t] = queue[t]
    /\ UNCHANGED rowVars /\ faults' \in {faults, faults + 1} /\ (faults' # faults => faults < MaxFaults)
    /\ UNCHANGED dbVars \/ (Receives(s, i) /\ Consume(s, queue[s][i].event))
    /\ deadLetters' \in {deadLetters, [deadLetters EXCEPT ![s] = @ \cup {queue[s][i].event}]}
    /\ expired' \in {expired, [expired EXCEPT ![s] = @ \cup {queue[s][i].event}]}
    /\ interrupted' \in {interrupted, interrupted \cup {queue[s][i].event}}
    /\ \/ /\ Dropped(queue[s], queue'[s], i)
          /\ \/ Consume(s, queue[s][i].event)
             \/ deadLetters' = [deadLetters EXCEPT ![s] = @ \cup {queue[s][i].event}]
             \/ expired' = [expired EXCEPT ![s] = @ \cup {queue[s][i].event}]
       \/ /\ Marked(queue[s], queue'[s], i)
          /\ queue'[s][i].locked =>
                 \/ Consume(s, queue[s][i].event)
                 \/ s = "order" => queue[s][i].event \in interrupted'

SubscriptionStep(s) ==
    Deliver(s) \/ StopAfterCommit(s) \/ StopBeforeCommit(s) \/ HandlerFails(s) \/ LockExpires(s) \/ Expire(s)

(* A message that is only counted or locked differently keeps its place. *)
LEMMA MarkedQueue ==
  ASSUME NEW q \in Seq(Message), NEW i \in DOMAIN q, NEW r,
         r = [k \in DOMAIN q |-> r[k]], \A k \in DOMAIN q \ {i} : r[k] = q[k],
         r[i] \in Message, r[i].event = q[i].event
  PROVE  r \in Seq(Message) /\ Marked(q, r, i)
<1>1. Len(q) \in Nat /\ DOMAIN q = 1 .. Len(q) /\ \A k \in DOMAIN q : q[k] \in Message
  BY LenProperties, ElementOfSeq
<1>2. \A k \in DOMAIN q : r[k] \in Message
  BY <1>1
<1>3. r \in [1 .. Len(q) -> Message] /\ DOMAIN r = DOMAIN q
  BY <1>1, <1>2
<1> QED
  BY <1>1, <1>3 DEF Marked

LEMMA UndeliveredIsMarked ==
  ASSUME NEW s \in Services, queue[s] \in Seq(Message), NEW i \in DOMAIN queue[s], NEW locked \in BOOLEAN
  PROVE  /\ Undelivered(s, i, locked) \in Seq(Message)
         /\ Marked(queue[s], Undelivered(s, i, locked), i)
         /\ Undelivered(s, i, locked)[i].locked = locked
<1> DEFINE r == Undelivered(s, i, locked)
           m == [event |-> queue[s][i].event, deliveries |-> queue[s][i].deliveries + 1, locked |-> locked]
<1>1. queue[s][i] \in Message
  BY ElementOfSeq, LenProperties
<1>2. queue[s][i] = [event |-> queue[s][i].event, deliveries |-> queue[s][i].deliveries,
                     locked |-> queue[s][i].locked]
  BY <1>1 DEF Message
<1>3. \A k \in DOMAIN queue[s] \ {i} : r[k] = queue[s][k]
  BY DEF Undelivered
<1>4. r = [k \in DOMAIN queue[s] |-> r[k]]
  BY DEF Undelivered
<1>5. r[i] = m
  BY <1>2 DEF Undelivered
<1>6. m \in Message /\ m.event = queue[s][i].event /\ m.locked = locked
  BY <1>1 DEF Message
<1> HIDE DEF r, m
<1>7. r \in Seq(Message) /\ Marked(queue[s], r, i)
  BY <1>3, <1>4, <1>5, <1>6, MarkedQueue
<1>8. r[i].locked = locked
  BY <1>5, <1>6
<1> QED
  BY <1>7, <1>8 DEF r

LEMMA UnlockedIsMarked ==
  ASSUME NEW s \in Services, queue[s] \in Seq(Message), NEW i \in DOMAIN queue[s]
  PROVE  /\ [queue[s] EXCEPT ![i].locked = FALSE] \in Seq(Message)
         /\ Marked(queue[s], [queue[s] EXCEPT ![i].locked = FALSE], i)
         /\ ~[queue[s] EXCEPT ![i].locked = FALSE][i].locked
<1> DEFINE r == [queue[s] EXCEPT ![i].locked = FALSE]
           m == [queue[s][i] EXCEPT !.locked = FALSE]
<1>1. queue[s][i] \in Message
  BY ElementOfSeq, LenProperties
<1>3. \A k \in DOMAIN queue[s] \ {i} : r[k] = queue[s][k]
  OBVIOUS
<1>4. r = [k \in DOMAIN queue[s] |-> r[k]]
  OBVIOUS
<1>5. r[i] = m
  OBVIOUS
<1>6. m \in Message /\ m.event = queue[s][i].event /\ ~m.locked
  BY <1>1 DEF Message
<1> HIDE DEF r, m
<1>7. r \in Seq(Message) /\ Marked(queue[s], r, i)
  BY <1>3, <1>4, <1>5, <1>6, MarkedQueue
<1>8. ~r[i].locked
  BY <1>5, <1>6
<1> QED
  BY <1>7, <1>8 DEF r

LEMMA SubscriptionSteps ==
  ASSUME QueueOK, NEW s \in Services, SubscriptionStep(s)
  PROVE  \E i \in DOMAIN queue[s] : QueueStep(s, i)
<1>1. queue \in [Services -> Seq(Message)] /\ queue[s] \in Seq(Message)
  BY DEF QueueOK
<1>4. ASSUME NEW i \in DOMAIN queue[s]
      PROVE  RemoveAt(queue[s], i) \in Seq(Message) /\ Dropped(queue[s], RemoveAt(queue[s], i), i)
  BY <1>1, <1>4, RemoveAtDrops DEF Marked
<1>5. ASSUME NEW q \in Seq(Message), queue' = [queue EXCEPT ![s] = q]
      PROVE  /\ queue' \in [Services -> Seq(Message)] /\ queue'[s] = q
             /\ \A t \in Services \ {s} : queue'[t] = queue[t]
  BY <1>1, <1>5
(* Return, for a message that was marked. *)
<1>6. ASSUME NEW i \in DOMAIN queue[s], NEW q \in Seq(Message), Marked(queue[s], q, i), ~q[i].locked,
             Return(s, i, q), UNCHANGED <<dbVars, rowVars, expired, interrupted>>,
             faults' \in {faults, faults + 1}, faults' # faults => faults < MaxFaults
      PROVE  QueueStep(s, i)
  <2>1. CASE q[i].deliveries >= MaxDeliveryCount
    <3>1. /\ queue' = [queue EXCEPT ![s] = RemoveAt(q, i)]
          /\ deadLetters' = [deadLetters EXCEPT ![s] = @ \cup {queue[s][i].event}]
      BY <2>1, <1>6 DEF Return, Marked
    <3>2. RemoveAt(q, i) \in Seq(Message) /\ Dropped(queue[s], RemoveAt(q, i), i)
      BY <1>1, <1>6, RemoveAtDrops
    <3> QED
      BY <3>1, <3>2, <1>5, <1>6 DEF QueueStep
  <2>2. CASE ~(q[i].deliveries >= MaxDeliveryCount)
    <3>1. queue' = [queue EXCEPT ![s] = q] /\ UNCHANGED deadLetters
      BY <2>2, <1>6 DEF Return
    <3> QED
      BY <3>1, <1>5, <1>6 DEF QueueStep
  <2> QED
    BY <2>1, <2>2
<1>7. CASE Deliver(s)
  <2>1. PICK i \in DOMAIN queue[s] : /\ Receives(s, i)
                                     /\ Consume(s, queue[s][i].event)
                                     /\ queue' = [queue EXCEPT ![s] = RemoveAt(@, i)]
                                     /\ UNCHANGED <<rowVars, deadLetters, expired, interrupted, faults>>
    BY <1>7 DEF Deliver
  <2> QED
    BY <2>1, <1>1, <1>4, <1>5 DEF QueueStep
<1>8. CASE StopAfterCommit(s)
  <2>1. PICK i \in DOMAIN queue[s] : /\ Receives(s, i) /\ Fault
                                     /\ Consume(s, queue[s][i].event)
                                     /\ queue' = [queue EXCEPT ![s] = Undelivered(s, i, TRUE)]
                                     /\ UNCHANGED <<rowVars, deadLetters, expired, interrupted>>
    BY <1>8 DEF StopAfterCommit
  <2> QED
    BY <2>1, <1>1, UndeliveredIsMarked, <1>5 DEF QueueStep, Fault
<1>9. CASE StopBeforeCommit(s)
  <2>1. PICK i \in DOMAIN queue[s] : /\ Receives(s, i)
                                     /\ queue' = [queue EXCEPT ![s] = Undelivered(s, i, TRUE)]
                                     /\ interrupted' = IF s = "order" THEN interrupted \cup {queue[s][i].event}
                                                                      ELSE interrupted
    BY <1>9 DEF StopBeforeCommit
  <2> QED
    BY <2>1, <1>1, UndeliveredIsMarked, <1>5, <1>9 DEF QueueStep, StopBeforeCommit, Fault
<1>10. CASE HandlerFails(s)
  <2>1. PICK i \in DOMAIN queue[s] : Return(s, i, Undelivered(s, i, FALSE))
    BY <1>10 DEF HandlerFails
  <2> QED
    BY <2>1, <1>1, UndeliveredIsMarked, <1>6, <1>10 DEF HandlerFails, Fault
<1>11. CASE LockExpires(s)
  <2>1. PICK i \in DOMAIN queue[s] : Return(s, i, [queue[s] EXCEPT ![i].locked = FALSE])
    BY <1>11 DEF LockExpires
  <2> QED
    BY <2>1, <1>1, UnlockedIsMarked, <1>6, <1>11 DEF LockExpires
<1>12. CASE Expire(s)
  <2>1. PICK i \in DOMAIN queue[s] : /\ queue' = [queue EXCEPT ![s] = RemoveAt(@, i)]
                                     /\ expired' = [expired EXCEPT ![s] = @ \cup {queue[s][i].event}]
    BY <1>12 DEF Expire, Visible
  <2> QED
    BY <2>1, <1>1, <1>4, <1>5, <1>12 DEF QueueStep, Expire, Fault
<1> QED
  BY <1>7, <1>8, <1>9, <1>10, <1>11, <1>12 DEF SubscriptionStep
-----------------------------------------------------------------------------
(* What a transaction leaves: no row of an outbox or inbox is ever deleted. *)
LEMMA OutboxGrows ==
  /\ \A o \in Orders : SubmitOrder(o) => outbox \subseteq outbox'
  /\ \A s \in Services, e \in Event : Consume(s, e) => outbox \subseteq outbox'
<1>1. ASSUME NEW s \in Services, NEW e \in Event, Handle(s, e) PROVE outbox \subseteq outbox'
  BY <1>1 DEF Handle, OnPaymentAuthorized, Confirm, RequestPaymentCompensation, Reject,
     Authorize,
     Refund, Reserve, Enqueue, Ignored
<1> QED
  BY <1>1 DEF SubmitOrder, Enqueue, Consume, dbVars

LEMMA ConsumeRecords ==
  ASSUME DbTypeOK, NEW s \in Services, NEW e, Consume(s, e)
  PROVE  \A t \in Services : inbox'[t] = IF t = s THEN inbox[t] \cup {e} ELSE inbox[t]
BY DEF Consume, DbTypeOK, dbVars

LEMMA SendAppends ==
  ASSUME QueueOK, NEW e \in Event, Send(e)
  PROVE  /\ queue' \in [Services -> Seq(Message)]
         /\ \A s \in Services : e.type \notin CanHandle[s] => queue'[s] = queue[s]
         /\ \A s \in Services : e.type \in CanHandle[s] =>
                /\ DOMAIN queue'[s] = 1 .. Len(queue[s]) + 1
                /\ \A k \in DOMAIN queue[s] : queue'[s][k] = queue[s][k]
                /\ queue'[s][Len(queue[s]) + 1] = Fresh(e)
<1>1. Fresh(e) \in Message
  BY DEF Fresh, Message
<1>2. ASSUME NEW s \in Services
      PROVE  /\ queue[s] \in Seq(Message) /\ Append(queue[s], Fresh(e)) \in Seq(Message)
             /\ queue'[s] = IF e.type \in CanHandle[s] THEN Append(queue[s], Fresh(e)) ELSE queue[s]
  BY <1>1, <1>2, AppendProperties DEF QueueOK, Send
<1>3. queue' \in [Services -> Seq(Message)]
  BY <1>1, <1>2 DEF Send
<1>4. ASSUME NEW s \in Services, e.type \in CanHandle[s]
      PROVE  /\ DOMAIN queue'[s] = 1 .. Len(queue[s]) + 1
             /\ \A k \in DOMAIN queue[s] : queue'[s][k] = queue[s][k]
             /\ queue'[s][Len(queue[s]) + 1] = Fresh(e)
  <2>1. queue'[s] = Append(queue[s], Fresh(e)) /\ queue'[s] \in Seq(Message) /\ queue[s] \in Seq(Message)
    BY <1>2, <1>4
  <2>2. DOMAIN queue[s] = 1 .. Len(queue[s]) /\ DOMAIN queue'[s] = 1 .. Len(queue'[s])
    BY <2>1, LenProperties
  <2> QED
    BY <2>1, <2>2, <1>1, AppendProperties
<1> QED
  BY <1>2, <1>3, <1>4

(***************************************************************************)
(* Message i is dealt with: every message of the subscriptions afterwards  *)
(* was there before, in the same order and for the same event, and only    *)
(* message i may be gone.                                                  *)
(***************************************************************************)
LEMMA KeptMessages ==
  ASSUME QueueOK, NEW s \in Services, NEW i \in DOMAIN queue[s], QueueStep(s, i),
         NEW t \in Services, NEW k \in DOMAIN queue'[t]
  PROVE  \E j \in DOMAIN queue[t] : queue'[t][k].event = queue[t][j].event
<1>1. queue[t] \in Seq(Message)
  BY DEF QueueOK
<1>2. CASE t # s
  BY <1>2 DEF QueueStep
<1>3. CASE t = s /\ Marked(queue[s], queue'[s], i)
  BY <1>3 DEF Marked
<1>4. CASE t = s /\ Dropped(queue[s], queue'[s], i)
  BY <1>1, <1>4, DroppedIndices
<1> QED
  BY <1>2, <1>3, <1>4 DEF QueueStep

LEMMA NextKeepsQueue == QueueOK /\ [Next]_vars => QueueOK'
<1> SUFFICES ASSUME QueueOK, [Next]_vars PROVE QueueOK'
  OBVIOUS
<1>1. CASE UNCHANGED vars
  BY <1>1 DEF vars, dbVars, queueVars, QueueOK
<1>2. ASSUME NEW o \in Orders, Submit(o) PROVE QueueOK'
  BY <1>2, OutboxGrows DEF Submit, queueVars, QueueOK
<1>3. ASSUME NEW e \in Event, e \in outbox, Send(e) PROVE QueueOK'
  <2>1. outbox' = outbox
    BY <1>3 DEF Send, dbVars
  <2>2. ASSUME NEW s \in Services, NEW k \in DOMAIN queue'[s]
        PROVE  queue'[s][k].event \in outbox /\ queue'[s][k].event.type \in CanHandle[s]
    <3>1. CASE e.type \notin CanHandle[s]
      BY <3>1, <2>2, <1>3, SendAppends DEF QueueOK
    <3>2. CASE e.type \in CanHandle[s]
      <4>1. DOMAIN queue[s] = 1 .. Len(queue[s]) /\ Len(queue[s]) \in Nat
        BY LenProperties DEF QueueOK
      <4>2. k \in DOMAIN queue[s] \/ k = Len(queue[s]) + 1
        BY <4>1, <3>2, <2>2, <1>3, SendAppends
      <4>3. CASE k \in DOMAIN queue[s]
        BY <4>3, <3>2, <1>3, SendAppends DEF QueueOK
      <4>4. CASE k = Len(queue[s]) + 1
        <5>1. queue'[s][k] = Fresh(e)
          BY <4>4, <3>2, <1>3, SendAppends
        <5> QED
          BY <5>1, <3>2, <1>3 DEF Fresh
      <4> QED
        BY <4>2, <4>3, <4>4
    <3> QED
      BY <3>1, <3>2
  <2> QED
    BY <2>1, <2>2, <1>3, SendAppends DEF QueueOK
<1>4. ASSUME NEW e \in Event, PublishFails(e) PROVE QueueOK'
  BY <1>4 DEF PublishFails, dbVars, queueVars, QueueOK
<1>5. ASSUME NEW s \in Services, SubscriptionStep(s) PROVE QueueOK'
  <2>1. PICK i \in DOMAIN queue[s] : QueueStep(s, i)
    BY <1>5, SubscriptionSteps
  <2>2. queue[s][i].event \in Event
    BY QueuedEvents
  <2>3. outbox \subseteq outbox'
    BY <2>1, <2>2, OutboxGrows DEF QueueStep, dbVars
  <2>4. queue' \in [Services -> Seq(Message)]
    BY <2>1 DEF QueueStep
  <2> QED
    BY <2>1, <2>3, <2>4, KeptMessages DEF QueueOK
<1>6. QED
  BY <1>1, <1>2, <1>3, <1>4, <1>5 DEF Next, Publish, PublishUnsaved, Pending, SubscriptionStep

THEOREM QueuesHoldRaisedEvents == Spec => []QueueOK
<1>1. Init => QueueOK
  <2>1. <<>> \in Seq(Message) /\ DOMAIN <<>> = {}
    BY EmptySeq
  <2> QED
    BY <2>1 DEF Init, QueueOK
<1> QED
  BY <1>1, NextKeepsQueue, PTL DEF Spec
-----------------------------------------------------------------------------
(* The databases change as CheckoutSaga says: an order is submitted, or a *)
(* service consumes an event that was raised and that it handles.         *)
DbStep ==
    \/ \E o \in Orders : SubmitOrder(o)
    \/ \E s \in Services, e \in Event : e \in outbox /\ e.type \in CanHandle[s] /\ Consume(s, e)

LEMMA NextIsDbStep ==
  ASSUME QueueOK, [Next]_vars
  PROVE  DbStep \/ UNCHANGED dbVars
<1>1. CASE UNCHANGED vars
  BY <1>1 DEF vars
<1>2. ASSUME NEW o \in Orders, Submit(o) PROVE DbStep
  BY <1>2 DEF Submit, DbStep
<1>3. ASSUME NEW e \in Event, Publish(e) \/ PublishUnsaved(e) \/ PublishFails(e) PROVE UNCHANGED dbVars
  BY <1>3 DEF Publish, PublishUnsaved, PublishFails, Send
<1>4. ASSUME NEW s \in Services, SubscriptionStep(s) PROVE DbStep \/ UNCHANGED dbVars
  <2>1. PICK i \in DOMAIN queue[s] : QueueStep(s, i)
    BY <1>4, SubscriptionSteps
  <2>2. UNCHANGED dbVars \/ Consume(s, queue[s][i].event)
    BY <2>1 DEF QueueStep
  <2> QED
    BY <2>2, QueuedEvents DEF DbStep
<1> QED
  BY <1>1, <1>2, <1>3, <1>4 DEF Next, SubscriptionStep

LEMMA DbStepOfSaga == DbStep <=> Saga!Next
<1>1. \A o \in Orders : SubmitOrder(o) <=> Saga!SubmitOrder(o)
  BY DEF SubmitOrder, Enqueue, EventOf, paymentVars, inventoryVars, Saga!SubmitOrder,
     Saga!Enqueue,
     Saga!EventOf, Saga!paymentVars, Saga!inventoryVars
<1>2. ASSUME NEW s, NEW e PROVE Handle(s, e) <=> Saga!Handle(s, e)
  BY DEF Handle, OnPaymentAuthorized, Confirm, RequestPaymentCompensation, Reject,
     Authorize, Refund,
     Reserve, Shortage, Enqueue, EventOf, Ignored, orderVars, paymentVars, inventoryVars,
     Saga!Handle, Saga!OnPaymentAuthorized, Saga!Confirm, Saga!RequestPaymentCompensation, Saga!Reject,
     Saga!Authorize, Saga!Refund, Saga!Reserve, Saga!Shortage, Saga!Enqueue, Saga!EventOf, Saga!Ignored,
     Saga!orderVars, Saga!paymentVars, Saga!inventoryVars
<1>3. \A s, e : Consume(s, e) <=> Saga!Consume(s, e)
  BY <1>2 DEF Consume, Saga!Consume, dbVars, Saga!dbVars
<1>4. Saga!Services = Services /\ Saga!Event = Event /\ Saga!CanHandle = CanHandle
  BY DEF Services, Event, EventTypes, CanHandle, Saga!Services, Saga!Event,
     Saga!EventTypes, Saga!CanHandle
<1> QED
  BY <1>1, <1>3, <1>4 DEF DbStep, Saga!Next, Saga!Deliver

LEMMA DbInitOfSaga == Init => Saga!Init
BY DEF Init, DbInit, NoLines, Services, Saga!Init, Saga!DbInit, Saga!NoLines, Saga!Services

(***************************************************************************)
(* Whatever the transport does - rows sent twice, deliveries repeated, out *)
(* of order or given up, services stopped at any point - the databases     *)
(* change only as CheckoutSaga allows.                                     *)
(***************************************************************************)
THEOREM DeliveryImplementsSaga == Spec => ImplementsSaga
<1>1. QueueOK /\ [Next]_vars => [Saga!Next]_Saga!dbVars
  <2> SUFFICES ASSUME QueueOK, [Next]_vars PROVE [Saga!Next]_Saga!dbVars
    OBVIOUS
  <2>1. Saga!Next \/ UNCHANGED dbVars
    BY NextIsDbStep, DbStepOfSaga
  <2> QED
    BY <2>1 DEF dbVars, Saga!dbVars
<1> QED
  BY <1>1, DbInitOfSaga, QueuesHoldRaisedEvents, PTL DEF Spec, ImplementsSaga, Saga!Spec
-----------------------------------------------------------------------------
(* What is proved of the saga holds here; in the words of this module: *)
LEMMA SpecOfSaga == Spec => SagaProofs!Spec
<1>1. DbStep <=> SagaProofs!Next
  <2>1. \A o \in Orders : SubmitOrder(o) <=> SagaProofs!SubmitOrder(o)
    BY DEF SubmitOrder, Enqueue, EventOf, paymentVars, inventoryVars, SagaProofs!SubmitOrder,
       SagaProofs!Enqueue, SagaProofs!EventOf, SagaProofs!paymentVars, SagaProofs!inventoryVars
  <2>2. ASSUME NEW s, NEW e PROVE Handle(s, e) <=> SagaProofs!Handle(s, e)
    BY DEF Handle, OnPaymentAuthorized, Confirm, RequestPaymentCompensation, Reject,
       Authorize, Refund,
       Reserve, Shortage, Enqueue, EventOf, Ignored, orderVars, paymentVars, inventoryVars,
       SagaProofs!Handle, SagaProofs!OnPaymentAuthorized, SagaProofs!Confirm,
       SagaProofs!RequestPaymentCompensation, SagaProofs!Reject, SagaProofs!Authorize, SagaProofs!Refund,
       SagaProofs!Reserve, SagaProofs!Shortage, SagaProofs!Enqueue, SagaProofs!EventOf,
       SagaProofs!Ignored, SagaProofs!orderVars, SagaProofs!paymentVars, SagaProofs!inventoryVars
  <2>3. \A s, e : Consume(s, e) <=> SagaProofs!Consume(s, e)
    BY <2>2 DEF Consume, SagaProofs!Consume, dbVars, SagaProofs!dbVars
  <2>4. SagaProofs!Services = Services /\ SagaProofs!Event = Event /\ SagaProofs!CanHandle = CanHandle
    BY DEF Services, Event, EventTypes, CanHandle, SagaProofs!Services, SagaProofs!Event,
           SagaProofs!EventTypes, SagaProofs!CanHandle
  <2> QED
    BY <2>1, <2>3, <2>4 DEF DbStep, SagaProofs!Next, SagaProofs!Deliver
<1>2. Init => SagaProofs!Init
  BY DEF Init, DbInit, NoLines, Services, SagaProofs!Init, SagaProofs!DbInit,
     SagaProofs!NoLines,
         SagaProofs!Services
<1>3. QueueOK /\ [Next]_vars => [SagaProofs!Next]_SagaProofs!dbVars
  <2> SUFFICES ASSUME QueueOK, [Next]_vars PROVE [SagaProofs!Next]_SagaProofs!dbVars
    OBVIOUS
  <2>1. SagaProofs!Next \/ UNCHANGED dbVars
    BY NextIsDbStep, <1>1
  <2> QED
    BY <2>1 DEF dbVars, SagaProofs!dbVars
<1> QED
  BY <1>2, <1>3, QueuesHoldRaisedEvents, PTL DEF Spec, SagaProofs!Spec

(* The answer of Inventory and the authorization it follows from. *)
Authorized(o) == EventOf("PaymentAuthorized", o)
Reserved(o)   == EventOf("InventoryReserved", o)
Refused(o)    == EventOf("InventoryRejected", o)

CausesAt(o) ==
    /\ Authorized(o) \in outbox => status[o] # "NotSubmitted"
    /\ Reserved(o) \in outbox =>
           status[o] \notin {"CompensatingPayment", "Rejected"} /\ reservation[o] # "None"
    /\ Refused(o) \in outbox => status[o] # "Confirmed" /\ reservation[o] # "None"

LEMMA SagaInvariants == Spec => [](DbTypeOK /\ \A o \in Orders : CausesAt(o))
<1>1. SagaProofs!TypeOK => DbTypeOK
  BY DEF DbTypeOK, Event, EventTypes, Services, OrderStatus, PaymentStatus, ReservationStatus,
         MaxLineQuantity, SagaProofs!TypeOK, SagaProofs!DbTypeOK, SagaProofs!Event,
         SagaProofs!EventTypes, SagaProofs!Services, SagaProofs!OrderStatus, SagaProofs!PaymentStatus,
         SagaProofs!ReservationStatus, SagaProofs!MaxLineQuantity
<1>2. DbTypeOK /\ SagaProofs!RecordsHaveCauses => \A o \in Orders : CausesAt(o)
  <2> SUFFICES ASSUME DbTypeOK, SagaProofs!RecordsHaveCauses, NEW o \in Orders PROVE CausesAt(o)
    OBVIOUS
  <2>1. \A t : SagaProofs!Raised(t, o) <=> EventOf(t, o) \in outbox
    BY DEF SagaProofs!Raised, SagaProofs!EventOf, EventOf
  <2>2. SagaProofs!EventsMatchRecords(o) /\ SagaProofs!RecordsMatchEachOther(o)
    BY DEF SagaProofs!RecordsHaveCauses
  <2> QED
    BY <2>1, <2>2 DEF CausesAt, Authorized, Reserved, Refused, SagaProofs!EventsMatchRecords,
       SagaProofs!RecordsMatchEachOther
<1> QED
  BY <1>1, <1>2, SpecOfSaga, SagaAssumption, SagaProofs!TypeCorrect, SagaProofs!CausesHold, PTL

(***************************************************************************)
(* The three services agree on every outcome, whatever the broker and the  *)
(* publishers do.                                                          *)
(***************************************************************************)
THEOREM OutcomesAgreeInDelivery == Spec => []SagaProofs!OutcomeAgrees
BY SpecOfSaga, SagaAssumption, SagaProofs!OutcomesAgree, PTL

(* No piece of stock is made or lost, however often an event is delivered. *)
THEOREM PiecesAreConservedInDelivery == Spec => []SagaProofs!StockConserved
BY SpecOfSaga, SagaAssumption, SagaProofs!PiecesAreConserved, PTL
-----------------------------------------------------------------------------
(* The rows of the outbox tables and what the subscriptions gave up. *)
RowsOK ==
    /\ processed \subseteq outbox /\ deadRows \subseteq outbox
    /\ attempts \in [Event -> 0..DeadLetterAttemptLimit]
    /\ \A e \in Event : e \notin deadRows => attempts[e] < DeadLetterAttemptLimit
    /\ deadLetters \in [Services -> SUBSET Event]
    /\ expired \in [Services -> SUBSET Event]
    /\ interrupted \subseteq Event
    /\ faults \in 0..MaxFaults

LEMMA NextKeepsRows == QueueOK /\ RowsOK /\ [Next]_vars => RowsOK'
<1> SUFFICES ASSUME QueueOK, RowsOK, [Next]_vars PROVE RowsOK'
  OBVIOUS
<1> USE DeliveryAssumption
<1>1. CASE UNCHANGED vars
  BY <1>1 DEF vars, dbVars, rowVars, queueVars, RowsOK
<1>2. ASSUME NEW o \in Orders, Submit(o) PROVE RowsOK'
  BY <1>2, OutboxGrows DEF Submit, rowVars, queueVars, RowsOK
<1>3. ASSUME NEW e \in Event, Publish(e) \/ PublishUnsaved(e) PROVE RowsOK'
  BY <1>3 DEF Publish, PublishUnsaved, Send, Pending, Fault, dbVars, RowsOK
<1>4. ASSUME NEW e \in Event, PublishFails(e) PROVE RowsOK'
  <2>1. e \in outbox /\ e \notin deadRows /\ attempts[e] \in Nat /\ attempts[e] < DeadLetterAttemptLimit
    BY <1>4 DEF PublishFails, Pending, RowsOK
  <2>2. attempts' \in [Event -> 0..DeadLetterAttemptLimit]
    BY <2>1, <1>4 DEF PublishFails, RowsOK
  <2>3. ASSUME NEW x \in Event, x \notin deadRows' PROVE attempts'[x] < DeadLetterAttemptLimit
    <3>1. attempts'[x] = IF x = e THEN attempts[e] + 1 ELSE attempts[x]
      BY <1>4 DEF PublishFails, RowsOK
    <3>2. x \notin deadRows /\ (x = e => ~(attempts[e] + 1 >= DeadLetterAttemptLimit))
      BY <2>3, <1>4 DEF PublishFails
    <3> QED
      BY <2>1, <3>1, <3>2 DEF RowsOK
  <2>4. deadRows' \subseteq outbox
    BY <2>1, <1>4 DEF PublishFails, RowsOK
  <2> QED
    BY <2>2, <2>3, <2>4, <1>4 DEF PublishFails, Fault, dbVars, queueVars, RowsOK
<1>5. ASSUME NEW s \in Services, SubscriptionStep(s) PROVE RowsOK'
  <2>1. PICK i \in DOMAIN queue[s] : QueueStep(s, i)
    BY <1>5, SubscriptionSteps
  <2>2. queue[s][i].event \in Event
    BY QueuedEvents
  <2>3. outbox \subseteq outbox'
    BY <2>1, <2>2, OutboxGrows DEF QueueStep, dbVars
  <2>4. deadLetters' \in [Services -> SUBSET Event] /\ expired' \in [Services -> SUBSET Event]
    <3>1. /\ deadLetters' \in {deadLetters, [deadLetters EXCEPT ![s] = @ \cup {queue[s][i].event}]}
          /\ expired' \in {expired, [expired EXCEPT ![s] = @ \cup {queue[s][i].event}]}
      BY <2>1 DEF QueueStep
    <3>2. deadLetters \in [Services -> SUBSET Event] /\ expired \in [Services -> SUBSET Event]
      BY DEF RowsOK
    <3> QED
      BY <3>1, <3>2, <2>2
  <2>5. faults' \in 0..MaxFaults /\ interrupted' \subseteq Event
    BY <2>1, <2>2 DEF QueueStep, RowsOK
  <2> QED
    BY <2>1, <2>3, <2>4, <2>5 DEF QueueStep, rowVars, RowsOK
<1> QED
  BY <1>1, <1>2, <1>3, <1>4, <1>5 DEF Next, SubscriptionStep

LEMMA RowsCorrect == Spec => []RowsOK
<1>1. Init => RowsOK
  BY DeliveryAssumption DEF Init, RowsOK
<1> QED
  BY <1>1, NextKeepsRows, QueuesHoldRaisedEvents, PTL DEF Spec

(***************************************************************************)
(* Every value stays in its type: no row is tried after it was dead-       *)
(* lettered, and rows are marked only once they were written.              *)
(***************************************************************************)
THEOREM DeliveryTypeCorrect == Spec => []TypeOK
<1>1. QueueOK /\ RowsOK /\ DbTypeOK => TypeOK
  BY DEF QueueOK, RowsOK, TypeOK
<1> QED
  BY <1>1, QueuesHoldRaisedEvents, RowsCorrect, SagaInvariants, PTL
-----------------------------------------------------------------------------
InQueue(s, e) == \E i \in DOMAIN queue[s] : queue[s][i].event = e

(* A step of a subscription settles an event for good, and takes no event *)
(* out of a subscription without settling it.                             *)
LEMMA SettledStays ==
  ASSUME QueueOK, RowsOK, DbTypeOK, NEW s \in Services, NEW i \in DOMAIN queue[s], QueueStep(s, i),
         NEW t \in Services, NEW e \in Event
  PROVE  /\ Settled(t, e) => Settled(t, e)'
         /\ inbox[t] \subseteq inbox'[t]
         /\ t = s /\ e = queue[s][i].event /\ Dropped(queue[s], queue'[s], i)
                => Settled(t, e)'
<1>1. UNCHANGED inbox \/ Consume(s, queue[s][i].event)
  BY DEF QueueStep, dbVars
<1>2. inbox[t] \subseteq inbox'[t]
  BY <1>1, ConsumeRecords
<1>3. deadLetters[t] \subseteq deadLetters'[t] /\ expired[t] \subseteq expired'[t]
  BY DEF QueueStep, RowsOK
<1>4. ASSUME t = s, e = queue[s][i].event, Dropped(queue[s], queue'[s], i)
      PROVE  Settled(t, e)'
  <2>1. CASE Consume(s, queue[s][i].event)
    <3>1. inbox'[s] = inbox[s] \cup {queue[s][i].event}
      BY <2>1, ConsumeRecords
    <3> QED
      BY <3>1, <1>4 DEF Settled
  <2>2. CASE deadLetters' = [deadLetters EXCEPT ![s] = @ \cup {queue[s][i].event}]
    BY <2>2, <1>4 DEF Settled, RowsOK
  <2>3. CASE expired' = [expired EXCEPT ![s] = @ \cup {queue[s][i].event}]
    BY <2>3, <1>4 DEF Settled, RowsOK
  <2>4. ~Marked(queue[s], queue'[s], i)
    BY <1>4, DroppedIsNotMarked DEF QueueOK
  <2> QED
    BY <2>1, <2>2, <2>3, <2>4 DEF QueueStep
<1> QED
  BY <1>2, <1>3, <1>4 DEF Settled

LEMMA QueuedStays ==
  ASSUME QueueOK, RowsOK, DbTypeOK, NEW s \in Services, NEW i \in DOMAIN queue[s], QueueStep(s, i),
         NEW t \in Services, NEW e \in Event, InQueue(t, e)
  PROVE  InQueue(t, e)' \/ Settled(t, e)'
<1>1. PICK j \in DOMAIN queue[t] : queue[t][j].event = e
  BY DEF InQueue
<1>2. CASE t # s
  BY <1>1, <1>2 DEF QueueStep, InQueue
<1>3. CASE t = s /\ Marked(queue[s], queue'[s], i)
  BY <1>1, <1>3 DEF Marked, InQueue
<1>4. CASE t = s /\ Dropped(queue[s], queue'[s], i)
  <2>1. CASE j = i
    BY <2>1, <1>1, <1>4, SettledStays
  <2>2. CASE j # i
    BY <2>2, <1>1, <1>4, DroppedIndices DEF QueueOK, InQueue
  <2> QED
    BY <2>1, <2>2
<1> QED
  BY <1>2, <1>3, <1>4 DEF QueueStep

LEMMA SentIsQueued ==
  ASSUME QueueOK, NEW e \in Event, Send(e), NEW s \in Services, NEW x
  PROVE  /\ InQueue(s, x)' <=> InQueue(s, x) \/ (x = e /\ e.type \in CanHandle[s])
         /\ Settled(s, x)' <=> Settled(s, x)
<1>1. Settled(s, x)' <=> Settled(s, x)
  BY DEF Send, dbVars, Settled
<1>2. CASE e.type \notin CanHandle[s]
  BY <1>1, <1>2, SendAppends DEF InQueue
<1>3. CASE e.type \in CanHandle[s]
  <2>1. DOMAIN queue[s] = 1 .. Len(queue[s]) /\ Len(queue[s]) \in Nat
    BY LenProperties DEF QueueOK
  <2>2. /\ DOMAIN queue'[s] = DOMAIN queue[s] \cup {Len(queue[s]) + 1}
        /\ \A k \in DOMAIN queue[s] : queue'[s][k] = queue[s][k]
        /\ queue'[s][Len(queue[s]) + 1] = Fresh(e)
    <3>1. 1 .. Len(queue[s]) + 1 = 1 .. Len(queue[s]) \cup {Len(queue[s]) + 1}
      BY <2>1
    <3> QED
      BY <1>3, <2>1, <3>1, SendAppends
  <2>3. Fresh(e).event = e
    BY DEF Fresh
  <2>4. InQueue(s, x) => InQueue(s, x)'
    BY <2>2 DEF InQueue
  <2>5. x = e => InQueue(s, x)'
    BY <2>2, <2>3 DEF InQueue
  <2>6. InQueue(s, x)' => InQueue(s, x) \/ x = e
    BY <2>2, <2>3 DEF InQueue
  <2> QED
    BY <1>1, <1>3, <2>4, <2>5, <2>6
<1> QED
  BY <1>2, <1>3

(* Whether a committed event still has somewhere to go, or has been there. *)
AccountedFor(e) ==
    \/ e \in Pending \cup deadRows
    \/ \A s \in Services : e.type \in CanHandle[s] => Settled(s, e) \/ InQueue(s, e)

LEMMA NextKeepsAccounts ==
  ASSUME QueueOK, RowsOK, DbTypeOK, \A e \in outbox : AccountedFor(e), [Next]_vars
  PROVE  \A e \in outbox' : AccountedFor(e)'
<1> TAKE x \in outbox'
<1>0. processed \subseteq outbox /\ outbox \subseteq Event
  BY DEF RowsOK, DbTypeOK
(* An event that was just written is not processed. *)
<1>1. ASSUME x \notin outbox, UNCHANGED rowVars PROVE AccountedFor(x)'
  BY <1>0, <1>1 DEF rowVars, AccountedFor, Pending
<1>2. CASE UNCHANGED vars
  BY <1>2 DEF vars, dbVars, rowVars, queueVars, AccountedFor, Pending, Settled, InQueue
<1>3. ASSUME NEW o \in Orders, Submit(o) PROVE AccountedFor(x)'
  <2>1. CASE x \in outbox
    BY <2>1, <1>3 DEF Submit, SubmitOrder, rowVars, queueVars, AccountedFor, Pending,
       Settled, InQueue
  <2> QED
    BY <2>1, <1>1, <1>3 DEF Submit
<1>4. ASSUME NEW e \in Event, Publish(e) \/ PublishUnsaved(e) PROVE AccountedFor(x)'
  <2>1. Send(e) /\ x \in outbox /\ deadRows' = deadRows /\ processed' \in {processed, processed \cup {e}}
        /\ outbox' = outbox
    BY <1>4 DEF Publish, PublishUnsaved, Send, dbVars
  <2>2. CASE x = e
    BY <2>1, <2>2, SentIsQueued DEF AccountedFor
  <2>3. CASE x # e
    BY <2>1, <2>3, SentIsQueued DEF AccountedFor, Pending
  <2> QED
    BY <2>2, <2>3
<1>5. ASSUME NEW e \in Event, PublishFails(e) PROVE AccountedFor(x)'
  BY <1>5 DEF PublishFails, dbVars, queueVars, AccountedFor, Pending, Settled, InQueue
<1>6. ASSUME NEW s \in Services, SubscriptionStep(s) PROVE AccountedFor(x)'
  <2>1. PICK i \in DOMAIN queue[s] : QueueStep(s, i)
    BY <1>6, SubscriptionSteps
  <2>2. UNCHANGED rowVars
    BY <2>1 DEF QueueStep
  <2>3. CASE x \notin outbox
    BY <2>2, <2>3, <1>1
  <2>4. CASE x \in outbox /\ x \in Pending \cup deadRows
    BY <2>2, <2>4 DEF rowVars, AccountedFor, Pending
  <2>5. CASE x \in outbox /\ x \notin Pending \cup deadRows
    <3>1. x \in Event /\ \A t \in Services : x.type \in CanHandle[t] => Settled(t, x) \/ InQueue(t, x)
      BY <2>5, <1>0 DEF AccountedFor
    <3>2. \A t \in Services : x.type \in CanHandle[t] => Settled(t, x)' \/ InQueue(t, x)'
      BY <3>1, <2>1, SettledStays, QueuedStays
    <3> QED
      BY <3>2 DEF AccountedFor
  <2> QED
    BY <2>3, <2>4, <2>5
<1> QED
  BY <1>2, <1>3, <1>4, <1>5, <1>6 DEF Next, SubscriptionStep

(***************************************************************************)
(* No committed event is lost between two tables: the publisher marks a    *)
(* row only after the topic has it, and a service completes a message only *)
(* after its inbox does.                                                   *)
(***************************************************************************)
THEOREM NoEventIsLost == Spec => []EventsAreAccountedFor
<1> DEFINE Accounts == \A e \in outbox : AccountedFor(e)
<1>1. Init => Accounts
  BY DEF Init, DbInit
<1>2. QueueOK /\ RowsOK /\ DbTypeOK /\ Accounts /\ [Next]_vars => Accounts'
  BY NextKeepsAccounts
<1>3. TypeOK /\ Accounts => EventsAreAccountedFor
  BY DEF EventsAreAccountedFor, AccountedFor, Settled, InQueue
<1> HIDE DEF Accounts
<1> QED
  BY <1>1, <1>2, <1>3, QueuesHoldRaisedEvents, RowsCorrect, SagaInvariants,
     DeliveryTypeCorrect, PTL DEF Spec
-----------------------------------------------------------------------------
(***************************************************************************)
(* Why Inventory's answer cannot be handled at Order before the            *)
(* authorization it follows from.  The topic copies the authorization to   *)
(* Order and to Inventory in one step; ...                                 *)
(***************************************************************************)
SentTogether(o) ==
    Settled("inventory", Authorized(o)) \/ InQueue("inventory", Authorized(o)) =>
        Settled("order", Authorized(o)) \/ InQueue("order", Authorized(o))

(* ... Inventory answers after it took its copy; ... *)
AnsweredAfter(o) == reservation[o] # "None" => Authorized(o) \in inbox["inventory"]

(* ... so at Order the answer is queued behind it, unless that was settled; ... *)
AnswersBehind(o) ==
    \A j \in DOMAIN queue["order"] : queue["order"][j].event \in {Reserved(o), Refused(o)} =>
        \/ Settled("order", Authorized(o))
        \/ \E k \in DOMAIN queue["order"] : k < j /\ queue["order"][k].event = Authorized(o)

(* ... a message the subscription passes over is locked, hence was handled, *)
(* if Order did not stop with it in hand before its commit; ...             *)
LockedHandled ==
    \A k \in DOMAIN queue["order"] :
        queue["order"][k].locked => queue["order"][k].event \in inbox["order"] \cup interrupted

(* ... and handling the authorization takes the order out of PendingPayment. *)
MovedOn(o) == Authorized(o) \in inbox["order"] => status[o] \notin {"NotSubmitted", "PendingPayment"}

ActedUpon(o) ==
    \/ Authorized(o) \in deadLetters["order"] \cup expired["order"] \cup interrupted
    \/ /\ Reserved(o) \in inbox["order"] => status[o] = "Confirmed"
       /\ Refused(o) \in inbox["order"] => status[o] \in {"CompensatingPayment", "Rejected"}

InTurn(o) == SentTogether(o) /\ AnsweredAfter(o) /\ AnswersBehind(o) /\ MovedOn(o) /\ ActedUpon(o)

AllInTurn == LockedHandled /\ \A o \in Orders : InTurn(o)

LEMMA EventNames ==
  ASSUME NEW o \in Orders
  PROVE  /\ Authorized(o) \in Event /\ Reserved(o) \in Event /\ Refused(o) \in Event
         /\ Authorized(o) # Reserved(o) /\ Authorized(o) # Refused(o) /\ Reserved(o) # Refused(o)
         /\ Authorized(o).type \in CanHandle["order"] /\ Authorized(o).type \in CanHandle["inventory"]
         /\ "order" \in Services /\ "inventory" \in Services
BY DEF Authorized, Reserved, Refused, EventOf, Event, EventTypes, CanHandle, Services

(* What a transaction does to one order, as far as the argument needs it. *)
LEMMA ConsumeEffects ==
  ASSUME DbTypeOK, NEW s \in Services, NEW e \in Event, Consume(s, e), NEW o \in Orders
  PROVE  /\ reservation'[o] # "None" => reservation[o] # "None" \/ (s = "inventory" /\ e = Authorized(o))
         /\ status[o] \notin {"NotSubmitted", "PendingPayment"} =>
                status'[o] \notin {"NotSubmitted", "PendingPayment"}
         /\ status[o] = "Confirmed" => status'[o] = "Confirmed"
         /\ status[o] \in {"CompensatingPayment", "Rejected"} =>
                status'[o] \in {"CompensatingPayment", "Rejected"}
         /\ s = "order" /\ e \notin inbox[s] /\ e = Authorized(o) /\ status[o] # "NotSubmitted" =>
                status'[o] \notin {"NotSubmitted", "PendingPayment"}
         /\ s = "order" /\ e \notin inbox[s] /\ e = Reserved(o) /\ status[o] = "PendingInventory" =>
                status'[o] = "Confirmed"
         /\ s = "order" /\ e \notin inbox[s] /\ e = Refused(o) /\ status[o] = "PendingInventory" =>
                status'[o] = "CompensatingPayment"
<1>1. CASE e \in inbox[s]
  BY <1>1 DEF Consume, dbVars
<1>2. CASE e \notin inbox[s]
  <2> DEFINE x == e.order
  <2>1. x \in Orders /\ e = EventOf(e.type, x)
    BY DEF Event, EventOf
  <2>2. Handle(s, e)
    BY <1>2 DEF Consume
  <2>3. /\ e = Authorized(o) => e.type = "PaymentAuthorized" /\ x = o
        /\ e = Reserved(o) => e.type = "InventoryReserved" /\ x = o
        /\ e = Refused(o) => e.type = "InventoryRejected" /\ x = o
        /\ e.type = "PaymentAuthorized" => e = Authorized(x)
    BY <2>1 DEF Authorized, Reserved, Refused, EventOf
  <2> HIDE DEF x
  <2> USE DEF DbTypeOK, OrderStatus, Ignored, orderVars, paymentVars, inventoryVars
  <2>4. CASE s = "order" /\ e.type = "PaymentAuthorized" /\ OnPaymentAuthorized(x)
    BY <2>1, <2>3, <2>4 DEF OnPaymentAuthorized
  <2>5. CASE s = "order" /\ e.type \in {"PaymentRejected", "PaymentRefunded"} /\ Reject(x)
    BY <2>1, <2>3, <2>5 DEF Reject
  <2>6. CASE s = "order" /\ e.type = "InventoryReserved" /\ Confirm(x)
    BY <2>1, <2>3, <2>6 DEF Confirm
  <2>7. CASE s = "order" /\ e.type = "InventoryRejected" /\ RequestPaymentCompensation(x)
    BY <2>1, <2>3, <2>7 DEF RequestPaymentCompensation
  <2>8. CASE s = "payment" /\ (Authorize(x) \/ Refund(x))
    BY <2>8 DEF Authorize, Refund
  <2>9. CASE s = "inventory" /\ e.type = "PaymentAuthorized" /\ Reserve(x)
    BY <2>1, <2>3, <2>9 DEF Reserve
  <2> QED
    BY <2>2, <2>4, <2>5, <2>6, <2>7, <2>8, <2>9 DEF Handle, x
<1> QED
  BY <1>1, <1>2

LEMMA SubmitKeepsTurns ==
  ASSUME DbTypeOK, AllInTurn, NEW o \in Orders, Submit(o)
  PROVE  AllInTurn'
<1>1. /\ UNCHANGED <<reservation, inbox, queue, deadLetters, expired, interrupted>>
      /\ status[o] = "NotSubmitted" /\ status' = [status EXCEPT ![o] = "PendingPayment"]
  BY DEF Submit, SubmitOrder, inventoryVars, queueVars
<1>2. \A x \in Orders : /\ status'[x] = IF x = o THEN "PendingPayment" ELSE status[x]
  BY <1>1 DEF DbTypeOK
<1> QED
  BY <1>1, <1>2 DEF AllInTurn, LockedHandled, InTurn, SentTogether, AnsweredAfter,
     AnswersBehind,
     MovedOn, ActedUpon, Settled, InQueue

LEMMA SendKeepsTurns ==
  ASSUME QueueOK, DbTypeOK, \A o \in Orders : CausesAt(o), AllInTurn, NEW e \in Event, e \in outbox, Send(e)
  PROVE  AllInTurn'
<1>1. UNCHANGED <<status, reservation, inbox, deadLetters, expired, interrupted>>
  BY DEF Send, dbVars
<1>2. "order" \in Services /\ "inventory" \in Services
  BY DEF Services
<1>3. /\ queue["order"] \in Seq(Message) /\ DOMAIN queue["order"] = 1 .. Len(queue["order"])
      /\ Len(queue["order"]) \in Nat
  BY <1>2, LenProperties DEF QueueOK
(* What is queued at Order is what was, and perhaps e behind it. *)
<1>4. ASSUME NEW k \in DOMAIN queue'["order"]
      PROVE  \/ k \in DOMAIN queue["order"] /\ queue'["order"][k] = queue["order"][k]
             \/ k = Len(queue["order"]) + 1 /\ queue'["order"][k] = Fresh(e)
  BY <1>2, <1>3, <1>4, SendAppends
<1>5. \A k \in DOMAIN queue["order"] :
          k \in DOMAIN queue'["order"] /\ queue'["order"][k] = queue["order"][k]
  <2>1. CASE e.type \notin CanHandle["order"]
    BY <2>1, <1>2, SendAppends
  <2>2. CASE e.type \in CanHandle["order"]
    BY <2>2, <1>2, <1>3, SendAppends
  <2> QED
    BY <2>1, <2>2
<1>6. Fresh(e).event = e /\ ~Fresh(e).locked
  BY DEF Fresh
<1>7. LockedHandled'
  BY <1>1, <1>4, <1>6 DEF AllInTurn, LockedHandled
<1>8. ASSUME NEW o \in Orders PROVE InTurn(o)'
  <2>0. InTurn(o) /\ CausesAt(o)
    BY DEF AllInTurn
  <2>1. SentTogether(o)'
    BY <2>0, <1>2, SentIsQueued, EventNames DEF InTurn, SentTogether
  <2>2. AnsweredAfter(o)' /\ MovedOn(o)' /\ ActedUpon(o)'
    BY <2>0, <1>1 DEF InTurn, AnsweredAfter, MovedOn, ActedUpon
  <2>3. ASSUME NEW j \in DOMAIN queue'["order"], queue'["order"][j].event \in {Reserved(o), Refused(o)},
               ~Settled("order", Authorized(o))'
        PROVE  \E k \in DOMAIN queue'["order"] : k < j /\ queue'["order"][k].event = Authorized(o)
    <3>1. ~Settled("order", Authorized(o))
      BY <2>3, <1>1 DEF Settled
    <3>2. CASE j \in DOMAIN queue["order"]
      <4>1. PICK k \in DOMAIN queue["order"] : k < j /\ queue["order"][k].event = Authorized(o)
        BY <3>1, <3>2, <2>0, <2>3, <1>5 DEF InTurn, AnswersBehind
      <4> QED
        BY <4>1, <1>5
    <3>3. CASE j = Len(queue["order"]) + 1 /\ queue'["order"][j] = Fresh(e)
      <4>1. e \in {Reserved(o), Refused(o)}
        BY <3>3, <2>3, <1>6
      <4>2. Authorized(o) \in inbox["inventory"]
        BY <4>1, <2>0 DEF CausesAt, InTurn, AnsweredAfter
      <4>3. InQueue("order", Authorized(o))
        BY <4>2, <3>1, <2>0 DEF InTurn, SentTogether, Settled
      <4>4. PICK k \in DOMAIN queue["order"] : queue["order"][k].event = Authorized(o)
        BY <4>3 DEF InQueue
      <4>5. k < j
        BY <3>3, <1>3
      <4> QED
        BY <4>4, <4>5, <1>5
    <3> QED
      BY <3>2, <3>3, <1>4
  <2> QED
    BY <2>1, <2>2, <2>3 DEF InTurn, AnswersBehind
<1> QED
  BY <1>7, <1>8 DEF AllInTurn
-----------------------------------------------------------------------------
LEMMA SettledFromQueue ==
  ASSUME QueueOK, RowsOK, DbTypeOK, NEW s \in Services, NEW i \in DOMAIN queue[s], QueueStep(s, i),
         NEW t \in Services, NEW e \in Event, Settled(t, e)' \/ InQueue(t, e)'
  PROVE  Settled(t, e) \/ InQueue(t, e)
<1>1. CASE InQueue(t, e)'
  BY <1>1, KeptMessages DEF InQueue
<1>2. CASE Settled(t, e)'
  <2>1. UNCHANGED inbox \/ Consume(s, queue[s][i].event)
    BY DEF QueueStep, dbVars
  <2>2. inbox'[t] = inbox[t] \/ (t = s /\ inbox'[t] = inbox[t] \cup {queue[s][i].event})
    BY <2>1, ConsumeRecords
  <2>3. /\ deadLetters' \in {deadLetters, [deadLetters EXCEPT ![s] = @ \cup {queue[s][i].event}]}
        /\ expired' \in {expired, [expired EXCEPT ![s] = @ \cup {queue[s][i].event}]}
    BY DEF QueueStep
  <2>4. /\ deadLetters'[t] \subseteq deadLetters[t] \cup (IF t = s THEN {queue[s][i].event} ELSE {})
        /\ expired'[t] \subseteq expired[t] \cup (IF t = s THEN {queue[s][i].event} ELSE {})
    BY <2>3 DEF RowsOK
  <2> QED
    BY <1>2, <2>2, <2>4 DEF Settled, InQueue
<1> QED
  BY <1>1, <1>2

LEMMA SubscriptionKeepsTurns ==
  ASSUME QueueOK, RowsOK, DbTypeOK, \A o \in Orders : CausesAt(o), AllInTurn,
         NEW s \in Services, NEW i \in DOMAIN queue[s], QueueStep(s, i)
  PROVE  AllInTurn'
<1> DEFINE e == queue[s][i].event
           q == queue["order"]
           r == queue'["order"]
<1>0. "order" \in Services /\ "inventory" \in Services
  BY DEF Services
<1>1. e \in Event /\ e \in outbox
  BY QueuedEvents
<1>2. \A t \in Services : inbox[t] \subseteq inbox'[t]
  BY <1>1, SettledStays
<1>3. UNCHANGED dbVars \/ (Receives(s, i) /\ Consume(s, e))
  BY DEF QueueStep
<1>4. /\ deadLetters["order"] \subseteq deadLetters'["order"]
      /\ expired["order"] \subseteq expired'["order"]
      /\ interrupted \subseteq interrupted'
  <2>1. /\ deadLetters' \in {deadLetters, [deadLetters EXCEPT ![s] = @ \cup {e}]}
        /\ expired' \in {expired, [expired EXCEPT ![s] = @ \cup {e}]}
        /\ interrupted \subseteq interrupted'
    BY DEF QueueStep
  <2> QED
    BY <2>1, <1>0 DEF RowsOK
<1>5. q \in Seq(Message) /\ DOMAIN q = 1 .. Len(q) /\ Len(q) \in Nat
  BY <1>0, LenProperties DEF QueueOK
<1> HIDE DEF e
<1>a. Consume(s, e) =>
          \A t \in Services : inbox'[t] = IF t = s THEN inbox[t] \cup {e} ELSE inbox[t]
  BY ConsumeRecords
(* Every message of Order's subscription is, for each case, an older one. *)
<1>6. \/ r = q
      \/ s = "order" /\ Marked(q, r, i) /\ (r[i].locked => Consume(s, e) \/ e \in interrupted')
      \/ s = "order" /\ Dropped(q, r, i)
  <2>1. CASE s # "order"
    BY <2>1, <1>0 DEF QueueStep
  <2>2. CASE s = "order"
    <3>1. \/ Dropped(queue[s], queue'[s], i)
          \/ /\ Marked(queue[s], queue'[s], i)
             /\ queue'[s][i].locked => Consume(s, e) \/ (s = "order" => e \in interrupted')
      BY DEF QueueStep, e
    <3> QED
      BY <2>2, <3>1
  <2> QED
    BY <2>1, <2>2
<1>7. LockedHandled'
  <2>0. LockedHandled
    BY DEF AllInTurn
  <2>1. CASE r = q
    BY <2>0, <2>1, <1>0, <1>2, <1>4 DEF LockedHandled
  <2>2. CASE s = "order" /\ Marked(q, r, i) /\ (r[i].locked => Consume(s, e) \/ e \in interrupted')
    <3>1. r[i].locked => r[i].event \in inbox'["order"] \cup interrupted'
      <4>1. r[i].event = e
        BY <2>2 DEF Marked, e
      <4> QED
        BY <4>1, <2>2, <1>0, <1>a
    <3> QED
      BY <3>1, <2>0, <2>2, <1>0, <1>2, <1>4 DEF LockedHandled, Marked
  <2>3. CASE s = "order" /\ Dropped(q, r, i)
    <3>1. ASSUME NEW k \in DOMAIN r
          PROVE  \E j \in DOMAIN q : r[k] = q[j]
      <4>1. i \in DOMAIN q /\ Dropped(q, r, i) /\ q \in Seq(Message)
        BY <2>3, <1>5
      <4> HIDE DEF q, r
      <4>2. LET j == IF k < i THEN k ELSE k + 1 IN j \in DOMAIN q /\ r[k] = q[j]
        BY <4>1, <3>1, DroppedIndices
      <4> QED
        BY <4>2
    <3>2. ASSUME NEW k \in DOMAIN r, r[k].locked PROVE r[k].event \in inbox'["order"] \cup interrupted'
      <4>1. PICK j \in DOMAIN q : r[k] = q[j]
        BY <3>1
      <4> QED
        BY <4>1, <3>2, <2>0, <1>0, <1>2, <1>4 DEF LockedHandled
    <3> QED
      BY <3>2 DEF LockedHandled
  <2> QED
    BY <2>1, <2>2, <2>3, <1>6
<1>8. ASSUME NEW o \in Orders PROVE InTurn(o)'
  <2>0. InTurn(o) /\ CausesAt(o) /\ status[o] \in OrderStatus
    BY DEF AllInTurn, DbTypeOK
  <2>1. SentTogether(o)'
    <3>1. Settled("inventory", Authorized(o))' \/ InQueue("inventory", Authorized(o))'
             => Settled("order", Authorized(o)) \/ InQueue("order", Authorized(o))
      BY <2>0, EventNames, SettledFromQueue DEF InTurn, SentTogether
    <3>2. Settled("order", Authorized(o)) \/ InQueue("order", Authorized(o))
             => Settled("order", Authorized(o))' \/ InQueue("order", Authorized(o))'
      BY EventNames, SettledStays, QueuedStays
    <3> QED
      BY <3>1, <3>2 DEF SentTogether
  <2>2. AnsweredAfter(o)'
    <3>1. CASE UNCHANGED dbVars
      BY <3>1, <2>0 DEF dbVars, InTurn, AnsweredAfter
    <3>2. CASE Consume(s, e)
      <4>1. reservation'[o] # "None" => reservation[o] # "None" \/ (s = "inventory" /\ e = Authorized(o))
        BY <3>2, <1>1, ConsumeEffects
      <4> QED
        BY <3>2, <4>1, <2>0, <1>0, <1>2, <1>a DEF InTurn, AnsweredAfter
    <3> QED
      BY <3>1, <3>2, <1>3
  <2>3. AnswersBehind(o)'
    <3> SUFFICES ASSUME NEW j \in DOMAIN r, r[j].event \in {Reserved(o), Refused(o)},
                        ~Settled("order", Authorized(o))'
                 PROVE  \E k \in DOMAIN r : k < j /\ r[k].event = Authorized(o)
      BY DEF AnswersBehind
    <3>1. ~Settled("order", Authorized(o))
      BY SettledStays, EventNames
    <3>2. \A l \in DOMAIN q : q[l].event \in {Reserved(o), Refused(o)} =>
              \E k \in DOMAIN q : k < l /\ q[k].event = Authorized(o)
      BY <3>1, <2>0 DEF InTurn, AnswersBehind
    <3>3. CASE r = q
      BY <3>2, <3>3
    <3>4. CASE s = "order" /\ Marked(q, r, i)
      <4>1. PICK k \in DOMAIN q : k < j /\ q[k].event = Authorized(o)
        BY <3>2, <3>4 DEF Marked
      <4> QED
        BY <4>1, <3>4 DEF Marked
    <3>5. CASE s = "order" /\ Dropped(q, r, i)
      <4> DEFINE l == IF j < i THEN j ELSE j + 1
      <4>1. l \in DOMAIN q /\ r[j] = q[l]
        BY <3>5, <1>5, DroppedIndices
      <4>2. PICK k \in DOMAIN q : k < l /\ q[k].event = Authorized(o)
        BY <4>1, <3>2
      <4>3. k # i
        BY <4>2, <3>5, EventNames, SettledStays DEF e
      <4>4. /\ i \in 1 .. Len(q) /\ k \in 1 .. Len(q) /\ j \in 1 .. Len(q) - 1 /\ DOMAIN r = 1 .. Len(q) - 1
            /\ \A n \in 1 .. Len(q) - 1 : r[n] = IF n < i THEN q[n] ELSE q[n + 1]
        BY <3>5, <1>5 DEF Dropped
      <4>5. CASE k < i
        <5>1. k \in 1 .. Len(q) - 1 /\ k < j
          BY <4>2, <4>4, <4>5, <1>5
        <5> QED
          BY <5>1, <4>2, <4>4, <4>5
      <4>6. CASE k > i
        <5>1. k - 1 \in 1 .. Len(q) - 1 /\ k - 1 < j /\ ~(k - 1 < i) /\ (k - 1) + 1 = k
          BY <4>2, <4>4, <4>6, <1>5
        <5>2. r[k - 1] = q[k]
          BY <5>1, <4>4
        <5> QED
          BY <5>1, <5>2, <4>2, <4>4
      <4> QED
        BY <4>3, <4>4, <4>5, <4>6, <1>5
    <3> QED
      BY <3>3, <3>4, <3>5, <1>6
  <2>4. MovedOn(o)'
    <3>1. CASE UNCHANGED dbVars
      BY <3>1, <2>0 DEF dbVars, InTurn, MovedOn
    <3>2. CASE Consume(s, e)
      <4>1. CASE Authorized(o) \in inbox["order"]
        BY <4>1, <3>2, <2>0, <1>1, ConsumeEffects DEF InTurn, MovedOn
      <4>2. CASE Authorized(o) \notin inbox["order"] /\ Authorized(o) \in inbox'["order"]
        <5>1. s = "order" /\ e = Authorized(o)
          BY <4>2, <3>2, <1>0, <1>a
        <5> QED
          BY <5>1, <4>2, <3>2, <2>0, <1>1, ConsumeEffects DEF CausesAt, MovedOn
      <4> QED
        BY <4>1, <4>2 DEF MovedOn
    <3> QED
      BY <3>1, <3>2, <1>3
  <2>5. ActedUpon(o)'
    <3> SUFFICES ASSUME Authorized(o) \notin deadLetters'["order"] \cup expired'["order"] \cup interrupted'
                 PROVE  /\ Reserved(o) \in inbox'["order"] => status'[o] = "Confirmed"
                        /\ Refused(o) \in inbox'["order"] => status'[o] \in {"CompensatingPayment", "Rejected"}
      BY DEF ActedUpon
    <3>0. Authorized(o) \notin deadLetters["order"] \cup expired["order"] \cup interrupted
      BY <1>4
    <3>1. /\ Reserved(o) \in inbox["order"] => status[o] = "Confirmed"
          /\ Refused(o) \in inbox["order"] => status[o] \in {"CompensatingPayment", "Rejected"}
      BY <3>0, <2>0 DEF InTurn, ActedUpon
    <3>2. CASE UNCHANGED dbVars
      BY <3>1, <3>2 DEF dbVars
    <3>3. CASE Receives(s, i) /\ Consume(s, e)
      (* An answer is handled only once the authorization was. *)
      <4>1. ASSUME s = "order", e \in {Reserved(o), Refused(o)}
            PROVE  status[o] \notin {"NotSubmitted", "PendingPayment"}
        <5>1. ASSUME ~Settled("order", Authorized(o)) PROVE FALSE
          <6>1. PICK k \in DOMAIN q : k < i /\ q[k].event = Authorized(o)
            BY <5>1, <4>1, <2>0 DEF InTurn, AnswersBehind, e
          <6>2. q[k].locked
            BY <6>1, <4>1, <3>3, <1>5 DEF Receives, Visible
          <6>3. Authorized(o) \in inbox["order"]
            BY <6>1, <6>2, <3>0 DEF AllInTurn, LockedHandled
          <6> QED
            BY <6>3, <5>1 DEF Settled
        <5>2. Authorized(o) \in inbox["order"]
          BY <5>1, <3>0 DEF Settled
        <5> QED
          BY <5>2, <2>0 DEF InTurn, MovedOn
      <4>2. ASSUME s = "order", e = Reserved(o), e \notin inbox["order"] PROVE status'[o] = "Confirmed"
        <5>1. status[o] \in {"PendingInventory", "Confirmed"}
          BY <4>1, <4>2, <2>0, <1>1 DEF CausesAt, OrderStatus
        <5> QED
          BY <5>1, <4>2, <3>3, <1>1, ConsumeEffects
      <4>3. ASSUME s = "order", e = Refused(o), e \notin inbox["order"]
            PROVE  status'[o] \in {"CompensatingPayment", "Rejected"}
        <5>1. status[o] \in {"PendingInventory", "CompensatingPayment", "Rejected"}
          BY <4>1, <4>3, <2>0, <1>1 DEF CausesAt, OrderStatus
        <5> QED
          BY <5>1, <4>3, <3>3, <1>1, ConsumeEffects
      <4>4. inbox'["order"] = IF s = "order" THEN inbox["order"] \cup {e} ELSE inbox["order"]
        BY <3>3, <1>0, <1>a
      <4>5. /\ status[o] = "Confirmed" => status'[o] = "Confirmed"
            /\ status[o] \in {"CompensatingPayment", "Rejected"} =>
                   status'[o] \in {"CompensatingPayment", "Rejected"}
        BY <3>3, <1>1, ConsumeEffects
      <4> QED
        BY <4>2, <4>3, <4>4, <4>5, <3>1
    <3> QED
      BY <3>2, <3>3, <1>3
  <2> QED
    BY <2>1, <2>2, <2>3, <2>4, <2>5 DEF InTurn
<1> QED
  BY <1>7, <1>8 DEF AllInTurn

LEMMA NextKeepsTurns ==
  ASSUME QueueOK, RowsOK, DbTypeOK, \A o \in Orders : CausesAt(o), AllInTurn,
         [Next]_vars
  PROVE  AllInTurn'
<1>1. CASE UNCHANGED <<dbVars, queueVars, interrupted>>
  BY <1>1 DEF dbVars, queueVars, AllInTurn, LockedHandled, InTurn, SentTogether, AnsweredAfter,
     AnswersBehind, MovedOn, ActedUpon, Settled, InQueue
<1>2. ASSUME NEW o \in Orders, Submit(o) PROVE AllInTurn'
  BY <1>2, SubmitKeepsTurns
<1>3. ASSUME NEW e \in Event, Publish(e) \/ PublishUnsaved(e) PROVE AllInTurn'
  BY <1>3, SendKeepsTurns DEF Publish, PublishUnsaved, Pending
<1>4. ASSUME NEW e \in Event, PublishFails(e) PROVE AllInTurn'
  BY <1>1, <1>4 DEF PublishFails
<1>5. ASSUME NEW s \in Services, SubscriptionStep(s) PROVE AllInTurn'
  BY <1>5, SubscriptionSteps, SubscriptionKeepsTurns
<1> QED
  BY <1>1, <1>2, <1>3, <1>4, <1>5 DEF Next, SubscriptionStep, vars

(***************************************************************************)
(* Order acts on every answer of Inventory that it records as handled,     *)
(* unless the authorization was given up on its way to Order or Order's    *)
(* consumer stopped with it in hand before its commit.  The proof finds    *)
(* no other way for an answer to overtake: not a row sent twice, an        *)
(* abandoned or repeated delivery, nor a stop after the commit.            *)
(***************************************************************************)
THEOREM AnswersTakenInTurn == Spec => []AnswersAreActedUpon
<1>1. Init => AllInTurn
  <2>1. ASSUME Init, NEW o \in Orders PROVE InTurn(o)
    BY <2>1, EventNames DEF Init, DbInit, InTurn, SentTogether, AnsweredAfter,
       AnswersBehind, MovedOn,
       ActedUpon, Settled, InQueue
  <2>2. Init => LockedHandled
    BY DEF Init, Services, LockedHandled
  <2> QED
    BY <2>1, <2>2 DEF AllInTurn
<1>2. QueueOK /\ RowsOK /\ (DbTypeOK /\ \A o \in Orders : CausesAt(o)) /\ AllInTurn /\ [Next]_vars => AllInTurn'
  BY NextKeepsTurns
<1>3. AllInTurn => AnswersAreActedUpon
  BY DEF AllInTurn, InTurn, ActedUpon, AnswersAreActedUpon, OutOfTurn, Authorized,
     Reserved, Refused
<1> QED
  BY <1>1, <1>2, <1>3, QueuesHoldRaisedEvents, RowsCorrect, SagaInvariants, PTL DEF Spec
=============================================================================
