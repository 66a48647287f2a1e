---------------------------- MODULE MessageBusProofs ------------------------
(***************************************************************************)
(* The two ends of the message bus; the modules have no name in common.    *)
(*                                                                         *)
(* Outbox: the safety properties of the publisher, for any number of rows, *)
(* any batch size, any limit on attempts and any number of stops and       *)
(* outages.  The inductive invariant ties each column of the table to what *)
(* the topic has really taken and to what the pass holds in memory.        *)
(*                                                                         *)
(* InboxConsumer: the consumers of a subscription, for any number of them, *)
(* of messages and of faults: an event takes effect once, and a message is *)
(* completed only when its event has taken effect.  What makes it          *)
(* inductive is where each consumer may be: in a transaction only for an   *)
(* event that is not in the inbox, about to complete only for one that is. *)
(***************************************************************************)
EXTENDS Outbox, InboxConsumer, TLAPS

(* A pass holds pending rows only, and none between two passes. *)
BatchIsPending ==
    /\ phase = "load" => batch = {}
    /\ batch \cap (processed \cup dead) = {}

(* What is marked as sent, in memory or in the table, was taken. *)
SentWasAccepted == \A r \in processed \cup sent : accepted[r] > 0

(* Attempts counts failures: all of them but those a stop has forgotten. *)
AttemptsAreFailures ==
    \A r \in Rows :
        /\ attempts[r] <= failures[r]
        /\ r \in failed => attempts[r] + 1 <= failures[r]

(* The rows that are dead are the ones whose attempts have reached the limit. *)
DeadHaveNoAttemptLeft ==
    \A r \in Rows : r \in dead <=> attempts[r] = DeadLetterAttemptLimit

(* A row marked as sent has used up one publication without a fault. *)
RepeatsHaveACause ==
    \A r \in Rows :
        /\ accepted[r] <= 1 + stops + failures[r]
        /\ r \notin processed \cup sent => accepted[r] <= stops + failures[r]

TableInv ==
    /\ OutboxTypeOK
    /\ BatchIsPending
    /\ SentWasAccepted
    /\ AttemptsAreFailures
    /\ DeadHaveNoAttemptLeft
    /\ RepeatsHaveACause

LEMMA TableBegins == OutboxInit => TableInv
BY OutboxAssumption
   DEF OutboxInit, TableInv, OutboxTypeOK, BatchIsPending, SentWasAccepted,
       AttemptsAreFailures,
       DeadHaveNoAttemptLeft, RepeatsHaveACause

LEMMA EnqueueKeepsTable ==
    ASSUME TableInv, NEW r \in Rows, EnqueueRow(r) PROVE TableInv'
BY OutboxAssumption
   DEF EnqueueRow, TableInv, OutboxTypeOK, BatchIsPending, SentWasAccepted,
       AttemptsAreFailures,
       DeadHaveNoAttemptLeft, RepeatsHaveACause, memory, broker

LEMMA LoadKeepsTable ==
    ASSUME TableInv, Load PROVE TableInv'
<1>1. batch' \subseteq rows \ (processed \cup dead) /\ toSend' = batch'
  BY DEF Load, Oldest, Pending
<1>2. batch = {} /\ sent = {} /\ failed = {}
  BY DEF Load, TableInv, OutboxTypeOK, BatchIsPending
<1>3. OutboxTypeOK'
  BY <1>1, <1>2 DEF Load, TableInv, OutboxTypeOK, table, broker
<1>4. BatchIsPending'
  BY <1>1 DEF Load, BatchIsPending, table
<1>5. QED
  BY <1>3, <1>4
     DEF Load, TableInv, SentWasAccepted, AttemptsAreFailures, DeadHaveNoAttemptLeft,
         RepeatsHaveACause, table, broker

LEMMA SuccessKeepsTable ==
    ASSUME TableInv, NEW r \in Rows, PublishSucceeds(r) PROVE TableInv'
<1> USE DEF TableInv, PublishSucceeds, Current, table, broker
<1>1. accepted' = [accepted EXCEPT ![r] = @ + 1] /\ accepted \in [Rows -> Nat]
  BY DEF OutboxTypeOK
<1>2. /\ accepted'[r] = accepted[r] + 1 /\ accepted[r] \in Nat
      /\ \A q \in Rows : q # r => accepted'[q] = accepted[q]
  BY <1>1
<1>3. r \in batch /\ r \notin processed /\ r \notin sent /\ r \notin failed
  BY DEF OutboxTypeOK, BatchIsPending
<1>4. OutboxTypeOK'
  <2>1. accepted' \in [Rows -> Nat]
    BY <1>1
  <2>2. /\ toSend' \subseteq batch /\ sent' \subseteq batch \ toSend'
        /\ failed = batch \ (toSend' \cup sent')
    BY <1>3 DEF OutboxTypeOK
  <2>3. QED
    BY <2>1, <2>2 DEF OutboxTypeOK
<1>5. BatchIsPending'
  BY DEF BatchIsPending
<1>6. SentWasAccepted'
  <2> SUFFICES ASSUME NEW q \in (processed \cup sent)' PROVE accepted'[q] > 0
    BY DEF SentWasAccepted
  <2>1. CASE q = r
    BY <1>2, <2>1
  <2>2. CASE q # r
    <3>1. q \in processed \cup sent /\ q \in Rows
      BY <2>2 DEF OutboxTypeOK
    <3>2. QED
      BY <1>2, <2>2, <3>1 DEF SentWasAccepted
  <2>3. QED
    BY <2>1, <2>2
<1>7. RepeatsHaveACause'
  <2> SUFFICES ASSUME NEW q \in Rows
               PROVE  /\ accepted'[q] <= 1 + stops + failures[q]
                      /\ q \notin (processed \cup sent)' => accepted'[q] <= stops + failures[q]
    BY DEF RepeatsHaveACause
  <2>0. stops \in Nat /\ failures[q] \in Nat
    BY OutboxAssumption DEF OutboxTypeOK
  <2>1. CASE q = r
    <3>1. accepted[r] <= stops + failures[r]
      BY <1>3 DEF RepeatsHaveACause
    <3>2. QED
      BY <1>2, <2>0, <2>1, <3>1
  <2>2. CASE q # r
    BY <1>2, <2>2 DEF RepeatsHaveACause
  <2>3. QED
    BY <2>1, <2>2
<1>8. QED
  BY <1>4, <1>5, <1>6, <1>7 DEF AttemptsAreFailures, DeadHaveNoAttemptLeft

LEMMA FailureKeepsTable ==
    ASSUME TableInv, NEW r \in Rows, PublishFails(r) PROVE TableInv'
<1> USE DEF TableInv, PublishFails, Current, table, broker
<1>0. accepted \in [Rows -> Nat] /\ failures \in [Rows -> Nat] /\ stops \in Nat
  BY OutboxAssumption DEF OutboxTypeOK
<1>1. /\ failures'[r] = failures[r] + 1
      /\ \A q \in Rows : q # r => failures'[q] = failures[q]
  BY <1>0
<1>2. /\ accepted'[r] = accepted[r] \/ accepted'[r] = accepted[r] + 1
      /\ \A q \in Rows : q # r => accepted'[q] = accepted[q]
      /\ accepted' \in [Rows -> Nat]
  BY <1>0
<1>3. r \in batch /\ r \notin processed /\ r \notin sent
  BY DEF OutboxTypeOK, BatchIsPending
<1>4. OutboxTypeOK'
  <2>1. failures' \in [Rows -> Nat]
    BY <1>0
  <2>2. /\ toSend' \subseteq batch /\ sent \subseteq batch \ toSend'
        /\ failed' = batch \ (toSend' \cup sent)
    BY <1>3 DEF OutboxTypeOK
  <2>3. QED
    BY <1>2, <2>1, <2>2 DEF OutboxTypeOK
<1>5. BatchIsPending'
  BY DEF BatchIsPending
<1>6. SentWasAccepted'
  <2> SUFFICES ASSUME NEW q \in processed \cup sent PROVE accepted'[q] > 0
    BY DEF SentWasAccepted
  <2>1. q # r /\ q \in Rows
    BY <1>3 DEF OutboxTypeOK
  <2>2. QED
    BY <1>2, <2>1 DEF SentWasAccepted
<1>7. AttemptsAreFailures'
  <2> SUFFICES ASSUME NEW q \in Rows
               PROVE  /\ attempts[q] <= failures'[q]
                      /\ q \in failed' => attempts[q] + 1 <= failures'[q]
    BY DEF AttemptsAreFailures
  <2>0. attempts[q] \in Nat /\ failures[q] \in Nat
    BY <1>0, OutboxAssumption DEF OutboxTypeOK
  <2>1. attempts[q] <= failures[q] /\ (q \in failed => attempts[q] + 1 <= failures[q])
    BY DEF AttemptsAreFailures
  <2>2. CASE q = r
    BY <1>1, <2>0, <2>1, <2>2
  <2>3. CASE q # r
    BY <1>1, <2>1, <2>3
  <2>4. QED
    BY <2>2, <2>3
<1>8. RepeatsHaveACause'
  <2> SUFFICES ASSUME NEW q \in Rows
               PROVE  /\ accepted'[q] <= 1 + stops + failures'[q]
                      /\ q \notin processed \cup sent => accepted'[q] <= stops + failures'[q]
    BY DEF RepeatsHaveACause
  <2>1. /\ accepted[q] <= 1 + stops + failures[q]
        /\ q \notin processed \cup sent => accepted[q] <= stops + failures[q]
        /\ accepted[q] \in Nat /\ failures[q] \in Nat
    BY <1>0 DEF RepeatsHaveACause
  <2>2. CASE q = r
    BY <1>0, <1>1, <1>2, <1>3, <2>1, <2>2
  <2>3. CASE q # r
    BY <1>1, <1>2, <2>1, <2>3
  <2>4. QED
    BY <2>2, <2>3
<1>9. QED
  BY <1>4, <1>5, <1>6, <1>7, <1>8 DEF DeadHaveNoAttemptLeft

LEMMA SaveKeepsTable ==
    ASSUME TableInv, Save PROVE TableInv'
<1> USE DEF TableInv, Save, NewPass, broker
<1>0. /\ attempts \in [Rows -> 0..DeadLetterAttemptLimit] /\ failures \in [Rows -> Nat]
      /\ DeadLetterAttemptLimit \in Nat \ {0}
      /\ failed \subseteq Rows /\ failed \cap dead = {} /\ dead \subseteq rows
  BY OutboxAssumption DEF OutboxTypeOK, BatchIsPending
<1>1. \A q \in Rows : attempts'[q] = IF q \in failed THEN attempts[q] + 1 ELSE attempts[q]
  OBVIOUS
<1>2. \A q \in failed : attempts[q] < DeadLetterAttemptLimit
  BY <1>0 DEF DeadHaveNoAttemptLeft
<1>3. attempts' \in [Rows -> 0..DeadLetterAttemptLimit]
  BY <1>0, <1>2
<1>4. OutboxTypeOK'
  <2>1. dead' \subseteq rows /\ processed' \subseteq rows
    BY DEF OutboxTypeOK
  <2>2. QED
    BY <1>3, <2>1 DEF OutboxTypeOK
<1>5. BatchIsPending'
  BY DEF BatchIsPending
<1>6. SentWasAccepted'
  BY DEF SentWasAccepted
<1>7. AttemptsAreFailures'
  BY <1>0, <1>1 DEF AttemptsAreFailures
<1>8. DeadHaveNoAttemptLeft'
  <2> SUFFICES ASSUME NEW q \in Rows
               PROVE  q \in dead' <=> attempts'[q] = DeadLetterAttemptLimit
    BY DEF DeadHaveNoAttemptLeft
  <2>1. CASE q \in failed
    BY <1>0, <1>1, <1>2, <2>1
  <2>2. CASE q \notin failed
    BY <1>1, <2>2 DEF DeadHaveNoAttemptLeft
  <2>3. QED
    BY <2>1, <2>2
<1>9. RepeatsHaveACause'
  BY DEF RepeatsHaveACause
<1>10. QED
  BY <1>4, <1>5, <1>6, <1>7, <1>8, <1>9

LEMMA StopKeepsTable ==
    ASSUME TableInv, StopPass PROVE TableInv'
<1> USE DEF TableInv, StopPass, NewPass, table, broker
<1>1. stops \in Nat /\ stops + 1 \in 0..MaxStops
  BY OutboxAssumption DEF OutboxTypeOK
<1>2. OutboxTypeOK'
  BY <1>1 DEF OutboxTypeOK
<1>3. BatchIsPending' /\ SentWasAccepted' /\ AttemptsAreFailures' /\ DeadHaveNoAttemptLeft'
  BY DEF BatchIsPending, SentWasAccepted, AttemptsAreFailures, DeadHaveNoAttemptLeft
<1>4. RepeatsHaveACause'
  <2> SUFFICES ASSUME NEW q \in Rows
               PROVE  /\ accepted[q] <= 1 + (stops + 1) + failures[q]
                      /\ accepted[q] <= (stops + 1) + failures[q]
    BY DEF RepeatsHaveACause
  <2>1. accepted[q] <= 1 + stops + failures[q] /\ accepted[q] \in Nat /\ failures[q] \in Nat
    BY DEF RepeatsHaveACause, OutboxTypeOK
  <2>2. QED
    BY <1>1, <2>1
<1>5. QED
  BY <1>2, <1>3, <1>4

LEMMA BrokerKeepsTable ==
    ASSUME TableInv, BrokerGoesDown \/ BrokerComesBack PROVE TableInv'
<1> USE DEF TableInv, table, memory
<1>0. MaxOutages \in Nat /\ outages \in 0..MaxOutages
  BY OutboxAssumption DEF OutboxTypeOK
<1>1. brokerUp' \in BOOLEAN
  BY Zenon DEF BrokerGoesDown, BrokerComesBack
<1>2. outages' \in 0..MaxOutages
  <2>1. outages' = outages \/ (outages < MaxOutages /\ outages' = outages + 1)
    BY DEF BrokerGoesDown, BrokerComesBack
  <2>2. QED
    BY <1>0, <2>1
<1>3. UNCHANGED <<table, memory, phase, stops, accepted, failures>>
  BY DEF BrokerGoesDown, BrokerComesBack
<1>4. OutboxTypeOK'
  BY <1>1, <1>2, <1>3 DEF OutboxTypeOK
<1>5. QED
  BY <1>3, <1>4
     DEF BatchIsPending, SentWasAccepted, AttemptsAreFailures, DeadHaveNoAttemptLeft,
         RepeatsHaveACause

LEMMA StutteringKeepsTable ==
    ASSUME TableInv, UNCHANGED outboxVars PROVE TableInv'
BY DEF outboxVars, table, memory, broker, TableInv, OutboxTypeOK, BatchIsPending,
   SentWasAccepted,
       AttemptsAreFailures, DeadHaveNoAttemptLeft, RepeatsHaveACause

(***************************************************************************)
(* The strengthened invariant holds in every reachable state.              *)
(***************************************************************************)
THEOREM TableInvHolds == OutboxSpec => []TableInv
<1>1. TableInv /\ [OutboxNext]_outboxVars => TableInv'
  BY EnqueueKeepsTable, LoadKeepsTable, SuccessKeepsTable, FailureKeepsTable,
     SaveKeepsTable, StopKeepsTable,
     BrokerKeepsTable, StutteringKeepsTable DEF OutboxNext
<1>2. QED
  BY TableBegins, <1>1, PTL DEF OutboxSpec

(***************************************************************************)
(* The types hold: in particular no Attempts column exceeds the limit,     *)
(* whatever stops and outages come between the attempts and their save.    *)
(***************************************************************************)
THEOREM OutboxTypeCorrect == OutboxSpec => []OutboxTypeOK
<1>1. TableInv => OutboxTypeOK
  BY DEF TableInv
<1>2. QED
  BY TableInvHolds, <1>1, PTL

(***************************************************************************)
(* A row is marked processed only if the topic has taken its event.        *)
(***************************************************************************)
THEOREM NothingIsLost == OutboxSpec => []ProcessedWasAccepted
<1>1. TableInv => ProcessedWasAccepted
  BY DEF TableInv, SentWasAccepted, ProcessedWasAccepted
<1>2. QED
  BY TableInvHolds, <1>1, PTL

(***************************************************************************)
(* A row is dead-lettered only after DeadLetterAttemptLimit failures of    *)
(* its own.                                                                *)
(***************************************************************************)
THEOREM NoneIsGivenUpEarly == OutboxSpec => []NotGivenUpEarly
<1>1. TableInv => NotGivenUpEarly
  BY DEF TableInv, AttemptsAreFailures, DeadHaveNoAttemptLeft, NotGivenUpEarly
<1>2. QED
  BY TableInvHolds, <1>1, PTL

(***************************************************************************)
(* An event is published again only after a stop or a failed attempt, and  *)
(* at most once for each.                                                  *)
(***************************************************************************)
THEOREM RepetitionIsBounded == OutboxSpec => []DuplicatesHaveACause
<1>1. TableInv => DuplicatesHaveACause
  BY DEF TableInv, RepeatsHaveACause, DuplicatesHaveACause
<1>2. QED
  BY TableInvHolds, <1>1, PTL
-----------------------------------------------------------------------------
Event(c) == EventOf[holds[c]]

(* A message is locked while some consumer's lock on it is valid. *)
LocksAreExclusive ==
    \A m \in Messages : place[m] = "locked" <=> lockedBy[m] # NoConsumer

(* What waits for delivery has a delivery left. *)
QueuedHasDeliveryLeft ==
    \A m \in Messages : place[m] = "queued" => deliveries[m] < MaxDeliveryCount

(* What a consumer's position says of the event it works on. *)
PositionsAreJustified ==
    \A c \in Consumers :
        /\ pc[c] \in {"handle", "commit"} => Event(c) \in Handled
        /\ pc[c] = "commit" => Event(c) \notin inbox
        /\ pc[c] = "complete" => (Event(c) \in Handled => Event(c) \in inbox)

IInv ==
    /\ TypeOK
    /\ LocksAreExclusive
    /\ QueuedHasDeliveryLeft
    /\ PositionsAreJustified
    /\ OneTransactionPerEvent
    /\ EffectsHappenOnce
    /\ CompletedWasHandled

LEMMA Begins == Init => IInv
<1> SUFFICES ASSUME Init PROVE IInv
  OBVIOUS
<1> USE ConsumerAssumption, NamesAreDistinct DEF Init, Idle, Steps
<1>1. TypeOK
  BY DEF TypeOK
<1>2. LocksAreExclusive /\ QueuedHasDeliveryLeft
  BY DEF LocksAreExclusive, QueuedHasDeliveryLeft
<1>3. PositionsAreJustified /\ OneTransactionPerEvent
  BY DEF PositionsAreJustified, OneTransactionPerEvent, HasUncommitted
<1>4. EffectsHappenOnce /\ CompletedWasHandled
  BY DEF EffectsHappenOnce, CompletedWasHandled
<1>5. QED
  BY <1>1, <1>2, <1>3, <1>4 DEF IInv

LEMMA ReceiveKeeps ==
    ASSUME IInv, NEW c \in Consumers, NEW m \in Messages, Receive(c, m) PROVE IInv'
<1> USE ConsumerAssumption, NamesAreDistinct DEF IInv, Receive, Idle, Steps
<1>1. deliveries[m] \in 0..MaxDeliveryCount /\ deliveries[m] < MaxDeliveryCount
  BY DEF TypeOK, QueuedHasDeliveryLeft
<1>2. deliveries[m] + 1 \in 0..MaxDeliveryCount
  BY <1>1
<1>3. pc' \in [Consumers -> Steps] /\ holds' \in [Consumers -> Messages \cup {NoMessage}]
  BY DEF TypeOK
<1>4. /\ pc'[c] = "decode" /\ holds'[c] = m
      /\ \A d \in Consumers \ {c} : pc'[d] = pc[d] /\ holds'[d] = holds[d]
  BY DEF TypeOK
<1>5. \A n \in Messages :
        /\ place'[n] = IF n = m THEN "locked" ELSE place[n]
        /\ lockedBy'[n] = IF n = m THEN c ELSE lockedBy[n]
        /\ n # m => deliveries'[n] = deliveries[n]
  BY DEF TypeOK
<1>6. TypeOK'
  <2>1. \A d \in Consumers : pc'[d] = Idle <=> holds'[d] = NoMessage
    BY <1>4 DEF TypeOK
  <2>2. /\ place' \in [Messages -> {"queued", "locked", "completed", "dead"}]
        /\ lockedBy' \in [Messages -> Consumers \cup {NoConsumer}]
        /\ deliveries' \in [Messages -> 0..MaxDeliveryCount]
    BY <1>2 DEF TypeOK
  <2>3. QED
    BY <1>3, <2>1, <2>2 DEF TypeOK
<1>7. LocksAreExclusive' /\ QueuedHasDeliveryLeft'
  BY <1>5 DEF LocksAreExclusive, QueuedHasDeliveryLeft
<1>8. PositionsAreJustified' /\ OneTransactionPerEvent'
  BY <1>4 DEF PositionsAreJustified, OneTransactionPerEvent, HasUncommitted, Event
<1>9. EffectsHappenOnce' /\ CompletedWasHandled'
  BY <1>5 DEF EffectsHappenOnce, CompletedWasHandled
<1>10. QED
  BY <1>6, <1>7, <1>8, <1>9

(***************************************************************************)
(* A consumer lets go of its message, whether or not it still has its      *)
(* lock, and puts it where it may be put.                                  *)
(***************************************************************************)
LEMMA SettleKeeps ==
    ASSUME IInv, NEW c \in Consumers, pc[c] # Idle,
           NEW where \in {"queued", "completed", "dead"},
           where = "queued" => deliveries[holds[c]] < MaxDeliveryCount,
           where = "completed" => (Event(c) \in Handled => Event(c) \in inbox),
           Settle(c, where),
           UNCHANGED <<deliveries, inbox, effects>>, faults' \in 0..MaxFaults
    PROVE  IInv'
<1> USE ConsumerAssumption, NamesAreDistinct DEF IInv, Settle, Release, Idle, Steps
<1> DEFINE m == holds[c]
<1>1. m \in Messages
  BY DEF TypeOK
<1>2. /\ pc'[c] = Idle /\ holds'[c] = NoMessage
      /\ \A d \in Consumers \ {c} : pc'[d] = pc[d] /\ holds'[d] = holds[d]
      /\ pc' \in [Consumers -> Steps] /\ holds' \in [Consumers -> Messages \cup {NoMessage}]
  BY DEF TypeOK
<1>3. \/ UNCHANGED <<place, lockedBy>>
      \/ /\ place' = [place EXCEPT ![m] = where]
         /\ lockedBy' = [lockedBy EXCEPT ![m] = NoConsumer]
  OBVIOUS
<1>4. \A n \in Messages :
        \/ place'[n] = place[n] /\ lockedBy'[n] = lockedBy[n]
        \/ n = m /\ place'[n] = where /\ lockedBy'[n] = NoConsumer
  BY <1>1, <1>3 DEF TypeOK
<1>5. TypeOK'
  <2>1. \A d \in Consumers : pc'[d] = Idle <=> holds'[d] = NoMessage
    BY <1>2 DEF TypeOK
  <2>2. /\ place' \in [Messages -> {"queued", "locked", "completed", "dead"}]
        /\ lockedBy' \in [Messages -> Consumers \cup {NoConsumer}]
    BY <1>3 DEF TypeOK
  <2>3. QED
    BY <1>2, <2>1, <2>2 DEF TypeOK
<1>6. LocksAreExclusive' /\ QueuedHasDeliveryLeft'
  BY <1>4 DEF LocksAreExclusive, QueuedHasDeliveryLeft
<1>7. PositionsAreJustified'
  BY <1>2 DEF PositionsAreJustified, Event
<1>8. OneTransactionPerEvent'
  BY <1>2 DEF OneTransactionPerEvent, HasUncommitted
<1>9. EffectsHappenOnce'
  BY DEF EffectsHappenOnce
<1>10. CompletedWasHandled'
  BY <1>4 DEF CompletedWasHandled, Event
<1>11. QED
  BY <1>5, <1>6, <1>7, <1>8, <1>9, <1>10

(* A consumer goes on to a step it may be at. *)
LEMMA GotoKeeps ==
    ASSUME IInv, NEW c \in Consumers, pc[c] # Idle,
           NEW step \in Steps \ {Idle},
           step \in {"handle", "commit"} => Event(c) \in Handled,
           step = "commit" => /\ Event(c) \notin inbox
                              /\ \A d \in Consumers : ~HasUncommitted(d, Event(c)),
           step = "complete" => (Event(c) \in Handled => Event(c) \in inbox),
           Goto(c, step),
           UNCHANGED <<holds, place, lockedBy, deliveries, inbox, effects, faults>>
    PROVE  IInv'
<1> USE DEF IInv, Goto, Idle, Steps
<1>1. /\ pc'[c] = step /\ \A d \in Consumers \ {c} : pc'[d] = pc[d]
      /\ pc' \in [Consumers -> Steps]
  BY DEF TypeOK
<1>2. TypeOK'
  <2>1. \A d \in Consumers : pc'[d] = Idle <=> holds[d] = NoMessage
    BY <1>1 DEF TypeOK
  <2>2. QED
    BY <1>1, <2>1 DEF TypeOK
<1>3. PositionsAreJustified'
  BY <1>1 DEF PositionsAreJustified, Event
<1>4. OneTransactionPerEvent'
  BY <1>1 DEF OneTransactionPerEvent, HasUncommitted, Event
<1>5. QED
  BY <1>2, <1>3, <1>4
     DEF LocksAreExclusive, QueuedHasDeliveryLeft, EffectsHappenOnce, CompletedWasHandled

LEMMA AfterFailureIsAllowed ==
    ASSUME IInv, NEW m \in Messages
    PROVE  /\ AfterFailure(m) \in {"queued", "dead"}
           /\ AfterFailure(m) = "queued" => deliveries[m] < MaxDeliveryCount
BY ConsumerAssumption DEF IInv, TypeOK, AfterFailure

LEMMA HeldIsAMessage ==
    ASSUME IInv, NEW c \in Consumers, pc[c] # Idle
    PROVE  holds[c] \in Messages /\ Event(c) \in EventIds /\ faults \in 0..MaxFaults
BY ConsumerAssumption DEF IInv, TypeOK, Event

LEMMA FaultIsCounted ==
    ASSUME IInv, Fault PROVE faults' \in 0..MaxFaults
BY ConsumerAssumption DEF IInv, TypeOK, Fault

LEMMA DecodeKeeps ==
    ASSUME IInv, NEW c \in Consumers, Decode(c) PROVE IInv'
<1>1. pc[c] # Idle /\ faults' \in 0..MaxFaults
  BY HeldIsAMessage DEF Decode, Idle
<1>2. CASE holds[c] \in Garbled
  BY <1>1, <1>2, SettleKeeps DEF Decode
<1>3. CASE holds[c] \notin Garbled
  BY <1>1, <1>3, GotoKeeps DEF Decode, Steps, Idle
<1>4. QED
  BY <1>2, <1>3

LEMMA CheckInboxKeeps ==
    ASSUME IInv, NEW c \in Consumers, CheckInbox(c) PROVE IInv'
<1>1. pc[c] # Idle
  BY DEF CheckInbox, Idle
<1>2. CASE Event(c) \in Handled \ inbox
  BY <1>1, <1>2, GotoKeeps DEF CheckInbox, Steps, Idle, Event
<1>3. CASE Event(c) \notin Handled \ inbox
  BY <1>1, <1>3, GotoKeeps DEF CheckInbox, Steps, Idle, Event
<1>4. QED
  BY <1>2, <1>3

LEMMA SaveChangesKeeps ==
    ASSUME IInv, NEW c \in Consumers, SaveChanges(c) PROVE IInv'
<1>1. pc[c] = "handle" /\ pc[c] # Idle /\ faults' \in 0..MaxFaults
  BY HeldIsAMessage DEF SaveChanges, Idle
<1>2. Event(c) \in Handled
  BY <1>1 DEF IInv, PositionsAreJustified
<1>3. CASE Event(c) \in inbox
  <2>1. Settle(c, AfterFailure(holds[c])) /\ UNCHANGED <<deliveries, inbox, effects>>
    BY <1>3 DEF SaveChanges, Event
  <2>2. QED
    BY <1>1, <2>1, HeldIsAMessage, AfterFailureIsAllowed, SettleKeeps
<1>4. CASE Event(c) \notin inbox
  BY <1>1, <1>2, <1>4, GotoKeeps DEF SaveChanges, Steps, Idle, Event
<1>5. QED
  BY <1>3, <1>4

LEMMA CommitKeeps ==
    ASSUME IInv, NEW c \in Consumers, Commit(c) PROVE IInv'
<1> USE DEF IInv, Commit, Goto
<1> DEFINE e == Event(c)
<1>1. pc[c] = "commit" /\ pc[c] # Idle /\ e \in EventIds /\ holds[c] \in Messages
  BY HeldIsAMessage DEF Idle
<1>2. e \notin inbox
  BY <1>1 DEF PositionsAreJustified
<1>3. /\ inbox' = inbox \cup {e} /\ effects' = [effects EXCEPT ![e] = @ + 1]
      /\ pc' = [pc EXCEPT ![c] = "complete"]
      /\ UNCHANGED <<holds, place, lockedBy, deliveries, faults>>
  BY DEF Event
<1>4. effects[e] = 0 /\ effects'[e] = 1
  <2>1. effects[e] = 0
    BY <1>1, <1>2 DEF EffectsHappenOnce
  <2>2. QED
    BY <1>1, <1>3, <2>1 DEF TypeOK
<1>5. \A f \in EventIds : f # e => effects'[f] = effects[f]
  BY <1>1, <1>3 DEF TypeOK
<1>6. /\ pc'[c] = "complete" /\ \A d \in Consumers \ {c} : pc'[d] = pc[d]
      /\ pc' \in [Consumers -> Steps]
  BY <1>3 DEF TypeOK, Steps
<1>7. TypeOK'
  <2>1. \A d \in Consumers : pc'[d] = Idle <=> holds[d] = NoMessage
    BY <1>1, <1>6 DEF TypeOK, Idle
  <2>2. effects' \in [EventIds -> Nat] /\ inbox' \subseteq EventIds
    BY <1>1, <1>3 DEF TypeOK
  <2>3. QED
    BY <1>3, <1>6, <2>1, <2>2 DEF TypeOK
<1>8. \A d \in Consumers \ {c} : pc[d] = "commit" => EventOf[holds[d]] # e
  BY <1>1 DEF OneTransactionPerEvent, HasUncommitted, Event
<1>9. PositionsAreJustified'
  BY <1>3, <1>6, <1>8 DEF PositionsAreJustified, Event
<1>10. OneTransactionPerEvent'
  BY <1>3, <1>6 DEF OneTransactionPerEvent, HasUncommitted
<1>11. EffectsHappenOnce'
  BY <1>3, <1>4, <1>5 DEF EffectsHappenOnce
<1>12. QED
  BY <1>3, <1>7, <1>9, <1>10, <1>11
     DEF LocksAreExclusive, QueuedHasDeliveryLeft, CompletedWasHandled

LEMMA CompleteKeeps ==
    ASSUME IInv, NEW c \in Consumers, Complete(c) PROVE IInv'
<1>1. pc[c] # Idle /\ faults' \in 0..MaxFaults
  BY HeldIsAMessage DEF Complete, Idle
<1>2. Event(c) \in Handled => Event(c) \in inbox
  BY DEF Complete, IInv, PositionsAreJustified
<1>3. QED
  BY <1>1, <1>2, SettleKeeps DEF Complete

LEMMA CannotReadKeeps ==
    ASSUME IInv, NEW c \in Consumers, CannotRead(c) PROVE IInv'
<1>1. pc[c] # Idle /\ faults' \in 0..MaxFaults
  BY HeldIsAMessage DEF CannotRead, Idle
<1>2. QED
  BY <1>1, HeldIsAMessage, AfterFailureIsAllowed, SettleKeeps DEF CannotRead

LEMMA ThrowKeeps ==
    ASSUME IInv, NEW c \in Consumers, Throw(c) PROVE IInv'
<1>1. pc[c] # Idle /\ faults' \in 0..MaxFaults
  BY FaultIsCounted DEF Throw, Idle
<1>2. QED
  BY <1>1, HeldIsAMessage, AfterFailureIsAllowed, SettleKeeps DEF Throw

LEMMA StopKeeps ==
    ASSUME IInv, NEW c \in Consumers, Stop(c) PROVE IInv'
<1> USE DEF IInv, Stop, Release, Idle, Steps
<1>1. /\ pc'[c] = Idle /\ holds'[c] = NoMessage
      /\ \A d \in Consumers \ {c} : pc'[d] = pc[d] /\ holds'[d] = holds[d]
      /\ pc' \in [Consumers -> Steps] /\ holds' \in [Consumers -> Messages \cup {NoMessage}]
  BY DEF TypeOK
<1>2. TypeOK'
  <2>1. \A d \in Consumers : pc'[d] = Idle <=> holds'[d] = NoMessage
    BY <1>1 DEF TypeOK
  <2>2. QED
    BY <1>1, <2>1, FaultIsCounted DEF TypeOK
<1>3. PositionsAreJustified' /\ OneTransactionPerEvent'
  BY <1>1 DEF PositionsAreJustified, OneTransactionPerEvent, HasUncommitted, Event
<1>4. QED
  BY <1>2, <1>3
     DEF LocksAreExclusive, QueuedHasDeliveryLeft, EffectsHappenOnce, CompletedWasHandled

(* A lock that expires leaves its holder, if it has one, where it was. *)
LEMMA ExpireKeeps ==
    ASSUME IInv, NEW m \in Messages, Expire(m), faults' \in 0..MaxFaults PROVE IInv'
<1> USE NamesAreDistinct DEF IInv, Expire
<1>1. /\ AfterFailure(m) \in {"queued", "dead"}
      /\ AfterFailure(m) = "queued" => deliveries[m] < MaxDeliveryCount
  BY AfterFailureIsAllowed
<1>2. \A n \in Messages :
        \/ place'[n] = place[n] /\ lockedBy'[n] = lockedBy[n]
        \/ n = m /\ place'[n] = AfterFailure(m) /\ lockedBy'[n] = NoConsumer
  BY DEF TypeOK
<1>3. TypeOK'
  <2>1. /\ place' \in [Messages -> {"queued", "locked", "completed", "dead"}]
        /\ lockedBy' \in [Messages -> Consumers \cup {NoConsumer}]
    BY <1>1 DEF TypeOK
  <2>2. QED
    BY <2>1 DEF TypeOK
<1>4. LocksAreExclusive' /\ QueuedHasDeliveryLeft' /\ CompletedWasHandled'
  BY <1>1, <1>2 DEF LocksAreExclusive, QueuedHasDeliveryLeft, CompletedWasHandled
<1>5. PositionsAreJustified' /\ OneTransactionPerEvent' /\ EffectsHappenOnce'
  BY DEF PositionsAreJustified, OneTransactionPerEvent, EffectsHappenOnce, HasUncommitted,
     Event
<1>6. QED
  BY <1>3, <1>4, <1>5

LEMMA LocksKeep ==
    ASSUME IInv, NEW m \in Messages, LockExpires(m) \/ LockIsLost(m) PROVE IInv'
<1>1. faults' \in 0..MaxFaults
  BY FaultIsCounted DEF LockExpires, LockIsLost, IInv, TypeOK
<1>2. QED
  BY <1>1, ExpireKeeps DEF LockExpires, LockIsLost

LEMMA StutteringKeeps ==
    ASSUME IInv, UNCHANGED vars PROVE IInv'
BY DEF vars, IInv, TypeOK, LocksAreExclusive, QueuedHasDeliveryLeft, PositionsAreJustified,
       OneTransactionPerEvent, EffectsHappenOnce, CompletedWasHandled, HasUncommitted, Event

(***************************************************************************)
(* The strengthened invariant holds in every reachable state.              *)
(***************************************************************************)
THEOREM Invariance == Spec => []IInv
<1>1. IInv /\ [Next]_vars => IInv'
  BY ReceiveKeeps, DecodeKeeps, CheckInboxKeeps, SaveChangesKeeps, CannotReadKeeps,
     CommitKeeps, CompleteKeeps, ThrowKeeps, StopKeeps, LocksKeep, StutteringKeeps DEF Next
<1>2. QED
  BY Begins, <1>1, PTL DEF Spec

(***************************************************************************)
(* The types hold, and no message is delivered more than MaxDeliveryCount  *)
(* times.                                                                  *)
(***************************************************************************)
THEOREM TypeCorrect == Spec => []TypeOK
<1>1. IInv => TypeOK
  BY DEF IInv
<1>2. QED
  BY Invariance, <1>1, PTL

(***************************************************************************)
(* An event takes effect at most once, exactly when its inbox row stands.  *)
(***************************************************************************)
THEOREM EffectsAreIdempotent == Spec => []EffectsHappenOnce
<1>1. IInv => EffectsHappenOnce
  BY DEF IInv
<1>2. QED
  BY Invariance, <1>1, PTL

(***************************************************************************)
(* A message is completed only if its event has been handled or needs no   *)
(* handling.                                                               *)
(***************************************************************************)
THEOREM CompletionIsJustified == Spec => []CompletedWasHandled
<1>1. IInv => CompletedWasHandled
  BY DEF IInv
<1>2. QED
  BY Invariance, <1>1, PTL

(***************************************************************************)
(* Two transactions that are open at once carry different events.          *)
(***************************************************************************)
THEOREM TransactionsAreApart == Spec => []OneTransactionPerEvent
<1>1. IInv => OneTransactionPerEvent
  BY DEF IInv
<1>2. QED
  BY Invariance, <1>1, PTL
-----------------------------------------------------------------------------
PromiseVars == <<inbox, Settled>>
Ends == {"completed", "dead"}
Places == Ends \cup {"queued", "locked"}

(* A step that settles nothing and handles nothing. *)
LEMMA NothingSettled ==
    ASSUME UNCHANGED <<inbox, place>> PROVE UNCHANGED PromiseVars
BY DEF PromiseVars, Settled

(* What becomes of Settled when one message is put somewhere. *)
LEMMA SettledUpdate ==
    ASSUME NEW m \in Messages, NEW where, place \in [Messages -> Places],
           place[m] \notin Ends, place' = [place EXCEPT ![m] = where]
    PROVE  /\ Settled[m] = "no"
           /\ where \in Ends => Settled' = [Settled EXCEPT ![m] = where]
           /\ where \notin Ends => Settled' = Settled
<1> USE DEF Settled, Ends
<1>1. Settled[m] = "no"
  OBVIOUS
<1>2. \A n \in Messages : place'[n] = IF n = m THEN where ELSE place[n]
  OBVIOUS
<1>3. ASSUME where \in Ends PROVE Settled' = [Settled EXCEPT ![m] = where]
  BY <1>2, <1>3
<1>4. ASSUME where \notin Ends PROVE Settled' = Settled
  BY <1>1, <1>2, <1>4
<1>5. QED
  BY <1>1, <1>3, <1>4

(* A message is put somewhere, with a reason if it is completed. *)
LEMMA PuttingRefines ==
    ASSUME IInv, NEW m \in Messages, NEW where \in {"queued", "completed", "dead"},
           place[m] = "locked", place' = [place EXCEPT ![m] = where], UNCHANGED inbox,
           where = "completed" => (EventOf[m] \in Handled => EventOf[m] \in inbox)
    PROVE  Promise!Next \/ UNCHANGED PromiseVars
<1>1. place \in [Messages -> Places] /\ place[m] \notin Ends
  BY DEF IInv, TypeOK, Ends, Places
<1>2. /\ Settled[m] = "no"
      /\ where \in Ends => Settled' = [Settled EXCEPT ![m] = where]
      /\ where \notin Ends => Settled' = Settled
  BY <1>1, SettledUpdate
<1>3. CASE where = "queued"
  BY <1>2, <1>3 DEF Ends, PromiseVars
<1>4. CASE where = "completed"
  <2>1. Promise!Acknowledge(m)
    BY <1>2, <1>4 DEF Promise!Acknowledge, Ends
  <2>2. QED
    BY <2>1 DEF Promise!Next
<1>5. CASE where = "dead"
  <2>1. Promise!GiveUp(m)
    BY <1>2, <1>5 DEF Promise!GiveUp, Ends
  <2>2. QED
    BY <2>1 DEF Promise!Next
<1>6. QED
  BY <1>3, <1>4, <1>5

LEMMA SettleRefines ==
    ASSUME IInv, NEW c \in Consumers, pc[c] # Idle,
           NEW where \in {"queued", "completed", "dead"},
           where = "completed" => (Event(c) \in Handled => Event(c) \in inbox),
           Settle(c, where), UNCHANGED inbox
    PROVE  Promise!Next \/ UNCHANGED PromiseVars
<1>1. CASE lockedBy[holds[c]] = c
  <2>1. holds[c] \in Messages /\ place[holds[c]] = "locked"
    BY <1>1, HeldIsAMessage, NamesAreDistinct DEF IInv, LocksAreExclusive
  <2>2. place' = [place EXCEPT ![holds[c]] = where]
    BY <1>1 DEF Settle
  <2>3. QED
    BY <2>1, <2>2, PuttingRefines DEF Event
<1>2. CASE lockedBy[holds[c]] # c
  BY <1>2, NothingSettled DEF Settle
<1>3. QED
  BY <1>1, <1>2

LEMMA CommitRefines ==
    ASSUME IInv, NEW c \in Consumers, Commit(c) PROVE Promise!Next
<1>1. pc[c] = "commit" /\ pc[c] # Idle
  BY DEF Commit, Idle
<1>2. Event(c) \in EventIds
  BY <1>1, HeldIsAMessage
<1>3. Event(c) \in Handled \ inbox
  BY <1>1 DEF IInv, PositionsAreJustified
<1>4. inbox' = inbox \cup {Event(c)} /\ Settled' = Settled
  BY DEF Commit, Event, Settled
<1>5. Promise!Handle(Event(c))
  BY <1>3, <1>4 DEF Promise!Handle
<1>6. QED
  BY <1>2, <1>5 DEF Promise!Next

LEMMA ConsumerRefines ==
    ASSUME IInv, NEW c \in Consumers,
           \/ Decode(c) \/ CheckInbox(c) \/ SaveChanges(c) \/ CannotRead(c)
           \/ Commit(c) \/ Complete(c) \/ Throw(c) \/ Stop(c)
    PROVE  Promise!Next \/ UNCHANGED PromiseVars
<1>1. pc[c] # Idle /\ holds[c] \in Messages
  <2>1. pc[c] # Idle
    BY DEF Decode, CheckInbox, SaveChanges, CannotRead, Commit, Complete, Throw, Stop, Idle
  <2>2. QED
    BY <2>1, HeldIsAMessage
<1>2. AfterFailure(holds[c]) \in {"queued", "dead"}
  BY <1>1, AfterFailureIsAllowed
<1>3. CASE Decode(c)
  <2>1. CASE holds[c] \in Garbled
    BY <1>1, <1>3, <2>1, SettleRefines DEF Decode
  <2>2. CASE holds[c] \notin Garbled
    BY <1>3, <2>2, NothingSettled DEF Decode
  <2>3. QED
    BY <2>1, <2>2
<1>4. CASE CheckInbox(c)
  BY <1>4, NothingSettled DEF CheckInbox
<1>5. CASE SaveChanges(c)
  <2>1. CASE Event(c) \in inbox
    <3>1. Settle(c, AfterFailure(holds[c])) /\ UNCHANGED inbox
      BY <1>5, <2>1 DEF SaveChanges, Event
    <3>2. QED
      BY <1>1, <1>2, <3>1, SettleRefines
  <2>2. CASE Event(c) \notin inbox
    BY <1>5, <2>2, NothingSettled DEF SaveChanges, Event
  <2>3. QED
    BY <2>1, <2>2
<1>6. CASE CannotRead(c)
  BY <1>1, <1>2, <1>6, SettleRefines DEF CannotRead
<1>7. CASE Commit(c)
  BY <1>7, CommitRefines
<1>8. CASE Complete(c)
  <2>1. Event(c) \in Handled => Event(c) \in inbox
    BY <1>8 DEF Complete, IInv, PositionsAreJustified
  <2>2. QED
    BY <1>1, <1>8, <2>1, SettleRefines DEF Complete
<1>9. CASE Throw(c)
  BY <1>1, <1>2, <1>9, SettleRefines DEF Throw
<1>10. CASE Stop(c)
  BY <1>10, NothingSettled DEF Stop
<1>11. QED
  BY <1>3, <1>4, <1>5, <1>6, <1>7, <1>8, <1>9, <1>10

LEMMA ReceiveRefines ==
    ASSUME IInv, NEW c \in Consumers, NEW m \in Messages, Receive(c, m)
    PROVE  UNCHANGED PromiseVars
<1>1. place \in [Messages -> Places] /\ place[m] \notin Ends
  BY DEF Receive, IInv, TypeOK, Ends, Places
<1>2. place' = [place EXCEPT ![m] = "locked"] /\ UNCHANGED inbox
  BY DEF Receive
<1>3. QED
  BY <1>1, <1>2, SettledUpdate DEF Ends, PromiseVars

LEMMA ExpiryRefines ==
    ASSUME IInv, NEW m \in Messages, LockExpires(m) \/ LockIsLost(m)
    PROVE  Promise!Next \/ UNCHANGED PromiseVars
<1>1. /\ place[m] = "locked" /\ place' = [place EXCEPT ![m] = AfterFailure(m)]
      /\ UNCHANGED inbox
  BY DEF LockExpires, LockIsLost, Abandoned, Expire
<1>2. AfterFailure(m) \in {"queued", "dead"}
  BY AfterFailureIsAllowed
<1>3. QED
  BY <1>1, <1>2, PuttingRefines

LEMMA BeginsRefined == Init => Promise!Init
BY DEF Init, Promise!Init, Settled

LEMMA NextRefines ==
    IInv /\ [Next]_vars => [Promise!Next]_PromiseVars
<1>1. ASSUME IInv, UNCHANGED vars PROVE UNCHANGED PromiseVars
  BY <1>1, NothingSettled DEF vars
<1>2. QED
  BY <1>1, ConsumerRefines, ReceiveRefines, ExpiryRefines DEF Next

(***************************************************************************)
(* The consumers keep the promise of EventHandling: whatever is stopped,   *)
(* repeated or raced for, each step handles one event for the first time,  *)
(* settles one message for good, or changes nothing of either.             *)
(***************************************************************************)
THEOREM ConsumerKeepsPromise == Spec => ImplementsPromise
  BY BeginsRefined, NextRefines, Invariance, PTL
     DEF Spec, ImplementsPromise, Promise!Spec, Promise!vars, PromiseVars
=============================================================================
