--------------------------- MODULE RequestProofs ----------------------------
(***************************************************************************)
(* Three places where requests are answered late, twice or not at all; the *)
(* modules have no name in common.                                         *)
(*                                                                         *)
(* CircuitBreaker: for any number of requests on a circuit, any threshold  *)
(* and any number of attempts, the counter is bounded, and what it has     *)
(* reached is acted upon.                                                  *)
(*                                                                         *)
(* EmailConsumer: for any number of messages, deliveries and faults, what  *)
(* is logged agrees with where the messages are.                           *)
(*                                                                         *)
(* Session: for any number of accounts and clicks, the shell shows whose   *)
(* session the cookie is, and the administration page is guarded.          *)
(***************************************************************************)
EXTENDS CircuitBreaker, EmailConsumer, Session, FiniteSetTheorems, TLAPS

Acting == {r \in Slots : request[r].at \in {"opening", "resetting"}}

(***************************************************************************)
(* TypeOK bounds the counter by the number of requests, and                *)
(* ThresholdIsActedOn speaks of one request.  What the steps keep is in    *)
(* between: each increment beyond the last one below the threshold was     *)
(* made by a request that has yet to reset the counter.                    *)
(***************************************************************************)
CountIsCovered == failures < FailureThreshold + Cardinality(Acting)

IInv ==
    /\ request \in [Slots -> RequestStates]
    /\ failures \in Nat /\ open \in BOOLEAN /\ healthy \in BOOLEAN
    /\ downs \in 0 .. Downtimes
    /\ CountIsCovered

LEMMA ActingIsFinite ==
    /\ IsFiniteSet(Acting) /\ Cardinality(Acting) \in Nat
    /\ Cardinality(Acting) <= Cardinality(Slots) /\ Cardinality(Slots) \in Nat
    /\ Cardinality(Acting) > 0 => \E r \in Slots : request[r].at \in {"opening", "resetting"}
<1>1. Acting \subseteq Slots /\ IsFiniteSet(Slots)
  BY CircuitAssumption DEF Acting
<1>2. IsFiniteSet(Acting) /\ Cardinality(Acting) <= Cardinality(Slots)
  BY <1>1, FS_Subset
<1>3. Cardinality(Acting) \in Nat /\ Cardinality(Slots) \in Nat
  BY <1>1, <1>2, FS_CardinalityType
<1>4. Acting = {} => Cardinality(Acting) = 0
  BY FS_EmptySet
<1> QED BY <1>2, <1>3, <1>4 DEF Acting

LEMMA ActingIsFiniteNext == IsFiniteSet(Acting') /\ Cardinality(Acting') \in Nat
<1>1. Acting' \subseteq Slots /\ IsFiniteSet(Slots)
  BY CircuitAssumption DEF Acting
<1> QED BY <1>1, FS_Subset, FS_CardinalityType

LEMMA InvImplies == IInv => TypeOK /\ ThresholdIsActedOn
<1> SUFFICES ASSUME IInv PROVE TypeOK /\ ThresholdIsActedOn
  OBVIOUS
<1>1. FailureThreshold \in Nat /\ failures \in Nat /\ failures < FailureThreshold + Cardinality(Acting)
  BY CircuitAssumption DEF IInv, CountIsCovered
<1>2. failures \in 0 .. FailureThreshold + Cardinality(Slots) - 1
  BY <1>1, ActingIsFinite
<1>3. ThresholdIsActedOn
  BY <1>1, ActingIsFinite DEF ThresholdIsActedOn
<1> QED BY <1>2, <1>3 DEF IInv, TypeOK, RequestStates

LEMMA InitEstablishes == Init => IInv
<1> SUFFICES ASSUME Init PROVE IInv
  OBVIOUS
<1>1. request \in [Slots -> RequestStates]
  BY DEF Init, RequestStates
<1>2. failures = 0 /\ FailureThreshold \in Nat \ {0} /\ downs \in 0 .. Downtimes
  BY CircuitAssumption DEF Init
<1>3. CountIsCovered
  BY <1>2, ActingIsFinite DEF CountIsCovered
<1>4. open \in BOOLEAN /\ healthy \in BOOLEAN
  BY DEF Init
<1> QED BY <1>1, <1>2, <1>3, <1>4 DEF IInv

(* A step that moves a request among the states in which it has not to act. *)
LEMMA StillCovered ==
    ASSUME IInv, NEW r \in Slots, NEW next \in RequestStates, Goes(r, next),
           failures' = failures \/ failures' = 0,
           request[r].at = "resetting" => failures' = 0,
           request[r].at = "opening" => next.at = "resetting"
    PROVE  request' \in [Slots -> RequestStates] /\ failures' \in Nat /\ CountIsCovered'
<1>1. request' \in [Slots -> RequestStates] /\ failures' \in Nat
  BY DEF IInv, Goes
<1>2. CASE failures' = 0
  <2>1. FailureThreshold \in Nat \ {0} /\ Cardinality(Acting') \in Nat
    BY CircuitAssumption, ActingIsFiniteNext
  <2> QED BY <1>1, <1>2, <2>1 DEF CountIsCovered
<1>3. CASE failures' = failures /\ request[r].at # "resetting"
  <2>1. Acting \subseteq Acting'
    BY <1>3 DEF Acting, Goes, IInv
  <2>2. Cardinality(Acting) <= Cardinality(Acting')
    BY <2>1, ActingIsFiniteNext, FS_Subset
  <2>3. FailureThreshold \in Nat /\ failures \in Nat
    BY CircuitAssumption DEF IInv
  <2> QED BY <1>1, <1>3, <2>2, <2>3, ActingIsFinite, ActingIsFiniteNext DEF CountIsCovered,
             IInv
<1> QED BY <1>1, <1>2, <1>3

(* The increment that reaches the threshold is covered by the request that made it. *)
LEMMA IncrementIsCovered ==
    ASSUME IInv, NEW r \in Slots, Increment(r)
    PROVE  request' \in [Slots -> RequestStates] /\ failures' \in Nat /\ CountIsCovered'
<1>1. /\ request[r].at = "failing" /\ failures' = failures + 1 /\ failures \in Nat
      /\ failures < FailureThreshold + Cardinality(Acting) /\ FailureThreshold \in Nat
  BY CircuitAssumption DEF Increment, At, IInv, CountIsCovered
<1>2. request' \in [Slots -> RequestStates]
  BY DEF Increment, Goes, IInv, RequestStates
<1>3. CASE failures' >= FailureThreshold
  <2>1. r \notin Acting /\ Acting' = Acting \cup {r}
    BY <1>1, <1>3 DEF Increment, Goes, IInv, Acting
  <2>2. Cardinality(Acting') = Cardinality(Acting) + 1
    BY <2>1, ActingIsFinite, FS_AddElement
  <2> QED BY <1>1, <1>2, <2>2, ActingIsFinite DEF CountIsCovered
<1>4. CASE ~ (failures' >= FailureThreshold)
  BY <1>1, <1>2, <1>4, ActingIsFiniteNext DEF CountIsCovered
<1> QED BY <1>3, <1>4

LEMMA StatesAreStates ==
    /\ NoCall \in RequestStates
    /\ \A b \in BOOLEAN : Sent(b, 1) \in RequestStates
    /\ \A at \in {"failing", "opening", "resetting", "succeeding"} : [at |-> at] \in RequestStates
<1>1. 1 \in 1 .. MaxAttempts
  BY CircuitAssumption
<1>2. Sent(TRUE, 1) \in RequestStates
  BY <1>1 DEF RequestStates, Sent
<1>3. Sent(FALSE, 1) \in RequestStates
  BY DEF RequestStates, Sent
<1> QED BY <1>2, <1>3 DEF RequestStates

LEMMA AttemptsAreCounted ==
    ASSUME NEW q \in RequestStates
    PROVE  /\ q.at = "sent" /\ q.retryable /\ q.attempt < MaxAttempts
                  => Waiting(q.attempt) \in RequestStates
           /\ q.at = "waiting" => Sent(TRUE, q.attempt + 1) \in RequestStates
<1>1. CASE q \in [at : {"sent"}, retryable : {TRUE}, attempt : 1 .. MaxAttempts]
  <2>1. ASSUME q.attempt < MaxAttempts PROVE q.attempt \in 1 .. MaxAttempts - 1
    BY <1>1, <2>1, CircuitAssumption
  <2> QED BY <1>1, <2>1 DEF RequestStates, Waiting
<1>2. CASE q \in [at : {"sent"}, retryable : {FALSE}, attempt : {1}]
  BY <1>2
<1>3. CASE q \in [at : {"waiting"}, retryable : {TRUE}, attempt : 1 .. MaxAttempts - 1]
  <2>1. q.attempt + 1 \in 1 .. MaxAttempts
    BY <1>3, CircuitAssumption
  <2> QED BY <1>3, <2>1 DEF RequestStates, Sent
<1>4. CASE q = NoCall
  BY <1>4 DEF NoCall
<1>5. CASE q \in [at : {"failing", "opening", "resetting", "succeeding"}]
  BY <1>5
<1> QED BY <1>1, <1>2, <1>3, <1>4, <1>5 DEF RequestStates

LEMMA StepKeepsInv == IInv /\ [Next]_vars => IInv'
<1> SUFFICES ASSUME IInv, [Next]_vars PROVE IInv'
  OBVIOUS
<1> DEFINE Kept == /\ request' \in [Slots -> RequestStates]
                   /\ failures' \in Nat /\ CountIsCovered'
<1>a. /\ \A b \in BOOLEAN : Sent(b, 1) \in RequestStates /\ Sent(b, 1).at = "sent"
      /\ \A n : Sent(TRUE, n).at = "sent" /\ Waiting(n).at = "waiting"
      /\ NoCall \in RequestStates /\ NoCall.at = "idle"
      /\ [at |-> "failing"] \in RequestStates /\ [at |-> "succeeding"] \in RequestStates
      /\ [at |-> "resetting"] \in RequestStates
  BY StatesAreStates DEF Sent, Waiting, NoCall
<1>b. \A r \in Slots : request[r] \in RequestStates
  BY DEF IInv
<1>1. ASSUME NEW r \in Slots, NEW retryable \in BOOLEAN, Call(r, retryable) PROVE Kept
  BY <1>1, <1>a, StillCovered DEF Call, At
<1>2. ASSUME NEW r \in Slots, Succeeds(r) PROVE Kept
  BY <1>2, <1>a, StillCovered DEF Succeeds, At
<1>3. ASSUME NEW r \in Slots, Fails(r) PROVE Kept
  <2>1. PICK next \in RequestStates : Goes(r, next)
    BY <1>3, <1>a, <1>b, AttemptsAreCounted DEF Fails, At
  <2> QED BY <1>3, <2>1, StillCovered DEF Fails, At
<1>4. ASSUME NEW r \in Slots, Retry(r) PROVE Kept
  <2>1. Sent(TRUE, request[r].attempt + 1) \in RequestStates
    BY <1>4, <1>b, AttemptsAreCounted DEF Retry, At
  <2> QED BY <1>4, <2>1, StillCovered DEF Retry, At
<1>5. ASSUME NEW r \in Slots, TimesOut(r) \/ Abandon(r) PROVE Kept
  <2>1. Cancelled(r) /\ failures' = failures
    BY <1>5 DEF TimesOut, Abandon
  <2>2. PICK next \in RequestStates : Goes(r, next)
    BY <2>1, <1>a DEF Cancelled
  <2>3. request[r].at = "sent" \/ request[r].at = "waiting"
    BY <2>1 DEF Cancelled, At
  <2> QED BY <2>1, <2>2, <2>3, StillCovered
<1>6. ASSUME NEW r \in Slots, RecordSuccess(r) PROVE Kept
  BY <1>6, <1>a, StillCovered DEF RecordSuccess, At
<1>7. ASSUME NEW r \in Slots, Increment(r) PROVE Kept
  BY <1>7, IncrementIsCovered
<1>8. ASSUME NEW r \in Slots, Open(r) PROVE Kept
  BY <1>8, <1>a, StillCovered DEF Open, At
<1>9. ASSUME NEW r \in Slots, Reset(r) PROVE Kept
  BY <1>9, <1>a, StillCovered DEF Reset, At
<1>10. ASSUME UNCHANGED <<request, failures>> PROVE Kept
  BY <1>10 DEF IInv, CountIsCovered, Acting
<1>11. Kept
  BY <1>1, <1>2, <1>3, <1>4, <1>5, <1>6, <1>7, <1>8, <1>9, <1>10
  DEF Next, Step, Elapse, GoesDown, ComesBack, vars
<1>12. open' \in BOOLEAN
  BY DEF IInv, Next, Step, Call, Succeeds, Fails, Retry, TimesOut, Abandon,
     RecordSuccess, Increment, Open, Reset, Elapse, GoesDown, ComesBack, vars
<1>13. Destination \/ GoesDown \/ ComesBack
  BY DEF Next, Step, Call, Succeeds, Fails, Retry, TimesOut, Abandon,
     RecordSuccess, Increment, Open, Reset, Elapse, Destination, vars
<1>14. healthy' \in BOOLEAN /\ downs' \in 0 .. Downtimes
  <2>1. CASE Destination
    <3>1. healthy' = healthy /\ downs' = downs
      BY <2>1 DEF Destination
    <3> QED BY <3>1 DEF IInv
  <2>2. CASE GoesDown
    <3>1. downs + 1 \in 0 .. Downtimes
      BY <2>2, CircuitAssumption DEF IInv, GoesDown
    <3> QED BY <2>2, <3>1 DEF GoesDown
  <2>3. CASE ComesBack
    BY <2>3 DEF IInv, ComesBack
  <2> QED BY <1>13, <2>1, <2>2, <2>3
<1> QED BY <1>11, <1>12, <1>14 DEF IInv

(***************************************************************************)
(* Only safe methods are repeated, no request makes more attempts than     *)
(* SendAsync allows, and the shared counter stays below the threshold plus *)
(* the number of requests.                                                 *)
(***************************************************************************)
THEOREM TypeCorrect == Spec => []TypeOK
<1> QED BY InitEstablishes, StepKeepsInv, InvImplies, PTL DEF Spec

(***************************************************************************)
(* RecordFailure leaves no count at the threshold behind: whoever          *)
(* increments, resets or succeeds in between, a request is on its way to   *)
(* open the circuit or to reset the counter.                               *)
(***************************************************************************)
THEOREM ThresholdHolds == Spec => []ThresholdIsActedOn
<1> QED BY InitEstablishes, StepKeepsInv, InvImplies, PTL DEF Spec
-----------------------------------------------------------------------------
(***************************************************************************)
(* The e-mail queue: where a message may be while the consumer holds it.   *)
(* A lock that is valid is that of the message held; a row is logged for   *)
(* requests only; and whoever has a row is completed, about to be, or has  *)
(* had its delivery cut short.                                             *)
(***************************************************************************)
(* How a message, its row and its deliveries fit each other. *)
Settled(m) ==
    /\ place[m] \in {"unsent", "lost"} => deliveries[m] = 0 /\ logged[m] = 0
    /\ place[m] = "queued" => deliveries[m] < MaxDeliveryCount
    /\ place[m] = "completed" => logged[m] > 0
    /\ place[m] = "dead" /\ logged[m] = 0 /\ m \in Requests => deliveries[m] = MaxDeliveryCount
    /\ m \notin Requests => logged[m] = 0
    /\ logged[m] > 1 => m \in suspects
    /\ logged[m] > 0 => \/ m \in suspects \/ place[m] = "completed"
                        \/ held = m /\ step = "complete"

(* What the consumer holds, and how far it is with it. *)
HeldOnce ==
    /\ locked => held # NoMessage /\ place[held] = "locked"
    /\ held # NoMessage => place[held] \notin {"unsent", "lost", "completed"}
    /\ step \in {"send", "complete"} => held \in Requests
    /\ step = "complete" => logged[held] > 0

QueueInv == EmailTypeOK /\ HeldOnce /\ \A m \in Messages : Settled(m)

LEMMA StepKeepsQueue ==
  ASSUME QueueInv, [EmailNext]_emailVars
  PROVE  QueueInv'
<1>1. MaxDeliveryCount \in Nat /\ MaxDeliveryCount > 0 /\ MaxFaults \in Nat
      /\ NoMessage \notin Messages
  BY EmailAssumption, NoMessageIsNone
<1>2. Requests \subseteq Messages
  BY DEF Messages
<1>3. EmailTypeOK /\ HeldOnce /\ \A n \in Messages : Settled(n)
  BY DEF QueueInv
<1> USE DEF consumer, Fault, Free
<1>4. ASSUME NEW m \in Messages, Publish(m) \/ PublishFails(m)
      PROVE  QueueInv'
  <2>1. EmailTypeOK'
    BY <1>1, <1>3, <1>4 DEF EmailTypeOK, Publish, PublishFails
  <2>2. HeldOnce'
    BY <1>3, <1>4 DEF EmailTypeOK, HeldOnce, Publish, PublishFails
  <2>3. ASSUME NEW n \in Messages
        PROVE  Settled(n)'
    BY <1>1, <1>3, <1>4 DEF EmailTypeOK, Settled, Publish, PublishFails
  <2> QED
    BY <2>1, <2>2, <2>3 DEF QueueInv
<1>5. ASSUME NEW m \in Messages, Receive(m)
      PROVE  QueueInv'
  <2>1. EmailTypeOK'
    BY <1>1, <1>3, <1>5 DEF EmailTypeOK, Settled, Receive
  <2>2. HeldOnce'
    BY <1>1, <1>3, <1>5 DEF EmailTypeOK, HeldOnce, Receive
  <2>3. ASSUME NEW n \in Messages
        PROVE  Settled(n)'
    BY <1>3, <1>5 DEF EmailTypeOK, Settled, Receive
  <2> QED
    BY <2>1, <2>2, <2>3 DEF QueueInv
<1>6. ASSUME NEW m \in Messages, LockExpires(m)
      PROVE  QueueInv'
  <2>1. EmailTypeOK'
    <3>1. place' \in [Messages -> {"unsent", "queued", "locked", "completed", "dead", "expired", "lost"}]
      BY <1>3, <1>6 DEF EmailTypeOK, LockExpires, AfterFailure
    <3>2. faults' \in 0 .. MaxFaults
      BY <1>1, <1>3, <1>6 DEF EmailTypeOK, LockExpires
    <3>3. locked' \in BOOLEAN
      BY <1>3, <1>6 DEF EmailTypeOK, LockExpires
    <3>4. suspects' \subseteq Messages
      BY <1>3, <1>6 DEF EmailTypeOK, LockExpires
    <3>5. /\ held' \in Messages \cup {NoMessage} /\ step' \in {"idle", "read", "send", "complete"}
          /\ held' = NoMessage <=> step' = "idle"
      BY <1>3, <1>6 DEF EmailTypeOK, LockExpires
    <3>6. UNCHANGED <<answer, deliveries, logged>>
      BY <1>6 DEF LockExpires, AfterFailure
    <3> QED
      BY <1>3, <3>1, <3>2, <3>3, <3>4, <3>5, <3>6 DEF EmailTypeOK
  <2>2. HeldOnce'
    BY <1>3, <1>6 DEF HeldOnce, LockExpires, AfterFailure
  <2>3. ASSUME NEW n \in Messages
        PROVE  Settled(n)'
    BY <1>1, <1>3, <1>6 DEF EmailTypeOK, Settled, LockExpires, AfterFailure
  <2> QED
    BY <2>1, <2>2, <2>3 DEF QueueInv
<1>7. ASSUME NEW m \in Messages, Expires(m)
      PROVE  QueueInv'
  <2>1. EmailTypeOK'
    BY <1>1, <1>3, <1>7 DEF EmailTypeOK, Expires
  <2>2. HeldOnce'
    BY <1>3, <1>7 DEF HeldOnce, Expires
  <2>3. ASSUME NEW n \in Messages
        PROVE  Settled(n)'
    BY <1>3, <1>7 DEF Settled, Expires
  <2> QED
    BY <2>1, <2>2, <2>3 DEF QueueInv
<1>8. ASSUME Read
      PROVE  QueueInv'
  <2>1. EmailTypeOK'
    BY <1>3, <1>8 DEF EmailTypeOK, Read, Settle
  <2>2. HeldOnce'
    BY <1>3, <1>8 DEF HeldOnce, Read, Settle
  <2>3. ASSUME NEW n \in Messages
        PROVE  Settled(n)'
    BY <1>3, <1>8 DEF EmailTypeOK, Settled, Read, Settle
  <2> QED
    BY <2>1, <2>2, <2>3 DEF QueueInv
<1>9. ASSUME SendEmail
      PROVE  QueueInv'
  <2>1. EmailTypeOK'
    BY <1>3, <1>9 DEF EmailTypeOK, SendEmail
  <2>2. HeldOnce'
    BY <1>3, <1>9 DEF EmailTypeOK, HeldOnce, SendEmail
  <2>3. ASSUME NEW n \in Messages
        PROVE  Settled(n)'
    <3>1. held \in Requests /\ held # NoMessage /\ held' = held /\ place' = place
      BY <1>1, <1>2, <1>3, <1>9 DEF HeldOnce, SendEmail
    <3>2. logged[n] \in Nat /\ logged'[n] = IF n = held THEN logged[n] + 1 ELSE logged[n]
      BY <1>3, <1>9 DEF EmailTypeOK, SendEmail
    <3>3. step = "send" /\ step' = "complete" /\ UNCHANGED <<deliveries, suspects>>
      BY <1>9 DEF SendEmail
    <3>4. place[held] \notin {"unsent", "lost", "completed"} /\ Settled(n)
      BY <1>3, <2>3, <3>1 DEF HeldOnce
    <3>5. CASE n = held
      <4>1. logged[n] > 0 => n \in suspects
        BY <3>3, <3>4, <3>5 DEF Settled
      <4> QED
        BY <3>1, <3>2, <3>3, <3>4 DEF Settled
    <3>6. CASE n # held
      BY <3>1, <3>2, <3>3, <3>4 DEF Settled
    <3> QED
      BY <3>5, <3>6
  <2> QED
    BY <2>1, <2>2, <2>3 DEF QueueInv
<1>10. ASSUME Complete
      PROVE  QueueInv'
  <2>1. EmailTypeOK'
    BY <1>3, <1>10 DEF EmailTypeOK, Complete, Settle
  <2>2. HeldOnce'
    BY <1>10 DEF HeldOnce, Complete, Settle
  <2>3. ASSUME NEW n \in Messages
        PROVE  Settled(n)'
    BY <1>3, <1>10 DEF EmailTypeOK, HeldOnce, Settled, Complete, Settle
  <2> QED
    BY <2>1, <2>2, <2>3 DEF QueueInv
<1>11. ASSUME Throw
      PROVE  QueueInv'
  <2>1. EmailTypeOK'
    <3>1. place' \in [Messages -> {"unsent", "queued", "locked", "completed", "dead", "expired", "lost"}]
      BY <1>3, <1>11 DEF EmailTypeOK, Throw, Settle, AfterFailure
    <3>2. faults' \in 0 .. MaxFaults
      BY <1>1, <1>3, <1>11 DEF EmailTypeOK, Throw
    <3>3. locked' \in BOOLEAN
      BY <1>11 DEF Throw, Settle
    <3>4. suspects' \subseteq Messages
      BY <1>3, <1>11 DEF EmailTypeOK, Throw
    <3>5. /\ held' \in Messages \cup {NoMessage} /\ step' \in {"idle", "read", "send", "complete"}
          /\ held' = NoMessage <=> step' = "idle"
      BY <1>11 DEF Throw, Settle
    <3>6. UNCHANGED <<answer, deliveries, logged>>
      BY <1>11 DEF Throw, Settle, AfterFailure
    <3> QED
      BY <1>3, <3>1, <3>2, <3>3, <3>4, <3>5, <3>6 DEF EmailTypeOK
  <2>2. HeldOnce'
    BY <1>11 DEF HeldOnce, Throw, Settle
  <2>3. ASSUME NEW n \in Messages
        PROVE  Settled(n)'
    BY <1>1, <1>3, <1>11 DEF EmailTypeOK, HeldOnce, Settled, Throw, Settle, AfterFailure
  <2> QED
    BY <2>1, <2>2, <2>3 DEF QueueInv
<1>12. ASSUME Stop
      PROVE  QueueInv'
  <2>1. EmailTypeOK'
    <3>1. place' \in [Messages -> {"unsent", "queued", "locked", "completed", "dead", "expired", "lost"}]
      BY <1>3, <1>12 DEF EmailTypeOK, Stop
    <3>2. faults' \in 0 .. MaxFaults
      BY <1>1, <1>3, <1>12 DEF EmailTypeOK, Stop
    <3>3. locked' \in BOOLEAN
      BY <1>3, <1>12 DEF EmailTypeOK, Stop
    <3>4. suspects' \subseteq Messages
      BY <1>3, <1>12 DEF EmailTypeOK, Stop
    <3>5. /\ held' \in Messages \cup {NoMessage} /\ step' \in {"idle", "read", "send", "complete"}
          /\ held' = NoMessage <=> step' = "idle"
      BY <1>3, <1>12 DEF EmailTypeOK, Stop
    <3>6. UNCHANGED <<answer, deliveries, logged>>
      BY <1>12 DEF Stop
    <3> QED
      BY <1>3, <3>1, <3>2, <3>3, <3>4, <3>5, <3>6 DEF EmailTypeOK
  <2>2. HeldOnce'
    BY <1>12 DEF HeldOnce, Stop
  <2>3. ASSUME NEW n \in Messages
        PROVE  Settled(n)'
    BY <1>3, <1>12 DEF Settled, Stop
  <2> QED
    BY <2>1, <2>2, <2>3 DEF QueueInv
<1>13. ASSUME UNCHANGED emailVars
      PROVE  QueueInv'
  <2>1. EmailTypeOK'
    BY <1>3, <1>13 DEF EmailTypeOK, emailVars
  <2>2. HeldOnce'
    BY <1>3, <1>13 DEF HeldOnce, emailVars
  <2>3. ASSUME NEW n \in Messages
        PROVE  Settled(n)'
    BY <1>3, <1>13 DEF Settled, emailVars
  <2> QED
    BY <2>1, <2>2, <2>3 DEF QueueInv
<1> QED
  BY <1>4, <1>5, <1>6, <1>7, <1>8, <1>9, <1>10, <1>11, <1>12, <1>13 DEF EmailNext

(***************************************************************************)
(* A request for an e-mail is completed once its row is logged, logged     *)
(* once unless its delivery was cut short, and given up without a row only *)
(* after its last delivery.                                                *)
(***************************************************************************)
THEOREM LogAndQueueAgree == EmailSpec => []LogMatchesQueue
<1>1. EmailInit => QueueInv
  <2>1. 0 \in 0 .. MaxDeliveryCount /\ 0 \in 0 .. MaxFaults /\ MaxDeliveryCount > 0
    BY EmailAssumption
  <2>2. EmailInit => EmailTypeOK
    <3> SUFFICES ASSUME EmailInit
                 PROVE  EmailTypeOK
      OBVIOUS
    <3>1. /\ place \in [Messages -> {"unsent", "queued", "locked", "completed", "dead", "expired", "lost"}]
          /\ answer \in [Messages -> {"none", "success", "delayed", "failure"}]
      BY DEF EmailInit
    <3>2. deliveries \in [Messages -> 0 .. MaxDeliveryCount] /\ logged \in [Messages -> Nat]
      BY <2>1 DEF EmailInit
    <3> QED
      BY <2>1 DEF EmailInit, EmailTypeOK
  <2>3. EmailInit => HeldOnce
    BY DEF EmailInit, HeldOnce
  <2>4. EmailInit => \A m \in Messages : Settled(m)
    BY DEF EmailInit, Settled
  <2> QED
    BY <2>2, <2>3, <2>4 DEF QueueInv
<1>2. QueueInv => LogMatchesQueue
  BY DEF QueueInv, LogMatchesQueue, EmailTypeOK, Settled
<1> QED
  BY <1>1, <1>2, StepKeepsQueue, PTL DEF EmailSpec
-----------------------------------------------------------------------------
(***************************************************************************)
(* The session: the types, in parts, with what they do not say: no form    *)
(* returns to the administration page, and who registers is somebody.      *)
(***************************************************************************)
Answers == {"awaited", "success", "error"}
MeCall      == {Idle} \cup [op : {"me"}, reply : Answers, data : Shown]
GuardCall   == {Idle} \cup [op : Guarded, reply : Answers, data : Shown]
SignInCall  == {Idle} \cup [op : {"login"}, reply : Answers, data : Accounts \X {"catalogue", "cart"}]
SignOutCall == {Idle} \cup [op : {"logout"}, reply : Answers, data : {NoOne}]
FormCall    == {Idle} \cup [op : {"register"}, reply : Answers, data : Accounts]
                      \cup [op : {"reset"}, reply : Answers, data : {NoOne}]
Screens     == [route : Routes \cup {Blank}, back : {"catalogue", "cart"}]
Causes      == {"failure", "elsewhere", "expiry", "overlap", "kept"}

ServerOK == known \subseteq Accounts /\ cookie \in Accounts \cup {NoOne} /\ token \in BOOLEAN
ShellOK  == user \in Shown /\ busy \in BOOLEAN /\ error \in BOOLEAN /\ screen \in Screens
CallsOK  == /\ me \in MeCall /\ guard \in GuardCall /\ signIn \in SignInCall
            /\ signOut \in SignOutCall /\ submit \in FormCall
VisitOK  == clicks \in 0 .. MaxClicks /\ disturbed \subseteq Causes

Typed == ServerOK /\ ShellOK /\ CallsOK /\ VisitOK

LEMMA TypedIsType == Typed => SessionTypeOK
BY DEF Typed, ServerOK, ShellOK, CallsOK, VisitOK, SessionTypeOK, MeCall, GuardCall,
   SignInCall,
       SignOutCall, FormCall, Screens, Causes, Answers, Guarded

LEMMA NobodyIsShown == Nobody \in Shown /\ Nobody.who = NoOne
BY DEF Nobody, Shown

(* A request that is asked or answered is one of its kind. *)
LEMMA MeAnswer ==
  ASSUME NEW ok \in BOOLEAN, NEW d \in Shown
  PROVE  /\ Ask("me", Nobody) \in MeCall /\ Awaited(Ask("me", Nobody))
         /\ \A c \in MeCall : InFlight(c) =>
                /\ Answer(c, ok, d) \in MeCall /\ Replied(Answer(c, ok, d)) /\ Answer(c, ok, d).data = d
BY NobodyIsShown DEF MeCall, Ask, Answer, Awaited, Replied, InFlight, Idle, Answers

LEMMA GuardAnswer ==
  ASSUME NEW ok \in BOOLEAN, NEW d \in Shown
  PROVE  /\ \A r \in Guarded : Ask(r, Nobody) \in GuardCall /\ Awaited(Ask(r, Nobody))
                               /\ Ask(r, Nobody).op = r
         /\ \A c \in GuardCall : InFlight(c) =>
                /\ Answer(c, ok, d) \in GuardCall /\ Answer(c, ok, d).op = c.op
                /\ Answer(c, ok, d).data = d
                /\ Answer(c, ok, d).reply = (IF ok THEN "success" ELSE "error")
                /\ Replied(Answer(c, ok, d)) /\ c.op \in Guarded
BY NobodyIsShown DEF GuardCall, Ask, Answer, Awaited, Replied, InFlight, Idle, Answers

LEMMA SignInAnswer ==
  ASSUME NEW ok \in BOOLEAN
  PROVE  /\ \A a \in Accounts, b \in {"catalogue", "cart"} :
                Ask("login", <<a, b>>) \in SignInCall /\ Awaited(Ask("login", <<a, b>>))
         /\ \A c \in SignInCall : InFlight(c) =>
                /\ Answer(c, ok, c.data) \in SignInCall /\ Replied(Answer(c, ok, c.data))
                /\ Answer(c, ok, c.data).data = c.data
                /\ Answer(c, ok, c.data).reply = (IF ok THEN "success" ELSE "error")
                /\ c.data[1] \in Accounts /\ c.data[2] \in {"catalogue", "cart"} /\ c.op = "login"
BY DEF SignInCall, Ask, Answer, Awaited, Replied, InFlight, Idle, Answers

LEMMA SignOutAnswer ==
  ASSUME NEW ok \in BOOLEAN
  PROVE  /\ Ask("logout", NoOne) \in SignOutCall /\ Awaited(Ask("logout", NoOne))
         /\ \A c \in SignOutCall : InFlight(c) =>
                /\ Answer(c, ok, NoOne) \in SignOutCall /\ Replied(Answer(c, ok, NoOne))
                /\ Answer(c, ok, NoOne).reply = (IF ok THEN "success" ELSE "error")
BY DEF SignOutCall, Ask, Answer, Awaited, Replied, InFlight, Idle, Answers

LEMMA FormAnswer ==
  ASSUME NEW ok \in BOOLEAN
  PROVE  /\ \A a \in Accounts : Ask("register", a) \in FormCall
         /\ Ask("reset", NoOne) \in FormCall
         /\ \A c \in FormCall : InFlight(c) =>
                /\ Answer(c, ok, c.data) \in FormCall
                /\ c.op = "register" => c.data \in Accounts
                /\ c.op = "reset" => Answer(c, ok, NoOne) \in FormCall
                /\ c.op \in {"register", "reset"}
BY DEF FormCall, Ask, Answer, InFlight, Answers

LEMMA IdleIsNoRequest ==
  /\ Idle \in MeCall /\ Idle \in GuardCall /\ Idle \in SignInCall
  /\ Idle \in SignOutCall /\ Idle \in FormCall
  /\ ~InFlight(Idle) /\ ~Awaited(Idle) /\ ~Replied(Idle)
BY DEF MeCall, GuardCall, SignInCall, SignOutCall, FormCall, InFlight, Awaited, Replied

(* Where the router leads: to the administration page only through its guard. *)
LEMMA Navigation ==
  ASSUME Typed, NEW route \in Routes, Navigate(route)
  PROVE  /\ screen' \in Screens /\ busy' \in BOOLEAN /\ error' \in BOOLEAN /\ guard' \in GuardCall
         /\ disturbed' \subseteq disturbed \cup {"kept"} /\ disturbed \subseteq disturbed'
         /\ ~Replied(guard')
         /\ screen'.route = "admin" =>
                /\ screen.route = "admin"
                /\ route = "admin" \/ (route = "cart" /\ guard' = Ask("cart", Nobody))
<1>1. screen \in Screens /\ busy \in BOOLEAN /\ error \in BOOLEAN
  BY DEF Typed, ShellOK
<1>2. CASE route = screen.route /\ guard' = Idle /\ screen' = [screen EXCEPT !.back = "catalogue"]
           /\ UNCHANGED <<busy, error>> /\ Disturb("kept")
  BY <1>1, <1>2, IdleIsNoRequest DEF Screens, Disturb
<1>3. CASE route \in Guarded \ {screen.route} /\ guard' = Ask(route, Nobody)
           /\ UNCHANGED <<screen, busy, error, disturbed>>
  <2>1. Ask(route, Nobody) \in GuardCall /\ ~Replied(Ask(route, Nobody))
    BY <1>3, GuardAnswer, NobodyIsShown DEF Awaited, Replied
  <2> QED
    BY <1>1, <1>3, <2>1 DEF Guarded
<1>4. CASE route \notin Guarded \cup {screen.route} /\ guard' = Idle
           /\ Mount(route, "catalogue") /\ UNCHANGED disturbed
  BY <1>4, IdleIsNoRequest DEF Screens, Mount, Guarded
<1> QED
  BY <1>2, <1>3, <1>4 DEF Navigate
LEMMA IdentityIsShown ==
  ASSUME Typed, cookie # NoOne
  PROVE  Identity \in Shown /\ Identity.who = cookie /\ Identity.admin = (cookie \in Admins)
BY DEF Typed, ServerOK, Identity, Shown

LEMMA StepKeepsTyped ==
  ASSUME Typed, [SessionNext]_sessionVars
  PROVE  Typed'
<1> USE SessionAssumption DEF Typed, ServerOK, ShellOK, CallsOK, VisitOK, Causes, server
<1>1. ASSUME NEW r \in Routes, Follow(r)
      PROVE  Typed'
  <2>1. guard' \in GuardCall /\ screen' \in Screens /\ busy' \in BOOLEAN /\ error' \in BOOLEAN
    BY <1>1, Navigation DEF Follow
  <2>2. disturbed' \subseteq disturbed \cup {"kept"}
    BY <1>1, Navigation DEF Follow
  <2> QED
    <3>1. ServerOK'
      BY <1>1 DEF Follow, Click
    <3>2. ShellOK'
      BY <1>1, <2>1 DEF Follow
    <3>3. CallsOK'
      BY <1>1, <2>1 DEF Follow
    <3>4. VisitOK'
      BY <1>1, <2>2 DEF Follow, Click
    <3> QED
      BY <3>1, <3>2, <3>3, <3>4
<1>2. ASSUME NEW r \in Routes, Reload(r)
      PROVE  Typed'
  <2>1. me' \in MeCall /\ signIn' \in SignInCall /\ signOut' \in SignOutCall /\ submit' \in FormCall
    BY <1>2, IdleIsNoRequest, MeAnswer DEF Reload, Load
  <2>2. guard' \in GuardCall
    BY <1>2, IdleIsNoRequest, GuardAnswer DEF Reload, Load
  <2>3. user' \in Shown /\ busy' = FALSE /\ error' = FALSE /\ screen' \in Screens
    BY <1>2, NobodyIsShown DEF Reload, Load, Mount, Screens
  <2>4. disturbed' \subseteq disturbed \cup {"failure"}
    BY <1>2 DEF Reload, Disturb
  <2> QED
    <3>1. ServerOK'
      BY <1>2 DEF Reload, Click
    <3>2. ShellOK'
      BY <2>3
    <3>3. CallsOK'
      BY <2>1, <2>2
    <3>4. VisitOK'
      BY <1>2, <2>4 DEF Reload, Click
    <3> QED
      BY <3>1, <3>2, <3>3, <3>4
<1>3. ASSUME NEW a \in Accounts, SubmitLogin(a)
      PROVE  Typed'
  <2>1. signIn' \in SignInCall
    BY <1>3, SignInAnswer DEF SubmitLogin, Screens
  <2>2. disturbed' \subseteq disturbed \cup {"overlap"}
    BY <1>3 DEF SubmitLogin, Disturb
  <2> QED
    <3>1. ServerOK'
      BY <1>3 DEF SubmitLogin, Click
    <3>2. ShellOK'
      BY <1>3 DEF SubmitLogin
    <3>3. CallsOK'
      BY <1>3, <2>1 DEF SubmitLogin
    <3>4. VisitOK'
      BY <1>3, <2>2 DEF SubmitLogin, Click
    <3> QED
      BY <3>1, <3>2, <3>3, <3>4
<1>4. ASSUME NEW a \in Accounts, SubmitRegister(a)
      PROVE  Typed'
  BY <1>4, FormAnswer DEF SubmitRegister, Click
<1>5. ASSUME SubmitReset
      PROVE  Typed'
  <2>1. submit' \in FormCall
    BY <1>5, FormAnswer DEF SubmitReset
  <2> QED
    <3>1. ServerOK'
      BY <1>5, <2>1 DEF SubmitReset, Click
    <3>2. ShellOK'
      BY <1>5, <2>1 DEF SubmitReset, Click
    <3>3. CallsOK'
      BY <1>5, <2>1 DEF SubmitReset, Click
    <3>4. VisitOK'
      BY <1>5, <2>1 DEF SubmitReset, Click
    <3> QED
      BY <3>1, <3>2, <3>3, <3>4
<1>6. ASSUME Logout
      PROVE  Typed'
  <2>1. signOut' \in SignOutCall
    BY <1>6, SignOutAnswer DEF Logout
  <2>2. disturbed' \subseteq disturbed \cup {"overlap"}
    BY <1>6 DEF Logout, Disturb
  <2> QED
    <3>1. ServerOK'
      BY <1>6 DEF Logout, Click
    <3>2. ShellOK'
      BY <1>6 DEF Logout, shell
    <3>3. CallsOK'
      BY <1>6, <2>1 DEF Logout
    <3>4. VisitOK'
      BY <1>6, <2>2 DEF Logout, Click
    <3> QED
      BY <3>1, <3>2, <3>3, <3>4
<1>7. ASSUME LoseReply
      PROVE  Typed'
  <2>1. InFlight(me) => Answer(me, FALSE, Nobody) \in MeCall
    BY MeAnswer, NobodyIsShown
  <2>2. InFlight(guard) => Answer(guard, FALSE, Nobody) \in GuardCall
    BY GuardAnswer, NobodyIsShown
  <2>3. me' \in MeCall
    BY <1>7, <2>1 DEF LoseReply
  <2>4. guard' \in GuardCall
    BY <1>7, <2>2 DEF LoseReply
  <2>5. signIn' \in SignInCall
    <3>1. InFlight(signIn) => Answer(signIn, FALSE, signIn.data) \in SignInCall
      BY SignInAnswer
    <3> QED
      BY <1>7, <3>1 DEF LoseReply
  <2>6. signOut' \in SignOutCall
    BY <1>7, SignOutAnswer DEF LoseReply
  <2>7. submit' \in FormCall
    BY <1>7, FormAnswer DEF LoseReply
  <2> QED
    <3>1. ServerOK'
      BY <1>7 DEF LoseReply
    <3>2. ShellOK'
      BY <1>7 DEF LoseReply, shell
    <3>3. CallsOK'
      BY <2>3, <2>4, <2>5, <2>6, <2>7
    <3>4. VisitOK'
      BY <1>7 DEF LoseReply, Disturb
    <3> QED
      BY <3>1, <3>2, <3>3, <3>4
<1>8. ASSUME Expire
      PROVE  Typed'
  BY <1>8 DEF Expire, Disturb, shell, calls
<1>9. ASSUME Elsewhere
      PROVE  Typed'
  BY <1>9 DEF Elsewhere, Disturb, shell, calls
<1>10. ASSUME ServeMe
      PROVE  Typed'
  <2>1. me' \in MeCall
    BY <1>10, MeAnswer, NobodyIsShown, IdentityIsShown DEF ServeMe, Awaited
  <2> QED
    <3>1. ServerOK'
      BY <1>10 DEF ServeMe
    <3>2. ShellOK'
      BY <1>10 DEF ServeMe, Behind, shell
    <3>3. CallsOK'
      BY <1>10, <2>1 DEF ServeMe
    <3>4. VisitOK'
      BY <1>10 DEF ServeMe, Behind
    <3> QED
      BY <3>1, <3>2, <3>3, <3>4
<1>11. ASSUME AnswerMe
      PROVE  Typed'
  BY <1>11, IdleIsNoRequest DEF AnswerMe, MeCall
<1>12. ASSUME ServeGuard
      PROVE  Typed'
  <2>1. guard' \in GuardCall
    BY <1>12, GuardAnswer, NobodyIsShown, IdentityIsShown DEF ServeGuard, Awaited
  <2> QED
    <3>1. ServerOK'
      BY <1>12 DEF ServeGuard
    <3>2. ShellOK'
      BY <1>12 DEF ServeGuard, Behind, shell
    <3>3. CallsOK'
      BY <1>12, <2>1 DEF ServeGuard
    <3>4. VisitOK'
      BY <1>12 DEF ServeGuard, Behind
    <3> QED
      BY <3>1, <3>2, <3>3, <3>4
<1>13. ASSUME AnswerGuard
      PROVE  Typed'
  <2>1. guard.op \in Guarded
    BY <1>13 DEF AnswerGuard, Replied, InFlight, GuardCall
  <2>2. screen' \in Screens
    BY <1>13, <2>1 DEF AnswerGuard, Mount, Screens, Routes, Forms
  <2>3. busy' \in BOOLEAN /\ error' \in BOOLEAN
    BY <1>13 DEF AnswerGuard, Mount
  <2>4. disturbed' \subseteq disturbed \cup {"kept"}
    BY <1>13 DEF AnswerGuard, Mount, Disturb
  <2>5. guard' \in GuardCall
    BY <1>13, IdleIsNoRequest DEF AnswerGuard
  <2> QED
    <3>1. ServerOK'
      BY <1>13 DEF AnswerGuard
    <3>2. ShellOK'
      BY <1>13, <2>2, <2>3 DEF AnswerGuard
    <3>3. CallsOK'
      BY <1>13, <2>5 DEF AnswerGuard
    <3>4. VisitOK'
      BY <1>13, <2>4 DEF AnswerGuard
    <3> QED
      BY <3>1, <3>2, <3>3, <3>4
<1>14. ASSUME ServeLogin
      PROVE  Typed'
  <2>1. Answer(signIn, TRUE, signIn.data) \in SignInCall /\ Answer(signIn, FALSE, signIn.data) \in SignInCall
    BY <1>14, SignInAnswer DEF ServeLogin, Awaited
  <2>2. signIn' \in SignInCall
    BY <1>14, <2>1 DEF ServeLogin
  <2>3. cookie' \in Accounts \cup {NoOne}
    BY <1>14, SignInAnswer DEF ServeLogin, Awaited
  <2> QED
    <3>1. ServerOK'
      BY <1>14 DEF ServeLogin
    <3>2. ShellOK'
      BY <1>14 DEF ServeLogin, Behind, shell
    <3>3. CallsOK'
      BY <1>14, <2>1 DEF ServeLogin
    <3>4. VisitOK'
      BY <1>14 DEF ServeLogin, Behind
    <3> QED
      BY <3>1, <3>2, <3>3, <3>4
<1>15. ASSUME AnswerLogin
      PROVE  Typed'
  <2>1. signIn' \in SignInCall
    BY <1>15, IdleIsNoRequest DEF AnswerLogin
  <2>2. signIn.data[1] \in Accounts /\ signIn.data[2] \in Routes
    BY <1>15, SignInAnswer DEF AnswerLogin, Replied, Routes, Guarded
  <2>3. [who |-> signIn.data[1], admin |-> FALSE] \in Shown
    BY <2>2 DEF Shown
  <2>4. user' \in Shown
    BY <1>15, <2>3 DEF AnswerLogin
  <2>5. screen' \in Screens /\ guard' \in GuardCall /\ disturbed' \subseteq disturbed \cup {"kept"}
    BY <1>15, <2>2, Navigation DEF AnswerLogin
  <2>6. busy' \in BOOLEAN /\ error' \in BOOLEAN
    BY <1>15, <2>2, Navigation DEF AnswerLogin, Enable
  <2> QED
    <3>1. ServerOK'
      BY <1>15 DEF AnswerLogin
    <3>2. ShellOK'
      BY <2>4, <2>5, <2>6
    <3>3. CallsOK'
      BY <1>15, <2>1, <2>5 DEF AnswerLogin
    <3>4. VisitOK'
      BY <1>15, <2>5 DEF AnswerLogin
    <3> QED
      BY <3>1, <3>2, <3>3, <3>4
<1>16. ASSUME ServeLogout
      PROVE  Typed'
  BY <1>16, SignOutAnswer DEF ServeLogout, Behind, shell, Awaited
<1>17. ASSUME AnswerLogout
      PROVE  Typed'
  BY <1>17, IdleIsNoRequest, NobodyIsShown DEF AnswerLogout
<1>18. ASSUME ServeRegister
      PROVE  Typed'
  <2>1. submit' \in FormCall
    BY <1>18, FormAnswer DEF ServeRegister, Awaited
  <2>2. known' \subseteq Accounts
    BY <1>18, FormAnswer DEF ServeRegister, Awaited
  <2> QED
    <3>1. ServerOK'
      BY <1>18, <2>2 DEF ServeRegister
    <3>2. ShellOK'
      BY <1>18 DEF ServeRegister, Behind, shell
    <3>3. CallsOK'
      BY <1>18, <2>1 DEF ServeRegister
    <3>4. VisitOK'
      BY <1>18 DEF ServeRegister, Behind
    <3> QED
      BY <3>1, <3>2, <3>3, <3>4
<1>19. ASSUME ServeReset
      PROVE  Typed'
  BY <1>19, FormAnswer DEF ServeReset, Behind, shell, Awaited
<1>20. ASSUME AnswerRegister
      PROVE  Typed'
  BY <1>20, Navigation, IdleIsNoRequest DEF AnswerRegister, Enable, Routes, Forms
<1>21. ASSUME AnswerReset
      PROVE  Typed'
  BY <1>21, IdleIsNoRequest DEF AnswerReset, Enable
<1>22. ASSUME UNCHANGED sessionVars
      PROVE  Typed'
  BY <1>22 DEF sessionVars, shell, calls
<1> QED
  BY <1>1, <1>2, <1>3, <1>4, <1>5, <1>6, <1>7, <1>8, <1>9, <1>10, <1>11, <1>12, <1>13,
     <1>14, <1>15,
     <1>16, <1>17, <1>18, <1>19, <1>20, <1>21, <1>22
  DEF SessionNext, Visit, MeStep, GuardStep, LoginStep, LogoutStep, FormStep

SignedIn == Replied(signIn) /\ signIn.reply = "success"

(* The two cookies go together, but for the hour of the token. *)
Cookies ==
    /\ token => cookie # NoOne
    /\ cookie # NoOne => token \/ "expiry" \in disturbed

(***************************************************************************)
(* What the shell is about to be told, when nothing disturbed the visit:   *)
(* one request is in progress at a time, and its answer is still true.     *)
(***************************************************************************)
Told ==
    disturbed \subseteq {"kept"} =>
        /\ ~(InFlight(me) /\ InFlight(signIn))
        /\ ~(InFlight(me) /\ InFlight(signOut))
        /\ ~(InFlight(signIn) /\ InFlight(signOut))
        /\ Replied(me) => me.data.who = cookie
        /\ SignedIn => signIn.data[1] = cookie
        /\ Replied(signOut) => signOut.reply = "success" /\ cookie = NoOne
        /\ ~InFlight(me) /\ ~SignedIn /\ ~Replied(signOut) => user.who = cookie

(***************************************************************************)
(* Who has no role is shown the administration page only as long as an     *)
(* answer that leads away from it is under way: that of the form they      *)
(* signed in with, or of the guard of the cart, where it leads.            *)
(***************************************************************************)
LedAway ==
    disturbed \cap {"elsewhere", "failure"} = {} /\ cookie \notin Admins \cup {NoOne} =>
        /\ screen.route = "admin" => SignedIn \/ (InFlight(guard) /\ guard.op = "cart")
        /\ Replied(guard) /\ guard.op = "admin" /\ Admitted => SignedIn

SessionInv == Typed /\ Cookies /\ Told /\ LedAway

(* Whoever has signed in is led away from where they are, or kept there. *)
LEMMA SignedInGoes ==
  ASSUME Typed, AnswerLogin
  PROVE  /\ disturbed \subseteq disturbed'
         /\ SignedIn => /\ ~Replied(guard')
                        /\ screen'.route = "admin" => InFlight(guard') /\ guard'.op = "cart"
<1>1. signIn.data[2] \in {"catalogue", "cart"}
  BY SignInAnswer DEF AnswerLogin, Replied, Typed, CallsOK
<1>2. signIn.data[2] \in Routes
  BY <1>1 DEF Routes, Guarded
<1>3. InFlight(Ask("cart", Nobody)) /\ Ask("cart", Nobody).op = "cart"
  BY GuardAnswer, NobodyIsShown DEF Guarded, Awaited
<1>4. CASE signIn.reply = "success"
  BY <1>1, <1>2, <1>3, <1>4, Navigation DEF AnswerLogin
<1>5. CASE signIn.reply # "success"
  BY <1>5 DEF AnswerLogin, Enable, SignedIn
<1> QED
  BY <1>4, <1>5

(* The password was right, and the cookies are set, or nothing has changed. *)
LEMMA SignInServed ==
  ASSUME Typed, ServeLogin
  PROVE  /\ InFlight(signIn) /\ ~SignedIn /\ Replied(signIn') /\ signIn'.data = signIn.data
         /\ UNCHANGED <<user, screen, me, guard, signOut, disturbed>>
         /\ \/ /\ cookie' = signIn.data[1] /\ cookie' # NoOne /\ token' = TRUE
               /\ signIn'.reply = "success"
            \/ cookie' = cookie /\ token' = token /\ signIn'.reply = "error"
<1>1. InFlight(signIn) /\ ~SignedIn
  BY DEF ServeLogin, Awaited, Replied, SignedIn
<1>2. signIn.op = "login" /\ signIn.data[1] \in Accounts
  BY <1>1, SignInAnswer DEF Typed, CallsOK
<1>3. UNCHANGED <<user, screen, me, guard, signOut, disturbed>>
  BY DEF ServeLogin, Behind, shell
<1>4. CASE /\ cookie' = signIn.data[1] /\ token' = TRUE
           /\ signIn' = Answer(signIn, TRUE, signIn.data)
  <2>1. signIn' = [op |-> "login", reply |-> "success", data |-> signIn.data]
    BY <1>2, <1>4 DEF Answer
  <2>2. signIn'.op = "login" /\ signIn'.reply = "success" /\ signIn'.data = signIn.data
    BY <2>1
  <2>3. Replied(signIn')
    BY <2>2 DEF Replied, InFlight, Idle
  <2>4. NoOne \notin Accounts
    BY SessionAssumption
  <2> QED
    BY <1>1, <1>2, <1>3, <1>4, <2>2, <2>3, <2>4
<1>5. CASE signIn' = Answer(signIn, FALSE, signIn.data) /\ UNCHANGED <<cookie, token>>
  <2>1. signIn' = [op |-> "login", reply |-> "error", data |-> signIn.data]
    BY <1>2, <1>5 DEF Answer
  <2>2. signIn'.op = "login" /\ signIn'.reply = "error" /\ signIn'.data = signIn.data
    BY <2>1
  <2>3. Replied(signIn')
    BY <2>2 DEF Replied, InFlight, Idle
  <2>4. NoOne \notin Accounts
    BY SessionAssumption
  <2> QED
    BY <1>1, <1>3, <1>5, <2>2, <2>3
<1> QED
  BY <1>4, <1>5 DEF ServeLogin

LEMMA StepKeepsSession ==
  ASSUME SessionInv, [SessionNext]_sessionVars
  PROVE  SessionInv'
<1>0. Typed /\ Typed' /\ Cookies /\ Told /\ LedAway
  BY StepKeepsTyped DEF SessionInv
<1> USE SessionAssumption DEF server
<1>1. ASSUME NEW r \in Routes, Follow(r)
      PROVE  SessionInv'
  <2>1. Cookies'
    BY <1>0, <1>1, Navigation DEF Cookies, Follow, Click
  <2>2. Told'
    BY <1>0, <1>1, Navigation DEF Told, SignedIn, Follow, Click
  <2>3. LedAway'
    <3>1. r # screen.route /\ UNCHANGED <<cookie, signIn>>
      BY <1>1 DEF Follow, Click
    <3>2. disturbed \subseteq disturbed' /\ ~Replied(guard')
      BY <1>0, <1>1, Navigation DEF Follow
    <3>3. screen'.route = "admin" => screen.route = "admin" /\ guard' = Ask("cart", Nobody)
      BY <1>0, <1>1, Navigation DEF Follow
    <3>4. InFlight(Ask("cart", Nobody)) /\ Ask("cart", Nobody).op = "cart"
      BY GuardAnswer, NobodyIsShown DEF Guarded, Awaited
    <3> QED
      BY <3>2, <3>3, <3>4 DEF LedAway
  <2> QED
    BY <1>0, <2>1, <2>2, <2>3 DEF SessionInv
<1>2. ASSUME NEW r \in Routes, Reload(r)
      PROVE  SessionInv'
  <2>1. Cookies'
    BY <1>0, <1>2 DEF Cookies, Reload, Click, Disturb
  <2>2. Told'
    BY <1>2, MeAnswer, IdleIsNoRequest, NobodyIsShown
    DEF Told, SignedIn, Awaited, Replied, Reload, Load
  <2>3. LedAway'
    <3>1. screen'.route # "admin"
      BY <1>2 DEF Reload, Load, Mount, Guarded, Blank
    <3>2. ~Replied(guard')
      <4>1. \A q \in Guarded : ~Replied(Ask(q, Nobody))
        BY GuardAnswer, NobodyIsShown DEF Awaited, Replied
      <4> QED
        BY <1>2, <4>1, IdleIsNoRequest DEF Reload, Load
    <3> QED
      BY <3>1, <3>2 DEF LedAway
  <2> QED
    BY <1>0, <2>1, <2>2, <2>3 DEF SessionInv
<1>3. ASSUME NEW a \in Accounts, SubmitLogin(a)
      PROVE  SessionInv'
  <2>1. Cookies'
    BY <1>0, <1>3 DEF Cookies, SubmitLogin, Click, Disturb
  <2>2. Told'
    <3>1. screen.back \in {"catalogue", "cart"}
      BY <1>0 DEF Typed, ShellOK, Screens
    <3>2. ~InFlight(signIn) /\ InFlight(signIn') /\ ~Replied(signIn')
      BY <1>3, <3>1, SignInAnswer DEF SubmitLogin, Awaited, Replied
    <3>3. UNCHANGED <<me, signOut, user, cookie>>
      BY <1>3 DEF SubmitLogin, Click
    <3>4. disturbed' \subseteq {"kept"} =>
              disturbed \subseteq {"kept"} /\ ~InFlight(me) /\ ~InFlight(signOut)
      <4>1. CASE InFlight(me) \/ InFlight(signOut)
        BY <1>3, <4>1 DEF SubmitLogin, Disturb
      <4>2. CASE ~(InFlight(me) \/ InFlight(signOut))
        BY <1>3, <4>2 DEF SubmitLogin
      <4> QED
        BY <4>1, <4>2
    <3> QED
      BY <1>0, <3>2, <3>3, <3>4 DEF Told, SignedIn, Replied
  <2>3. LedAway'
    BY <1>0, <1>3 DEF LedAway, SignedIn, Admitted, Replied, SubmitLogin, Click, Disturb
  <2> QED
    BY <1>0, <2>1, <2>2, <2>3 DEF SessionInv
<1>4. ASSUME NEW a \in Accounts, SubmitRegister(a)
      PROVE  SessionInv'
  <2>1. Cookies'
    BY <1>0, <1>4 DEF Cookies, SubmitRegister, Click
  <2>2. Told'
    BY <1>0, <1>4 DEF Told, SignedIn, SubmitRegister, Click
  <2>3. LedAway'
    BY <1>0, <1>4 DEF LedAway, SignedIn, Admitted, SubmitRegister, Click
  <2> QED
    BY <1>0, <2>1, <2>2, <2>3 DEF SessionInv
<1>5. ASSUME SubmitReset
      PROVE  SessionInv'
  <2>1. Cookies'
    BY <1>0, <1>5 DEF Cookies, SubmitReset, Click
  <2>2. Told'
    BY <1>0, <1>5 DEF Told, SignedIn, SubmitReset, Click
  <2>3. LedAway'
    BY <1>0, <1>5 DEF LedAway, SignedIn, Admitted, SubmitReset, Click
  <2> QED
    BY <1>0, <2>1, <2>2, <2>3 DEF SessionInv
<1>6. ASSUME Logout
      PROVE  SessionInv'
  <2>1. Cookies'
    BY <1>0, <1>6 DEF Cookies, Logout, Click, Disturb
  <2>2. Told'
    BY <1>0, <1>6, SignOutAnswer
    DEF Told, SignedIn, Awaited, Replied, InFlight, Logout, Click, Disturb, shell
  <2>3. LedAway'
    BY <1>0, <1>6 DEF LedAway, SignedIn, Admitted, Logout, Click, Disturb, shell
  <2> QED
    BY <1>0, <2>1, <2>2, <2>3 DEF SessionInv
<1>7. ASSUME LoseReply
      PROVE  SessionInv'
  <2>1. Cookies'
    BY <1>0, <1>7 DEF Cookies, LoseReply, Disturb
  <2>2. Told'
    BY <1>7 DEF Told, LoseReply, Disturb
  <2>3. LedAway'
    BY <1>7 DEF LedAway, LoseReply, Disturb
  <2> QED
    BY <1>0, <2>1, <2>2, <2>3 DEF SessionInv
<1>8. ASSUME Expire
      PROVE  SessionInv'
  <2>1. Cookies'
    BY <1>8 DEF Cookies, Expire, Disturb
  <2>2. Told'
    BY <1>8 DEF Told, Expire, Disturb
  <2>3. LedAway'
    BY <1>0, <1>8 DEF LedAway, SignedIn, Admitted, Expire, Disturb, shell, calls
  <2> QED
    BY <1>0, <2>1, <2>2, <2>3 DEF SessionInv
<1>9. ASSUME Elsewhere
      PROVE  SessionInv'
  <2>1. Cookies'
    BY <1>9 DEF Cookies, Elsewhere
  <2>2. Told'
    BY <1>9 DEF Told, Elsewhere, Disturb
  <2>3. LedAway'
    BY <1>9 DEF LedAway, Elsewhere, Disturb
  <2> QED
    BY <1>0, <2>1, <2>2, <2>3 DEF SessionInv
<1>10. ASSUME ServeMe
      PROVE  SessionInv'
  <2>1. Cookies'
    BY <1>0, <1>10 DEF Cookies, ServeMe, Behind
  <2>2. Told'
    <3>1. InFlight(me) /\ UNCHANGED <<cookie, user, signIn, signOut, disturbed>>
      BY <1>10 DEF ServeMe, Behind, shell, Awaited
    <3>2. InFlight(me') /\ me'.data.who = cookie
      <4>1. CASE cookie # NoOne
        BY <1>0, <1>10, <3>1, <4>1, MeAnswer, IdentityIsShown DEF ServeMe, Typed, CallsOK,
           Replied
      <4>2. CASE cookie = NoOne
        BY <1>0, <1>10, <3>1, <4>2, MeAnswer, NobodyIsShown DEF ServeMe, Typed, CallsOK,
           Replied
      <4> QED
        BY <4>1, <4>2
    <3> QED
      BY <1>0, <3>1, <3>2 DEF Told, SignedIn
  <2>3. LedAway'
    BY <1>0, <1>10 DEF LedAway, SignedIn, Admitted, ServeMe, Behind, shell
  <2> QED
    BY <1>0, <2>1, <2>2, <2>3 DEF SessionInv
<1>11. ASSUME AnswerMe
      PROVE  SessionInv'
  <2>1. Cookies'
    BY <1>0, <1>11 DEF Cookies, AnswerMe
  <2>2. Told'
    BY <1>0, <1>11, IdleIsNoRequest DEF Told, SignedIn, AnswerMe
  <2>3. LedAway'
    BY <1>0, <1>11 DEF LedAway, SignedIn, Admitted, AnswerMe
  <2> QED
    BY <1>0, <2>1, <2>2, <2>3 DEF SessionInv
<1>12. ASSUME ServeGuard
      PROVE  SessionInv'
  <2>1. Cookies'
    BY <1>0, <1>12 DEF Cookies, ServeGuard, Behind
  <2>2. Told'
    BY <1>0, <1>12 DEF Told, SignedIn, ServeGuard, Behind, shell
  <2>3. LedAway'
    <3>1. InFlight(guard) /\ UNCHANGED <<cookie, screen, signIn, disturbed>>
      BY <1>12 DEF ServeGuard, Behind, shell, Awaited
    <3>2. guard.op \in Guarded
      BY <1>0, <3>1 DEF Typed, CallsOK, GuardCall, InFlight
    <3>3. /\ guard'.op = guard.op
          /\ cookie # NoOne => guard'.data = Identity
          /\ cookie = NoOne => guard'.reply = "error"
      BY <1>12 DEF ServeGuard, Answer
    <3>4. InFlight(guard')
      BY <3>2, <3>3 DEF InFlight, Idle, Guarded
    <3>5. guard'.data.admin /\ guard'.reply = "success" => cookie \in Admins
      BY <1>0, <3>3, IdentityIsShown
    <3> QED
      BY <1>0, <3>1, <3>3, <3>4, <3>5 DEF LedAway, SignedIn, Admitted
  <2> QED
    BY <1>0, <2>1, <2>2, <2>3 DEF SessionInv
<1>13. ASSUME AnswerGuard
      PROVE  SessionInv'
  <2>1. Cookies'
    BY <1>0, <1>13 DEF Cookies, AnswerGuard, Disturb
  <2>2. Told'
    BY <1>0, <1>13 DEF Told, SignedIn, AnswerGuard, Disturb
  <2>3. LedAway'
    <3>1. Replied(guard) /\ ~InFlight(guard') /\ UNCHANGED <<cookie, signIn>>
      BY <1>13, IdleIsNoRequest DEF AnswerGuard
    <3>2. disturbed \subseteq disturbed'
      BY <1>13 DEF AnswerGuard, Mount, Disturb
    <3>3. screen'.route = "admin" => Admitted /\ guard.op = "admin"
      <4>1. screen \in Screens
        BY <1>0 DEF Typed, ShellOK
      <4> QED
        BY <1>13, <4>1 DEF AnswerGuard, Mount, Screens
    <3> QED
      BY <1>0, <3>1, <3>2, <3>3 DEF LedAway, SignedIn, Replied
  <2> QED
    BY <1>0, <2>1, <2>2, <2>3 DEF SessionInv
<1>14. ASSUME ServeLogin
      PROVE  SessionInv'
  <2>1. Cookies'
    <3>1. CASE cookie' # NoOne /\ token' = TRUE
      BY <3>1 DEF Cookies
    <3>2. CASE cookie' = cookie /\ token' = token /\ disturbed' = disturbed
      BY <1>0, <3>2 DEF Cookies
    <3> QED
      BY <1>0, <1>14, <3>1, <3>2, SignInServed
  <2>2. Told'
    <3> QED
      BY <1>0, <1>14, SignInServed DEF Told, SignedIn, Replied
  <2>3. LedAway'
    <3> QED
      BY <1>0, <1>14, SignInServed DEF LedAway, SignedIn, Admitted
  <2> QED
    BY <1>0, <2>1, <2>2, <2>3 DEF SessionInv
<1>15. ASSUME AnswerLogin
      PROVE  SessionInv'
  <2>1. Cookies'
    <3>1. UNCHANGED <<cookie, token>> /\ disturbed \subseteq disturbed'
      BY <1>0, <1>15, SignedInGoes DEF AnswerLogin
    <3> QED
      BY <1>0, <3>1 DEF Cookies
  <2>2. Told'
    <3>1. /\ Replied(signIn) /\ ~InFlight(signIn') /\ UNCHANGED <<cookie, me, signOut>>
          /\ disturbed \subseteq disturbed'
      BY <1>0, <1>15, SignedInGoes, IdleIsNoRequest DEF AnswerLogin
    <3>2. user'.who = (IF SignedIn THEN signIn.data[1] ELSE user.who)
      BY <1>15 DEF AnswerLogin, SignedIn
    <3> QED
      BY <1>0, <3>1, <3>2 DEF Told, SignedIn, Replied
  <2>3. LedAway'
    <3>1. /\ Replied(signIn) /\ UNCHANGED cookie /\ disturbed \subseteq disturbed'
          /\ SignedIn => /\ ~Replied(guard')
                         /\ screen'.route = "admin" => InFlight(guard') /\ guard'.op = "cart"
      BY <1>0, <1>15, SignedInGoes DEF AnswerLogin
    <3>2. ~SignedIn => UNCHANGED <<screen, guard>>
      BY <1>15 DEF AnswerLogin, Enable, SignedIn
    <3> QED
      BY <1>0, <3>1, <3>2 DEF LedAway, Admitted
  <2> QED
    BY <1>0, <2>1, <2>2, <2>3 DEF SessionInv
<1>16. ASSUME ServeLogout
      PROVE  SessionInv'
  <2>1. Cookies'
    BY <1>16 DEF Cookies, ServeLogout
  <2>2. Told'
    <3>1. InFlight(signOut) /\ InFlight(signOut') /\ signOut'.reply = "success" /\ cookie' = NoOne
      BY <1>0, <1>16, SignOutAnswer DEF ServeLogout, Awaited, Replied, Typed, CallsOK
    <3>2. UNCHANGED <<user, me, signIn, disturbed>>
      BY <1>16 DEF ServeLogout, Behind, shell
    <3> QED
      BY <1>0, <3>1, <3>2 DEF Told, SignedIn, Replied
  <2>3. LedAway'
    BY <1>16 DEF LedAway, ServeLogout
  <2> QED
    BY <1>0, <2>1, <2>2, <2>3 DEF SessionInv
<1>17. ASSUME AnswerLogout
      PROVE  SessionInv'
  <2>1. Cookies'
    BY <1>0, <1>17 DEF Cookies, AnswerLogout
  <2>2. Told'
    BY <1>0, <1>17, IdleIsNoRequest, NobodyIsShown DEF Told, SignedIn, AnswerLogout
  <2>3. LedAway'
    BY <1>0, <1>17 DEF LedAway, SignedIn, Admitted, AnswerLogout
  <2> QED
    BY <1>0, <2>1, <2>2, <2>3 DEF SessionInv
<1>18. ASSUME ServeRegister
      PROVE  SessionInv'
  <2>1. Cookies'
    BY <1>0, <1>18 DEF Cookies, ServeRegister, Behind
  <2>2. Told'
    BY <1>0, <1>18 DEF Told, SignedIn, ServeRegister, Behind, shell
  <2>3. LedAway'
    BY <1>0, <1>18 DEF LedAway, SignedIn, Admitted, ServeRegister, Behind, shell
  <2> QED
    BY <1>0, <2>1, <2>2, <2>3 DEF SessionInv
<1>19. ASSUME ServeReset
      PROVE  SessionInv'
  <2>1. Cookies'
    BY <1>0, <1>19 DEF Cookies, ServeReset, Behind
  <2>2. Told'
    BY <1>0, <1>19 DEF Told, SignedIn, ServeReset, Behind, shell
  <2>3. LedAway'
    BY <1>0, <1>19 DEF LedAway, SignedIn, Admitted, ServeReset, Behind, shell
  <2> QED
    BY <1>0, <2>1, <2>2, <2>3 DEF SessionInv
<1>20. ASSUME AnswerRegister
      PROVE  SessionInv'
  <2>1. Cookies'
    BY <1>0, <1>20, Navigation DEF Cookies, AnswerRegister, Routes, Forms
  <2>2. Told'
    BY <1>0, <1>20, Navigation DEF Told, SignedIn, AnswerRegister, Routes, Forms
  <2>3. LedAway'
    BY <1>0, <1>20, Navigation DEF LedAway, SignedIn, Admitted, AnswerRegister, Routes, Forms
  <2> QED
    BY <1>0, <2>1, <2>2, <2>3 DEF SessionInv
<1>21. ASSUME AnswerReset
      PROVE  SessionInv'
  <2>1. Cookies'
    BY <1>0, <1>21 DEF Cookies, AnswerReset
  <2>2. Told'
    BY <1>0, <1>21 DEF Told, SignedIn, AnswerReset
  <2>3. LedAway'
    BY <1>0, <1>21 DEF LedAway, SignedIn, Admitted, AnswerReset
  <2> QED
    BY <1>0, <2>1, <2>2, <2>3 DEF SessionInv
<1>22. ASSUME UNCHANGED sessionVars
      PROVE  SessionInv'
  <2>1. Cookies'
    BY <1>0, <1>22 DEF Cookies, sessionVars
  <2>2. Told'
    BY <1>0, <1>22 DEF Told, SignedIn, sessionVars, shell, calls
  <2>3. LedAway'
    BY <1>0, <1>22 DEF LedAway, SignedIn, Admitted, sessionVars, shell, calls
  <2> QED
    BY <1>0, <2>1, <2>2, <2>3 DEF SessionInv
<1> QED
  BY <1>1, <1>2, <1>3, <1>4, <1>5, <1>6, <1>7, <1>8, <1>9, <1>10, <1>11, <1>12, <1>13,
     <1>14, <1>15,
     <1>16, <1>17, <1>18, <1>19, <1>20, <1>21, <1>22
  DEF SessionNext, Visit, MeStep, GuardStep, LoginStep, LogoutStep, FormStep

LEMMA SessionInvHolds == SessionSpec => []SessionInv
<1>1. SessionInit => SessionInv
  <2> SUFFICES ASSUME SessionInit
               PROVE  SessionInv
    OBVIOUS
  <2>1. PICK r \in Routes :
             IF r \in Guarded
             THEN guard = Ask(r, Nobody) /\ screen = [route |-> Blank, back |-> "catalogue"]
             ELSE guard = Idle /\ screen = [route |-> r, back |-> "catalogue"]
    BY DEF SessionInit
  <2>2. me = Ask("me", Nobody) /\ me \in MeCall /\ Awaited(me)
    BY MeAnswer, NobodyIsShown DEF SessionInit
  <2>3. Typed
    <3>1. ServerOK
      BY SessionAssumption DEF SessionInit, ServerOK
    <3>2. ShellOK
      <4>1. screen \in Screens
        BY <2>1 DEF Screens
      <4>2. user \in Shown /\ busy \in BOOLEAN /\ error \in BOOLEAN
        BY NobodyIsShown DEF SessionInit
      <4> QED
        BY <4>1, <4>2 DEF ShellOK
    <3>3. guard \in GuardCall
      <4>1. \A op \in Guarded : Ask(op, Nobody) \in GuardCall
        BY GuardAnswer, NobodyIsShown
      <4> QED
        BY <2>1, <4>1, IdleIsNoRequest
    <3>4. CallsOK
      BY <2>2, <3>3, IdleIsNoRequest DEF SessionInit, CallsOK
    <3>5. VisitOK
      BY SessionAssumption DEF SessionInit, VisitOK
    <3> QED
      BY <3>1, <3>2, <3>4, <3>5 DEF Typed
  <2>4. InFlight(me) /\ ~Replied(me) /\ ~Replied(guard) /\ ~InFlight(signIn) /\ ~InFlight(signOut)
    <3>1. \A op \in Guarded : ~Replied(Ask(op, Nobody))
      BY GuardAnswer, NobodyIsShown DEF Awaited, Replied
    <3>2. ~Replied(guard)
      BY <2>1, <3>1, IdleIsNoRequest
    <3> QED
      BY <2>2, <3>2, IdleIsNoRequest DEF SessionInit, Awaited, Replied
  <2>5. Cookies
    BY DEF SessionInit, Cookies
  <2>6. Told
    BY <2>4 DEF Told, SignedIn, Replied
  <2>7. LedAway
    BY <2>4 DEF SessionInit, LedAway, Guarded, Blank
  <2> QED
    BY <2>3, <2>5, <2>6, <2>7 DEF SessionInv
<1> QED
  BY <1>1, StepKeepsSession, PTL DEF SessionSpec

(***************************************************************************)
(* The shell at rest names whoever is signed in, unless a reply was lost,  *)
(* a cookie expired, another page signed in or out or two requests that    *)
(* tell the shell overlapped; and the two cookies go together.             *)
(***************************************************************************)
THEOREM ShellShowsSession == SessionSpec => []ShellMatchesSession
<1>1. SessionInv => ShellMatchesSession
  BY TypedIsType DEF SessionInv, ShellMatchesSession, Cookies, Told, Quiet, SignedIn, Replied
<1> QED
  BY <1>1, SessionInvHolds, PTL

(***************************************************************************)
(* However guards, forms and clicks overlap, the administration page is    *)
(* at rest on the screen of nobody signed in without the role, unless      *)
(* another page or a lost reply changed who that is.                       *)
(***************************************************************************)
THEOREM AdministrationIsGuarded == SessionSpec => []AdminPageIsGuarded
<1>1. SessionInv => AdminPageIsGuarded
  BY DEF SessionInv, LedAway, AdminPageIsGuarded, Quiet, SignedIn, Replied
<1> QED
  BY <1>1, SessionInvHolds, PTL
=============================================================================
