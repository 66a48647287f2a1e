--------------------------- MODULE CircuitBreaker ---------------------------
(***************************************************************************)
(* ResilientHttpMessageHandler: the requests of a process to one           *)
(* destination, which share a counter of failures and the time until which *)
(* their circuit is open.  A request looks at the circuit once, before its *)
(* first attempt.  The operations on the counter are atomic; an increment  *)
(* that reaches the threshold, the write of the time and the reset that    *)
(* follows it are separate steps.                                          *)
(***************************************************************************)
EXTENDS Naturals, FiniteSets

CONSTANTS Slots,            \* where requests succeed one another, one at a time in each
          Impatient,        \* those whose caller may go away
          MaxAttempts,      \* attempts of a request that may be repeated
          FailureThreshold, \* failures that open the circuit
          Downtimes         \* bound on how often the destination goes down

ASSUME CircuitAssumption ==
    /\ IsFiniteSet(Slots) /\ Impatient \subseteq Slots
    /\ MaxAttempts \in Nat \ {0}
    /\ FailureThreshold \in Nat \ {0}
    /\ Downtimes \in Nat

VARIABLES request,   \* the state of each request
          failures,  \* _failures
          open,      \* _openedUntil is in the future
          healthy,   \* the destination answers, and not with an error
          downs      \* how often it has gone down

vars == <<request, failures, open, healthy, downs>>

NoCall == [at |-> "idle"]
Sent(retryable, n) == [at |-> "sent", retryable |-> retryable, attempt |-> n]
Waiting(n) == [at |-> "waiting", retryable |-> TRUE, attempt |-> n]

RequestStates ==
    {NoCall}
    \cup [at : {"sent"}, retryable : {TRUE}, attempt : 1 .. MaxAttempts]
    \cup [at : {"sent"}, retryable : {FALSE}, attempt : {1}]
    \cup [at : {"waiting"}, retryable : {TRUE}, attempt : 1 .. MaxAttempts - 1]
    \cup [at : {"failing", "opening", "resetting", "succeeding"}]

(* Only safe methods are repeated, and the counter has a bound. *)
TypeOK ==
    /\ request \in [Slots -> RequestStates]
    /\ failures \in 0 .. FailureThreshold + Cardinality(Slots) - 1
    /\ open \in BOOLEAN /\ healthy \in BOOLEAN
    /\ downs \in 0 .. Downtimes

Init ==
    /\ request = [r \in Slots |-> NoCall]
    /\ failures = 0 /\ open = FALSE
    /\ healthy = TRUE /\ downs = 0
-----------------------------------------------------------------------------
Goes(r, next) == request' = [request EXCEPT ![r] = next]
Destination == UNCHANGED <<healthy, downs>>
At(r, where) == request[r].at = where

(* Mistaken: a call that the open circuit answers is a failure too. *)
CallWhenever(r, retryable) ==
    /\ At(r, "idle")
    /\ Goes(r, IF open THEN [at |-> "failing"] ELSE Sent(retryable, 1))
    /\ UNCHANGED <<failures, open>> /\ Destination

(* SendAsync is called: an open circuit answers for the destination. *)
Call(r, retryable) ==
    /\ At(r, "idle") /\ ~open
    /\ Goes(r, Sent(retryable, 1))
    /\ UNCHANGED <<failures, open>> /\ Destination

(* An answer below 500, other than 408 and 429. *)
Succeeds(r) ==
    /\ At(r, "sent") /\ healthy
    /\ Goes(r, [at |-> "succeeding"])
    /\ UNCHANGED <<failures, open>> /\ Destination

(* Mistaken: the last failure is not recorded. *)
FailsUnrecorded(r) ==
    /\ At(r, "sent") /\ ~healthy
    /\ IF request[r].retryable /\ request[r].attempt < MaxAttempts
       THEN Goes(r, Waiting(request[r].attempt))
       ELSE Goes(r, NoCall)
    /\ UNCHANGED <<failures, open>> /\ Destination

(* Mistaken: attempts are not counted. *)
FailsForever(r) ==
    /\ At(r, "sent") /\ ~healthy
    /\ Goes(r, IF request[r].retryable THEN Waiting(1) ELSE [at |-> "failing"])
    /\ UNCHANGED <<failures, open>> /\ Destination

(* A transient status, or no answer: another attempt if one is left. *)
Fails(r) ==
    /\ At(r, "sent") /\ ~healthy
    /\ IF request[r].retryable /\ request[r].attempt < MaxAttempts
       THEN Goes(r, Waiting(request[r].attempt))
       ELSE Goes(r, [at |-> "failing"])
    /\ UNCHANGED <<failures, open>> /\ Destination

(* The delay is over; the circuit is not looked at again. *)
Retry(r) ==
    /\ At(r, "waiting")
    /\ Goes(r, Sent(TRUE, request[r].attempt + 1))
    /\ UNCHANGED <<failures, open>> /\ Destination

(***************************************************************************)
(* The token of the request is cancelled.  An attempt ends like a failure, *)
(* with no other to follow.  A delay ends in one of two ways: the one that *)
(* follows a transient status stands in the try block, and its exception   *)
(* is caught; the one that follows an exception stands in a catch clause,  *)
(* and nothing is recorded.                                                *)
(***************************************************************************)
Cancelled(r) ==
    \/ At(r, "sent") /\ Goes(r, [at |-> "failing"])
    \/ At(r, "waiting") /\ \E next \in {NoCall, [at |-> "failing"]} : Goes(r, next)

(* The 8 seconds of the client pass, of which the destination took too many. *)
TimesOut(r) ==
    /\ At(r, "sent") => ~healthy
    /\ Cancelled(r)
    /\ UNCHANGED <<failures, open>> /\ Destination

(* The caller goes away: the browser closed the request of the BFF. *)
Abandon(r) ==
    /\ r \in Impatient
    /\ Cancelled(r)
    /\ UNCHANGED <<failures, open>> /\ Destination

RecordSuccess(r) ==
    /\ At(r, "succeeding")
    /\ failures' = 0
    /\ Goes(r, NoCall)
    /\ UNCHANGED open /\ Destination

(* Mistaken: the threshold has to be exceeded. *)
IncrementBeyond(r) ==
    /\ At(r, "failing")
    /\ failures' = failures + 1
    /\ Goes(r, IF failures' > FailureThreshold THEN [at |-> "opening"] ELSE NoCall)
    /\ UNCHANGED open /\ Destination

(* RecordFailure: the increment, and its comparison with the threshold. *)
Increment(r) ==
    /\ At(r, "failing")
    /\ failures' = failures + 1
    /\ Goes(r, IF failures' >= FailureThreshold THEN [at |-> "opening"] ELSE NoCall)
    /\ UNCHANGED open /\ Destination

Open(r) ==
    /\ At(r, "opening")
    /\ open' = TRUE
    /\ Goes(r, [at |-> "resetting"])
    /\ UNCHANGED failures /\ Destination

Reset(r) ==
    /\ At(r, "resetting")
    /\ failures' = 0
    /\ Goes(r, NoCall)
    /\ UNCHANGED open /\ Destination

(* Twenty seconds have passed. *)
Elapse ==
    /\ open /\ open' = FALSE
    /\ UNCHANGED <<request, failures>> /\ Destination

GoesDown ==
    /\ healthy /\ downs < Downtimes
    /\ healthy' = FALSE /\ downs' = downs + 1
    /\ UNCHANGED <<request, failures, open>>

ComesBack ==
    /\ ~healthy /\ healthy' = TRUE
    /\ UNCHANGED <<request, failures, open, downs>>

Step(r) ==
    \/ Succeeds(r) \/ Fails(r) \/ Retry(r) \/ TimesOut(r)
    \/ RecordSuccess(r) \/ Increment(r) \/ Open(r) \/ Reset(r)

Next ==
    \/ \E r \in Slots :
           \/ \E retryable \in BOOLEAN : Call(r, retryable)
           \/ Step(r) \/ Abandon(r)
    \/ Elapse \/ GoesDown \/ ComesBack

(***************************************************************************)
(* A request goes on until it is answered, since the client gives it 8     *)
(* seconds, and time passes.  Nothing makes anybody call, or the           *)
(* destination recover.                                                    *)
(***************************************************************************)
Spec == /\ Init /\ [][Next]_vars
        /\ \A r \in Slots : WF_vars(Step(r))
        /\ WF_vars(Elapse)
-----------------------------------------------------------------------------
(***************************************************************************)
(* Failures up to the threshold are never left in the counter without a    *)
(* request that is about to open the circuit and reset it, however its     *)
(* steps interleave with the failures and successes of others.             *)
(***************************************************************************)
ThresholdIsActedOn ==
    failures >= FailureThreshold => \E r \in Slots : request[r].at \in {"opening", "resetting"}

(* Retries end: every call comes back to its caller. *)
CallsReturn == \A r \in Slots : ~At(r, "idle") ~> At(r, "idle")

(***************************************************************************)
(* A destination that stays healthy is, from some time on, never shut out, *)
(* whatever failures were counted or in progress when it recovered, once   *)
(* no more callers go away.                                                *)
(***************************************************************************)
RecoveryClosesCircuit ==
    <>[]healthy /\ <>[][\A r \in Slots : ~Abandon(r)]_vars => <>[]~open

(***************************************************************************)
(* While a destination is down, and requests that change something keep    *)
(* being sent to it, the circuit opens again and again.                    *)
(***************************************************************************)
OutageOpensCircuit ==
    <>[]~healthy /\ []<>(\E r \in Slots : At(r, "sent") /\ ~request[r].retryable) => []<>open
=============================================================================
