------------------------------- MODULE Outbox -------------------------------
(***************************************************************************)
(* OutboxPublisher of one service, beside the transactions that add rows   *)
(* to its outbox table.  A pass loads the oldest pending rows, publishes   *)
(* them one after the other while it keeps the outcome in memory, and      *)
(* saves the whole batch at the end; what happens in between is lost when  *)
(* the process stops.  Rows are numbered by OccurredOnUtc, which is set    *)
(* before the commit, so rows may be committed in another order.           *)
(***************************************************************************)
EXTENDS Integers, FiniteSets

CONSTANTS Rows,                    \* the rows, numbered by their OccurredOnUtc
          Poison,                  \* rows whose publication always throws
          BatchSize,               \* rows loaded by one pass (10)
          DeadLetterAttemptLimit,  \* failed attempts that dead-letter a row (10)
          MaxStops,                \* bound: stops of the process within a pass
          MaxOutages               \* bound: outages of the broker

ASSUME OutboxAssumption ==
    /\ Rows \subseteq Nat /\ Poison \subseteq Rows
    /\ BatchSize \in Nat \ {0} /\ DeadLetterAttemptLimit \in Nat \ {0}
    /\ MaxStops \in Nat /\ MaxOutages \in Nat

VARIABLES rows,        \* the committed rows
          processed,   \* rows with ProcessedOnUtc set
          dead,        \* rows with DeadLetteredOnUtc set
          attempts,    \* the Attempts column
          phase,       \* "load" between two passes, "publish" during one
          batch,       \* the rows the pass has loaded
          toSend,      \* those of them it has not tried yet
          sent,        \* those marked processed in memory
          failed,      \* those whose attempt failed, in memory
          brokerUp,
          outages,
          stops,
          accepted,    \* how often the topic took each row
          failures     \* how many attempts of each row failed, saved or not

table  == <<rows, processed, dead, attempts>>
memory == <<batch, toSend, sent, failed>>
broker == <<brokerUp, outages>>
outboxVars == <<table, memory, broker, phase, stops, accepted, failures>>

(***************************************************************************)
(* The types; no row is tried more than DeadLetterAttemptLimit times as    *)
(* far as its Attempts column tells, and a pass in memory is consistent.   *)
(***************************************************************************)
OutboxTypeOK ==
    /\ rows \subseteq Rows /\ processed \subseteq rows /\ dead \subseteq rows
    /\ attempts \in [Rows -> 0..DeadLetterAttemptLimit]
    /\ phase \in {"load", "publish"}
    /\ batch \subseteq rows /\ toSend \subseteq batch
    /\ sent \subseteq batch \ toSend /\ failed = batch \ (toSend \cup sent)
    /\ brokerUp \in BOOLEAN /\ outages \in 0..MaxOutages /\ stops \in 0..MaxStops
    /\ accepted \in [Rows -> Nat] /\ failures \in [Rows -> Nat]

OutboxInit ==
    /\ rows = {} /\ processed = {} /\ dead = {}
    /\ attempts = [r \in Rows |-> 0]
    /\ phase = "load"
    /\ batch = {} /\ toSend = {} /\ sent = {} /\ failed = {}
    /\ brokerUp = TRUE /\ outages = 0 /\ stops = 0
    /\ accepted = [r \in Rows |-> 0]
    /\ failures = [r \in Rows |-> 0]
-----------------------------------------------------------------------------
(* A transaction of the service commits with a new row. *)
EnqueueRow(r) ==
    /\ r \notin rows
    /\ rows' = rows \cup {r}
    /\ UNCHANGED <<processed, dead, attempts, memory, broker, phase, stops, accepted, failures>>

Pending == rows \ (processed \cup dead)

(* Mistaken: the Take comes before the Where. *)
OldestOfAll(S) == S \cap {r \in rows : Cardinality({q \in rows : q < r}) < BatchSize}

(* OrderBy(OccurredOnUtc).Take(BatchSize) *)
Oldest(S) == {r \in S : Cardinality({q \in S : q < r}) < BatchSize}

Load ==
    /\ phase = "load"
    /\ Pending # {}
    /\ batch' = Oldest(Pending)
    /\ toSend' = Oldest(Pending)
    /\ phase' = "publish"
    /\ UNCHANGED <<table, sent, failed, broker, stops, accepted, failures>>

(* Row r is the one the loop is at. *)
Current(r) == phase = "publish" /\ r \in toSend /\ \A q \in toSend : r <= q

PublishSucceeds(r) ==
    /\ Current(r)
    /\ brokerUp /\ r \notin Poison
    /\ accepted' = [accepted EXCEPT ![r] = @ + 1]
    /\ toSend' = toSend \ {r}
    /\ sent' = sent \cup {r}
    /\ UNCHANGED <<table, batch, failed, broker, phase, stops, failures>>

(***************************************************************************)
(* PublishMessageAsync throws: the payload is bad, the broker is away, or  *)
(* it took the message but its answer was lost when it went away.          *)
(***************************************************************************)
PublishFails(r) ==
    /\ Current(r)
    /\ r \in Poison \/ ~brokerUp
    /\ \/ UNCHANGED accepted
       \/ r \notin Poison /\ accepted' = [accepted EXCEPT ![r] = @ + 1]
    /\ failures' = [failures EXCEPT ![r] = @ + 1]
    /\ toSend' = toSend \ {r}
    /\ failed' = failed \cup {r}
    /\ UNCHANGED <<table, batch, sent, broker, phase, stops>>

NewPass ==
    /\ phase' = "load"
    /\ batch' = {} /\ toSend' = {} /\ sent' = {} /\ failed' = {}

(* Mistaken: the batch is marked processed whatever became of its rows. *)
SaveAllProcessed ==
    /\ phase = "publish" /\ toSend = {}
    /\ processed' = processed \cup batch
    /\ NewPass
    /\ UNCHANGED <<rows, dead, attempts, broker, stops, accepted, failures>>

(* Mistaken: only failures are saved, successes are published again. *)
SaveForgetsSent ==
    /\ phase = "publish" /\ toSend = {}
    /\ attempts' = [r \in Rows |-> IF r \in failed THEN attempts[r] + 1 ELSE attempts[r]]
    /\ dead' = dead \cup {r \in failed : attempts'[r] >= DeadLetterAttemptLimit}
    /\ NewPass
    /\ UNCHANGED <<rows, processed, broker, stops, accepted, failures>>

(* SaveChangesAsync at the end of the pass. *)
Save ==
    /\ phase = "publish" /\ toSend = {}
    /\ processed' = processed \cup sent
    /\ attempts' = [r \in Rows |-> IF r \in failed THEN attempts[r] + 1 ELSE attempts[r]]
    /\ dead' = dead \cup {r \in failed : attempts'[r] >= DeadLetterAttemptLimit}
    /\ NewPass
    /\ UNCHANGED <<rows, broker, stops, accepted, failures>>

(***************************************************************************)
(* The process stops within the pass, or SaveChangesAsync throws, which    *)
(* ends the host; compose starts it again with nothing in memory.          *)
(***************************************************************************)
StopPass ==
    /\ phase = "publish"
    /\ stops < MaxStops
    /\ stops' = stops + 1
    /\ NewPass
    /\ UNCHANGED <<table, broker, accepted, failures>>

BrokerGoesDown ==
    /\ brokerUp
    /\ outages < MaxOutages
    /\ brokerUp' = FALSE
    /\ outages' = outages + 1
    /\ UNCHANGED <<table, memory, phase, stops, accepted, failures>>

BrokerComesBack ==
    /\ ~brokerUp
    /\ brokerUp' = TRUE
    /\ UNCHANGED <<table, memory, outages, phase, stops, accepted, failures>>

OutboxNext ==
    \/ \E r \in Rows : EnqueueRow(r)
    \/ Load
    \/ \E r \in Rows : PublishSucceeds(r)
    \/ \E r \in Rows : PublishFails(r)
    \/ Save
    \/ StopPass
    \/ BrokerGoesDown
    \/ BrokerComesBack

OutboxSpec == OutboxInit /\ [][OutboxNext]_outboxVars

(* The hosted service loops for ever; the broker's outages end. *)
FairOutbox ==
    /\ OutboxSpec
    /\ WF_outboxVars(Load) /\ WF_outboxVars(Save) /\ WF_outboxVars(BrokerComesBack)
    /\ WF_outboxVars(\E r \in Rows : PublishSucceeds(r) \/ PublishFails(r))
-----------------------------------------------------------------------------
(***************************************************************************)
(* A row is marked processed only when the topic has taken it: no event    *)
(* disappears because its row says it was sent.                            *)
(***************************************************************************)
ProcessedWasAccepted == \A r \in processed : accepted[r] > 0

(***************************************************************************)
(* A row is given up only after DeadLetterAttemptLimit attempts of its own *)
(* failed; attempts that a stop has forgotten only add to them.            *)
(***************************************************************************)
NotGivenUpEarly ==
    \A r \in Rows : /\ r \in dead => failures[r] >= DeadLetterAttemptLimit
                    /\ attempts[r] <= failures[r]

(***************************************************************************)
(* The topic takes a row a second time only after a stop or a lost answer: *)
(* without faults an event is published exactly once.                      *)
(***************************************************************************)
DuplicatesHaveACause == \A r \in Rows : accepted[r] <= 1 + stops + failures[r]

(***************************************************************************)
(* Each committed row is in the end marked as sent or as given up.  Rows   *)
(* that can never be published do not hold up the ones behind them, even   *)
(* when they fill the whole batch (the Take(10) of PublishBatchAsync).     *)
(***************************************************************************)
EveryRowIsSettled == \A r \in Rows : (r \in rows) ~> (r \in processed \cup dead)
=============================================================================
