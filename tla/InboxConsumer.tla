---------------------------- MODULE InboxConsumer ---------------------------
(***************************************************************************)
(* AzureServiceBusEventConsumer, step by step: the consumers of one        *)
(* subscription, each taking one message at a time under a peek lock.      *)
(* There is one consumer per process; more than one is what a service that *)
(* is scaled out has, and what a lock that expires while its holder is     *)
(* still busy amounts to.  The subscription may hold several messages for  *)
(* one event, because its publisher sent it again.                         *)
(***************************************************************************)
EXTENDS Integers

CONSTANTS Consumers,         \* the processors that drain the subscription
          Messages,          \* the messages published to the subscription
          EventIds,          \* the events they may carry
          EventOf,           \* the EventId in each message
          Handled,           \* the events some handler of the service accepts
          Garbled,           \* messages that are not a valid envelope
          Unreadable,        \* events whose payload the handler cannot deserialise
          MaxDeliveryCount,  \* deliveries the broker makes of a message (5)
          MaxFaults          \* bound: stops, exceptions and lock losses

ASSUME ConsumerAssumption ==
    /\ EventOf \in [Messages -> EventIds]
    /\ Handled \subseteq EventIds /\ Unreadable \subseteq EventIds /\ Garbled \subseteq Messages
    /\ MaxDeliveryCount \in Nat \ {0} /\ MaxFaults \in Nat

NoMessage == "no message"
NoConsumer == "no consumer"

ASSUME NamesAreDistinct == NoMessage \notin Messages /\ NoConsumer \notin Consumers

VARIABLES pc,          \* where each consumer is in ProcessMessageAsync
          holds,       \* the message it was given
          place,       \* where each message is
          lockedBy,    \* the consumer whose lock on a message is valid
          deliveries,  \* how often each message was delivered
          inbox,       \* the committed rows of the inbox table
          effects,     \* how often the handlers' changes for an event were committed
          faults

vars == <<pc, holds, place, lockedBy, deliveries, inbox, effects, faults>>

Idle == "idle"
Steps == {Idle, "decode", "check", "handle", "commit", "complete"}

(* The types; no message is delivered more than MaxDeliveryCount times. *)
TypeOK ==
    /\ pc \in [Consumers -> Steps]
    /\ holds \in [Consumers -> Messages \cup {NoMessage}]
    /\ \A c \in Consumers : pc[c] = Idle <=> holds[c] = NoMessage
    /\ place \in [Messages -> {"queued", "locked", "completed", "dead"}]
    /\ lockedBy \in [Messages -> Consumers \cup {NoConsumer}]
    /\ deliveries \in [Messages -> 0..MaxDeliveryCount]
    /\ inbox \subseteq EventIds
    /\ effects \in [EventIds -> Nat]
    /\ faults \in 0..MaxFaults

Init ==
    /\ pc = [c \in Consumers |-> Idle]
    /\ holds = [c \in Consumers |-> NoMessage]
    /\ place = [m \in Messages |-> "queued"]
    /\ lockedBy = [m \in Messages |-> NoConsumer]
    /\ deliveries = [m \in Messages |-> 0]
    /\ inbox = {}
    /\ effects = [e \in EventIds |-> 0]
    /\ faults = 0

Fault == faults < MaxFaults /\ faults' = faults + 1
-----------------------------------------------------------------------------
(* The broker gives message m to consumer c under a lock. *)
Receive(c, m) ==
    /\ pc[c] = Idle
    /\ place[m] = "queued"
    /\ pc' = [pc EXCEPT ![c] = "decode"]
    /\ holds' = [holds EXCEPT ![c] = m]
    /\ place' = [place EXCEPT ![m] = "locked"]
    /\ lockedBy' = [lockedBy EXCEPT ![m] = c]
    /\ deliveries' = [deliveries EXCEPT ![m] = @ + 1]
    /\ UNCHANGED <<inbox, effects, faults>>

Goto(c, step) == pc' = [pc EXCEPT ![c] = step]

Release(c) ==
    /\ pc' = [pc EXCEPT ![c] = Idle]
    /\ holds' = [holds EXCEPT ![c] = NoMessage]

(***************************************************************************)
(* A settlement the broker accepts only from the holder of a valid lock;   *)
(* without one it is a MessageLockLost exception and changes nothing.      *)
(***************************************************************************)
Settle(c, where) ==
    LET m == holds[c] IN
    /\ IF lockedBy[m] = c
       THEN /\ place' = [place EXCEPT ![m] = where]
            /\ lockedBy' = [lockedBy EXCEPT ![m] = NoConsumer]
       ELSE UNCHANGED <<place, lockedBy>>
    /\ Release(c)

(* Where the broker puts a message whose delivery has failed. *)
AfterFailure(m) == IF deliveries[m] >= MaxDeliveryCount THEN "dead" ELSE "queued"

(* The envelope is deserialised; an invalid one is dead-lettered. *)
Decode(c) ==
    /\ pc[c] = "decode"
    /\ IF holds[c] \in Garbled
       THEN Settle(c, "dead")
       ELSE Goto(c, "check") /\ UNCHANGED <<holds, place, lockedBy>>
    /\ UNCHANGED <<deliveries, inbox, effects, faults>>

(* No handler for it, or already in the inbox: nothing to do but complete. *)
CheckInbox(c) ==
    LET e == EventOf[holds[c]] IN
    /\ pc[c] = "check"
    /\ Goto(c, IF e \in Handled \ inbox THEN "handle" ELSE "complete")
    /\ UNCHANGED <<holds, place, lockedBy, deliveries, inbox, effects, faults>>

(* Mistaken: the inbox table has no primary key on EventId. *)
SaveWithoutKey(c) ==
    /\ pc[c] = "handle"
    /\ Goto(c, "commit")
    /\ UNCHANGED <<holds, place, lockedBy, deliveries, inbox, effects, faults>>

(***************************************************************************)
(* The handlers run and SaveChangesAsync writes their changes and the      *)
(* inbox row.  The primary key of the inbox table makes it wait for an     *)
(* open transaction that has written the same EventId, and fail on a       *)
(* committed one: the message is abandoned.                                *)
(***************************************************************************)
HasUncommitted(c, e) == pc[c] = "commit" /\ EventOf[holds[c]] = e

SaveChanges(c) ==
    LET e == EventOf[holds[c]] IN
    /\ pc[c] = "handle" /\ e \notin Unreadable
    /\ \A d \in Consumers : ~HasUncommitted(d, e)
    /\ IF e \in inbox
       THEN Settle(c, AfterFailure(holds[c]))
       ELSE Goto(c, "commit") /\ UNCHANGED <<holds, place, lockedBy>>
    /\ UNCHANGED <<deliveries, inbox, effects, faults>>

(* Mistaken: the message is completed before the transaction commits. *)
CompleteThenCommit(c) ==
    /\ pc[c] = "commit"
    /\ \/ Settle(c, "completed") /\ Fault /\ UNCHANGED <<inbox, effects>>
       \/ /\ inbox' = inbox \cup {EventOf[holds[c]]}
          /\ effects' = [effects EXCEPT ![EventOf[holds[c]]] = @ + 1]
          /\ Settle(c, "completed")
          /\ UNCHANGED faults
    /\ UNCHANGED deliveries

(* The inbox row and the handlers' changes become visible together. *)
Commit(c) ==
    LET e == EventOf[holds[c]] IN
    /\ pc[c] = "commit"
    /\ inbox' = inbox \cup {e}
    /\ effects' = [effects EXCEPT ![e] = @ + 1]
    /\ Goto(c, "complete")
    /\ UNCHANGED <<holds, place, lockedBy, deliveries, faults>>

Complete(c) ==
    /\ pc[c] = "complete"
    /\ Settle(c, "completed")
    /\ UNCHANGED <<deliveries, inbox, effects, faults>>

(* Mistaken: the handler is tried again in place, for ever. *)
RetriesInPlace(c) ==
    /\ pc[c] = "handle" /\ EventOf[holds[c]] \in Unreadable
    /\ UNCHANGED vars

(* The handler throws on the payload, at this delivery and at every other. *)
CannotRead(c) ==
    /\ pc[c] = "handle" /\ EventOf[holds[c]] \in Unreadable
    /\ Settle(c, AfterFailure(holds[c]))
    /\ UNCHANGED <<deliveries, inbox, effects, faults>>

(* An exception before the commit: it is rolled back, the message abandoned. *)
Throw(c) ==
    /\ pc[c] \in {"check", "handle", "commit"}
    /\ Fault
    /\ Settle(c, AfterFailure(holds[c]))
    /\ UNCHANGED <<deliveries, inbox, effects>>

(* The process stops; what it had not committed is rolled back. *)
Stop(c) ==
    /\ pc[c] # Idle
    /\ Fault
    /\ Release(c)
    /\ UNCHANGED <<place, lockedBy, deliveries, inbox, effects>>

(***************************************************************************)
(* The lock on m expires.  It is renewed while its holder works on the     *)
(* message, so it expires when the holder has stopped or, as a fault, when *)
(* the renewals fail or last too long.                                     *)
(***************************************************************************)
Abandoned(m) == place[m] = "locked" /\ holds[lockedBy[m]] # m

Expire(m) ==
    /\ place' = [place EXCEPT ![m] = AfterFailure(m)]
    /\ lockedBy' = [lockedBy EXCEPT ![m] = NoConsumer]
    /\ UNCHANGED <<pc, holds, deliveries, inbox, effects>>

LockExpires(m) == Abandoned(m) /\ Expire(m) /\ UNCHANGED faults

LockIsLost(m) == place[m] = "locked" /\ ~Abandoned(m) /\ Fault /\ Expire(m)

Next ==
    \/ \E c \in Consumers, m \in Messages : Receive(c, m)
    \/ \E c \in Consumers : Decode(c)
    \/ \E c \in Consumers : CheckInbox(c)
    \/ \E c \in Consumers : SaveChanges(c)
    \/ \E c \in Consumers : CannotRead(c)
    \/ \E c \in Consumers : Commit(c)
    \/ \E c \in Consumers : Complete(c)
    \/ \E c \in Consumers : Throw(c)
    \/ \E c \in Consumers : Stop(c)
    \/ \E m \in Messages : LockExpires(m)
    \/ \E m \in Messages : LockIsLost(m)

Spec == Init /\ [][Next]_vars

(***************************************************************************)
(* A consumer that has a message goes on with it; while there are messages *)
(* the processor asks for one; abandoned locks expire.                     *)
(***************************************************************************)
FairSpec ==
    /\ Spec
    /\ \A c \in Consumers :
        /\ WF_vars(\E m \in Messages : Receive(c, m))
        /\ WF_vars(Decode(c)) /\ WF_vars(CheckInbox(c)) /\ WF_vars(SaveChanges(c))
        /\ WF_vars(CannotRead(c))
        /\ WF_vars(Commit(c)) /\ WF_vars(Complete(c))
    /\ \A m \in Messages : WF_vars(LockExpires(m))
-----------------------------------------------------------------------------
(***************************************************************************)
(* An event takes effect at most once, and has done so exactly when its    *)
(* inbox row stands: two consumers that both found the inbox empty, a      *)
(* redelivery after a lost completion or a second publication do not       *)
(* repeat it.                                                              *)
(***************************************************************************)
EffectsHappenOnce == \A e \in EventIds : effects[e] = IF e \in inbox THEN 1 ELSE 0

(* A message is completed only when nothing remains to be done for it. *)
CompletedWasHandled ==
    \A m \in Messages :
        place[m] = "completed" /\ EventOf[m] \in Handled => EventOf[m] \in inbox

(***************************************************************************)
(* Two open transactions never carry the same event, although two          *)
(* consumers may both have found no inbox row for it.                      *)
(***************************************************************************)
OneTransactionPerEvent ==
    \A c, d \in Consumers : \A e \in EventIds :
        HasUncommitted(c, e) /\ HasUncommitted(d, e) => c = d

(* Every message is completed or dead-lettered in the end. *)
EveryMessageIsSettled == \A m \in Messages : <>(place[m] \in {"completed", "dead"})

(***************************************************************************)
(* The consumer keeps the promise of EventHandling.                        *)
(***************************************************************************)
Settled == [m \in Messages |-> IF place[m] \in {"completed", "dead"} THEN place[m] ELSE "no"]

Promise == INSTANCE EventHandling WITH effects <- inbox, settled <- Settled
ImplementsPromise == Promise!Spec
=============================================================================
