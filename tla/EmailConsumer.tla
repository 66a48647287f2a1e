---------------------------- MODULE EmailConsumer ---------------------------
(***************************************************************************)
(* The queue emailshoppingcart between the cart service, which publishes   *)
(* to it without an outbox, and the Email service, which has no inbox: the *)
(* row it logs and the completion of the message are two steps.            *)
(*                                                                         *)
(* A cart is published with an address when its owner asks for the e-mail. *)
(* An update of the cart publishes it too, as the client sent it, and the  *)
(* client sends no address.                                                *)
(***************************************************************************)
EXTENDS Naturals

CONSTANTS Requests,          \* requests for the e-mail of a cart
          Updates,           \* updates of a cart
          Foreign,           \* messages others send that are not JSON
          MaxDeliveryCount,  \* deliveries the broker makes of a message (5)
          MaxFaults          \* bound: stops, exceptions, lost locks, outages

ASSUME EmailAssumption ==
    /\ MaxDeliveryCount \in Nat \ {0} /\ MaxFaults \in Nat
    /\ Requests \cap (Updates \cup Foreign) = {} /\ Updates \cap Foreign = {}

Messages == Requests \cup Updates \cup Foreign
NoMessage == "no message"
ASSUME NoMessageIsNone == NoMessage \notin Messages

VARIABLES place,       \* where each message is
          answer,      \* what its sender was told
          deliveries,  \* how often it was delivered
          held,        \* the message the consumer was given
          step,        \* what it does next with it
          locked,      \* its lock on that message is valid
          logged,      \* EmailLogger rows of each message
          suspects,    \* messages whose delivery was cut short after the row
          faults

consumer == <<held, step, locked>>
emailVars == <<place, answer, deliveries, consumer, logged, suspects, faults>>

(* No message is delivered more than MaxDeliveryCount times. *)
EmailTypeOK ==
    /\ place \in [Messages -> {"unsent", "queued", "locked", "completed", "dead", "expired", "lost"}]
    /\ answer \in [Messages -> {"none", "success", "delayed", "failure"}]
    /\ deliveries \in [Messages -> 0 .. MaxDeliveryCount]
    /\ held \in Messages \cup {NoMessage} /\ step \in {"idle", "read", "send", "complete"}
    /\ held = NoMessage <=> step = "idle"
    /\ locked \in BOOLEAN /\ logged \in [Messages -> Nat]
    /\ suspects \subseteq Messages /\ faults \in 0 .. MaxFaults

EmailInit ==
    /\ place = [m \in Messages |-> "unsent"]
    /\ answer = [m \in Messages |-> "none"]
    /\ deliveries = [m \in Messages |-> 0]
    /\ held = NoMessage /\ step = "idle" /\ locked = FALSE
    /\ logged = [m \in Messages |-> 0]
    /\ suspects = {} /\ faults = 0

Fault == faults < MaxFaults /\ faults' = faults + 1
-----------------------------------------------------------------------------
(* EmailCartRequest, CartUpsert after its save, or another sender. *)
Publish(m) ==
    /\ place[m] = "unsent"
    /\ place' = [place EXCEPT ![m] = "queued"]
    /\ answer' = [answer EXCEPT ![m] = "success"]
    /\ UNCHANGED <<deliveries, consumer, logged, suspects, faults>>

(* Mistaken: a request is answered like an update. *)
SwallowFailure(m) ==
    /\ place[m] = "unsent" /\ Fault
    /\ place' = [place EXCEPT ![m] = "lost"]
    /\ answer' = [answer EXCEPT ![m] = "delayed"]
    /\ UNCHANGED <<deliveries, consumer, logged, suspects>>

(* The broker does not take it, which an update reports as a delay. *)
PublishFails(m) ==
    /\ place[m] = "unsent" /\ Fault
    /\ place' = [place EXCEPT ![m] = "lost"]
    /\ answer' = [answer EXCEPT ![m] = IF m \in Updates THEN "delayed" ELSE "failure"]
    /\ UNCHANGED <<deliveries, consumer, logged, suspects>>

(* The processor is given one message at a time. *)
Receive(m) ==
    /\ held = NoMessage /\ place[m] = "queued"
    /\ held' = m /\ step' = "read" /\ locked' = TRUE
    /\ place' = [place EXCEPT ![m] = "locked"]
    /\ deliveries' = [deliveries EXCEPT ![m] = @ + 1]
    /\ UNCHANGED <<answer, logged, suspects, faults>>

Free == held' = NoMessage /\ step' = "idle" /\ locked' = FALSE
AfterFailure(m) == IF deliveries[m] >= MaxDeliveryCount THEN "dead" ELSE "queued"

(* A settlement without a valid lock throws, and changes nothing. *)
Settle(where) ==
    /\ place' = IF locked THEN [place EXCEPT ![held] = where] ELSE place
    /\ Free

(* What is not JSON, or has no address, is dead-lettered. *)
Read ==
    /\ step = "read"
    /\ IF held \notin Requests
       THEN Settle("dead")
       ELSE step' = "send" /\ UNCHANGED <<place, held, locked>>
    /\ UNCHANGED <<answer, deliveries, logged, suspects, faults>>

(* SendEmailAsync: the row of the notification log. *)
SendEmail ==
    /\ step = "send"
    /\ logged' = [logged EXCEPT ![held] = @ + 1]
    /\ step' = "complete"
    /\ UNCHANGED <<place, answer, deliveries, held, locked, suspects, faults>>

Complete ==
    /\ step = "complete"
    /\ Settle("completed")
    /\ suspects' = IF locked THEN suspects ELSE suspects \cup {held}
    /\ UNCHANGED <<answer, deliveries, logged, faults>>

(* Mistaken: the exception is logged and not thrown again. *)
SwallowException ==
    /\ step \in {"read", "send"} /\ Fault
    /\ Settle("completed")
    /\ UNCHANGED <<answer, deliveries, logged, suspects>>

(* The database fails: the exception goes to the processor, which abandons. *)
Throw ==
    /\ step = "send" /\ Fault
    /\ Settle(AfterFailure(held))
    /\ UNCHANGED <<answer, deliveries, logged, suspects>>

(* The process stops; the lock stands until it expires. *)
Stop ==
    /\ held # NoMessage /\ Fault
    /\ Free
    /\ suspects' = IF step = "complete" THEN suspects \cup {held} ELSE suspects
    /\ UNCHANGED <<place, answer, deliveries, logged>>

LockExpires(m) ==
    /\ place[m] = "locked"
    /\ \/ held = m /\ locked /\ locked' = FALSE /\ Fault
       \/ held # m /\ UNCHANGED <<locked, faults>>
    /\ place' = [place EXCEPT ![m] = AfterFailure(m)]
    /\ UNCHANGED <<answer, deliveries, held, step, logged, suspects>>

(* A message nobody took for an hour is dropped, not dead-lettered. *)
Expires(m) ==
    /\ place[m] = "queued" /\ Fault
    /\ place' = [place EXCEPT ![m] = "expired"]
    /\ UNCHANGED <<answer, deliveries, consumer, logged, suspects>>

EmailNext ==
    \/ \E m \in Messages : Publish(m) \/ PublishFails(m) \/ Receive(m)
                          \/ LockExpires(m) \/ Expires(m)
    \/ Read \/ SendEmail \/ Complete \/ Throw \/ Stop

(* The processor asks for messages and goes on with the one it has. *)
EmailSpec ==
    /\ EmailInit /\ [][EmailNext]_emailVars
    /\ WF_emailVars(\E m \in Messages : Receive(m)) /\ WF_emailVars(Read)
    /\ WF_emailVars(SendEmail) /\ WF_emailVars(Complete)
    /\ \A m \in Messages : WF_emailVars(LockExpires(m) /\ held # m)
-----------------------------------------------------------------------------
(***************************************************************************)
(* The log and the queue agree.  A message is completed only after its row *)
(* was logged, and dead-lettered unlogged only if it is invalid or failed  *)
(* at every delivery; a second row is there only because a delivery was    *)
(* cut short between the row and the completion, and one of a message that *)
(* was not sent for an address never is.                                   *)
(***************************************************************************)
LogMatchesQueue ==
    /\ EmailTypeOK
    /\ \A m \in Messages :
           /\ place[m] = "completed" => logged[m] > 0
           /\ place[m] = "dead" /\ logged[m] = 0 => m \notin Requests \/ deliveries[m] = MaxDeliveryCount
           /\ logged[m] > (IF m \in Requests THEN 1 ELSE 0) => m \in suspects

(***************************************************************************)
(* A request for an e-mail that was answered with success is completed or  *)
(* dead-lettered, unless no consumer came for an hour; one that could not  *)
(* be queued was answered with a failure.                                  *)
(***************************************************************************)
AcceptedRequestIsSettled ==
    \A m \in Requests :
        /\ answer[m] = "success" ~> place[m] \in {"completed", "dead", "expired"}
        /\ [](place[m] = "lost" => answer[m] = "failure")
=============================================================================
