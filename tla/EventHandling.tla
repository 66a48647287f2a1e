--------------------------- MODULE EventHandling ----------------------------
(***************************************************************************)
(* What a service promises about the events it consumes: the business      *)
(* effect of an event happens at most once, however many messages carry    *)
(* it, and a message is acknowledged only when there is nothing left to do *)
(* for it.                                                                 *)
(***************************************************************************)
CONSTANTS Messages,       \* the messages of a subscription
          EventIds,       \* the events they carry
          EventOf,        \* the event carried by each message
          Handled         \* the events the service has a handler for

VARIABLES effects,        \* the events whose effect has happened
          settled         \* what became of each message

vars == <<effects, settled>>

Init ==
    /\ effects = {}
    /\ settled = [m \in Messages |-> "no"]

Handle(e) ==
    /\ e \in Handled \ effects
    /\ effects' = effects \cup {e}
    /\ UNCHANGED settled

Acknowledge(m) ==
    /\ settled[m] = "no"
    /\ EventOf[m] \in Handled => EventOf[m] \in effects
    /\ settled' = [settled EXCEPT ![m] = "completed"]
    /\ UNCHANGED effects

GiveUp(m) ==
    /\ settled[m] = "no"
    /\ settled' = [settled EXCEPT ![m] = "dead"]
    /\ UNCHANGED effects

Next ==
    \/ \E e \in EventIds : Handle(e)
    \/ \E m \in Messages : Acknowledge(m)
    \/ \E m \in Messages : GiveUp(m)

Spec == Init /\ [][Next]_vars
=============================================================================
