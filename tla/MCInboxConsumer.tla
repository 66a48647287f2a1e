-------------------------- MODULE MCInboxConsumer ---------------------------
(***************************************************************************)
(* Two consumers; an event published twice, an event the service does not  *)
(* handle, one it cannot read, and a message that is no envelope.          *)
(***************************************************************************)
EXTENDS InboxConsumer, TLC

CONSTANTS c1, c2, m1, m2, m3, m4, m5, e1, e2, e3

MCConsumers == {c1, c2}
MCMessages == {m1, m2, m3, m4, m5}
MCEventIds == {e1, e2, e3}
MCEventOf == (m1 :> e1) @@ (m2 :> e1) @@ (m3 :> e2) @@ (m4 :> e1) @@ (m5 :> e3)
MCHandled == {e1, e3}
MCGarbled == {m4}
MCUnreadable == {e3}
=============================================================================
