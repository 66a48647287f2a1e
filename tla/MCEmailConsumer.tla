-------------------------- MODULE MCEmailConsumer ---------------------------
(* Two requests for an e-mail, an update of a cart and a foreign message. *)
EXTENDS EmailConsumer, TLC

CONSTANTS m1, m2, m3, m4

MCRequests == {m1, m2}
MCUpdates == {m3}
MCForeign == {m4}
=============================================================================
