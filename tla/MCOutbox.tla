------------------------------ MODULE MCOutbox ------------------------------
(***************************************************************************)
(* A batch of one or two rows, three rows of which the oldest ones cannot  *)
(* be published, one outage and one stop.                                  *)
(***************************************************************************)
EXTENDS Outbox

MCRows == 1..3
MCPoison == {1, 2}
=============================================================================
