------------------------- MODULE MCCheckoutDelivery -------------------------
(***************************************************************************)
(* One order that can be served in full, that asks for more than there is, *)
(* or competes with the other one.                                         *)
(***************************************************************************)
EXTENDS CheckoutDelivery, TLC

CONSTANTS o1, o2, p1

TwoOrders == {o1, o2}
MCProducts == {p1}
MCLineChoices == {p1 :> 1, p1 :> 2}
MCInitialStock == p1 :> 1
MCSimulatorRejects == {o2}
=============================================================================
