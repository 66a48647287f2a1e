--------------------------- MODULE MCOrderTracking ---------------------------
(***************************************************************************)
(* Two paid orders compete for the stock of two products, so that either,  *)
(* both or none can be served; a third order is refused by the simulator.  *)
(* A page is opened for one after another of them.                         *)
(***************************************************************************)
EXTENDS OrderTracking, TLC

CONSTANTS o1, o2, o3, p1, p2

MCOrders == {o1, o2, o3}
MCProducts == {p1, p2}
MCLineChoices == {(p1 :> 1) @@ (p2 :> 0), (p1 :> 2) @@ (p2 :> 1)}
MCInitialStock == (p1 :> 2) @@ (p2 :> 1)
MCSimulatorRejects == {o3}
=============================================================================
