---------------------------- MODULE MCInventory ----------------------------
(***************************************************************************)
(* Two orders that compete for one product, of which one also wants a      *)
(* product that has no row until an administrator sets it.                 *)
(***************************************************************************)
EXTENDS Inventory, TLC

CONSTANTS h1, h2, r1, r2, o1, o2, p1, p2

TwoHandlers == {h1, h2}
MCOrders == {o1, o2}
MCProducts == {p1, p2}
MCLines == (o1 :> ((p1 :> 1) @@ (p2 :> 1))) @@ (o2 :> ((p1 :> 2) @@ (p2 :> 0)))
MCRequests == {r1, r2}
MCLevels == {0, 2}
MCInitialStock == (p1 :> 2) @@ (p2 :> NoRow)
=============================================================================
