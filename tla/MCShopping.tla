---------------------------- MODULE MCShopping -----------------------------
(***************************************************************************)
(* One product, of which there are two pieces in the cart when the visit   *)
(* begins, and a code that asks for more than their price.  Two more are   *)
(* added at once: three are left when one of the additions is lost.        *)
(***************************************************************************)
EXTENDS Shopping, TLC

CONSTANTS p1, c1, l1, l2

OneProduct == {p1}
OnePrice == p1 :> 1
OneFilled == {p1 :> 2}
MCMixed == {p1 :> 3}
MCCoupons == {c1}
MCMinimum == c1 :> 2
MCLoads == {l1, l2}
=============================================================================
