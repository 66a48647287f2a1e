------------------------------- MODULE MCCart -------------------------------
(* Requests of one user about two products and one promotion code. *)
EXTENDS Cart, TLC

CONSTANTS r1, r2, r3, r4, p1, p2, c1

FourRequests == {r1, r2, r3, r4}
MCProducts == {p1, p2}
MCCoupons == {c1}
OneOrTwo == {1, 2}

Interchangeable == Permutations(FourRequests) \cup Permutations(MCProducts)
=============================================================================
