-------------------------- MODULE MCCircuitBreaker --------------------------
(* Three requests at a time, with the attempts and the threshold of the code. *)
EXTENDS CircuitBreaker, TLC

CONSTANTS r1, r2, r3

TwoRequests == {r1, r2}
ThreeRequests == {r1, r2, r3}
=============================================================================
