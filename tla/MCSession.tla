----------------------------- MODULE MCSession -----------------------------
(***************************************************************************)
(* An administrator and a customer who have accounts, and somebody who may *)
(* register.                                                               *)
(***************************************************************************)
EXTENDS Session

CONSTANTS ann, bob, cem

MCAccounts == {ann, bob, cem}
MCRegistered == {ann, bob}
MCAdmins == {ann}
=============================================================================
