---------------------------- MODULE MCAdminPage ----------------------------
(***************************************************************************)
(* One row of each kind, room for a second, and one value that a form may  *)
(* hold besides the one that is stored.                                    *)
(***************************************************************************)
EXTENDS AdminPage, TLC

CONSTANTS v1, v2, l1, l2

MCValues == {v1, v2}
MCStored == {(1 :> v1) @@ (2 :> Absent)}
MCLoads == {l1, l2}
=============================================================================
