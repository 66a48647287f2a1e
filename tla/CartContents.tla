---------------------------- MODULE CartContents ----------------------------
(***************************************************************************)
(* What the shopping cart of one user promises: pieces of each product and *)
(* a promotion code.  Each operation takes place at once.                  *)
(***************************************************************************)
EXTENDS Naturals

CONSTANTS Products,  \* the products of the catalogue
          Counts,    \* how many pieces one request may add
          Coupons,   \* the promotion codes a user may type
          NoCoupon   \* the empty code

VARIABLES pieces,  \* the number of pieces of each product
          coupon   \* the code applied to the cart, or NoCoupon

cart == <<pieces, coupon>>

Empty == [p \in Products |-> 0]

Init == pieces = Empty /\ coupon = NoCoupon

(* Pieces are added to those that are in the cart. *)
Add(p, n) == pieces' = [pieces EXCEPT ![p] = @ + n] /\ UNCHANGED coupon

(* A product is taken out; its promotion code leaves with the last one. *)
Remove(p) ==
    /\ pieces' = [pieces EXCEPT ![p] = 0]
    /\ coupon' = IF pieces' = Empty THEN NoCoupon ELSE coupon

Apply(c) == coupon' = c /\ UNCHANGED pieces

Next == \/ \E p \in Products, n \in Counts : Add(p, n)
        \/ \E p \in Products : Remove(p)
        \/ \E c \in Coupons \cup {NoCoupon} : Apply(c)

Spec == Init /\ [][Next]_cart
=============================================================================
