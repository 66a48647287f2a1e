------------------------------ MODULE Checkout ------------------------------
(***************************************************************************)
(* What the system promises about a checkout, with no services and no      *)
(* events: an order placed is open until it is decided; meanwhile its      *)
(* money and its goods are asked for, in that order.  It is confirmed only *)
(* while both are held, and rejected only when the money was refused or    *)
(* has been returned.  A decided order never changes.                      *)
(***************************************************************************)
CONSTANT Orders

VARIABLES outcome,   \* what the customer is told
          money,     \* what became of the customer's money
          goods      \* what became of the goods

vars == <<outcome, money, goods>>

Init ==
    /\ outcome = [o \in Orders |-> "none"]
    /\ money = [o \in Orders |-> "none"]
    /\ goods = [o \in Orders |-> "none"]

Place(o) ==
    /\ outcome[o] = "none"
    /\ outcome' = [outcome EXCEPT ![o] = "open"]
    /\ UNCHANGED <<money, goods>>

TakeMoney(o) ==
    /\ outcome[o] = "open" /\ money[o] = "none"
    /\ \E m \in {"held", "refused"} : money' = [money EXCEPT ![o] = m]
    /\ UNCHANGED <<outcome, goods>>

TakeGoods(o) ==
    /\ outcome[o] = "open" /\ money[o] = "held" /\ goods[o] = "none"
    /\ \E g \in {"held", "refused"} : goods' = [goods EXCEPT ![o] = g]
    /\ UNCHANGED <<outcome, money>>

ReturnMoney(o) ==
    /\ outcome[o] = "open" /\ money[o] = "held" /\ goods[o] = "refused"
    /\ money' = [money EXCEPT ![o] = "returned"]
    /\ UNCHANGED <<outcome, goods>>

Confirm(o) ==
    /\ outcome[o] = "open" /\ money[o] = "held" /\ goods[o] = "held"
    /\ outcome' = [outcome EXCEPT ![o] = "confirmed"]
    /\ UNCHANGED <<money, goods>>

Reject(o) ==
    /\ outcome[o] = "open" /\ money[o] \in {"refused", "returned"}
    /\ outcome' = [outcome EXCEPT ![o] = "rejected"]
    /\ UNCHANGED <<money, goods>>

Next == \E o \in Orders : \/ Place(o)
                          \/ TakeMoney(o)
                          \/ TakeGoods(o)
                          \/ ReturnMoney(o)
                          \/ Confirm(o)
                          \/ Reject(o)

Spec == Init /\ [][Next]_vars
=============================================================================
