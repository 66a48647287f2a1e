------------------------------ MODULE Inventory -----------------------------
(***************************************************************************)
(* The stock of the Inventory service under its two writers: the handler   *)
(* of PaymentAuthorized, which reserves the lines of an order, and the     *)
(* administrator's PUT, which sets a quantity.  Both read the rows they    *)
(* need, compute in memory, and save; neither holds a lock between its     *)
(* read and its save, and no column detects that a row has changed since.  *)
(***************************************************************************)
EXTENDS Integers

CONSTANTS Handlers,      \* event consumers, one per process
          Orders,
          Products,
          Lines,         \* the quantity of each product in each order
          Requests,      \* the PUT requests administrators send
          Levels,        \* the quantities they may set
          InitialStock   \* the quantity of each product, or NoRow

NoRow == -1

ASSUME InventoryAssumption ==
    /\ Lines \in [Orders -> [Products -> Nat]]
    /\ Levels \subseteq Nat
    /\ InitialStock \in [Products -> Nat \cup {NoRow}]

VARIABLES stock,         \* AvailableQuantity of each product
          reservation,   \* the reservation of each order
          work,          \* what each handler has read for the order it is at
          put,           \* the state of each request
          set,           \* what the last PUT of each product left
          taken,         \* pieces reserved of each product since then
          stale          \* products whose last save went over a change it had not read

ghosts        == <<set, taken, stale>>
inventoryVars == <<stock, reservation, work, put, ghosts>>

Quantity == Nat \cup {NoRow}
Work == [order : Orders, read : [Products -> Quantity]]
Put  == [product : Products, level : Levels, read : Quantity]
None == [idle |-> TRUE]
Done == [done |-> TRUE]

(* Quantities are never negative, -1 standing for a row never inserted. *)
InventoryTypeOK ==
    /\ stock \in [Products -> Quantity]
    /\ \A p \in Products : stock[p] = NoRow => set[p] = NoRow
    /\ reservation \in [Orders -> {"None", "Reserved", "Rejected"}]
    /\ work \in [Handlers -> Work \cup {None}]
    /\ put \in [Requests -> Put \cup {None, Done}]
    /\ stale \subseteq Products
    /\ set \in [Products -> Quantity] /\ taken \in [Products -> Nat]

InventoryInit ==
    /\ stock = InitialStock
    /\ reservation = [o \in Orders |-> "None"]
    /\ work = [h \in Handlers |-> None]
    /\ put = [r \in Requests |-> None]
    /\ stale = {}
    /\ set = InitialStock
    /\ taken = [p \in Products |-> 0]
-----------------------------------------------------------------------------
(* HandleAsync reads: no reservation of the order, and its products' rows. *)
ReadStock(h, o) ==
    /\ work[h] = None
    /\ reservation[o] = "None"
    /\ work' = [work EXCEPT ![h] = [order |-> o, read |-> stock]]
    /\ UNCHANGED <<stock, reservation, put, ghosts>>

Shortage(w) == \E p \in Products : Lines[w.order][p] > 0 /\ w.read[p] < Lines[w.order][p]

Needed(w) == {p \in Products : Lines[w.order][p] > 0}

(* Mistaken: nothing stops a second reservation of the order. *)
SaveTwice(h) ==
    LET w == work[h] IN
    /\ w # None /\ ~Shortage(w)
    /\ reservation' = [reservation EXCEPT ![w.order] = "Reserved"]
    /\ stock' = [p \in Products |-> IF p \in Needed(w) THEN stock[p] - Lines[w.order][p] ELSE stock[p]]
    /\ stale' = stale
    /\ taken' = [p \in Products |-> IF reservation[w.order] = "Reserved" THEN taken[p]
                                    ELSE taken[p] + Lines[w.order][p]]
    /\ work' = [work EXCEPT ![h] = None]
    /\ UNCHANGED <<put, set>>

(***************************************************************************)
(* SaveChanges of the handler: the reservation and, if nothing is short,   *)
(* each quantity computed from what was read.  The unique index on OrderId *)
(* makes it fail when another consumer has saved one for the order.        *)
(***************************************************************************)
SaveReservation(h) ==
    LET w == work[h] IN
    /\ w # None
    /\ work' = [work EXCEPT ![h] = None]
    /\ UNCHANGED <<put, set>>
    /\ IF reservation[w.order] # "None"
       THEN UNCHANGED <<stock, reservation, taken, stale>>
       ELSE IF Shortage(w)
       THEN /\ reservation' = [reservation EXCEPT ![w.order] = "Rejected"]
            /\ UNCHANGED <<stock, taken, stale>>
       ELSE /\ reservation' = [reservation EXCEPT ![w.order] = "Reserved"]
            /\ stock' = [p \in Products |-> IF p \in Needed(w)
                                            THEN w.read[p] - Lines[w.order][p] ELSE stock[p]]
            /\ stale' = stale \cup {p \in Needed(w) : w.read[p] # stock[p]}
            /\ taken' = [p \in Products |-> taken[p] + Lines[w.order][p]]

(* InventoryController.Set reads the row. *)
ReadItem(r, p, level) ==
    /\ put[r] = None
    /\ put' = [put EXCEPT ![r] = [product |-> p, level |-> level, read |-> stock[p]]]
    /\ UNCHANGED <<stock, reservation, work, ghosts>>

(***************************************************************************)
(* SaveChanges of Set.  A new row is inserted, which fails on its key if   *)
(* another request has inserted it; of a row that was read, the quantity   *)
(* is written only if it differs from what was read.                       *)
(***************************************************************************)
SaveItem(r) ==
    LET q == put[r] IN
    /\ q \notin {None, Done}
    /\ put' = [put EXCEPT ![r] = Done]
    /\ UNCHANGED <<reservation, work>>
    /\ IF q.read = NoRow /\ stock[q.product] # NoRow
       THEN UNCHANGED <<stock, ghosts>>
       ELSE /\ stock' = [stock EXCEPT ![q.product] = IF q.read = q.level THEN @ ELSE q.level]
            /\ stale' = IF q.read = q.level /\ stock[q.product] # q.level
                        THEN stale \cup {q.product} ELSE stale \ {q.product}
            /\ set' = [set EXCEPT ![q.product] = q.level]
            /\ taken' = [taken EXCEPT ![q.product] = 0]

InventoryNext ==
    \/ \E h \in Handlers, o \in Orders : ReadStock(h, o)
    \/ \E h \in Handlers : SaveReservation(h)
    \/ \E r \in Requests, p \in Products, level \in Levels : ReadItem(r, p, level)
    \/ \E r \in Requests : SaveItem(r)

InventorySpec == InventoryInit /\ [][InventoryNext]_inventoryVars
-----------------------------------------------------------------------------
(***************************************************************************)
(* Pieces appear or disappear only when a save went over a change made     *)
(* since its read: otherwise what the last PUT left is still there or in   *)
(* a reservation made since.                                               *)
(***************************************************************************)
ConservedUnlessStale ==
    /\ InventoryTypeOK
    /\ \A p \in Products \ stale :
           set[p] = NoRow \/ stock[p] + taken[p] = set[p]

(***************************************************************************)
(* What Inventory decided of an order stands, and its stock is taken once, *)
(* however many consumers have read the event before one of them saved.    *)
(***************************************************************************)
ReservationIsFinal ==
    [][\A o \in Orders : reservation[o] # "None" =>
           /\ reservation'[o] = reservation[o]
           /\ \A h \in Handlers : work[h] # None /\ work[h].order = o /\ work'[h] = None =>
                  stock' = stock]_inventoryVars
=============================================================================
