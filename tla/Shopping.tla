------------------------------ MODULE Shopping ------------------------------
(***************************************************************************)
(* A visit from the catalogue to the cart.  The catalogue and the page of  *)
(* a product put pieces into the cart, each with a flag of its own, and    *)
(* their requests outlive them: one may be served after the cart page has  *)
(* been opened, which is not told, or together with another one.  What is  *)
(* bought is in Storefront.  The model does not go back from a page to an  *)
(* earlier one.                                                            *)
(***************************************************************************)
EXTENDS Storefront

VARIABLES shop,     \* the page that is shown, and what it shows
          adding,   \* the request of each page for each product
          expected, \* pieces the user knows of: found in the cart, or told they were added
          emptied   \* products some pieces of which were taken out

shopVars     == <<shop, adding, expected, emptied>>
shoppingVars == <<vars, shopVars>>

Places == {"catalogue", "product"}

ShopTypeOK ==
    /\ shop \in [route : Places \cup {"cart"}, view : {"loading", "shown", "empty", "failed"}]
    /\ adding \in [Places \X Products -> {Idle} \cup [op : {"add"}, count : 1 .. Limit, reply : Replies \ {"error"}]]
    /\ serving \subseteq (Places \cup {"item"}) \X Products \cup {CodeRequest, OtherRequest}
    /\ expected \in [Products -> Nat] /\ emptied \subseteq Products

ShoppingInit ==
    /\ NothingAsked
    /\ shop = [route |-> "catalogue", view |-> "loading"]
    /\ adding = [k \in Places \X Products |-> Idle]
    /\ expected = pieces /\ emptied = {}
-----------------------------------------------------------------------------
(* The lists of api.products(): one that has no result is empty. *)
ReceiveProducts ==
    /\ shop = [route |-> "catalogue", view |-> "loading"]
    /\ \E view \in {"shown", "empty", "failed"} : shop' = [shop EXCEPT !.view = view]
    /\ UNCHANGED <<vars, adding, expected>>

(* "Try again" is there after an error only. *)
TryAgain ==
    /\ shop = [route |-> "catalogue", view |-> "failed"]
    /\ clicks < MaxClicks /\ clicks' = clicks + 1
    /\ shop' = [shop EXCEPT !.view = "loading"]
    /\ UNCHANGED <<cart, page, calls, serving, orders, disturbed, adding, expected>>

(* Once its products are shown, a page has buttons to add them. *)
Offered(place) == shop = [route |-> place, view |-> "shown"]

OpenProduct ==
    /\ Offered("catalogue")
    /\ shop' = [route |-> "product", view |-> "loading"]
    /\ UNCHANGED <<vars, adding, expected>>

(* A product without a result is an error. *)
ReceiveProduct ==
    /\ shop = [route |-> "product", view |-> "loading"]
    /\ \E view \in {"shown", "failed"} : shop' = [shop EXCEPT !.view = view]
    /\ UNCHANGED <<vars, adding, expected>>

(* The cart page is created, and asks for the cart. *)
OpenCart ==
    /\ shop.route \in Places
    /\ shop' = [route |-> "cart", view |-> "shown"]
    /\ Request /\ page' = [page EXCEPT !.view = "shown"]
    /\ UNCHANGED <<cart, item, promotion, checkout, mail, serving, orders, clicks, adding, expected>>

(* One piece from the catalogue; as many as the stepper shows from the other. *)
Quantities(place) == IF place = "catalogue" THEN {1} ELSE 1 .. Limit

Add(place, p, n) ==
    /\ Offered(place)
    /\ n \in Quantities(place) /\ ~InFlight(adding[<<place, p>>])
    /\ clicks < MaxClicks /\ clicks' = clicks + 1
    /\ adding' = [adding EXCEPT ![<<place, p>>] = [op |-> "add", count |-> n, reply |-> "awaited"]]
    /\ UNCHANGED <<cart, page, calls, serving, orders, disturbed, shop, expected>>

TakeAdd(place, p) ==
    /\ Awaited(adding[<<place, p>>]) /\ Take(<<place, p>>)
    /\ UNCHANGED <<clicks, shop, adding, expected>>

(* The cart page, if it is open, hears of it only if it still waits for the cart. *)
ServeAdd(place, p) ==
    /\ Awaited(adding[<<place, p>>]) /\ Done(<<place, p>>)
    /\ Contents!Add(p, adding[<<place, p>>].count)
    /\ adding' = [adding EXCEPT ![<<place, p>>].reply = "success"]
    /\ IF ReadsLater THEN UNCHANGED disturbed ELSE Disturb("elsewhere")
    /\ UNCHANGED <<page, calls, orders, clicks, shop, expected>>

(***************************************************************************)
(* An error of the BFF is told like a failure of the service behind it.    *)
(* What the service does of it later is Elsewhere.                         *)
(***************************************************************************)
LoseAdd(place, p) ==
    /\ InFlight(adding[<<place, p>>])
    /\ adding' = [adding EXCEPT ![<<place, p>>].reply = "failure"]
    /\ GiveUp(<<place, p>>)
    /\ UNCHANGED <<cart, page, calls, orders, clicks, disturbed, shop, expected>>

(* Mistaken: whatever is answered is a success. *)
AnswerAddAlike(place, p) ==
    /\ Replied(adding[<<place, p>>])
    /\ adding' = [adding EXCEPT ![<<place, p>>] = Idle]
    /\ expected' = [expected EXCEPT ![p] = @ + adding[<<place, p>>].count]
    /\ UNCHANGED <<vars, shop>>

(* "... was added to your cart", or a message of the error. *)
AnswerAdd(place, p) ==
    /\ Replied(adding[<<place, p>>])
    /\ adding' = [adding EXCEPT ![<<place, p>>] = Idle]
    /\ expected' = IF adding[<<place, p>>].reply = "success"
                   THEN [expected EXCEPT ![p] = @ + adding[<<place, p>>].count] ELSE expected
    /\ UNCHANGED <<vars, shop>>

AddStep(place, p) == TakeAdd(place, p) \/ ServeAdd(place, p) \/ AnswerAdd(place, p)

(* The cart page is as in Storefront, once it is open. *)
Buy == Next /\ UNCHANGED <<shop, adding, expected>>

Shop == \/ ReceiveProducts \/ TryAgain \/ OpenProduct \/ ReceiveProduct \/ OpenCart
        \/ \E place \in Places, p \in Products :
               \/ \E n \in Quantities(place) : Add(place, p, n)
               \/ AddStep(place, p) \/ LoseAdd(place, p)

(* Pieces that overlapping requests lose are not taken out by anybody. *)
ShoppingNext ==
    \/ /\ Shop \/ Buy
       /\ emptied' = emptied \cup {p \in Products : pieces'[p] < pieces[p]}
    \/ Interleave /\ UNCHANGED shopVars

ShoppingSpec ==
    /\ ShoppingInit /\ [][ShoppingNext]_shoppingVars
    /\ Fairness
    /\ \A place \in Places, p \in Products : WF_<<adding, serving>>(AddStep(place, p))
-----------------------------------------------------------------------------
(***************************************************************************)
(* "Cart updates are confirmed by the Cart service before this page        *)
(* reports success" (product-detail.component.ts:59): what was in the cart *)
(* and what the user was told had been added is there, unless pieces of    *)
(* the product were taken out - as long as no two requests overlapped at   *)
(* the cart service.  If they did, CartUpsert may lose one of two          *)
(* additions it confirmed: both read the same count of the line.  Without  *)
(* that, a request whose reply is lost may add pieces the user is not told *)
(* of, never the reverse.                                                  *)
(***************************************************************************)
WhatWasToldIsThere ==
    /\ ShopTypeOK
    /\ "interleaved" \notin disturbed =>
           \A p \in Products \ emptied : expected[p] <= pieces[p]

(***************************************************************************)
(* No request leaves a button disabled: those of the cart page come back,  *)
(* and those that add a product too, whatever page is open by then.        *)
(***************************************************************************)
PagesComeBack ==
    /\ ButtonsComeBack
    /\ \A k \in Places \X Products : InFlight(adding[k]) ~> ~InFlight(adding[k])
=============================================================================
