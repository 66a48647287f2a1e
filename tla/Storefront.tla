----------------------------- MODULE Storefront -----------------------------
(***************************************************************************)
(* One visit of the cart page: the Angular component, the requests it has  *)
(* in progress through the BFF, and the cart and orders behind it.  The    *)
(* cart service is what module CartContents promises of it, which module   *)
(* Cart implements as long as its requests come one at a time; once two of *)
(* them overlap, nothing is promised of the cart any more (Interleave).    *)
(* The BFF answers a failure of a service like a success, with a flag that *)
(* the page looks at for some requests and not for others; only checkout,  *)
(* and a BFF that does not answer, reach the error branch of the page.     *)
(***************************************************************************)
EXTENDS Naturals, Sequences, Functions

CONSTANTS Products, Coupons, NoCoupon,
          Minimum,    \* the total each code asks for, 0 for a code that is unknown
          Price,      \* the price of each product
          Limit,      \* the largest quantity of the stepper
          Loads,      \* refreshes of the page that may be in progress together
          Filled,     \* what the cart may hold when the page is opened
          Mixed,      \* bound: what it may hold once requests overlapped
          MaxClicks   \* bound on the clicks of a visit

ASSUME StorefrontAssumption ==
    /\ Minimum \in [Coupons -> Nat] /\ NoCoupon \notin Coupons
    /\ Price \in [Products -> Nat]
    /\ Limit \in Nat \ {0} /\ MaxClicks \in Nat
    /\ Filled \subseteq [Products -> Nat] /\ Mixed \subseteq [Products -> Nat]

VARIABLES pieces, coupon,  \* the cart of the service
          page,            \* the cart the page shows, an error, and whether it is on the screen
                           \* ("leaving" while the router still asks the guard of the next page)
          item,            \* the request in progress for each item
          promotion,       \* the one for the promotion code
          checkout,        \* the one that places an order
          mail,            \* the one for an e-mail with the cart
          load,            \* the refreshes
          serving,         \* the requests the cart service is working on
          orders,          \* the lines of each order that was created
          clicks,          \* how often the user has clicked
          disturbed        \* history: which of the causes below occurred

cart  == <<pieces, coupon>>
calls == <<item, promotion, checkout, mail, load>>
vars  == <<cart, page, calls, serving, orders, clicks, disturbed>>

Contents == INSTANCE CartContents WITH Counts <- 1 .. Limit
Empty == Contents!Empty

Idle    == [op |-> "none"]
Replies == {"awaited", "success", "failure", "error"}
Current == [pieces |-> pieces, coupon |-> coupon]
Shown   == [pieces : [Products -> Nat], coupon : Coupons \cup {NoCoupon}]
Blank   == [pieces |-> Empty, coupon |-> NoCoupon]
InFlight(call) == call # Idle

(***************************************************************************)
(* What may disturb a visit: an answer that was lost behind the BFF or on  *)
(* the way to the page (failure, error), that of a checkout (unanswered);  *)
(* a change of the cart the page is not told of (elsewhere); refreshes in  *)
(* progress together (overlap); requests that overlapped at the cart       *)
(* service (interleaved); an order placed while the page leaves for one    *)
(* that was accepted (again).                                              *)
(***************************************************************************)
Causes == {"failure", "error", "unanswered", "elsewhere", "overlap", "interleaved", "again"}

Quiet == \A call \in {item[p] : p \in Products} \cup {load[l] : l \in Loads}
                     \cup {promotion, checkout, mail} : ~InFlight(call)

(* What the page shows and has in progress; the lines of each order. *)
TypeOK ==
    /\ Current \in Shown
    /\ page \in [cart : Shown, failed : BOOLEAN, view : {"away", "shown", "leaving"}]
    /\ item \in [Products -> {Idle} \cup [op : {"update"}, count : 1 .. Limit, reply : Replies]
                                    \cup [op : {"remove"}, reply : Replies]]
    /\ promotion \in {Idle} \cup [op : {"apply"}, code : Coupons, reply : Replies]
                            \cup [op : {"remove"}, reply : Replies]
    /\ checkout \in {Idle} \cup [op : {"read", "create"}, lines : [Products -> Nat], reply : Replies]
    /\ mail \in {Idle} \cup [op : {"mail"}, reply : Replies \ {"error"}]
    /\ load \in [Loads -> {Idle} \cup [op : {"load"}, cart : Shown, reply : Replies]]
    /\ clicks \in 0 .. MaxClicks /\ disturbed \subseteq Causes
    /\ \A n \in 1 .. Len(orders) : orders[n] \in [Products -> Nat] /\ orders[n] # Empty

(* load() has a slot for its request: the others are left alone. *)
Request ==
    \E l \in Loads :
        /\ ~InFlight(load[l])
        /\ load' = [load EXCEPT ![l] = [op |-> "load", cart |-> Blank, reply |-> "awaited"]]
        /\ disturbed' = IF \E m \in Loads : InFlight(load[m])
                        THEN disturbed \cup {"overlap"} ELSE disturbed

Refresh == Request /\ page' = [page EXCEPT !.failed = FALSE]

(* Before the page is opened. *)
NothingAsked ==
    /\ pieces \in Filled /\ coupon = NoCoupon
    /\ page = [cart |-> Blank, failed |-> FALSE, view |-> "away"]
    /\ item = [p \in Products |-> Idle] /\ promotion = Idle /\ checkout = Idle /\ mail = Idle
    /\ load = [l \in Loads |-> Idle] /\ serving = {}
    /\ orders = <<>> /\ clicks = 0 /\ disturbed = {}

Disturb(cause) == disturbed' = disturbed \cup {cause}
-----------------------------------------------------------------------------
(* The buttons are there if the cart that is shown has a line. *)
Click ==
    /\ page.view # "away" /\ page.cart.pieces # Empty /\ clicks < MaxClicks
    /\ clicks' = clicks + 1
    /\ UNCHANGED <<cart, page, load, serving, orders>>

(* The lines with a button to take them out, ... *)
Listed == {p \in Products : page.cart.pieces[p] > 0}

(* ... the counts of their steppers: one more or one less than is shown, ... *)
Stepper(p) == {n \in 1 .. Limit : n + 1 = page.cart.pieces[p] \/ n = page.cart.pieces[p] + 1}

(* ... and the promotion: a field for a code, or the one that was applied. *)
AskedForCode == page.cart.coupon = NoCoupon

UpdateQuantity(p, n) ==
    /\ Click /\ p \in Listed /\ n \in Stepper(p) /\ ~InFlight(item[p])
    /\ item' = [item EXCEPT ![p] = [op |-> "update", count |-> n, reply |-> "awaited"]]
    /\ UNCHANGED <<promotion, checkout, mail, disturbed>>

RemoveItem(p) ==
    /\ Click /\ p \in Listed /\ ~InFlight(item[p])
    /\ item' = [item EXCEPT ![p] = [op |-> "remove", reply |-> "awaited"]]
    /\ UNCHANGED <<promotion, checkout, mail, disturbed>>

ApplyCoupon(c) ==
    /\ Click /\ AskedForCode /\ ~InFlight(promotion)
    /\ promotion' = [op |-> "apply", code |-> c, reply |-> "awaited"]
    /\ UNCHANGED <<item, checkout, mail, disturbed>>

RemoveCoupon ==
    /\ Click /\ ~AskedForCode /\ ~InFlight(promotion)
    /\ promotion' = [op |-> "remove", reply |-> "awaited"]
    /\ UNCHANGED <<item, checkout, mail, disturbed>>

EmailCart ==
    /\ Click /\ ~InFlight(mail)
    /\ mail' = [op |-> "mail", reply |-> "awaited"]
    /\ UNCHANGED <<item, promotion, checkout, disturbed>>

PlaceOrder ==
    /\ Click /\ ~InFlight(checkout)
    /\ checkout' = [op |-> "read", lines |-> Empty, reply |-> "awaited"]
    /\ IF page.view = "leaving" THEN Disturb("again") ELSE UNCHANGED disturbed
    /\ UNCHANGED <<item, promotion, mail>>
-----------------------------------------------------------------------------
Awaited(call) == InFlight(call) /\ call.reply = "awaited"

(* The cart service takes up a request that writes the cart, ... *)
Take(request) ==
    /\ request \notin serving
    /\ serving' = serving \cup {request}
    /\ IF serving = {} THEN UNCHANGED disturbed ELSE Disturb("interleaved")
    /\ UNCHANGED <<cart, page, calls, orders>>

(* ... and is done with it; the page learns of it with the reply. *)
Done(request) == request \in serving /\ serving' = serving \ {request}

Behind == UNCHANGED <<page, clicks, disturbed>>

ItemRequest(p) == <<"item", p>>
CodeRequest    == <<"promotion">>
OtherRequest   == <<"other">>   \* of another page of the user, or given up on

TakeItem(p) == Awaited(item[p]) /\ Take(ItemRequest(p)) /\ UNCHANGED clicks
TakeCode    == Awaited(promotion) /\ promotion.op = "apply" /\ Take(CodeRequest) /\ UNCHANGED clicks

(* The service may be at work on a request that is given up on. *)
GiveUp(request) ==
    serving' = IF request \in serving THEN (serving \ {request}) \cup {OtherRequest} ELSE serving

(* CartUpsert adds the count; an item that is not there is not inserted. *)
ServeUpdate(p) ==
    /\ Awaited(item[p]) /\ item[p].op = "update" /\ Done(ItemRequest(p))
    /\ IF pieces[p] = 0
       THEN item' = [item EXCEPT ![p].reply = "failure"] /\ UNCHANGED cart
       ELSE item' = [item EXCEPT ![p].reply = "success"] /\ Contents!Add(p, item[p].count)
    /\ Behind /\ UNCHANGED <<promotion, checkout, mail, load, orders>>

ServeRemove(p) ==
    /\ Awaited(item[p]) /\ item[p].op = "remove" /\ Done(ItemRequest(p))
    /\ IF pieces[p] = 0
       THEN item' = [item EXCEPT ![p].reply = "failure"] /\ UNCHANGED cart
       ELSE item' = [item EXCEPT ![p].reply = "success"] /\ Contents!Remove(p)
    /\ Behind /\ UNCHANGED <<promotion, checkout, mail, load, orders>>

ServeApply ==
    /\ Awaited(promotion) /\ promotion.op = "apply" /\ Done(CodeRequest)
    /\ IF pieces = Empty
       THEN promotion' = [promotion EXCEPT !.reply = "failure"] /\ UNCHANGED cart
       ELSE promotion' = [promotion EXCEPT !.reply = "success"] /\ Contents!Apply(promotion.code)
    /\ Behind /\ UNCHANGED <<item, checkout, mail, load, orders>>

(***************************************************************************)
(* Requests that overlapped read the cart before they saved it, each on    *)
(* its own: of two additions one may be lost, a product may have two       *)
(* lines, the user two headers of which any may be found.  Module Cart has *)
(* the interleavings; here the cart may hold anything from then on.        *)
(***************************************************************************)
Interleave ==
    /\ "interleaved" \in disturbed
    /\ pieces' \in Mixed /\ coupon' \in Coupons \cup {NoCoupon}
    /\ UNCHANGED <<page, calls, serving, orders, clicks, disturbed>>

(* The BFF asks the service to apply the empty code, which it refuses. *)
ServeRemoveCoupon ==
    /\ Awaited(promotion) /\ promotion.op = "remove"
    /\ promotion' = [promotion EXCEPT !.reply = "failure"]
    /\ Behind /\ UNCHANGED <<cart, item, checkout, mail, load, serving, orders>>

ServeLoad(l) ==
    /\ Awaited(load[l])
    /\ load' = [load EXCEPT ![l] = [op |-> "load", cart |-> Current, reply |-> "success"]]
    /\ Behind /\ UNCHANGED <<cart, item, promotion, checkout, mail, serving, orders>>

(* GetCart is a success only if the total exceeds the minimum of the code. *)
Total == FoldFunction(+, 0, [p \in Products |-> pieces[p] * Price[p]])
Qualifies == coupon = NoCoupon \/ Total > Minimum[coupon]

(* Checkout reads the cart, refuses one that is empty or does not qualify, ... *)
ReadForCheckout ==
    /\ Awaited(checkout) /\ checkout.op = "read"
    /\ checkout' = IF ~Qualifies \/ pieces = Empty
                   THEN [checkout EXCEPT !.reply = "error"]
                   ELSE [op |-> "create", lines |-> pieces, reply |-> "awaited"]
    /\ Behind /\ UNCHANGED <<cart, item, promotion, mail, load, serving, orders>>

(* ... and sends its lines once to the Order service, which has a limit. *)
CreateOrder ==
    /\ Awaited(checkout) /\ checkout.op = "create"
    /\ IF \E p \in Products : checkout.lines[p] > Limit
       THEN checkout' = [checkout EXCEPT !.reply = "error"] /\ UNCHANGED orders
       ELSE checkout' = [checkout EXCEPT !.reply = "success"]
            /\ orders' = Append(orders, checkout.lines)
    /\ Behind /\ UNCHANGED <<cart, item, promotion, mail, load, serving>>

(* EmailCartRequest publishes the cart the page was showing. *)
ServeMail ==
    /\ Awaited(mail)
    /\ mail' = [mail EXCEPT !.reply = "success"]
    /\ Behind /\ UNCHANGED <<cart, item, promotion, checkout, load, serving, orders>>

(***************************************************************************)
(* A request in progress comes to nothing, or its reply does: a service    *)
(* does not answer the BFF, or the BFF the page.  Checkout makes an error  *)
(* of either.  What a service does of a request that was given up on is    *)
(* Elsewhere.                                                              *)
(***************************************************************************)
LoseReply ==
    /\ UNCHANGED <<cart, page, orders, clicks>>
    /\ \/ \E p \in Products, reply \in {"failure", "error"} :
              /\ InFlight(item[p])
              /\ item' = [item EXCEPT ![p].reply = reply]
              /\ GiveUp(ItemRequest(p))
              /\ Disturb("failure")
              /\ UNCHANGED <<promotion, checkout, mail, load>>
       \/ \E reply \in {"failure", "error"} :
              /\ InFlight(promotion)
              /\ promotion' = [promotion EXCEPT !.reply = reply]
              /\ GiveUp(CodeRequest)
              /\ Disturb("failure")
              /\ UNCHANGED <<item, checkout, mail, load>>
       \/ /\ InFlight(mail)
          /\ mail' = [mail EXCEPT !.reply = "failure"]
          /\ Disturb("failure")
          /\ UNCHANGED <<item, promotion, checkout, load, serving>>
       \/ /\ InFlight(checkout)
          /\ checkout' = [checkout EXCEPT !.reply = "error"]
          /\ Disturb("unanswered")
          /\ UNCHANGED <<item, promotion, mail, load, serving>>
       \/ \E l \in Loads, reply \in {"failure", "error"} :
              /\ InFlight(load[l])
              /\ load' = [load EXCEPT ![l].reply = reply]
              /\ Disturb(reply)
              /\ UNCHANGED <<item, promotion, checkout, mail, serving>>

(* Whether the page is still to be opened or to read the cart. *)
ReadsLater == page.view = "away" \/ \E l \in Loads : Awaited(load[l])

(***************************************************************************)
(* The service takes up a request of another page of the user, or one that *)
(* was given up on before.  One at a time is enough: with a second one     *)
(* requests overlap as they do with one of this page.                      *)
(***************************************************************************)
Elsewhere ==
    /\ clicks < MaxClicks /\ clicks' = clicks + 1
    /\ Take(OtherRequest)

(* It acts on the cart, or comes to nothing. *)
ServeElsewhere ==
    /\ Done(OtherRequest) /\ (Contents!Next \/ UNCHANGED cart)
    /\ IF UNCHANGED cart \/ ReadsLater THEN UNCHANGED disturbed ELSE Disturb("elsewhere")
    /\ UNCHANGED <<page, calls, orders, clicks>>
-----------------------------------------------------------------------------
Replied(call) == InFlight(call) /\ call.reply # "awaited"

(* The page is refreshed after the replies that ask for it. *)
React(refresh) ==
    /\ IF refresh THEN Refresh ELSE UNCHANGED <<load, page, disturbed>>
    /\ UNCHANGED <<cart, serving, orders, clicks>>

(* Mistaken: the buttons of the item stay disabled after an error. *)
AnswerUpdateOnce(p) ==
    /\ Replied(item[p]) /\ item[p].op = "update" /\ item[p].reply # "error"
    /\ item' = [item EXCEPT ![p] = Idle]
    /\ UNCHANGED <<promotion, checkout, mail>>
    /\ React(item[p].reply = "success")

AnswerUpdate(p) ==
    /\ Replied(item[p]) /\ item[p].op = "update"
    /\ item' = [item EXCEPT ![p] = Idle]
    /\ UNCHANGED <<promotion, checkout, mail>>
    /\ React(item[p].reply = "success")

(* Mistaken: the page is not refreshed. *)
AnswerRemoveOnly(p) ==
    /\ Replied(item[p]) /\ item[p].op = "remove"
    /\ item' = [item EXCEPT ![p] = Idle]
    /\ UNCHANGED <<promotion, checkout, mail>>
    /\ React(FALSE)

(* For remove() and removeCoupon() whatever the BFF answers is a success. *)
AnswerRemove(p) ==
    /\ Replied(item[p]) /\ item[p].op = "remove"
    /\ item' = [item EXCEPT ![p] = Idle]
    /\ UNCHANGED <<promotion, checkout, mail>>
    /\ React(item[p].reply # "error")

AnswerApply ==
    /\ Replied(promotion) /\ promotion.op = "apply"
    /\ promotion' = Idle
    /\ UNCHANGED <<item, checkout, mail>>
    /\ React(promotion.reply = "success")

AnswerRemoveCoupon ==
    /\ Replied(promotion) /\ promotion.op = "remove"
    /\ promotion' = Idle
    /\ UNCHANGED <<item, checkout, mail>>
    /\ React(promotion.reply # "error")

(* Whatever is answered, an error of the BFF included, there is only a message. *)
AnswerMail ==
    /\ Replied(mail)
    /\ mail' = Idle
    /\ UNCHANGED <<item, promotion, checkout>>
    /\ React(FALSE)

(* Mistaken: the page stays, with its buttons. *)
AnswerCheckoutHere ==
    /\ Replied(checkout)
    /\ checkout' = Idle
    /\ UNCHANGED <<cart, page, item, promotion, mail, load, serving, orders, clicks, disturbed>>

(* The button is there again, and the router sets out for the accepted order; ... *)
AnswerCheckout ==
    /\ Replied(checkout)
    /\ checkout' = Idle
    /\ page' = IF checkout.reply = "success" /\ page.view = "shown"
               THEN [page EXCEPT !.view = "leaving"] ELSE page
    /\ UNCHANGED <<cart, item, promotion, mail, load, serving, orders, clicks, disturbed>>

(* ... the page goes once the guard has its answer, to the order or to /login. *)
Leave ==
    /\ page.view = "leaving"
    /\ page' = [page EXCEPT !.view = "away"]
    /\ UNCHANGED <<cart, calls, serving, orders, clicks, disturbed>>

(* A failure has no result, which api.cart() takes for an empty cart. *)
AnswerLoad(l) ==
    /\ Replied(load[l])
    /\ load' = [load EXCEPT ![l] = Idle]
    /\ page' = CASE load[l].reply = "success" -> [page EXCEPT !.cart = load[l].cart]
                 [] load[l].reply = "failure" -> [page EXCEPT !.cart = Blank]
                 [] load[l].reply = "error"   -> [page EXCEPT !.failed = TRUE]
    /\ UNCHANGED <<cart, item, promotion, checkout, mail, serving, orders, clicks, disturbed>>

Visit ==
    \/ \E p \in Products : RemoveItem(p) \/ \E n \in 1 .. Limit : UpdateQuantity(p, n)
    \/ \E c \in Coupons : ApplyCoupon(c)
    \/ RemoveCoupon \/ EmailCart \/ PlaceOrder

ItemStep(p)   == \/ TakeItem(p) \/ ServeUpdate(p) \/ ServeRemove(p)
                 \/ AnswerUpdate(p) \/ AnswerRemove(p)
PromotionStep == TakeCode \/ ServeApply \/ ServeRemoveCoupon \/ AnswerApply \/ AnswerRemoveCoupon
CheckoutStep  == ReadForCheckout \/ CreateOrder \/ AnswerCheckout
MailStep      == ServeMail \/ AnswerMail
LoadStep(l)   == ServeLoad(l) \/ AnswerLoad(l)

Respond ==
    \/ LoseReply \/ Elsewhere \/ ServeElsewhere \/ Leave
    \/ \E p \in Products : ItemStep(p)
    \/ PromotionStep \/ CheckoutStep \/ MailStep
    \/ \E l \in Loads : LoadStep(l)

Next == Visit \/ Respond

(* Every request is served or times out, and its reply is handled. *)
Fairness ==
    /\ \A p \in Products : WF_vars(ItemStep(p))
    /\ WF_vars(PromotionStep) /\ WF_vars(CheckoutStep) /\ WF_vars(MailStep)
    /\ \A l \in Loads : WF_vars(LoadStep(l))

-----------------------------------------------------------------------------
(***************************************************************************)
(* A page with nothing in progress shows the cart as it is or says that it *)
(* could not be read, unless a service failed behind the BFF, the cart was *)
(* changed by another page, requests overlapped at the cart service, or    *)
(* two refreshes were in progress together and their replies may have      *)
(* changed places.  A failure is not an error to api.cart(), which shows   *)
(* an empty cart for it.                                                   *)
(***************************************************************************)
SettledPageIsCurrent ==
    /\ TypeOK
    /\ Quiet /\ page.view # "away" /\ disturbed \subseteq {"error", "unanswered", "again"}
          => page.cart = Current \/ page.failed

(***************************************************************************)
(* One visit places a second order for one of two causes only.  The answer *)
(* to a checkout was lost: the button comes back with the error, and       *)
(* nothing in the second request says that it repeats the first.  Or the   *)
(* user clicked again while the page was leaving: the button comes back    *)
(* with the answer, before the guard of the order's page has its own.      *)
(***************************************************************************)
SecondOrderHasACause ==
    Len(orders) > 1 => "unanswered" \in disturbed \/ "again" \in disturbed

(* finalize: no button stays disabled, whatever fails. *)
ButtonsComeBack ==
    /\ \A p \in Products : InFlight(item[p]) ~> ~InFlight(item[p])
    /\ InFlight(promotion) ~> ~InFlight(promotion)
    /\ InFlight(checkout) ~> ~InFlight(checkout)
    /\ InFlight(mail) ~> ~InFlight(mail)
=============================================================================
