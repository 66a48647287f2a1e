--------------------------- MODULE ShoppingProofs ---------------------------
(***************************************************************************)
(* What holds of every visit, for any products, codes, prices, contents of *)
(* the cart, number of clicks and of refreshes in progress: the page that  *)
(* is at rest shows the cart, a second order has a cause, and what the     *)
(* user was told had been added is in the cart - the causes that disturb   *)
(* a visit excepted, which each property names.                            *)
(***************************************************************************)
EXTENDS Shopping, SequenceTheorems, TLAPS

(* The requests of each kind, with the parts of the types that concern them. *)
ItemCall == {Idle} \cup [op : {"update"}, count : 1 .. Limit, reply : Replies]
                   \cup [op : {"remove"}, reply : Replies]
PromotionCall == {Idle} \cup [op : {"apply"}, code : Coupons, reply : Replies]
                        \cup [op : {"remove"}, reply : Replies]
CheckoutCall == {Idle} \cup [op : {"read", "create"}, lines : [Products -> Nat], reply : Replies]
MailCall == {Idle} \cup [op : {"mail"}, reply : Replies \ {"error"}]
LoadCall == {Idle} \cup [op : {"load"}, cart : Shown, reply : Replies]
AddCall  == {Idle} \cup [op : {"add"}, count : 1 .. Limit, reply : Replies \ {"error"}]

(* A request stays one of its kind when it is answered. *)
LEMMA ItemReply ==
  ASSUME NEW c \in ItemCall, InFlight(c), NEW r \in Replies
  PROVE  [c EXCEPT !.reply = r] \in ItemCall /\ InFlight([c EXCEPT !.reply = r])
         /\ [c EXCEPT !.reply = r].reply = r /\ (c.op = "update" => c.count \in 1 .. Limit)
<1> USE DEF ItemCall, InFlight, Idle
<1>1. CASE c \in [op : {"update"}, count : 1 .. Limit, reply : Replies]
  BY <1>1
<1>2. CASE c \in [op : {"remove"}, reply : Replies]
  BY <1>2
<1> QED
  BY <1>1, <1>2

LEMMA PromotionReply ==
  ASSUME NEW c \in PromotionCall, InFlight(c), NEW r \in Replies
  PROVE  [c EXCEPT !.reply = r] \in PromotionCall /\ InFlight([c EXCEPT !.reply = r])
         /\ [c EXCEPT !.reply = r].reply = r /\ (c.op = "apply" => c.code \in Coupons)
<1> USE DEF PromotionCall, InFlight, Idle
<1>1. CASE c \in [op : {"apply"}, code : Coupons, reply : Replies]
  BY <1>1
<1>2. CASE c \in [op : {"remove"}, reply : Replies]
  BY <1>2
<1> QED
  BY <1>1, <1>2

LEMMA CheckoutReply ==
  ASSUME NEW c \in CheckoutCall, InFlight(c), NEW r \in Replies
  PROVE  /\ [c EXCEPT !.reply = r] \in CheckoutCall /\ InFlight([c EXCEPT !.reply = r])
         /\ [c EXCEPT !.reply = r].reply = r /\ [c EXCEPT !.reply = r].op = c.op
         /\ [c EXCEPT !.reply = r].lines = c.lines /\ c.lines \in [Products -> Nat]
         /\ c.op \in {"read", "create"} /\ c.reply \in Replies
BY DEF CheckoutCall, InFlight, Idle

LEMMA MailReply ==
  ASSUME NEW c \in MailCall, InFlight(c), NEW r \in Replies \ {"error"}
  PROVE  [c EXCEPT !.reply = r] \in MailCall
BY DEF MailCall, InFlight, Idle

LEMMA LoadReply ==
  ASSUME NEW c \in LoadCall, InFlight(c), NEW r \in Replies
  PROVE  /\ [c EXCEPT !.reply = r] \in LoadCall /\ InFlight([c EXCEPT !.reply = r])
         /\ [c EXCEPT !.reply = r].reply = r /\ c.reply \in Replies /\ c.cart \in Shown
BY DEF LoadCall, InFlight, Idle

LEMMA AddReply ==
  ASSUME NEW c \in AddCall, InFlight(c), NEW r \in Replies \ {"error"}
  PROVE  /\ [c EXCEPT !.reply = r] \in AddCall /\ InFlight([c EXCEPT !.reply = r])
         /\ [c EXCEPT !.reply = r].reply = r /\ [c EXCEPT !.reply = r].count = c.count
BY DEF AddCall, InFlight, Idle

LEMMA AddCounts ==
  ASSUME NEW c \in AddCall, InFlight(c)
  PROVE  c.count \in 1 .. Limit
BY DEF AddCall, InFlight, Idle

(* The requests the page and the pages of the shop send. *)
LEMMA NewCalls ==
  /\ Idle \in ItemCall \cap PromotionCall \cap CheckoutCall \cap MailCall \cap LoadCall \cap AddCall
  /\ \A n \in 1 .. Limit : [op |-> "update", count |-> n, reply |-> "awaited"] \in ItemCall
  /\ [op |-> "remove", reply |-> "awaited"] \in ItemCall \cap PromotionCall
  /\ \A c \in Coupons : [op |-> "apply", code |-> c, reply |-> "awaited"] \in PromotionCall
  /\ [op |-> "read", lines |-> Empty, reply |-> "awaited"] \in CheckoutCall
  /\ [op |-> "mail", reply |-> "awaited"] \in MailCall
  /\ [op |-> "load", cart |-> Blank, reply |-> "awaited"] \in LoadCall
  /\ \A n \in 1 .. Limit : [op |-> "add", count |-> n, reply |-> "awaited"] \in AddCall
  /\ Empty \in [Products -> Nat] /\ Blank \in Shown
<1>1. Empty \in [Products -> Nat]
  BY DEF Empty, Contents!Empty
<1>2. Blank \in Shown
  BY <1>1 DEF Blank, Shown
<1> QED
  BY <1>1, <1>2 DEF ItemCall, PromotionCall, CheckoutCall, MailCall, LoadCall, AddCall, Replies
-----------------------------------------------------------------------------
CartOK == pieces \in [Products -> Nat] /\ coupon \in Coupons \cup {NoCoupon}
PageOK == page \in [cart : Shown, failed : BOOLEAN, view : {"away", "shown", "leaving"}]
ItemOK == item \in [Products -> ItemCall]
LoadOK == load \in [Loads -> LoadCall]
OrdersOK == orders \in Seq([Products -> Nat] \ {Empty})
CheckoutOK == checkout \in CheckoutCall
              /\ (InFlight(checkout) /\ checkout.op = "create" => checkout.lines # Empty)
AddingOK == adding \in [Places \X Products -> AddCall]

(* The requests the cart service may be working on. *)
Writing == (Places \cup {"item"}) \X Products \cup {CodeRequest, OtherRequest}

AllOK ==
    /\ CartOK /\ PageOK /\ ItemOK /\ LoadOK /\ OrdersOK /\ CheckoutOK /\ AddingOK
    /\ promotion \in PromotionCall /\ mail \in MailCall
    /\ clicks \in 0 .. MaxClicks
    /\ disturbed \subseteq Causes
    /\ serving \subseteq Writing
    /\ shop \in [route : Places \cup {"cart"}, view : {"loading", "shown", "empty", "failed"}]
    /\ expected \in [Products -> Nat] /\ emptied \subseteq Products

LEMMA TypesOfAll == AllOK => TypeOK /\ ShopTypeOK
<1>1. CartOK => Current \in Shown
  BY DEF CartOK, Current, Shown
<1>2. OrdersOK => \A n \in 1 .. Len(orders) : orders[n] \in [Products -> Nat] /\ orders[n] # Empty
  BY ElementOfSeq DEF OrdersOK
<1> QED
  BY <1>1, <1>2 DEF AllOK, PageOK, ItemOK, LoadOK, CheckoutOK, AddingOK, TypeOK,
     ShopTypeOK, Writing, ItemCall,
     PromotionCall, CheckoutCall, MailCall, LoadCall, AddCall

-----------------------------------------------------------------------------
(***************************************************************************)
(* Which steps may change which variable; that the others leave it alone   *)
(* is seen from their definitions.                                         *)
(***************************************************************************)
(* A request that is taken up changes nothing else. *)
TakesUp ==
    /\ \E request \in Writing : Take(request)
    /\ UNCHANGED <<cart, page, calls, orders, clicks, shop, adding, expected>>

LEMMA TakesAre ==
  /\ \A p \in Products : TakeItem(p) => UNCHANGED clicks /\ \E request \in Writing : Take(request)
  /\ TakeCode => UNCHANGED clicks /\ \E request \in Writing : Take(request)
  /\ \A place \in Places, p \in Products : TakeAdd(place, p) => TakesUp
BY DEF TakeItem, TakeCode, TakeAdd, ItemRequest, Writing, TakesUp, Take

(* What the steps are, those that take up a request apart. *)
OtherItemStep(p) == ServeUpdate(p) \/ ServeRemove(p) \/ AnswerUpdate(p) \/ AnswerRemove(p)
OtherCodeStep == ServeApply \/ ServeRemoveCoupon \/ AnswerApply \/ AnswerRemoveCoupon

BuyStep ==
    \/ Visit \/ LoseReply \/ Elsewhere \/ ServeElsewhere \/ Leave
    \/ \E p \in Products : OtherItemStep(p)
    \/ OtherCodeStep \/ CheckoutStep \/ MailStep
    \/ \E l \in Loads : LoadStep(l)

ShopStep ==
    \/ ReceiveProducts \/ TryAgain \/ OpenProduct \/ ReceiveProduct \/ OpenCart
    \/ \E place \in Places, p \in Products :
           \/ \E n \in Quantities(place) : Add(place, p, n)
           \/ ServeAdd(place, p) \/ AnswerAdd(place, p) \/ LoseAdd(place, p)

LEMMA Steps ==
  ASSUME [ShoppingNext]_shoppingVars
  PROVE  \/ UNCHANGED shoppingVars
         \/ Interleave /\ UNCHANGED shopVars
         \/ /\ TakesUp \/ ShopStep \/ (BuyStep /\ UNCHANGED <<shop, adding, expected>>)
            /\ emptied' = emptied \cup {p \in Products : pieces'[p] < pieces[p]}
<1>1. ASSUME Buy PROVE TakesUp \/ (BuyStep /\ UNCHANGED <<shop, adding, expected>>)
  <2>1. CASE UNCHANGED clicks /\ \E request \in Writing : Take(request)
    BY <1>1, <2>1 DEF Buy, Take, TakesUp
  <2>2. CASE ~(UNCHANGED clicks /\ \E request \in Writing : Take(request))
    BY <1>1, <2>2, TakesAre DEF Buy, Next, Respond, ItemStep, PromotionStep, BuyStep,
       OtherItemStep, OtherCodeStep
  <2> QED
    BY <2>1, <2>2
<1>2. ASSUME Shop PROVE TakesUp \/ ShopStep
  BY <1>2, TakesAre DEF Shop, ShopStep, AddStep
<1> QED
  BY <1>1, <1>2 DEF ShoppingNext

LEMMA WhoActs ==
  ASSUME [ShoppingNext]_shoppingVars
  PROVE  /\ \/ UNCHANGED item \/ LoseReply
            \/ \E p \in Products : \/ OtherItemStep(p) \/ RemoveItem(p)
                                   \/ \E n \in 1 .. Limit : UpdateQuantity(p, n)
         /\ \/ UNCHANGED promotion \/ LoseReply \/ OtherCodeStep \/ RemoveCoupon
            \/ \E c \in Coupons : ApplyCoupon(c)
         /\ UNCHANGED checkout \/ LoseReply \/ CheckoutStep \/ PlaceOrder
         /\ UNCHANGED mail \/ LoseReply \/ MailStep \/ EmailCart
         /\ UNCHANGED load \/ LoseReply \/ (\E l \in Loads : LoadStep(l)) \/ Refresh \/ OpenCart
         /\ \/ UNCHANGED page \/ Refresh \/ OpenCart \/ AnswerCheckout \/ Leave
            \/ \E l \in Loads : AnswerLoad(l)
         /\ UNCHANGED orders \/ CreateOrder
         /\ \/ UNCHANGED disturbed \/ Refresh \/ OpenCart \/ LoseReply
            \/ ServeElsewhere \/ PlaceOrder \/ (\E request \in Writing : Take(request))
            \/ \E place \in Places, p \in Products : ServeAdd(place, p)
         /\ serving' \subseteq serving \cup {OtherRequest} \/ \E request \in Writing : Take(request)
         /\ UNCHANGED clicks \/ (clicks < MaxClicks /\ clicks' = clicks + 1)
         /\ \/ UNCHANGED <<adding, expected>>
            \/ \E place \in Places, p \in Products :
                   \/ \E n \in Quantities(place) : Add(place, p, n)
                   \/ ServeAdd(place, p) \/ AnswerAdd(place, p) \/ LoseAdd(place, p)
         /\ \/ UNCHANGED shop \/ ReceiveProducts \/ TryAgain \/ OpenProduct \/ ReceiveProduct \/ OpenCart
         /\ \/ emptied' = emptied \cup {p \in Products : pieces'[p] < pieces[p]}
            \/ UNCHANGED emptied /\ (UNCHANGED pieces \/ Interleave)
<1> USE DEF vars, cart, calls, shopVars
<1>1. CASE UNCHANGED shoppingVars
  BY <1>1 DEF shoppingVars
<1>2. CASE Interleave /\ UNCHANGED shopVars
  BY <1>2 DEF Interleave
<1>3. CASE TakesUp /\ emptied' = emptied \cup {p \in Products : pieces'[p] < pieces[p]}
  BY <1>3 DEF TakesUp, Take
<1>4. CASE ShopStep /\ emptied' = emptied \cup {p \in Products : pieces'[p] < pieces[p]}
  BY <1>4 DEF ShopStep, ReceiveProducts, TryAgain, OpenProduct, ReceiveProduct, OpenCart,
     Add, ServeAdd,
     AnswerAdd, LoseAdd, Done, GiveUp
<1>5. CASE BuyStep /\ UNCHANGED <<shop, adding, expected>>
           /\ emptied' = emptied \cup {p \in Products : pieces'[p] < pieces[p]}
  <2>1. CASE Elsewhere
    BY <1>5, <2>1 DEF Elsewhere, Take, Writing
  <2>2. CASE ~Elsewhere
    BY <1>5, <2>2 DEF BuyStep, Visit, OtherItemStep, OtherCodeStep, CheckoutStep, MailStep,
       LoadStep, Behind, Click, UpdateQuantity, RemoveItem, ApplyCoupon, RemoveCoupon,
       EmailCart, PlaceOrder, ServeUpdate, ServeRemove, ServeApply, ServeRemoveCoupon,
       ServeLoad, ReadForCheckout, CreateOrder, ServeMail, LoseReply, ServeElsewhere, Leave,
       React, AnswerUpdate, AnswerRemove, AnswerApply, AnswerRemoveCoupon, AnswerMail,
       AnswerCheckout, AnswerLoad, Done, GiveUp
  <2> QED
    BY <2>1, <2>2
<1> QED
  BY <1>1, <1>2, <1>3, <1>4, <1>5, Steps

(* The steps that may change the cart. *)
LEMMA CartActs ==
  ASSUME [ShoppingNext]_shoppingVars
  PROVE  \/ UNCHANGED cart \/ Interleave \/ ServeApply \/ ServeElsewhere
         \/ \E p \in Products : ServeUpdate(p) \/ ServeRemove(p)
         \/ \E place \in Places, p \in Products : ServeAdd(place, p)
<1> USE DEF cart
<1>1. CASE UNCHANGED shoppingVars
  BY <1>1 DEF shoppingVars, vars
<1>2. CASE TakesUp
  BY <1>2 DEF TakesUp
<1>3. CASE ShopStep
  BY <1>3 DEF ShopStep, ReceiveProducts, TryAgain, OpenProduct, ReceiveProduct, OpenCart,
     Add, AnswerAdd,
     LoseAdd, vars
<1>4. CASE BuyStep
  BY <1>4 DEF BuyStep, Visit, OtherItemStep, OtherCodeStep, CheckoutStep, MailStep,
     LoadStep, Click,
     UpdateQuantity, RemoveItem, ApplyCoupon, RemoveCoupon, EmailCart, PlaceOrder,
     ServeRemoveCoupon,
     ServeLoad, ReadForCheckout, CreateOrder, ServeMail, LoseReply, Elsewhere, Take, Leave,
     React, AnswerUpdate,
     AnswerRemove, AnswerApply, AnswerRemoveCoupon, AnswerMail, AnswerCheckout, AnswerLoad
<1> QED
  BY <1>1, <1>2, <1>3, <1>4, Steps

(* Unless requests overlapped, each step is one of the abstract cart. *)
LEMMA CartSteps ==
  ASSUME AllOK, [ShoppingNext]_shoppingVars
  PROVE  UNCHANGED cart \/ Contents!Next \/ Interleave
<1> USE DEF cart
<1>1. ASSUME NEW p \in Products, ServeUpdate(p) PROVE UNCHANGED cart \/ Contents!Next
  <2>1. item[p].count \in 1 .. Limit
    BY <1>1, ItemReply DEF ServeUpdate, Awaited, AllOK, ItemOK, Replies
  <2> QED
    BY <1>1, <2>1 DEF ServeUpdate, Contents!Next
<1>2. ASSUME NEW p \in Products, ServeRemove(p) PROVE UNCHANGED cart \/ Contents!Next
  BY <1>2 DEF ServeRemove, Contents!Next
<1>3. ASSUME ServeApply PROVE UNCHANGED cart \/ Contents!Next
  <2>1. promotion.code \in Coupons
    BY <1>3, PromotionReply DEF ServeApply, Awaited, AllOK, Replies
  <2> QED
    BY <1>3, <2>1 DEF ServeApply, Contents!Next
<1>4. ASSUME NEW place \in Places, NEW p \in Products, ServeAdd(place, p) PROVE Contents!Next
  <2>1. adding[<<place, p>>] \in AddCall /\ InFlight(adding[<<place, p>>])
    BY <1>4 DEF ServeAdd, Awaited, AllOK, AddingOK
  <2>2. adding[<<place, p>>].count \in 1 .. Limit
    BY <2>1, AddCounts
  <2> QED
    BY <1>4, <2>2 DEF ServeAdd, Contents!Next
<1> QED
  BY <1>1, <1>2, <1>3, <1>4, CartActs DEF ServeElsewhere

LEMMA CartTyped ==
  ASSUME AllOK, [ShoppingNext]_shoppingVars
  PROVE  CartOK'
<1> USE DEF CartOK
<1>0. CartOK
  BY DEF AllOK
<1>1. CASE UNCHANGED cart
  BY <1>0, <1>1 DEF cart
<1>2. ASSUME NEW p \in Products, NEW n \in 1 .. Limit, Contents!Add(p, n) PROVE CartOK'
  <2>1. n \in Nat
    BY <1>2, StorefrontAssumption
  <2> QED
    BY <1>0, <1>2, <2>1 DEF Contents!Add
<1>3. ASSUME NEW p \in Products, Contents!Remove(p) PROVE CartOK'
  BY <1>0, <1>3 DEF Contents!Remove
<1>4. ASSUME NEW c \in Coupons \cup {NoCoupon}, Contents!Apply(c) PROVE CartOK'
  BY <1>0, <1>4 DEF Contents!Apply
<1>5. CASE Interleave
  BY <1>5, StorefrontAssumption DEF Interleave
<1> QED
  BY <1>1, <1>2, <1>3, <1>4, <1>5, CartSteps DEF Contents!Next

(* Replies is named here, so that it need not be expanded below. *)
LEMMA ReplyNames ==
  "awaited" \in Replies /\ "success" \in Replies /\ "failure" \in Replies /\ "error" \in Replies
  /\ \A r \in Replies : r \in {"awaited", "success", "failure", "error"}
BY DEF Replies

LEMMA ItemTyped ==
  ASSUME AllOK, [ShoppingNext]_shoppingVars
  PROVE  ItemOK'
<1> USE ReplyNames DEF ItemOK
<1>0. ItemOK
  BY DEF AllOK
<1>1. CASE UNCHANGED item
  BY <1>0, <1>1
<1>2. ASSUME NEW p \in Products, NEW c \in ItemCall, item' = [item EXCEPT ![p] = c] PROVE ItemOK'
  BY <1>0, <1>2
<1>3. ASSUME NEW p \in Products, NEW r \in Replies, InFlight(item[p]), item' = [item EXCEPT ![p].reply = r]
      PROVE  ItemOK'
  <2>1. [item[p] EXCEPT !.reply = r] \in ItemCall
    BY <1>0, <1>3, ItemReply
  <2> QED
    BY <1>2, <1>3, <2>1
<1>4. CASE LoseReply
  BY <1>1, <1>3, <1>4 DEF LoseReply
<1>5. ASSUME NEW p \in Products, NEW n \in 1 .. Limit, UpdateQuantity(p, n) PROVE ItemOK'
  BY <1>2, <1>5, NewCalls DEF UpdateQuantity
<1>6. ASSUME NEW p \in Products, RemoveItem(p) PROVE ItemOK'
  BY <1>2, <1>6, NewCalls DEF RemoveItem
<1>7. ASSUME NEW p \in Products, ServeUpdate(p) \/ ServeRemove(p) PROVE ItemOK'
  BY <1>3, <1>7 DEF ServeUpdate, ServeRemove, Awaited
<1>8. ASSUME NEW p \in Products, AnswerUpdate(p) \/ AnswerRemove(p) PROVE ItemOK'
  BY <1>2, <1>8, NewCalls DEF AnswerUpdate, AnswerRemove
<1> QED
  BY <1>1, <1>4, <1>5, <1>6, <1>7, <1>8, WhoActs DEF OtherItemStep

LEMMA PromotionTyped ==
  ASSUME AllOK, [ShoppingNext]_shoppingVars
  PROVE  promotion' \in PromotionCall
<1> USE ReplyNames
<1>0. promotion \in PromotionCall
  BY DEF AllOK
<1>1. CASE UNCHANGED promotion
  BY <1>0, <1>1
<1>2. ASSUME NEW r \in Replies, InFlight(promotion), promotion' = [promotion EXCEPT !.reply = r]
      PROVE  promotion' \in PromotionCall
  BY <1>0, <1>2, PromotionReply
<1>3. CASE LoseReply
  BY <1>1, <1>2, <1>3 DEF LoseReply
<1>4. CASE RemoveCoupon \/ \E c \in Coupons : ApplyCoupon(c)
  BY <1>4, NewCalls DEF RemoveCoupon, ApplyCoupon
<1>5. CASE OtherCodeStep
  BY <1>2, <1>5, NewCalls DEF OtherCodeStep, ServeApply, ServeRemoveCoupon, AnswerApply,
     AnswerRemoveCoupon,
     Awaited
<1> QED
  BY <1>1, <1>3, <1>4, <1>5, WhoActs

LEMMA CheckoutTyped ==
  ASSUME AllOK, [ShoppingNext]_shoppingVars
  PROVE  CheckoutOK'
<1> USE ReplyNames DEF CheckoutOK
<1>0. CheckoutOK /\ pieces \in [Products -> Nat]
  BY DEF AllOK, CartOK
<1>1. CASE UNCHANGED checkout
  BY <1>0, <1>1
<1>2. ASSUME NEW r \in Replies, InFlight(checkout), checkout' = [checkout EXCEPT !.reply = r]
      PROVE  CheckoutOK'
  <2>1. /\ checkout' \in CheckoutCall /\ InFlight(checkout')
        /\ checkout'.op = checkout.op /\ checkout'.lines = checkout.lines
    BY <1>0, <1>2, CheckoutReply
  <2> QED
    BY <1>0, <1>2, <2>1
<1>3. CASE LoseReply
  BY <1>1, <1>2, <1>3 DEF LoseReply
<1>4. CASE PlaceOrder
  <2>1. checkout' = [op |-> "read", lines |-> Empty, reply |-> "awaited"]
    BY <1>4 DEF PlaceOrder
  <2> QED
    BY <2>1, NewCalls
<1>5. CASE ReadForCheckout
  <2>1. CASE ~Qualifies \/ pieces = Empty
    BY <1>2, <1>5, <2>1 DEF ReadForCheckout, Awaited
  <2>2. CASE ~(~Qualifies \/ pieces = Empty)
    <3>1. checkout' = [op |-> "create", lines |-> pieces, reply |-> "awaited"]
      BY <1>5, <2>2 DEF ReadForCheckout
    <3>2. checkout' \in CheckoutCall
      BY <1>0, <3>1 DEF CheckoutCall
    <3>3. checkout'.lines # Empty
      BY <2>2, <3>1
    <3> QED
      BY <3>2, <3>3
  <2> QED
    BY <2>1, <2>2
<1>6. CASE CreateOrder
  BY <1>2, <1>6 DEF CreateOrder, Awaited
<1>7. CASE AnswerCheckout
  <2>1. checkout' = Idle
    BY <1>7 DEF AnswerCheckout
  <2> QED
    BY <2>1, NewCalls DEF InFlight
<1> QED
  BY <1>1, <1>3, <1>4, <1>5, <1>6, <1>7, WhoActs DEF CheckoutStep

LEMMA MailTyped ==
  ASSUME AllOK, [ShoppingNext]_shoppingVars
  PROVE  mail' \in MailCall
<1>0. mail \in MailCall
  BY DEF AllOK
<1>1. CASE UNCHANGED mail
  BY <1>0, <1>1
<1>2. ASSUME NEW r \in Replies \ {"error"}, InFlight(mail), mail' = [mail EXCEPT !.reply = r]
      PROVE  mail' \in MailCall
  BY <1>0, <1>2, MailReply
<1>3. "failure" \in Replies \ {"error"} /\ "success" \in Replies \ {"error"}
  BY DEF Replies
<1>4. CASE LoseReply
  BY <1>1, <1>2, <1>3, <1>4 DEF LoseReply
<1>5. CASE MailStep \/ EmailCart
  BY <1>2, <1>3, <1>5, NewCalls DEF MailStep, ServeMail, AnswerMail, EmailCart, Awaited
<1> QED
  BY <1>1, <1>4, <1>5, WhoActs

LEMMA LoadTyped ==
  ASSUME AllOK, [ShoppingNext]_shoppingVars
  PROVE  LoadOK'
<1> USE ReplyNames DEF LoadOK
<1>0. LoadOK
  BY DEF AllOK
<1>1. CASE UNCHANGED load
  BY <1>0, <1>1
<1>2. ASSUME NEW l \in Loads, NEW c \in LoadCall, load' = [load EXCEPT ![l] = c] PROVE LoadOK'
  BY <1>0, <1>2
<1>3. CASE LoseReply
  <2>1. CASE \E l \in Loads, reply \in {"failure", "error"} :
                 InFlight(load[l]) /\ load' = [load EXCEPT ![l].reply = reply]
    <3>1. PICK l \in Loads, r \in {"failure", "error"} :
              InFlight(load[l]) /\ load' = [load EXCEPT ![l].reply = r]
      BY <2>1
    <3>2. [load[l] EXCEPT !.reply = r] \in LoadCall
      BY <1>0, <3>1, LoadReply
    <3> QED
      BY <3>1, <3>2, <1>2
  <2> QED
    BY <1>1, <1>3, <2>1 DEF LoseReply
<1>4. CASE Request
  BY <1>2, <1>4, NewCalls DEF Request
<1>5. ASSUME NEW l \in Loads, ServeLoad(l) PROVE LoadOK'
  <2>1. load' = [load EXCEPT ![l] = [op |-> "load", cart |-> Current, reply |-> "success"]]
    BY <1>5 DEF ServeLoad
  <2>2. [op |-> "load", cart |-> Current, reply |-> "success"] \in LoadCall
    BY DEF AllOK, CartOK, Current, Shown, LoadCall
  <2> QED
    BY <1>2, <2>1, <2>2
<1>6. ASSUME NEW l \in Loads, AnswerLoad(l) PROVE LoadOK'
  BY <1>2, <1>6, NewCalls DEF AnswerLoad
<1> QED
  BY <1>1, <1>3, <1>4, <1>5, <1>6, WhoActs DEF LoadStep, Refresh, OpenCart

(* What an answered load shows: the cart it brought, an empty one, or an error. *)
LEMMA LoadAnswers ==
  ASSUME AllOK, NEW l \in Loads, AnswerLoad(l)
  PROVE  /\ load[l].reply \in {"success", "failure", "error"} /\ load[l].cart \in Shown
         /\ page'.view = page.view
         /\ load[l].reply = "success" => page'.cart = load[l].cart /\ page'.failed = page.failed
         /\ load[l].reply = "failure" => page'.cart = Blank /\ page'.failed = page.failed
         /\ load[l].reply = "error" => page'.failed
         /\ PageOK'
<1>1. load[l] \in LoadCall /\ InFlight(load[l]) /\ load[l].reply # "awaited"
  BY DEF AllOK, LoadOK, AnswerLoad, Replied
<1>2. load[l].reply \in {"success", "failure", "error"} /\ load[l].cart \in Shown
  BY <1>1, LoadReply, ReplyNames
<1>3. PageOK
  BY DEF AllOK
<1>4. CASE load[l].reply = "success"
  <2>1. page' = [page EXCEPT !.cart = load[l].cart]
    BY <1>4 DEF AnswerLoad
  <2> QED
    BY <1>2, <1>3, <1>4, <2>1 DEF PageOK
<1>5. CASE load[l].reply = "failure"
  <2>1. page' = [page EXCEPT !.cart = Blank]
    BY <1>5 DEF AnswerLoad
  <2> QED
    BY <1>2, <1>3, <1>5, <2>1, NewCalls DEF PageOK
<1>6. CASE load[l].reply = "error"
  <2>1. page' = [page EXCEPT !.failed = TRUE]
    BY <1>6 DEF AnswerLoad
  <2> QED
    BY <1>2, <1>3, <1>6, <2>1 DEF PageOK
<1> QED
  BY <1>2, <1>4, <1>5, <1>6

LEMMA PageTyped ==
  ASSUME AllOK, [ShoppingNext]_shoppingVars
  PROVE  PageOK'
<1>0. PageOK
  BY DEF AllOK
<1>1. CASE UNCHANGED page
  BY <1>0, <1>1 DEF PageOK
<1>2. CASE Refresh
  BY <1>0, <1>2 DEF Refresh, PageOK
<1>3. CASE OpenCart
  BY <1>0, <1>3 DEF OpenCart, PageOK
<1>4. CASE AnswerCheckout
  BY <1>0, <1>4 DEF AnswerCheckout, PageOK
<1>5. CASE Leave
  BY <1>0, <1>5 DEF Leave, PageOK
<1> QED
  BY <1>1, <1>2, <1>3, <1>4, <1>5, LoadAnswers, WhoActs

LEMMA OrdersTyped ==
  ASSUME AllOK, [ShoppingNext]_shoppingVars
  PROVE  OrdersOK'
<1>0. OrdersOK /\ CheckoutOK
  BY DEF AllOK
<1>1. CASE UNCHANGED orders
  BY <1>0, <1>1 DEF OrdersOK
<1>2. CASE CreateOrder
  <2>1. checkout.lines \in [Products -> Nat] \ {Empty}
    BY <1>0, <1>2, CheckoutReply, ReplyNames DEF CreateOrder, Awaited, CheckoutOK
  <2>2. orders' = orders \/ orders' = Append(orders, checkout.lines)
    BY <1>2 DEF CreateOrder
  <2> QED
    BY <1>0, <2>1, <2>2, AppendProperties DEF OrdersOK
<1> QED
  BY <1>1, <1>2, WhoActs

LEMMA ShopTyped ==
  ASSUME AllOK, [ShoppingNext]_shoppingVars
  PROVE  /\ AddingOK' /\ expected' \in [Products -> Nat] /\ emptied' \subseteq Products
         /\ shop' \in [route : Places \cup {"cart"}, view : {"loading", "shown", "empty", "failed"}]
<1>0. AddingOK /\ expected \in [Products -> Nat] /\ emptied \subseteq Products
      /\ shop \in [route : Places \cup {"cart"}, view : {"loading", "shown", "empty", "failed"}]
  BY DEF AllOK
<1>1. emptied' \subseteq Products
  BY <1>0, WhoActs DEF shoppingVars, shopVars
<1>2. shop' \in [route : Places \cup {"cart"}, view : {"loading", "shown", "empty", "failed"}]
  BY <1>0, WhoActs DEF ReceiveProducts, TryAgain, OpenProduct, ReceiveProduct, OpenCart, Places
<1>3. AddingOK' /\ expected' \in [Products -> Nat]
  <2>1. CASE UNCHANGED <<adding, expected>>
    BY <1>0, <2>1 DEF AddingOK
  <2> SUFFICES ASSUME NEW place \in Places, NEW p \in Products,
                      (\E n \in Quantities(place) : Add(place, p, n)) \/ ServeAdd(place, p)
                      \/ AnswerAdd(place, p) \/ LoseAdd(place, p)
               PROVE  AddingOK' /\ expected' \in [Products -> Nat]
    BY <2>1, WhoActs
  <2> DEFINE k == <<place, p>>
  <2>2. k \in Places \X Products /\ adding[k] \in AddCall
    BY <1>0 DEF AddingOK
  <2>3. ASSUME NEW c \in AddCall, adding' = [adding EXCEPT ![k] = c] PROVE AddingOK'
    BY <1>0, <2>2, <2>3 DEF AddingOK
  <2>4. ASSUME NEW r \in Replies \ {"error"}, InFlight(adding[k]), adding' = [adding EXCEPT ![k].reply = r]
        PROVE  AddingOK'
    <3>1. [adding[k] EXCEPT !.reply = r] \in AddCall
      BY <2>2, <2>4, AddReply
    <3> QED
      BY <2>3, <2>4, <3>1
  <2>5. "failure" \in Replies \ {"error"} /\ "success" \in Replies \ {"error"}
    BY DEF Replies
  <2>6. ASSUME NEW n \in Quantities(place), Add(place, p, n)
        PROVE  AddingOK' /\ expected' \in [Products -> Nat]
    <3>1. n \in 1 .. Limit
      BY <2>6, StorefrontAssumption DEF Quantities
    <3> QED
      BY <1>0, <2>3, <2>6, <3>1, NewCalls DEF Add
  <2>7. CASE ServeAdd(place, p)
    BY <1>0, <2>4, <2>5, <2>7 DEF ServeAdd, Awaited
  <2>8. CASE LoseAdd(place, p)
    BY <1>0, <2>4, <2>5, <2>8 DEF LoseAdd
  <2>9. CASE AnswerAdd(place, p)
    <3>1. adding[k].count \in Nat
      BY <2>2, <2>9, AddCounts, StorefrontAssumption DEF AnswerAdd, Replied
    <3>2. expected' \in [Products -> Nat]
      BY <1>0, <2>9, <3>1 DEF AnswerAdd
    <3> QED
      BY <2>3, <2>9, <3>2, NewCalls DEF AnswerAdd
  <2> QED
    BY <2>6, <2>7, <2>8, <2>9
<1> QED
  BY <1>1, <1>2, <1>3

LEMMA StepKeepsTypes == AllOK /\ [ShoppingNext]_shoppingVars => AllOK'
<1> SUFFICES ASSUME AllOK, [ShoppingNext]_shoppingVars PROVE AllOK'
  OBVIOUS
<1>1. clicks' \in 0 .. MaxClicks
  BY WhoActs, StorefrontAssumption DEF AllOK
<1>2. disturbed' \subseteq Causes
  BY WhoActs DEF AllOK, Causes, Refresh, OpenCart, Request, LoseReply, Disturb, ServeElsewhere,
     PlaceOrder,
     Take, ServeAdd
<1>3. serving' \subseteq Writing
  BY WhoActs DEF AllOK, Take, Writing
<1> QED
  BY <1>1, <1>2, <1>3, CartTyped, ItemTyped, PromotionTyped, CheckoutTyped, MailTyped,
     LoadTyped,
     PageTyped,
     OrdersTyped, ShopTyped DEF AllOK

LEMMA InitTyped == ShoppingInit => AllOK
<1> SUFFICES ASSUME ShoppingInit PROVE AllOK
  OBVIOUS
<1>1. CartOK
  BY StorefrontAssumption DEF ShoppingInit, NothingAsked, CartOK
<1>2. PageOK
  BY NewCalls DEF ShoppingInit, NothingAsked, PageOK
<1>3. OrdersOK
  BY EmptySeq DEF ShoppingInit, NothingAsked, OrdersOK
<1>4. ItemOK /\ LoadOK /\ AddingOK /\ CheckoutOK
  BY NewCalls DEF ShoppingInit, NothingAsked, ItemOK, LoadOK, AddingOK, CheckoutOK, InFlight
<1> QED
  BY <1>1, <1>2, <1>3, <1>4, NewCalls, StorefrontAssumption
     DEF ShoppingInit, NothingAsked, AllOK, CartOK, Places, Causes

(***************************************************************************)
(* Every value stays in its type: no order without a line is ever created, *)
(* whatever the pages show and however their requests end.                 *)
(***************************************************************************)
THEOREM VisitTypeCorrect == ShoppingSpec => [](TypeOK /\ ShopTypeOK)
BY InitTyped, StepKeepsTypes, TypesOfAll, PTL DEF ShoppingSpec
-----------------------------------------------------------------------------
(* Before the cart page is opened nothing was ordered, and nothing is asked. *)
Beforehand ==
    shop.route \in Places => orders = <<>> /\ page.view = "away" /\ checkout = Idle

(***************************************************************************)
(* Without a cause for a second order, one that was created is either not  *)
(* yet known to the page or has made it set out for the order's page.      *)
(***************************************************************************)
Succeeded(call) == InFlight(call) /\ call.reply = "success"

OnceOnly ==
    "unanswered" \notin disturbed /\ "again" \notin disturbed =>
        /\ Awaited(checkout) => orders = <<>>
        /\ orders # <<>> => Len(orders) = 1 /\ (Succeeded(checkout) \/ page.view # "shown")

(* What every step does to where the page is, and to the disturbances. *)
LEMMA ShownSteps ==
  ASSUME AllOK, [ShoppingNext]_shoppingVars
  PROVE  /\ \/ page'.view = page.view
            \/ OpenCart /\ page'.view = "shown"
            \/ AnswerCheckout /\ page.view = "shown" /\ page'.view = "leaving"
            \/ Leave /\ page.view = "leaving" /\ page'.view = "away"
         /\ disturbed \subseteq disturbed'
<1>0. PageOK
  BY DEF AllOK
<1> USE DEF PageOK
<1>1. Refresh => page'.view = page.view
  BY <1>0 DEF Refresh
<1>2. OpenCart => page'.view = "shown"
  BY <1>0 DEF OpenCart
<1>3. AnswerCheckout => page'.view = page.view \/ (page.view = "shown" /\ page'.view = "leaving")
  BY <1>0 DEF AnswerCheckout
<1>4. Leave => page.view = "leaving" /\ page'.view = "away"
  BY <1>0 DEF Leave
<1>5. disturbed \subseteq disturbed'
  BY WhoActs DEF Refresh, OpenCart, Request, LoseReply, Disturb, ServeElsewhere, PlaceOrder,
     Take, ServeAdd
<1>6. \/ page'.view = page.view
      \/ OpenCart /\ page'.view = "shown"
      \/ AnswerCheckout /\ page.view = "shown" /\ page'.view = "leaving"
      \/ Leave /\ page.view = "leaving" /\ page'.view = "away"
  BY <1>1, <1>2, <1>3, <1>4, LoadAnswers, WhoActs
<1> QED
  BY <1>5, <1>6

LEMMA StepKeepsBeforehand ==
  ASSUME AllOK, Beforehand, [ShoppingNext]_shoppingVars
  PROVE  Beforehand'
<1> SUFFICES ASSUME shop'.route \in Places
             PROVE  orders' = <<>> /\ page'.view = "away" /\ checkout' = Idle
  BY DEF Beforehand
<1>1. ~OpenCart
  BY DEF OpenCart, Places
<1>2. shop.route \in Places
  <2>1. CASE UNCHANGED shop
    BY <2>1
  <2>2. CASE ReceiveProducts \/ TryAgain \/ OpenProduct
    BY <2>2 DEF ReceiveProducts, TryAgain, OpenProduct, Offered, Places
  <2>3. CASE ReceiveProduct
    BY <2>3 DEF ReceiveProduct, Places
  <2> QED
    BY <1>1, <2>1, <2>2, <2>3, WhoActs
<1>3. orders = <<>> /\ page.view = "away" /\ checkout = Idle
  BY <1>2 DEF Beforehand
<1>4. ~AnswerCheckout /\ ~CreateOrder /\ ~ReadForCheckout /\ ~PlaceOrder
  BY <1>3 DEF AnswerCheckout, CreateOrder, ReadForCheckout, PlaceOrder, Click, Awaited,
     Replied, InFlight
<1>5. orders' = <<>> /\ page'.view = "away"
  BY <1>1, <1>3, <1>4, ShownSteps, WhoActs
<1>6. checkout' = Idle
  BY <1>3, <1>4, WhoActs DEF CheckoutStep, LoseReply, InFlight
<1> QED
  BY <1>5, <1>6

LEMMA StepKeepsOnce ==
  ASSUME AllOK, Beforehand, OnceOnly, [ShoppingNext]_shoppingVars
  PROVE  OnceOnly'
<1> SUFFICES ASSUME "unanswered" \notin disturbed', "again" \notin disturbed'
             PROVE  /\ Awaited(checkout)' => orders' = <<>>
                    /\ orders' # <<>> =>
                           Len(orders') = 1 /\ (Succeeded(checkout)' \/ page'.view # "shown")
  BY DEF OnceOnly
<1>1. "unanswered" \notin disturbed /\ "again" \notin disturbed
  BY ShownSteps
<1>2. /\ Awaited(checkout) => orders = <<>>
      /\ orders # <<>> => Len(orders) = 1 /\ (Succeeded(checkout) \/ page.view # "shown")
  BY <1>1 DEF OnceOnly
<1> USE DEF Awaited, Succeeded, InFlight
<1>3. CASE AnswerCheckout
  <2>1. checkout' = Idle /\ orders' = orders
    BY <1>3 DEF AnswerCheckout
  <2>2. Succeeded(checkout) \/ page.view # "shown" => page'.view # "shown"
    BY <1>3 DEF AnswerCheckout, AllOK, PageOK
  <2> QED
    BY <2>1, <2>2, <1>2
<1>4. CASE OpenCart
  BY <1>4 DEF OpenCart, Beforehand
<1>5. CASE PlaceOrder
  <2>1. page.view = "shown"
    BY <1>5 DEF PlaceOrder, Click, Disturb, AllOK, PageOK
  <2>2. orders = <<>> /\ orders' = orders
    BY <1>2, <1>5, <2>1 DEF PlaceOrder, Click
  <2> QED
    BY <2>2
<1>6. CASE ReadForCheckout
  <2>1. orders = <<>> /\ orders' = orders
    BY <1>2, <1>6 DEF ReadForCheckout
  <2> QED
    BY <2>1
<1>7. CASE CreateOrder
  <2>1. orders = <<>> /\ InFlight(checkout) /\ checkout \in CheckoutCall
    BY <1>2, <1>7 DEF CreateOrder, AllOK, CheckoutOK
  <2>2. CASE UNCHANGED orders
    BY <2>1, <2>2
  <2>3. CASE orders' = Append(orders, checkout.lines) /\ checkout' = [checkout EXCEPT !.reply = "success"]
    <3>1. Len(orders') = 1
      BY <2>1, <2>3, <1>7, CheckoutReply, ReplyNames, AppendProperties DEF AllOK, OrdersOK,
         CheckoutOK, CreateOrder
    <3>2. InFlight(checkout') /\ checkout'.reply = "success"
      BY <2>1, <2>3, CheckoutReply, ReplyNames
    <3> QED
      BY <3>1, <3>2
  <2> QED
    BY <1>7, <2>2, <2>3 DEF CreateOrder
<1>8. CASE UNCHANGED <<checkout, orders>> /\ ~OpenCart /\ ~AnswerCheckout
  BY <1>2, <1>8, ShownSteps
<1>9. CASE LoseReply
  <2>1. UNCHANGED checkout
    BY <1>9 DEF LoseReply, Disturb
  <2> QED
    BY <2>1, <1>3, <1>4, <1>8, <1>9 DEF LoseReply
<1> QED
  BY <1>3, <1>4, <1>5, <1>6, <1>7, <1>8, <1>9, WhoActs DEF CheckoutStep

(***************************************************************************)
(* However the visit goes, a second order has one of two causes: the reply *)
(* to a checkout was lost, or the user clicked again after it had come and *)
(* before the guard of the next page had answered.  An order that is       *)
(* refused, a refresh, a failure of any other request, or requests of      *)
(* other pages never lead to one.                                          *)
(***************************************************************************)
THEOREM SecondOrdersHaveACause == ShoppingSpec => []SecondOrderHasACause
<1>1. ShoppingInit => Beforehand /\ OnceOnly
  BY DEF ShoppingInit, NothingAsked, Beforehand, OnceOnly, Awaited, InFlight
<1>2. AllOK /\ Beforehand /\ OnceOnly /\ [ShoppingNext]_shoppingVars => Beforehand' /\ OnceOnly'
  BY StepKeepsBeforehand, StepKeepsOnce
<1>3. AllOK /\ OnceOnly => SecondOrderHasACause
  <2> SUFFICES ASSUME AllOK, OnceOnly, Len(orders) > 1,
                      "unanswered" \notin disturbed, "again" \notin disturbed
               PROVE  FALSE
    BY DEF SecondOrderHasACause
  <2>1. orders # <<>> => Len(orders) = 1
    BY DEF OnceOnly
  <2>2. CASE orders = <<>>
    <3>1. Len(orders) = 0
      BY <2>2, EmptySeq
    <3> QED
      BY <3>1
  <2>3. CASE Len(orders) = 1
    BY <2>3
  <2> QED
    BY <2>1, <2>2, <2>3
<1> QED
  BY <1>1, <1>2, <1>3, InitTyped, StepKeepsTypes, PTL DEF ShoppingSpec
-----------------------------------------------------------------------------
(* A page of the shop has been answered that its pieces were added, and has *)
(* not told the user yet.                                                   *)
Untold(place, p) ==
    IF Succeeded(adding[<<place, p>>]) THEN adding[<<place, p>>].count ELSE 0

Counted ==
    "interleaved" \notin disturbed => \A p \in Products \ emptied :
        expected[p] + Untold("catalogue", p) + Untold("product", p) <= pieces[p]

LEMMA UntoldTyped ==
  AllOK => \A place \in Places, p \in Products : Untold(place, p) \in Nat
<1> SUFFICES ASSUME AllOK, NEW place \in Places, NEW p \in Products
             PROVE  Untold(place, p) \in Nat
  OBVIOUS
<1>1. adding[<<place, p>>] \in AddCall
  BY DEF AllOK, AddingOK
<1> QED
  BY <1>1, AddCounts, StorefrontAssumption DEF Untold, Succeeded

LEMMA UntoldTypedNext ==
  AllOK' => \A place \in Places, p \in Products : Untold(place, p)' \in Nat
<1> SUFFICES ASSUME AllOK', NEW place \in Places, NEW p \in Products
             PROVE  Untold(place, p)' \in Nat
  OBVIOUS
<1>1. adding'[<<place, p>>] \in AddCall
  BY DEF AllOK, AddingOK
<1> QED
  BY <1>1, AddCounts, StorefrontAssumption DEF Untold, Succeeded

LEMMA StepKeepsCounted ==
  ASSUME AllOK, AllOK', Counted, [ShoppingNext]_shoppingVars
  PROVE  Counted'
<1> SUFFICES ASSUME "interleaved" \notin disturbed', NEW p \in Products \ emptied'
             PROVE  (expected[p] + Untold("catalogue", p) + Untold("product", p) <= pieces[p])'
  BY DEF Counted
<1> DEFINE c == Untold("catalogue", p)
           d == Untold("product", p)
<1>0. "catalogue" \in Places /\ "product" \in Places
  BY DEF Places
<1>1. /\ p \in Products /\ p \notin emptied /\ pieces[p] \in Nat /\ pieces'[p] \in Nat
      /\ expected[p] \in Nat /\ c \in Nat /\ d \in Nat /\ c' \in Nat /\ d' \in Nat
      /\ ~(pieces'[p] < pieces[p]) /\ "interleaved" \notin disturbed
  <2>0. "interleaved" \notin disturbed /\ ~Interleave
    BY ShownSteps DEF Interleave
  <2>1. ~(pieces'[p] < pieces[p])
    BY <2>0, WhoActs DEF AllOK, CartOK
  <2>2. p \in Products /\ p \notin emptied
    BY WhoActs
  <2>3. pieces[p] \in Nat /\ pieces'[p] \in Nat /\ expected[p] \in Nat
    BY <2>2 DEF AllOK, CartOK
  <2>4. c \in Nat /\ d \in Nat
    BY <1>0, <2>2, UntoldTyped
  <2>5. c' \in Nat /\ d' \in Nat
    BY <1>0, <2>2, UntoldTypedNext
  <2> QED
    BY <2>0, <2>1, <2>2, <2>3, <2>4, <2>5
<1>2. expected[p] + c + d <= pieces[p]
  BY <1>1 DEF Counted
<1>3. CASE UNCHANGED <<adding, expected>>
  <2>1. c' = c /\ d' = d /\ expected'[p] = expected[p]
    BY <1>3 DEF Untold
  <2> QED
    BY <2>1, <1>1, <1>2
<1>4. ASSUME NEW place \in Places, NEW q \in Products,
             (\E n \in Quantities(place) : Add(place, q, n)) \/ ServeAdd(place, q)
             \/ AnswerAdd(place, q) \/ LoseAdd(place, q)
      PROVE  expected'[p] + c' + d' <= pieces'[p]
  <2> DEFINE k == <<place, q>>
  <2>1. /\ adding[k] \in AddCall /\ adding \in [Places \X Products -> AddCall] /\ k \in Places \X Products
        /\ \E a : adding' = [adding EXCEPT ![k] = a]
    BY <1>4 DEF AllOK, AddingOK, Add, ServeAdd, AnswerAdd, LoseAdd
  <2>2. CASE q # p
    <3>1. c' = c /\ d' = d
      BY <2>1, <2>2, <1>0 DEF Untold
    <3>2. expected'[p] = expected[p]
      BY <1>4, <2>2 DEF AllOK, Add, ServeAdd, AnswerAdd, LoseAdd
    <3> QED
      BY <3>1, <3>2, <1>1, <1>2
  <2>3. CASE q = p
    (* The other page's request for the product is left alone. *)
    <3> DEFINE told == Untold(place, p)
    <3>1. \/ place = "catalogue" /\ d' = d /\ c' = told' /\ c = told
          \/ place = "product" /\ c' = c /\ d' = told' /\ d = told
      BY <2>1, <1>0 DEF Untold, Places
    <3>2. told \in Nat /\ told' \in Nat
      BY <1>1, UntoldTyped, UntoldTypedNext
    <3>3. CASE \E n \in Quantities(place) : Add(place, p, n)
      <4>1. adding'[k].reply = "awaited" /\ expected' = expected
        BY <2>1, <2>3, <3>3 DEF Add
      <4>2. told' = 0
        BY <4>1, <2>3 DEF Untold, Succeeded
      <4> QED
        BY <4>1, <4>2, <3>1, <3>2, <1>1, <1>2
    <3>4. CASE LoseAdd(place, p)
      <4>1. adding'[k].reply = "failure" /\ expected' = expected
        BY <2>1, <2>3, <3>4, AddReply, ReplyNames DEF LoseAdd
      <4>2. told' = 0
        BY <4>1, <2>3 DEF Untold, Succeeded
      <4> QED
        BY <4>1, <4>2, <3>1, <3>2, <1>1, <1>2
    <3>5. CASE ServeAdd(place, p)
      <4>1. /\ InFlight(adding[k]) /\ adding[k].reply = "awaited" /\ expected' = expected
            /\ adding' = [adding EXCEPT ![k].reply = "success"]
            /\ pieces' = [pieces EXCEPT ![p] = @ + adding[k].count]
        BY <2>3, <3>5 DEF ServeAdd, Awaited, Contents!Add
      <4>2. adding'[k].count = adding[k].count /\ adding[k].count \in Nat
        BY <4>1, <2>1, AddReply, AddCounts, ReplyNames, StorefrontAssumption
      <4>3. told = 0 /\ told' \in {0, adding[k].count}
        BY <4>1, <4>2, <2>3 DEF Untold, Succeeded
      <4>4. pieces'[p] = pieces[p] + adding[k].count
        BY <4>1 DEF AllOK, CartOK
      <4> QED
        BY <4>1, <4>2, <4>3, <4>4, <3>1, <3>2, <1>1, <1>2
    <3>6. CASE AnswerAdd(place, p)
      <4>1. /\ InFlight(adding[k]) /\ adding'[k] = Idle
            /\ expected' = IF adding[k].reply = "success"
                           THEN [expected EXCEPT ![p] = @ + adding[k].count] ELSE expected
        BY <2>1, <2>3, <3>6 DEF AnswerAdd, Replied
      <4>2. told' = 0 /\ told = IF adding[k].reply = "success" THEN adding[k].count ELSE 0
        BY <4>1, <2>3 DEF Untold, Succeeded, InFlight
      <4>3. expected'[p] = expected[p] + told
        BY <4>1, <4>2, <1>1 DEF AllOK
      <4> QED
        BY <4>2, <4>3, <3>1, <3>2, <1>1, <1>2
    <3> QED
      BY <2>3, <3>3, <3>4, <3>5, <3>6, <1>4
  <2> QED
    BY <2>2, <2>3
<1> QED
  BY <1>3, <1>4, WhoActs

(***************************************************************************)
(* Whatever requests are lost or answered late, and however many pages add *)
(* the same product one after the other, the user is not told of a piece   *)
(* that is not there - until two requests overlap at the cart service,     *)
(* which may then lose an addition it confirms.                            *)
(***************************************************************************)
THEOREM ToldIsThere == ShoppingSpec => []WhatWasToldIsThere
<1>1. ShoppingInit => Counted
  <2> SUFFICES ASSUME ShoppingInit PROVE Counted
    OBVIOUS
  <2>1. \A p \in Products : Untold("catalogue", p) = 0 /\ Untold("product", p) = 0
    BY DEF ShoppingInit, Untold, Succeeded, InFlight, Places
  <2>2. expected = pieces /\ pieces \in [Products -> Nat]
    BY InitTyped DEF ShoppingInit, AllOK, CartOK
  <2> QED
    BY <2>1, <2>2 DEF Counted
<1>2. AllOK /\ AllOK' /\ Counted /\ [ShoppingNext]_shoppingVars => Counted'
  BY StepKeepsCounted
<1>3. AllOK /\ Counted => WhatWasToldIsThere
  <2> SUFFICES ASSUME AllOK, Counted, "interleaved" \notin disturbed, NEW p \in Products \ emptied
               PROVE  expected[p] <= pieces[p]
    BY TypesOfAll DEF WhatWasToldIsThere
  <2>1. Untold("catalogue", p) \in Nat /\ Untold("product", p) \in Nat
    BY UntoldTyped DEF Places
  <2>2. expected[p] \in Nat /\ pieces[p] \in Nat
    BY DEF AllOK, CartOK
  <2> QED
    BY <2>1, <2>2 DEF Counted
<1> QED
  BY <1>1, <1>2, <1>3, InitTyped, StepKeepsTypes, PTL DEF ShoppingSpec
-----------------------------------------------------------------------------
(***************************************************************************)
(* What makes the page fresh: a change of the cart that the page asked for *)
(* has been answered and not been seen yet, so that a refresh will follow; *)
(* without overlapping refreshes there is one at a time; and a refresh     *)
(* fails only for a cause that is remembered.                              *)
(***************************************************************************)
Promised == (\E p \in Products : Succeeded(item[p])) \/ Succeeded(promotion)

OneLoad ==
    "overlap" \notin disturbed =>
        \A l, m \in Loads : InFlight(load[l]) /\ InFlight(load[m]) => l = m

FailuresKnown == \A l \in Loads : InFlight(load[l]) /\ load[l].reply = "failure" => "failure" \in disturbed

(* The causes that leave the page as fresh as it was. *)
Harmless == {"error", "unanswered", "again"}

FreshPage ==
    disturbed \subseteq Harmless /\ page.view # "away" =>
        /\ \A l \in Loads : Succeeded(load[l]) => load[l].cart = Current \/ Promised
        /\ page.cart = Current \/ page.failed \/ Promised \/ \E l \in Loads : InFlight(load[l])

LEMMA RequestMade ==
  ASSUME AllOK, Request
  PROVE  \E l \in Loads :
             /\ InFlight(load'[l]) /\ load'[l].reply = "awaited"
             /\ \A m \in Loads \ {l} : load'[m] = load[m]
             /\ "overlap" \in disturbed' \/ \A m \in Loads : ~InFlight(load[m])
<1>1. PICK l \in Loads :
          /\ load' = [load EXCEPT ![l] = [op |-> "load", cart |-> Blank, reply |-> "awaited"]]
          /\ "overlap" \in disturbed' \/ \A m \in Loads : ~InFlight(load[m])
  BY DEF Request
<1>2. load'[l] = [op |-> "load", cart |-> Blank, reply |-> "awaited"]
      /\ \A m \in Loads \ {l} : load'[m] = load[m]
  BY <1>1 DEF AllOK, LoadOK
<1> QED
  BY <1>1, <1>2 DEF InFlight, Idle

(* The replies of refreshes that are lost. *)
LEMMA LoadsLost ==
  ASSUME AllOK, LoseReply, ~UNCHANGED load
  PROVE  /\ UNCHANGED <<cart, page, item, promotion>>
         /\ \E l \in Loads, r \in {"failure", "error"} :
                /\ InFlight(load[l]) /\ InFlight(load'[l]) /\ load'[l].reply = r /\ r \in disturbed'
                /\ \A m \in Loads \ {l} : load'[m] = load[m]
<1>1. /\ UNCHANGED <<cart, page, item, promotion>>
      /\ \E l \in Loads, r \in {"failure", "error"} :
             InFlight(load[l]) /\ load' = [load EXCEPT ![l].reply = r] /\ Disturb(r)
  BY DEF LoseReply
<1>2. PICK l \in Loads, r \in {"failure", "error"} :
          InFlight(load[l]) /\ load' = [load EXCEPT ![l].reply = r] /\ Disturb(r)
  BY <1>1
<1>3. load[l] \in LoadCall /\ load'[l] = [load[l] EXCEPT !.reply = r]
      /\ \A m \in Loads \ {l} : load'[m] = load[m]
  BY <1>2 DEF AllOK, LoadOK
<1>4. /\ InFlight([load[l] EXCEPT !.reply = r])
      /\ [load[l] EXCEPT !.reply = r].reply = r
  BY <1>2, <1>3, LoadReply, ReplyNames
<1>5. InFlight(load'[l]) /\ load'[l].reply = r
  BY <1>3, <1>4
<1> QED
  BY <1>1, <1>2, <1>3, <1>5 DEF Disturb

LEMMA LoadsServed ==
  ASSUME AllOK, NEW l \in Loads, ServeLoad(l)
  PROVE  /\ UNCHANGED <<cart, page, item, promotion, disturbed>> /\ InFlight(load[l])
         /\ load'[l].cart = Current /\ load'[l].reply = "success" /\ InFlight(load'[l])
         /\ \A m \in Loads \ {l} : load'[m] = load[m]
<1>1. load' = [load EXCEPT ![l] = [op |-> "load", cart |-> Current, reply |-> "success"]]
  BY DEF ServeLoad
<1>2. load'[l] = [op |-> "load", cart |-> Current, reply |-> "success"]
      /\ \A m \in Loads \ {l} : load'[m] = load[m]
  BY <1>1 DEF AllOK, LoadOK
<1> QED
  BY <1>2 DEF ServeLoad, Behind, Awaited, InFlight, Idle

LEMMA LoadsAnswered ==
  ASSUME AllOK, NEW l \in Loads, AnswerLoad(l)
  PROVE  /\ UNCHANGED <<cart, item, promotion, disturbed>> /\ InFlight(load[l]) /\ ~InFlight(load'[l])
         /\ \A m \in Loads \ {l} : load'[m] = load[m]
BY DEF AnswerLoad, Replied, InFlight, AllOK, LoadOK

LEMMA StepKeepsLoads ==
  ASSUME AllOK, OneLoad, FailuresKnown, [ShoppingNext]_shoppingVars
  PROVE  OneLoad' /\ FailuresKnown'
<1>1. disturbed \subseteq disturbed'
  BY ShownSteps
<1>2. CASE UNCHANGED load
  BY <1>1, <1>2 DEF OneLoad, FailuresKnown
<1>3. CASE Request
  <2>1. PICK l \in Loads :
            /\ InFlight(load'[l]) /\ load'[l].reply = "awaited"
            /\ \A m \in Loads \ {l} : load'[m] = load[m]
            /\ "overlap" \in disturbed' \/ \A m \in Loads : ~InFlight(load[m])
    BY <1>3, RequestMade
  <2>2. OneLoad'
    <3> SUFFICES ASSUME "overlap" \notin disturbed', NEW m \in Loads, InFlight(load'[m]) PROVE m = l
      BY DEF OneLoad
    <3> QED
      BY <2>1
  <2>3. FailuresKnown'
    <3> SUFFICES ASSUME NEW m \in Loads, InFlight(load'[m]), load'[m].reply = "failure"
                 PROVE  "failure" \in disturbed'
      BY DEF FailuresKnown
    <3>1. load'[m] = load[m]
      BY <2>1
    <3> QED
      BY <1>1, <3>1 DEF FailuresKnown
  <2> QED
    BY <2>2, <2>3
<1>4. ASSUME NEW l \in Loads, \A m \in Loads \ {l} : load'[m] = load[m], InFlight(load[l]),
             InFlight(load'[l]) /\ load'[l].reply = "failure" => "failure" \in disturbed'
      PROVE  OneLoad' /\ FailuresKnown'
  <2>1. \A m \in Loads : InFlight(load'[m]) => InFlight(load[m])
    BY <1>4
  <2>2. OneLoad'
    BY <1>1, <2>1 DEF OneLoad
  <2>3. FailuresKnown'
    BY <1>1, <1>4 DEF FailuresKnown
  <2> QED
    BY <2>2, <2>3
<1>5. CASE LoseReply
  <2>1. CASE ~UNCHANGED load
    BY <1>4, <1>5, <2>1, LoadsLost
  <2> QED
    BY <1>2, <2>1
<1>6. ASSUME NEW l \in Loads, ServeLoad(l) PROVE OneLoad' /\ FailuresKnown'
  BY <1>4, <1>6, LoadsServed
<1>7. ASSUME NEW l \in Loads, AnswerLoad(l) PROVE OneLoad' /\ FailuresKnown'
  BY <1>4, <1>7, LoadsAnswered
<1> QED
  BY <1>2, <1>3, <1>5, <1>6, <1>7, WhoActs DEF LoadStep, Refresh, OpenCart

(***************************************************************************)
(* A change the page asked for is not forgotten before a refresh is sent:  *)
(* every answer that reports it asks for one.                              *)
(***************************************************************************)
LEMMA PromisesKept ==
  ASSUME AllOK, Promised, "failure" \notin disturbed', [ShoppingNext]_shoppingVars
  PROVE  Promised' \/ Refresh
<1>1. CASE \E q \in Products : Succeeded(item[q])
  <2>1. PICK q \in Products : Succeeded(item[q])
    BY <1>1
  <2> SUFFICES ASSUME item'[q] # item[q] PROVE Promised' \/ Refresh
    BY <2>1 DEF Promised, Succeeded
  <2>2. ~LoseReply
    BY DEF LoseReply, Disturb
  <2>3. PICK p \in Products : \/ OtherItemStep(p) \/ RemoveItem(p)
                              \/ \E n \in 1 .. Limit : UpdateQuantity(p, n)
    BY <2>2, WhoActs
  <2>4. p = q
    BY <2>3 DEF AllOK, ItemOK, OtherItemStep, RemoveItem, UpdateQuantity, ServeUpdate,
       ServeRemove,
       AnswerUpdate, AnswerRemove
  <2> QED
    BY <2>1, <2>3, <2>4 DEF OtherItemStep, RemoveItem, UpdateQuantity, ServeUpdate,
       ServeRemove,
       Awaited, Succeeded,
       AnswerUpdate, AnswerRemove, React
<1>2. CASE Succeeded(promotion)
  <2>1. ~LoseReply \/ UNCHANGED promotion
    BY DEF LoseReply, Disturb
  <2> QED
    BY <1>2, <2>1, WhoActs DEF Promised, OtherCodeStep, RemoveCoupon, ApplyCoupon, ServeApply,
       ServeRemoveCoupon, Awaited, Succeeded, AnswerApply, AnswerRemoveCoupon, React
<1> QED
  BY <1>1, <1>2 DEF Promised

(* Who may change the cart: the page, another one, or a late request of the shop. *)
LEMMA CartChanges ==
  ASSUME AllOK, [ShoppingNext]_shoppingVars, ~UNCHANGED cart
  PROVE  \/ Promised' \/ "elsewhere" \in disturbed' \/ "interleaved" \in disturbed'
         \/ UNCHANGED <<page, load>> /\ ReadsLater
<1>1. ASSUME NEW p \in Products, ServeUpdate(p) \/ ServeRemove(p) PROVE Promised'
  <2>1. item' = [item EXCEPT ![p].reply = "success"] /\ InFlight(item[p])
    BY <1>1 DEF ServeUpdate, ServeRemove, Awaited
  <2>2. item[p] \in ItemCall /\ item'[p] = [item[p] EXCEPT !.reply = "success"]
    BY <2>1 DEF AllOK, ItemOK
  <2>3. InFlight([item[p] EXCEPT !.reply = "success"]) /\ [item[p] EXCEPT !.reply = "success"].reply = "success"
    BY <2>1, <2>2, ItemReply, ReplyNames
  <2> QED
    BY <2>2, <2>3 DEF Promised, Succeeded
<1>2. CASE ServeApply
  <2>1. promotion' = [promotion EXCEPT !.reply = "success"] /\ InFlight(promotion)
    BY <1>2 DEF ServeApply, Awaited
  <2>2. InFlight(promotion') /\ promotion'.reply = "success"
    BY <2>1, PromotionReply, ReplyNames DEF AllOK
  <2> QED
    BY <2>2 DEF Promised, Succeeded
<1>3. CASE ServeElsewhere
  BY <1>3 DEF ServeElsewhere, Disturb, calls
<1>4. ASSUME NEW place \in Places, NEW p \in Products, ServeAdd(place, p), "elsewhere" \notin disturbed'
      PROVE  UNCHANGED <<page, load>> /\ ReadsLater
  BY <1>4 DEF ServeAdd, Disturb, calls
<1>5. CASE Interleave
  BY <1>5 DEF Interleave
<1> QED
  BY <1>1, <1>2, <1>3, <1>4, <1>5, CartActs

LEMMA StepKeepsFresh ==
  ASSUME AllOK, AllOK', Beforehand, Beforehand', OneLoad, OneLoad', FailuresKnown, FreshPage,
         [ShoppingNext]_shoppingVars
  PROVE  FreshPage'
<1> SUFFICES ASSUME disturbed' \subseteq Harmless, page'.view # "away", ~Promised'
             PROVE  /\ \A l \in Loads : Succeeded(load'[l]) => load'[l].cart = Current'
                    /\ page'.cart = Current' \/ page'.failed \/ \E l \in Loads : InFlight(load'[l])
  BY DEF FreshPage, Succeeded
<1>1. /\ disturbed \subseteq Harmless
      /\ disturbed' \cap {"failure", "elsewhere", "overlap", "interleaved"} = {}
  BY ShownSteps DEF Harmless
<1>2. ASSUME Request
      PROVE  /\ \A m \in Loads : ~Succeeded(load'[m])
             /\ \E m \in Loads : InFlight(load'[m])
  <2>1. PICK l \in Loads :
            /\ InFlight(load'[l]) /\ load'[l].reply = "awaited"
            /\ \A m \in Loads \ {l} : load'[m] = load[m]
            /\ "overlap" \in disturbed' \/ \A m \in Loads : ~InFlight(load[m])
    BY <1>2, RequestMade
  <2>2. "overlap" \notin disturbed'
    BY <1>1
  <2> QED
    BY <2>1, <2>2 DEF Succeeded
<1>3. CASE Request
  BY <1>2, <1>3
<1>4. CASE ~Request
  <2>1. ~Refresh /\ ~OpenCart /\ ~Promised
    BY <1>1, <1>4, PromisesKept DEF Refresh, OpenCart
  <2>2. page.view # "away"
    BY <2>1, ShownSteps
  <2>3. /\ \A l \in Loads : Succeeded(load[l]) => load[l].cart = Current
        /\ page.cart = Current \/ page.failed \/ \E l \in Loads : InFlight(load[l])
    BY <1>1, <2>1, <2>2 DEF FreshPage
  <2>4. CASE ~UNCHANGED cart
    <3>1. UNCHANGED <<page, load>> /\ \E l \in Loads : Awaited(load[l])
      BY <1>1, <2>2, <2>4, CartChanges DEF ReadsLater
    <3>2. PICK l \in Loads : Awaited(load[l])
      BY <3>1
    <3>3. \A m \in Loads : ~Succeeded(load[m])
      BY <1>1, <3>2 DEF OneLoad, Harmless, Awaited, Succeeded
    <3> QED
      BY <3>1, <3>2, <3>3 DEF Awaited
  <2>5. CASE UNCHANGED cart
    <3>1. Current' = Current
      BY <2>5 DEF Current, cart
    <3>2. ASSUME UNCHANGED load
          PROVE  page'.cart = page.cart /\ page'.failed = page.failed
      <4>1. CASE UNCHANGED page
        BY <4>1
      <4>2. CASE AnswerCheckout \/ Leave
        BY <4>2 DEF AnswerCheckout, Leave, AllOK, PageOK
      <4>3. ASSUME NEW l \in Loads, AnswerLoad(l) PROVE FALSE
        BY <3>2, <4>3, LoadsAnswered
      <4> QED
        BY <2>1, <4>1, <4>2, <4>3, WhoActs
    <3>3. CASE UNCHANGED load
      BY <2>3, <3>1, <3>2, <3>3
    <3>4. CASE LoseReply /\ ~UNCHANGED load
      <4>1. PICK l \in Loads, r \in {"failure", "error"} :
                /\ InFlight(load'[l]) /\ load'[l].reply = r
                /\ \A m \in Loads \ {l} : load'[m] = load[m]
        BY <3>4, LoadsLost
      <4> QED
        BY <2>3, <3>1, <4>1 DEF Succeeded
    <3>5. ASSUME NEW l \in Loads, ServeLoad(l)
          PROVE  /\ \A m \in Loads : Succeeded(load'[m]) => load'[m].cart = Current'
                 /\ \E m \in Loads : InFlight(load'[m])
      BY <2>3, <3>1, <3>5, LoadsServed
    <3>6. ASSUME NEW l \in Loads, AnswerLoad(l)
          PROVE  /\ \A m \in Loads : Succeeded(load'[m]) => load'[m].cart = Current'
                 /\ page'.cart = Current' \/ page'.failed
      <4>1. /\ InFlight(load[l]) /\ ~InFlight(load'[l])
            /\ \A m \in Loads \ {l} : load'[m] = load[m]
        BY <3>6, LoadsAnswered
      <4>2. load[l].reply \in {"success", "error"}
        BY <1>1, <3>6, <4>1, LoadAnswers DEF FailuresKnown, Harmless
      <4>3. load[l].reply = "success" => page'.cart = Current
        BY <2>3, <3>6, <4>1, LoadAnswers DEF Succeeded
      <4>4. load[l].reply = "error" => page'.failed
        BY <3>6, LoadAnswers
      <4> QED
        BY <2>3, <3>1, <4>1, <4>2, <4>3, <4>4 DEF Succeeded
    <3> QED
      BY <2>1, <3>3, <3>4, <3>5, <3>6, WhoActs DEF LoadStep
  <2> QED
    BY <2>4, <2>5
<1> QED
  BY <1>3, <1>4

(***************************************************************************)
(* A page at rest shows the cart as it is, or says that it could not be    *)
(* read: whatever the page asked for, and whichever requests of the shop   *)
(* arrived while it waited, unless a cause that is named got between.      *)
(***************************************************************************)
THEOREM SettledPagesAreCurrent == ShoppingSpec => []SettledPageIsCurrent
<1>1. ShoppingInit => Beforehand /\ OneLoad /\ FailuresKnown /\ FreshPage
  BY DEF ShoppingInit, NothingAsked, Beforehand, OneLoad, FailuresKnown, FreshPage, InFlight
<1>2. /\ AllOK /\ Beforehand /\ OneLoad /\ FailuresKnown /\ FreshPage /\ [ShoppingNext]_shoppingVars
      => Beforehand' /\ OneLoad' /\ FailuresKnown' /\ FreshPage'
  BY StepKeepsTypes, StepKeepsBeforehand, StepKeepsLoads, StepKeepsFresh
<1>3. AllOK /\ FreshPage => SettledPageIsCurrent
  <2> SUFFICES ASSUME AllOK, FreshPage, Quiet, page.view # "away", disturbed \subseteq Harmless
               PROVE  page.cart = Current \/ page.failed
    BY TypesOfAll DEF SettledPageIsCurrent, Harmless
  <2>1. ~Promised
    BY DEF Quiet, Promised, Succeeded
  <2>2. \A l \in Loads : ~InFlight(load[l])
    BY DEF Quiet
  <2> QED
    BY <2>1, <2>2 DEF FreshPage
<1> QED
  BY <1>1, <1>2, <1>3, InitTyped, StepKeepsTypes, PTL DEF ShoppingSpec
=============================================================================
