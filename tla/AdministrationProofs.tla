-------------------------- MODULE AdministrationProofs ----------------------
(***************************************************************************)
(* What administrators change, on either side of the BFF; the two modules  *)
(* have no name in common.                                                 *)
(*                                                                         *)
(* Inventory: what the stock adds up to and what becomes of reservations,  *)
(* for any number of handlers and of administrators' requests.             *)
(*                                                                         *)
(* AdminPage: what the page lists and what its forms hold, for any number  *)
(* of rows, of clicks and of refreshes in progress together.               *)
(***************************************************************************)
EXTENDS Inventory, AdminPage, WellFoundedInduction, TLAPS

(***************************************************************************)
(* Inventory: a row that was read is still there when it is saved, so that *)
(* a quantity saved by its difference from what was read is a quantity.    *)
(***************************************************************************)
RowsStay ==
    /\ \A h \in Handlers : work[h] # None =>
           \A p \in Products : work[h].read[p] # NoRow => stock[p] # NoRow
    /\ \A r \in Requests : put[r] \notin {None, Done} =>
           (put[r].read # NoRow => stock[put[r].product] # NoRow)

(* What the last PUT of a product left, less the pieces reserved since. *)
Conserved == \A p \in Products \ stale : set[p] = NoRow \/ stock[p] + taken[p] = set[p]

StockInv == InventoryTypeOK /\ RowsStay /\ Conserved

(* What a handler has read, and what a request has read. *)
LEMMA WorkFields ==
    ASSUME NEW w \in Work
    PROVE  /\ w.order \in Orders
           /\ \A p \in Products : w.read[p] \in Nat \cup {NoRow} /\ Lines[w.order][p] \in Nat
BY InventoryAssumption DEF Work, Quantity

LEMMA PutFields ==
    ASSUME NEW q \in Put
    PROVE  q.product \in Products /\ q.level \in Nat /\ q.level # NoRow /\ q.read \in Nat \cup {NoRow}
<1>1. q.product \in Products /\ q.level \in Levels /\ q.read \in Quantity
  BY DEF Put
<1>2. q.level \in Nat
  BY <1>1, InventoryAssumption
<1> QED BY <1>1, <1>2 DEF Quantity, NoRow

LEMMA ReadStockKeeps ==
    ASSUME StockInv, NEW h \in Handlers, NEW o \in Orders, ReadStock(h, o) PROVE StockInv'
<1> DEFINE w == [order |-> o, read |-> stock]
<1>1. work' = [work EXCEPT ![h] = w] /\ UNCHANGED <<stock, reservation, put, set, taken, stale>>
  BY DEF ReadStock, ghosts
<1>2. w \in Work /\ w.read = stock
  BY DEF StockInv, InventoryTypeOK, Work
<1> HIDE DEF w
<1>3. InventoryTypeOK'
  BY <1>1, <1>2 DEF StockInv, InventoryTypeOK
<1>4. RowsStay'
  <2>1. \A g \in Handlers : work'[g] = work[g] \/ work'[g].read = stock
    BY <1>1, <1>2 DEF StockInv, InventoryTypeOK
  <2> QED BY <1>1, <2>1 DEF StockInv, RowsStay
<1> QED BY <1>1, <1>3, <1>4 DEF StockInv, Conserved

LEMMA SaveReservationKeeps ==
    ASSUME StockInv, NEW h \in Handlers, SaveReservation(h) PROVE StockInv'
<1> DEFINE w == work[h]
           need(p) == Lines[w.order][p]
<1>1. w \in Work /\ work' = [work EXCEPT ![h] = None] /\ UNCHANGED <<put, set>>
  BY DEF SaveReservation, StockInv, InventoryTypeOK
<1>2. w.order \in Orders /\ \A p \in Products : w.read[p] \in Nat \cup {NoRow} /\ need(p) \in Nat
  BY <1>1, WorkFields
<1>3. CASE UNCHANGED <<stock, taken, stale>>
  <2>1. reservation' \in [Orders -> {"None", "Reserved", "Rejected"}]
    BY <1>2 DEF SaveReservation, StockInv, InventoryTypeOK
  <2> QED BY <1>1, <1>3, <2>1 DEF StockInv, InventoryTypeOK, RowsStay, Conserved
<1>4. CASE ~UNCHANGED <<stock, taken, stale>>
  <2>1. /\ ~Shortage(w) /\ reservation' = [reservation EXCEPT ![w.order] = "Reserved"]
        /\ stock' = [p \in Products |-> IF p \in Needed(w) THEN w.read[p] - need(p) ELSE stock[p]]
        /\ stale' = stale \cup {p \in Needed(w) : w.read[p] # stock[p]}
        /\ taken' = [p \in Products |-> taken[p] + need(p)]
    BY <1>4 DEF SaveReservation
  <2>2. \A p \in Needed(w) : p \in Products /\ need(p) > 0 /\ w.read[p] >= need(p)
    BY <1>2, <2>1 DEF Shortage, Needed, NoRow
  <2>3. \A p \in Products \ Needed(w) : need(p) = 0
    BY <1>2 DEF Needed
  <2>4. \A p \in Needed(w) : w.read[p] - need(p) \in Nat /\ w.read[p] # NoRow
    BY <1>2, <2>2 DEF NoRow
  <2> HIDE DEF w, need
  <2>5. \A p \in Needed(w) : stock[p] # NoRow
    BY <1>1, <2>2, <2>4 DEF StockInv, RowsStay, w, None, Work
  <2>6. ASSUME NEW p \in Products
        PROVE  stock'[p] \in Quantity /\ taken'[p] \in Nat /\ (stock'[p] = NoRow <=> stock[p] = NoRow)
    <3>1. CASE p \in Needed(w)
      BY <1>2, <2>1, <2>4, <2>5, <3>1 DEF StockInv, InventoryTypeOK, Quantity, NoRow
    <3>2. CASE p \notin Needed(w)
      BY <1>2, <2>1, <3>2 DEF StockInv, InventoryTypeOK
    <3> QED BY <3>1, <3>2
  <2>7. InventoryTypeOK'
    <3>1. stock' \in [Products -> Quantity] /\ taken' \in [Products -> Nat]
      BY <2>1, <2>6
    <3>2. stale' \subseteq Products /\ reservation' \in [Orders -> {"None", "Reserved", "Rejected"}]
      BY <1>2, <2>1, <2>2 DEF StockInv, InventoryTypeOK
    <3> QED BY <1>1, <2>6, <3>1, <3>2 DEF StockInv, InventoryTypeOK
  <2>8. RowsStay'
    <3>1. \A g \in Handlers : work'[g] # None => work'[g] = work[g]
      BY <1>1 DEF StockInv, InventoryTypeOK
    <3>2. \A r \in Requests : put[r] \notin {None, Done} => put[r].product \in Products
      BY PutFields DEF StockInv, InventoryTypeOK
    <3> QED BY <1>1, <2>6, <3>1, <3>2 DEF StockInv, RowsStay
  <2>9. ASSUME NEW p \in Products \ stale', set[p] # NoRow PROVE stock'[p] + taken'[p] = set[p]
    <3>1. p \notin stale /\ (p \in Needed(w) => w.read[p] = stock[p])
      BY <2>1, <2>9
    <3>2. stock[p] + taken[p] = set[p]
      BY <2>9, <3>1 DEF StockInv, Conserved
    <3>3. stock[p] \in Nat \cup {NoRow} /\ taken[p] \in Nat
      BY DEF StockInv, InventoryTypeOK, Quantity
    <3>4. stock'[p] = stock[p] - need(p) /\ taken'[p] = taken[p] + need(p)
      BY <1>2, <2>1, <2>3, <3>1, <3>3 DEF NoRow
    <3> QED BY <1>2, <3>2, <3>3, <3>4 DEF NoRow
  <2> QED BY <1>1, <2>7, <2>8, <2>9 DEF StockInv, Conserved
<1> QED BY <1>3, <1>4

LEMMA ReadItemKeeps ==
    ASSUME StockInv, NEW r \in Requests, NEW p \in Products, NEW level \in Levels, ReadItem(r, p, level)
    PROVE  StockInv'
<1> DEFINE q == [product |-> p, level |-> level, read |-> stock[p]]
<1>1. put' = [put EXCEPT ![r] = q] /\ UNCHANGED <<stock, reservation, work, set, taken, stale>>
  BY DEF ReadItem, ghosts
<1>2. q \in Put /\ q.product = p /\ q.read = stock[p]
  BY DEF StockInv, InventoryTypeOK, Put
<1> HIDE DEF q
<1>3. InventoryTypeOK'
  BY <1>1, <1>2 DEF StockInv, InventoryTypeOK
<1>4. RowsStay'
  <2>1. \A s \in Requests : put'[s] = put[s] \/ put'[s].read = stock[put'[s].product]
    BY <1>1, <1>2 DEF StockInv, InventoryTypeOK
  <2> QED BY <1>1, <2>1 DEF StockInv, RowsStay
<1> QED BY <1>1, <1>3, <1>4 DEF StockInv, Conserved

LEMMA SaveItemKeeps ==
    ASSUME StockInv, NEW r \in Requests, SaveItem(r) PROVE StockInv'
<1> DEFINE q == put[r]
<1>1. /\ q \in Put /\ q \notin {None, Done}
      /\ put' = [put EXCEPT ![r] = Done] /\ UNCHANGED <<reservation, work>>
  BY DEF SaveItem, StockInv, InventoryTypeOK
<1>2. q.product \in Products /\ q.level \in Nat /\ q.level # NoRow /\ q.read \in Nat \cup {NoRow}
  BY <1>1, PutFields
<1>3. \A s \in Requests : put'[s] \notin {None, Done} => put'[s] = put[s]
  BY <1>1 DEF StockInv, InventoryTypeOK
<1>4. CASE UNCHANGED <<stock, ghosts>>
  BY <1>1, <1>3, <1>4 DEF ghosts, StockInv, InventoryTypeOK, RowsStay, Conserved
<1>5. CASE ~UNCHANGED <<stock, ghosts>>
  <2> DEFINE t == q.product
  <2>1. /\ stock' = [stock EXCEPT ![t] = IF q.read = q.level THEN @ ELSE q.level]
        /\ stale' = IF q.read = q.level /\ stock[t] # q.level THEN stale \cup {t} ELSE stale \ {t}
        /\ set' = [set EXCEPT ![t] = q.level] /\ taken' = [taken EXCEPT ![t] = 0]
    BY <1>5 DEF SaveItem
  <2>2. q.read # NoRow => stock[t] # NoRow
    BY <1>1 DEF StockInv, RowsStay
  <2> HIDE DEF t, q
  <2>3. /\ stock'[t] = IF q.read = q.level THEN stock[t] ELSE q.level
        /\ \A p \in Products \ {t} : stock'[p] = stock[p] /\ set'[p] = set[p] /\ taken'[p] = taken[p]
        /\ set'[t] = q.level /\ taken'[t] = 0 /\ t \in Products
    BY <1>2, <2>1 DEF StockInv, InventoryTypeOK, t
  <2>4. stock'[t] # NoRow /\ stock'[t] \in Quantity
    BY <1>2, <2>2, <2>3 DEF StockInv, InventoryTypeOK, Quantity
  <2>5. InventoryTypeOK'
    <3>1. \A p \in Products : stock'[p] = NoRow => set'[p] = NoRow
      BY <2>3, <2>4 DEF StockInv, InventoryTypeOK
    <3>2. stock' \in [Products -> Quantity] /\ set' \in [Products -> Quantity] /\ taken' \in [Products -> Nat]
      BY <1>2, <2>1, <2>3, <2>4 DEF StockInv, InventoryTypeOK, Quantity
    <3>3. stale' \subseteq Products /\ put' \in [Requests -> Put \cup {None, Done}]
      BY <1>1, <2>1, <2>3 DEF StockInv, InventoryTypeOK
    <3> QED BY <1>1, <3>1, <3>2, <3>3 DEF StockInv, InventoryTypeOK
  <2>6. RowsStay'
    <3>1. \A p \in Products : stock[p] # NoRow => stock'[p] # NoRow
      BY <2>3, <2>4
    <3>2. \A s \in Requests : put[s] \notin {None, Done} => put[s].product \in Products
      BY PutFields DEF StockInv, InventoryTypeOK
    <3> QED BY <1>1, <1>3, <3>1, <3>2 DEF StockInv, RowsStay
  <2>7. ASSUME NEW p \in Products \ stale', set'[p] # NoRow PROVE stock'[p] + taken'[p] = set'[p]
    <3>1. CASE p = t
      BY <1>2, <2>1, <2>3, <2>7, <3>1
    <3>2. CASE p # t
      BY <2>1, <2>3, <2>7, <3>2 DEF StockInv, Conserved
    <3> QED BY <3>1, <3>2
  <2> QED BY <2>5, <2>6, <2>7 DEF StockInv, Conserved
<1> QED BY <1>4, <1>5

LEMMA StockInvHolds == InventorySpec => []StockInv
<1>1. InventoryInit => StockInv
  <2> SUFFICES ASSUME InventoryInit PROVE StockInv
    OBVIOUS
  <2>1. InventoryTypeOK /\ RowsStay
    BY InventoryAssumption DEF InventoryInit, InventoryTypeOK, RowsStay, Quantity
  <2>2. Conserved
    BY InventoryAssumption DEF InventoryInit, Conserved, NoRow
  <2> QED BY <2>1, <2>2 DEF StockInv
<1>2. StockInv /\ [InventoryNext]_inventoryVars => StockInv'
  <2>1. StockInv /\ UNCHANGED inventoryVars => StockInv'
    BY DEF inventoryVars, ghosts, StockInv, InventoryTypeOK, RowsStay, Conserved
  <2> QED
    BY <2>1, ReadStockKeeps, SaveReservationKeeps, ReadItemKeeps, SaveItemKeeps
    DEF InventoryNext
<1> QED BY <1>1, <1>2, PTL DEF InventorySpec

(***************************************************************************)
(* For any number of handlers and requests pieces appear or disappear only *)
(* where a save went over a change made since its read, and no quantity is *)
(* ever negative.                                                          *)
(***************************************************************************)
THEOREM StockIsConservedUnlessStale == InventorySpec => []ConservedUnlessStale
<1>1. StockInv => ConservedUnlessStale
  BY DEF StockInv, Conserved, ConservedUnlessStale
<1> QED BY <1>1, StockInvHolds, PTL

(***************************************************************************)
(* However many handlers have read the event before one of them saves, the *)
(* first decision stands and only it takes stock: the unique index on the  *)
(* order's reservation fails every later save as a whole.                  *)
(***************************************************************************)
THEOREM DecisionsStand == InventorySpec => ReservationIsFinal
<1> DEFINE Final(o) ==
        reservation[o] # "None" =>
            /\ reservation'[o] = reservation[o]
            /\ \A h \in Handlers : work[h] # None /\ work[h].order = o /\ work'[h] = None => stock' = stock
<1>1. StockInv /\ [InventoryNext]_inventoryVars => [\A o \in Orders : Final(o)]_inventoryVars
  <2> SUFFICES ASSUME StockInv, InventoryNext, NEW o \in Orders, reservation[o] # "None"
               PROVE  Final(o)
    OBVIOUS
  <2>0. /\ reservation \in [Orders -> {"None", "Reserved", "Rejected"}]
        /\ work \in [Handlers -> Work \cup {None}]
    BY DEF StockInv, InventoryTypeOK
  <2>1. ASSUME NEW g \in Handlers, NEW x \in Orders, ReadStock(g, x) PROVE Final(o)
    BY <2>1 DEF ReadStock
  <2>2. ASSUME NEW g \in Handlers, SaveReservation(g) PROVE Final(o)
    <3>1. work[g] \in Work /\ work[g].order \in Orders
      BY <2>0, <2>2, WorkFields DEF SaveReservation
    <3>2. CASE work[g].order = o
      BY <2>2, <3>2 DEF SaveReservation
    <3>3. CASE work[g].order # o
      <4>1. reservation'[o] = reservation[o]
        BY <2>0, <2>2, <3>1, <3>3 DEF SaveReservation
      <4>2. \A h \in Handlers : work[h].order = o => work'[h] = work[h]
        BY <2>0, <2>2, <3>3 DEF SaveReservation
      <4> QED BY <4>1, <4>2
    <3> QED BY <3>2, <3>3
  <2>3. ASSUME UNCHANGED <<reservation, work>> PROVE Final(o)
    BY <2>3
  <2> HIDE DEF Final
  <2> QED BY <2>1, <2>2, <2>3 DEF InventoryNext, ReadItem, SaveItem
<1> QED BY <1>1, StockInvHolds, PTL DEF InventorySpec, ReservationIsFinal
-----------------------------------------------------------------------------
(* The administration page: the types, in parts. *)
SaveCall == {Idle} \cup [op : {"save"}, kind : Kinds, id : {0} \cup Ids,
                         value : Values, reply : Replies]
DeleteCall == {Idle} \cup [op : {"delete"}, kind : Kinds, id : Ids, reply : Replies]
LoadCall   == {Idle} \cup [op : {"load"}, list : Table, reply : Replies]

ServicesOK == rows \in [Kinds -> Table] /\ nextId \in [Kinds -> 1 .. MaxId + 1]
ScreenOK ==
    /\ listed \in [Kinds -> Table] /\ view \in [loading : BOOLEAN, failed : BOOLEAN]
    /\ form \in [Kinds -> [id : {0} \cup Ids, value : Values \cup {Incomplete}]]
    /\ prompt \in {NoPrompt} \cup [kind : Kinds, id : Ids]
RequestsOK == save \in SaveCall /\ deletion \in DeleteCall /\ load \in [Loads -> [Kinds -> LoadCall]]
VisitOK ==
    /\ draft \in [Kinds -> {"none", "sent", "accepted", "retyped"}]
    /\ clicks \in 0 .. MaxClicks
    /\ disturbed \subseteq {"error", "failure", "elsewhere", "overlap"}

Typed == ServicesOK /\ ScreenOK /\ RequestsOK /\ VisitOK

LEMMA TypedIsType == Typed => AdminTypeOK
BY DEF Typed, ServicesOK, ScreenOK, RequestsOK, VisitOK, AdminTypeOK, SaveCall, DeleteCall,
   LoadCall

LEMMA IdsAreNumbers == Ids \subseteq Nat \ {0} /\ MaxId \in Nat /\ MaxId > 0 /\ MaxClicks \in Nat
BY AdminAssumption DEF Ids

(* A request stays one of its kind when it is answered. *)
LEMMA SaveReply ==
  ASSUME NEW c \in SaveCall, InFlight(c), NEW r \in Replies
  PROVE  /\ [c EXCEPT !.reply = r] \in SaveCall /\ InFlight([c EXCEPT !.reply = r])
         /\ [c EXCEPT !.reply = r].reply = r /\ [c EXCEPT !.reply = r].kind = c.kind
         /\ c.kind \in Kinds /\ c.id \in {0} \cup Ids /\ c.value \in Values
BY DEF SaveCall, InFlight, Idle

LEMMA DeleteReply ==
  ASSUME NEW c \in DeleteCall, InFlight(c), NEW r \in Replies
  PROVE  /\ [c EXCEPT !.reply = r] \in DeleteCall /\ InFlight([c EXCEPT !.reply = r])
         /\ [c EXCEPT !.reply = r].reply = r
         /\ c.kind \in Kinds /\ c.id \in Ids
BY DEF DeleteCall, InFlight, Idle

LEMMA LoadReply ==
  ASSUME NEW c \in LoadCall, InFlight(c), NEW r \in Replies
  PROVE  /\ [c EXCEPT !.reply = r] \in LoadCall /\ InFlight([c EXCEPT !.reply = r])
         /\ [c EXCEPT !.reply = r].reply = r /\ [c EXCEPT !.reply = r].list = c.list
         /\ c.list \in Table
BY DEF LoadCall, InFlight, Idle

LEMMA LoadServed ==
  ASSUME NEW t \in Table
  PROVE  LET c == [op |-> "load", list |-> t, reply |-> "success"]
         IN  c \in LoadCall /\ InFlight(c) /\ c.reply = "success" /\ c.list = t
BY DEF LoadCall, InFlight, Idle, Replies

LEMMA NoRowsIsTable == NoRows \in Table
BY DEF NoRows, Table

LEMMA AskedIsLoad ==
  /\ Asked \in [Kinds -> LoadCall]
  /\ \A k \in Kinds : InFlight(Asked[k]) /\ Asked[k].reply = "awaited"
<1>1. [op |-> "load", list |-> NoRows, reply |-> "awaited"] \in LoadCall
      /\ InFlight([op |-> "load", list |-> NoRows, reply |-> "awaited"])
  BY NoRowsIsTable DEF LoadCall, InFlight, Idle, Replies
<1> QED
  BY <1>1 DEF Asked

LEMMA IdleIsNoRequest == Idle \in SaveCall /\ Idle \in DeleteCall /\ Idle \in LoadCall /\ ~InFlight(Idle)
BY DEF SaveCall, DeleteCall, LoadCall, InFlight

LEMMA ViewsAre ==
  ASSUME NEW a \in BOOLEAN, NEW b \in BOOLEAN
  PROVE  LET v == [loading |-> a, failed |-> b]
         IN  v \in [loading : BOOLEAN, failed : BOOLEAN] /\ v.loading = a /\ v.failed = b
OBVIOUS

LEMMA PutsOne ==
  ASSUME rows \in [Kinds -> Table], NEW k \in Kinds, NEW i \in Ids, NEW v \in Values \cup {Absent},
         SetRow(k, i, v)
  PROVE  rows' \in [Kinds -> Table]
BY DEF SetRow, Table

(* load() takes a slot of its own. *)
LEMMA RefreshTakesSlot ==
  ASSUME load \in [Loads -> [Kinds -> LoadCall]], Refresh
  PROVE  /\ load' \in [Loads -> [Kinds -> LoadCall]]
         /\ view' \in [loading : BOOLEAN, failed : BOOLEAN] /\ view'.loading /\ ~view'.failed
         /\ disturbed \subseteq disturbed' /\ disturbed' \subseteq disturbed \cup {"overlap"}
         /\ \E l \in Loads : /\ load'[l] = Asked
                             /\ \A m \in Loads : m # l => load'[m] = load[m]
         /\ "overlap" \notin disturbed' => \A m \in Loads : ~Loading(m)
<1> DEFINE l == CHOOSE l \in FreeSlots : TRUE
<1>1. l \in FreeSlots /\ FreeSlots \subseteq Loads
  BY DEF Refresh, FreeSlots
<1>2. load' = [load EXCEPT ![l] = Asked] /\ view' = [loading |-> TRUE, failed |-> FALSE]
  BY DEF Refresh
<1>3. FreeSlots # Loads => disturbed' = disturbed \cup {"overlap"}
  BY DEF Refresh
<1>4. FreeSlots = Loads => disturbed' = disturbed
  BY DEF Refresh
<1>5. FreeSlots = Loads => \A m \in Loads : ~Loading(m)
  BY DEF FreeSlots
<1>6. view' \in [loading : BOOLEAN, failed : BOOLEAN] /\ view'.loading /\ ~view'.failed
  BY <1>2, ViewsAre
<1> HIDE DEF l
<1> QED
  BY <1>1, <1>2, <1>3, <1>4, <1>5, <1>6, AskedIsLoad

LEMMA FormsAre == NewForm.value = Incomplete /\ NewForm \in [id : {0} \cup Ids, value : Values \cup {Incomplete}]
BY DEF NewForm

LEMMA StepKeepsTyped ==
  ASSUME Typed, [AdminNext]_adminVars
  PROVE  Typed'
<1> USE IdsAreNumbers DEF Typed, ServicesOK, ScreenOK, RequestsOK, VisitOK
<1>1. ASSUME NEW k \in Kinds, NewRow(k)
      PROVE  Typed'
  <2>1. ServicesOK'
    BY <1>1 DEF NewRow, ClickOnForm, Click, services
  <2>2. ScreenOK'
    BY <1>1, FormsAre DEF NewRow, Retype, Click, ClickOnForm, NoRefresh
  <2>3. RequestsOK'
    BY <1>1 DEF NewRow, Retype, Click, ClickOnForm, NoRefresh
  <2>4. VisitOK'
    BY <1>1 DEF NewRow, Retype, Click, ClickOnForm, NoRefresh
  <2> QED
    BY <2>1, <2>2, <2>3, <2>4
<1>2. ASSUME NEW k \in Kinds, Save(k)
      PROVE  Typed'
  <2>1. ServicesOK'
    BY <1>2 DEF Save, ClickOnForm, Click, services
  <2>2. ScreenOK'
    BY <1>2 DEF Save, Click, ClickOnForm, NoRefresh
  <2>3. RequestsOK'
    <3>1. form[k].id \in {0} \cup Ids /\ form[k].value \in Values
      BY <1>2 DEF Save, Submittable
    <3> QED
      BY <1>2, <3>1 DEF Save, ClickOnForm, NoRefresh, SaveCall, Replies
  <2>4. VisitOK'
    BY <1>2 DEF Save, Click, ClickOnForm, NoRefresh
  <2> QED
    BY <2>1, <2>2, <2>3, <2>4
<1>3. ASSUME NEW k \in Kinds, NEW v \in Values \cup {Incomplete}, Type(k, v)
      PROVE  Typed'
  <2>1. ServicesOK'
    BY <1>3 DEF Type, ClickOnForm, Click, services
  <2>2. ScreenOK'
    BY <1>3 DEF Type, Retype, Click, ClickOnForm, NoRefresh
  <2>3. RequestsOK'
    BY <1>3 DEF Type, Retype, Click, ClickOnForm, NoRefresh
  <2>4. VisitOK'
    BY <1>3 DEF Type, Retype, Click, ClickOnForm, NoRefresh
  <2> QED
    BY <2>1, <2>2, <2>3, <2>4
<1>4. ASSUME NEW k \in Kinds, NEW i \in Ids, EditRow(k, i)
      PROVE  Typed'
  <2>1. ServicesOK'
    BY <1>4 DEF EditRow, ClickOnForm, Click, services
  <2>2. ScreenOK'
    BY <1>4 DEF EditRow, Retype, Buttons, Table, Click, ClickOnForm, NoRefresh
  <2>3. RequestsOK'
    BY <1>4 DEF EditRow, Retype, Click, ClickOnForm, NoRefresh
  <2>4. VisitOK'
    BY <1>4 DEF EditRow, Retype, Click, ClickOnForm, NoRefresh
  <2> QED
    BY <2>1, <2>2, <2>3, <2>4
<1>5. ASSUME NEW k \in Kinds, NEW i \in Ids, RequestDelete(k, i)
      PROVE  Typed'
  <2>1. ServicesOK'
    BY <1>5 DEF RequestDelete, ClickOnPrompt, Click, services
  <2>2. ScreenOK'
    BY <1>5 DEF RequestDelete, Click, ClickOnPrompt, NoRefresh
  <2>3. RequestsOK'
    BY <1>5 DEF RequestDelete, Click, ClickOnPrompt, NoRefresh
  <2>4. VisitOK'
    BY <1>5 DEF RequestDelete, Click, ClickOnPrompt, NoRefresh
  <2> QED
    BY <2>1, <2>2, <2>3, <2>4
<1>6. ASSUME KeepIt
      PROVE  Typed'
  <2>1. ServicesOK'
    BY <1>6 DEF KeepIt, ClickOnPrompt, Click, services
  <2>2. ScreenOK'
    BY <1>6 DEF KeepIt, Click, ClickOnPrompt, NoRefresh
  <2>3. RequestsOK'
    BY <1>6 DEF KeepIt, Click, ClickOnPrompt, NoRefresh
  <2>4. VisitOK'
    BY <1>6 DEF KeepIt, Click, ClickOnPrompt, NoRefresh
  <2> QED
    BY <2>1, <2>2, <2>3, <2>4
<1>7. ASSUME ConfirmDelete
      PROVE  Typed'
  <2>1. ServicesOK'
    BY <1>7 DEF ConfirmDelete, ClickOnPrompt, Click, services
  <2>2. ScreenOK'
    BY <1>7 DEF ConfirmDelete, Click, ClickOnPrompt, NoRefresh
  <2>3. RequestsOK'
    BY <1>7 DEF ConfirmDelete, Click, ClickOnPrompt, NoRefresh, DeleteCall, Replies, NoPrompt
  <2>4. VisitOK'
    BY <1>7 DEF ConfirmDelete, Click, ClickOnPrompt, NoRefresh
  <2> QED
    BY <2>1, <2>2, <2>3, <2>4
<1>8. ASSUME TryAgain
      PROVE  Typed'
  <2>1. ServicesOK'
    BY <1>8 DEF TryAgain, Click, services
  <2>2. ScreenOK'
    BY <1>8, RefreshTakesSlot DEF TryAgain, Click
  <2>3. RequestsOK'
    BY <1>8, RefreshTakesSlot DEF TryAgain, Click
  <2>4. VisitOK'
    <3>1. Refresh /\ clicks' \in 0 .. MaxClicks /\ UNCHANGED draft
      BY <1>8 DEF TryAgain, Click
    <3> QED
      BY <3>1, RefreshTakesSlot
  <2> QED
    BY <2>1, <2>2, <2>3, <2>4
<1>9. ASSUME LoseReply
      PROVE  Typed'
  <2>1. ServicesOK'
    BY <1>9 DEF LoseReply, services
  <2>2. ScreenOK'
    BY <1>9 DEF LoseReply, screen
  <2>3. RequestsOK'
    <3>1. \A r \in {"failure", "error"} : r \in Replies
      BY DEF Replies
    <3>2. save' \in SaveCall
      BY <1>9, <3>1, SaveReply DEF LoseReply
    <3>3. deletion' \in DeleteCall
      BY <1>9, <3>1, DeleteReply DEF LoseReply
    <3>4. load' \in [Loads -> [Kinds -> LoadCall]]
      <4>1. ASSUME NEW l \in Loads, NEW k \in Kinds, NEW r \in {"failure", "error"}, InFlight(load[l][k]),
                   load' = [load EXCEPT ![l][k] = [load[l][k] EXCEPT !.reply = r]]
            PROVE  load' \in [Loads -> [Kinds -> LoadCall]]
        <5>1. [load[l][k] EXCEPT !.reply = r] \in LoadCall
          BY <3>1, <4>1, LoadReply
        <5> QED
          BY <4>1, <5>1
      <4>2. UNCHANGED load => load' \in [Loads -> [Kinds -> LoadCall]]
        OBVIOUS
      <4> QED
        BY <1>9, <4>1, <4>2 DEF LoseReply
    <3> QED
      BY <3>2, <3>3, <3>4
  <2>4. VisitOK'
    BY <1>9 DEF LoseReply
  <2> QED
    BY <2>1, <2>2, <2>3, <2>4
<1>10. ASSUME Elsewhere
      PROVE  Typed'
  <2>1. ServicesOK'
    BY <1>10, PutsOne DEF Elsewhere
  <2>2. ScreenOK'
    BY <1>10 DEF Elsewhere, screen
  <2>3. RequestsOK'
    BY <1>10 DEF Elsewhere, calls
  <2>4. VisitOK'
    BY <1>10 DEF Elsewhere
  <2> QED
    BY <2>1, <2>2, <2>3, <2>4
<1>11. ASSUME ServeSave
      PROVE  Typed'
  <2>1. ServicesOK'
    <3>1. save.kind \in Kinds /\ save.id \in {0} \cup Ids /\ save.value \in Values
      BY <1>11, SaveReply DEF ServeSave, Awaited, Replies
    <3>2. CASE /\ save.id = 0 /\ nextId[save.kind] <= MaxId
               /\ SetRow(save.kind, nextId[save.kind], save.value)
               /\ nextId' = [nextId EXCEPT ![save.kind] = @ + 1]
      <4>1. nextId[save.kind] \in Ids /\ nextId[save.kind] + 1 \in 1 .. MaxId + 1
        BY <3>1, <3>2, IdsAreNumbers DEF Ids
      <4> QED
        BY <3>1, <3>2, <4>1, PutsOne
    <3>3. CASE /\ save.id # 0 /\ SetRow(save.kind, save.id, save.value) /\ UNCHANGED nextId
      BY <3>1, <3>3, PutsOne
    <3>4. CASE UNCHANGED services
      BY <3>4 DEF services
    <3> QED
      BY <1>11, <3>2, <3>3, <3>4 DEF ServeSave
  <2>2. ScreenOK'
    BY <1>11 DEF ServeSave, Behind, screen
  <2>3. RequestsOK'
    <3>1. \A r \in {"success", "failure"} : r \in Replies
      BY DEF Replies
    <3>2. InFlight(save)
      BY <1>11 DEF ServeSave, Awaited
    <3>3. [save EXCEPT !.reply = "success"] \in SaveCall /\ [save EXCEPT !.reply = "failure"] \in SaveCall
      BY <3>1, <3>2, SaveReply
    <3>4. save' \in SaveCall
      BY <1>11, <3>3 DEF ServeSave
    <3> QED
      BY <1>11, <3>4 DEF ServeSave
  <2>4. VisitOK'
    BY <1>11 DEF ServeSave, Behind
  <2> QED
    BY <2>1, <2>2, <2>3, <2>4
<1>12. ASSUME AnswerSave
      PROVE  Typed'
  <2>1. ServicesOK'
    BY <1>12 DEF AnswerSave, services
  <2>2. ScreenOK'
    <3>1. save.kind \in Kinds
      BY <1>12, SaveReply DEF AnswerSave, Replied, Replies
    <3>2. form' \in [Kinds -> [id : {0} \cup Ids, value : Values \cup {Incomplete}]]
      BY <1>12, <3>1, FormsAre DEF AnswerSave
    <3>3. view' \in [loading : BOOLEAN, failed : BOOLEAN]
      BY <1>12, RefreshTakesSlot DEF AnswerSave, NoRefresh
    <3> QED
      BY <1>12, <3>2, <3>3 DEF AnswerSave
  <2>3. RequestsOK'
    BY <1>12, RefreshTakesSlot, IdleIsNoRequest DEF AnswerSave, NoRefresh
  <2>4. VisitOK'
    BY <1>12, RefreshTakesSlot DEF AnswerSave, NoRefresh
  <2> QED
    BY <2>1, <2>2, <2>3, <2>4
<1>13. ASSUME ServeDelete
      PROVE  Typed'
  <2>1. ServicesOK'
    <3>1. deletion.kind \in Kinds /\ deletion.id \in Ids
      BY <1>13, DeleteReply DEF ServeDelete, Awaited, Replies
    <3>2. rows' \in [Kinds -> Table]
      BY <1>13, <3>1, PutsOne DEF ServeDelete
    <3> QED
      BY <1>13, <3>2 DEF ServeDelete
  <2>2. ScreenOK'
    BY <1>13 DEF ServeDelete, Behind, screen
  <2>3. RequestsOK'
    <3>1. \A r \in {"success", "failure"} : r \in Replies
      BY DEF Replies
    <3>2. InFlight(deletion)
      BY <1>13 DEF ServeDelete, Awaited
    <3>3. deletion' \in DeleteCall
      BY <1>13, <3>1, <3>2, DeleteReply DEF ServeDelete
    <3> QED
      BY <1>13, <3>3 DEF ServeDelete
  <2>4. VisitOK'
    BY <1>13 DEF ServeDelete, Behind
  <2> QED
    BY <2>1, <2>2, <2>3, <2>4
<1>14. ASSUME AnswerDelete
      PROVE  Typed'
  <2>1. ServicesOK'
    BY <1>14 DEF AnswerDelete, services
  <2>2. ScreenOK'
    <3>1. view' \in [loading : BOOLEAN, failed : BOOLEAN]
      BY <1>14, RefreshTakesSlot DEF AnswerDelete, NoRefresh
    <3>2. prompt' \in {NoPrompt, prompt}
      BY <1>14 DEF AnswerDelete
    <3> QED
      BY <1>14, <3>1, <3>2 DEF AnswerDelete
  <2>3. RequestsOK'
    BY <1>14, RefreshTakesSlot, IdleIsNoRequest DEF AnswerDelete, NoRefresh
  <2>4. VisitOK'
    BY <1>14, RefreshTakesSlot DEF AnswerDelete, NoRefresh
  <2> QED
    BY <2>1, <2>2, <2>3, <2>4
<1>15. ASSUME NEW l \in Loads, NEW k \in Kinds, ServeLoad(l, k)
      PROVE  Typed'
  <2>1. ServicesOK'
    BY <1>15 DEF ServeLoad, services
  <2>2. ScreenOK'
    BY <1>15 DEF ServeLoad, Behind, screen
  <2>3. RequestsOK'
    BY <1>15, LoadServed DEF ServeLoad
  <2>4. VisitOK'
    BY <1>15 DEF ServeLoad, Behind
  <2> QED
    BY <2>1, <2>2, <2>3, <2>4
<1>16. ASSUME NEW l \in Loads, NEW k \in Kinds, AnswerLoad(l, k)
      PROVE  Typed'
  <2>1. ServicesOK'
    BY <1>16 DEF AnswerLoad, services
  <2>2. ScreenOK'
    <3> DEFINE loading == view.loading /\ Loading(l)'
               failed == view.failed \/ load[l][k].reply = "error"
    <3>1. loading \in BOOLEAN /\ failed \in BOOLEAN
      OBVIOUS
    <3>2. view' = [loading |-> loading, failed |-> failed] /\ UNCHANGED <<form, prompt>>
      BY <1>16 DEF AnswerLoad
    <3> HIDE DEF loading, failed
    <3>3. view' \in [loading : BOOLEAN, failed : BOOLEAN]
      BY <3>1, <3>2, ViewsAre
    <3>4. load[l][k] \in LoadCall /\ InFlight(load[l][k])
      BY <1>16 DEF AnswerLoad, Replied
    <3>5. load[l][k].list \in Table
      BY <3>4, LoadReply DEF Replies
    <3>6. listed' \in [Kinds -> Table]
      BY <1>16, <3>5 DEF AnswerLoad
    <3> QED
      BY <3>2, <3>3, <3>6
  <2>3. RequestsOK'
    BY <1>16, IdleIsNoRequest DEF AnswerLoad
  <2>4. VisitOK'
    BY <1>16 DEF AnswerLoad
  <2> QED
    BY <2>1, <2>2, <2>3, <2>4
<1>17. ASSUME UNCHANGED adminVars
      PROVE  Typed'
  <2>1. ServicesOK'
    BY <1>17 DEF adminVars, services
  <2>2. ScreenOK'
    BY <1>17 DEF adminVars, screen
  <2>3. RequestsOK'
    BY <1>17 DEF adminVars, calls
  <2>4. VisitOK'
    BY <1>17 DEF adminVars
  <2> QED
    BY <2>1, <2>2, <2>3, <2>4
<1> QED
  BY <1>1, <1>2, <1>3, <1>4, <1>5, <1>6, <1>7, <1>8, <1>9, <1>10, <1>11, <1>12, <1>13,
     <1>14, <1>15, <1>16, <1>17
  DEF AdminNext, Visit, SaveStep, DeleteStep, LoadStep

-----------------------------------------------------------------------------
(* A skeleton is shown for a request, and an error for a lost reply. *)
SkeletonHasLoad == view.loading => \E l \in Loads : Loading(l)
FailureHasCause ==
    /\ view.failed => "error" \in disturbed
    /\ \A l \in Loads, k \in Kinds :
           InFlight(load[l][k]) /\ load[l][k].reply = "error" => "error" \in disturbed

Calm == disturbed \subseteq {"error"}

LoadsApart == Calm => \A l, m \in Loads : Loading(l) /\ Loading(m) => l = m

(* A row was changed, and the answer that asks for the lists is to come. *)
Due == \/ Replied(save) /\ save.reply = "success"
       \/ Replied(deletion) /\ deletion.reply = "success"

(* Otherwise each list is, or will be, the one of its service. *)
ListsAreFresh ==
    Calm /\ ~Due /\ ~view.failed =>
        \A k \in Kinds :
            /\ \A l \in Loads : Replied(load[l][k]) /\ load[l][k].reply # "error" =>
                                    load[l][k].list = rows[k]
            /\ (\A l \in Loads : ~InFlight(load[l][k])) => listed[k] = rows[k]

PageInv == SkeletonHasLoad /\ FailureHasCause /\ LoadsApart /\ ListsAreFresh

LEMMA PageStays ==
  ASSUME PageInv, UNCHANGED <<listed, view, load>>, disturbed \subseteq disturbed',
         Calm' /\ ~Due' => ~Due /\ rows' = rows
  PROVE  PageInv'
<1>1. SkeletonHasLoad'
  BY DEF PageInv, SkeletonHasLoad, Loading
<1>2. FailureHasCause'
  BY DEF PageInv, FailureHasCause
<1>3. LoadsApart'
  BY DEF PageInv, LoadsApart, Loading, Calm
<1>4. ListsAreFresh'
  BY DEF PageInv, ListsAreFresh, Calm
<1> QED
  BY <1>1, <1>2, <1>3, <1>4 DEF PageInv

LEMMA PageIsRefreshed ==
  ASSUME Typed, PageInv, Refresh, UNCHANGED <<rows, listed>>
  PROVE  PageInv'
<1>1. PICK l \in Loads : load'[l] = Asked /\ \A m \in Loads : m # l => load'[m] = load[m]
  BY RefreshTakesSlot DEF Typed, RequestsOK
<1>2. /\ view'.loading /\ ~view'.failed /\ disturbed \subseteq disturbed'
      /\ "overlap" \notin disturbed' => \A m \in Loads : ~Loading(m)
  BY RefreshTakesSlot DEF Typed, RequestsOK
<1>3. \A k \in Kinds : InFlight(load'[l][k]) /\ load'[l][k].reply = "awaited"
  BY <1>1, AskedIsLoad
<1>4. SkeletonHasLoad'
  BY <1>3 DEF SkeletonHasLoad, Loading, Kinds
<1>5. FailureHasCause'
  BY <1>1, <1>2, <1>3 DEF PageInv, FailureHasCause
<1>6. Calm' => \A m \in Loads, k \in Kinds : m # l => ~InFlight(load'[m][k])
  BY <1>1, <1>2 DEF Calm, Loading
<1>7. LoadsApart'
  BY <1>6 DEF LoadsApart, Loading
<1>8. ListsAreFresh'
  BY <1>3, <1>6 DEF ListsAreFresh, Replied
<1> QED
  BY <1>4, <1>5, <1>7, <1>8 DEF PageInv

(* One request for a list is served, lost or answered. *)
LEMMA PageReplied ==
  ASSUME PageInv, Typed, NEW l \in Loads, NEW k \in Kinds, NEW c, InFlight(load[l][k]), InFlight(c),
         load' = [load EXCEPT ![l][k] = c], UNCHANGED <<rows, listed, view, save, deletion>>,
         disturbed \subseteq disturbed',
         c.reply = "error" => "error" \in disturbed',
         Calm' => c.reply = "error" \/ c.list = rows[k]
  PROVE  PageInv'
<1>1. /\ load'[l][k] = c
      /\ \A m \in Loads, j \in Kinds : m # l \/ j # k => load'[m][j] = load[m][j]
  BY DEF Typed, RequestsOK
<1>2. \A m \in Loads, j \in Kinds : InFlight(load'[m][j]) <=> InFlight(load[m][j])
  BY <1>1
<1>3. SkeletonHasLoad'
  BY <1>2 DEF PageInv, SkeletonHasLoad, Loading
<1>4. FailureHasCause'
  BY <1>1 DEF PageInv, FailureHasCause
<1>5. LoadsApart'
  BY <1>2 DEF PageInv, LoadsApart, Loading, Calm
<1>6. Due' = Due
  BY DEF Due, Replied, InFlight
<1>7. ListsAreFresh'
  <2> SUFFICES ASSUME Calm', ~Due', ~view'.failed, NEW j \in Kinds
               PROVE  /\ \A m \in Loads : Replied(load'[m][j]) /\ load'[m][j].reply # "error" =>
                                              load'[m][j].list = rows'[j]
                      /\ (\A m \in Loads : ~InFlight(load'[m][j])) => listed'[j] = rows'[j]
    BY DEF ListsAreFresh, Replied, InFlight
  <2>1. Calm /\ ~Due /\ ~view.failed
    BY <1>6 DEF Calm
  <2> QED
    BY <1>1, <1>2, <2>1 DEF PageInv, ListsAreFresh, Replied
<1> QED
  BY <1>3, <1>4, <1>5, <1>7 DEF PageInv

LEMMA PageAnswered ==
  ASSUME PageInv, Typed, NEW l \in Loads, NEW k \in Kinds, AnswerLoad(l, k)
  PROVE  PageInv'
<1>1. /\ load'[l][k] = Idle /\ InFlight(load[l][k]) /\ Replied(load[l][k])
      /\ \A m \in Loads, j \in Kinds : m # l \/ j # k => load'[m][j] = load[m][j]
      /\ UNCHANGED <<rows, save, deletion, disturbed>>
  BY DEF Typed, RequestsOK, AnswerLoad, Replied, services
<1>2. /\ view'.loading => Loading(l)'
      /\ view'.failed <=> view.failed \/ load[l][k].reply = "error"
  <2> DEFINE loading == view.loading /\ Loading(l)'
             failed == view.failed \/ load[l][k].reply = "error"
  <2>1. loading \in BOOLEAN /\ failed \in BOOLEAN
    OBVIOUS
  <2>2. view' = [loading |-> loading, failed |-> failed] /\ (loading => Loading(l)')
        /\ (failed <=> view.failed \/ load[l][k].reply = "error")
    BY DEF AnswerLoad
  <2> HIDE DEF loading, failed
  <2>3. (view'.loading <=> loading) /\ (view'.failed <=> failed)
    BY <2>1, <2>2, ViewsAre
  <2> QED
    BY <2>2, <2>3
<1>3. SkeletonHasLoad'
  BY <1>2 DEF SkeletonHasLoad
<1>4. FailureHasCause'
  BY <1>1, <1>2, IdleIsNoRequest DEF PageInv, FailureHasCause
<1>5. \A m \in Loads, j \in Kinds : InFlight(load'[m][j]) => InFlight(load[m][j])
  BY <1>1, IdleIsNoRequest
<1>6. LoadsApart'
  BY <1>1, <1>5 DEF PageInv, LoadsApart, Loading, Calm
<1>7. Due' = Due
  BY <1>1 DEF Due, Replied, InFlight
<1>8. ListsAreFresh'
  <2> SUFFICES ASSUME Calm', ~Due', ~view'.failed, NEW j \in Kinds
               PROVE  /\ \A m \in Loads : Replied(load'[m][j]) /\ load'[m][j].reply # "error" =>
                                              load'[m][j].list = rows'[j]
                      /\ (\A m \in Loads : ~InFlight(load'[m][j])) => listed'[j] = rows'[j]
    BY DEF ListsAreFresh, Replied, InFlight
  <2>1. Calm /\ ~Due /\ ~view.failed /\ load[l][k].reply # "error"
    BY <1>1, <1>2, <1>7 DEF Calm
  <2>2. load[l][k].list = rows[k] /\ listed' = [listed EXCEPT ![k] = load[l][k].list]
    BY <1>1, <2>1 DEF PageInv, ListsAreFresh, AnswerLoad
  <2>3. CASE j = k
    <3>1. \A m \in Loads : m # l => ~InFlight(load[m][k])
      BY <1>1, <2>1 DEF PageInv, LoadsApart, Loading
    <3>2. \A m \in Loads : ~InFlight(load'[m][k])
      BY <1>1, <1>5, <3>1, IdleIsNoRequest
    <3> QED
      BY <1>1, <2>2, <2>3, <3>2 DEF Replied, Typed, ScreenOK
  <2>4. CASE j # k
    BY <1>1, <2>1, <2>2, <2>4 DEF PageInv, ListsAreFresh, Typed, ScreenOK
  <2> QED
    BY <2>3, <2>4
<1> QED
  BY <1>3, <1>4, <1>6, <1>8 DEF PageInv

(* The clicks that only fill in the forms or the prompt. *)
LEMMA ClickStays ==
  ASSUME Typed, PageInv, Click, NoRefresh, UNCHANGED <<listed>>,
         save' # save => save'.reply = "awaited" /\ ~InFlight(save),
         deletion' # deletion => deletion'.reply = "awaited" /\ ~InFlight(deletion)
  PROVE  PageInv'
<1>1. ~Due' => ~Due
  BY DEF Due, Replied, InFlight
<1>2. rows' = rows /\ UNCHANGED <<listed, view, load>> /\ disturbed' = disturbed
  BY DEF Click, NoRefresh, services
<1> QED
  BY <1>1, <1>2, PageStays

LEMMA StepKeepsPage ==
  ASSUME Typed, PageInv, [AdminNext]_adminVars
  PROVE  PageInv'
<1>1. ASSUME NEW k \in Kinds, NewRow(k)
      PROVE  PageInv'
  BY <1>1, ClickStays DEF NewRow, Retype, ClickOnForm
<1>2. ASSUME NEW k \in Kinds, Save(k)
      PROVE  PageInv'
  BY <1>2, ClickStays DEF Save, Submittable, ClickOnForm
<1>3. ASSUME NEW k \in Kinds, NEW v \in Values \cup {Incomplete}, Type(k, v)
      PROVE  PageInv'
  BY <1>3, ClickStays DEF Type, Retype, ClickOnForm
<1>4. ASSUME NEW k \in Kinds, NEW i \in Ids, EditRow(k, i)
      PROVE  PageInv'
  BY <1>4, ClickStays DEF EditRow, Retype, ClickOnForm
<1>5. ASSUME NEW k \in Kinds, NEW i \in Ids, RequestDelete(k, i)
      PROVE  PageInv'
  BY <1>5, ClickStays DEF RequestDelete, ClickOnPrompt
<1>6. ASSUME KeepIt
      PROVE  PageInv'
  BY <1>6, ClickStays DEF KeepIt, ClickOnPrompt
<1>7. ASSUME ConfirmDelete
      PROVE  PageInv'
  BY <1>7, ClickStays DEF ConfirmDelete, ClickOnPrompt
<1>8. ASSUME TryAgain
      PROVE  PageInv'
  BY <1>8, PageIsRefreshed DEF TryAgain, Click, services
<1>9. ASSUME LoseReply
      PROVE  PageInv'
  <2>1. ASSUME "failure" \in disturbed', disturbed \subseteq disturbed', UNCHANGED load
        PROVE  PageInv'
    <3>1. ~Calm' /\ UNCHANGED <<listed, view>>
      BY <1>9, <2>1 DEF Calm, LoseReply, screen
    <3> QED
      BY <2>1, <3>1, PageStays
  <2>2. ASSUME NEW l \in Loads, NEW k \in Kinds, NEW r \in {"failure", "error"}, InFlight(load[l][k]),
               load' = [load EXCEPT ![l][k] = [load[l][k] EXCEPT !.reply = r]],
               disturbed' = disturbed \cup {r}, UNCHANGED <<save, deletion>>
        PROVE  PageInv'
    <3> DEFINE c == [load[l][k] EXCEPT !.reply = r]
    <3>1. load[l][k] \in LoadCall /\ r \in Replies
      BY DEF Typed, RequestsOK, Replies
    <3>2. InFlight(c) /\ c.reply = r
      BY <2>2, <3>1, LoadReply
    <3>3. load' = [load EXCEPT ![l][k] = c] /\ UNCHANGED <<rows, listed, view>>
      BY <1>9, <2>2 DEF LoseReply, services, screen
    <3> HIDE DEF c
    <3>4. disturbed \subseteq disturbed' /\ (c.reply = "error" => "error" \in disturbed')
          /\ (Calm' => c.reply = "error")
      BY <2>2, <3>2 DEF Calm
    <3> QED
      BY <2>2, <3>2, <3>3, <3>4, PageReplied
  <2> QED
    BY <1>9, <2>1, <2>2 DEF LoseReply
<1>10. ASSUME Elsewhere
       PROVE  PageInv'
  <2>1. ~Calm' /\ UNCHANGED <<listed, view, load>> /\ disturbed \subseteq disturbed'
    BY <1>10 DEF Elsewhere, Calm, screen, calls
  <2> QED
    BY <2>1, PageStays
<1>11. ASSUME ServeSave
       PROVE  PageInv'
  <2>1. UNCHANGED <<listed, view, load, disturbed, deletion>> /\ Awaited(save)
    BY <1>11 DEF ServeSave, Behind, screen
  <2>2. \/ save' = [save EXCEPT !.reply = "success"]
        \/ save' = [save EXCEPT !.reply = "failure"] /\ rows' = rows
    BY <1>11 DEF ServeSave, services
  <2>3. /\ InFlight([save EXCEPT !.reply = "success"])
        /\ [save EXCEPT !.reply = "success"].reply = "success"
    BY <2>1, SaveReply DEF Awaited, Typed, RequestsOK, Replies
  <2>4. ~Due' => rows' = rows
    BY <2>2, <2>3 DEF Due, Replied
  <2>5. ~Due' => ~Due
    BY <2>1 DEF Due, Replied, Awaited, InFlight
  <2> QED
    BY <2>1, <2>4, <2>5, PageStays
<1>12. ASSUME AnswerSave
       PROVE  PageInv'
  <2>1. UNCHANGED <<rows, listed, deletion>> /\ save' = Idle
    BY <1>12 DEF AnswerSave, services
  <2>2. CASE save.reply = "success"
    BY <1>12, <2>1, <2>2, PageIsRefreshed DEF AnswerSave
  <2>3. CASE save.reply # "success"
    <3>1. UNCHANGED <<load, view, disturbed>>
      BY <1>12, <2>3 DEF AnswerSave, NoRefresh
    <3>2. ~Due' => ~Due
      BY <2>1, <2>3 DEF Due, Replied, InFlight
    <3> QED
      BY <2>1, <3>1, <3>2, PageStays
  <2> QED
    BY <2>2, <2>3
<1>13. ASSUME ServeDelete
       PROVE  PageInv'
  <2>1. UNCHANGED <<listed, view, load, disturbed, save>> /\ Awaited(deletion)
    BY <1>13 DEF ServeDelete, Behind, screen
  <2>2. deletion' = [deletion EXCEPT !.reply = "success"] \/ rows' = rows
    BY <1>13 DEF ServeDelete
  <2>3. /\ InFlight([deletion EXCEPT !.reply = "success"])
        /\ [deletion EXCEPT !.reply = "success"].reply = "success"
    BY <2>1, DeleteReply DEF Awaited, Typed, RequestsOK, Replies
  <2>4. ~Due' => rows' = rows
    BY <2>2, <2>3 DEF Due, Replied
  <2>5. ~Due' => ~Due
    BY <2>1 DEF Due, Replied, Awaited, InFlight
  <2> QED
    BY <2>1, <2>4, <2>5, PageStays
<1>14. ASSUME AnswerDelete
       PROVE  PageInv'
  <2>1. UNCHANGED <<rows, listed, save>> /\ deletion' = Idle
    BY <1>14 DEF AnswerDelete, services
  <2>2. CASE deletion.reply = "success"
    BY <1>14, <2>1, <2>2, PageIsRefreshed DEF AnswerDelete
  <2>3. CASE deletion.reply # "success"
    <3>1. UNCHANGED <<load, view, disturbed>>
      BY <1>14, <2>3 DEF AnswerDelete, NoRefresh
    <3>2. ~Due' => ~Due
      BY <2>1, <2>3 DEF Due, Replied, InFlight
    <3> QED
      BY <2>1, <3>1, <3>2, PageStays
  <2> QED
    BY <2>2, <2>3
<1>15. ASSUME NEW l \in Loads, NEW k \in Kinds, ServeLoad(l, k)
       PROVE  PageInv'
  <2> DEFINE c == [op |-> "load", list |-> rows[k], reply |-> "success"]
  <2>1. rows[k] \in Table
    BY DEF Typed, ServicesOK
  <2>2. InFlight(c) /\ c.reply = "success" /\ c.list = rows[k]
    BY <2>1, LoadServed
  <2>3. /\ InFlight(load[l][k]) /\ load' = [load EXCEPT ![l][k] = c]
        /\ UNCHANGED <<rows, listed, view, save, deletion, disturbed>>
    BY <1>15 DEF ServeLoad, Awaited, Behind, services, screen
  <2> HIDE DEF c
  <2> QED
    BY <2>2, <2>3, PageReplied
<1>16. ASSUME NEW l \in Loads, NEW k \in Kinds, AnswerLoad(l, k)
       PROVE  PageInv'
  BY <1>16, PageAnswered
<1>17. ASSUME UNCHANGED adminVars
       PROVE  PageInv'
  <2>1. UNCHANGED <<rows, listed, view, load, disturbed, save, deletion>>
    BY <1>17 DEF adminVars, services, screen, calls
  <2>2. ~Due' => ~Due
    BY <2>1 DEF Due, Replied, InFlight
  <2> QED
    BY <2>1, <2>2, PageStays
<1> QED
  BY <1>1, <1>2, <1>3, <1>4, <1>5, <1>6, <1>7, <1>8, <1>9, <1>10, <1>11, <1>12, <1>13,
     <1>14, <1>15, <1>16, <1>17
  DEF AdminNext, Visit, SaveStep, DeleteStep, LoadStep
-----------------------------------------------------------------------------
(* A form that is saved holds what was sent until the service has it. *)
DraftsOK ==
    /\ DraftsAreKept
    /\ Replied(save) /\ save.reply = "success" => draft[save.kind] # "sent"

LEMMA StepKeepsDrafts ==
  ASSUME Typed, DraftsOK, [AdminNext]_adminVars
  PROVE  DraftsOK'
<1> USE DEF Typed, RequestsOK, ScreenOK, VisitOK, DraftsOK, DraftsAreKept
<1>1. ASSUME UNCHANGED <<form, draft, save>>
      PROVE  DraftsOK'
  BY <1>1 DEF Replied, InFlight
<1>2. ASSUME NEW k \in Kinds, NEW f \in [id : {0} \cup Ids, value : Values \cup {Incomplete}], Retype(k, f)
      PROVE  DraftsOK'
  <2>1. DraftsAreKept'
    BY <1>2 DEF Retype
  <2>2. Replied(save) /\ save.reply = "success" => draft'[save.kind] # "sent"
    BY <1>2, SaveReply DEF Retype, Replied, Replies
  <2> QED
    BY <1>2, <2>1, <2>2 DEF Retype, Replied, InFlight
<1>3. ASSUME NEW k \in Kinds, NewRow(k)
      PROVE  DraftsOK'
  BY <1>2, <1>3, FormsAre DEF NewRow
<1>4. ASSUME NEW k \in Kinds, Save(k)
      PROVE  DraftsOK'
  <2>1. form[k].value \in Values /\ UNCHANGED form /\ draft' = [draft EXCEPT ![k] = "sent"]
        /\ save'.reply = "awaited"
    BY <1>4 DEF Save, Submittable
  <2> QED
    BY <2>1 DEF Replied
<1>5. ASSUME NEW k \in Kinds, NEW v \in Values \cup {Incomplete}, Type(k, v)
      PROVE  DraftsOK'
  <2>1. [form[k] EXCEPT !.value = v] \in [id : {0} \cup Ids, value : Values \cup {Incomplete}]
    OBVIOUS
  <2> QED
    BY <1>2, <1>5, <2>1 DEF Type
<1>6. ASSUME NEW k \in Kinds, NEW i \in Ids, EditRow(k, i)
      PROVE  DraftsOK'
  <2>1. [id |-> i, value |-> listed[k][i]] \in [id : {0} \cup Ids, value : Values \cup {Incomplete}]
    BY <1>6 DEF EditRow, Buttons, Table
  <2> QED
    BY <1>2, <1>6, <2>1 DEF EditRow
<1>7. ASSUME LoseReply
      PROVE  DraftsOK'
  <2>1. \A r \in {"failure", "error"} : InFlight(save) => [save EXCEPT !.reply = r].reply # "success"
    BY SaveReply DEF Replies
  <2>2. UNCHANGED save \/ save'.reply # "success"
    BY <1>7, <2>1 DEF LoseReply
  <2> QED
    BY <1>7, <2>2 DEF LoseReply, screen, Replied, InFlight
<1>8. ASSUME ServeSave
      PROVE  DraftsOK'
  <2>1. InFlight(save) /\ save.kind \in Kinds /\ UNCHANGED form
    BY <1>8, SaveReply DEF ServeSave, Awaited, Behind, screen, Replies
  <2>2. \A r \in {"success", "failure"} : [save EXCEPT !.reply = r].kind = save.kind
    BY <2>1, SaveReply DEF Replies
  <2>3. save'.kind = save.kind
    BY <1>8, <2>2 DEF ServeSave
  <2>4. CASE save'.reply = "success" /\ draft[save.kind] = "sent"
    BY <1>8, <2>1, <2>3, <2>4 DEF ServeSave
  <2>5. CASE ~(save'.reply = "success" /\ draft[save.kind] = "sent")
    BY <1>8, <2>1, <2>3, <2>5 DEF ServeSave
  <2> QED
    BY <2>4, <2>5
<1>9. ASSUME AnswerSave
      PROVE  DraftsOK'
  <2>1. save' = Idle /\ UNCHANGED draft /\ Replied(save) /\ save.kind \in Kinds
    BY <1>9, SaveReply DEF AnswerSave, Replied, Replies
  <2>2. CASE save.reply = "success"
    <3>1. draft[save.kind] # "sent" /\ form' = [form EXCEPT ![save.kind] = NewForm]
      BY <1>9, <2>1, <2>2 DEF AnswerSave
    <3> QED
      BY <2>1, <3>1 DEF Replied, InFlight
  <2>3. CASE save.reply # "success"
    BY <1>9, <2>1, <2>3 DEF AnswerSave, Replied, InFlight
  <2> QED
    BY <2>2, <2>3
<1>10. ASSUME \/ KeepIt \/ ConfirmDelete \/ TryAgain \/ Elsewhere \/ ServeDelete \/ AnswerDelete
              \/ \E k \in Kinds, i \in Ids : RequestDelete(k, i)
              \/ \E l \in Loads, k \in Kinds : ServeLoad(l, k) \/ AnswerLoad(l, k)
              \/ UNCHANGED adminVars
       PROVE  UNCHANGED <<form, draft, save>>
  BY <1>10 DEF KeepIt, ConfirmDelete, RequestDelete, ClickOnPrompt, TryAgain, Elsewhere,
     ServeDelete,
               AnswerDelete, ServeLoad, AnswerLoad, Behind, screen, calls, adminVars
<1> QED
  BY <1>1, <1>3, <1>4, <1>5, <1>6, <1>7, <1>8, <1>9, <1>10
  DEF AdminNext, Visit, SaveStep, DeleteStep, LoadStep
-----------------------------------------------------------------------------
(* A table that is not empty has a last row, whose number the next one follows. *)
LEMMA LastRow ==
  ASSUME NEW t \in Table, t # NoRows
  PROVE  \E i \in Ids : t[i] # Absent /\ \A j \in Ids : j > i => t[j] = Absent
<1> DEFINE Used == {n \in Nat : \E i \in Ids : t[i] # Absent /\ n = MaxId - i}
<1>1. Used # {} /\ Used \subseteq Nat
  <2>1. PICK i \in Ids : t[i] # Absent
    BY DEF NoRows, Table
  <2>2. MaxId - i \in Nat
    BY <2>1, AdminAssumption DEF Ids
  <2> QED
    BY <2>1, <2>2
<1>2. PICK n \in Used : \A m \in Used : ~(<<m, n>> \in OpToRel(<, Nat))
  BY <1>1, NatLessThanWellFounded, WFMin
<1>3. PICK i \in Ids : t[i] # Absent /\ n = MaxId - i
  BY <1>2
<1>4. ASSUME NEW j \in Ids, j > i
      PROVE  t[j] = Absent
  <2>1. MaxId - j \in Nat /\ MaxId - j < n
    BY <1>3, <1>4, AdminAssumption DEF Ids
  <2>2. MaxId - j \notin Used
    BY <1>2, <2>1 DEF OpToRel
  <2> QED
    BY <2>1, <2>2
<1> QED
  BY <1>3, <1>4

LEMMA InitTyped == AdminInit => Typed
<1> SUFFICES ASSUME AdminInit
             PROVE  Typed
  OBVIOUS
<1>1. rows \in [Kinds -> Table]
  BY StoredAssumption DEF AdminInit
<1>2. nextId \in [Kinds -> 1 .. MaxId + 1]
  <2> DEFINE NextOf(k) == 1 + IF rows[k] = NoRows THEN 0 ELSE
                            CHOOSE i \in Ids : rows[k][i] # Absent /\ \A j \in Ids :
                                j > i => rows[k][j] = Absent
  <2>1. ASSUME NEW k \in Kinds
        PROVE  NextOf(k) \in 1 .. MaxId + 1
    <3>1. CASE rows[k] = NoRows
      BY <3>1, AdminAssumption
    <3>2. CASE rows[k] # NoRows
      <4> DEFINE last == CHOOSE i \in Ids : rows[k][i] # Absent /\ \A j \in Ids :
                             j > i => rows[k][j] = Absent
      <4>1. last \in Ids
        BY <1>1, <3>2, LastRow
      <4>2. NextOf(k) = 1 + last
        BY <3>2
      <4> HIDE DEF last, NextOf
      <4> QED
        BY <4>1, <4>2, AdminAssumption DEF Ids
    <3> QED
      BY <3>1, <3>2
  <2>2. nextId = [k \in Kinds |-> NextOf(k)]
    BY DEF AdminInit
  <2> HIDE DEF NextOf
  <2> QED
    BY <2>1, <2>2
<1>3. ScreenOK
  BY NoRowsIsTable, FormsAre DEF AdminInit, ScreenOK
<1>4. load \in [Loads -> [Kinds -> LoadCall]]
  BY AskedIsLoad, IdleIsNoRequest DEF AdminInit
<1>5. VisitOK
  BY AdminAssumption DEF AdminInit, VisitOK
<1> QED
  BY <1>1, <1>2, <1>3, <1>4, <1>5, IdleIsNoRequest DEF AdminInit, Typed, ServicesOK, RequestsOK

LEMMA InitPage == AdminInit => PageInv
<1> SUFFICES ASSUME AdminInit
             PROVE  PageInv
  OBVIOUS
<1> DEFINE first == CHOOSE l \in Loads : TRUE
<1>1. first \in Loads
  BY AdminAssumption
<1>2. load = [l \in Loads |-> IF l = first THEN Asked ELSE [k \in Kinds |-> Idle]]
  BY DEF AdminInit
<1>3. view.loading /\ ~view.failed
  BY DEF AdminInit
<1> HIDE DEF first
<1>4. \A k \in Kinds : InFlight(load[first][k]) /\ load[first][k].reply = "awaited"
  BY <1>1, <1>2, AskedIsLoad
<1>5. \A l \in Loads, k \in Kinds : l # first => ~InFlight(load[l][k])
  BY <1>2 DEF InFlight
<1>6. SkeletonHasLoad
  BY <1>1, <1>4 DEF SkeletonHasLoad, Loading, Kinds
<1>7. FailureHasCause
  BY <1>3, <1>4, <1>5 DEF FailureHasCause
<1>8. LoadsApart
  BY <1>5 DEF LoadsApart, Loading
<1>9. ListsAreFresh
  BY <1>1, <1>4, <1>5 DEF ListsAreFresh, Replied
<1> QED
  BY <1>6, <1>7, <1>8, <1>9 DEF PageInv

AdminInv == Typed /\ PageInv /\ DraftsOK

LEMMA AdminInvHolds == AdminSpec => []AdminInv
<1>1. AdminInit => AdminInv
  <2>1. AdminInit => DraftsOK
    BY DEF AdminInit, DraftsOK, DraftsAreKept, Replied, InFlight
  <2> QED
    BY <2>1, InitTyped, InitPage DEF AdminInv
<1>2. AdminInv /\ [AdminNext]_adminVars => AdminInv'
  BY StepKeepsTyped, StepKeepsPage, StepKeepsDrafts DEF AdminInv
<1> QED
  BY <1>1, <1>2, PTL DEF AdminSpec

(***************************************************************************)
(* Whatever the forms send and in whatever order the answers arrive, the   *)
(* page with nothing in progress shows no skeleton, an error only after a  *)
(* lost reply, and otherwise, undisturbed, the lists of the services.      *)
(***************************************************************************)
THEOREM AdministrationIsCurrent == AdminSpec => []SettledPageIsCurrent
<1>1. AdminInv => SettledPageIsCurrent
  <2> SUFFICES ASSUME AdminInv
               PROVE  SettledPageIsCurrent
    OBVIOUS
  <2>1. AdminTypeOK
    BY TypedIsType DEF AdminInv
  <2>2. ASSUME Quiet
        PROVE  ~view.loading /\ (view.failed => "error" \in disturbed)
    BY <2>2 DEF AdminInv, PageInv, SkeletonHasLoad, FailureHasCause, Quiet
  <2>3. ASSUME Quiet, disturbed \subseteq {"error"}, ~view.failed
        PROVE  listed = rows
    <3>1. \A l \in Loads, k \in Kinds : ~InFlight(load[l][k])
      BY <2>3 DEF Quiet, Loading
    <3>2. ~Due
      BY <2>3 DEF Due, Quiet, Replied
    <3>3. \A k \in Kinds : listed[k] = rows[k]
      BY <2>3, <3>1, <3>2 DEF AdminInv, PageInv, ListsAreFresh, Calm
    <3>4. listed \in [Kinds -> Table] /\ rows \in [Kinds -> Table]
      BY DEF AdminInv, Typed, ScreenOK, ServicesOK
    <3> QED
      BY <3>3, <3>4
  <2> QED
    BY <2>1, <2>2, <2>3 DEF SettledPageIsCurrent
<1> QED
  BY <1>1, AdminInvHolds, PTL

(***************************************************************************)
(* What was sent from a form stays in it until the service has taken it,   *)
(* for any number of rows, refreshes and clicks.                           *)
(***************************************************************************)
THEOREM DraftsStayInTheirForms == AdminSpec => []DraftsAreKept
<1>1. AdminInv => DraftsAreKept
  BY DEF AdminInv, DraftsOK
<1> QED
  BY <1>1, AdminInvHolds, PTL
=============================================================================
