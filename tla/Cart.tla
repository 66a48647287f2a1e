-------------------------------- MODULE Cart --------------------------------
(***************************************************************************)
(* The rows of one user's cart under concurrent requests.  A request reads *)
(* what it needs in queries of their own and saves afterwards, once or     *)
(* twice: nothing is locked in between, no index makes the header of a     *)
(* user or the line of a product unique, and no column detects that a row  *)
(* has changed since it was read.  A save that addresses a row that is     *)
(* gone fails as a whole.                                                  *)
(*                                                                         *)
(* A request inserts at most one header and one line, so rows are named    *)
(* after the request that inserts them.                                    *)
(***************************************************************************)
EXTENDS Integers, FiniteSets, FiniteSetsExt

CONSTANTS Requests,    \* the requests of the user, each served once
          Products, Counts, Coupons, NoCoupon,
          NoRow        \* in place of a row that is not there

ASSUME RowsAssumption ==
    /\ Counts \subseteq Nat \ {0}
    /\ NoCoupon \notin Coupons
    /\ NoRow \notin Requests \cup Coupons \cup {NoCoupon}
    /\ NoRow \notin [header : Requests, product : Products, count : Nat]

VARIABLES header,   \* the promotion code of each CartHeaders row, or NoRow
          line,     \* each CartDetails row, or NoRow
          request,  \* what each request has read
          added,    \* pieces of each product that have been saved
          removed,  \* pieces that were in lines taken out on request
          lost,     \* products of which a save wrote over or swept away pieces
          overlapped  \* two requests have been in progress together

ghosts == <<added, removed, lost>>
vars   == <<header, line, request, ghosts, overlapped>>

Waiting  == [at |-> "waiting"]
Answered == [at |-> "answered"]

Rows == Requests \cup {NoRow}
Line == [header : Requests, product : Products, count : Nat]
Item == [product : Products, count : Counts, named : BOOLEAN]
Headers == {h \in Requests : header[h] # NoRow}
Lines   == {l \in Requests : line[l] # NoRow}
LinesOf(h) == {l \in Lines : line[l].header = h}
Pieces(p)  == MapThenSumSet(LAMBDA l : line[l].count, {l \in Lines : line[l].product = p})
InProgress == {r \in Requests : request[r] \notin {Waiting, Answered}}

Request ==
    {Waiting, Answered}
    \cup [at : {"upsert"}, item : Item, header : Rows]
    \cup [at : {"created"}, item : Item]
    \cup [at : {"found"}, item : Item, header : Requests, line : Rows, count : Nat]
    \cup [at : {"remove"}, line : Requests, header : Requests]
    \cup [at : {"counted"}, line : Requests, header : Requests, last : BOOLEAN]
    \cup [at : {"coupon"}, header : Requests, code : Coupons \cup {NoCoupon}]

(* Every line has a header, and what a request has read of a line was there. *)
TypeOK ==
    /\ header \in [Requests -> Coupons \cup {NoCoupon, NoRow}]
    /\ line \in [Requests -> Line \cup {NoRow}]
    /\ \A l \in Lines : line[l].count > 0 /\ line[l].header \in Headers
    /\ request \in [Requests -> Request]
    /\ added \in [Products -> Nat] /\ removed \in [Products -> Nat]
    /\ lost \subseteq Products /\ overlapped \in BOOLEAN

Init ==
    /\ header = [r \in Requests |-> NoRow]
    /\ line = [r \in Requests |-> NoRow]
    /\ request = [r \in Requests |-> Waiting]
    /\ added = [p \in Products |-> 0] /\ removed = [p \in Products |-> 0]
    /\ lost = {} /\ overlapped = FALSE
-----------------------------------------------------------------------------
Takes(r, next) == request' = [request EXCEPT ![r] = next]
Goes(r, next)  == Takes(r, next) /\ UNCHANGED overlapped

(* A request is taken up by the service, and reads. *)
Starts(r, next) ==
    /\ request[r] = Waiting
    /\ Takes(r, next)
    /\ overlapped' = (overlapped \/ InProgress # {})
    /\ UNCHANGED <<header, line, ghosts>>

(* FirstOrDefault over the headers of the user, which has no order. *)
AnyHeader == IF Headers = {} THEN {NoRow} ELSE Headers

(***************************************************************************)
(* CartUpsert, with its two branches on the header that was read.  The     *)
(* client names the line when it changes a quantity; the key it sends is   *)
(* replaced when the line is found, and makes the insertion fail when it   *)
(* is not.                                                                 *)
(***************************************************************************)
UpsertReadsHeader(r, i) ==
    \E h \in AnyHeader : Starts(r, [at |-> "upsert", item |-> i, header |-> h])

CreateHeader(r) ==
    LET q == request[r] IN
    /\ q.at = "upsert" /\ q.header = NoRow
    /\ header' = [header EXCEPT ![r] = NoCoupon]
    /\ Goes(r, [at |-> "created", item |-> q.item])
    /\ UNCHANGED <<line, ghosts>>

(* Mistaken: a line of the product is not looked for. *)
LooksForNoLine(r) ==
    LET q == request[r] IN
    /\ q.at = "upsert" /\ q.header # NoRow
    /\ Goes(r, [at |-> "found", item |-> q.item, header |-> q.header, line |-> NoRow, count |-> 0])
    /\ UNCHANGED <<header, line, ghosts>>

UpsertReadsLine(r) ==
    LET q == request[r]
        found == {l \in LinesOf(q.header) : line[l].product = q.item.product}
    IN /\ q.at = "upsert" /\ q.header # NoRow
       /\ \E l \in IF found = {} THEN {NoRow} ELSE found :
              Goes(r, [at |-> "found", item |-> q.item, header |-> q.header, line |-> l,
                       count |-> IF l = NoRow THEN 0 ELSE line[l].count])
       /\ UNCHANGED <<header, line, ghosts>>

(* A line is inserted unless its key is given or its header is gone. *)
InsertLine(r, h, i) ==
    IF i.named \/ header[h] = NoRow
    THEN UNCHANGED <<line, added>>
    ELSE /\ line' = [line EXCEPT ![r] = [header |-> h, product |-> i.product, count |-> i.count]]
         /\ added' = [added EXCEPT ![i.product] = @ + i.count]

AddLine(r) ==
    LET q == request[r] IN
    /\ \/ q.at = "created" /\ InsertLine(r, r, q.item)
       \/ q.at = "found" /\ q.line = NoRow /\ InsertLine(r, q.header, q.item)
    /\ Goes(r, Answered)
    /\ UNCHANGED <<header, removed, lost>>

(* Mistaken: the count is replaced, not added to. *)
ReplaceCount(r) ==
    LET q == request[r] IN
    /\ q.at = "found" /\ q.line # NoRow /\ line[q.line] # NoRow
    /\ Goes(r, Answered)
    /\ line' = [line EXCEPT ![q.line].count = q.item.count]
    /\ added' = [added EXCEPT ![q.item.product] = @ + q.item.count]
    /\ UNCHANGED <<header, removed, lost>>

(* Mistaken: a line that is gone is inserted again. *)
UpdateOrInsert(r) ==
    LET q == request[r] IN
    /\ q.at = "found" /\ q.line # NoRow /\ header[q.header] # NoRow
    /\ Goes(r, Answered)
    /\ line' = [line EXCEPT ![q.line] = [header |-> q.header, product |-> q.item.product,
                                        count |-> q.count + q.item.count]]
    /\ added' = [added EXCEPT ![q.item.product] = @ + q.item.count]
    /\ UNCHANGED <<header, removed, lost>>

(* The new count is computed from the one that was read. *)
UpdateLine(r) ==
    LET q == request[r] IN
    /\ q.at = "found" /\ q.line # NoRow
    /\ Goes(r, Answered)
    /\ UNCHANGED <<header, removed>>
    /\ IF line[q.line] = NoRow
       THEN UNCHANGED <<line, added, lost>>
       ELSE /\ line' = [line EXCEPT ![q.line].count = q.count + q.item.count]
            /\ added' = [added EXCEPT ![q.item.product] = @ + q.item.count]
            /\ lost' = IF q.count = line[q.line].count THEN lost ELSE lost \cup {q.item.product}

(***************************************************************************)
(* RemoveCart reads the line with its header, counts the lines of the      *)
(* header, and removes the line, and the header if the line was its only   *)
(* one.  Removing a header removes its lines, the ones added since the     *)
(* count included.                                                         *)
(***************************************************************************)
RemoveReadsLine(r) ==
    \E l \in Lines : Starts(r, [at |-> "remove", line |-> l, header |-> line[l].header])

RemoveCounts(r) ==
    LET q == request[r] IN
    /\ q.at = "remove"
    /\ Goes(r, [at |-> "counted", line |-> q.line, header |-> q.header,
                last |-> Cardinality(LinesOf(q.header)) = 1])
    /\ UNCHANGED <<header, line, ghosts>>

(* Mistaken: the header is never removed. *)
RemoveLineOnly(r) ==
    LET q == request[r] IN
    /\ q.at = "counted" /\ line[q.line] # NoRow
    /\ Goes(r, Answered)
    /\ line' = [line EXCEPT ![q.line] = NoRow]
    /\ removed' = [removed EXCEPT ![line[q.line].product] = @ + line[q.line].count]
    /\ UNCHANGED <<header, added, lost>>

RemoveLine(r) ==
    LET q == request[r]
        swept == IF q.last THEN LinesOf(q.header) ELSE {q.line}
    IN /\ q.at = "counted"
       /\ Goes(r, Answered)
       /\ UNCHANGED added
       /\ IF line[q.line] = NoRow
          THEN UNCHANGED <<header, line, removed, lost>>
          ELSE /\ line' = [l \in Requests |-> IF l \in swept THEN NoRow ELSE line[l]]
               /\ header' = IF q.last THEN [header EXCEPT ![q.header] = NoRow] ELSE header
               /\ removed' = [removed EXCEPT ![line[q.line].product] = @ + line[q.line].count]
               /\ lost' = lost \cup {line[l].product : l \in swept \ {q.line}}

(* ApplyCoupon and RemoveCoupon read the header and write it back. *)
CouponReadsHeader(r, code) ==
    \E h \in Headers : Starts(r, [at |-> "coupon", header |-> h, code |-> code])

SaveCoupon(r) ==
    LET q == request[r] IN
    /\ q.at = "coupon"
    /\ Goes(r, Answered)
    /\ header' = [header EXCEPT ![q.header] = IF @ = NoRow THEN NoRow ELSE q.code]
    /\ UNCHANGED <<line, ghosts>>

(* The service stops, or a query or save of the request fails. *)
Stop(r) ==
    /\ r \in InProgress
    /\ Goes(r, Answered)
    /\ UNCHANGED <<header, line, ghosts>>

Next ==
    \E r \in Requests :
        \/ \E i \in Item : UpsertReadsHeader(r, i)
        \/ CreateHeader(r) \/ UpsertReadsLine(r) \/ AddLine(r) \/ UpdateLine(r)
        \/ RemoveReadsLine(r) \/ RemoveCounts(r) \/ RemoveLine(r)
        \/ \E code \in Coupons \cup {NoCoupon} : CouponReadsHeader(r, code)
        \/ SaveCoupon(r)
        \/ Stop(r)

Spec == Init /\ [][Next]_vars
-----------------------------------------------------------------------------
(***************************************************************************)
(* However the requests interleave, the cart holds of a product what was   *)
(* added and not taken out.  Pieces go missing in two ways only: a count   *)
(* written over one that was not read, and a line swept away with a header *)
(* it joined after the count of its lines.  None are ever made up.         *)
(***************************************************************************)
PiecesAreAccountedFor ==
    \A p \in Products : /\ Pieces(p) + removed[p] <= added[p]
                        /\ p \notin lost => Pieces(p) + removed[p] = added[p]

(* A line that was taken out does not return with a request that had read it. *)
RemovedStaysRemoved ==
    [][\A l \in Requests : request[l] = Answered /\ line[l] = NoRow => line'[l] = NoRow]_vars

(***************************************************************************)
(* As long as requests came one at a time, though any of them may have     *)
(* stopped half way, the user has one header and one line of a product.    *)
(***************************************************************************)
OneRowOfEach ==
    ~overlapped => /\ Cardinality(Headers) <= 1
                   /\ \A l, m \in Lines : line[l].product = line[m].product => l = m

Code == IF Headers = {} THEN NoCoupon ELSE header[CHOOSE h \in Headers : TRUE]

Contents == INSTANCE CartContents WITH
    pieces <- [p \in Products |-> Pieces(p)],
    coupon <- Code

(***************************************************************************)
(* As long as requests come one at a time the rows are a cart in which     *)
(* each operation happens once and whole, or not at all if its request     *)
(* stops half way.                                                         *)
(***************************************************************************)
ImplementsContents ==
    Contents!Init /\ [][overlapped' \/ Contents!Next \/ UNCHANGED Contents!cart]_vars
=============================================================================
