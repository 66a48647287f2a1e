----------------------------- MODULE CartProofs -----------------------------
(***************************************************************************)
(* Proofs about module Cart, for any number of requests at once: the rows  *)
(* keep their types and their foreign key, a line that was taken out does  *)
(* not return, and requests that do not overlap leave one row of each.     *)
(***************************************************************************)
EXTENDS Cart, Sums, TLAPS

(* What a request may be is used as an opaque set, except where it is named. *)
LEMMA RequestShapes ==
    /\ Waiting \in Request /\ Answered \in Request
    /\ \A i \in Item, h \in Rows : [at |-> "upsert", item |-> i, header |-> h] \in Request
    /\ \A i \in Item : [at |-> "created", item |-> i] \in Request
    /\ \A i \in Item, h \in Requests, l \in Rows, n \in Nat :
           [at |-> "found", item |-> i, header |-> h, line |-> l, count |-> n] \in Request
    /\ \A l, h \in Requests : [at |-> "remove", line |-> l, header |-> h] \in Request
    /\ \A l, h \in Requests, b \in BOOLEAN :
           [at |-> "counted", line |-> l, header |-> h, last |-> b] \in Request
    /\ \A h \in Requests, c \in Coupons \cup {NoCoupon} :
           [at |-> "coupon", header |-> h, code |-> c] \in Request
BY DEF Request

LEMMA RequestFields ==
    ASSUME NEW q \in Request
    PROVE  /\ q.at = "upsert" => q.item \in Item /\ q.header \in Rows
           /\ q.at = "created" => q.item \in Item
           /\ q.at = "found" => /\ q.item \in Item /\ q.header \in Requests
                                /\ q.line \in Rows /\ q.count \in Nat
           /\ q.at = "remove" => q.line \in Requests /\ q.header \in Requests
           /\ q.at = "counted" => q.line \in Requests /\ q.header \in Requests
           /\ q.at = "coupon" => q.header \in Requests /\ q.code \in Coupons \cup {NoCoupon}
           /\ q = Answered => q.at = "answered"
<1> USE DEF Waiting, Answered
<1>1. CASE q \in {Waiting, Answered}
  BY <1>1
<1>2. CASE q \in [at : {"upsert"}, item : Item, header : Rows]
  BY <1>2
<1>3. CASE q \in [at : {"created"}, item : Item]
  BY <1>3
<1>4. CASE q \in [at : {"found"}, item : Item, header : Requests, line : Rows, count : Nat]
  BY <1>4
<1>5. CASE q \in [at : {"remove"}, line : Requests, header : Requests]
  BY <1>5
<1>6. CASE q \in [at : {"counted"}, line : Requests, header : Requests, last : BOOLEAN]
  BY <1>6
<1>7. CASE q \in [at : {"coupon"}, header : Requests, code : Coupons \cup {NoCoupon}]
  BY <1>7
<1> QED BY <1>1, <1>2, <1>3, <1>4, <1>5, <1>6, <1>7 DEF Request

LEMMA ItemFields ==
    ASSUME NEW i \in Item
    PROVE  i.product \in Products /\ i.count \in Nat /\ i.count > 0
<1>1. i.product \in Products /\ i.count \in Counts
  BY DEF Item
<1>2. \A n \in Counts : n \in Nat /\ n > 0
  BY RowsAssumption
<1> QED BY <1>1, <1>2

LEMMA LineFields ==
    ASSUME NEW k \in Line
    PROVE  k.header \in Requests /\ k.product \in Products /\ k.count \in Nat
BY DEF Line


-----------------------------------------------------------------------------
(* The rows with their foreign key, apart from the requests and the sums. *)
RowsTyped ==
    /\ header \in [Requests -> Coupons \cup {NoCoupon, NoRow}]
    /\ line \in [Requests -> Line \cup {NoRow}]
    /\ \A l \in Requests : line[l] # NoRow => /\ line[l].count > 0
                                              /\ header[line[l].header] # NoRow

SumsTyped == /\ added \in [Products -> Nat] /\ removed \in [Products -> Nat]
             /\ lost \subseteq Products

LEMMA TypeParts ==
    TypeOK <=> RowsTyped /\ SumsTyped /\ request \in [Requests -> Request] /\ overlapped \in BOOLEAN
BY LineFields DEF TypeOK, RowsTyped, SumsTyped, Lines, Headers

LEMMA TypePartsNext ==
    RowsTyped' /\ SumsTyped' /\ request' \in [Requests -> Request] /\ overlapped' \in BOOLEAN => TypeOK'
BY LineFields DEF TypeOK, RowsTyped, SumsTyped, Lines, Headers

LEMMA InitTyped == Init => TypeOK
<1> SUFFICES ASSUME Init PROVE TypeOK
  OBVIOUS
<1>1. overlapped \in BOOLEAN
  BY DEF Init
<1>2. RowsTyped /\ SumsTyped /\ request \in [Requests -> Request]
  BY RequestShapes DEF Init, RowsTyped, SumsTyped
<1> QED BY <1>1, <1>2, TypeParts

(* A line may be inserted by the request that names it, under a header that is there. *)
LEMMA InsertKeepsTypes ==
    ASSUME TypeOK, NEW r \in Requests, NEW h \in Requests, NEW i \in Item,
           InsertLine(r, h, i), UNCHANGED <<header, removed, lost>>
    PROVE  RowsTyped' /\ SumsTyped'
<1> USE TypeParts DEF RowsTyped, SumsTyped
<1>1. CASE i.named \/ header[h] = NoRow
  BY <1>1 DEF InsertLine
<1>2. CASE ~ (i.named \/ header[h] = NoRow)
  <2> DEFINE k == [header |-> h, product |-> i.product, count |-> i.count]
  <2>1. k \in Line /\ k.count > 0 /\ k.header = h
    BY ItemFields DEF Line
  <2>2. line' = [line EXCEPT ![r] = k] /\ added' = [added EXCEPT ![i.product] = @ + i.count]
    BY <1>2 DEF InsertLine
  <2> HIDE DEF k
  <2>3. RowsTyped'
    BY <1>2, <2>1, <2>2
  <2>4. SumsTyped'
    BY <2>2, ItemFields
  <2> QED BY <2>3, <2>4
<1> QED BY <1>1, <1>2

LEMMA UpdateKeepsTypes ==
    ASSUME TypeOK, NEW r \in Requests, UpdateLine(r)
    PROVE  RowsTyped' /\ SumsTyped'
<1> DEFINE q == request[r]
           m == q.line
<1>1. q.item \in Item /\ m \in Rows /\ m # NoRow /\ q.count \in Nat
  BY TypeParts, RequestFields DEF UpdateLine
<1>2. m \in Requests
  BY <1>1 DEF Rows
<1> USE TypeParts DEF RowsTyped, SumsTyped
<1>3. CASE line[m] = NoRow
  BY <1>3 DEF UpdateLine
<1>4. CASE line[m] # NoRow
  <2> DEFINE k == [line[m] EXCEPT !.count = q.count + q.item.count]
  <2>1. line[m] \in Line
    BY <1>2, <1>4
  <2>2. k \in Line /\ k.count > 0 /\ k.header = line[m].header
    BY <1>1, <2>1, ItemFields DEF Line
  <2>3. /\ line' = [line EXCEPT ![m] = k] /\ UNCHANGED <<header, removed>>
        /\ added' = [added EXCEPT ![q.item.product] = @ + q.item.count]
        /\ lost' \in {lost, lost \cup {q.item.product}}
    BY <1>4 DEF UpdateLine
  <2> HIDE DEF k
  <2>4. RowsTyped'
    BY <1>2, <1>4, <2>2, <2>3
  <2>5. SumsTyped'
    BY <1>1, <2>3, ItemFields
  <2> QED BY <2>4, <2>5
<1> QED BY <1>3, <1>4

(* A header leaves with all of its lines, so no line is left without one. *)
LEMMA RemoveKeepsTypes ==
    ASSUME TypeOK, NEW r \in Requests, RemoveLine(r)
    PROVE  RowsTyped' /\ SumsTyped'
<1> DEFINE q == request[r]
           m == q.line
           swept == IF q.last THEN LinesOf(q.header) ELSE {m}
<1>1. m \in Requests /\ q.header \in Requests
  BY TypeParts, RequestFields DEF RemoveLine
<1> USE TypeParts DEF RowsTyped, SumsTyped
<1>2. CASE line[m] = NoRow
  BY <1>2 DEF RemoveLine
<1>3. CASE line[m] # NoRow
  <2>1. /\ line' = [l \in Requests |-> IF l \in swept THEN NoRow ELSE line[l]]
        /\ header' = IF q.last THEN [header EXCEPT ![q.header] = NoRow] ELSE header
        /\ removed' = [removed EXCEPT ![line[m].product] = @ + line[m].count]
        /\ lost' = lost \cup {line[l].product : l \in swept \ {m}}
        /\ added' = added
    BY <1>3 DEF RemoveLine
  <2>2. line[m] \in Line
    BY <1>1, <1>3
  <2>3. \A l \in swept \ {m} : line[l].product \in Products
    <3>1. \A l \in swept \ {m} : l \in Requests /\ line[l] # NoRow
      BY DEF LinesOf, Lines
    <3> QED BY <3>1, LineFields
  <2>4. SumsTyped'
    BY <2>1, <2>2, <2>3, LineFields
  <2>5. \A l \in Requests : line'[l] # NoRow =>
            line'[l] = line[l] /\ line[l] # NoRow /\ (q.last => line[l].header # q.header)
    BY <2>1 DEF LinesOf, Lines
  <2>6. /\ header' \in [Requests -> Coupons \cup {NoCoupon, NoRow}]
        /\ line' \in [Requests -> Line \cup {NoRow}]
    BY <1>1, <2>1
  <2>7. \A l \in Requests : line'[l] # NoRow => header'[line'[l].header] = header[line[l].header]
    <3> SUFFICES ASSUME NEW l \in Requests, line'[l] # NoRow
                 PROVE  header'[line[l].header] = header[line[l].header]
      BY <2>5
    <3>1. line[l].header \in Requests /\ (q.last => line[l].header # q.header)
      BY <2>5, LineFields
    <3> QED BY <2>1, <3>1
  <2> QED BY <2>4, <2>5, <2>6, <2>7
<1> QED BY <1>2, <1>3

(* A request goes on to what it has read, which is one of the things a request may be. *)
LEMMA GoesKeepsType ==
    ASSUME TypeOK, NEW r \in Requests, NEW next \in Request, Goes(r, next)
    PROVE  request' \in [Requests -> Request] /\ overlapped' \in BOOLEAN
BY DEF TypeOK, Goes, Takes

LEMMA StillRowsKeepTypes ==
    ASSUME TypeOK, UNCHANGED <<header, line, ghosts>>,
           request' \in [Requests -> Request], overlapped' \in BOOLEAN
    PROVE  TypeOK'
BY TypeParts DEF RowsTyped, SumsTyped, ghosts, TypeOK, Lines, Headers

LEMMA StartKeepsType ==
    ASSUME TypeOK, NEW r \in Requests, NEW next \in Request, Starts(r, next)
    PROVE  TypeOK'
<1>1. request' \in [Requests -> Request] /\ overlapped' \in BOOLEAN
  BY DEF TypeOK, Starts, Takes
<1> QED BY <1>1, StillRowsKeepTypes DEF Starts

LEMMA StepKeepsTypes == TypeOK /\ [Next]_vars => TypeOK'
<1> SUFFICES ASSUME TypeOK, [Next]_vars PROVE TypeOK'
  OBVIOUS
<1> USE RequestShapes, TypePartsNext
<1>0. CASE UNCHANGED vars
  BY <1>0 DEF vars, ghosts, TypeOK, Lines, Headers
<1>1. ASSUME NEW r \in Requests, NEW i \in Item, UpsertReadsHeader(r, i) PROVE TypeOK'
  <2>1. PICK h \in AnyHeader : Starts(r, [at |-> "upsert", item |-> i, header |-> h])
    BY <1>1 DEF UpsertReadsHeader
  <2>2. h \in Rows
    BY DEF AnyHeader, Headers, Rows
  <2> QED BY <2>1, <2>2, StartKeepsType
<1>2. ASSUME NEW r \in Requests, CreateHeader(r) PROVE TypeOK'
  <2>1. request[r].item \in Item
    BY <1>2, TypeParts, RequestFields DEF CreateHeader
  <2>2. request' \in [Requests -> Request] /\ overlapped' \in BOOLEAN
    BY <1>2, <2>1, GoesKeepsType DEF CreateHeader
  <2>3. header' = [header EXCEPT ![r] = NoCoupon] /\ UNCHANGED <<line, added, removed, lost>>
    BY <1>2 DEF CreateHeader, ghosts
  <2>4. NoCoupon # NoRow
    BY RowsAssumption
  <2> QED BY <2>2, <2>3, <2>4, TypeParts, LineFields DEF RowsTyped, SumsTyped
<1>3. ASSUME NEW r \in Requests, UpsertReadsLine(r) PROVE TypeOK'
  <2> DEFINE q == request[r]
             found == {l \in LinesOf(q.header) : line[l].product = q.item.product}
  <2>1. q.item \in Item /\ q.header \in Rows /\ q.header # NoRow
    BY <1>3, TypeParts, RequestFields DEF UpsertReadsLine
  <2>2. PICK l \in IF found = {} THEN {NoRow} ELSE found :
            Goes(r, [at |-> "found", item |-> q.item, header |-> q.header, line |-> l,
                     count |-> IF l = NoRow THEN 0 ELSE line[l].count])
    BY <1>3 DEF UpsertReadsLine
  <2>3. l = NoRow \/ (l \in Requests /\ line[l] # NoRow)
    BY <2>2 DEF LinesOf, Lines
  <2>4. l \in Rows /\ (IF l = NoRow THEN 0 ELSE line[l].count) \in Nat
    BY <2>3, LineFields DEF TypeOK, Rows
  <2>5. request' \in [Requests -> Request] /\ overlapped' \in BOOLEAN
    BY <2>1, <2>2, <2>4, GoesKeepsType DEF Rows
  <2> QED BY <1>3, <2>5, StillRowsKeepTypes DEF UpsertReadsLine
<1>4. ASSUME NEW r \in Requests, AddLine(r) PROVE TypeOK'
  <2>1. /\ request' \in [Requests -> Request] /\ overlapped' \in BOOLEAN
        /\ UNCHANGED <<header, removed, lost>>
    BY <1>4, GoesKeepsType DEF AddLine
  <2>2. CASE request[r].at = "created" /\ InsertLine(r, r, request[r].item)
    BY <2>1, <2>2, TypeParts, RequestFields, InsertKeepsTypes
  <2>3. CASE request[r].at = "found" /\ InsertLine(r, request[r].header, request[r].item)
    <3>1. request[r].item \in Item /\ request[r].header \in Requests
      BY <2>3, TypeParts, RequestFields
    <3> QED BY <2>1, <2>3, <3>1, TypeParts, InsertKeepsTypes
  <2> QED BY <1>4, <2>2, <2>3 DEF AddLine
<1>5. ASSUME NEW r \in Requests, UpdateLine(r) PROVE TypeOK'
  BY <1>5, GoesKeepsType, UpdateKeepsTypes, TypeParts DEF UpdateLine
<1>6. ASSUME NEW r \in Requests, RemoveReadsLine(r) PROVE TypeOK'
  <2>1. PICK l \in Lines : Starts(r, [at |-> "remove", line |-> l, header |-> line[l].header])
    BY <1>6 DEF RemoveReadsLine
  <2>2. l \in Requests /\ line[l].header \in Requests
    BY LineFields DEF Lines, TypeOK
  <2> QED BY <2>1, <2>2, StartKeepsType
<1>7. ASSUME NEW r \in Requests, RemoveCounts(r) PROVE TypeOK'
  <2>1. request[r].line \in Requests /\ request[r].header \in Requests
    BY <1>7, TypeParts, RequestFields DEF RemoveCounts
  <2>2. request' \in [Requests -> Request] /\ overlapped' \in BOOLEAN
    BY <1>7, <2>1, GoesKeepsType DEF RemoveCounts
  <2> QED BY <1>7, <2>2, StillRowsKeepTypes DEF RemoveCounts
<1>8. ASSUME NEW r \in Requests, RemoveLine(r) PROVE TypeOK'
  BY <1>8, GoesKeepsType, RemoveKeepsTypes, TypeParts DEF RemoveLine
<1>9. ASSUME NEW r \in Requests, NEW code \in Coupons \cup {NoCoupon}, CouponReadsHeader(r, code)
      PROVE  TypeOK'
  <2>1. PICK h \in Headers : Starts(r, [at |-> "coupon", header |-> h, code |-> code])
    BY <1>9 DEF CouponReadsHeader
  <2> QED BY <2>1, StartKeepsType DEF Headers
<1>10. ASSUME NEW r \in Requests, SaveCoupon(r) PROVE TypeOK'
  <2> DEFINE q == request[r]
  <2>1. q.header \in Requests /\ q.code \in Coupons \cup {NoCoupon} /\ q.code # NoRow
    BY <1>10, TypeParts, RequestFields, RowsAssumption DEF SaveCoupon
  <2>2. /\ header' = [header EXCEPT ![q.header] = IF @ = NoRow THEN NoRow ELSE q.code]
        /\ UNCHANGED <<line, added, removed, lost>>
    BY <1>10 DEF SaveCoupon, ghosts
  <2>3. request' \in [Requests -> Request] /\ overlapped' \in BOOLEAN
    BY <1>10, GoesKeepsType DEF SaveCoupon
  <2> QED BY <2>1, <2>2, <2>3, TypeParts, LineFields DEF RowsTyped, SumsTyped
<1>11. ASSUME NEW r \in Requests, Stop(r) PROVE TypeOK'
  BY <1>11, GoesKeepsType, StillRowsKeepTypes DEF Stop
<1> QED
  BY <1>0, <1>1, <1>2, <1>3, <1>4, <1>5, <1>6, <1>7, <1>8, <1>9, <1>10, <1>11 DEF Next

(* The rows keep their types and every line keeps its header, whatever interleaves. *)
THEOREM TypeCorrect == Spec => []TypeOK
BY InitTyped, StepKeepsTypes, PTL DEF Spec
-----------------------------------------------------------------------------
(* Only the request that names a line inserts it, and that request is not answered yet. *)
LEMMA StepReturnsNoLine ==
    ASSUME TypeOK, [Next]_vars, NEW l \in Requests, request[l] = Answered, line[l] = NoRow
    PROVE  line'[l] = NoRow
<1>1. request[l].at = "answered"
  BY DEF Answered
<1>2. ASSUME NEW r \in Requests, AddLine(r) PROVE line'[l] = NoRow
  <2>1. request[r].at \in {"created", "found"} /\ r # l
    BY <1>1, <1>2 DEF AddLine
  <2> QED BY <1>2, <2>1 DEF AddLine, InsertLine, TypeOK
<1>3. ASSUME NEW r \in Requests, UpdateLine(r) PROVE line'[l] = NoRow
  <2>1. CASE line[request[r].line] = NoRow
    BY <1>3, <2>1 DEF UpdateLine
  <2>2. CASE line[request[r].line] # NoRow
    BY <1>3, <2>2 DEF UpdateLine, TypeOK
  <2> QED BY <2>1, <2>2
<1>4. ASSUME NEW r \in Requests, RemoveLine(r) PROVE line'[l] = NoRow
  BY <1>4 DEF RemoveLine
<1> QED
  BY <1>2, <1>3, <1>4 DEF Next, vars, ghosts, UpsertReadsHeader, CreateHeader, UpsertReadsLine,
     RemoveReadsLine, RemoveCounts, CouponReadsHeader, SaveCoupon, Stop, Starts

(* A line that was taken out does not return with a request that had read it. *)
THEOREM RemovalIsFinal == Spec => RemovedStaysRemoved
<1>1. TypeOK /\ [Next]_vars
        => [\A l \in Requests : request[l] = Answered /\ line[l] = NoRow => line'[l] = NoRow]_vars
  BY StepReturnsNoLine
<1> QED BY <1>1, TypeCorrect, PTL DEF Spec, RemovedStaysRemoved
-----------------------------------------------------------------------------
(***************************************************************************)
(* What a request that is alone has read still holds when it saves, which  *)
(* is why no lock and no index is needed for one row of each.              *)
(***************************************************************************)
StillTrue(r) ==
    LET q == request[r] IN
    /\ q.at = "upsert" => IF q.header = NoRow THEN Headers = {} ELSE q.header \in Headers
    /\ q.at = "created" => Lines = {}
    /\ q.at = "found" /\ q.line = NoRow => \A l \in Lines : line[l].product # q.item.product

OneHeader == \A g, h \in Headers : g = h
OneLine   == \A l, m \in Lines : line[l].product = line[m].product => l = m

Alone ==
    ~overlapped => /\ OneHeader /\ OneLine
                   /\ \A r, s \in InProgress : r = s
                   /\ \A r \in Requests : StillTrue(r)

LEMMA NotInProgress ==
    ASSUME NEW r \in Requests, r \notin InProgress
    PROVE  request[r].at \in {"waiting", "answered"} /\ StillTrue(r)
BY DEF InProgress, Waiting, Answered, StillTrue

(* A step of one request, while there is no other, is judged by what it reads and saves. *)
LEMMA OnlyRequest ==
    ASSUME TypeOK, NEW r \in Requests, NEW next, Takes(r, next),
           \A s \in InProgress : s = r, (OneHeader /\ OneLine /\ StillTrue(r))'
    PROVE  Alone'
<1>1. \A s \in Requests \ {r} : request'[s] = request[s] /\ request[s] \in {Waiting, Answered}
  BY DEF TypeOK, Takes, InProgress
<1>2. \A s \in Requests \ {r} : StillTrue(s)'
  BY <1>1 DEF StillTrue, Waiting, Answered
<1>3. \A s, t \in InProgress' : s = t
  BY <1>1 DEF InProgress
<1> QED BY <1>2, <1>3 DEF Alone

LEMMA StepKeepsAlone == TypeOK /\ Alone /\ [Next]_vars => Alone'
<1> SUFFICES ASSUME TypeOK, Alone, [Next]_vars, ~overlapped' PROVE Alone'
  BY DEF Alone
<1>0. CASE UNCHANGED vars
  BY <1>0 DEF vars, Alone, OneHeader, OneLine, StillTrue, InProgress, Headers, Lines
<1>1. ASSUME NEW r \in Requests, NEW next, Goes(r, next)
      PROVE  /\ OneHeader /\ OneLine /\ StillTrue(r) /\ Takes(r, next) /\ request'[r] = next
             /\ r \in InProgress => \A s \in InProgress : s = r
  BY <1>1 DEF Goes, Takes, Alone, TypeOK
<1>2. ASSUME NEW r \in Requests, request[r].at \notin {"waiting", "answered"} PROVE r \in InProgress
  BY <1>2, NotInProgress
<1>3. ASSUME NEW r \in Requests, NEW next, Starts(r, next)
      PROVE  /\ OneHeader' /\ OneLine' /\ Takes(r, next) /\ request'[r] = next /\ UNCHANGED <<header, line>>
             /\ \A s \in InProgress : s = r
  <2>1. ~overlapped /\ InProgress = {}
    BY <1>3 DEF Starts
  <2> QED
    BY <1>3, <2>1 DEF Starts, Takes, Alone, OneHeader, OneLine, Headers, Lines, TypeOK
<1>4. ASSUME NEW r \in Requests, Goes(r, Answered), r \in InProgress, OneHeader', OneLine' PROVE Alone'
  <2>1. StillTrue(r)'
    BY <1>1, <1>4 DEF StillTrue, Answered
  <2> QED BY <1>1, <1>4, <2>1, OnlyRequest
<1>5. ASSUME NEW r \in Requests, NEW i \in Item, UpsertReadsHeader(r, i) PROVE Alone'
  <2>1. PICK h \in AnyHeader : Starts(r, [at |-> "upsert", item |-> i, header |-> h])
    BY <1>5 DEF UpsertReadsHeader
  <2>2. IF h = NoRow THEN Headers = {} ELSE h \in Headers
    BY RowsAssumption DEF AnyHeader, Headers
  <2> DEFINE next == [at |-> "upsert", item |-> i, header |-> h]
  <2>3. request'[r] = next /\ UNCHANGED <<header, line>>
    BY <1>3, <2>1
  <2>4. StillTrue(r)'
    BY <2>2, <2>3 DEF StillTrue, Headers, Lines
  <2> QED BY <1>3, <2>1, <2>4, OnlyRequest
<1>6. ASSUME NEW r \in Requests, CreateHeader(r) PROVE Alone'
  <2> DEFINE next == [at |-> "created", item |-> request[r].item]
  <2>1. /\ request[r].at = "upsert" /\ request[r].header = NoRow /\ Goes(r, next)
        /\ header' = [header EXCEPT ![r] = NoCoupon] /\ line' = line
    BY <1>6 DEF CreateHeader
  <2>2. Headers = {} /\ r \in InProgress
    BY <1>1, <1>2, <2>1 DEF StillTrue
  <2>3. Lines = {} /\ Lines' = {}
    BY <2>1, <2>2 DEF TypeOK, Lines
  <2>4. OneHeader' /\ OneLine' /\ StillTrue(r)'
    BY <1>1, <2>1, <2>2, <2>3 DEF OneHeader, OneLine, StillTrue, Headers, TypeOK
  <2> QED BY <1>1, <2>1, <2>2, <2>4, OnlyRequest
<1>7. ASSUME NEW r \in Requests, UpsertReadsLine(r) PROVE Alone'
  <2> DEFINE q == request[r]
             found == {l \in LinesOf(q.header) : line[l].product = q.item.product}
  <2>1. PICK l \in IF found = {} THEN {NoRow} ELSE found :
            Goes(r, [at |-> "found", item |-> q.item, header |-> q.header, line |-> l,
                     count |-> IF l = NoRow THEN 0 ELSE line[l].count])
    BY <1>7 DEF UpsertReadsLine
  <2> DEFINE next == [at |-> "found", item |-> q.item, header |-> q.header, line |-> l,
                      count |-> IF l = NoRow THEN 0 ELSE line[l].count]
  <2>2. q.at = "upsert" /\ q.header # NoRow /\ UNCHANGED <<header, line>>
    BY <1>7 DEF UpsertReadsLine
  <2>3. q.header \in Headers /\ OneHeader /\ OneLine /\ r \in InProgress
    BY <1>1, <1>2, <2>1, <2>2 DEF StillTrue
  <2>4. LinesOf(q.header) = Lines
    BY <2>3 DEF LinesOf, OneHeader, TypeOK
  <2>5. l = NoRow => \A m \in Lines : line[m].product # q.item.product
    BY <2>1, <2>4, RowsAssumption DEF Lines
  <2>6. request'[r] = next
    BY <1>1, <2>1
  <2>7. StillTrue(r)'
    BY <2>2, <2>5, <2>6 DEF StillTrue, Headers, Lines
  <2>8. OneHeader' /\ OneLine'
    BY <2>2, <2>3 DEF OneHeader, OneLine, Headers, Lines
  <2> QED BY <1>1, <2>1, <2>3, <2>7, <2>8, OnlyRequest
<1>8. ASSUME NEW r \in Requests, AddLine(r) PROVE Alone'
  <2> DEFINE q == request[r]
  <2>1. Goes(r, Answered) /\ header' = header /\ q.at \in {"created", "found"}
    BY <1>8 DEF AddLine
  <2>2. OneHeader' /\ OneLine /\ StillTrue(r) /\ r \in InProgress
    BY <1>1, <1>2, <2>1 DEF OneHeader, Headers
  <2>3. \/ line' = line
        \/ /\ \E h \in Requests : line' = [line EXCEPT ![r] = [header |-> h, product |-> q.item.product,
                                                               count |-> q.item.count]]
           /\ \A l \in Lines : line[l].product # q.item.product
    <3>1. CASE q.at = "created"
      BY <1>8, <2>2, <3>1 DEF AddLine, InsertLine, StillTrue
    <3>2. CASE q.at = "found"
      <4>1. q.header \in Requests
        BY <3>2, RequestFields, TypeParts
      <4> QED BY <1>8, <2>2, <3>2, <4>1 DEF AddLine, InsertLine, StillTrue
    <3> QED BY <2>1, <3>1, <3>2
  <2>4. OneLine'
    <3>1. CASE line' = line
      BY <2>2, <3>1 DEF OneLine, Lines
    <3>2. CASE line' # line
      <4>1. PICK h \in Requests : line' = [line EXCEPT ![r] = [header |-> h, product |-> q.item.product,
                                                              count |-> q.item.count]]
        BY <2>3, <3>2
      <4>2. line'[r].product = q.item.product /\ \A l \in Requests \ {r} : line'[l] = line[l]
        BY <4>1 DEF TypeOK
      <4>3. \A l \in Lines' \ {r} : l \in Lines /\ line'[l].product = line[l].product
                                    /\ line[l].product # q.item.product
        BY <2>3, <3>2, <4>2 DEF Lines
      <4> QED BY <2>2, <4>2, <4>3 DEF OneLine
    <3> QED BY <3>1, <3>2
  <2> QED BY <1>4, <2>1, <2>2, <2>4
<1>9. ASSUME NEW r \in Requests, UpdateLine(r) PROVE Alone'
  <2> DEFINE m == request[r].line
  <2>1. Goes(r, Answered) /\ header' = header /\ request[r].at = "found" /\ m \in Requests
    BY <1>9, TypeParts, RequestFields DEF UpdateLine, Rows
  <2>2. OneHeader' /\ OneLine /\ r \in InProgress
    BY <1>1, <1>2, <2>1 DEF OneHeader, Headers
  <2>3. \A l \in Lines' : l \in Lines /\ line'[l].product = line[l].product
    <3>1. CASE line' = line
      BY <3>1 DEF Lines
    <3>2. CASE line' # line
      <4>1. line[m] # NoRow /\ line' = [line EXCEPT ![m].count = request[r].count + request[r].item.count]
        BY <1>9, <3>2 DEF UpdateLine
      <4>2. line[m] \in Line
        BY <2>1, <4>1 DEF TypeOK
      <4>3. line'[m].product = line[m].product /\ \A l \in Requests \ {m} : line'[l] = line[l]
        BY <2>1, <4>1, <4>2 DEF TypeOK, Line
      <4> QED BY <4>1, <4>3 DEF Lines
    <3> QED BY <3>1, <3>2
  <2>4. OneLine'
    BY <2>2, <2>3 DEF OneLine
  <2> QED BY <1>4, <2>1, <2>2, <2>4
<1>10. ASSUME NEW r \in Requests,
              RemoveReadsLine(r) \/ \E code \in Coupons \cup {NoCoupon} : CouponReadsHeader(r, code)
       PROVE  Alone'
  <2>1. ASSUME NEW next, Starts(r, next), next.at \in {"remove", "coupon"} PROVE Alone'
    <3>1. StillTrue(r)'
      BY <1>3, <2>1 DEF StillTrue
    <3> QED BY <1>3, <2>1, <3>1, OnlyRequest
  <2>2. CASE RemoveReadsLine(r)
    <3>1. PICK l \in Lines : Starts(r, [at |-> "remove", line |-> l, header |-> line[l].header])
      BY <2>2 DEF RemoveReadsLine
    <3> QED BY <2>1, <3>1
  <2>3. ASSUME NEW code \in Coupons \cup {NoCoupon}, CouponReadsHeader(r, code) PROVE Alone'
    <3>1. PICK h \in Headers : Starts(r, [at |-> "coupon", header |-> h, code |-> code])
      BY <2>3 DEF CouponReadsHeader
    <3> QED BY <2>1, <3>1
  <2> QED BY <1>10, <2>2, <2>3
<1>11. ASSUME NEW r \in Requests, RemoveCounts(r) PROVE Alone'
  <2>1. /\ request[r].at = "remove" /\ UNCHANGED <<header, line>>
        /\ \E next : Goes(r, next) /\ next.at = "counted"
    BY <1>11 DEF RemoveCounts
  <2>2. PICK next : Goes(r, next) /\ next.at = "counted"
    BY <2>1
  <2>3. OneHeader' /\ OneLine' /\ StillTrue(r)' /\ r \in InProgress
    BY <1>1, <1>2, <2>1, <2>2 DEF OneHeader, OneLine, StillTrue, Headers, Lines
  <2> QED BY <1>1, <2>2, <2>3, OnlyRequest
<1>12. ASSUME NEW r \in Requests, RemoveLine(r) PROVE Alone'
  <2>1. Goes(r, Answered) /\ request[r].at = "counted"
    BY <1>12 DEF RemoveLine
  <2>2. OneHeader /\ OneLine /\ r \in InProgress
    BY <1>1, <1>2, <2>1
  <2>3. /\ \A l \in Lines' : l \in Lines /\ line'[l] = line[l]
        /\ Headers' \subseteq Headers
    BY <1>12 DEF RemoveLine, Lines, Headers, TypeOK
  <2> QED BY <1>4, <2>1, <2>2, <2>3 DEF OneHeader, OneLine
<1>13. ASSUME NEW r \in Requests, SaveCoupon(r) PROVE Alone'
  <2>1. Goes(r, Answered) /\ request[r].at = "coupon" /\ line' = line
    BY <1>13 DEF SaveCoupon
  <2>2. OneHeader /\ OneLine /\ r \in InProgress
    BY <1>1, <1>2, <2>1
  <2>3. Headers' \subseteq Headers /\ OneLine'
    BY <1>13, <2>1, <2>2 DEF SaveCoupon, Headers, TypeOK, OneLine, Lines
  <2> QED BY <1>4, <2>1, <2>2, <2>3 DEF OneHeader
<1>14. ASSUME NEW r \in Requests, Stop(r) PROVE Alone'
  BY <1>1, <1>4, <1>14 DEF Stop, OneHeader, OneLine, Headers, Lines
<1> QED
  BY <1>0, <1>5, <1>6, <1>7, <1>8, <1>9, <1>10, <1>11, <1>12, <1>13, <1>14 DEF Next

LEMMA AloneHolds == Spec => []Alone
<1>1. Init => Alone
  BY NotInProgress DEF Init, Alone, OneHeader, OneLine, InProgress, Headers, Lines
<1> QED BY <1>1, TypeCorrect, StepKeepsAlone, PTL DEF Spec

(***************************************************************************)
(* Requests that do not overlap leave one header and one line of a         *)
(* product, wherever any of them stops; nothing in the database would say  *)
(* so if they did.                                                         *)
(***************************************************************************)
THEOREM AloneLeavesOneOfEach == Spec => []OneRowOfEach
<1>1. Alone => OneRowOfEach
  <2> SUFFICES ASSUME Alone, OneHeader PROVE OneRowOfEach
    BY DEF Alone, OneRowOfEach
  <2>1. Headers = {} \/ \E h \in Headers : Headers = {h}
    BY DEF OneHeader
  <2>2. Cardinality(Headers) <= 1
    BY <2>1, FS_EmptySet, FS_Singleton
  <2> QED BY <2>2 DEF Alone, OneLine, OneRowOfEach
<1> QED BY <1>1, AloneHolds, PTL
-----------------------------------------------------------------------------
(***************************************************************************)
(* A request addresses rows by what it has read of them.  A row keeps its  *)
(* product and its header as long as it is there, and never returns: the   *)
(* request that names it was answered when it inserted it.                 *)
(***************************************************************************)
Reads(r) ==
    LET q == request[r] IN
    /\ q.at = "found" /\ q.line # NoRow =>
           /\ request[q.line] = Answered
           /\ line[q.line] # NoRow => line[q.line].product = q.item.product
    /\ q.at \in {"remove", "counted"} =>
           /\ request[q.line] = Answered
           /\ line[q.line] # NoRow => line[q.line].header = q.header

Named ==
    /\ IsFiniteSet(Lines)
    /\ \A r \in Requests : request[r] # Answered => line[r] = NoRow
    /\ \A r \in Requests : Reads(r)

(* A save of request r changes the counts of rows, takes rows out, or inserts row r. *)
SavesLines(r) ==
    \A l \in Requests :
        \/ line'[l] \in {line[l], NoRow}
        \/ l = r /\ request'[r] = Answered
        \/ line[l] # NoRow /\ line'[l].product = line[l].product /\ line'[l].header = line[l].header

LEMMA SaveKeepsNamed ==
    ASSUME TypeOK, Named, NEW r \in Requests, NEW next, Takes(r, next),
           request[r].at # "answered", SavesLines(r), Reads(r)'
    PROVE  Named'
<1>1. request[r] # Answered /\ line[r] = NoRow
  BY DEF Answered, Named
<1>2. \A s \in Requests \ {r} : request'[s] = request[s]
  BY DEF TypeOK, Takes
<1>3. ASSUME NEW s \in Requests, request[s] = Answered PROVE request'[s] = Answered /\ s # r
  BY <1>1, <1>2, <1>3
<1>4. IsFiniteSet(Lines')
  <2>1. Lines' \subseteq Lines \cup {r}
    BY DEF SavesLines, Lines
  <2>2. IsFiniteSet(Lines \cup {r})
    BY FS_AddElement DEF Named
  <2> QED BY <2>1, <2>2, FS_Subset
<1>5. ASSUME NEW s \in Requests, request'[s] # Answered PROVE line'[s] = NoRow
  <2>1. line[s] = NoRow
    BY <1>1, <1>2, <1>5 DEF Named
  <2> QED BY <1>5, <2>1 DEF SavesLines
<1>6. ASSUME NEW s \in Requests \ {r} PROVE Reads(s)'
  <2> DEFINE q == request[s]
  <2>1. request'[s] = q /\ q \in Request /\ Reads(s)
    BY <1>2 DEF TypeOK, Named
  <2>2. ASSUME NEW l \in Requests, request[l] = Answered, line'[l] # NoRow
        PROVE  line[l] # NoRow /\ line'[l].product = line[l].product /\ line'[l].header = line[l].header
    BY <1>3, <2>2 DEF SavesLines
  <2>3. q.at \in {"remove", "counted"} \/ (q.at = "found" /\ q.line # NoRow) => q.line \in Requests
    BY <2>1, RequestFields DEF Rows
  <2> QED BY <1>3, <2>1, <2>2, <2>3 DEF Reads
<1> QED BY <1>4, <1>5, <1>6 DEF Named

LEMMA StepKeepsNamed == TypeOK /\ Named /\ [Next]_vars => Named'
<1> SUFFICES ASSUME TypeOK, Named, [Next]_vars PROVE Named'
  OBVIOUS
<1>0. CASE UNCHANGED vars
  BY <1>0 DEF vars, Named, Reads, Lines
<1>1. ASSUME NEW r \in Requests, NEW next, Starts(r, next) PROVE request'[r] = next /\ SavesLines(r)
             /\ request[r].at # "answered" /\ Takes(r, next)
  BY <1>1 DEF Starts, Takes, SavesLines, TypeOK, Waiting
<1>2. ASSUME NEW r \in Requests, NEW next, Goes(r, next) PROVE request'[r] = next /\ Takes(r, next)
  BY <1>2 DEF Goes, Takes, TypeOK
<1>3. ASSUME NEW r \in Requests, Goes(r, Answered), request[r].at # "answered", SavesLines(r) PROVE Named'
  <2>1. Reads(r)'
    BY <1>2, <1>3 DEF Reads, Answered
  <2> QED BY <1>2, <1>3, <2>1, SaveKeepsNamed
<1>4. ASSUME NEW l \in Lines PROVE l \in Requests /\ request[l] = Answered /\ l # NoRow /\ line[l] # NoRow
  BY RowsAssumption DEF Lines, Named
<1>5. ASSUME NEW r \in Requests, NEW next, Takes(r, next), request[r].at # "answered", line' = line
      PROVE  /\ SavesLines(r)
             /\ \A l \in Lines : request'[l] = Answered
  BY <1>4, <1>5 DEF SavesLines, Takes, TypeOK, Answered
<1>6. ASSUME NEW r \in Requests, NEW i \in Item, UpsertReadsHeader(r, i) PROVE Named'
  <2>1. PICK h \in AnyHeader : Starts(r, [at |-> "upsert", item |-> i, header |-> h])
    BY <1>6 DEF UpsertReadsHeader
  <2>2. Reads(r)'
    BY <1>1, <2>1 DEF Reads
  <2> QED BY <1>1, <2>1, <2>2, SaveKeepsNamed
<1>7. ASSUME NEW r \in Requests, CreateHeader(r) PROVE Named'
  <2>1. /\ Goes(r, [at |-> "created", item |-> request[r].item]) /\ request[r].at = "upsert" /\ line' = line
    BY <1>7 DEF CreateHeader
  <2>2. Reads(r)'
    BY <1>2, <2>1 DEF Reads
  <2> QED BY <1>2, <1>5, <2>1, <2>2, SaveKeepsNamed
<1>8. ASSUME NEW r \in Requests, UpsertReadsLine(r) PROVE Named'
  <2> DEFINE q == request[r]
             found == {l \in LinesOf(q.header) : line[l].product = q.item.product}
  <2>1. PICK l \in IF found = {} THEN {NoRow} ELSE found :
            Goes(r, [at |-> "found", item |-> q.item, header |-> q.header, line |-> l,
                     count |-> IF l = NoRow THEN 0 ELSE line[l].count])
    BY <1>8 DEF UpsertReadsLine
  <2> DEFINE next == [at |-> "found", item |-> q.item, header |-> q.header, line |-> l,
                      count |-> IF l = NoRow THEN 0 ELSE line[l].count]
  <2>2. q.at = "upsert" /\ line' = line /\ request'[r] = next /\ Takes(r, next)
    BY <1>2, <1>8, <2>1 DEF UpsertReadsLine
  <2>3. l # NoRow => l \in Lines /\ line[l].product = q.item.product
    BY <2>1 DEF LinesOf
  <2>4. l # NoRow => request'[l] = Answered
    BY <1>5, <2>2, <2>3
  <2>5. /\ request'[r].at = "found" /\ request'[r].line = l /\ request'[r].item = q.item
    BY <2>2
  <2>6. Reads(r)'
    BY <2>2, <2>3, <2>4, <2>5 DEF Reads
  <2> QED BY <1>5, <2>2, <2>6, SaveKeepsNamed
<1>9. ASSUME NEW r \in Requests, AddLine(r) PROVE Named'
  <2>1. Goes(r, Answered) /\ request[r].at \in {"created", "found"}
    BY <1>9 DEF AddLine
  <2>2. SavesLines(r)
    BY <1>2, <1>9, <2>1 DEF AddLine, InsertLine, SavesLines, TypeOK
  <2> QED BY <1>3, <2>1, <2>2
<1>10. ASSUME NEW r \in Requests, UpdateLine(r) PROVE Named'
  <2> DEFINE k == request[r].line
  <2>1. Goes(r, Answered) /\ request[r].at = "found" /\ k \in Requests
    BY <1>10, TypeParts, RequestFields DEF UpdateLine, Rows
  <2>2. SavesLines(r)
    <3>1. CASE line[k] = NoRow
      BY <1>10, <3>1 DEF UpdateLine, SavesLines
    <3>2. CASE line[k] # NoRow
      <4>1. line' = [line EXCEPT ![k].count = request[r].count + request[r].item.count] /\ line[k] \in Line
        BY <1>10, <2>1, <3>2 DEF UpdateLine, TypeOK
      <4>2. line'[k].product = line[k].product /\ line'[k].header = line[k].header
        BY <2>1, <4>1 DEF TypeOK, Line
      <4>3. \A l \in Requests \ {k} : line'[l] = line[l]
        BY <4>1 DEF TypeOK
      <4> QED BY <3>2, <4>2, <4>3 DEF SavesLines
    <3> QED BY <3>1, <3>2
  <2> QED BY <1>3, <2>1, <2>2
<1>11. ASSUME NEW r \in Requests, RemoveReadsLine(r) PROVE Named'
  <2>1. PICK l \in Lines : Starts(r, [at |-> "remove", line |-> l, header |-> line[l].header])
    BY <1>11 DEF RemoveReadsLine
  <2>2. /\ request'[r].at = "remove" /\ request'[r].line = l /\ request'[r].header = line[l].header
        /\ line' = line
    BY <1>1, <2>1 DEF Starts
  <2>3. request'[l] = Answered
    BY <1>1, <1>5, <2>1, <2>2
  <2>4. Reads(r)'
    BY <2>2, <2>3 DEF Reads
  <2> QED BY <1>1, <2>1, <2>4, SaveKeepsNamed
<1>12. ASSUME NEW r \in Requests, RemoveCounts(r) PROVE Named'
  <2> DEFINE q == request[r]
             next == [at |-> "counted", line |-> q.line, header |-> q.header,
                      last |-> Cardinality(LinesOf(q.header)) = 1]
  <2>1. q.at = "remove" /\ line' = line /\ Takes(r, next) /\ request'[r] = next
    BY <1>2, <1>12 DEF RemoveCounts
  <2>2. request[q.line] = Answered /\ (line[q.line] # NoRow => line[q.line].header = q.header)
    BY <2>1 DEF Named, Reads
  <2>3. q.line \in Requests /\ q.line # r
    BY <2>1, <2>2, TypeParts, RequestFields DEF Answered
  <2>4. request'[q.line] = Answered
    BY <2>1, <2>2, <2>3 DEF Takes, TypeOK
  <2>5. request'[r].at = "counted" /\ request'[r].line = q.line /\ request'[r].header = q.header
    BY <2>1
  <2>6. Reads(r)'
    BY <2>1, <2>2, <2>4, <2>5 DEF Reads
  <2> QED BY <1>5, <2>1, <2>6, SaveKeepsNamed
<1>13. ASSUME NEW r \in Requests, RemoveLine(r) PROVE Named'
  <2>1. Goes(r, Answered) /\ request[r].at = "counted" /\ SavesLines(r)
    BY <1>13 DEF RemoveLine, SavesLines
  <2> QED BY <1>3, <2>1
<1>14. ASSUME NEW r \in Requests, NEW code \in Coupons \cup {NoCoupon}, CouponReadsHeader(r, code)
       PROVE  Named'
  <2>1. PICK h \in Headers : Starts(r, [at |-> "coupon", header |-> h, code |-> code])
    BY <1>14 DEF CouponReadsHeader
  <2>2. Reads(r)'
    BY <1>1, <2>1 DEF Reads
  <2> QED BY <1>1, <2>1, <2>2, SaveKeepsNamed
<1>15. ASSUME NEW r \in Requests, SaveCoupon(r) \/ Stop(r) PROVE Named'
  <2>1. Goes(r, Answered) /\ request[r].at # "answered" /\ line' = line
    <3>1. CASE SaveCoupon(r)
      BY <3>1 DEF SaveCoupon
    <3>2. CASE Stop(r)
      <4>1. request[r] \in Request /\ request[r] \notin {Waiting, Answered}
        BY <3>2 DEF Stop, InProgress, TypeOK
      <4> QED BY <3>2, <4>1 DEF Stop, Request
    <3> QED BY <1>15, <3>1, <3>2
  <2> QED BY <1>2, <1>3, <1>5, <2>1
<1> QED
  BY <1>0, <1>6, <1>7, <1>8, <1>9, <1>10, <1>11, <1>12, <1>13, <1>14, <1>15 DEF Next

LEMMA NamedHolds == Spec => []Named
<1>1. Init => Named
  <2> SUFFICES ASSUME Init PROVE Named
    OBVIOUS
  <2>1. Lines = {} /\ \A r \in Requests : request[r] = Waiting /\ line[r] = NoRow
    BY DEF Init, Lines
  <2>2. \A r \in Requests : Reads(r)
    BY <2>1 DEF Reads, Waiting
  <2> QED BY <2>1, <2>2, FS_EmptySet DEF Named
<1> QED BY <1>1, TypeCorrect, StepKeepsNamed, PTL DEF Spec
-----------------------------------------------------------------------------
LinesFor(p) == {l \in Lines : line[l].product = p}
Count == [l \in Requests |-> line[l].count]

LEMMA PiecesIsSum ==
    ASSUME IsFiniteSet(Lines), NEW p
    PROVE  Pieces(p) = Sum(Count, LinesFor(p))
<1> DEFINE T == LinesFor(p)
           Counting(g) == g = [s \in SUBSET T |-> IF s = {} THEN 0 ELSE line[Some(s)].count + g[s \ {Some(s)}]]
<1>0. IsFiniteSet(T) /\ T \subseteq Requests
  BY FS_Subset DEF LinesFor, Lines
<1>1. Pieces(p) = (CHOOSE g : Counting(g))[T]
  BY DEF Pieces, MapThenSumSet, MapThenFoldSet, Some, LinesFor
<1> HIDE DEF T
<1>2. \A s \in SUBSET T : s # {} => Count[Some(s)] = line[Some(s)].count
  BY <1>0, SomeElement DEF Count
<1>3. \A g : Counting(g) <=> Adds(g, Count, T)
  <2> SUFFICES ASSUME NEW g PROVE Counting(g) <=> Adds(g, Count, T)
    OBVIOUS
  <2>1. [s \in SUBSET T |-> IF s = {} THEN 0 ELSE line[Some(s)].count + g[s \ {Some(s)}]]
        = [s \in SUBSET T |-> IF s = {} THEN 0 ELSE Count[Some(s)] + g[s \ {Some(s)}]]
    BY <1>2
  <2> QED BY <2>1 DEF Adds
<1> HIDE DEF Counting
<1>4. Counting(CHOOSE g : Counting(g))
  BY <1>0, <1>3, FoldExists
<1> DEFINE h == CHOOSE g : Counting(g)
<1>5. Adds(h, Count, T)
  BY <1>3, <1>4
<1> HIDE DEF h
<1>6. h[T] = Sum(Count, T)
  BY <1>0, <1>5, SumOfFold
<1> QED BY <1>1, <1>6 DEF h, T

(***************************************************************************)
(* What each line could still become: no less than its count and than the  *)
(* count any request in progress has read of it, which that request may    *)
(* save over a later one.  Such a save makes a product lost.               *)
(***************************************************************************)
Covers(m) ==
    /\ \A l \in Lines : line[l].count <= m[l]
    /\ \A r \in Requests : request[r].at = "found" /\ request[r].line \in Lines
                               => request[r].count <= m[request[r].line]
    /\ \A p \in Products : Sum(m, LinesFor(p)) + removed[p] <= added[p]

Accounted ==
    /\ \E m \in [Requests -> Nat] : Covers(m)
    /\ \A p \in Products \ lost : Sum(Count, LinesFor(p)) + removed[p] = added[p]

LEMMA LineSums ==
    ASSUME TypeOK, Named, NEW p
    PROVE  /\ IsFiniteSet(LinesFor(p)) /\ LinesFor(p) \subseteq Requests
           /\ \A l \in LinesFor(p) : Count[l] \in Nat /\ Count[l] = line[l].count
           /\ Sum(Count, LinesFor(p)) \in Nat
           /\ \A m \in [Requests -> Nat] : Sum(m, LinesFor(p)) \in Nat
<1>1. IsFiniteSet(LinesFor(p)) /\ LinesFor(p) \subseteq Requests
  BY FS_Subset DEF Named, LinesFor, Lines
<1>2. \A l \in LinesFor(p) : Count[l] \in Nat /\ Count[l] = line[l].count
  BY LineFields DEF LinesFor, Lines, TypeOK, Count
<1>3. Sum(Count, LinesFor(p)) \in Nat
  BY <1>1, <1>2, SumIsNumber
<1>4. ASSUME NEW m \in [Requests -> Nat] PROVE Sum(m, LinesFor(p)) \in Nat
  <2>1. \A l \in LinesFor(p) : m[l] \in Nat
    BY <1>1
  <2> QED BY <1>1, <2>1, SumIsNumber
<1> QED BY <1>1, <1>2, <1>3, <1>4

(* The claim of the runs: what covers a line is no less than its count. *)
LEMMA AccountedIsEnough == TypeOK /\ Named /\ Accounted => PiecesAreAccountedFor
<1> SUFFICES ASSUME TypeOK, Named, Accounted, NEW p \in Products
             PROVE  /\ Pieces(p) + removed[p] <= added[p]
                    /\ p \notin lost => Pieces(p) + removed[p] = added[p]
  BY DEF PiecesAreAccountedFor
<1>1. PICK m \in [Requests -> Nat] : Covers(m)
  BY DEF Accounted
<1>2. Pieces(p) = Sum(Count, LinesFor(p))
  BY PiecesIsSum DEF Named
<1>3. \A l \in LinesFor(p) : Count[l] \in Nat /\ m[l] \in Nat /\ Count[l] <= m[l]
  BY <1>1, LineSums DEF Covers, LinesFor
<1>4. Sum(Count, LinesFor(p)) <= Sum(m, LinesFor(p))
  BY <1>3, LineSums, SumOrdered
<1>5. /\ Sum(Count, LinesFor(p)) \in Nat /\ Sum(m, LinesFor(p)) \in Nat
      /\ removed[p] \in Nat /\ added[p] \in Nat
      /\ Sum(m, LinesFor(p)) + removed[p] <= added[p]
  BY <1>1, LineSums DEF Covers, TypeOK
<1> QED BY <1>2, <1>4, <1>5 DEF Accounted
-----------------------------------------------------------------------------
(* Only reads: a count that was read is the count of the line. *)
LEMMA ReadingKeepsAccounts ==
    ASSUME TypeOK, Accounted, UNCHANGED <<line, ghosts>>,
           \A r \in Requests : request'[r].at = "found" /\ request'[r].line \in Lines =>
               request'[r] = request[r] \/ request'[r].count = line[request'[r].line].count
    PROVE  Accounted'
<1>1. Lines' = Lines /\ Count' = Count /\ \A p : LinesFor(p)' = LinesFor(p)
  BY DEF Lines, Count, LinesFor
<1>2. PICK m \in [Requests -> Nat] : Covers(m)
  BY DEF Accounted
<1>3. Covers(m)'
  <2>1. \A l \in Lines' : line'[l].count <= m[l]
    BY <1>1, <1>2 DEF Covers
  <2>2. \A r \in Requests : request'[r].at = "found" /\ request'[r].line \in Lines'
                                => request'[r].count <= m[request'[r].line]
    BY <1>1, <1>2 DEF Covers
  <2>3. \A p \in Products : Sum(m, LinesFor(p)') + removed'[p] <= added'[p]
    BY <1>1, <1>2 DEF Covers, ghosts
  <2> QED BY <2>1, <2>2, <2>3 DEF Covers
<1>4. \A p \in Products \ lost' : Sum(Count', LinesFor(p)') + removed'[p] = added'[p]
  BY <1>1 DEF Accounted, ghosts
<1> QED BY <1>3, <1>4 DEF Accounted

(* No request in progress has read a line of a request that is not answered. *)
LEMMA ReadOfAnswered ==
    ASSUME TypeOK, Named, NEW r \in Requests, request[r].at = "found", request[r].line \in Requests
    PROVE  request[request[r].line] = Answered
BY RowsAssumption DEF Named, Reads

LEMMA InsertKeepsAccounts ==
    ASSUME TypeOK, Named, Accounted, NEW r \in Requests, request[r] # Answered,
           NEW h \in Requests, NEW i \in Item, InsertLine(r, h, i),
           Goes(r, Answered), UNCHANGED <<removed, lost>>
    PROVE  Accounted'
<1>1. request' = [request EXCEPT ![r] = Answered] /\ line[r] = NoRow /\ r \notin Lines
  BY DEF Goes, Takes, Named, Lines
<1>2. \A s \in Requests : request'[s].at = "found" => s # r /\ request'[s] = request[s]
  BY <1>1 DEF TypeOK, Answered
<1>3. CASE UNCHANGED <<line, added>>
  BY <1>2, <1>3, ReadingKeepsAccounts DEF ghosts
<1>4. CASE ~UNCHANGED <<line, added>>
  <2> DEFINE k == [header |-> h, product |-> i.product, count |-> i.count]
             c == i.count
             t == i.product
  <2>1. /\ line' = [line EXCEPT ![r] = k] /\ added' = [added EXCEPT ![t] = @ + c]
        /\ k # NoRow
    <3>1. line' = [line EXCEPT ![r] = k] /\ added' = [added EXCEPT ![t] = @ + c]
      BY <1>4 DEF InsertLine
    <3>2. k \in Line
      BY ItemFields DEF Line
    <3>3. k # NoRow
      BY <3>2, RowsAssumption DEF Line
    <3> QED BY <3>1, <3>3
  <2>2. c \in Nat /\ t \in Products /\ k.count = c /\ k.product = t
    BY ItemFields
  <2> HIDE DEF k, c, t
  <2>3. line'[r] = k /\ \A l \in Requests \ {r} : line'[l] = line[l]
    BY <2>1 DEF TypeOK
  <2>4. /\ Lines' = Lines \cup {r}
        /\ LinesFor(t)' = LinesFor(t) \cup {r} /\ r \notin LinesFor(t)
        /\ \A p : p # t => LinesFor(p)' = LinesFor(p)
    BY <1>1, <2>1, <2>2, <2>3 DEF Lines, LinesFor
  <2>5. added'[t] = added[t] + c /\ \A p \in Products \ {t} : added'[p] = added[p]
    BY <2>1, <2>2 DEF TypeOK
  <2>6. added[t] \in Nat /\ removed[t] \in Nat
    BY <2>2 DEF TypeOK
  <2>7. PICK m \in [Requests -> Nat] : Covers(m)
    BY DEF Accounted
  <2>8. PICK n \in [Requests -> Nat] : n = [m EXCEPT ![r] = c]
    BY <2>2
  <2>9. n[r] = c /\ \A l \in Requests \ {r} : n[l] = m[l]
    BY <2>8
  <2>10. Sum(n, LinesFor(t) \cup {r}) = c + Sum(m, LinesFor(t))
    <3>1. /\ IsFiniteSet(LinesFor(t)) /\ \A l \in LinesFor(t) : n[l] = m[l]
          /\ \A l \in LinesFor(t) \cup {r} : n[l] \in Nat
      BY <2>4, <2>9, LineSums
    <3>2. Sum(n, LinesFor(t)) = Sum(m, LinesFor(t))
      BY <3>1, SumOfSame
    <3>3. Sum(n, LinesFor(t) \cup {r}) = n[r] + Sum(n, LinesFor(t))
      BY <2>4, <3>1, SumWith
    <3> QED BY <2>9, <3>2, <3>3
  <2>11. ASSUME NEW p, p # t PROVE Sum(n, LinesFor(p)) = Sum(m, LinesFor(p))
    <3>1. IsFiniteSet(LinesFor(p)) /\ \A l \in LinesFor(p) : n[l] = m[l]
      BY <1>1, <2>9, LineSums DEF LinesFor
    <3> QED BY <3>1, SumOfSame
  <2>12. Covers(n)'
    <3>1. \A l \in Lines' : line'[l].count <= n[l]
      BY <1>1, <2>2, <2>3, <2>4, <2>7, <2>9 DEF Covers, Lines
    <3>2. ASSUME NEW s \in Requests, request'[s].at = "found", request'[s].line \in Lines'
          PROVE  request'[s].count <= n[request'[s].line]
      <4>1. request'[s] = request[s] /\ request[s].line \in Requests
        BY <1>2, <3>2 DEF Lines
      <4>2. request[s].line # r
        BY <3>2, <4>1, ReadOfAnswered
      <4> QED BY <2>4, <2>7, <2>9, <3>2, <4>1, <4>2 DEF Covers
    <3>3. ASSUME NEW p \in Products PROVE Sum(n, LinesFor(p)') + removed'[p] <= added'[p]
      <4>1. Sum(m, LinesFor(p)) + removed[p] <= added[p] /\ Sum(m, LinesFor(p)) \in Nat
        BY <2>7, LineSums DEF Covers
      <4>2. CASE p = t
        <5>1. Sum(n, LinesFor(p)') = c + Sum(m, LinesFor(p))
          BY <2>4, <2>10, <4>2
        <5>2. removed'[p] = removed[p] /\ added'[p] = added[p] + c
          BY <2>5, <4>2
        <5> QED BY <2>2, <2>6, <4>1, <4>2, <5>1, <5>2
      <4>3. CASE p # t
        BY <2>4, <2>5, <2>11, <4>1, <4>3
      <4> QED BY <4>2, <4>3
    <3> QED BY <3>1, <3>2, <3>3 DEF Covers
  <2>13. ASSUME NEW p \in Products \ lost PROVE Sum(Count', LinesFor(p)') + removed'[p] = added'[p]
    <3>1. \A l \in LinesFor(p) : Count'[l] = Count[l]
      BY <1>1, <2>3 DEF Count, LinesFor, Lines
    <3>2. /\ IsFiniteSet(LinesFor(p)) /\ Sum(Count, LinesFor(p)) \in Nat
          /\ \A l \in LinesFor(p) : Count[l] \in Nat
      BY LineSums
    <3>3. Sum(Count', LinesFor(p)) = Sum(Count, LinesFor(p))
      BY <3>1, <3>2, SumOfSame
    <3>4. CASE p = t
      <4>1. Count'[r] = c
        BY <2>2, <2>3 DEF Count
      <4>2. \A l \in LinesFor(t) \cup {r} : Count'[l] \in Nat
        BY <2>2, <3>1, <3>2, <3>4, <4>1
      <4>3. Sum(Count', LinesFor(t) \cup {r}) = c + Sum(Count', LinesFor(t))
        BY <2>4, <3>2, <3>4, <4>1, <4>2, SumWith
      <4>4. Sum(Count', LinesFor(p)') = c + Sum(Count, LinesFor(p))
        BY <2>4, <3>3, <3>4, <4>3
      <4>5. Sum(Count, LinesFor(p)) + removed[p] = added[p]
        BY DEF Accounted
      <4>6. removed'[p] = removed[p] /\ added'[p] = added[p] + c
        BY <2>5, <3>4
      <4> QED BY <2>2, <2>6, <3>2, <3>4, <4>4, <4>5, <4>6
    <3>5. CASE p # t
      BY <2>4, <2>5, <3>3, <3>5 DEF Accounted
    <3> QED BY <3>4, <3>5
  <2> QED BY <2>12, <2>13 DEF Accounted
<1> QED BY <1>3, <1>4

(* A count is saved: what covers the line grows with it, even if the count falls. *)
LEMMA UpdateKeepsAccounts ==
    ASSUME TypeOK, Named, Accounted, NEW r \in Requests, UpdateLine(r)
    PROVE  Accounted'
<1> DEFINE q == request[r]
           k == q.line
           c == q.item.count
           t == q.item.product
<1>1. q.item \in Item /\ q.count \in Nat /\ q.at = "found" /\ k \in Requests /\ k # NoRow
  BY TypeParts, RequestFields DEF UpdateLine, Rows
<1>2. c \in Nat /\ t \in Products
  BY <1>1, ItemFields
<1>3. request' = [request EXCEPT ![r] = Answered] /\ UNCHANGED removed
  BY DEF UpdateLine, Goes, Takes
<1>4. \A s \in Requests : request'[s].at = "found" => s # r /\ request'[s] = request[s]
  BY <1>3 DEF TypeOK, Answered
<1>5. CASE line[k] = NoRow
  BY <1>3, <1>4, <1>5, ReadingKeepsAccounts DEF UpdateLine, ghosts
<1>6. CASE line[k] # NoRow
  <2>1. /\ line' = [line EXCEPT ![k].count = q.count + c]
        /\ added' = [added EXCEPT ![t] = @ + c]
        /\ lost' = IF q.count = line[k].count THEN lost ELSE lost \cup {t}
    BY <1>6 DEF UpdateLine
  <2>2. line[k] \in Line /\ line[k].product = t
    BY <1>1, <1>6 DEF TypeOK, Named, Reads
  <2>3. /\ line'[k] # NoRow /\ line'[k].product = t /\ line'[k].count = q.count + c
        /\ \A l \in Requests \ {k} : line'[l] = line[l]
    <3>1. line'[k] = [line[k] EXCEPT !.count = q.count + c]
      BY <1>1, <2>1 DEF TypeOK
    <3>2. line'[k] \in Line
      BY <1>1, <1>2, <2>2, <3>1 DEF Line
    <3>3. \A l \in Requests \ {k} : line'[l] = line[l]
      BY <2>1 DEF TypeOK
    <3> QED BY <2>2, <3>1, <3>2, <3>3, RowsAssumption DEF Line
  <2>4. Lines' = Lines /\ \A p : LinesFor(p)' = LinesFor(p)
    BY <1>1, <1>6, <2>2, <2>3 DEF Lines, LinesFor
  <2>5. k \in LinesFor(t) /\ \A p : p # t => k \notin LinesFor(p)
    BY <1>1, <1>6, <2>2 DEF Lines, LinesFor
  <2>6. added'[t] = added[t] + c /\ \A p \in Products \ {t} : added'[p] = added[p]
    BY <1>2, <2>1 DEF TypeOK
  <2>7. \A p \in Products : added[p] \in Nat /\ removed[p] \in Nat
    BY DEF TypeOK
  <2>8. PICK m \in [Requests -> Nat] : Covers(m)
    BY DEF Accounted
  <2>9. PICK n \in [Requests -> Nat] : n = [m EXCEPT ![k] = @ + c]
    <3> HIDE DEF k, c
    <3>1. m[k] + c \in Nat
      BY <1>1, <1>2
    <3> QED BY <3>1
  <2>10. n[k] = m[k] + c /\ \A l \in Requests \ {k} : n[l] = m[l]
    BY <1>1, <2>9
  <2>11. q.count <= m[k]
    BY <1>1, <1>6, <2>8 DEF Covers, Lines
  <2> HIDE DEF k, c, t, q
  <2>12. Sum(n, LinesFor(t)) = Sum(m, LinesFor(t)) + c
    <3>1. /\ IsFiniteSet(LinesFor(t)) /\ \A l \in LinesFor(t) : m[l] \in Nat /\ n[l] \in Nat
          /\ \A l \in LinesFor(t) \ {k} : n[l] = m[l]
          /\ Sum(m, LinesFor(t)) \in Nat /\ Sum(n, LinesFor(t)) \in Nat
      BY <2>10, LineSums
    <3>2. Sum(n, LinesFor(t)) + m[k] = Sum(m, LinesFor(t)) + n[k]
      BY <2>5, <3>1, SumChanged
    <3> QED BY <1>1, <1>2, <2>10, <3>1, <3>2
  <2>13. ASSUME NEW p, p # t PROVE Sum(n, LinesFor(p)) = Sum(m, LinesFor(p))
    <3>1. IsFiniteSet(LinesFor(p)) /\ \A l \in LinesFor(p) : n[l] = m[l]
      BY <2>5, <2>10, <2>13, LineSums
    <3> QED BY <3>1, SumOfSame
  <2>14. Covers(n)'
    <3>1. \A l \in Lines' : line'[l].count <= n[l]
      <4>1. ASSUME NEW l \in Lines' PROVE line'[l].count <= n[l]
        <5>1. l \in Lines /\ l \in Requests
          BY <2>4 DEF Lines
        <5>2. CASE l = k
          BY <1>1, <1>2, <2>3, <2>10, <2>11, <5>2
        <5>3. CASE l # k
          BY <2>3, <2>8, <2>10, <5>1, <5>3 DEF Covers
        <5> QED BY <5>2, <5>3
      <4> QED BY <4>1
    <3>2. ASSUME NEW s \in Requests, request'[s].at = "found", request'[s].line \in Lines'
          PROVE  request'[s].count <= n[request'[s].line]
      <4>1. request'[s] = request[s] /\ request[s].line \in Requests /\ request[s].line \in Lines
        BY <1>4, <2>4, <3>2 DEF Lines
      <4>2. request[s].count <= m[request[s].line] /\ request[s].count \in Nat
        BY <2>8, <3>2, <4>1, TypeParts, RequestFields DEF Covers
      <4>3. m[request[s].line] \in Nat /\ m[request[s].line] <= n[request[s].line]
        <5>1. m[request[s].line] \in Nat
          BY <4>1
        <5>2. CASE request[s].line = k
          BY <1>2, <2>10, <5>1, <5>2
        <5>3. CASE request[s].line # k
          BY <2>10, <4>1, <5>1, <5>3
        <5> QED BY <5>1, <5>2, <5>3
      <4>4. n[request[s].line] \in Nat
        BY <4>1
      <4> QED BY <4>1, <4>2, <4>3, <4>4
    <3>3. ASSUME NEW p \in Products PROVE Sum(n, LinesFor(p)') + removed'[p] <= added'[p]
      <4>1. Sum(m, LinesFor(p)) + removed[p] <= added[p] /\ Sum(m, LinesFor(p)) \in Nat
        BY <2>8, LineSums DEF Covers
      <4>2. CASE p = t
        <5>1. Sum(n, LinesFor(p)') = Sum(m, LinesFor(p)) + c
          BY <2>4, <2>12, <4>2
        <5>2. removed'[p] = removed[p] /\ added'[p] = added[p] + c
          BY <1>3, <2>6, <4>2
        <5> QED BY <1>2, <2>7, <4>1, <4>2, <5>1, <5>2
      <4>3. CASE p # t
        BY <1>3, <2>4, <2>6, <2>13, <4>1, <4>3
      <4> QED BY <4>2, <4>3
    <3> QED BY <3>1, <3>2, <3>3 DEF Covers
  <2>15. ASSUME NEW p \in Products \ lost' PROVE Sum(Count', LinesFor(p)') + removed'[p] = added'[p]
    <3>0. p \in Products \ lost /\ (p = t => q.count = line[k].count)
      BY <2>1, <2>15
    <3>1. /\ IsFiniteSet(LinesFor(p)) /\ LinesFor(p) \subseteq Requests
          /\ Sum(Count, LinesFor(p)) \in Nat
          /\ \A l \in LinesFor(p) : Count[l] \in Nat
      BY LineSums
    <3>2. \A l \in LinesFor(p) \ {k} : Count'[l] = Count[l]
      BY <2>3, <3>1 DEF Count
    <3>3. Sum(Count, LinesFor(p)) + removed[p] = added[p]
      BY <3>0 DEF Accounted
    <3>4. CASE p = t
      <4>1. Count[k] = q.count /\ Count'[k] = q.count + c
        BY <1>1, <2>3, <3>0, <3>4 DEF Count
      <4>2. \A l \in LinesFor(p) : Count[l] \in Nat /\ Count'[l] \in Nat
        BY <1>1, <1>2, <3>1, <3>2, <4>1
      <4>3. Sum(Count', LinesFor(p)) + Count[k] = Sum(Count, LinesFor(p)) + Count'[k]
        BY <2>5, <3>1, <3>2, <3>4, <4>2, SumChanged
      <4>4. Sum(Count', LinesFor(p)) \in Nat
        BY <3>1, <4>2, SumIsNumber
      <4>5. Sum(Count', LinesFor(p)) = Sum(Count, LinesFor(p)) + c
        BY <1>1, <1>2, <3>1, <4>1, <4>3, <4>4
      <4>6. removed'[p] = removed[p] /\ added'[p] = added[p] + c
        BY <1>3, <2>6, <3>4
      <4> QED BY <1>2, <2>4, <2>7, <3>1, <3>3, <4>5, <4>6
    <3>5. CASE p # t
      <4>1. Sum(Count', LinesFor(p)) = Sum(Count, LinesFor(p))
        BY <2>5, <3>1, <3>2, <3>5, SumOfSame
      <4> QED BY <1>3, <2>4, <2>6, <3>3, <3>5, <4>1
    <3> QED BY <3>4, <3>5
  <2> QED BY <2>14, <2>15 DEF Accounted
<1> QED BY <1>5, <1>6

(* Lines are taken out: the one that was asked for is counted, the others are lost. *)
LEMMA RemoveKeepsAccounts ==
    ASSUME TypeOK, Named, Accounted, NEW r \in Requests, RemoveLine(r)
    PROVE  Accounted'
<1> DEFINE q == request[r]
           k == q.line
           t == line[k].product
           swept == IF q.last THEN LinesOf(q.header) ELSE {k}
<1>1. k \in Requests /\ q.at = "counted"
  BY TypeParts, RequestFields DEF RemoveLine
<1>2. request' = [request EXCEPT ![r] = Answered] /\ added' = added
  BY DEF RemoveLine, Goes, Takes
<1>3. \A s \in Requests : request'[s].at = "found" => s # r /\ request'[s] = request[s]
  BY <1>2 DEF TypeOK, Answered
<1>4. CASE line[k] = NoRow
  BY <1>2, <1>3, <1>4, ReadingKeepsAccounts DEF RemoveLine, ghosts
<1>5. CASE line[k] # NoRow
  <2>1. /\ line' = [l \in Requests |-> IF l \in swept THEN NoRow ELSE line[l]]
        /\ removed' = [removed EXCEPT ![t] = @ + line[k].count]
        /\ lost' = lost \cup {line[l].product : l \in swept \ {k}}
    BY <1>5 DEF RemoveLine
  <2>2. t \in Products /\ line[k].count \in Nat /\ k \in Lines
    BY <1>1, <1>5, LineFields DEF TypeOK, Lines
  <2>3. k \in swept
    BY <1>1, <1>5 DEF Named, Reads, LinesOf, Lines
  <2> HIDE DEF swept, t, k, q
  <2>4. /\ Lines' = Lines \ swept /\ \A p : LinesFor(p)' = LinesFor(p) \ swept
        /\ \A l \in Lines' : line'[l] = line[l]
    <3>1. Lines' = Lines \ swept
      BY <2>1 DEF Lines
    <3>2. \A l \in Lines' : line'[l] = line[l]
      BY <2>1, <3>1 DEF Lines
    <3> QED BY <3>1, <3>2 DEF LinesFor
  <2>5. k \in LinesFor(t) /\ \A p : p # t => k \notin LinesFor(p)
    BY <2>2 DEF LinesFor, t
  <2>6. removed'[t] = removed[t] + line[k].count /\ \A p \in Products \ {t} : removed'[p] = removed[p]
    BY <2>1, <2>2 DEF TypeOK
  <2>7. \A p \in Products : added[p] \in Nat /\ removed[p] \in Nat
    BY DEF TypeOK
  <2>8. PICK m \in [Requests -> Nat] : Covers(m)
    BY DEF Accounted
  <2>9. m[k] \in Nat /\ line[k].count <= m[k]
    BY <1>1, <2>2, <2>8 DEF Covers
  <2>10. ASSUME NEW p \in Products
         PROVE  /\ IsFiniteSet(LinesFor(p)) /\ IsFiniteSet(LinesFor(p)') /\ IsFiniteSet(LinesFor(p) \ {k})
                /\ LinesFor(p)' \subseteq LinesFor(p)
                /\ p = t => LinesFor(p)' \subseteq LinesFor(p) \ {k}
                /\ \A l \in LinesFor(p) : m[l] \in Nat /\ Count[l] \in Nat
                /\ Sum(m, LinesFor(p)) \in Nat /\ Sum(m, LinesFor(p)') \in Nat
                /\ Sum(m, LinesFor(p) \ {k}) \in Nat
    <3>1. /\ IsFiniteSet(LinesFor(p)) /\ \A l \in LinesFor(p) : m[l] \in Nat /\ Count[l] \in Nat
      BY LineSums
    <3>2. LinesFor(p)' \subseteq LinesFor(p) /\ (p = t => LinesFor(p)' \subseteq LinesFor(p) \ {k})
      BY <2>3, <2>4
    <3>3. IsFiniteSet(LinesFor(p)') /\ IsFiniteSet(LinesFor(p) \ {k})
      BY <3>1, <3>2, FS_Subset
    <3>4. Sum(m, LinesFor(p)) \in Nat /\ Sum(m, LinesFor(p) \ {k}) \in Nat
      BY <3>1, <3>3, SumIsNumber
    <3>5. Sum(m, LinesFor(p)') \in Nat
      <4>1. \A l \in LinesFor(p)' : m[l] \in Nat
        BY <3>1, <3>2
      <4> QED BY <3>3, <4>1, SumIsNumber
    <3> QED BY <3>1, <3>2, <3>3, <3>4, <3>5
  <2>11. Covers(m)'
    <3>1. \A l \in Lines' : line'[l].count <= m[l]
      BY <2>4, <2>8 DEF Covers
    <3>2. \A s \in Requests : request'[s].at = "found" /\ request'[s].line \in Lines'
                                => request'[s].count <= m[request'[s].line]
      BY <1>3, <2>4, <2>8 DEF Covers
    <3>3. ASSUME NEW p \in Products PROVE Sum(m, LinesFor(p)') + removed'[p] <= added'[p]
      <4>1. Sum(m, LinesFor(p)) + removed[p] <= added[p]
        BY <2>8 DEF Covers
      <4>0. /\ Sum(m, LinesFor(p)) \in Nat /\ Sum(m, LinesFor(p)') \in Nat
            /\ Sum(m, LinesFor(p) \ {k}) \in Nat /\ removed[p] \in Nat /\ added[p] \in Nat
        BY <2>7, <2>10
      <4>2. CASE p = t
        <5>1. Sum(m, LinesFor(p)) = m[k] + Sum(m, LinesFor(p) \ {k})
          BY <2>5, <2>10, <4>2, SumWithout
        <5>2. Sum(m, LinesFor(p)') <= Sum(m, LinesFor(p) \ {k})
          BY <2>10, <4>2, SumOfSubset
        <5>3. removed'[p] = removed[p] + line[k].count /\ added'[p] = added[p]
          BY <1>2, <2>6, <4>2
        <5> QED BY <2>2, <2>9, <4>0, <4>1, <5>1, <5>2, <5>3
      <4>3. CASE p # t
        <5>1. Sum(m, LinesFor(p)') <= Sum(m, LinesFor(p))
          BY <2>10, SumOfSubset
        <5>2. removed'[p] = removed[p] /\ added'[p] = added[p]
          BY <1>2, <2>6, <4>3
        <5> QED BY <4>0, <4>1, <5>1, <5>2
      <4> QED BY <4>2, <4>3
    <3> QED BY <3>1, <3>2, <3>3 DEF Covers
  <2>12. ASSUME NEW p \in Products \ lost' PROVE Sum(Count', LinesFor(p)') + removed'[p] = added'[p]
    <3>1. p \notin lost /\ LinesFor(p) \cap swept \subseteq {k}
      BY <2>1, <2>12 DEF LinesFor
    <3>2. Sum(Count, LinesFor(p)) + removed[p] = added[p]
      BY <3>1 DEF Accounted
    <3>3. \A l \in LinesFor(p)' : Count'[l] = Count[l]
      BY <2>4 DEF Count, LinesFor, Lines
    <3>4. Sum(Count', LinesFor(p)') = Sum(Count, LinesFor(p)')
      BY <2>10, <3>3, SumOfSame
    <3>5. CASE p = t
      <4>1. LinesFor(p)' = LinesFor(p) \ {k}
        BY <2>3, <2>4, <3>1
      <4>2. Sum(Count, LinesFor(p)) = Count[k] + Sum(Count, LinesFor(p) \ {k})
        BY <2>5, <2>10, <3>5, SumWithout
      <4>3. Count[k] = line[k].count
        BY <1>1 DEF Count
      <4>4. Sum(Count, LinesFor(p) \ {k}) \in Nat
        BY <2>10, SumIsNumber
      <4>5. removed'[p] = removed[p] + line[k].count /\ added'[p] = added[p]
        BY <1>2, <2>6, <3>5
      <4>6. Sum(Count', LinesFor(p)') = Sum(Count, LinesFor(p) \ {k})
        BY <3>4, <4>1
      <4> QED BY <2>2, <2>7, <3>2, <4>2, <4>3, <4>4, <4>5, <4>6
    <3>6. CASE p # t
      <4>1. LinesFor(p)' = LinesFor(p)
        BY <2>4, <2>5, <3>1, <3>6
      <4> QED BY <1>2, <2>6, <3>2, <3>4, <3>6, <4>1
    <3> QED BY <3>5, <3>6
  <2> QED BY <2>11, <2>12 DEF Accounted
<1> QED BY <1>4, <1>5

LEMMA StepKeepsAccounts == TypeOK /\ Named /\ Accounted /\ [Next]_vars => Accounted'
<1> SUFFICES ASSUME TypeOK, Named, Accounted, [Next]_vars PROVE Accounted'
  OBVIOUS
<1>0. CASE UNCHANGED vars
  BY <1>0, ReadingKeepsAccounts DEF vars
<1>1. ASSUME NEW r \in Requests, NEW next, Takes(r, next), UNCHANGED <<line, ghosts>>,
             next.at = "found" /\ next.line \in Lines => next.count = line[next.line].count
      PROVE  Accounted'
  <2>1. \A s \in Requests : request'[s] = request[s] \/ request'[s] = next
    BY <1>1 DEF Takes, TypeOK
  <2> QED BY <1>1, <2>1, ReadingKeepsAccounts
<1>2. ASSUME NEW r \in Requests, NEW i \in Item, UpsertReadsHeader(r, i) PROVE Accounted'
  <2>1. PICK h \in AnyHeader : Starts(r, [at |-> "upsert", item |-> i, header |-> h])
    BY <1>2 DEF UpsertReadsHeader
  <2> QED BY <1>1, <2>1 DEF Starts
<1>3. ASSUME NEW r \in Requests, CreateHeader(r) PROVE Accounted'
  BY <1>1, <1>3 DEF CreateHeader, Goes
<1>4. ASSUME NEW r \in Requests, UpsertReadsLine(r) PROVE Accounted'
  <2> DEFINE q == request[r]
             found == {l \in LinesOf(q.header) : line[l].product = q.item.product}
  <2>1. PICK l \in IF found = {} THEN {NoRow} ELSE found :
            Goes(r, [at |-> "found", item |-> q.item, header |-> q.header, line |-> l,
                     count |-> IF l = NoRow THEN 0 ELSE line[l].count])
    BY <1>4 DEF UpsertReadsLine
  <2> DEFINE next == [at |-> "found", item |-> q.item, header |-> q.header, line |-> l,
                      count |-> IF l = NoRow THEN 0 ELSE line[l].count]
  <2>2. next.line = l /\ (l \in Lines => next.count = line[l].count)
    BY RowsAssumption DEF Lines
  <2>3. Takes(r, next) /\ UNCHANGED <<line, ghosts>>
    BY <1>4, <2>1 DEF UpsertReadsLine, Goes
  <2> HIDE DEF next
  <2> QED BY <1>1, <2>2, <2>3
<1>5. ASSUME NEW r \in Requests, AddLine(r) PROVE Accounted'
  <2> DEFINE q == request[r]
  <2>1. q.item \in Item /\ Goes(r, Answered) /\ UNCHANGED <<removed, lost>> /\ q # Answered
    BY <1>5, TypeParts, RequestFields DEF AddLine, Answered
  <2>2. CASE InsertLine(r, r, q.item)
    BY <2>1, <2>2, InsertKeepsAccounts
  <2>3. CASE q.at = "found" /\ InsertLine(r, q.header, q.item)
    <3>1. q.header \in Requests
      BY <2>3, TypeParts, RequestFields
    <3> QED BY <2>1, <2>3, <3>1, InsertKeepsAccounts
  <2> QED BY <1>5, <2>2, <2>3 DEF AddLine
<1>6. ASSUME NEW r \in Requests, UpdateLine(r) PROVE Accounted'
  BY <1>6, UpdateKeepsAccounts
<1>7. ASSUME NEW r \in Requests, RemoveReadsLine(r) PROVE Accounted'
  <2>1. PICK l \in Lines : Starts(r, [at |-> "remove", line |-> l, header |-> line[l].header])
    BY <1>7 DEF RemoveReadsLine
  <2> QED BY <1>1, <2>1 DEF Starts
<1>8. ASSUME NEW r \in Requests, RemoveCounts(r) PROVE Accounted'
  BY <1>1, <1>8 DEF RemoveCounts, Goes
<1>9. ASSUME NEW r \in Requests, RemoveLine(r) PROVE Accounted'
  BY <1>9, RemoveKeepsAccounts
<1>10. ASSUME NEW r \in Requests, NEW code \in Coupons \cup {NoCoupon}, CouponReadsHeader(r, code)
       PROVE  Accounted'
  <2>1. PICK h \in Headers : Starts(r, [at |-> "coupon", header |-> h, code |-> code])
    BY <1>10 DEF CouponReadsHeader
  <2> QED BY <1>1, <2>1 DEF Starts
<1>11. ASSUME NEW r \in Requests, SaveCoupon(r) \/ Stop(r) PROVE Accounted'
  BY <1>1, <1>11 DEF SaveCoupon, Stop, Goes, Answered
<1> QED
  BY <1>0, <1>2, <1>3, <1>4, <1>5, <1>6, <1>7, <1>8, <1>9, <1>10, <1>11 DEF Next

LEMMA AccountsHold == Spec => []Accounted
<1>1. Init => Accounted
  <2> SUFFICES ASSUME Init PROVE Accounted
    OBVIOUS
  <2>1. /\ Lines = {} /\ \A r \in Requests : request[r] = Waiting
        /\ \A p \in Products : added[p] = 0 /\ removed[p] = 0
    BY DEF Init, Lines
  <2>2. \A p : LinesFor(p) = {}
    BY <2>1 DEF LinesFor
  <2>3. \A w, p : Sum(w, LinesFor(p)) = 0
    BY <2>2, SumOfNone
  <2>4. PICK m \in [Requests -> Nat] : m = [r \in Requests |-> 0]
    OBVIOUS
  <2>5. Covers(m)
    BY <2>1, <2>3 DEF Covers, Waiting
  <2> QED BY <2>1, <2>3, <2>5 DEF Accounted
<1> QED BY <1>1, StepKeepsAccounts, TypeCorrect, NamedHolds, PTL DEF Spec

(***************************************************************************)
(* However many requests overlap and wherever they stop, pieces go missing *)
(* only where a save wrote over or swept away a row, and none are made up. *)
(***************************************************************************)
THEOREM PiecesAreNeverMadeUp == Spec => []PiecesAreAccountedFor
BY AccountsHold, AccountedIsEnough, TypeCorrect, NamedHolds, PTL
-----------------------------------------------------------------------------
(***************************************************************************)
(* A request that is alone also saves the count it means to save, and      *)
(* takes out its header only with the line it was asked to take out.       *)
(***************************************************************************)
Stands(r) ==
    LET q == request[r] IN
    /\ q.at = "found" /\ q.line # NoRow => line[q.line] # NoRow /\ line[q.line].count = q.count
    /\ q.at = "counted" => (q.last <=> Cardinality(LinesOf(q.header)) = 1)

Standing == ~overlapped => lost = {} /\ \A r \in Requests : Stands(r)

(* What the steps of requests that are alone find: one request, in progress already or now. *)
LEMMA OnlyRequestStands ==
    ASSUME TypeOK, NEW r \in Requests, NEW next, Takes(r, next),
           \A s \in InProgress : s = r, Stands(r)', lost' = {}
    PROVE  Standing'
<1>1. \A s \in Requests \ {r} : request'[s] \in {Waiting, Answered}
  BY DEF TypeOK, Takes, InProgress
<1>2. \A s \in Requests \ {r} : Stands(s)'
  BY <1>1 DEF Stands, Waiting, Answered
<1> QED BY <1>2 DEF Standing

LEMMA LastLine ==
    ASSUME TypeOK, Named, NEW r \in Requests, Stands(r), request[r].at = "counted",
           line[request[r].line] # NoRow
    PROVE  /\ request[r].line \in LinesOf(request[r].header)
           /\ request[r].last <=> LinesOf(request[r].header) = {request[r].line}
<1> DEFINE q == request[r]
<1>1. q.line \in Requests /\ line[q.line].header = q.header
  BY TypeParts, RequestFields DEF Named, Reads
<1>2. q.line \in LinesOf(q.header)
  BY <1>1 DEF LinesOf, Lines
<1>3. IsFiniteSet(LinesOf(q.header))
  BY FS_Subset DEF Named, LinesOf
<1>4. Cardinality(LinesOf(q.header)) = 1 <=> \E x : LinesOf(q.header) = {x}
  BY <1>3, FS_Singleton
<1>5. q.last <=> \E x : LinesOf(q.header) = {x}
  BY <1>4 DEF Stands
<1> QED BY <1>2, <1>5

LEMMA StepKeepsStanding == TypeOK /\ Named /\ Alone /\ Standing /\ [Next]_vars => Standing'
<1> SUFFICES ASSUME TypeOK, Named, Alone, Standing, [Next]_vars, ~overlapped' PROVE Standing'
  BY DEF Standing
<1>0. CASE UNCHANGED vars
  BY <1>0 DEF vars, ghosts, Standing, Stands, LinesOf, Lines
<1>1. ASSUME NEW r \in Requests, NEW next, Starts(r, next)
      PROVE  /\ Takes(r, next) /\ request'[r] = next /\ lost' = {} /\ UNCHANGED line
             /\ \A s \in InProgress : s = r
  BY <1>1 DEF Starts, Takes, TypeOK, Standing, ghosts
<1>2. ASSUME NEW r \in Requests, NEW next, Goes(r, next), request[r].at \notin {"waiting", "answered"}
      PROVE  /\ Takes(r, next) /\ request'[r] = next /\ lost = {} /\ Stands(r)
             /\ \A s \in InProgress : s = r
  <2>1. ~overlapped /\ r \in InProgress
    BY <1>2, NotInProgress DEF Goes
  <2> QED BY <1>2, <2>1 DEF Goes, Takes, TypeOK, Standing, Alone
<1>3. ASSUME NEW r \in Requests, NEW next, Starts(r, next), next.at \in {"upsert", "remove", "coupon"}
      PROVE  Standing'
  <2>1. Stands(r)'
    BY <1>1, <1>3 DEF Stands
  <2> QED BY <1>1, <1>3, <2>1, OnlyRequestStands
<1>4. ASSUME NEW r \in Requests, NEW next, Goes(r, next), next.at \in {"created", "answered"},
             request[r].at \notin {"waiting", "answered"}, lost' = {}
      PROVE  Standing'
  <2>1. Stands(r)'
    BY <1>2, <1>4 DEF Stands
  <2> QED BY <1>2, <1>4, <2>1, OnlyRequestStands
<1>5. Answered.at = "answered"
  BY DEF Answered
<1>6. ASSUME NEW r \in Requests, NEW i \in Item, UpsertReadsHeader(r, i) PROVE Standing'
  BY <1>3, <1>6 DEF UpsertReadsHeader
<1>7. ASSUME NEW r \in Requests, CreateHeader(r) PROVE Standing'
  <2> DEFINE next == [at |-> "created", item |-> request[r].item]
  <2>1. request[r].at = "upsert" /\ Goes(r, next) /\ lost' = lost
    BY <1>7 DEF CreateHeader, ghosts
  <2> QED BY <1>2, <1>4, <2>1
<1>8. ASSUME NEW r \in Requests, UpsertReadsLine(r) PROVE Standing'
  <2> DEFINE q == request[r]
             found == {l \in LinesOf(q.header) : line[l].product = q.item.product}
  <2>1. PICK l \in IF found = {} THEN {NoRow} ELSE found :
            Goes(r, [at |-> "found", item |-> q.item, header |-> q.header, line |-> l,
                     count |-> IF l = NoRow THEN 0 ELSE line[l].count])
    BY <1>8 DEF UpsertReadsLine
  <2> DEFINE next == [at |-> "found", item |-> q.item, header |-> q.header, line |-> l,
                      count |-> IF l = NoRow THEN 0 ELSE line[l].count]
  <2>2. q.at = "upsert" /\ UNCHANGED <<line, lost>>
    BY <1>8 DEF UpsertReadsLine, ghosts
  <2>3. l # NoRow => line[l] # NoRow
    BY <2>1 DEF LinesOf, Lines
  <2>4. Takes(r, next) /\ request'[r] = next /\ lost = {} /\ \A s \in InProgress : s = r
    BY <1>2, <2>1, <2>2
  <2>5. /\ request'[r].at = "found" /\ request'[r].line = l
        /\ l # NoRow => request'[r].count = line[l].count
    BY <2>4
  <2>6. Stands(r)'
    BY <2>2, <2>3, <2>5 DEF Stands
  <2> QED BY <2>2, <2>4, <2>6, OnlyRequestStands
<1>9. ASSUME NEW r \in Requests, AddLine(r) PROVE Standing'
  <2>1. request[r].at \in {"created", "found"} /\ Goes(r, Answered) /\ lost' = lost
    BY <1>9 DEF AddLine
  <2> QED BY <1>2, <1>4, <1>5, <2>1
<1>10. ASSUME NEW r \in Requests, UpdateLine(r) PROVE Standing'
  <2>1. request[r].at = "found" /\ request[r].line # NoRow /\ Goes(r, Answered)
    BY <1>10 DEF UpdateLine
  <2>2. lost' = lost
    <3>1. line[request[r].line].count = request[r].count
      BY <1>2, <2>1 DEF Stands
    <3> QED BY <1>10, <3>1 DEF UpdateLine
  <2> QED BY <1>2, <1>4, <1>5, <2>1, <2>2
<1>11. ASSUME NEW r \in Requests, RemoveReadsLine(r) PROVE Standing'
  BY <1>3, <1>11 DEF RemoveReadsLine
<1>12. ASSUME NEW r \in Requests, RemoveCounts(r) PROVE Standing'
  <2> DEFINE q == request[r]
             next == [at |-> "counted", line |-> q.line, header |-> q.header,
                      last |-> Cardinality(LinesOf(q.header)) = 1]
  <2>1. q.at = "remove" /\ Goes(r, next) /\ UNCHANGED <<line, lost>>
    BY <1>12 DEF RemoveCounts, ghosts
  <2>2. Takes(r, next) /\ request'[r] = next /\ lost = {} /\ \A s \in InProgress : s = r
    BY <1>2, <2>1
  <2>3. request'[r].at = "counted" /\ request'[r].header = q.header
    BY <2>2
  <2>4. request'[r].last <=> Cardinality(LinesOf(q.header)) = 1
    <3>1. next.last = (Cardinality(LinesOf(q.header)) = 1)
      <4> DEFINE one == Cardinality(LinesOf(q.header)) = 1
      <4>1. next = [at |-> "counted", line |-> q.line, header |-> q.header, last |-> one]
        OBVIOUS
      <4> HIDE DEF one, next
      <4>2. next.last = one
        BY <4>1
      <4> QED BY <4>2 DEF one
    <3> HIDE DEF next
    <3> QED BY <2>2, <3>1
  <2>5. Stands(r)'
    <3>1. {l \in Lines' : line'[l].header = request'[r].header} = LinesOf(q.header)
      BY <2>1, <2>3 DEF LinesOf, Lines
    <3> QED BY <2>3, <2>4, <3>1 DEF Stands, LinesOf
  <2> QED BY <2>1, <2>2, <2>5, OnlyRequestStands
<1>13. ASSUME NEW r \in Requests, RemoveLine(r) PROVE Standing'
  <2> DEFINE q == request[r]
  <2>1. q.at = "counted" /\ Goes(r, Answered)
    BY <1>13 DEF RemoveLine
  <2>2. lost = {} /\ Stands(r)
    BY <1>2, <2>1
  <2>3. lost' = {}
    <3>1. CASE line[q.line] = NoRow
      BY <1>13, <2>2, <3>1 DEF RemoveLine
    <3>2. CASE line[q.line] # NoRow
      <4>1. q.last => LinesOf(q.header) = {q.line}
        BY <2>1, <2>2, <3>2, LastLine
      <4> QED BY <1>13, <2>2, <3>2, <4>1 DEF RemoveLine
    <3> QED BY <3>1, <3>2
  <2> QED BY <1>4, <1>5, <2>1, <2>3
<1>14. ASSUME NEW r \in Requests, NEW code \in Coupons \cup {NoCoupon}, CouponReadsHeader(r, code)
       PROVE  Standing'
  BY <1>3, <1>14 DEF CouponReadsHeader
<1>15. ASSUME NEW r \in Requests, SaveCoupon(r) \/ Stop(r) PROVE Standing'
  <2>1. Goes(r, Answered) /\ request[r].at \notin {"waiting", "answered"} /\ lost' = lost
    <3>1. CASE SaveCoupon(r)
      BY <3>1 DEF SaveCoupon, ghosts
    <3>2. CASE Stop(r)
      <4>1. request[r] \in Request /\ request[r] \notin {Waiting, Answered}
        BY <3>2 DEF Stop, InProgress, TypeOK
      <4> QED BY <3>2, <4>1 DEF Stop, Request, ghosts
    <3> QED BY <1>15, <3>1, <3>2
  <2> QED BY <1>2, <1>4, <1>5, <2>1
<1> QED
  BY <1>0, <1>6, <1>7, <1>8, <1>9, <1>10, <1>11, <1>12, <1>13, <1>14, <1>15 DEF Next
-----------------------------------------------------------------------------
(***************************************************************************)
(* Requests that come one at a time implement CartContents.  Nothing is    *)
(* lost then, so that the pieces are those added and not taken out.        *)
(***************************************************************************)
Orderly == TypeOK /\ Named /\ Accounted /\ Alone /\ Standing

PiecesLeft ==
    ~overlapped =>
        \A p \in Products : Pieces(p) = added[p] - removed[p] /\ Pieces(p) = Sum(Count, LinesFor(p))

LEMMA OrderlyPieces == Orderly => PiecesLeft
<1> SUFFICES ASSUME Orderly, ~overlapped, NEW p \in Products
             PROVE  Pieces(p) = added[p] - removed[p] /\ Pieces(p) = Sum(Count, LinesFor(p))
  BY DEF PiecesLeft
<1>1. Pieces(p) = Sum(Count, LinesFor(p)) /\ Sum(Count, LinesFor(p)) \in Nat
  BY PiecesIsSum, LineSums DEF Orderly, Named
<1>2. PiecesAreAccountedFor /\ lost = {}
  BY AccountedIsEnough DEF Orderly, Standing
<1>3. Pieces(p) + removed[p] = added[p]
  BY <1>2 DEF PiecesAreAccountedFor
<1>4. added[p] \in Nat /\ removed[p] \in Nat
  BY DEF Orderly, TypeOK
<1> QED BY <1>1, <1>3, <1>4

LEMMA OrderlyPiecesNext == Orderly' => PiecesLeft'
BY OrderlyPieces, PTL

(* Pieces and code are the same where the rows are. *)
LEMMA SameRows ==
    ASSUME PiecesLeft, PiecesLeft', ~overlapped, ~overlapped', UNCHANGED <<header, line>>
    PROVE  UNCHANGED Contents!cart
<1>1. Count' = Count /\ \A p : LinesFor(p)' = LinesFor(p)
  BY DEF Count, LinesFor, Lines
<1>2. \A p \in Products : Pieces(p)' = Pieces(p)
  BY <1>1 DEF PiecesLeft
<1>3. Code' = Code
  BY DEF Code, Headers
<1> QED BY <1>2, <1>3 DEF Contents!cart

LEMMA PiecesAdded ==
    ASSUME TypeOK, PiecesLeft, PiecesLeft', ~overlapped, ~overlapped', UNCHANGED <<header, removed>>,
           NEW i \in Item, added' = [added EXCEPT ![i.product] = @ + i.count]
    PROVE  Contents!Next
<1> DEFINE t == i.product
           c == i.count
<1>1. t \in Products /\ c \in Counts /\ c \in Nat
  BY RowsAssumption DEF Item
<1> HIDE DEF t, c
<1>2. added' = [added EXCEPT ![t] = @ + c]
  BY DEF t, c
<1>3. \A p \in Products : added'[p] = IF p = t THEN added[p] + c ELSE added[p]
  BY <1>1, <1>2 DEF TypeOK
<1>4. \A p \in Products : added[p] \in Nat /\ removed[p] \in Nat
  BY DEF TypeOK
<1>5. \A p \in Products : Pieces(p)' = IF p = t THEN Pieces(p) + c ELSE Pieces(p)
  BY <1>1, <1>3, <1>4 DEF PiecesLeft
<1>6. [p \in Products |-> Pieces(p)'] = [[p \in Products |-> Pieces(p)] EXCEPT ![t] = @ + c]
  BY <1>1, <1>5
<1>7. Code' = Code
  BY DEF Code, Headers
<1>8. Contents!Add(t, c)
  BY <1>6, <1>7 DEF Contents!Add
<1> QED BY <1>1, <1>8 DEF Contents!Next

(* The line of a product is taken out, and with the last one the header and its code. *)
LEMMA PiecesRemoved ==
    ASSUME Orderly, PiecesLeft, PiecesLeft', Named', TypeOK', Alone', ~overlapped, ~overlapped',
           NEW r \in Requests, RemoveLine(r), line[request[r].line] # NoRow
    PROVE  Contents!Next
<1> DEFINE q == request[r]
           k == q.line
           swept == IF q.last THEN LinesOf(q.header) ELSE {k}
<1>0. PICK t : t = line[k].product
  OBVIOUS
<1>1. q.at = "counted" /\ k \in Requests /\ q.header \in Requests
  BY TypeParts, RequestFields DEF RemoveLine, Orderly
<1>2. k \in LinesOf(q.header) /\ (q.last <=> LinesOf(q.header) = {k})
  BY <1>1, LastLine DEF Orderly, Standing
<1>3. OneHeader /\ OneLine
  BY DEF Orderly, Alone
<1>4. swept = {k}
  BY <1>2
<1>5. /\ line' = [l \in Requests |-> IF l = k THEN NoRow ELSE line[l]]
      /\ header' = IF q.last THEN [header EXCEPT ![q.header] = NoRow] ELSE header
      /\ removed' = [removed EXCEPT ![t] = @ + line[k].count] /\ added' = added
  BY <1>0, <1>4 DEF RemoveLine
<1>6. t \in Products /\ line[k].count \in Nat /\ k \in Lines /\ line[k].header = q.header
  BY <1>0, <1>1, <1>2, LineFields DEF Orderly, TypeOK, Lines, LinesOf
<1>7. q.header \in Headers
  BY <1>6 DEF Orderly, TypeOK
<1>8. Headers = {q.header} /\ LinesOf(q.header) = Lines
  <2>1. Headers = {q.header}
    BY <1>3, <1>7 DEF OneHeader
  <2>2. \A l \in Lines : line[l].header \in Headers
    BY DEF Orderly, TypeOK
  <2> QED BY <2>1, <2>2 DEF LinesOf
<1> HIDE DEF q, k, swept
<1>9. Lines' = Lines \ {k} /\ \A l \in Lines' : line'[l] = line[l]
  BY <1>5 DEF Lines
<1>10. LinesFor(t) = {k} /\ LinesFor(t)' = {}
  <2>1. LinesFor(t) = {k}
    BY <1>0, <1>3, <1>6 DEF OneLine, LinesFor
  <2>2. \A l \in Lines' : line'[l].product # t
    BY <1>9, <2>1 DEF LinesFor, Lines
  <2> QED BY <2>1, <2>2 DEF LinesFor
<1>11. Pieces(t)' = 0
  BY <1>6, <1>10, SumOfNone DEF PiecesLeft
<1>12. \A p \in Products \ {t} : Pieces(p)' = Pieces(p)
  <2>1. \A p \in Products \ {t} : added'[p] = added[p] /\ removed'[p] = removed[p]
    BY <1>5, <1>6 DEF Orderly, TypeOK
  <2> QED BY <2>1 DEF PiecesLeft
<1>13. [p \in Products |-> Pieces(p)'] = [[p \in Products |-> Pieces(p)] EXCEPT ![t] = 0]
  BY <1>6, <1>11, <1>12
<1>14. Code' = IF [p \in Products |-> Pieces(p)'] = [p \in Products |-> 0] THEN NoCoupon ELSE Code
  <2>1. CASE q.last
    <3>1. Lines' = {}
      BY <1>2, <1>8, <1>9, <2>1
    <3>2. \A p \in Products : Pieces(p)' = 0
      <4>1. \A p : LinesFor(p)' = {}
        BY <3>1 DEF LinesFor
      <4> QED BY <4>1, SumOfNone DEF PiecesLeft
    <3>3. Headers' = {}
      BY <1>1, <1>5, <1>8, <2>1 DEF Headers, Orderly, TypeOK
    <3>4. Code' = NoCoupon
      BY <3>3 DEF Code
    <3> QED BY <3>2, <3>4
  <2>2. CASE ~q.last
    <3>1. PICK l : l \in Lines'
      BY <1>2, <1>8, <1>9, <2>2
    <3>0. PICK p : p = line'[l].product
      OBVIOUS
    <3>2. l \in Requests /\ line'[l] \in Line /\ line'[l].count > 0
      BY <3>1 DEF TypeOK, Lines
    <3>3. p \in Products /\ line'[l].count \in Nat /\ l \in LinesFor(p)'
      BY <3>0, <3>1, <3>2, LineFields DEF LinesFor
    <3>4. /\ IsFiniteSet(LinesFor(p)') /\ LinesFor(p)' \subseteq Requests
          /\ \A x \in LinesFor(p)' : Count'[x] \in Nat
      <4>1. IsFiniteSet(LinesFor(p)')
        BY FS_Subset DEF Named, LinesFor
      <4>2. \A x \in LinesFor(p)' : x \in Requests /\ line'[x] \in Line
        BY DEF LinesFor, Lines, TypeOK
      <4> QED BY <4>1, <4>2, LineFields DEF Count
    <3>5. Sum(Count', LinesFor(p)') = Count'[l] + Sum(Count', LinesFor(p)' \ {l})
      BY <3>3, <3>4, SumWithout
    <3>6. Sum(Count', LinesFor(p)' \ {l}) \in Nat
      BY <3>4, FS_RemoveElement, SumIsNumber
    <3>7. Count'[l] = line'[l].count
      BY <3>2 DEF Count
    <3>8. Pieces(p)' = Sum(Count', LinesFor(p)')
      BY <3>3 DEF PiecesLeft
    <3>9. Pieces(p)' # 0
      BY <3>2, <3>3, <3>5, <3>6, <3>7, <3>8
    <3>10. [x \in Products |-> Pieces(x)'] # [x \in Products |-> 0]
      BY <3>3, <3>9
    <3>11. Code' = Code
      BY <1>5, <2>2 DEF Code, Headers
    <3> QED BY <3>10, <3>11
  <2> QED BY <2>1, <2>2
<1>15. Contents!Remove(t)
  BY <1>13, <1>14 DEF Contents!Remove, Contents!Empty
<1> QED BY <1>6, <1>15 DEF Contents!Next

LEMMA CodeApplied ==
    ASSUME Orderly, PiecesLeft, PiecesLeft', ~overlapped, ~overlapped', NEW r \in Requests, SaveCoupon(r)
    PROVE  Contents!Next \/ UNCHANGED Contents!cart
<1> DEFINE q == request[r]
<1>1. q.header \in Requests /\ q.code \in Coupons \cup {NoCoupon} /\ q.code # NoRow
  BY TypeParts, RequestFields, RowsAssumption DEF SaveCoupon, Orderly
<1>2. line' = line /\ header' = [header EXCEPT ![q.header] = IF @ = NoRow THEN NoRow ELSE q.code]
  BY DEF SaveCoupon
<1>3. header \in [Requests -> Coupons \cup {NoCoupon, NoRow}] /\ OneHeader
  BY DEF Orderly, TypeOK, Alone
<1> HIDE DEF q
<1>4. CASE header[q.header] = NoRow
  BY <1>1, <1>2, <1>3, <1>4, SameRows
<1>5. CASE header[q.header] # NoRow
  <2>1. Headers = {q.header} /\ Headers' = {q.header} /\ header'[q.header] = q.code
    BY <1>1, <1>2, <1>3, <1>5 DEF OneHeader, Headers
  <2>2. Code' = q.code
    BY <2>1 DEF Code
  <2>3. Count' = Count /\ \A p : LinesFor(p)' = LinesFor(p)
    BY <1>2 DEF Count, LinesFor, Lines
  <2>4. \A p \in Products : Pieces(p)' = Pieces(p)
    BY <2>3 DEF PiecesLeft
  <2>5. Contents!Apply(q.code)
    BY <2>2, <2>4 DEF Contents!Apply
  <2> QED BY <1>1, <2>5 DEF Contents!Next
<1> QED BY <1>4, <1>5

LEMMA StepOfContents ==
    Orderly /\ Orderly' /\ [Next]_vars => overlapped' \/ Contents!Next \/ UNCHANGED Contents!cart
<1> SUFFICES ASSUME Orderly, Orderly', [Next]_vars, ~overlapped'
             PROVE  Contents!Next \/ UNCHANGED Contents!cart
  OBVIOUS
<1>1. PiecesLeft /\ PiecesLeft'
  BY OrderlyPieces, OrderlyPiecesNext
<1>2. TypeOK /\ Named /\ TypeOK' /\ Named' /\ Alone'
  BY DEF Orderly
<1>3. ~overlapped
  BY DEF vars, Next, UpsertReadsHeader, CreateHeader, UpsertReadsLine, AddLine, UpdateLine,
     RemoveReadsLine, RemoveCounts, RemoveLine, CouponReadsHeader, SaveCoupon, Stop,
     Starts, Goes
<1>4. CASE UNCHANGED <<header, line>>
  BY <1>1, <1>3, <1>4, SameRows
<1>5. ASSUME NEW r \in Requests, CreateHeader(r) PROVE UNCHANGED Contents!cart
  <2>1. request[r].at = "upsert" /\ request[r].header = NoRow /\ line' = line
        /\ header' = [header EXCEPT ![r] = NoCoupon]
    BY <1>5 DEF CreateHeader
  <2>2. Headers = {}
    BY <1>3, <2>1 DEF Orderly, Alone, StillTrue
  <2>3. Headers' = {r} /\ header'[r] = NoCoupon
    BY <1>2, <2>1, <2>2, RowsAssumption DEF Headers, TypeOK
  <2>4. Code' = NoCoupon /\ Code = NoCoupon
    BY <2>2, <2>3 DEF Code
  <2>5. Count' = Count /\ \A p : LinesFor(p)' = LinesFor(p)
    BY <2>1 DEF Count, LinesFor, Lines
  <2>6. \A p \in Products : Pieces(p)' = Pieces(p)
    BY <1>1, <1>3, <2>5 DEF PiecesLeft
  <2> QED BY <2>4, <2>6 DEF Contents!cart
<1>6. ASSUME NEW r \in Requests, AddLine(r), ~UNCHANGED <<header, line>> PROVE Contents!Next
  <2>1. request[r].item \in Item /\ UNCHANGED <<header, removed>>
    BY <1>2, <1>6, TypeParts, RequestFields DEF AddLine
  <2>2. added' = [added EXCEPT ![request[r].item.product] = @ + request[r].item.count]
    BY <1>6 DEF AddLine, InsertLine
  <2> QED BY <1>1, <1>2, <1>3, <2>1, <2>2, PiecesAdded
<1>7. ASSUME NEW r \in Requests, UpdateLine(r), ~UNCHANGED <<header, line>> PROVE Contents!Next
  <2>1. request[r].item \in Item /\ UNCHANGED <<header, removed>>
    BY <1>2, <1>7, TypeParts, RequestFields DEF UpdateLine
  <2>2. added' = [added EXCEPT ![request[r].item.product] = @ + request[r].item.count]
    BY <1>7 DEF UpdateLine
  <2> QED BY <1>1, <1>2, <1>3, <2>1, <2>2, PiecesAdded
<1>8. ASSUME NEW r \in Requests, RemoveLine(r), ~UNCHANGED <<header, line>> PROVE Contents!Next
  <2>1. line[request[r].line] # NoRow
    BY <1>8 DEF RemoveLine
  <2> QED BY <1>1, <1>2, <1>3, <1>8, <2>1, PiecesRemoved
<1>9. ASSUME NEW r \in Requests, SaveCoupon(r) PROVE Contents!Next \/ UNCHANGED Contents!cart
  BY <1>1, <1>3, <1>9, CodeApplied
<1>10. \/ UNCHANGED <<header, line>>
       \/ \E r \in Requests : CreateHeader(r) \/ AddLine(r) \/ UpdateLine(r) \/ RemoveLine(r) \/ SaveCoupon(r)
  BY DEF vars, Next, UpsertReadsHeader, UpsertReadsLine, RemoveReadsLine, RemoveCounts,
     CouponReadsHeader, Stop, Starts
<1> QED BY <1>4, <1>5, <1>6, <1>7, <1>8, <1>9, <1>10

(***************************************************************************)
(* As long as requests come one at a time, wherever they stop, the rows    *)
(* are a cart in which each operation happens once and whole or not at all. *)
(***************************************************************************)
THEOREM CartImplementsContents == Spec => ImplementsContents
<1>1. Init => Standing /\ Contents!Init
  <2> SUFFICES ASSUME Init PROVE Standing /\ Contents!Init
    OBVIOUS
  <2>1. /\ Lines = {} /\ Headers = {} /\ lost = {}
        /\ \A r \in Requests : request[r] = Waiting
    BY DEF Init, Lines, Headers
  <2>2. Standing
    BY <2>1 DEF Standing, Stands, Waiting
  <2>3. \A p \in Products : Pieces(p) = 0
    <3>1. IsFiniteSet(Lines) /\ \A p : LinesFor(p) = {}
      BY <2>1, FS_EmptySet DEF LinesFor
    <3>2. \A p : Sum(Count, LinesFor(p)) = 0
      BY <3>1, SumOfNone
    <3> QED BY <3>1, <3>2, PiecesIsSum
  <2>4. Code = NoCoupon
    BY <2>1 DEF Code
  <2> QED BY <2>2, <2>3, <2>4 DEF Contents!Init, Contents!Empty
<1>2. Spec => []Orderly
  <2>1. Spec => []Alone
    BY AloneHolds
  <2>2. Spec => []Accounted
    BY AccountsHold
  <2>3. TypeOK /\ Named /\ Alone /\ Standing /\ [Next]_vars => Standing'
    BY StepKeepsStanding
  <2> QED BY <1>1, <2>1, <2>2, <2>3, TypeCorrect, NamedHolds, PTL DEF Spec, Orderly
<1>3. Orderly /\ Orderly' /\ [Next]_vars => [overlapped' \/ Contents!Next \/ UNCHANGED Contents!cart]_vars
  BY StepOfContents
<1> QED BY <1>1, <1>2, <1>3, PTL DEF Spec, ImplementsContents
=============================================================================
