---------------------------- MODULE OrderTracking ----------------------------
(***************************************************************************)
(* The page that shows a customer what becomes of an order, over the saga. *)
(* It asks for the order at once and then every 2.5 seconds, until an      *)
(* answer is final or a request fails.  A tick gives up the request that   *)
(* is still in progress (switchMap), so that an older answer cannot arrive *)
(* after a newer one; an order service that always took longer than the    *)
(* interval would never be heard.                                          *)
(***************************************************************************)
EXTENDS CheckoutSaga

CONSTANT NoOrder  \* the page is closed
ASSUME TrackingAssumption == NoOrder \notin Orders

VARIABLES page,     \* the order it was opened for, what it shows, whether it polls
          requests  \* the requests in progress: asked, or answered with a status

pageVars     == <<page, requests>>
trackingVars == <<dbVars, pageVars>>

Nothing == "nothing"  \* no answer yet
Asked   == "asked"
Closed  == [order |-> NoOrder, polling |-> FALSE, shown |-> Nothing, failed |-> FALSE]

PageTypeOK ==
    /\ page \in [order : Orders \cup {NoOrder}, polling : BOOLEAN,
                 shown : OrderStatus \cup {Nothing}, failed : BOOLEAN]
    /\ requests \subseteq OrderStatus \cup {Asked}

TrackingInit == Init /\ page = Closed /\ requests = {}
-----------------------------------------------------------------------------
(* Mistaken: a refund under way is taken for the end. *)
IsTerminalEarly(s) == s \in {"Confirmed", "Rejected", "CompensatingPayment"}

IsTerminal(s) == s \in {"Confirmed", "Rejected"}

(* Mistaken: the Inventory step is complete when the Payment step is. *)
StepCompleteTogether(step, s) ==
    s # Nothing /\ (step \in {"payment", "inventory"} => s # "PendingPayment")

(* The steps of the timeline that are marked complete. *)
StepComplete(step, s) ==
    /\ s # Nothing
    /\ step = "payment"   => s # "PendingPayment"
    /\ step = "inventory" => s \in {"Confirmed", "CompensatingPayment", "Rejected"}

Steps == {"order", "payment", "inventory"}

(* The page is opened for an order that was submitted: ngOnInit, ngOnDestroy. *)
Open(o) ==
    /\ page = Closed /\ status[o] # "NotSubmitted"
    /\ page' = [Closed EXCEPT !.order = o, !.polling = TRUE]
    /\ UNCHANGED requests

Close == page # Closed /\ page' = Closed /\ requests' = {}

(* Mistaken: the request in progress is not given up (mergeMap). *)
TickBeside ==
    /\ page.polling
    /\ requests' = requests \cup {Asked}
    /\ UNCHANGED page

Tick ==
    /\ page.polling
    /\ requests' = {Asked}
    /\ UNCHANGED page

(* Order and BFF answer with the order as it is stored. *)
ServeOrder ==
    /\ Asked \in requests
    /\ requests' = (requests \ {Asked}) \cup {status[page.order]}
    /\ UNCHANGED page

Receive ==
    \E s \in requests \cap OrderStatus :
        /\ page' = [page EXCEPT !.shown = s, !.polling = ~IsTerminal(s)]
        /\ requests' = IF IsTerminal(s) THEN {} ELSE requests \ {s}

(* No answer, or one without an order: the page says so and asks no more. *)
Fail ==
    /\ requests # {}
    /\ page' = [page EXCEPT !.failed = TRUE, !.polling = FALSE]
    /\ requests' = {}

PageNext == \/ \E o \in Orders : Open(o)
            \/ Close \/ Tick \/ ServeOrder \/ Receive \/ Fail

TrackingNext == \/ Next /\ UNCHANGED pageVars
                \/ PageNext /\ UNCHANGED dbVars

(***************************************************************************)
(* The timer ticks and the services answer; again and again, one answer is *)
(* faster than the next tick.                                              *)
(***************************************************************************)
TrackingSpec ==
    /\ TrackingInit /\ [][TrackingNext]_trackingVars
    /\ WF_trackingVars(Tick /\ UNCHANGED dbVars)
    /\ WF_trackingVars(ServeOrder /\ UNCHANGED dbVars)
    /\ SF_trackingVars(Receive /\ UNCHANGED dbVars)
-----------------------------------------------------------------------------
Known == {page.shown} \cup (requests \ {Asked})

(***************************************************************************)
(* A step the page marks complete was taken by the service it names, and   *)
(* the final state it shows is the order's: Payment has recorded the order *)
(* before step 2 is complete, Inventory before step 3, unless the payment  *)
(* was refused and Inventory never asked.  The same is true of the answers *)
(* in progress (stepComplete and the timeline against three databases).    *)
(***************************************************************************)
StepsShownWereTaken ==
    PageTypeOK /\
    \A s \in Known \cap OrderStatus :
        /\ s # "NotSubmitted"
        /\ StepComplete("payment", s) => payment[page.order] # "None"
        /\ StepComplete("inventory", s) =>
               reservation[page.order] # "None" \/ payment[page.order] = "Rejected"
        /\ s \in Terminal => status[page.order] = s

(***************************************************************************)
(* While the page is open a step that was complete stays complete: no      *)
(* answer arrives after a newer one (switchMap in ngOnInit).               *)
(***************************************************************************)
StepsStayComplete ==
    [][page'.order = page.order =>
           \A step \in Steps : StepComplete(step, page.shown) => StepComplete(step, page'.shown)]_pageVars

(***************************************************************************)
(* The outcome of an order reaches the page that is open for it: polling   *)
(* ends at the outcome or at an error, never before.                       *)
(***************************************************************************)
DecisionIsShown ==
    \A o \in Orders :
        page.order = o /\ status[o] \in Terminal
            ~> page.order # o \/ page.failed \/ page.shown = status[o]
=============================================================================
