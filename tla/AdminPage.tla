----------------------------- MODULE AdminPage -----------------------------
(***************************************************************************)
(* One visit of the administration page: the lists, the two forms and the  *)
(* confirmation it shows, its requests in progress through the BFF, and    *)
(* the rows of the Product and Coupon services.  The buttons of one kind   *)
(* of row are not disabled while the other kind, or another row, is saved  *)
(* or deleted.  The two tabs are left out: either is a click away.         *)
(***************************************************************************)
EXTENDS Naturals

CONSTANTS Values,     \* what a row may hold, and a valid form
          Incomplete, \* what a form holds that is not valid
          Absent,     \* there is no such row
          MaxId,      \* bound on the identities a service gives out
          Stored,     \* the rows there may be when the page is opened
          Loads,      \* refreshes of the page that may be in progress together
          MaxClicks   \* bound on the clicks of a visit

ASSUME AdminAssumption ==
    /\ Incomplete \notin Values /\ Absent \notin Values /\ Loads # {}
    /\ MaxId \in Nat \ {0} /\ MaxClicks \in Nat

(* The rows of the AdminSections. *)
Kinds == {"products", "coupons"}
Ids   == 1 .. MaxId
Table == [Ids -> Values \cup {Absent}]

ASSUME StoredAssumption == Stored \subseteq Table

VARIABLES rows,       \* the rows of each kind in its service
          nextId,     \* the identity its next row is given
          listed,     \* the rows the page lists
          view,       \* whether it shows a skeleton (loading) or an error (failed)
          form,       \* the form of each kind: the row it is for, or 0, and its content
          prompt,     \* the row whose deletion is to be confirmed
          save,       \* the request in progress that saves a form
          deletion,   \* the one that deletes a row
          load,       \* for each refresh its request for each kind
          draft,      \* what became of the content that was last sent from each form
          clicks,     \* how often the administrator, or another one, has clicked
          disturbed   \* which of failures, other pages and overlapping refreshes occurred

services == <<rows, nextId>>
screen   == <<listed, view, form, prompt>>
calls    == <<save, deletion, load>>
adminVars == <<services, screen, calls, draft, clicks, disturbed>>

Idle     == [op |-> "none"]
NoPrompt == [id |-> 0]
NewForm  == [id |-> 0, value |-> Incomplete]
Replies  == {"awaited", "success", "failure", "error"}
InFlight(call) == call # Idle
Awaited(call)  == InFlight(call) /\ call.reply = "awaited"
Replied(call)  == InFlight(call) /\ call.reply # "awaited"
Loading(l) == \E k \in Kinds : InFlight(load[l][k])
Quiet == ~InFlight(save) /\ ~InFlight(deletion) /\ \A l \in Loads : ~Loading(l)

AdminTypeOK ==
    /\ rows \in [Kinds -> Table] /\ nextId \in [Kinds -> 1 .. MaxId + 1]
    /\ listed \in [Kinds -> Table] /\ view \in [loading : BOOLEAN, failed : BOOLEAN]
    /\ form \in [Kinds -> [id : {0} \cup Ids, value : Values \cup {Incomplete}]]
    /\ prompt \in {NoPrompt} \cup [kind : Kinds, id : Ids]
    /\ save \in {Idle} \cup [op : {"save"}, kind : Kinds, id : {0} \cup Ids,
                             value : Values, reply : Replies]
    /\ deletion \in {Idle} \cup [op : {"delete"}, kind : Kinds, id : Ids, reply : Replies]
    /\ load \in [Loads -> [Kinds -> {Idle} \cup [op : {"load"}, list : Table, reply : Replies]]]
    /\ draft \in [Kinds -> {"none", "sent", "accepted", "retyped"}]
    /\ clicks \in 0 .. MaxClicks
    /\ disturbed \subseteq {"error", "failure", "elsewhere", "overlap"}

NoRows == [i \in Ids |-> Absent]
Asked  == [k \in Kinds |-> [op |-> "load", list |-> NoRows, reply |-> "awaited"]]

FreeSlots == {l \in Loads : ~Loading(l)}

(* load() is called, with a slot for it: the others are left alone. *)
Refresh ==
    /\ FreeSlots # {}
    /\ load' = [load EXCEPT ![CHOOSE l \in FreeSlots : TRUE] = Asked]
    /\ view' = [loading |-> TRUE, failed |-> FALSE]
    /\ disturbed' = IF FreeSlots # Loads THEN disturbed \cup {"overlap"} ELSE disturbed

NoRefresh == UNCHANGED <<load, view, disturbed>>

AdminInit ==
    /\ rows \in [Kinds -> Stored]
    /\ nextId = [k \in Kinds |-> 1 + IF rows[k] = NoRows THEN 0 ELSE
                                 CHOOSE i \in Ids : rows[k][i] # Absent /\ \A j \in Ids :
                                     j > i => rows[k][j] = Absent]
    /\ listed = [k \in Kinds |-> NoRows] /\ view = [loading |-> TRUE, failed |-> FALSE]
    /\ form = [k \in Kinds |-> NewForm] /\ prompt = NoPrompt
    /\ save = Idle /\ deletion = Idle
    /\ LET first == CHOOSE l \in Loads : TRUE
       IN  load = [l \in Loads |-> IF l = first THEN Asked ELSE [k \in Kinds |-> Idle]]
    /\ draft = [k \in Kinds |-> "none"] /\ clicks = 0 /\ disturbed = {}
-----------------------------------------------------------------------------
Click == /\ clicks < MaxClicks /\ clicks' = clicks + 1
         /\ UNCHANGED services

(* Lists and forms are on the screen unless a skeleton or an error is. *)
Usable == ~view.loading /\ ~view.failed

ClickOnForm == Click /\ Usable /\ NoRefresh /\ UNCHANGED <<listed, prompt, deletion>>

Retype(k, f) ==
    /\ form' = [form EXCEPT ![k] = f]
    /\ draft' = [draft EXCEPT ![k] = "retyped"]
    /\ UNCHANGED save

NewRow(k) == ClickOnForm /\ form[k] # NewForm /\ Retype(k, NewForm)

(* Each row that is listed has a button to edit it, and one to delete it. *)
Buttons(k) == {i \in Ids : listed[k][i] # Absent}

EditRow(k, i) ==
    /\ ClickOnForm /\ i \in Buttons(k)
    /\ Retype(k, [id |-> i, value |-> listed[k][i]])

Type(k, v) ==
    /\ ClickOnForm /\ form[k].value # v
    /\ Retype(k, [form[k] EXCEPT !.value = v])

(* The button of a form is enabled if it is valid and nothing is being saved. *)
Submittable(k) == form[k].value \in Values /\ ~InFlight(save)

Save(k) ==
    /\ ClickOnForm /\ Submittable(k)
    /\ save' = [op |-> "save", kind |-> k, id |-> form[k].id, value |-> form[k].value,
                reply |-> "awaited"]
    /\ draft' = [draft EXCEPT ![k] = "sent"]
    /\ UNCHANGED form

ClickOnPrompt == Click /\ NoRefresh /\ UNCHANGED <<listed, form, save, draft>>

RequestDelete(k, i) ==
    /\ ClickOnPrompt /\ Usable /\ i \in Buttons(k)
    /\ prompt' = [kind |-> k, id |-> i]
    /\ UNCHANGED deletion

KeepIt == ClickOnPrompt /\ prompt # NoPrompt /\ prompt' = NoPrompt /\ UNCHANGED deletion

ConfirmDelete ==
    /\ ClickOnPrompt /\ prompt # NoPrompt /\ ~InFlight(deletion)
    /\ deletion' = [op |-> "delete", kind |-> prompt.kind, id |-> prompt.id, reply |-> "awaited"]
    /\ UNCHANGED prompt

TryAgain == /\ Click /\ ~view.loading /\ view.failed /\ Refresh
            /\ UNCHANGED <<listed, form, prompt, save, deletion, draft>>
-----------------------------------------------------------------------------
(* The services behind the BFF; the page learns of it with the reply. *)
Behind == UNCHANGED <<screen, clicks, disturbed>>

SetRow(k, i, v) == rows' = [rows EXCEPT ![k][i] = v]

(* A form without an identity is inserted; a row that is gone is not updated. *)
ServeSave ==
    /\ Awaited(save)
    /\ LET k == save.kind IN
       \/ /\ save.id = 0 /\ nextId[k] <= MaxId
          /\ SetRow(k, nextId[k], save.value) /\ nextId' = [nextId EXCEPT ![k] = @ + 1]
          /\ save' = [save EXCEPT !.reply = "success"]
       \/ /\ save.id # 0 /\ rows[k][save.id] # Absent
          /\ SetRow(k, save.id, save.value) /\ UNCHANGED nextId
          /\ save' = [save EXCEPT !.reply = "success"]
       \/ /\ IF save.id = 0 THEN nextId[k] > MaxId ELSE rows[k][save.id] = Absent
          /\ save' = [save EXCEPT !.reply = "failure"]
          /\ UNCHANGED services
    /\ draft' = IF save'.reply = "success" /\ draft[save.kind] = "sent"
                THEN [draft EXCEPT ![save.kind] = "accepted"] ELSE draft
    /\ Behind /\ UNCHANGED <<deletion, load>>

ServeDelete ==
    /\ Awaited(deletion)
    /\ IF rows[deletion.kind][deletion.id] = Absent
       THEN deletion' = [deletion EXCEPT !.reply = "failure"] /\ UNCHANGED rows
       ELSE deletion' = [deletion EXCEPT !.reply = "success"]
            /\ SetRow(deletion.kind, deletion.id, Absent)
    /\ Behind /\ UNCHANGED <<nextId, save, load, draft>>

ServeLoad(l, k) ==
    /\ Awaited(load[l][k])
    /\ load' = [load EXCEPT ![l][k] = [op |-> "load", list |-> rows[k], reply |-> "success"]]
    /\ Behind /\ UNCHANGED <<services, save, deletion, draft>>

(***************************************************************************)
(* A service does not answer the BFF, which makes a failure of it, or the  *)
(* BFF does not answer the page, which is an error; before or after the    *)
(* request was served.                                                     *)
(***************************************************************************)
LoseReply ==
    /\ UNCHANGED <<services, screen, draft, clicks>>
    /\ \/ \E reply \in {"failure", "error"} :
              /\ disturbed' = disturbed \cup {"failure"}
              /\ \/ InFlight(save) /\ save' = [save EXCEPT !.reply = reply]
                    /\ UNCHANGED <<deletion, load>>
                 \/ InFlight(deletion) /\ deletion' = [deletion EXCEPT !.reply = reply]
                    /\ UNCHANGED <<save, load>>
       \/ \E l \in Loads, k \in Kinds, reply \in {"failure", "error"} :
              /\ InFlight(load[l][k])
              /\ load' = [load EXCEPT ![l][k] = [load[l][k] EXCEPT !.reply = reply]]
              /\ disturbed' = disturbed \cup {reply}
              /\ UNCHANGED <<save, deletion>>

(* Another administrator changes or deletes a row. *)
Elsewhere ==
    /\ \E k \in Kinds, i \in Ids, v \in Values \cup {Absent} :
           rows[k][i] \notin {Absent, v} /\ SetRow(k, i, v)
    /\ clicks < MaxClicks /\ clicks' = clicks + 1
    /\ disturbed' = disturbed \cup {"elsewhere"}
    /\ UNCHANGED <<nextId, screen, calls, draft>>
-----------------------------------------------------------------------------
(* Mistaken: the form is emptied before the answer is looked at. *)
AnswerSaveAtOnce ==
    /\ Replied(save) /\ save' = Idle
    /\ form' = [form EXCEPT ![save.kind] = NewForm]
    /\ IF save.reply = "success" THEN Refresh ELSE NoRefresh
    /\ UNCHANGED <<services, listed, prompt, deletion, draft, clicks>>

(* Saved: the form is emptied, whatever has been typed since, and load() called. *)
AnswerSave ==
    /\ Replied(save) /\ save' = Idle
    /\ IF save.reply = "success"
       THEN form' = [form EXCEPT ![save.kind] = NewForm] /\ Refresh
       ELSE UNCHANGED form /\ NoRefresh
    /\ UNCHANGED <<services, listed, prompt, deletion, draft, clicks>>

(* Mistaken: the list is not refreshed after a deletion. *)
AnswerDeleteOnly ==
    /\ Replied(deletion) /\ deletion' = Idle
    /\ prompt' = IF deletion.reply = "success" THEN NoPrompt ELSE prompt
    /\ NoRefresh
    /\ UNCHANGED <<services, listed, form, save, draft, clicks>>

(* Deleted: the prompt closes, though it may by now name another row. *)
AnswerDelete ==
    /\ Replied(deletion) /\ deletion' = Idle
    /\ IF deletion.reply = "success" THEN prompt' = NoPrompt /\ Refresh
                                     ELSE UNCHANGED prompt /\ NoRefresh
    /\ UNCHANGED <<services, listed, form, save, draft, clicks>>

(* Mistaken: a request that fails is not counted as complete. *)
AnswerLoadUncounted(l, k) ==
    /\ Replied(load[l][k])
    /\ load' = [load EXCEPT ![l][k] = Idle]
    /\ listed' = IF load[l][k].reply = "error" THEN listed
                 ELSE [listed EXCEPT ![k] = load[l][k].list]
    /\ view' = [loading |-> view.loading /\ (Loading(l)' \/ load[l][k].reply = "error"),
                failed |-> view.failed \/ load[l][k].reply = "error"]
    /\ UNCHANGED <<services, form, prompt, save, deletion, draft, clicks, disturbed>>

(* A failure has no result, which is taken for an empty list.  The skeleton *)
(* goes when both requests of one refresh are complete.                     *)
AnswerLoad(l, k) ==
    /\ Replied(load[l][k])
    /\ load' = [load EXCEPT ![l][k] = Idle]
    /\ listed' = IF load[l][k].reply = "error" THEN listed
                 ELSE [listed EXCEPT ![k] = load[l][k].list]
    /\ view' = [loading |-> view.loading /\ Loading(l)',
                failed |-> view.failed \/ load[l][k].reply = "error"]
    /\ UNCHANGED <<services, form, prompt, save, deletion, draft, clicks, disturbed>>

Visit ==
    \/ \E k \in Kinds : \/ NewRow(k) \/ Save(k)
                        \/ \E v \in Values \cup {Incomplete} : Type(k, v)
                        \/ \E i \in Ids : EditRow(k, i) \/ RequestDelete(k, i)
    \/ KeepIt \/ ConfirmDelete \/ TryAgain

SaveStep   == ServeSave \/ AnswerSave
DeleteStep == ServeDelete \/ AnswerDelete
LoadStep(l) == \E k \in Kinds : ServeLoad(l, k) \/ AnswerLoad(l, k)

AdminNext == \/ Visit \/ LoseReply \/ Elsewhere
        \/ SaveStep \/ DeleteStep
        \/ \E l \in Loads : LoadStep(l)

(* Every request is served or times out, and its reply is handled. *)
Fairness == /\ WF_adminVars(SaveStep) /\ WF_adminVars(DeleteStep)
            /\ \A l \in Loads : WF_adminVars(LoadStep(l))

AdminSpec == AdminInit /\ [][AdminNext]_adminVars /\ Fairness
-----------------------------------------------------------------------------
(***************************************************************************)
(* A page with nothing in progress shows no skeleton; it shows an error    *)
(* only if a request for a list came to nothing; and unless it shows one   *)
(* its lists are those of the services, if no reply was a failure, nobody  *)
(* else changed a row and no two refreshes were in progress together.      *)
(***************************************************************************)
SettledPageIsCurrent ==
    /\ AdminTypeOK
    /\ Quiet => /\ ~view.loading
                /\ view.failed => "error" \in disturbed
                /\ disturbed \subseteq {"error"} /\ ~view.failed => listed = rows

(***************************************************************************)
(* What the administrator has sent stays in the form until the service has *)
(* taken it, whichever answer arrives, for this form or the other: only    *)
(* typing, New, Cancel or Edit changes it before.                          *)
(***************************************************************************)
DraftsAreKept ==
    \A k \in Kinds : draft[k] = "sent" => form[k].value \in Values

(* The skeleton goes and the buttons come back, whatever fails. *)
PageComesBack ==
    /\ view.loading ~> ~view.loading
    /\ InFlight(save) ~> ~InFlight(save)
    /\ InFlight(deletion) ~> ~InFlight(deletion)
=============================================================================
