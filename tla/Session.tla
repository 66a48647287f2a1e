------------------------------ MODULE Session ------------------------------
(***************************************************************************)
(* Who is signed in, as the browser's cookies, the shell of the            *)
(* application and the guards of its routes each see it.  The shell asks   *)
(* once, when the page is loaded; a guard asks at every navigation and     *)
(* tells nobody; signing in and out tell the shell what they have done.    *)
(* The forms to register and to reset a password share the screen with     *)
(* them, one at a time.                                                    *)
(***************************************************************************)
EXTENDS Naturals

CONSTANTS Accounts,   \* those who may sign in
          Admins,     \* those with the role ADMIN
          Registered, \* those who have an account when the page is loaded
          NoOne,      \* nobody is signed in
          MaxClicks   \* bound on the clicks of a visit

ASSUME SessionAssumption ==
    /\ Admins \subseteq Registered /\ Registered \subseteq Accounts
    /\ NoOne \notin Accounts /\ MaxClicks \in Nat

VARIABLES known,      \* who has an account
          cookie,     \* whose authentication cookie the browser holds, for 14 days
          token,      \* whether it holds the token the services ask for, for an hour
          user,       \* whom the shell shows, and whether with the role ADMIN
          screen,     \* the route that is shown, and where its form returns to
          busy, error, \* whether the form on the screen is disabled, or shows an error
          me,         \* the request of the shell that asks who is signed in
          guard,      \* the one of the guard of the route that is navigated to
          signIn, signOut, submit,  \* those of the forms and of the shell
          clicks,     \* how often the user has clicked
          disturbed   \* what occurred that the page is not told of

server == <<known, cookie, token>>
shell  == <<user, screen, busy, error>>
calls  == <<me, guard, signIn, signOut, submit>>
sessionVars == <<server, shell, calls, clicks, disturbed>>

Guarded == {"cart", "admin"}
Forms   == {"login", "register", "reset"}
Routes  == {"catalogue"} \cup Forms \cup Guarded
Blank   == "blank"  \* nothing is shown until the first guard has answered

Nobody == [who |-> NoOne, admin |-> FALSE]
Shown  == [who : Accounts \cup {NoOne}, admin : BOOLEAN]
Idle   == [op |-> "none"]
InFlight(call) == call # Idle
Awaited(call)  == InFlight(call) /\ call.reply = "awaited"
Replied(call)  == InFlight(call) /\ call.reply # "awaited"
Quiet == \A call \in {me, guard, signIn, signOut, submit} : ~InFlight(call)

SessionTypeOK ==
    /\ known \subseteq Accounts /\ cookie \in Accounts \cup {NoOne} /\ token \in BOOLEAN
    /\ user \in Shown /\ busy \in BOOLEAN /\ error \in BOOLEAN
    /\ screen \in [route : Routes \cup {Blank}, back : {"catalogue"} \cup Guarded]
    /\ LET CallOf(ops, data) == {Idle} \cup [op : ops, reply : {"awaited", "success", "error"}, data : data]
       IN  /\ me \in CallOf({"me"}, Shown)
           /\ guard \in CallOf(Guarded, Shown)
           /\ signIn \in CallOf({"login"}, Accounts \X ({"catalogue"} \cup Guarded))
           /\ signOut \in CallOf({"logout"}, {NoOne})
           /\ submit \in CallOf({"register", "reset"}, Accounts \cup {NoOne})
    /\ clicks \in 0 .. MaxClicks
    /\ disturbed \subseteq {"failure", "elsewhere", "expiry", "overlap", "kept"}

Ask(op, data) == [op |-> op, reply |-> "awaited", data |-> data]
Answer(call, ok, data) == [op |-> call.op, reply |-> IF ok THEN "success" ELSE "error", data |-> data]

Disturb(cause) == disturbed' = disturbed \cup {cause}

(* A component is created for the route, with an empty form. *)
Mount(route, back) ==
    /\ screen' = [route |-> route, back |-> back]
    /\ busy' = FALSE /\ error' = FALSE

(* The page is loaded: the shell and the guard of the route ask anew. *)
Load(route) ==
    /\ user' = Nobody /\ me' = Ask("me", Nobody)
    /\ signIn' = Idle /\ signOut' = Idle /\ submit' = Idle
    /\ IF route \in Guarded
       THEN guard' = Ask(route, Nobody) /\ Mount(Blank, "catalogue")
       ELSE guard' = Idle /\ Mount(route, "catalogue")

SessionInit ==
    /\ known = Registered /\ cookie \in Registered \cup {NoOne}
    /\ token = (cookie # NoOne)
    /\ user = Nobody /\ me = Ask("me", Nobody)
    /\ \E route \in Routes :
           IF route \in Guarded
           THEN guard = Ask(route, Nobody) /\ screen = [route |-> Blank, back |-> "catalogue"]
           ELSE guard = Idle /\ screen = [route |-> route, back |-> "catalogue"]
    /\ busy = FALSE /\ error = FALSE
    /\ signIn = Idle /\ signOut = Idle /\ submit = Idle
    /\ clicks = 0 /\ disturbed = {}
-----------------------------------------------------------------------------
Click == clicks < MaxClicks /\ clicks' = clicks + 1 /\ UNCHANGED server

(* The router leaves for a route, at once or when its guard has answered;  *)
(* a route that is on the screen is kept as it is, whoever asked for it.   *)
Navigate(route) ==
    \/ /\ route = screen.route /\ guard' = Idle
       /\ screen' = [screen EXCEPT !.back = "catalogue"]
       /\ UNCHANGED <<busy, error>> /\ Disturb("kept")
    \/ /\ route \in Guarded \ {screen.route} /\ guard' = Ask(route, Nobody)
       /\ UNCHANGED <<screen, busy, error, disturbed>>
    \/ /\ route \notin Guarded \cup {screen.route} /\ guard' = Idle
       /\ Mount(route, "catalogue") /\ UNCHANGED disturbed

(* The links of the shell: some are there for a user, some for none. *)
Follow(route) ==
    /\ Click /\ route # screen.route
    /\ route = "login" => user = Nobody \/ screen.route \in {"register", "reset"}
    /\ route = "register" => user = Nobody \/ screen.route = "login"
    /\ route = "reset" => screen.route = "login"
    /\ route = "admin" => user.admin
    /\ Navigate(route)
    /\ UNCHANGED <<user, me, signIn, signOut, submit>>

(* The address is typed, or the page loaded again; nobody hears the answers. *)
Reload(route) ==
    /\ Click /\ Load(route)
    /\ IF \E call \in {signIn, signOut} : InFlight(call)
       THEN Disturb("failure") ELSE UNCHANGED disturbed

(* Mistaken: the form forgets where it returns to. *)
SubmitLoginHome(a) ==
    /\ Click /\ screen.route = "login" /\ ~busy /\ ~InFlight(signIn)
    /\ signIn' = Ask("login", <<a, "catalogue">>)
    /\ busy' = TRUE /\ error' = FALSE
    /\ UNCHANGED <<user, screen, me, guard, signOut, submit, disturbed>>

(* The model has one request of each form in progress: one that was left is waited for. *)
SubmitLogin(a) ==
    /\ Click /\ screen.route = "login" /\ ~busy /\ ~InFlight(signIn)
    /\ signIn' = Ask("login", <<a, screen.back>>)
    /\ busy' = TRUE /\ error' = FALSE
    /\ IF InFlight(me) \/ InFlight(signOut) THEN Disturb("overlap") ELSE UNCHANGED disturbed
    /\ UNCHANGED <<user, screen, me, guard, signOut, submit>>

(* The form to register shows its error until there is another answer. *)
SubmitRegister(a) ==
    /\ Click /\ screen.route = "register" /\ ~busy /\ ~InFlight(submit)
    /\ submit' = Ask("register", a)
    /\ busy' = TRUE
    /\ UNCHANGED <<user, screen, error, me, guard, signIn, signOut, disturbed>>

(* The link is asked for, or the password set, by two forms alike. *)
SubmitReset ==
    /\ Click /\ screen.route = "reset" /\ ~busy /\ ~InFlight(submit)
    /\ submit' = Ask("reset", NoOne)
    /\ busy' = TRUE /\ error' = FALSE
    /\ UNCHANGED <<user, screen, me, guard, signIn, signOut, disturbed>>

Logout ==
    /\ Click /\ user # Nobody /\ ~InFlight(signOut)
    /\ signOut' = Ask("logout", NoOne)
    /\ IF InFlight(me) \/ InFlight(signIn) THEN Disturb("overlap") ELSE UNCHANGED disturbed
    /\ UNCHANGED <<shell, me, guard, signIn, submit>>
-----------------------------------------------------------------------------
(* The BFF and Auth; the page learns of it with the reply. *)
Behind == UNCHANGED <<shell, clicks, disturbed>>

Identity == [who |-> cookie, admin |-> cookie \in Admins]

ServeMe ==
    /\ Awaited(me)
    /\ me' = Answer(me, cookie # NoOne, IF cookie # NoOne THEN Identity ELSE Nobody)
    /\ Behind /\ UNCHANGED <<server, guard, signIn, signOut, submit>>

ServeGuard ==
    /\ Awaited(guard)
    /\ guard' = Answer(guard, cookie # NoOne, IF cookie # NoOne THEN Identity ELSE Nobody)
    /\ Behind /\ UNCHANGED <<server, me, signIn, signOut, submit>>

(* The password is right or wrong; if right, both cookies are set. *)
ServeLogin ==
    /\ Awaited(signIn)
    /\ \/ /\ signIn.data[1] \in known
          /\ cookie' = signIn.data[1] /\ token' = TRUE
          /\ signIn' = Answer(signIn, TRUE, signIn.data)
       \/ /\ signIn' = Answer(signIn, FALSE, signIn.data)
          /\ UNCHANGED <<cookie, token>>
    /\ Behind /\ UNCHANGED <<known, me, guard, signOut, submit>>

(* Mistaken: the services' token is left behind. *)
ServeLogoutOfOne ==
    /\ Awaited(signOut)
    /\ cookie' = NoOne
    /\ signOut' = Answer(signOut, TRUE, NoOne)
    /\ Behind /\ UNCHANGED <<known, token, me, guard, signIn, submit>>

ServeLogout ==
    /\ Awaited(signOut)
    /\ cookie' = NoOne /\ token' = FALSE
    /\ signOut' = Answer(signOut, TRUE, NoOne)
    /\ Behind /\ UNCHANGED <<known, me, guard, signIn, submit>>

(* An account is created unless there is one; a refusal is an error to the page. *)
ServeRegister ==
    /\ Awaited(submit) /\ submit.op = "register"
    /\ known' = known \cup {submit.data}
    /\ submit' = Answer(submit, submit.data \notin known, submit.data)
    /\ Behind /\ UNCHANGED <<cookie, token, me, guard, signIn, signOut>>

(* A refusal is to this page an answer like any other. *)
ServeReset ==
    /\ Awaited(submit) /\ submit.op = "reset"
    /\ submit' = Answer(submit, TRUE, NoOne)
    /\ Behind /\ UNCHANGED <<server, me, guard, signIn, signOut>>

(* A request in progress comes to nothing, or its reply does. *)
LoseReply ==
    /\ \/ InFlight(me) /\ me' = Answer(me, FALSE, Nobody) /\ UNCHANGED <<guard, signIn, signOut, submit>>
       \/ InFlight(guard) /\ guard' = Answer(guard, FALSE, Nobody) /\ UNCHANGED <<me, signIn, signOut, submit>>
       \/ InFlight(signIn) /\ signIn' = Answer(signIn, FALSE, signIn.data) /\ UNCHANGED <<me, guard, signOut, submit>>
       \/ InFlight(signOut) /\ signOut' = Answer(signOut, FALSE, NoOne) /\ UNCHANGED <<me, guard, signIn, submit>>
       \/ InFlight(submit) /\ submit' = Answer(submit, FALSE, submit.data) /\ UNCHANGED <<me, guard, signIn, signOut>>
    /\ Disturb("failure")
    /\ UNCHANGED <<server, shell, clicks>>

(* The hour of the token, or the fortnight of the cookie, is over. *)
Expire ==
    /\ cookie # NoOne
    /\ \/ token /\ token' = FALSE /\ UNCHANGED cookie
       \/ ~token /\ cookie' = NoOne /\ UNCHANGED token
    /\ Disturb("expiry")
    /\ UNCHANGED <<known, shell, calls, clicks>>

(* Another page of the browser signs in or out. *)
Elsewhere ==
    /\ clicks < MaxClicks /\ clicks' = clicks + 1
    /\ \E a \in known \cup {NoOne} : a # cookie /\ cookie' = a /\ token' = (a # NoOne)
    /\ Disturb("elsewhere")
    /\ UNCHANGED <<known, shell, calls>>
-----------------------------------------------------------------------------
AnswerMe ==
    /\ Replied(me) /\ me' = Idle
    /\ user' = me.data
    /\ UNCHANGED <<server, screen, busy, error, guard, signIn, signOut, submit, clicks, disturbed>>

(* Mistaken: whoever is signed in is let through, as to the cart. *)
AdmittedAlike == guard.reply = "success"

Admitted == guard.reply = "success" /\ (guard.op = "admin" => guard.data.admin)

(* A guard lets through, or sends away: to the form to sign in, which may  *)
(* be on the screen and stays as it is, or a customer to the catalogue.    *)
AnswerGuard ==
    /\ Replied(guard) /\ guard' = Idle
    /\ IF Admitted THEN Mount(guard.op, "catalogue") /\ UNCHANGED disturbed
       ELSE IF guard.reply = "success"
       THEN Mount("catalogue", "catalogue") /\ UNCHANGED disturbed
       ELSE LET back == IF guard.op = "cart" THEN guard.op ELSE "catalogue" IN
            IF screen.route = "login"
            THEN /\ screen' = [screen EXCEPT !.back = back]
                 /\ UNCHANGED <<busy, error>> /\ Disturb("kept")
            ELSE Mount("login", back) /\ UNCHANGED disturbed
    /\ UNCHANGED <<server, user, me, signIn, signOut, submit, clicks>>

(* The form is enabled again, if it is still the one on the screen. *)
Enable(call) ==
    IF screen.route = call.op /\ busy
    THEN busy' = FALSE /\ error' = (error \/ call.reply = "error")
    ELSE UNCHANGED <<busy, error>>

(* Mistaken: the form stays disabled after an error. *)
AnswerLoginOnce ==
    /\ Replied(signIn) /\ signIn' = Idle
    /\ IF signIn.reply = "success"
       THEN /\ user' = [who |-> signIn.data[1], admin |-> FALSE]
            /\ Navigate(signIn.data[2])
       ELSE /\ error' = (error \/ (screen.route = "login" /\ busy))
            /\ UNCHANGED <<user, screen, busy, guard, disturbed>>
    /\ UNCHANGED <<server, me, signOut, submit, clicks>>

(* Signed in: the answer has no roles, and the router leaves, from whatever *)
(* route is shown by then; the form is enabled again only after an error.   *)
AnswerLogin ==
    /\ Replied(signIn) /\ signIn' = Idle
    /\ IF signIn.reply = "success"
       THEN /\ user' = [who |-> signIn.data[1], admin |-> FALSE]
            /\ Navigate(signIn.data[2])
       ELSE Enable(signIn) /\ UNCHANGED <<user, screen, guard, disturbed>>
    /\ UNCHANGED <<server, me, signOut, submit, clicks>>

(* Signed out: whatever route is shown stays. *)
AnswerLogout ==
    /\ Replied(signOut) /\ signOut' = Idle
    /\ user' = IF signOut.reply = "success" THEN Nobody ELSE user
    /\ UNCHANGED <<server, screen, busy, error, me, guard, signIn, submit, clicks, disturbed>>

AnswerRegister ==
    /\ Replied(submit) /\ submit.op = "register" /\ submit' = Idle
    /\ IF submit.reply = "success"
       THEN Navigate("login")
       ELSE Enable(submit) /\ UNCHANGED <<screen, guard, disturbed>>
    /\ UNCHANGED <<server, user, me, signIn, signOut, clicks>>

AnswerReset ==
    /\ Replied(submit) /\ submit.op = "reset" /\ submit' = Idle
    /\ Enable(submit)
    /\ UNCHANGED <<server, user, screen, me, guard, signIn, signOut, clicks, disturbed>>

Visit == \/ \E r \in Routes : Follow(r) \/ Reload(r)
         \/ \E a \in Accounts : SubmitLogin(a) \/ SubmitRegister(a)
         \/ SubmitReset \/ Logout

MeStep    == ServeMe \/ AnswerMe
GuardStep == ServeGuard \/ AnswerGuard
LoginStep == ServeLogin \/ AnswerLogin
LogoutStep == ServeLogout \/ AnswerLogout
FormStep  == ServeRegister \/ ServeReset \/ AnswerRegister \/ AnswerReset

SessionNext == \/ Visit \/ LoseReply \/ Expire \/ Elsewhere
        \/ MeStep \/ GuardStep \/ LoginStep \/ LogoutStep \/ FormStep

(* Every request is served or comes to nothing, and its reply is handled. *)
Fairness == /\ WF_sessionVars(MeStep) /\ WF_sessionVars(GuardStep) /\ WF_sessionVars(LoginStep)
            /\ WF_sessionVars(LogoutStep) /\ WF_sessionVars(FormStep)

SessionSpec == SessionInit /\ [][SessionNext]_sessionVars /\ Fairness
-----------------------------------------------------------------------------
(***************************************************************************)
(* The shell shows whoever is signed in, once nothing is in progress, if   *)
(* no reply was lost, no cookie expired, no other page signed in or out,   *)
(* and no two requests that tell the shell were in progress together: the  *)
(* answer to a question asked before somebody signed in may come after.    *)
(* And the two cookies go together: the services' token is never left      *)
(* behind, and it is missing for one who is signed in only once its hour   *)
(* is over; then a guard lets through whom every service refuses.          *)
(***************************************************************************)
ShellMatchesSession ==
    /\ SessionTypeOK
    /\ Quiet /\ disturbed \subseteq {"kept"} => user.who = cookie
    /\ token => cookie # NoOne
    /\ cookie # NoOne => token \/ "expiry" \in disturbed

(***************************************************************************)
(* The administration page is on the screen for nobody who is signed in    *)
(* without the role ADMIN, unless another page or a lost reply changed who *)
(* that is: neither a guard's late answer nor signing in as another user   *)
(* leads there.                                                            *)
(***************************************************************************)
AdminPageIsGuarded ==
    Quiet /\ disturbed \cap {"elsewhere", "failure"} = {} /\ screen.route = "admin"
        => cookie \in Admins \cup {NoOne}

(***************************************************************************)
(* A form that was submitted is enabled again or left, except the one to   *)
(* sign in when the router keeps it: it is signed in with, the guard of    *)
(* the route it returns to refuses, and it stays disabled on the screen.   *)
(***************************************************************************)
FormsComeBack == busy ~> ~busy \/ "kept" \in disturbed

(***************************************************************************)
(* Whoever signs in to see the cart sees it, unless they click on or       *)
(* something fails (returnUrl, from the guard through the form to submit). *)
(***************************************************************************)
SignInLeadsBack ==
    \A n \in 0 .. MaxClicks :
        screen = [route |-> "login", back |-> "cart"] /\ busy /\ clicks = n /\ disturbed = {}
            ~> screen.route = "cart" \/ error \/ clicks > n \/ disturbed # {}
=============================================================================
