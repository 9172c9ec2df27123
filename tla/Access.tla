-------------------------------- MODULE Access --------------------------------
(***************************************************************************)
(* How the owner of one address gets in and manages the account: one tab   *)
(* on the public screens (apps/web/src/screens/auth) and the personal      *)
(* settings (screens/settings-user), the calls of its auth client, and     *)
(* /api/auth, where better-auth works between the hooks of                 *)
(* platform-identity, for this tab and for other devices.                  *)
(*                                                                         *)
(* A password is right or wrong when it is checked, an emailed link good   *)
(* or not when it is used; neither is kept.  Accounts has the statements   *)
(* of a sign-up, Console the session query and the routes inside.          *)
(***************************************************************************)
EXTENDS FiniteSets

CONSTANTS
  Row,         \* session rows, none used twice
  Slot,        \* bound: calls of the tab under way at once
  Nil,         \* null and undefined
  Tours,       \* sets of screens a person uses
  MagicLink    \* capabilities.magicLink

VARIABLES
  tour,      \* the screens this person uses
  page,      \* the screen shown
  form,      \* its useAuthMutation, its formState, and what it says was saved
  panel,     \* the sessions panel of the security screen
  cookie,    \* the tab's session row
  call,      \* the calls under way
  account,   \* the server: the address's account,
  session,   \* its session rows,
  trail,     \* and the audit log's sign-ins and sign-outs; of failures none is kept
  done,      \* history: what the API did of the last submissions of this screen
  revoked,   \* history: rows this screen was told it ended
  overtaken, \* history: it asked for more while the list of a revocation was due
  begun,     \* history: rows of password sign-ins
  unaudited  \* history: rows whose audit entry failed

tab == <<page, form, panel, cookie>>
server == <<account, session, trail, begun, unaudited>>
accessVars == <<tour, tab, call, server, done, revoked, overtaken>>

Public == {"sign-in", "sign-up", "verify-email", "inbox", "forgot-password", "reset-password"}
            \cup (IF MagicLink THEN {"magic-link"} ELSE {})
Inside == {"home", "security", "profile"}
Call == {"signIn", "signInGoogle", "signUp", "sendVerificationEmail", "verifyEmail",
         "forgotPassword", "resetPassword", "signInMagicLink", "changePassword",
         "updateProfile", "revokeOtherSessions", "listSessions", "signOut"}

ASSUME Bounds ==
  /\ MagicLink \in BOOLEAN
  /\ Tours \subseteq SUBSET (Public \cup Inside)
  /\ Nil \notin Row \cup Call \cup {"EMAIL_NOT_VERIFIED", "other"}

\* sent through handleSubmit; and those whose screens look at what became of it
Submitted == {"signIn", "signUp", "forgotPassword", "resetPassword", "signInMagicLink",
              "changePassword", "updateProfile"}
Confirmed == {"signUp", "forgotPassword", "resetPassword", "signInMagicLink"}

\* whose success leads elsewhere, by a callback of the route
CalledBack == {"signIn", "signInGoogle", "signUp", "resetPassword", "signOut"}

Fresh == [pending |-> Nil, error |-> Nil, submitted |-> FALSE, saved |-> FALSE]
Unloaded == [list |-> Nil, loadError |-> FALSE, revoking |-> FALSE]
NoCall == [stage |-> "idle", name |-> Nil, waits |-> "nobody", as |-> Nil,
           ok |-> FALSE, error |-> Nil, row |-> Nil, data |-> {}]

AccessTypeOK ==
  /\ tour \in Tours
  /\ page \in Public \cup Inside \cup {"google"}
  /\ form \in [pending : Call \cup {Nil}, error : {Nil, "EMAIL_NOT_VERIFIED", "other"},
               submitted : BOOLEAN, saved : BOOLEAN]
  /\ panel \in [list : (SUBSET Row) \cup {Nil}, loadError : BOOLEAN, revoking : BOOLEAN]
  /\ cookie \in Row \cup {Nil}
  /\ call \in [Slot -> [stage : {"idle", "sent", "hook", "answered"}, name : Call \cup {Nil},
                        waits : {"form", "route", "nobody"}, as : Row \cup {Nil},
                        ok : BOOLEAN, error : {Nil, "EMAIL_NOT_VERIFIED", "other"},
                        row : Row \cup {Nil}, data : SUBSET Row]]
  /\ account \in {"none", "unverified", "verified"}
  /\ session \in [Row -> {"unused", "live", "ended"}]
  /\ trail \in SUBSET ({"auth.sign_in.success", "auth.sign_out"} \X (Row \cup {Nil}))
  /\ done \in SUBSET Call
  /\ revoked \in SUBSET Row
  /\ overtaken \in BOOLEAN
  /\ begun \in SUBSET Row
  /\ unaudited \in SUBSET Row

Live == {s \in Row : session[s] = "live"}

-----------------------------------------------------------------------------
\* The screens: the calls they offer, and those they say were done.

Form(calls) == [offers |-> calls, says |-> {}]
Says(c) == [offers |-> {}, says |-> {c}]

\* formState.isSubmitSuccessful && !mutation.error: a submit handler that
\* returns, as they all do, was successful to the form
Confirms == form.submitted /\ form.error = Nil

SignInScreen ==
  Form({"signIn", "signInGoogle"}
         \cup IF form.error = "EMAIL_NOT_VERIFIED" THEN {"sendVerificationEmail"} ELSE {})

SignUpScreen == IF Confirms THEN Says("signUp") ELSE Form({"signUp", "signInGoogle"})

\* with a token: verified on mount, nothing to do after
VerifyEmailScreen == IF form.saved THEN Says("verifyEmail") ELSE Form({})

\* without one
Inbox == Form({"sendVerificationEmail"})

ForgotPasswordScreen == IF Confirms THEN Says("forgotPassword") ELSE Form({"forgotPassword"})
ResetPasswordScreen == IF Confirms THEN Says("resetPassword") ELSE Form({"resetPassword"})
MagicLinkScreen == IF Confirms THEN Says("signInMagicLink") ELSE Form({"signInMagicLink"})

PasswordPanel ==
  [offers |-> {"changePassword"}, says |-> IF form.saved THEN {"changePassword"} ELSE {}]
ProfileScreen ==
  [offers |-> {"updateProfile"}, says |-> IF form.saved THEN {"updateProfile"} ELSE {}]

Screen ==
  CASE page = "sign-in"         -> SignInScreen
    [] page = "sign-up"         -> SignUpScreen
    [] page = "verify-email"    -> VerifyEmailScreen
    [] page = "inbox"           -> Inbox
    [] page = "forgot-password" -> ForgotPasswordScreen
    [] page = "reset-password"  -> ResetPasswordScreen
    [] page = "magic-link"      -> MagicLinkScreen
    [] page = "security"        -> PasswordPanel
    [] page = "profile"         -> ProfileScreen
    [] OTHER                    -> Form({})

-----------------------------------------------------------------------------
\* The tab

Sent(c) == [NoCall EXCEPT !.stage = "sent", !.name = c, !.waits = "form", !.as = cookie]

\* the calls of the screen that is left: when the callback of its route
\* outlives it, but not the tab
Left(reloaded) ==
  [r \in Slot |->
     IF call[r].waits # "nobody" /\ (reloaded \/ call[r].name \notin CalledBack)
     THEN [call[r] EXCEPT !.waits = "nobody"]
     ELSE IF call[r].waits = "form" THEN [call[r] EXCEPT !.waits = "route"] ELSE call[r]]

\* what a screen asks for as it mounts
OnMount(p) ==
  CASE p = "verify-email" -> "verifyEmail" [] p = "security" -> "listSessions" [] OTHER -> Nil

\* screen p is mounted, over the calls cs that are left
Mount(p, cs) ==
  /\ page' = p
  /\ form' = IF p = "verify-email" THEN [Fresh EXCEPT !.pending = "verifyEmail"] ELSE Fresh
  /\ panel' = Unloaded
  /\ done' = {}
  /\ revoked' = {}
  /\ overtaken' = FALSE
  /\ IF OnMount(p) = Nil THEN call' = cs
     ELSE \E r \in Slot : cs[r] = NoCall /\ call' = [cs EXCEPT ![r] = Sent(OnMount(p))]

\* redirectIfAuthed and requireAuth
Destination(p, c) ==
  IF p \in Public /\ c # Nil THEN "home"
  ELSE IF p \in Inside /\ c = Nil THEN "sign-in"
  ELSE p

\* a link of the application, or back
Navigate(p) ==
  /\ page \notin {"google", Destination(p, cookie)}
  /\ Mount(Destination(p, cookie), Left(FALSE))
  /\ UNCHANGED <<cookie, server>>

\* the tab is loaded again, from the address bar or an emailed link; a
\* session that has ended is none
Reload(p) ==
  /\ cookie' = IF cookie \in Live THEN cookie ELSE Nil
  /\ Mount(Destination(p, cookie'), Left(TRUE))
  /\ UNCHANGED server

\* handleSubmit finds a field missing
InvalidForm ==
  /\ form.pending = Nil
  /\ form.submitted /\ Screen.offers \cap Submitted # {}
  /\ form' = [form EXCEPT !.submitted = FALSE]
  /\ UNCHANGED <<page, panel, cookie, call, server, done, revoked, overtaken>>

Unanswered(c) ==
  \E r \in Slot : call[r].name = c /\ call[r].waits = "form"

\* mutation.run of what the screen offers; a pending one disables it all
Run(r, c) ==
  /\ call[r] = NoCall
  /\ form.pending = Nil
  /\ page \in tour
  /\ c \in Screen.offers
  /\ form' = [form EXCEPT !.pending = c, !.error = Nil, !.saved = FALSE]
  /\ call' = [call EXCEPT ![r] = Sent(c)]
  /\ done' = done \ {c}
  /\ UNCHANGED <<page, panel, cookie, server, revoked, overtaken>>

\* "Sign out other sessions"
SignOutOthers(r) ==
  /\ call[r] = NoCall
  /\ page = "security"
  /\ ~panel.revoking
  /\ panel.list \notin {Nil, {}}
  /\ panel' = [panel EXCEPT !.revoking = TRUE]
  /\ overtaken' = (overtaken \/ Unanswered("listSessions"))
  /\ call' = [call EXCEPT ![r] = Sent("revokeOtherSessions")]
  /\ UNCHANGED <<page, form, cookie, server, done, revoked>>

\* the user menu
SignOut(r) ==
  /\ call[r] = NoCall
  /\ page \in Inside
  /\ ~ \E q \in Slot : call[q].name = "signOut" /\ call[q].waits = "route"
  /\ call' = [call EXCEPT ![r] = [Sent("signOut") EXCEPT !.waits = "route"]]
  /\ UNCHANGED <<tab, server, done, revoked, overtaken>>

\* mutant: an error that is no answer of the API is not kept
KeptError(lost, error) == IF lost THEN Nil ELSE error

\* a throw that is no AuthClientError is a network error
ErrorOf(lost, error) == IF lost THEN "other" ELSE error

\* the end of mutation.run and of handleSubmit
Settled(c, ok, error) ==
  [form EXCEPT !.pending = Nil, !.error = IF ok THEN Nil ELSE error,
               !.submitted = @ \/ c \in Confirmed,
               !.saved = ok /\ c \in {"changePassword", "updateProfile", "verifyEmail"}]

\* load() after a revocation
Reloaded(q, ok) ==
  IF q.name = "revokeOtherSessions" /\ q.waits = "form" /\ ok THEN Sent("listSessions") ELSE NoCall

\* the answer reaches the sessions panel
ShowSessions(q, ok) ==
  panel' = IF q.waits # "form" THEN panel
           ELSE IF q.name = "revokeOtherSessions" THEN [panel EXCEPT !.revoking = FALSE]
           ELSE IF q.name # "listSessions" THEN panel
           ELSE IF ok THEN [panel EXCEPT !.list = q.data, !.loadError = FALSE]
           ELSE [panel EXCEPT !.loadError = TRUE]

\* where the callback of the route leads, whatever is shown by then
Callback(c) ==
  CASE c = "signIn"        -> IF page \in Public THEN "home" ELSE page
    [] c = "signUp"        -> Destination("inbox", cookie)
    [] c = "resetPassword" -> Destination("sign-in", cookie)
    [] c = "signInGoogle"  -> "google"
    [] c = "signOut"       -> "sign-in"
    [] OTHER               -> page

\* The answer arrives, or is lost.  A cookie comes with it.
Receive(r) ==
  /\ call[r].stage = "answered"
  /\ call[r].waits # "nobody"
  /\ \E lost \in BOOLEAN :
       LET q == call[r]
           ok == q.ok /\ ~lost
       IN /\ cookie' = IF ok /\ q.name = "signIn" THEN q.row
                       ELSE IF ok /\ q.name = "signOut" THEN Nil ELSE cookie
          /\ IF ok /\ Callback(q.name) # page
             THEN Mount(Callback(q.name), [Left(FALSE) EXCEPT ![r] = NoCall])
             ELSE /\ form' = IF q.waits = "form" /\ form.pending = q.name
                             THEN Settled(q.name, ok, ErrorOf(lost, q.error)) ELSE form
                  /\ ShowSessions(q, ok)
                  /\ done' = IF q.waits = "form" /\ form.pending = q.name /\ q.ok THEN done \cup {q.name} ELSE done
                  /\ revoked' = IF q.waits = "form" /\ ok /\ q.name = "revokeOtherSessions"
                                THEN revoked \cup q.data ELSE revoked
                  /\ call' = [call EXCEPT ![r] = Reloaded(q, ok)]
                  /\ UNCHANGED <<page, overtaken>>
  /\ UNCHANGED server

\* nobody hears it: the tab was loaded again
Unheard(r) ==
  /\ call[r].stage = "answered"
  /\ call[r].waits = "nobody"
  /\ call' = [call EXCEPT ![r] = NoCall]
  /\ UNCHANGED <<tab, server, done, revoked, overtaken>>

-----------------------------------------------------------------------------
\* The API

Answered(r, q) == call' = [call EXCEPT ![r] = [q EXCEPT !.stage = "answered"]]
Done(r, data) == Answered(r, [call[r] EXCEPT !.ok = TRUE, !.data = data])

\* A budget of the caller's address is spent, the engine refuses (a bad link,
\* the wrong current password, no session) or a statement or a hook throws.
\* What the engine refuses a sign-in goes through its hook.
Refuse(r) ==
  /\ call[r].stage = "sent"
  /\ Answered(r, [call[r] EXCEPT !.error = "other"])
  /\ \/ UNCHANGED account
     \/ call[r].name = "signUp" /\ account = "none" /\ account' = "unverified"
  /\ UNCHANGED <<tab, session, trail, begun, unaudited, done, revoked, overtaken>>

\* sign-in/email: a session for the right password of a verified account
ServeSignIn(r) ==
  /\ call[r].stage = "sent"
  /\ call[r].name = "signIn"
  /\ \/ /\ account = "verified"
        /\ \E s \in Row :
             /\ session[s] = "unused"
             /\ session' = [session EXCEPT ![s] = "live"]
             /\ begun' = begun \cup {s}
             /\ call' = [call EXCEPT ![r].stage = "hook", ![r].ok = TRUE, ![r].row = s]
     \/ /\ \E code \in (IF account = "unverified" THEN {"EMAIL_NOT_VERIFIED", "other"} ELSE {"other"}) :
             call' = [call EXCEPT ![r].stage = "hook", ![r].error = code]
        /\ UNCHANGED <<session, begun>>
  /\ UNCHANGED <<tab, account, trail, unaudited, done, revoked, overtaken>>

\* sign-out: the row of the cookie is deleted
ServeSignOut(r) ==
  /\ call[r].stage = "sent"
  /\ call[r].name = "signOut"
  /\ session' = [session EXCEPT ![call[r].as] = "ended"]
  /\ call' = [call EXCEPT ![r].stage = "hook", ![r].ok = TRUE, ![r].row = call[r].as]
  /\ UNCHANGED <<tab, account, trail, begun, unaudited, done, revoked, overtaken>>

\* mutant: the path alone decides
resolveByPath(q) ==
  IF q.name = "signOut" THEN "auth.sign_out" ELSE "auth.sign_in.success"

resolveAuthEvent(q) ==
  IF q.name = "signOut" THEN "auth.sign_out"
  ELSE IF q.row # Nil THEN "auth.sign_in.success" ELSE "auth.sign_in.failure"

\* hooks.after: the event is written before the response; when that fails
\* the caller is answered with an error
AfterHook(r) ==
  /\ call[r].stage = "hook"
  /\ LET q == call[r] IN
     \/ /\ trail' = trail \cup {e \in {<<resolveAuthEvent(q), q.row>>} : e[1] # "auth.sign_in.failure"}
        /\ Answered(r, q)
        /\ UNCHANGED unaudited
     \/ /\ unaudited' = unaudited \cup ({q.row} \ {Nil})
        /\ Answered(r, [q EXCEPT !.ok = FALSE, !.error = "other"])
        /\ UNCHANGED trail
  /\ UNCHANGED <<tab, account, session, begun, done, revoked, overtaken>>

\* sign-up/email: the account, or nothing and the notice to its owner; one
\* answer for both
ServeSignUp(r) ==
  /\ call[r].stage = "sent"
  /\ call[r].name = "signUp"
  /\ account' = IF account = "none" THEN "unverified" ELSE account
  /\ Done(r, {})
  /\ UNCHANGED <<tab, session, trail, begun, unaudited, done, revoked, overtaken>>

\* verify-email, on the screen or straight from the link: no session begins
ServeVerifyEmail(r) ==
  /\ call[r].stage = "sent"
  /\ call[r].name = "verifyEmail"
  /\ account # "none"
  /\ account' = "verified"
  /\ Done(r, {})
  /\ UNCHANGED <<tab, session, trail, begun, unaudited, done, revoked, overtaken>>

\* the session list and its revocation, for a session that lives
ServeListSessions(r) ==
  /\ call[r].stage = "sent"
  /\ call[r].name = "listSessions"
  /\ call[r].as \in Live
  /\ Done(r, Live)
  /\ UNCHANGED <<tab, server, done, revoked, overtaken>>

EndOthers(s) == [t \in Row |-> IF t \in Live \ {s} THEN "ended" ELSE session[t]]

ServeRevokeOthers(r) ==
  /\ call[r].stage = "sent"
  /\ call[r].name = "revokeOtherSessions"
  /\ call[r].as \in Live
  /\ session' = EndOthers(call[r].as)
  /\ Done(r, Live \ {call[r].as})
  /\ UNCHANGED <<tab, account, trail, begun, unaudited, done, revoked, overtaken>>

\* change-password, ending the other sessions when asked to
ServeChangePassword(r) ==
  /\ call[r].stage = "sent"
  /\ call[r].name = "changePassword"
  /\ call[r].as \in Live
  /\ session' \in {session, EndOthers(call[r].as)}
  /\ Done(r, {})
  /\ UNCHANGED <<tab, account, trail, begun, unaudited, done, revoked, overtaken>>

\* PATCH /api/me/profile, behind requireUser
ServeProfile(r) ==
  /\ call[r].stage = "sent"
  /\ call[r].name = "updateProfile"
  /\ call[r].as \in Live
  /\ Done(r, {})
  /\ UNCHANGED <<tab, server, done, revoked, overtaken>>

\* the calls that queue a mail
ServeMail(r) ==
  /\ call[r].stage = "sent"
  /\ call[r].name \in {"sendVerificationEmail", "forgotPassword", "signInMagicLink"}
  /\ Done(r, {})
  /\ UNCHANGED <<tab, server, done, revoked, overtaken>>

\* a password set by a link; the address of Google's page
ServeOther(r) ==
  /\ call[r].stage = "sent"
  /\ call[r].name \in {"signInGoogle", "resetPassword"}
  /\ Done(r, {})
  /\ UNCHANGED <<tab, server, done, revoked, overtaken>>

\* the emailed verification link, which leads to the API
FollowVerification ==
  /\ account = "unverified"
  /\ account' = "verified"
  /\ UNCHANGED <<tab, call, session, trail, begun, unaudited, done, revoked, overtaken>>

\* Google's redirect or a magic link: a session, and the application
EnterByLink(s) ==
  /\ cookie = Nil
  /\ page = "google" \/ MagicLink
  /\ session[s] = "unused"
  /\ session' = [session EXCEPT ![s] = "live"]
  /\ account' = "verified"
  /\ cookie' = s
  /\ Mount("home", Left(TRUE))
  /\ UNCHANGED <<trail, begun, unaudited>>

\* another device signs in, by Google or a link, or its session expires or is revoked
OtherDevice(s) ==
  /\ account = "verified"
  /\ s # cookie
  /\ \A r \in Slot : call[r].row # s
  /\ \/ session[s] = "unused" /\ session' = [session EXCEPT ![s] = "live"]
     \/ session[s] = "live" /\ session' = [session EXCEPT ![s] = "ended"]
  /\ UNCHANGED <<tab, call, account, trail, begun, unaudited, done, revoked, overtaken>>

\* this tab's session expires or is revoked from another device
Expire ==
  /\ cookie \in Live
  /\ session' = [session EXCEPT ![cookie] = "ended"]
  /\ UNCHANGED <<tab, call, account, trail, begun, unaudited, done, revoked, overtaken>>

AccessInit ==
  /\ tour \in Tours
  /\ page = "sign-in"
  /\ form = Fresh
  /\ panel = Unloaded
  /\ cookie = Nil
  /\ call = [r \in Slot |-> NoCall]
  /\ account \in {"none", "unverified", "verified"}
  /\ session = [s \in Row |-> "unused"]
  /\ trail = {}
  /\ done = {}
  /\ revoked = {}
  /\ overtaken = FALSE
  /\ begun = {}
  /\ unaudited = {}

Api(r) ==
  \/ Refuse(r) \/ ServeSignIn(r) \/ ServeSignOut(r) \/ AfterHook(r)
  \/ ServeSignUp(r) \/ ServeVerifyEmail(r) \/ ServeListSessions(r)
  \/ ServeRevokeOthers(r) \/ ServeChangePassword(r) \/ ServeProfile(r)
  \/ ServeMail(r) \/ ServeOther(r)

Step ==
  \/ \E p \in tour : Navigate(p) \/ Reload(p)
  \/ InvalidForm
  \/ \E r \in Slot :
       \/ \E c \in Screen.offers : Run(r, c)
       \/ SignOutOthers(r) \/ SignOut(r) \/ Receive(r) \/ Unheard(r) \/ Api(r)
  \/ FollowVerification \/ Expire
  \/ \E s \in Row : EnterByLink(s) \/ OtherDevice(s)

AccessNext == Step /\ UNCHANGED tour

AccessSpec == AccessInit /\ [][AccessNext]_accessVars

-----------------------------------------------------------------------------
\* What a screen says of the person's own actions is so: with nothing pending,
\* a confirmation stands for a submission the API carried out, whatever failed
\* or was lost before; and sessions it was told it ended are not in a list it
\* shows as good, unless another revocation overtook the list of the last
\* (useAuthMutation, the confirmations of the auth screens,
\* SecurityScreen.signOutOthers).
ScreensTellTruth ==
  /\ form.pending = Nil => Screen.says \subseteq done
  /\ page = "security" /\ ~panel.loadError /\ ~overtaken /\ ~panel.revoking
       /\ ~Unanswered("listSessions") =>
         panel.list = Nil \/ panel.list \cap revoked = {}

\* The audit log names every session a password began here, and no other, as
\* signed in, unless the row could not be written, in which case the caller
\* was answered with an error; and as signed out only one that has ended
\* (auth.ts resolveAuthEvent, buildAfterHook).
TrailTellsTruth ==
  LET unwritten == {call[r].row : r \in {q \in Slot : call[q].stage = "hook"}}
      logged(action) == {s \in Row \cup {Nil} : <<action, s>> \in trail}
  IN /\ logged("auth.sign_in.success") \subseteq begun
     /\ begun \ (unaudited \cup unwritten) \subseteq logged("auth.sign_in.success")
     /\ \A s \in logged("auth.sign_out") : s # Nil /\ session[s] = "ended"

=============================================================================
