-------------------------------- MODULE SignIn --------------------------------
(***************************************************************************)
(* The ways into the console (components/auth, helpers/api.js): password,  *)
(* two-step code, WeChat, Telegram, passkey and OAuth, with registration   *)
(* and the reset of a password.  The server keeps a session in the cookie  *)
(* alone: a request carries the cookie it left with, and an answer puts    *)
(* that one back, changed.  Who is signed in is kept in four places.       *)
(***************************************************************************)
EXTENDS Integers, FiniteSets

CONSTANT
    MaxTries  \* bound: requests started and pages turned by the user

VARIABLES
    cookie, \* the session: [id, pending, state, challenge], 0 for none
    stored, \* the user in localStorage, 0 for none
    state,  \* userState, likewise
    header, \* New-API-User of the API instance
    page,   \* the route
    form,   \* [who, agreed, token]: inputs, agreedToTerms, turnstileToken
    shown,  \* the e-mail form and the dialogs that are open
    busy,   \* ways whose button is loading or disabled
    count,  \* ways that may be tried again when their countdown ends
    jobs,   \* what is under way: [way, step, cookie, user, here, retry]
    away,   \* what a provider was given: [state, bind]
    view    \* history: calm, no two jobs met and nobody failed to sign out; asked,
            \* whose password was accepted; broken, ways whose answer was lost;
            \* bound: clicks

vars == <<cookie, stored, state, header, page, form, shown, busy, count, jobs, away, view>>

Users == 1..2
TwoFA == {2}  \* accounts with two-step verification
OAuth == {"github", "discord"}
Ways == {"password", "twofa", "wechat", "telegram", "passkey", "callback",
         "register", "code", "reset", "confirm", "logout"} \union OAuth
NoSession == [id |-> 0, pending |-> 0, state |-> 0, challenge |-> 0]
Blank == [who |-> 0, agreed |-> FALSE, token |-> FALSE]

Init ==
    /\ cookie = NoSession /\ stored = 0 /\ state = 0 /\ header = 0
    /\ page = "login" /\ form = Blank /\ shown = {} /\ busy = {} /\ count = {}
    /\ jobs = {} /\ away = [state |-> 0, bind |-> FALSE]
    /\ view = [calm |-> TRUE, asked |-> 0, broken |-> {}, clicks |-> 0]

-----------------------------------------------------------------------------
(* The pages. *)

\* A page is mounted with its own state; what is under way goes on, elsewhere.
Mount(p) ==
    /\ page' = p /\ form' = Blank /\ shown' = {} /\ busy' = {} /\ count' = {}
Elsewhere(all) == {[j EXCEPT !.here = FALSE] : j \in all}
Turned == [view EXCEPT !.broken = {}]
Clicked == view.clicks < MaxTries

\* A link to another page: with a stored user the first two lead to the console.
Go ==
    /\ Clicked /\ page \in {"login", "register", "reset"}
    /\ \E p \in {"login", "register", "reset"} \ {page} :
        Mount(IF stored # 0 /\ p # "reset" THEN "console" ELSE p)
    /\ view' = [Turned EXCEPT !.clicks = @ + 1] /\ jobs' = Elsewhere(jobs)
    /\ UNCHANGED <<cookie, stored, state, header, away>>

\* A page that is loaded anew knows what localStorage knows.
Load(p, user) ==
    /\ Mount(p) /\ jobs' = {} /\ state' = user /\ header' = user /\ stored' = user

\* The link of a mail.
OpenResetLink ==
    /\ Clicked /\ page = "reset" /\ Load("confirm", stored) /\ view' = [Turned EXCEPT !.clicks = @ + 1]
    /\ UNCHANGED <<cookie, away>>

\* 401: the user is forgotten and asked to sign in.
Expired ==
    /\ page = "console" /\ Load("login", 0) /\ view' = Turned
    /\ cookie' \in {cookie, NoSession}
    /\ UNCHANGED away

Type ==
    /\ page \in {"login", "register"}
    /\ form' \in {[form EXCEPT !.who = u] : u \in Users \ {form.who}}
                 \union {[form EXCEPT !.agreed = ~@]} \union {[form EXCEPT !.token = TRUE]}
    /\ form' # form
    /\ UNCHANGED <<cookie, stored, state, header, page, shown, busy, count, jobs, away, view>>

-----------------------------------------------------------------------------
(* Starting. *)

Covered == shown \cap {"wechat", "twofa"} # {}

\* What each page offers, and what it asks for first: the other ways, or the
\* form for an e-mail address.
LoginOptions(way) ==
    /\ "email" \notin shown /\ form.agreed /\ way \in {"telegram", "passkey"} \union OAuth
LoginEmail(way) ==
    /\ "email" \in shown /\ form.agreed
    /\ way = "passkey" \/ (way = "password" /\ form.who # 0 /\ form.token)
RegisterOptions(way) == "email" \notin shown /\ way \in {"telegram"} \union OAuth
RegisterEmail(way) ==
    /\ "email" \in shown /\ form.who # 0 /\ form.token
    /\ way = "code" \/ (way = "register" /\ form.agreed)
WeChatAsks(way) == way = "wechat" /\ "wechat" \in shown /\ form.token
CodeAsked(way) == way = "twofa" /\ "twofa" \in shown
ResetAsks(way) == way = "reset"
ConfirmAsks(way) == way = "confirm" /\ "newPassword" \notin shown

Offered(way) ==
    \/ page = "login" /\ ~Covered /\ (LoginOptions(way) \/ LoginEmail(way))
    \/ page = "register" /\ ~Covered /\ (RegisterOptions(way) \/ RegisterEmail(way))
    \/ WeChatAsks(way) \/ CodeAsked(way)
    \/ page = "reset" /\ ResetAsks(way)
    \/ page = "confirm" /\ ConfirmAsks(way)
    \/ page = "console" /\ way \in {"logout"} \union OAuth

\* The e-mail form or the other ways; WeChat's dialog asks for the terms on
\* the login page only.
Show ==
    /\ page \in {"login", "register"} /\ ~Covered
    /\ shown' \in {shown \union {"email"}, shown \ {"email"}}
                  \union (IF "email" \notin shown /\ (page = "register" \/ form.agreed)
                          THEN {shown \union {"wechat"}} ELSE {})
    /\ shown' # shown
    /\ UNCHANGED <<cookie, stored, state, header, page, form, busy, count, jobs, away, view>>

HideWeChat ==
    /\ "wechat" \in shown /\ shown' = shown \ {"wechat"}
    /\ UNCHANGED <<cookie, stored, state, header, page, form, busy, count, jobs, away, view>>

handleBackToLogin ==
    /\ "twofa" \in shown /\ shown' = shown \ {"twofa"}
    /\ form' = [form EXCEPT !.who = 0]
    /\ UNCHANGED <<cookie, stored, state, header, page, busy, count, jobs, away, view>>

\* Telegram and signing out show nothing; the console's bindings neither.
Holds(way) == way \notin {"telegram", "logout", "callback"} /\ page # "console"

\* OAuth from a form signs out first; from the console it binds.
FirstStep(way) == IF way \in OAuth /\ page = "console" THEN 2 ELSE 1

Start(way) ==
    /\ Clicked /\ Offered(way) /\ way \notin busy \union count
    /\ busy' = IF Holds(way) THEN busy \union {way} ELSE busy
    /\ count' = IF way \in {"reset", "confirm"} THEN count \union {way} ELSE count
    /\ view' = [view EXCEPT !.clicks = @ + 1, !.calm = @ /\ jobs = {}]
    /\ jobs' = jobs \union {[way |-> way, step |-> FirstStep(way), cookie |-> cookie, user |-> form.who,
                             here |-> TRUE, retry |-> view'.clicks]}
    /\ UNCHANGED <<cookie, stored, state, header, page, form, shown, away>>

-----------------------------------------------------------------------------
(* Answers. *)

Ended(j) == busy' = IF j.here THEN busy \ {j.way} ELSE busy
Over(j) == jobs' = jobs \ {j}
Left(j) == jobs' = Elsewhere(jobs \ {j}) /\ view' = Turned
Goes(j, step, c) == jobs' = (jobs \ {j}) \union {[j EXCEPT !.step = step, !.cookie = c]}

\* The four places learn of it together.
SignedIn(j, user) ==
    /\ cookie' = [j.cookie EXCEPT !.id = user, !.pending = IF j.way = "twofa" THEN 0 ELSE @,
                                  !.challenge = IF j.way = "passkey" THEN 0 ELSE @]
    /\ state' = user /\ stored' = user /\ header' = user
    /\ Mount("console") /\ Left(j) /\ UNCHANGED away

PasswordAccepted(j) ==
    /\ j.way = "password"
    /\ \/ j.user \notin TwoFA /\ SignedIn(j, j.user)
       \/ /\ j.user \in TwoFA /\ cookie' = [j.cookie EXCEPT !.pending = j.user]
          /\ shown' = IF j.here THEN shown \union {"twofa"} ELSE shown
          /\ view' = [view EXCEPT !.asked = j.user]
          /\ Ended(j) /\ Over(j)
          /\ UNCHANGED <<stored, state, header, page, form, count, away>>

handle2FASuccess(j) == j.way = "twofa" /\ j.cookie.pending # 0 /\ SignedIn(j, j.cookie.pending)

\* An account somebody else vouches for.
Vouched(j) == j.way \in {"wechat", "telegram"} /\ \E u \in Users : SignedIn(j, u)

PasskeyBegun(j) ==
    /\ j.way = "passkey" /\ j.step = 1
    /\ cookie' = [j.cookie EXCEPT !.challenge = j.retry] /\ Goes(j, 2, cookie')
    /\ UNCHANGED <<stored, state, header, page, form, shown, busy, count, away, view>>

\* The challenge is signed by the authenticator, with the cookie of that time.
Asserted(j) ==
    /\ j.way = "passkey" /\ j.step = 2 /\ Goes(j, 3, cookie)
    /\ UNCHANGED <<cookie, stored, state, header, page, form, shown, busy, count, away, view>>

PasskeyFinished(j) ==
    j.way = "passkey" /\ j.step = 3 /\ j.cookie.challenge = j.retry /\ \E u \in Users : SignedIn(j, u)

\* prepareOAuthState signs out, whether or not the server agrees; the page keeps
\* its user until it is left.
OAuthSignedOut(j) ==
    /\ j.way \in OAuth /\ j.step = 1
    /\ cookie' \in {cookie, NoSession} /\ stored' = 0 /\ header' = 0
    /\ view' = [view EXCEPT !.calm = @ /\ cookie'.id = 0]
    /\ Goes(j, 2, cookie')
    /\ UNCHANGED <<state, page, form, shown, busy, count, away>>

redirectToOAuthUrl(j) ==
    /\ j.way \in OAuth /\ j.step = 2
    /\ cookie' = [j.cookie EXCEPT !.state = j.retry] /\ away' = [state |-> j.retry, bind |-> page = "console"]
    /\ Mount("away") /\ view' = Turned /\ jobs' = {}
    /\ UNCHANGED <<stored, state, header>>

\* The provider sends the user back, to a page that is loaded anew.
OAuth2Callback ==
    /\ page = "away"
    /\ Mount("callback") /\ state' = stored /\ header' = stored /\ view' = Turned
    /\ jobs' = {[way |-> "callback", step |-> 1, cookie |-> cookie, user |-> 0,
                 here |-> TRUE, retry |-> 0]}
    /\ UNCHANGED <<cookie, stored, away>>

sendCode(j) ==
    /\ j.way = "callback" /\ j.cookie.state = away.state
    /\ \/ j.cookie.id = 0 /\ \E u \in Users : SignedIn(j, u)
       \/ /\ j.cookie.id # 0 /\ Mount(IF stored = 0 THEN "login" ELSE "console") /\ Left(j)
          /\ UNCHANGED <<cookie, stored, state, header, away>>

\* Tried again three times, then the settings, behind the login page.
CallbackBroken(j) ==
    /\ j.way = "callback"
    /\ \/ j.retry < 3 /\ jobs' = {[j EXCEPT !.retry = @ + 1, !.cookie = cookie]}
          /\ UNCHANGED <<page, form, shown, busy, count, view>>
       \/ j.retry = 3 /\ Mount(IF stored = 0 THEN "login" ELSE "console") /\ Left(j)
    /\ UNCHANGED <<cookie, stored, state, header, away>>

\* The header stays that of the user who left.
SignedOut(j) ==
    /\ j.way = "logout" /\ cookie' = NoSession /\ state' = 0 /\ stored' = 0
    /\ Mount("login") /\ Left(j)
    /\ UNCHANGED <<header, away>>

Registered(j) ==
    /\ j.way = "register" /\ cookie' = j.cookie /\ Mount("login") /\ Left(j)
    /\ UNCHANGED <<stored, state, header, away>>

\* The next code has to wait; the new password is shown.
Mailed(j) ==
    /\ j.way \in {"code", "reset", "confirm"} /\ Ended(j) /\ Over(j)
    /\ count' = IF j.here /\ j.way = "code" THEN count \union {"code"} ELSE count
    /\ shown' = IF j.here /\ j.way = "confirm" THEN shown \union {"newPassword"} ELSE shown
    /\ cookie' \in {cookie, j.cookie}
    /\ UNCHANGED <<stored, state, header, page, form, away, view>>

CountedDown ==
    /\ \E w \in count : count' = count \ {w}
    /\ UNCHANGED <<cookie, stored, state, header, page, form, shown, busy, jobs, away, view>>

\* What the server refuses after it has looked at the session saves it; a
\* cancelled ceremony has no answer.
Refused(j) ==
    /\ j.way \notin OAuth /\ Ended(j) /\ Over(j)
    /\ cookie' \in {cookie} \union
           (IF j.way = "passkey" /\ j.step = 3 THEN {[j.cookie EXCEPT !.challenge = 0]} ELSE {})
    /\ UNCHANGED <<stored, state, header, page, form, shown, count, away, view>>

\* The pages of the reset wait for ever for an answer that is lost.
Broken(j) ==
    /\ j.way \notin OAuth \union {"callback"} /\ Over(j)
    /\ \/ j.way \notin {"reset", "confirm"} /\ Ended(j) /\ UNCHANGED view
       \/ j.way \in {"reset", "confirm"} /\ j.here
          /\ view' = [view EXCEPT !.broken = @ \union {j.way}] /\ UNCHANGED busy
    /\ UNCHANGED <<cookie, stored, state, header, page, form, shown, count, away>>

OAuthFailed(j) ==
    /\ j.way \in OAuth /\ j.step = 2 /\ Over(j)
    /\ UNCHANGED <<cookie, stored, state, header, page, form, shown, busy, count, away, view>>

\* Three seconds free the button of every provider but GitHub, whose button
\* stays disabled until the page is loaded anew.
OAuthButtonFreed ==
    /\ "discord" \in busy /\ busy' = busy \ {"discord"}
    /\ UNCHANGED <<cookie, stored, state, header, page, form, shown, count, jobs, away, view>>

Answered(j) ==
    \/ PasswordAccepted(j) \/ handle2FASuccess(j) \/ Vouched(j) \/ PasskeyBegun(j) \/ Asserted(j)
    \/ PasskeyFinished(j) \/ OAuthSignedOut(j) \/ redirectToOAuthUrl(j) \/ sendCode(j)
    \/ CallbackBroken(j) \/ SignedOut(j) \/ Registered(j) \/ Mailed(j) \/ Refused(j) \/ Broken(j)
    \/ OAuthFailed(j)

Next ==
    \/ Go \/ OpenResetLink \/ Expired \/ Type \/ Show \/ HideWeChat \/ handleBackToLogin
    \/ \E way \in Ways : Start(way)
    \/ \E j \in jobs : Answered(j)
    \/ OAuth2Callback \/ CountedDown \/ OAuthButtonFreed
Spec == Init /\ [][Next]_vars

-----------------------------------------------------------------------------
(* Properties. *)

\* Type correctness.
TypeOK ==
    /\ {stored, state, header, cookie.id, cookie.pending, form.who} \subseteq Users \union {0}
    /\ page \in {"login", "register", "reset", "confirm", "callback", "console", "away"}
    /\ busy \union count \union view.broken \subseteq Ways
    /\ \A j \in jobs : j.way \in Ways /\ j.step \in 1..3

\* The console, the header of its requests, localStorage and the session agree
\* on who is signed in, unless two requests met.
OneAccount ==
    view.calm /\ page = "console" /\ jobs = {} =>
        state = stored /\ header = stored /\ cookie.id = stored /\ stored # 0

\* The two-step code is asked of the account whose password was accepted,
\* a provider has been given the state the session holds, and its answer binds an
\* account only when that was asked from the console.
AskedOfTheirs ==
    view.calm =>
        /\ "twofa" \in shown => cookie.pending = view.asked
        /\ page = "away" => cookie.state = away.state
        /\ \A j \in jobs : j.way = "callback" => (j.cookie.id # 0 <=> away.bind)

\* A button is held while its request is under way, and no longer, unless the
\* answer was lost.
HeldWhileAsked ==
    /\ \A j \in jobs : j.here /\ Holds(j.way) /\ j.way # "discord" => j.way \in busy
    /\ \A w \in busy \ OAuth : w \in view.broken \/ \E j \in jobs : j.way = w /\ j.here
=============================================================================
