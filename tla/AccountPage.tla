------------------------------ MODULE AccountPage ------------------------------
(***************************************************************************)
(* The account's card of the personal page (AccountManagement.jsx, with    *)
(* the handlers of PersonalSetting.jsx and its dialogs): the mail address, *)
(* WeChat, other providers, the access token, the password, the passkey    *)
(* and the end of the account.  The handlers live in the page, close over  *)
(* what it showed at the click, and share one flag for two of them.        *)
(***************************************************************************)
EXTENDS Integers, FiniteSets

CONSTANT
    MaxSteps  \* bound: dialogs opened and requests started

VARIABLES
    email,    \* userState.user.email, 0 for none
    token,    \* systemToken, 0 for none
    passkey,  \* passkeyStatus.enabled
    bound,    \* the provider is in customOAuthBindings
    server,   \* the account: [email, token, passkey, bound]
    typed,    \* inputs.email, 0 for none
    visible,  \* the dialog that is open, "none" for none
    cool,     \* disableButton, until the countdown ends
    loading,  \* shared by the two requests of the mail dialog
    busy,     \* passkeyRegisterLoading, passkeyDeleteLoading, customOAuthLoading
    jobs,     \* requests under way: [kind, sent, done, ok, id]
    view      \* history: calm, no two requests about one subject together;
              \* kept, no answer was lost; gone, the account is; clicks, dialogs
              \* opened and requests started

vars == <<email, token, passkey, bound, server, typed, visible, cool, loading, busy, jobs, view>>

Addresses == {1, 2}   \* the account's, and a new one
Dialogs == {"email", "wechat", "password", "delete", "unbind", "remove"}
Readings == {"user", "passkeys", "bindings"}
Kinds == Dialogs \union Readings \union {"token", "send", "begin", "prompt",
                         "register", "logout"}
Subject(kind) ==
    CASE kind \in {"email", "user"} -> "email"
      [] kind \in {"begin", "prompt", "register", "remove", "passkeys"} -> "passkey"
      [] kind \in {"unbind", "bindings"} -> "bound"
      [] OTHER -> kind

Request(kind, sent) ==
    [kind |-> kind, sent |-> sent, done |-> FALSE, ok |-> FALSE, id |-> view.clicks]
Of(kinds) == {j \in jobs : j.kind \in kinds}
Together(kind, others) == \E j \in others : Subject(j.kind) = Subject(kind)

Init ==
    /\ server = [email |-> 1, token |-> 0, passkey |-> TRUE, bound |-> TRUE]
    /\ email = server.email /\ token = 0 /\ passkey = FALSE /\ bound = FALSE
    /\ typed = 0 /\ visible = "none"
    /\ cool = FALSE /\ loading = FALSE /\ busy = {}
    /\ view = [calm |-> TRUE, kept |-> TRUE, gone |-> FALSE, clicks |-> 0]
    /\ jobs = {Request("user", 0), Request("bindings", 0)}

-----------------------------------------------------------------------------
(* What the card shows. *)

Open == visible = "none" /\ ~view.gone

\* The address can always be changed, WeChat where it is enabled.
EmailShown == email
EmailOffered == Open
WeChatOffered == Open

\* A provider that is bound is unbound here, any other leads to its own page,
\* as the built-in ones do (sign-in is SignIn's).
UnbindOffered == Open /\ bound /\ "unbind" \notin busy

\* The token, which is generated without a question; the password.
TokenShown == token
PasswordOffered == Open

\* One button for the passkey: which it is follows the status.
PasskeyOffered(kind) ==
    Open /\ (IF passkey THEN kind = "remove" ELSE kind = "begin") /\ kind \notin busy
DeleteOffered == Open

Offered(d) ==
    CASE d = "email" -> EmailOffered [] d = "wechat" -> WeChatOffered
      [] d = "password" -> PasswordOffered [] d = "delete" -> DeleteOffered
      [] d = "unbind" -> UnbindOffered [] OTHER -> PasskeyOffered("remove")

\* The dialogs: the mail dialog's first button waits for the countdown and for
\* the flag, no button that ends a dialog waits for its own request.
SendUsable == visible = "email" /\ ~cool /\ ~loading /\ typed # 0
Usable(d) == visible = d

-----------------------------------------------------------------------------
(* The user. *)

Show(d) ==
    /\ Offered(d) /\ visible' = d
    /\ view.clicks < MaxSteps /\ view' = [view EXCEPT !.clicks = @ + 1]
    /\ UNCHANGED <<email, token, passkey, bound, server, typed, cool, loading, busy, jobs>>

\* What was typed stays in the page.
Leave ==
    /\ visible # "none" /\ visible' = "none"
    /\ UNCHANGED <<email, token, passkey, bound, server, typed, cool, loading, busy, jobs, view>>

TypeAddress(a) ==
    /\ visible = "email" /\ a # typed /\ typed' = a
    /\ UNCHANGED <<email, token, passkey, bound, server, visible, cool, loading, busy, jobs, view>>

Ask(kind, sent) ==
    /\ view.clicks < MaxSteps
    /\ jobs' = jobs \union {Request(kind, sent)}
    /\ view' = [view EXCEPT !.clicks = @ + 1, !.calm = @ /\ ~Together(kind, jobs)]
    /\ UNCHANGED <<email, token, passkey, bound, server, typed>>

\* The button is disabled first; the check of the visitor may then refuse.
sendVerificationCode(checked) ==
    /\ SendUsable /\ cool' = TRUE
    /\ IF checked THEN Ask("send", typed) /\ loading' = TRUE
       ELSE UNCHANGED <<email, token, passkey, bound, server, typed, loading, jobs, view>>
    /\ UNCHANGED <<visible, busy>>

Countdown ==
    /\ cool /\ cool' = FALSE
    /\ UNCHANGED <<email, token, passkey, bound, server, typed, visible, loading, busy, jobs, view>>

bindEmail ==
    /\ Usable("email") /\ typed # 0 /\ Ask("email", typed) /\ loading' = TRUE
    /\ UNCHANGED <<visible, cool, busy>>

\* bindWeChat, changePassword (its fields are compared first) and deleteAccount
\* (the name is) wait for nothing.
Confirm(d) ==
    /\ d \in {"wechat", "password", "delete"} /\ Usable(d) /\ Ask(d, 0)
    /\ UNCHANGED <<visible, cool, loading, busy>>

generateAccessToken ==
    /\ Open /\ Ask("token", 0)
    /\ UNCHANGED <<visible, cool, loading, busy>>

handleUnbindCustomOAuth ==
    /\ Usable("unbind") /\ Ask("unbind", 0) /\ busy' = busy \union {"unbind"}
    /\ visible' = "none"
    /\ UNCHANGED <<cool, loading>>

handleRemovePasskey ==
    /\ Usable("remove") /\ Ask("remove", 0) /\ busy' = busy \union {"remove"}
    /\ visible' = "none"
    /\ UNCHANGED <<cool, loading>>

handleRegisterPasskey ==
    /\ PasskeyOffered("begin") /\ Ask("begin", 0) /\ busy' = busy \union {"begin"}
    /\ UNCHANGED <<visible, cool, loading>>

-----------------------------------------------------------------------------
(* The server. *)

Changed(j) ==
    CASE j.kind = "email" -> [server EXCEPT !.email = j.sent]
      [] j.kind = "token" -> [server EXCEPT !.token = j.id + 1]
      [] j.kind = "register" -> [server EXCEPT !.passkey = TRUE]
      [] j.kind = "remove" -> [server EXCEPT !.passkey = FALSE]
      [] j.kind = "unbind" -> [server EXCEPT !.bound = FALSE]
      [] OTHER -> server
Served(j, ok) ==
    /\ ~j.done /\ j.kind \notin Readings \union {"prompt"}
    /\ server' = IF ok THEN Changed(j) ELSE server
    /\ jobs' = (jobs \ {j}) \union {[j EXCEPT !.done = TRUE, !.ok = ok]}
    /\ UNCHANGED <<email, token, passkey, bound, typed, visible, cool, loading, busy, view>>

-----------------------------------------------------------------------------
(* The answers.  A reading is taken when its answer comes: one that a change *)
(* overtakes is not calm anyway. *)

Then(j, kind, for) ==
    /\ jobs' = (jobs \ {j}) \union {[Request(kind, for) EXCEPT !.id = j.id]}
    /\ view' = [view EXCEPT !.calm = @ /\ ~Together(kind, jobs \ {j})]

\* The flag a request holds; a reading holds the one of the change before it.
FlagOf(j) ==
    CASE j.kind \in {"begin", "prompt", "register"} -> {"begin"}
      [] j.kind \in {"remove", "unbind"} -> {j.kind}
      [] j.kind = "passkeys" /\ j.sent # 0 -> IF j.sent = 1 THEN {"begin"} ELSE {"remove"}
      [] j.kind = "bindings" /\ j.sent # 0 -> {"unbind"}
      [] OTHER -> {}
Free(j) == busy' = busy \ FlagOf(j)

\* getUserData, and loadPasskeyStatus after it.
UserRead(j) ==
    /\ j.kind = "user" /\ email' = server.email /\ Then(j, "passkeys", 0)
    /\ UNCHANGED <<token, passkey, bound, server, typed, visible, cool, loading, busy>>

\* The buttons of the passkey wait for this reading too.
loadPasskeyStatus(j) ==
    /\ j.kind = "passkeys" /\ passkey' = server.passkey /\ jobs' = jobs \ {j}
    /\ Free(j)
    /\ UNCHANGED <<email, token, bound, server, typed, visible, cool, loading, view>>

loadCustomOAuthBindings(j) ==
    /\ j.kind = "bindings" /\ bound' = server.bound /\ jobs' = jobs \ {j}
    /\ Free(j)
    /\ UNCHANGED <<email, token, passkey, server, typed, visible, cool, loading, view>>

\* The browser asks for the key between the two requests; the user may refuse.
Prompted(j, given) ==
    /\ \/ j.kind = "begin" /\ j.ok /\ given /\ Then(j, "prompt", 0) /\ UNCHANGED busy
       \/ j.kind = "prompt" /\ given /\ Then(j, "register", 0) /\ UNCHANGED busy
       \/ j.kind = "prompt" /\ ~given /\ jobs' = jobs \ {j} /\ Free(j) /\ UNCHANGED view
    /\ UNCHANGED <<email, token, passkey, bound, server, typed, visible, cool, loading>>

\* What follows a change that is read back.
ReadBack(j) ==
    /\ j.ok /\ \/ j.kind = "register" /\ Then(j, "passkeys", 1)
               \/ j.kind = "remove" /\ Then(j, "passkeys", 2)
               \/ j.kind = "unbind" /\ Then(j, "bindings", 1)
    /\ UNCHANGED <<email, token, passkey, bound, server, typed, visible, cool, loading, busy>>

TokenMade(j) ==
    /\ j.kind = "token" /\ j.ok /\ token' = j.id + 1 /\ jobs' = jobs \ {j}
    /\ UNCHANGED <<email, passkey, bound, server, typed, visible, cool, loading, busy, view>>

\* The address is put into the page's copy of the user.
EmailBound(j) ==
    /\ j.kind = "email" /\ j.ok /\ email' = j.sent /\ loading' = FALSE /\ jobs' = jobs \ {j}
    /\ visible' = IF visible = "email" THEN "none" ELSE visible
    /\ UNCHANGED <<token, passkey, bound, server, typed, cool, busy, view>>

\* A new password closes WeChat's dialog, and its own in any case.
Closed(j) ==
    /\ j.done /\ ((j.kind = "wechat" /\ j.ok) \/ j.kind = "password") /\ jobs' = jobs \ {j}
    /\ visible' = IF visible = j.kind \/ (j.ok /\ visible = "wechat") THEN "none" ELSE visible
    /\ UNCHANGED <<email, token, passkey, bound, server, typed, cool, loading, busy, view>>

\* The account is gone, then the session, then the page.
Deleted(j) ==
    /\ j.ok /\ \/ j.kind = "delete" /\ Then(j, "logout", 0)
               \/ j.kind = "logout" /\ jobs' = jobs \ {j} /\ view' = [view EXCEPT !.gone = TRUE]
    /\ UNCHANGED <<email, token, passkey, bound, server, typed, visible, cool, loading, busy>>

\* A refusal says so; every flag the request had is taken back.
Ended(j) ==
    /\ jobs' = jobs \ {j} /\ Free(j)
    /\ UNCHANGED <<email, token, passkey, bound, server, typed, visible, cool>>
Refused(j) ==
    /\ j.done /\ ~j.ok /\ j.kind # "password"
    /\ Ended(j) /\ loading' = (loading /\ j.kind \notin {"send", "email"})
    /\ UNCHANGED view
Sent(j) ==
    /\ j.kind = "send" /\ j.ok /\ Ended(j) /\ loading' = FALSE /\ UNCHANGED view

\* The mail dialog's requests have no catch: an answer that is lost leaves the
\* flag.  Bound: one answer is lost.
Lost(j) ==
    /\ view.kept /\ j.kind # "prompt" /\ Ended(j) /\ UNCHANGED loading
    /\ view' = [view EXCEPT !.kept = FALSE]

Next ==
    \/ \E d \in Dialogs : Show(d) \/ Confirm(d)
    \/ TypeAddress(2)
    \/ \E checked \in BOOLEAN : sendVerificationCode(checked)
    \/ Leave \/ Countdown \/ bindEmail \/ generateAccessToken
    \/ handleUnbindCustomOAuth \/ handleRemovePasskey \/ handleRegisterPasskey
    \/ \E j \in jobs :
          \/ \E yes \in BOOLEAN : Served(j, yes) \/ Prompted(j, yes)
          \/ UserRead(j) \/ loadPasskeyStatus(j) \/ loadCustomOAuthBindings(j) \/ ReadBack(j)
          \/ TokenMade(j) \/ EmailBound(j) \/ Closed(j) \/ Deleted(j)
          \/ Refused(j) \/ Sent(j) \/ Lost(j)

Spec == Init /\ [][Next]_vars

-----------------------------------------------------------------------------
(* Types and properties. *)

TypeOK ==
    /\ email \in Addresses \union {0} /\ token \in 0..MaxSteps
    /\ {passkey, bound, cool, loading} \subseteq BOOLEAN
    /\ server \in [email : Addresses \union {0}, token : 0..MaxSteps, passkey : BOOLEAN,
                   bound : BOOLEAN]
    /\ typed \in Addresses \union {0}
    /\ visible \in Dialogs \union {"none"} /\ busy \subseteq {"begin", "remove", "unbind"}
    /\ \A j \in jobs : j.kind \in Kinds
    /\ view.clicks \in 0..MaxSteps

\* At rest the card says what the account has, unless two requests about one
\* thing ran together or an answer was lost: the address of the click, the
\* token that works, the passkey and the provider as they were read back.
ShownIsTheAccount ==
    (jobs = {} /\ view.calm /\ view.kept) =>
       /\ EmailShown = server.email /\ TokenShown = server.token
       /\ passkey = server.passkey /\ bound = server.bound

\* No button of the card waits for ever: a flag is on only while a request of
\* its own is under way, but for the mail dialog's after a lost answer.
FlagsEnd ==
    /\ loading /\ view.kept => Of({"send", "email"}) # {}
    /\ busy = UNION {FlagOf(j) : j \in jobs}
=============================================================================
