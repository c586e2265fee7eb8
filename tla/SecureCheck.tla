------------------------------ MODULE SecureCheck ------------------------------
(***************************************************************************)
(* Showing the key of a channel (EditChannelModal.jsx) behind a secure     *)
(* verification (useSecureVerification.jsx): the key is asked for, refused *)
(* until the session is verified, and asked for again by the dialog of the *)
(* verification once a code or a passkey has been accepted.                *)
(***************************************************************************)
EXTENDS Integers

CONSTANTS
    MaxOpens,  \* bound: channels opened
    MaxTries   \* bound: keys asked for

VARIABLES
    methods, \* the methods the user has set up
    session, \* what the session holds: "none", "ready" or "verified"
    editing, \* the channel of the dialog, 0 when it is closed
    known,   \* verificationMethods
    modal,   \* verificationState and isModalVisible: [visible, method, loading, code, apiCall]
    key,     \* the channel whose key is shown, 0 for none
    jobs,    \* requests: [step, of, method, id]
    view     \* history: calm, nothing was under way when the channel opened; opens, clicks

vars == <<methods, session, editing, known, modal, key, jobs, view>>

Channels == 1..2
Methods == {"2fa", "passkey"}
NoModal == [visible |-> FALSE, method |-> "none", loading |-> FALSE, code |-> FALSE, apiCall |-> 0]
Asking(of, id) == [step |-> "methods", of |-> of, method |-> "none", id |-> id]

\* The methods are asked for when the page is mounted.
Init ==
    /\ methods \in SUBSET Methods /\ session = "none" /\ editing = 0
    /\ known = {} /\ modal = NoModal /\ key = 0
    /\ jobs = {Asking(0, 0)}
    /\ view = [calm |-> TRUE, opens |-> 0, clicks |-> 0]

Covered == modal.visible \/ key # 0

Open ==
    /\ editing = 0 /\ ~Covered /\ view.opens < MaxOpens /\ editing' \in Channels
    /\ view' = [view EXCEPT !.opens = @ + 1, !.calm = @ /\ \A j \in jobs : j.of = 0]
    /\ UNCHANGED <<methods, session, known, modal, key, jobs>>

Close ==
    /\ editing # 0 /\ ~Covered /\ editing' = 0
    /\ UNCHANGED <<methods, session, known, modal, key, jobs, view>>

handleShow2FAModal ==
    /\ editing # 0 /\ ~Covered /\ view.clicks < MaxTries
    /\ view' = [view EXCEPT !.clicks = @ + 1]
    /\ jobs' = jobs \union {[step |-> "first", of |-> editing, method |-> "none", id |-> view'.clicks]}
    /\ UNCHANGED <<methods, session, editing, known, modal, key>>

\* What a request becomes.
Becomes(j, next) == jobs' = (jobs \ {j}) \union next

\* The server lets a verified session pass.
GetChannelKey(j) == session = "verified" /\ key' = j.of /\ Becomes(j, {})

withVerification(j) ==
    /\ j.step = "first"
    /\ \/ GetChannelKey(j)
       \/ session # "verified" /\ Becomes(j, {Asking(j.of, j.id)}) /\ UNCHANGED key
    /\ UNCHANGED <<methods, session, editing, known, modal, view>>

\* The dialog starts with the passkey, whichever methods there are.
startVerification(j) ==
    /\ j.step = "methods" /\ Becomes(j, {})
    /\ known' \in {methods, {}}
    /\ modal' = IF j.of = 0 \/ known' = {} THEN modal
                ELSE [modal EXCEPT !.visible = TRUE, !.method = "passkey", !.apiCall = j.of]
    /\ UNCHANGED <<methods, session, editing, key, view>>

\* The pane of the method, if there is one.
Pane(method) == modal.visible /\ modal.method = method /\ method \in known /\ ~modal.loading

switchVerificationMethod ==
    /\ modal.visible
    /\ \E m \in known \ {modal.method} : modal' = [modal EXCEPT !.method = m, !.code = FALSE]
    /\ UNCHANGED <<methods, session, editing, known, key, jobs, view>>

setVerificationCode ==
    /\ Pane("2fa") /\ ~modal.code /\ modal' = [modal EXCEPT !.code = TRUE]
    /\ UNCHANGED <<methods, session, editing, known, key, jobs, view>>

cancelVerification ==
    /\ modal.visible /\ ~modal.loading /\ modal' = NoModal
    /\ UNCHANGED <<methods, session, editing, known, key, jobs, view>>

executeVerification ==
    /\ (Pane("2fa") /\ modal.code) \/ Pane("passkey")
    /\ modal' = [modal EXCEPT !.loading = TRUE]
    /\ jobs' = jobs \union {[step |-> IF modal.method = "passkey" THEN "ceremony" ELSE "verify",
                             of |-> modal.apiCall, method |-> modal.method, id |-> 0]}
    /\ UNCHANGED <<methods, session, editing, known, key, view>>

\* The passkey's own verification, which undoes an earlier one.
verifyPasskey(j) ==
    /\ j.step = "ceremony" /\ session' = "ready" /\ Becomes(j, {[j EXCEPT !.step = "verify"]})
    /\ UNCHANGED <<methods, editing, known, modal, key, view>>

UniversalVerify(j) ==
    /\ j.step = "verify" /\ j.method \in methods /\ (j.method = "passkey" => session = "ready")
    /\ session' = "verified" /\ Becomes(j, {[j EXCEPT !.step = "key"]})
    /\ UNCHANGED <<methods, editing, known, modal, key, view>>

Verified(j) ==
    /\ j.step = "key" /\ GetChannelKey(j) /\ modal' = NoModal
    /\ UNCHANGED <<methods, session, editing, known, view>>

\* The dialog of the verification stays for another try.
Failed(j) ==
    /\ j.step # "methods" /\ Becomes(j, {})
    /\ modal' = IF j.step = "first" THEN modal ELSE [modal EXCEPT !.loading = FALSE]
    /\ session' \in {session} \union (IF j.step = "verify" /\ session = "ready" THEN {"none"} ELSE {})
    /\ UNCHANGED <<methods, editing, known, key, view>>

resetKeyDisplayState ==
    /\ key # 0 /\ key' = 0
    /\ UNCHANGED <<methods, session, editing, known, modal, jobs, view>>

\* Five minutes after the verification, one after the passkey's.
SessionExpires ==
    /\ session # "none" /\ session' = "none"
    /\ UNCHANGED <<methods, editing, known, modal, key, jobs, view>>

Answered(j) ==
    \/ withVerification(j) \/ startVerification(j) \/ verifyPasskey(j) \/ UniversalVerify(j)
    \/ Verified(j) \/ Failed(j)

Next ==
    \/ Open \/ Close \/ handleShow2FAModal \/ switchVerificationMethod \/ setVerificationCode
    \/ cancelVerification \/ executeVerification \/ resetKeyDisplayState \/ SessionExpires
    \/ \E j \in jobs : Answered(j)
Spec == Init /\ [][Next]_vars

-----------------------------------------------------------------------------
(* Properties. *)

\* Type correctness.
TypeOK ==
    /\ methods \union known \subseteq Methods /\ session \in {"none", "ready", "verified"}
    /\ {editing, key, modal.apiCall} \subseteq Channels \union {0}
    /\ {modal.visible, modal.loading, modal.code, view.calm} \subseteq BOOLEAN

\* The key that is shown is that of the channel that is open, and so is the one
\* a verification is for, unless something was under way when it was opened.
KeyIsItsOwn ==
    view.calm => /\ key # 0 /\ editing # 0 => key = editing
                 /\ modal.visible /\ editing # 0 => modal.apiCall = editing

\* The dialog of a verification knows what it is for, is held while one runs,
\* and only then.
HeldWhileVerifying ==
    /\ modal.visible <=> modal.apiCall # 0
    /\ modal.loading <=> \E j \in jobs : j.step \in {"ceremony", "verify", "key"}
=============================================================================
