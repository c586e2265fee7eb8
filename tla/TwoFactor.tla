------------------------------- MODULE TwoFactor -------------------------------
(***************************************************************************)
(* The card of the second factor on the personal page                      *)
(* (personal/components/TwoFASetting.jsx): set up in three steps, switched *)
(* off, given new backup codes.  The three dialogs share one typed code    *)
(* and one loading flag, and the status is read without a number.          *)
(* A set of backup codes is known by the number of its generation.         *)
(***************************************************************************)
EXTENDS Integers, FiniteSets

CONSTANT
    MaxRequests  \* bound: requests the user starts

VARIABLES
    status,      \* status.enabled, as the card shows it
    server,      \* the account: [enabled, codes], codes 0 for none
    visible,     \* the dialogs that are open
    setupData,   \* the codes of the set-up dialog, 0 for null
    currentStep, \* its step
    backupCodes, \* the codes of the backup dialog, 0 for []
    code,        \* verificationCode is not empty
    confirmDisable,
    loading,
    jobs,        \* requests under way: [kind, done, ok, got, id]
    view         \* history: calm, one reading of the status at a time and none
                 \* while something changes; held, no dialog was closed over
                 \* its request; kept, no answer was lost; clicks, made

vars == <<status, server, visible, setupData, currentStep, backupCodes, code,
          confirmDisable, loading, jobs, view>>

Dialogs == {"setup", "disable", "backup"}
Changing == {"setup", "enable", "disable", "regenerate"}
Generations == 0..(MaxRequests + 1)
Request(kind) ==
    [kind |-> kind, done |-> FALSE, ok |-> FALSE, got |-> 0, id |-> view.clicks]
Of(kinds) == {j \in jobs : j.kind \in kinds}

Init ==
    /\ status = FALSE /\ visible = {} /\ setupData = 0 /\ currentStep = 0
    /\ backupCodes = 0 /\ code = FALSE /\ confirmDisable = FALSE /\ loading = FALSE
    /\ server \in {[enabled |-> FALSE, codes |-> 0], [enabled |-> TRUE, codes |-> 1]}
    /\ view = [calm |-> TRUE, held |-> TRUE, kept |-> TRUE, clicks |-> 0]
    /\ jobs = {Request("status")}

-----------------------------------------------------------------------------
(* What the card and its dialogs show. *)

\* The card: set up, or the buttons that open the other two dialogs.
Card ==
    IF visible # {} THEN {}
    ELSE IF status THEN {"disable", "backup"} ELSE {"setup"} \ (IF loading THEN {"setup"} ELSE {})

\* The steps of the set-up dialog: the key, the codes, the code to type.
SetupShown ==
    IF "setup" \in visible /\ setupData # 0
    THEN <<"secret", "codes", "code">>[currentStep + 1] ELSE "nothing"

\* Codes are shown by the second step, and by the backup dialog that has some.
CodesShown ==
    (IF SetupShown = "codes" THEN {setupData} ELSE {})
      \union (IF "backup" \in visible THEN {backupCodes} \ {0} ELSE {})

\* Which dialog has the field that is typed in.
Typing ==
    \/ SetupShown = "code"
    \/ "disable" \in visible
    \/ "backup" \in visible /\ backupCodes = 0

\* The buttons that ask the server.
EnableUsable == "setup" \in visible /\ currentStep = 2 /\ code /\ ~loading
DisableUsable == "disable" \in visible /\ code /\ confirmDisable /\ ~loading
RegenerateUsable == "backup" \in visible /\ backupCodes = 0 /\ code /\ ~loading

-----------------------------------------------------------------------------
(* The user. *)

Ask(kind) ==
    /\ view.clicks < MaxRequests /\ loading' = TRUE
    /\ jobs' = jobs \union {Request(kind)}
    /\ view' = [view EXCEPT !.clicks = @ + 1, !.calm = @ /\ Of({"status"}) = {}]
    /\ UNCHANGED <<status, server, visible, setupData, currentStep, backupCodes, code,
                   confirmDisable>>

handleSetup2FA == "setup" \in Card /\ Ask("setup")
handleEnable2FA == EnableUsable /\ Ask("enable")
handleDisable2FA == DisableUsable /\ Ask("disable")
handleRegenerateBackupCodes == RegenerateUsable /\ Ask("regenerate")

OpenDialog(d) ==
    /\ d \in Card \ {"setup"} /\ visible' = {d}
    /\ UNCHANGED <<status, server, setupData, currentStep, backupCodes, code, confirmDisable,
                   loading, jobs, view>>

\* The footer of the set-up dialog leads through its steps.
Step(to) ==
    /\ "setup" \in visible /\ to \in 0..2 /\ to - currentStep \in {-1, 1}
    /\ currentStep' = to
    /\ UNCHANGED <<status, server, visible, setupData, backupCodes, code, confirmDisable,
                   loading, jobs, view>>

Type ==
    /\ Typing /\ code' = TRUE
    /\ UNCHANGED <<status, server, visible, setupData, currentStep, backupCodes,
                   confirmDisable, loading, jobs, view>>

Tick ==
    /\ "disable" \in visible /\ confirmDisable' = ~confirmDisable
    /\ UNCHANGED <<status, server, visible, setupData, currentStep, backupCodes, code,
                   loading, jobs, view>>

\* A dialog can be left at any time, its request goes on; each forgets its own.
Leave(d) ==
    /\ d \in visible /\ visible' = visible \ {d} /\ code' = FALSE
    /\ IF d = "setup" THEN setupData' = 0 /\ currentStep' = 0 ELSE UNCHANGED <<setupData, currentStep>>
    /\ confirmDisable' = (confirmDisable /\ d # "disable")
    /\ backupCodes' = IF d = "backup" THEN 0 ELSE backupCodes
    /\ view' = [view EXCEPT !.held = @ /\ ~loading]
    /\ UNCHANGED <<status, server, loading, jobs>>

-----------------------------------------------------------------------------
(* The server, and its answers. *)

\* Setting up makes a new secret and new codes unless the factor is on; the
\* other three need the code, which the server may refuse.
Served(j, accepted) ==
    LET ok == accepted /\ (server.enabled = (j.kind \in {"disable", "regenerate"}))
        fresh == j.id + 2
        made == [j EXCEPT !.done = TRUE, !.ok = ok,
                          !.got = IF j.kind \in {"setup", "regenerate"} /\ ok THEN fresh ELSE 0]
    IN /\ j \in Of(Changing) /\ ~j.done
       /\ jobs' = (jobs \ {j}) \union {made}
       /\ server' = IF ~ok THEN server
                    ELSE CASE j.kind = "setup" -> [server EXCEPT !.codes = fresh]
                           [] j.kind = "enable" -> [server EXCEPT !.enabled = TRUE]
                           [] j.kind = "disable" -> [enabled |-> FALSE, codes |-> 0]
                           [] OTHER -> [server EXCEPT !.codes = fresh]
       /\ UNCHANGED <<status, visible, setupData, currentStep, backupCodes, code,
                      confirmDisable, loading, view>>

\* Get2FAStatus reads the account; what it says is on its way.
StatusServed(j) ==
    /\ j \in Of({"status"}) /\ ~j.done
    /\ jobs' = (jobs \ {j}) \union {[j EXCEPT !.done = TRUE, !.ok = server.enabled]}
    /\ UNCHANGED <<status, server, visible, setupData, currentStep, backupCodes, code,
                   confirmDisable, loading, view>>

fetchStatus(j) ==
    /\ j \in Of({"status"}) /\ j.done
    /\ status' = j.ok /\ jobs' = jobs \ {j}
    /\ UNCHANGED <<server, visible, setupData, currentStep, backupCodes, code,
                   confirmDisable, loading, view>>

Refused(j) ==
    /\ j \in Of(Changing) /\ j.done /\ ~j.ok
    /\ loading' = FALSE /\ jobs' = jobs \ {j}
    /\ UNCHANGED <<status, server, visible, setupData, currentStep, backupCodes, code,
                   confirmDisable, view>>

SetUp(j) ==
    /\ j \in Of({"setup"}) /\ j.ok
    /\ setupData' = j.got /\ visible' = visible \union {"setup"} /\ currentStep' = 0
    /\ loading' = FALSE /\ jobs' = jobs \ {j}
    /\ UNCHANGED <<status, server, backupCodes, code, confirmDisable, view>>

\* The status is read again, and not waited for.
ReadAgain(j) ==
    /\ jobs' = (jobs \ {j}) \union {Request("status")}
    /\ view' = [view EXCEPT !.calm = @ /\ Of({"status"}) = {}]
    /\ code' = FALSE /\ loading' = FALSE
    /\ UNCHANGED <<status, server>>

Enabled(j) ==
    /\ j \in Of({"enable"}) /\ j.ok /\ ReadAgain(j)
    /\ visible' = visible \ {"setup"} /\ currentStep' = 0
    /\ UNCHANGED <<setupData, backupCodes, confirmDisable>>

Disabled(j) ==
    /\ j \in Of({"disable"}) /\ j.ok /\ ReadAgain(j)
    /\ visible' = visible \ {"disable"} /\ confirmDisable' = FALSE
    /\ UNCHANGED <<setupData, currentStep, backupCodes>>

Regenerated(j) ==
    /\ j \in Of({"regenerate"}) /\ j.ok /\ ReadAgain(j)
    /\ backupCodes' = j.got
    /\ UNCHANGED <<visible, setupData, currentStep, confirmDisable>>

\* An answer is lost, before or after the account has changed.
Lost(j) ==
    /\ j \in jobs /\ jobs' = jobs \ {j}
    /\ loading' = (loading /\ j.kind = "status")
    /\ view' = [view EXCEPT !.kept = FALSE]
    /\ UNCHANGED <<status, server, visible, setupData, currentStep, backupCodes, code,
                   confirmDisable>>

Next ==
    \/ handleSetup2FA \/ handleEnable2FA \/ handleDisable2FA \/ handleRegenerateBackupCodes
    \/ \E d \in Dialogs : OpenDialog(d) \/ Leave(d)
    \/ \E to \in 0..2 : Step(to)
    \/ Type \/ Tick
    \/ \E j \in jobs :
          \/ \E accepted \in BOOLEAN : Served(j, accepted)
          \/ StatusServed(j) \/ fetchStatus(j) \/ Refused(j)
          \/ SetUp(j) \/ Enabled(j) \/ Disabled(j) \/ Regenerated(j) \/ Lost(j)

Spec == Init /\ [][Next]_vars

-----------------------------------------------------------------------------
(* Types and properties. *)

TypeOK ==
    /\ status \in BOOLEAN /\ server \in [enabled : BOOLEAN, codes : Generations]
    /\ visible \subseteq Dialogs /\ currentStep \in 0..2
    /\ setupData \in Generations /\ backupCodes \in Generations
    /\ {code, confirmDisable, loading} \subseteq BOOLEAN
    /\ jobs \subseteq [kind : Changing \union {"status"}, done : BOOLEAN, ok : BOOLEAN,
                       got : Generations, id : 0..MaxRequests]
    /\ view \in [calm : BOOLEAN, held : BOOLEAN, kept : BOOLEAN, clicks : 0..MaxRequests]

\* The codes a dialog tells its user to keep are those the account has, as long
\* as no dialog is closed over its request: the shared flag lets one change run
\* at a time.  (New codes that come after the dialog was closed stay behind in
\* it, and are shown as new when the factor has been set up afresh.)
CodesAreTheAccounts == view.held => CodesShown \subseteq {server.codes}

\* At rest the card says whether the factor is on, unless two readings of the
\* status overtook each other, a change was asked for over one, or one was lost.
StatusIsTrue == (jobs = {} /\ view.calm /\ view.kept) => status = server.enabled

\* The flag the three dialogs share never lets two changes run together, nor
\* goes on when none runs.
OneAtATime ==
    /\ loading <=> Of(Changing) # {}
    /\ \A i, j \in Of(Changing) : i = j
=============================================================================
