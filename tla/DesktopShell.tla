---------------------------- MODULE DesktopShell ----------------------------
(***************************************************************************)
(* The desktop program (electron/main.js): it starts the server as a child *)
(* process, probes its port until somebody answers, opens a window and an  *)
(* entry in the tray, explains a crash in a dialog, and ends the server    *)
(* before it ends itself.                                                  *)
(*                                                                         *)
(* Node runs one callback at a time, so an action is one callback with the *)
(* microtasks it releases.  The server, the program that may already own   *)
(* the port, and the user are the environment.                             *)
(***************************************************************************)
EXTENDS Naturals, Sequences

CONSTANTS
    MaxAttempts, \* maxRetries of checkServerAvailability (30)
    LogCap,      \* error lines that are kept (100)
    Said,        \* causes the server's own lines may tell, "other" for none
    MaxTimeouts, \* bound: probes that time out
    MaxLines,    \* bound: error lines the server writes
    MaxWindows   \* bound: windows ever created

ASSUME DesktopAssumption ==
    /\ MaxAttempts \in Nat \ {0} /\ LogCap \in Nat \ {0}
    /\ {MaxTimeouts, MaxLines, MaxWindows} \subseteq Nat
    /\ Said \subseteq {"port", "data", "permission", "network", "config",
                       "memory", "file", "other"}

VARIABLES
    mode,       \* NODE_ENV: in "dev" nothing is spawned
    port,       \* who answers on the probed port
    server,     \* serverProcess and the process behind it
    code,       \* the exit code of the process
    start,      \* the promise of startServer
    attempt,    \* currentAttempt
    scheduled,  \* retries waiting for their timer
    probing,    \* probes waiting for an answer
    timeouts,
    lines,
    errorLogs,  \* serverErrorLogs, by the cause a line tells
    dialogs,    \* of the crash (close handler) and of the failed start
    causes,     \* what the two dialogs name
    windows, main, tray, isQuitting,
    quitTimer,  \* the five seconds of before-quit are running
    exited

probeVars == <<attempt, scheduled, probing, timeouts>>
logVars   == <<lines, errorLogs>>
uiVars    == <<windows, main, tray>>
quitVars  == <<isQuitting, quitTimer, exited>>
talkVars  == <<dialogs, causes>>
procVars  == <<port, server, code>>
vars == <<mode, procVars, start, probeVars, logVars, talkVars, uiVars, quitVars>>

Windows == 1..MaxWindows
NoWindow == 0
Causes  == <<"port", "data", "permission", "network", "config", "memory", "file">>
Dialogs == {"crash", "failed"}

\* analyzeError: the first rule, in this order, that some kept line matches.
analyzeError(logs) ==
    LET told == {i \in DOMAIN Causes : \E l \in DOMAIN logs : logs[l] = Causes[i]}
    IN  IF told = {} THEN "unknown"
        ELSE Causes[CHOOSE i \in told : \A j \in told : i <= j]

\* Mutants of Kept: the oldest lines are kept, or all of them.
KeptFirst(logs, line) == IF Len(logs) < LogCap THEN Append(logs, line) ELSE logs
KeptAll(logs, line)   == Append(logs, line)

\* The stderr handler keeps the last LogCap lines.
Kept(logs, line) ==
    LET all == Append(logs, line)
    IN  IF Len(all) > LogCap THEN Tail(all) ELSE all

Init ==
    /\ mode \in {"dev", "prod"} /\ port \in {"free", "other"}
    /\ server = "none" /\ code = "none" /\ start = "idle"
    /\ attempt = 0 /\ scheduled = 0 /\ probing = 0 /\ timeouts = 0
    /\ lines = 0 /\ errorLogs = <<>>
    /\ dialogs = [d \in Dialogs |-> "none"]
    /\ causes = [d \in Dialogs |-> "unknown"]
    /\ windows = [w \in Windows |-> "none"] /\ main = NoWindow /\ tray = FALSE
    /\ isQuitting = FALSE /\ quitTimer = FALSE /\ exited = FALSE

-----------------------------------------------------------------------------
(* The server process. *)

\* startServer spawns the binary; a missing one is an 'error' event, which
\* rejects the promise, and then a 'close' with a code that is not zero.
startServer ==
    /\ start = "idle" /\ ~exited
    /\ start' = "waiting" /\ scheduled' = 1
    /\ IF mode = "dev" THEN UNCHANGED <<server, code>>
       ELSE \/ server' = "running" /\ UNCHANGED code
            \/ server' = "unspawned" /\ code' = "fault"
    /\ UNCHANGED <<mode, port, attempt, probing, timeouts, logVars, talkVars,
                   uiVars, quitVars>>

WritesError ==
    /\ server = "running" /\ lines < MaxLines /\ ~exited
    /\ \E line \in Said : errorLogs' = Kept(errorLogs, line)
    /\ lines' = lines + 1
    /\ UNCHANGED <<mode, procVars, start, probeVars, talkVars, uiVars, quitVars>>

Listens ==
    /\ port = "free" /\ ~exited
    /\ \/ server = "running" /\ port' = "own"
       \/ mode = "dev" /\ port' = "other"
    /\ UNCHANGED <<mode, server, code, start, probeVars, logVars, talkVars,
                   uiVars, quitVars>>

\* The port is taken: the server writes so as its last words and fails.
BindFails ==
    /\ server = "running" /\ port = "other" /\ ~exited
    /\ errorLogs' = Kept(errorLogs, "port")
    /\ server' = "exited" /\ code' = "bind"
    /\ UNCHANGED <<mode, port, start, probeVars, lines, talkVars, uiVars, quitVars>>

ServerExits ==
    /\ server = "running" /\ ~exited
    /\ server' = "exited" /\ code' \in {"zero", "signal", "fault"}
    /\ port' = IF port = "own" THEN "free" ELSE port
    /\ UNCHANGED <<mode, start, probeVars, logVars, talkVars, uiVars, quitVars>>

\* mainWindow.close(): the window's own handler turns it into hide(), unless
\* the program is quitting.
CloseMain ==
    IF main = NoWindow THEN UNCHANGED <<windows, main>>
    ELSE IF isQuitting
         THEN windows' = [windows EXCEPT ![main] = "none"] /\ main' = NoWindow
         ELSE windows' = [windows EXCEPT ![main] = "hidden"] /\ UNCHANGED main

\* The 'close' handlers of serverProcess: the one of startServer, then the one
\* before-quit has added.
ServerClosed ==
    /\ server = "exited" /\ ~exited
    /\ server' = "closed"
    /\ IF code \in {"fault", "bind"}
       THEN /\ dialogs' = [dialogs EXCEPT !["crash"] = "open"]
            /\ causes' = [causes EXCEPT !["crash"] = analyzeError(errorLogs)]
            /\ UNCHANGED <<windows, main>>
       ELSE CloseMain /\ UNCHANGED talkVars
    /\ exited' = quitTimer
    /\ UNCHANGED <<mode, port, code, start, probeVars, logVars, tray, isQuitting,
                   quitTimer>>

-----------------------------------------------------------------------------
(* The start: checkServerAvailability and whenReady. *)

tryConnect ==
    /\ scheduled > 0 /\ ~exited
    /\ scheduled' = scheduled - 1 /\ probing' = probing + 1
    /\ attempt' = attempt + 1
    /\ UNCHANGED <<mode, procVars, start, timeouts, logVars, talkVars, uiVars,
                   quitVars>>

Fresh == CHOOSE w \in Windows : windows[w] = "none" /\ \A v \in Windows :
                                    windows[v] = "none" => w <= v

CreateWindow ==
    /\ \E w \in Windows : windows[w] = "none"
    /\ windows' = [windows EXCEPT ![Fresh] = "shown"] /\ main' = Fresh

\* resolve(): whenReady goes on with the tray and the window.
Answered ==
    /\ probing > 0 /\ port # "free" /\ ~exited
    /\ probing' = probing - 1
    /\ IF start = "waiting"
       THEN start' = "up" /\ tray' = TRUE /\ CreateWindow
       ELSE UNCHANGED <<start, uiVars>>
    /\ UNCHANGED <<mode, procVars, attempt, scheduled, timeouts, logVars, talkVars,
                   quitVars>>

\* reject(): whenReady catches and explains.
Reject ==
    IF start = "waiting"
    THEN /\ start' = "failed"
         /\ dialogs' = [dialogs EXCEPT !["failed"] = "open"]
         /\ causes' = [causes EXCEPT !["failed"] = analyzeError(errorLogs)]
    ELSE UNCHANGED <<start, talkVars>>

SpawnFails ==
    /\ server = "unspawned" /\ ~exited
    /\ server' = "exited" /\ Reject
    /\ UNCHANGED <<mode, port, code, probeVars, logVars, uiVars, quitVars>>

\* The 'error' handler of a probe: give up, or try again in a second.
GivesUp == attempt >= MaxAttempts

Refused ==
    /\ probing > 0 /\ port = "free" /\ ~exited
    /\ probing' = probing - 1
    /\ IF GivesUp THEN Reject /\ UNCHANGED scheduled
       ELSE scheduled' = scheduled + 1 /\ UNCHANGED <<start, talkVars>>
    /\ UNCHANGED <<mode, procVars, attempt, timeouts, logVars, uiVars, quitVars>>

\* The 'timeout' handler destroys the request, which makes it an 'error' too:
\* both handlers run, and a probe that is to be repeated is repeated twice.
TimedOut ==
    /\ probing > 0 /\ timeouts < MaxTimeouts /\ ~exited
    /\ probing' = probing - 1 /\ timeouts' = timeouts + 1
    /\ IF GivesUp THEN Reject /\ UNCHANGED scheduled
       ELSE scheduled' = scheduled + 2 /\ UNCHANGED <<start, talkVars>>
    /\ UNCHANGED <<mode, procVars, attempt, logVars, uiVars, quitVars>>

-----------------------------------------------------------------------------
(* The windows, the tray and the end. *)

\* A mutant of BeforeQuit: it waits for 'close' alone when the server is dead.
BeforeQuitIfAlive ==
    /\ server # "none"
    /\ quitTimer' = (server = "running")
    /\ UNCHANGED <<windows, main, exited>>

\* before-quit ends the server first: SIGTERM, five seconds, SIGKILL.
\* serverProcess is never reset, so a server that is dead is waited for too.
BeforeQuit ==
    /\ server # "none"
    /\ quitTimer' = TRUE
    /\ UNCHANGED <<windows, main, exited>>

\* Without a server the windows are asked to close; one that hides instead
\* takes the quit back.
QuitWindows ==
    /\ server = "none"
    /\ IF isQuitting' \/ \A w \in Windows : windows[w] = "none"
       THEN exited' = TRUE /\ UNCHANGED <<windows, main>>
       ELSE /\ windows' = [windows EXCEPT ![main] = "hidden"]
            /\ UNCHANGED <<main, exited>>
    /\ UNCHANGED quitTimer

Quit == BeforeQuit \/ QuitWindows

\* A mutant of QuitTimer: no SIGKILL.
QuitTimerLeaves ==
    /\ quitTimer /\ ~exited
    /\ exited' = TRUE
    /\ UNCHANGED <<mode, procVars, start, probeVars, logVars, talkVars, uiVars,
                   isQuitting, quitTimer>>

QuitTimer ==
    /\ quitTimer /\ ~exited
    /\ exited' = TRUE
    /\ server' = IF server = "running" THEN "killed" ELSE server
    /\ UNCHANGED <<mode, port, code, start, probeVars, logVars, talkVars, uiVars,
                   isQuitting, quitTimer>>

\* The answer to a dialog.  The one of the crash sets isQuitting, the one of
\* the failed start does not.
DialogAnswered(d) ==
    /\ dialogs[d] \in {"open", "log"} /\ ~exited
    /\ \/ /\ dialogs[d] = "open" \* the log is saved, a second dialog confirms
          /\ dialogs' = [dialogs EXCEPT ![d] = "log"]
          /\ UNCHANGED <<windows, main, quitVars>>
       \/ /\ dialogs' = [dialogs EXCEPT ![d] = "answered"]
          /\ isQuitting' = (isQuitting \/ d = "crash")
          /\ Quit
    /\ UNCHANGED <<mode, procVars, start, probeVars, logVars, causes, tray>>

TrayQuit ==
    /\ tray /\ ~exited
    /\ isQuitting' = TRUE /\ Quit
    /\ UNCHANGED <<mode, procVars, start, probeVars, logVars, talkVars, tray>>

\* The Quit of the application menu, which main.js leaves as Electron makes it.
MenuQuit ==
    /\ main # NoWindow /\ windows[main] = "shown" /\ ~exited
    /\ UNCHANGED isQuitting /\ Quit
    /\ UNCHANGED <<mode, procVars, start, probeVars, logVars, talkVars, tray>>

TrayClick ==
    /\ tray /\ ~exited
    /\ IF main = NoWindow THEN CreateWindow
       ELSE /\ windows' = [windows EXCEPT ![main] =
                              IF @ = "shown" THEN "hidden" ELSE "shown"]
            /\ UNCHANGED main
    /\ UNCHANGED <<mode, procVars, start, probeVars, logVars, talkVars, tray, quitVars>>

\* A window is closed by its button: its handler hides *mainWindow*.
WindowClose(w) ==
    /\ windows[w] = "shown" /\ ~exited
    /\ IF isQuitting
       THEN windows' = [windows EXCEPT ![w] = "none"] /\ main' = NoWindow
       ELSE windows' = [windows EXCEPT ![main] = "hidden"] /\ UNCHANGED main
    /\ UNCHANGED <<mode, procVars, start, probeVars, logVars, talkVars, tray, quitVars>>

\* macOS activates the program, before the server answers too.
Activate ==
    /\ \A w \in Windows : windows[w] = "none"
    /\ start # "idle" /\ ~exited
    /\ CreateWindow
    /\ UNCHANGED <<mode, procVars, start, probeVars, logVars, talkVars, tray, quitVars>>

Server == startServer \/ WritesError \/ Listens \/ BindFails \/ ServerExits \/ ServerClosed
Start  == tryConnect \/ Answered \/ SpawnFails \/ Refused \/ TimedOut
User   == \/ TrayQuit \/ MenuQuit \/ TrayClick \/ Activate
          \/ \E d \in Dialogs : DialogAnswered(d)
          \/ \E w \in Windows : WindowClose(w)

Next == Server \/ Start \/ User \/ QuitTimer

Spec == Init /\ [][Next]_vars

\* Timers fire and a probe gets its answer, its refusal or its timeout.
FairSpec == Spec /\ WF_vars(tryConnect) /\ WF_vars(Answered \/ Refused \/ TimedOut)
                 /\ WF_vars(QuitTimer)

-----------------------------------------------------------------------------
(* Properties. *)

Status == {"none", "open", "log", "answered"}

\* Type correctness, and the probes in flight are as many as the loops.
TypeOK ==
    /\ mode \in {"dev", "prod"} /\ port \in {"free", "other", "own"}
    /\ server \in {"none", "unspawned", "running", "exited", "closed", "killed"}
    /\ code \in {"none", "zero", "signal", "fault", "bind"}
    /\ start \in {"idle", "waiting", "up", "failed"}
    /\ {attempt, scheduled, probing} \subseteq Nat
    /\ timeouts \in 0..MaxTimeouts /\ lines \in 0..MaxLines
    /\ Len(errorLogs) <= LogCap
    /\ dialogs \in [Dialogs -> Status]
    /\ causes \in [Dialogs -> {"unknown"} \union {Causes[i] : i \in DOMAIN Causes}]
    /\ windows \in [Windows -> {"none", "shown", "hidden"}]
    /\ main \in Windows \union {NoWindow}
    /\ {tray, isQuitting, quitTimer, exited} \subseteq BOOLEAN

\* The program never ends before its server: whichever of the ways out is
\* taken, the process it spawned is dead (before-quit).
NoOrphanServer == exited => server # "running"

\* A server that could not bind its port is reported as such, whatever it
\* wrote before and however little of it is kept (stderr handler, analyzeError).
BindFailureNamed ==
    (dialogs["crash"] # "none" /\ code = "bind") => causes["crash"] = "port"

\* The start ends, with a window or with an explanation, although a timed-out
\* probe is repeated twice (checkServerAvailability).
StartupSettles == (start = "waiting") ~> (start # "waiting" \/ exited)

\* Whoever quits from the tray or from the crash dialog, or quits while there
\* is a server to end, does quit, in whatever state the server is.
QuitEnds == (isQuitting \/ quitTimer) ~> exited

\* Neither the start nor the end of the program hangs.
NeverHangs == StartupSettles /\ QuitEnds
=============================================================================
