------------------------- MODULE DesktopShellProofs -------------------------
(***************************************************************************)
(* Theorems about DesktopShell for any number of probes, windows, timeouts *)
(* and lines of the server, whatever they say.                             *)
(***************************************************************************)
EXTENDS DesktopShell, WellFoundedInduction, TLAPS

TellsPort(logs) == \E l \in DOMAIN logs : logs[l] = "port"

\* The server is started once, its crash is explained once it is closed, and one
\* that could not bind has left that as a line that is still kept.
Phases ==
    /\ server # "none" => start # "idle"
    /\ code = "bind" => server \in {"exited", "closed"}
    /\ dialogs["crash"] # "none" => server = "closed"
    /\ server = "exited" /\ code = "bind" => TellsPort(errorLogs)

Lines == Said \union {"port"}
ShellInv == TypeOK /\ errorLogs \in Seq(Lines) /\ Phases /\ NoOrphanServer /\ BindFailureNamed

-----------------------------------------------------------------------------
(* Lemmas about the operators *)

LEMMA LeastOf ==
    ASSUME NEW S \in SUBSET Nat, S # {}
    PROVE  \E x \in S : \A y \in S : x <= y
  <1>1. PICK R : IsWellFoundedOn(R, Nat) /\ R = {ss \in Nat \X Nat : ss[1] < ss[2]}
    <2>1. IsWellFoundedOn(OpToRel(<, Nat), Nat)
      BY NatLessThanWellFounded
    <2>2. OpToRel(<, Nat) = {ss \in Nat \X Nat : ss[1] < ss[2]}
      BY Zenon DEF OpToRel
    <2>3. QED
      BY <2>1, <2>2, Zenon
  <1>2. PICK x \in S : \A y \in S : ~ (<<y, x>> \in R)
    BY <1>1, WFMin, Zenon
  <1>3. \A y \in S : y < x => <<y, x>> \in R
    BY <1>1
  <1>4. \A y \in S : ~ (y < x)
    BY <1>2, <1>3, Zenon
  <1>5. QED
    BY <1>4

CauseSet == {"unknown"} \union {Causes[i] : i \in DOMAIN Causes}

\* analyzeError names one of its rules, and the port before anything else.
LEMMA Analyzed ==
    ASSUME NEW logs
    PROVE  /\ analyzeError(logs) \in CauseSet
           /\ TellsPort(logs) => analyzeError(logs) = "port"
  <1> DEFINE told == {i \in DOMAIN Causes : \E l \in DOMAIN logs : logs[l] = Causes[i]}
             first == CHOOSE i \in told : \A j \in told : i <= j
  <1>1. DOMAIN Causes = 1..7 /\ Causes[1] = "port"
    BY DEF Causes
  <1>2. CASE told = {}
    <2>1. analyzeError(logs) = "unknown"
      BY <1>2, Zenon DEF analyzeError
    <2>2. ~TellsPort(logs)
      BY <1>1, <1>2 DEF TellsPort
    <2>3. QED
      BY <2>1, <2>2 DEF CauseSet
  <1>3. CASE told # {}
    <2>1. told \in SUBSET (1..7)
      BY <1>1
    <2>2. \E i \in told : \A j \in told : i <= j
      <3>1. told \in SUBSET Nat
        BY <2>1
      <3> HIDE DEF told
      <3>2. QED
        BY <1>3, <3>1, LeastOf
    <2>3. first \in told /\ \A j \in told : first <= j
      <3> HIDE DEF told
      <3>1. QED
        BY <2>2, Zenon
    <2>4. analyzeError(logs) = Causes[first]
      BY <1>3, Zenon DEF analyzeError
    <2>5. first \in DOMAIN Causes
      BY <2>3
    <2>6. TellsPort(logs) => 1 \in told
      BY <1>1 DEF TellsPort
    <2> HIDE DEF first, told
    <2>7. TellsPort(logs) => first = 1
      BY <2>1, <2>3, <2>6
    <2>8. QED
      BY <1>1, <2>4, <2>5, <2>7 DEF CauseSet
  <1>4. QED
    BY <1>2, <1>3

\* Of the lines kept, the last one is always among them.
LEMMA KeptLines ==
    ASSUME NEW logs \in Seq(Lines), NEW line \in Lines, Len(logs) <= LogCap
    PROVE  /\ Kept(logs, line) \in Seq(Lines)
           /\ Len(Kept(logs, line)) <= LogCap
           /\ line = "port" => TellsPort(Kept(logs, line))
  <1>1. PICK all \in Seq(Lines) : /\ all = Append(logs, line)
                                  /\ Len(all) = Len(logs) + 1 /\ all[Len(all)] = line
    <2>1. /\ Append(logs, line) \in Seq(Lines)
          /\ Len(Append(logs, line)) = Len(logs) + 1
          /\ Append(logs, line)[Len(logs) + 1] = line
      OBVIOUS
    <2>2. QED
      BY <2>1, Zenon
  <1>2. CASE Len(all) > LogCap
    <2>1. Kept(logs, line) = Tail(all)
      BY <1>1, <1>2 DEF Kept
    <2>2. Tail(all) \in Seq(Lines) /\ Len(Tail(all)) = Len(logs)
      BY <1>1
    <2>3. Len(logs) \in Nat /\ Len(logs) >= 1
      BY <1>1, <1>2, DesktopAssumption
    <2>4. Tail(all)[Len(logs)] = line /\ Len(logs) \in DOMAIN Tail(all)
      BY <1>1, <2>2, <2>3
    <2>5. QED
      BY <2>1, <2>2, <2>4 DEF TellsPort
  <1>3. CASE ~(Len(all) > LogCap)
    <2>1. Kept(logs, line) = all
      BY <1>1, <1>3 DEF Kept
    <2>2. Len(all) \in Nat /\ Len(all) \in DOMAIN all
      BY <1>1
    <2>3. Len(all) <= LogCap
      BY <1>3, <2>2, DesktopAssumption
    <2>4. QED
      BY <1>1, <2>1, <2>2, <2>3 DEF TellsPort
  <1>4. QED
    BY <1>2, <1>3

\* The window that is created is one that did not exist.
LEMMA Creates ==
    ASSUME CreateWindow, windows \in [Windows -> {"none", "shown", "hidden"}]
    PROVE  /\ windows' \in [Windows -> {"none", "shown", "hidden"}]
           /\ main' \in Windows
  <1> DEFINE free == {w \in Windows : windows[w] = "none"}
  <1>1. free # {} /\ free \in SUBSET Nat
    BY DEF CreateWindow, Windows
  <1>2. \E w \in free : \A v \in free : w <= v
    <2> HIDE DEF free
    <2>1. QED
      BY <1>1, LeastOf
  <1>3. Fresh \in Windows
    BY <1>2, Zenon DEF Fresh
  <1>4. QED
    BY <1>3 DEF CreateWindow

-----------------------------------------------------------------------------
(* What the steps write *)

Windowed == [Windows -> {"none", "shown", "hidden"}]

\* TypeOK, one variable at a time.
LEMMA Typed ==
    ASSUME TypeOK
    PROVE  /\ mode \in {"dev", "prod"} /\ port \in {"free", "other", "own"}
           /\ server \in {"none", "unspawned", "running", "exited", "closed", "killed"}
           /\ code \in {"none", "zero", "signal", "fault", "bind"}
           /\ start \in {"idle", "waiting", "up", "failed"}
           /\ attempt \in Nat /\ scheduled \in Nat /\ probing \in Nat
           /\ timeouts \in 0..MaxTimeouts /\ lines \in 0..MaxLines /\ Len(errorLogs) <= LogCap
           /\ dialogs \in [Dialogs -> Status] /\ causes \in [Dialogs -> CauseSet]
           /\ windows \in Windowed /\ main \in Windows \union {NoWindow}
           /\ tray \in BOOLEAN /\ isQuitting \in BOOLEAN /\ quitTimer \in BOOLEAN
           /\ exited \in BOOLEAN
  BY DEF TypeOK, CauseSet, Windowed

\* The part of the invariant about the server and what is said of it.
Told == /\ port \in {"free", "other", "own"}
        /\ server \in {"none", "unspawned", "running", "exited", "closed", "killed"}
        /\ code \in {"none", "zero", "signal", "fault", "bind"}
        /\ start \in {"idle", "waiting", "up", "failed"}
        /\ lines \in 0..MaxLines /\ Len(errorLogs) <= LogCap /\ errorLogs \in Seq(Lines)
        /\ dialogs \in [Dialogs -> Status] /\ causes \in [Dialogs -> CauseSet]
        /\ Phases /\ BindFailureNamed

\* The part about probes, windows and the way out.
Shown == /\ attempt \in Nat /\ scheduled \in Nat /\ probing \in Nat
         /\ timeouts \in 0..MaxTimeouts
         /\ windows \in Windowed /\ main \in Windows \union {NoWindow}
         /\ tray \in BOOLEAN /\ isQuitting \in BOOLEAN /\ quitTimer \in BOOLEAN
         /\ exited \in BOOLEAN

LEMMA Parts == ASSUME ShellInv PROVE Told /\ Shown /\ mode \in {"dev", "prod"}
  BY Typed, Zenon DEF ShellInv, Told, Shown

LEMMA Assembled ==
    ASSUME Told', Shown', mode' \in {"dev", "prod"}, NoOrphanServer'
    PROVE  ShellInv'
  <1>1. TypeOK'
    <2>1. /\ {attempt', scheduled', probing'} \subseteq Nat
          /\ {tray', isQuitting', quitTimer', exited'} \subseteq BOOLEAN
      BY DEF Shown
    <2>2. QED
      BY <2>1, Zenon DEF TypeOK, Told, Shown, CauseSet, Windowed
  <1>2. QED
    BY <1>1, Zenon DEF ShellInv, Told

LEMMA ToldStill ==
    ASSUME Told, UNCHANGED <<port, server, code, start, lines, errorLogs, dialogs, causes>>
    PROVE  Told'
  BY DEF Told, Phases, BindFailureNamed

LEMMA ShownStill ==
    ASSUME Shown, UNCHANGED <<attempt, scheduled, probing, timeouts, windows, main, tray,
                              isQuitting, quitTimer, exited>>
    PROVE  Shown'
  BY DEF Shown

\* A dialog is opened, or answered, with a cause analyzeError has found.
LEMMA Explained ==
    ASSUME Told, NEW d \in Dialogs, NEW s \in Status,
           dialogs' = [dialogs EXCEPT ![d] = s],
           causes' = [causes EXCEPT ![d] = analyzeError(errorLogs)]
    PROVE  /\ dialogs' \in [Dialogs -> Status] /\ causes' \in [Dialogs -> CauseSet]
           /\ dialogs'[d] = s /\ causes'[d] = analyzeError(errorLogs)
           /\ \A e \in Dialogs : e # d => dialogs'[e] = dialogs[e] /\ causes'[e] = causes[e]
  <1>1. analyzeError(errorLogs) \in CauseSet
    BY Analyzed
  <1>2. QED
    BY <1>1 DEF Told

-----------------------------------------------------------------------------
(* The server *)

LEMMA startServerKeeps ==
    ASSUME ShellInv, startServer
    PROVE  ShellInv'
  <1>1. Told /\ Shown /\ mode \in {"dev", "prod"} /\ NoOrphanServer
    BY Parts, Zenon DEF ShellInv
  <1>2. /\ start = "idle" /\ ~exited /\ start' = "waiting" /\ scheduled' = 1
        /\ \/ UNCHANGED <<server, code>>
           \/ server' = "running" /\ code' = code
           \/ server' = "unspawned" /\ code' = "fault"
        /\ UNCHANGED <<mode, port, attempt, probing, timeouts, lines, errorLogs, dialogs, causes,
                       windows, main, tray, isQuitting, quitTimer, exited>>
    BY DEF startServer, logVars, talkVars, uiVars, quitVars
  <1>3. server = "none" /\ code # "bind" /\ dialogs["crash"] = "none"
    BY <1>1, <1>2 DEF Told, Phases
  <1>4. Told'
    BY <1>1, <1>2, <1>3 DEF Told, Phases, BindFailureNamed
  <1>5. Shown'
    BY <1>1, <1>2 DEF Shown
  <1>6. QED
    BY <1>1, <1>2, <1>4, <1>5, Assembled DEF NoOrphanServer

\* The server writes a line, of its own or as its last words.
LEMMA WritesErrorKeeps ==
    ASSUME ShellInv, WritesError
    PROVE  ShellInv'
  <1>1. Told /\ Shown /\ mode \in {"dev", "prod"} /\ NoOrphanServer
    BY Parts, Zenon DEF ShellInv
  <1>2. /\ server = "running" /\ lines < MaxLines /\ lines' = lines + 1 /\ ~exited
        /\ UNCHANGED <<mode, port, server, code, start, attempt, scheduled, probing, timeouts,
                       dialogs, causes, windows, main, tray, isQuitting, quitTimer, exited>>
    BY DEF WritesError, procVars, probeVars, talkVars, uiVars, quitVars
  <1>3. PICK line \in Lines : errorLogs' = Kept(errorLogs, line)
    BY DEF WritesError, Lines
  <1>4. errorLogs' \in Seq(Lines) /\ Len(errorLogs') <= LogCap
    BY <1>1, <1>3, KeptLines DEF Told
  <1>5. lines' \in 0..MaxLines
    BY <1>1, <1>2, DesktopAssumption DEF Told
  <1>6. Told'
    BY <1>1, <1>2, <1>4, <1>5 DEF Told, Phases, BindFailureNamed
  <1>7. QED
    BY <1>1, <1>2, <1>6, ShownStill, Assembled DEF NoOrphanServer

LEMMA ListensKeeps ==
    ASSUME ShellInv, Listens
    PROVE  ShellInv'
  <1>1. Told /\ Shown /\ mode \in {"dev", "prod"} /\ NoOrphanServer
    BY Parts, Zenon DEF ShellInv
  <1>2. /\ port' \in {"own", "other"}
        /\ UNCHANGED <<mode, server, code, start, attempt, scheduled, probing, timeouts, lines,
                       errorLogs, dialogs, causes, windows, main, tray, isQuitting, quitTimer,
                       exited>>
    BY DEF Listens, probeVars, logVars, talkVars, uiVars, quitVars
  <1>3. Told'
    BY <1>1, <1>2 DEF Told, Phases, BindFailureNamed
  <1>4. QED
    BY <1>1, <1>2, <1>3, ShownStill, Assembled DEF NoOrphanServer

LEMMA BindFailsKeeps ==
    ASSUME ShellInv, BindFails
    PROVE  ShellInv'
  <1>1. Told /\ Shown /\ mode \in {"dev", "prod"} /\ NoOrphanServer
    BY Parts, Zenon DEF ShellInv
  <1>2. /\ server = "running" /\ ~exited /\ errorLogs' = Kept(errorLogs, "port")
        /\ server' = "exited" /\ code' = "bind"
        /\ UNCHANGED <<mode, port, start, attempt, scheduled, probing, timeouts, lines,
                       dialogs, causes, windows, main, tray, isQuitting, quitTimer, exited>>
    BY DEF BindFails, probeVars, talkVars, uiVars, quitVars
  <1>3. errorLogs' \in Seq(Lines) /\ Len(errorLogs') <= LogCap /\ TellsPort(errorLogs')
    <2>1. "port" \in Lines
      BY DEF Lines
    <2>2. QED
      BY <1>1, <1>2, <2>1, KeptLines DEF Told
  <1>4. dialogs["crash"] = "none" /\ start # "idle"
    BY <1>1, <1>2 DEF Told, Phases
  <1>5. Told'
    BY <1>1, <1>2, <1>3, <1>4 DEF Told, Phases, BindFailureNamed
  <1>6. QED
    BY <1>1, <1>2, <1>5, ShownStill, Assembled DEF NoOrphanServer

LEMMA ServerExitsKeeps ==
    ASSUME ShellInv, ServerExits
    PROVE  ShellInv'
  <1>1. Told /\ Shown /\ mode \in {"dev", "prod"} /\ NoOrphanServer
    BY Parts, Zenon DEF ShellInv
  <1>2. /\ server = "running" /\ ~exited
        /\ server' = "exited" /\ code' \in {"zero", "signal", "fault"}
        /\ port' \in {"free", port}
        /\ UNCHANGED <<mode, start, attempt, scheduled, probing, timeouts, lines, errorLogs,
                       dialogs, causes, windows, main, tray, isQuitting, quitTimer, exited>>
    BY DEF ServerExits, probeVars, logVars, talkVars, uiVars, quitVars
  <1>3. dialogs["crash"] = "none" /\ start # "idle"
    BY <1>1, <1>2 DEF Told, Phases
  <1>4. Told'
    BY <1>1, <1>2, <1>3 DEF Told, Phases, BindFailureNamed
  <1>5. QED
    BY <1>1, <1>2, <1>4, ShownStill, Assembled DEF NoOrphanServer

LEMMA ServerClosedKeeps ==
    ASSUME ShellInv, ServerClosed
    PROVE  ShellInv'
  <1>1. Told /\ Shown /\ mode \in {"dev", "prod"} /\ NoOrphanServer
    BY Parts, Zenon DEF ShellInv
  <1>2. /\ server = "exited" /\ ~exited /\ server' = "closed" /\ exited' = quitTimer
        /\ UNCHANGED <<mode, port, code, start, attempt, scheduled, probing, timeouts, lines,
                       errorLogs, tray, isQuitting, quitTimer>>
    BY DEF ServerClosed, probeVars, logVars
  <1>3. start # "idle" /\ (code = "bind" => TellsPort(errorLogs)) /\ dialogs["crash"] = "none"
    BY <1>1, <1>2 DEF Told, Phases
  <1>4. CASE /\ dialogs' = [dialogs EXCEPT !["crash"] = "open"]
             /\ causes' = [causes EXCEPT !["crash"] = analyzeError(errorLogs)]
             /\ UNCHANGED <<windows, main>>
    <2>1. "crash" \in Dialogs /\ "open" \in Status
      BY DEF Dialogs, Status
    <2>2. /\ dialogs' \in [Dialogs -> Status] /\ causes' \in [Dialogs -> CauseSet]
          /\ causes'["crash"] = analyzeError(errorLogs)
      BY <1>1, <1>4, <2>1, Explained
    <2>3. code = "bind" => causes'["crash"] = "port"
      BY <1>3, <2>2, Analyzed
    <2>4. Told'
      BY <1>1, <1>2, <1>3, <2>2, <2>3 DEF Told, Phases, BindFailureNamed
    <2>5. Shown'
      BY <1>1, <1>2, <1>4 DEF Shown
    <2>6. QED
      BY <1>1, <1>2, <2>4, <2>5, Assembled DEF NoOrphanServer
  <1>5. CASE code \notin {"fault", "bind"} /\ CloseMain /\ UNCHANGED talkVars
    <2>1. UNCHANGED <<dialogs, causes>>
      BY <1>5 DEF talkVars
    <2>2. windows' \in Windowed /\ main' \in Windows \union {NoWindow}
      BY <1>1, <1>5 DEF CloseMain, Shown, Windowed, NoWindow
    <2>3. Told'
      BY <1>1, <1>2, <1>3, <1>5, <2>1 DEF Told, Phases, BindFailureNamed
    <2>4. Shown'
      BY <1>1, <1>2, <2>2 DEF Shown
    <2>5. QED
      BY <1>1, <1>2, <2>3, <2>4, Assembled DEF NoOrphanServer
  <1>6. QED
    BY <1>4, <1>5, Zenon DEF ServerClosed

-----------------------------------------------------------------------------
(* The start *)

LEMMA tryConnectKeeps ==
    ASSUME ShellInv, tryConnect
    PROVE  ShellInv'
  <1>1. Told /\ Shown /\ mode \in {"dev", "prod"} /\ NoOrphanServer
    BY Parts, Zenon DEF ShellInv
  <1>2. /\ scheduled > 0 /\ scheduled' = scheduled - 1 /\ probing' = probing + 1
        /\ attempt' = attempt + 1
        /\ UNCHANGED <<mode, port, server, code, start, timeouts, lines, errorLogs, dialogs, causes,
                       windows, main, tray, isQuitting, quitTimer, exited>>
    BY DEF tryConnect, procVars, logVars, talkVars, uiVars, quitVars
  <1>3. Shown'
    BY <1>1, <1>2 DEF Shown
  <1>4. QED
    BY <1>1, <1>2, <1>3, ToldStill, Assembled DEF NoOrphanServer

LEMMA AnsweredKeeps ==
    ASSUME ShellInv, Answered
    PROVE  ShellInv'
  <1>1. Told /\ Shown /\ mode \in {"dev", "prod"} /\ NoOrphanServer
    BY Parts, Zenon DEF ShellInv
  <1>2. /\ probing > 0 /\ probing' = probing - 1
        /\ UNCHANGED <<mode, port, server, code, attempt, scheduled, timeouts, lines, errorLogs,
                       dialogs, causes, isQuitting, quitTimer, exited>>
    BY DEF Answered, procVars, logVars, talkVars, quitVars
  <1>3. \/ start = "waiting" /\ start' = "up" /\ tray' = TRUE /\ CreateWindow
        \/ UNCHANGED <<start, windows, main, tray>>
    BY DEF Answered, uiVars
  <1>4. windows' \in Windowed /\ main' \in Windows \union {NoWindow} /\ tray' \in BOOLEAN
    BY <1>1, <1>3, Creates DEF Shown, Windowed
  <1>5. Told'
    BY <1>1, <1>2, <1>3 DEF Told, Phases, BindFailureNamed
  <1>6. Shown'
    BY <1>1, <1>2, <1>4 DEF Shown
  <1>7. QED
    BY <1>1, <1>2, <1>5, <1>6, Assembled DEF NoOrphanServer

\* The start fails, at most once, and says why in a dialog of its own.
LEMMA Rejected ==
    ASSUME Told, Reject \/ UNCHANGED <<start, talkVars>>,
           UNCHANGED <<port, code, lines, errorLogs>>,
           server' = server \/ (server = "unspawned" /\ server' = "exited")
    PROVE  Told'
  <1>1. CASE /\ start' = "failed"
             /\ dialogs' = [dialogs EXCEPT !["failed"] = "open"]
             /\ causes' = [causes EXCEPT !["failed"] = analyzeError(errorLogs)]
    <2>1. "failed" \in Dialogs /\ "open" \in Status /\ "crash" \in Dialogs
      BY DEF Dialogs, Status
    <2>2. /\ dialogs' \in [Dialogs -> Status] /\ causes' \in [Dialogs -> CauseSet]
          /\ dialogs'["crash"] = dialogs["crash"] /\ causes'["crash"] = causes["crash"]
      BY <1>1, <2>1, Explained
    <2>3. QED
      BY <1>1, <2>2 DEF Told, Phases, BindFailureNamed
  <1>2. CASE UNCHANGED <<start, talkVars>>
    BY <1>2 DEF Told, Phases, BindFailureNamed, talkVars
  <1>3. QED
    BY <1>1, <1>2, Zenon DEF Reject

LEMMA SpawnFailsKeeps ==
    ASSUME ShellInv, SpawnFails
    PROVE  ShellInv'
  <1>1. Told /\ Shown /\ mode \in {"dev", "prod"} /\ NoOrphanServer
    BY Parts, Zenon DEF ShellInv
  <1>2. /\ server = "unspawned" /\ server' = "exited" /\ Reject
        /\ UNCHANGED <<mode, port, code, attempt, scheduled, probing, timeouts, lines, errorLogs,
                       windows, main, tray, isQuitting, quitTimer, exited>>
    BY DEF SpawnFails, probeVars, logVars, uiVars, quitVars
  <1>3. Told'
    BY <1>1, <1>2, Rejected
  <1>4. QED
    BY <1>1, <1>2, <1>3, ShownStill, Assembled DEF NoOrphanServer

LEMMA ProbeFailsKeeps ==
    ASSUME ShellInv, Refused \/ TimedOut
    PROVE  ShellInv'
  <1>1. Told /\ Shown /\ mode \in {"dev", "prod"} /\ NoOrphanServer
    BY Parts, Zenon DEF ShellInv
  <1>2. /\ probing > 0 /\ probing' = probing - 1
        /\ scheduled' \in {scheduled, scheduled + 1, scheduled + 2}
        /\ Reject \/ UNCHANGED <<start, talkVars>>
        /\ timeouts' = timeouts \/ (timeouts < MaxTimeouts /\ timeouts' = timeouts + 1)
        /\ UNCHANGED <<mode, port, server, code, attempt, lines, errorLogs, windows, main, tray,
                       isQuitting, quitTimer, exited>>
    BY DEF Refused, TimedOut, procVars, logVars, uiVars, quitVars
  <1>3. Told'
    BY <1>1, <1>2, Rejected
  <1>4. Shown'
    BY <1>1, <1>2, DesktopAssumption DEF Shown
  <1>5. QED
    BY <1>1, <1>2, <1>3, <1>4, Assembled DEF NoOrphanServer

-----------------------------------------------------------------------------
(* Windows, tray and the end *)

\* Only a program that has no server ends without waiting for it.
LEMMA QuitShown ==
    ASSUME Shown, NoOrphanServer, Quit, isQuitting' \in BOOLEAN,
           UNCHANGED <<attempt, scheduled, probing, timeouts, tray, server>>
    PROVE  Shown' /\ NoOrphanServer'
  <1>1. CASE BeforeQuit
    BY <1>1 DEF BeforeQuit, Shown, NoOrphanServer
  <1>2. CASE QuitWindows
    BY <1>2 DEF QuitWindows, Shown, NoOrphanServer, Windowed
  <1>3. QED
    BY <1>1, <1>2, Zenon DEF Quit

LEMMA DialogAnsweredKeeps ==
    ASSUME ShellInv, NEW d \in Dialogs, DialogAnswered(d)
    PROVE  ShellInv'
  <1>1. Told /\ Shown /\ mode \in {"dev", "prod"} /\ NoOrphanServer
    BY Parts, Zenon DEF ShellInv
  <1>2. /\ dialogs[d] \in {"open", "log"}
        /\ UNCHANGED <<mode, port, server, code, start, attempt, scheduled, probing, timeouts,
                       lines, errorLogs, causes, tray>>
    BY DEF DialogAnswered, procVars, probeVars, logVars
  <1>3. \/ /\ dialogs' = [dialogs EXCEPT ![d] = "log"]
           /\ UNCHANGED <<windows, main, isQuitting, quitTimer, exited>>
        \/ /\ dialogs' = [dialogs EXCEPT ![d] = "answered"]
           /\ isQuitting' = (isQuitting \/ d = "crash")
           /\ Quit
    BY DEF DialogAnswered, quitVars
  <1>4. PICK s \in Status : dialogs' = [dialogs EXCEPT ![d] = s]
    BY <1>3 DEF Status
  <1>5. Told'
    BY <1>1, <1>2, <1>4 DEF Told, Phases, BindFailureNamed
  <1>6. Shown' /\ NoOrphanServer'
    <2>1. CASE UNCHANGED <<windows, main, isQuitting, quitTimer, exited>>
      BY <1>1, <1>2, <2>1 DEF Shown, NoOrphanServer
    <2>2. CASE isQuitting' = (isQuitting \/ d = "crash") /\ Quit
      <3>1. isQuitting' \in BOOLEAN
        BY <2>2
      <3>2. QED
        BY <1>1, <1>2, <2>2, <3>1, QuitShown
    <2>3. QED
      BY <1>3, <2>1, <2>2, Zenon
  <1>7. QED
    BY <1>1, <1>2, <1>5, <1>6, Assembled

LEMMA AskedToQuitKeeps ==
    ASSUME ShellInv, TrayQuit \/ MenuQuit
    PROVE  ShellInv'
  <1>1. Told /\ Shown /\ mode \in {"dev", "prod"} /\ NoOrphanServer
    BY Parts, Zenon DEF ShellInv
  <1>2. /\ isQuitting' = TRUE \/ isQuitting' = isQuitting
        /\ Quit
        /\ UNCHANGED <<mode, port, server, code, start, attempt, scheduled, probing, timeouts,
                       lines, errorLogs, dialogs, causes, tray>>
    BY DEF TrayQuit, MenuQuit, procVars, probeVars, logVars, talkVars
  <1>3. isQuitting' \in BOOLEAN
    BY <1>1, <1>2 DEF Shown
  <1>4. Shown' /\ NoOrphanServer'
    BY <1>1, <1>2, <1>3, QuitShown
  <1>5. QED
    BY <1>1, <1>2, <1>4, ToldStill, Assembled

LEMMA WindowStepKeeps ==
    ASSUME ShellInv, TrayClick \/ Activate \/ \E w \in Windows : WindowClose(w)
    PROVE  ShellInv'
  <1>1. Told /\ Shown /\ mode \in {"dev", "prod"} /\ NoOrphanServer
    BY Parts, Zenon DEF ShellInv
  <1>2. UNCHANGED <<mode, port, server, code, start, attempt, scheduled, probing, timeouts,
                    lines, errorLogs, dialogs, causes, tray, isQuitting, quitTimer, exited>>
    BY DEF TrayClick, Activate, WindowClose, procVars, probeVars, logVars, talkVars, quitVars
  <1>3. windows' \in Windowed /\ main' \in Windows \union {NoWindow}
    <2>1. CASE CreateWindow
      BY <1>1, <2>1, Creates DEF Shown, Windowed
    <2>2. CASE ~CreateWindow
      BY <1>1, <2>2 DEF Shown, Windowed, TrayClick, Activate, WindowClose
    <2>3. QED
      BY <2>1, <2>2, Zenon
  <1>4. Shown'
    BY <1>1, <1>2, <1>3 DEF Shown
  <1>5. QED
    BY <1>1, <1>2, <1>4, ToldStill, Assembled DEF NoOrphanServer

LEMMA QuitTimerKeeps ==
    ASSUME ShellInv, QuitTimer
    PROVE  ShellInv'
  <1>1. Told /\ Shown /\ mode \in {"dev", "prod"} /\ NoOrphanServer
    BY Parts, Zenon DEF ShellInv
  <1>2. /\ exited' = TRUE /\ server' = IF server = "running" THEN "killed" ELSE server
        /\ UNCHANGED <<mode, port, code, start, attempt, scheduled, probing, timeouts, lines,
                       errorLogs, dialogs, causes, windows, main, tray, isQuitting, quitTimer>>
    BY DEF QuitTimer, probeVars, logVars, talkVars, uiVars
  <1>3. Told'
    BY <1>1, <1>2 DEF Told, Phases, BindFailureNamed
  <1>4. Shown'
    BY <1>1, <1>2 DEF Shown
  <1>5. QED
    BY <1>1, <1>2, <1>3, <1>4, Assembled DEF NoOrphanServer

-----------------------------------------------------------------------------
(* The invariant *)

LEMMA ShellInit == Init => ShellInv
  <1> SUFFICES ASSUME Init PROVE ShellInv
    OBVIOUS
  <1>1. TypeOK /\ errorLogs \in Seq(Lines)
    <2>1. /\ mode \in {"dev", "prod"} /\ port \in {"free", "other", "own"}
          /\ server \in {"none", "unspawned", "running", "exited", "closed", "killed"}
          /\ code \in {"none", "zero", "signal", "fault", "bind"}
          /\ start \in {"idle", "waiting", "up", "failed"}
          /\ {attempt, scheduled, probing} \subseteq Nat
      BY DEF Init
    <2>2. /\ timeouts \in 0..MaxTimeouts /\ lines \in 0..MaxLines
          /\ errorLogs \in Seq(Lines) /\ Len(errorLogs) <= LogCap
      BY DesktopAssumption DEF Init
    <2>3. /\ dialogs \in [Dialogs -> Status] /\ causes \in [Dialogs -> CauseSet]
          /\ windows \in Windowed /\ main \in Windows \union {NoWindow}
      BY DEF Init, Status, CauseSet, Windowed
    <2>4. {tray, isQuitting, quitTimer, exited} \subseteq BOOLEAN
      <3>1. tray = FALSE /\ isQuitting = FALSE /\ quitTimer = FALSE /\ exited = FALSE
        BY Zenon DEF Init
      <3>2. {FALSE} \subseteq BOOLEAN
        OBVIOUS
      <3>3. {tray, isQuitting, quitTimer, exited} = {FALSE}
        BY <3>1, Zenon
      <3>4. QED
        BY <3>2, <3>3, Zenon
    <2>5. QED
      BY <2>1, <2>2, <2>3, <2>4, Zenon DEF TypeOK, CauseSet, Windowed
  <1>2. Phases /\ NoOrphanServer /\ BindFailureNamed
    BY DEF Init, Phases, NoOrphanServer, BindFailureNamed, Dialogs
  <1>3. QED
    BY <1>1, <1>2, Zenon DEF ShellInv

LEMMA ShellNext == ShellInv /\ [Next]_vars => ShellInv'
  <1> SUFFICES ASSUME ShellInv, [Next]_vars PROVE ShellInv'
    OBVIOUS
  <1>1. CASE Server
    BY <1>1, startServerKeeps, WritesErrorKeeps, ListensKeeps, BindFailsKeeps, ServerExitsKeeps,
       ServerClosedKeeps, Zenon DEF Server
  <1>2. CASE Start
    BY <1>2, tryConnectKeeps, AnsweredKeeps, SpawnFailsKeeps, ProbeFailsKeeps, Zenon DEF Start
  <1>3. CASE User
    BY <1>3, AskedToQuitKeeps, WindowStepKeeps, DialogAnsweredKeeps, Zenon DEF User
  <1>4. CASE QuitTimer
    BY <1>4, QuitTimerKeeps
  <1>5. CASE UNCHANGED vars
    <2>1. UNCHANGED <<mode, port, server, code, start, attempt, scheduled, probing, timeouts, lines,
                      errorLogs, dialogs, causes, windows, main, tray, isQuitting, quitTimer,
                      exited>>
      BY <1>5 DEF vars, procVars, probeVars, logVars, talkVars, uiVars, quitVars
    <2>2. Told /\ Shown /\ mode \in {"dev", "prod"} /\ NoOrphanServer
      BY Parts, Zenon DEF ShellInv
    <2>3. QED
      BY <2>1, <2>2, ToldStill, ShownStill, Assembled DEF NoOrphanServer
  <1>6. QED
    BY <1>1, <1>2, <1>3, <1>4, <1>5, Zenon DEF Next

\* The phases of the server and of what is said of it fit together in every
\* reachable state.
THEOREM ShellInvariant == Spec => []ShellInv
  BY ShellInit, ShellNext, PTL DEF Spec

\* Every variable of main.js keeps its type, and no more error lines are kept than
\* the limit allows.
THEOREM ShellTypes == Spec => []TypeOK
  <1>1. ShellInv => TypeOK
    BY Zenon DEF ShellInv
  <1>2. QED
    BY <1>1, ShellInvariant, PTL

\* Whichever way out is taken, and whatever the server does meanwhile, the program
\* never ends while its server runs.
THEOREM ServerEndsFirst == Spec => []NoOrphanServer
  <1>1. ShellInv => NoOrphanServer
    BY Zenon DEF ShellInv
  <1>2. QED
    BY <1>1, ShellInvariant, PTL

\* However many lines the server wrote before and however few are kept, the dialog
\* names the port as the cause when the server could not bind it.
THEOREM PortIsNamed == Spec => []BindFailureNamed
  <1>1. ShellInv => BindFailureNamed
    BY Zenon DEF ShellInv
  <1>2. QED
    BY <1>1, ShellInvariant, PTL
=============================================================================
