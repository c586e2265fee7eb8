---------------------------- MODULE ConsolePages ----------------------------
(***************************************************************************)
(* The pages of the web console whose promises are proved: of each, the    *)
(* invariant, that the page starts in it, that its steps keep it, and what *)
(* it says.  The variables are the hooks of the page that is mounted, by   *)
(* position; each page names its own.                                      *)
(***************************************************************************)
EXTENDS Integers, Sequences, FiniteSetTheorems, SequenceTheorems, TLAPS

CONSTANTS  \* bounds of the pages below
    MaxSaves, MaxOthers, MaxClicks, MaxTries, MaxRequests, MaxItems, MaxSteps

ASSUME PagesAssumption == MaxItems \in Nat

VARIABLES
    page,   \* which page is mounted
    h1, h2, h3, h4, h5, h6, h7, h8, h9, h10, h11, h12

vars == <<page, h1, h2, h3, h4, h5, h6, h7, h8, h9, h10, h11, h12>>

-----------------------------------------------------------------------------
(* The card of the second factor (TwoFactor): one change at a time, and     *)
(* while the history is calm one request at a time.                         *)

Factor == INSTANCE TwoFactor
    WITH status <- h1, server <- h2, visible <- h3, setupData <- h4, currentStep <- h5,
         backupCodes <- h6, code <- h7, confirmDisable <- h8, loading <- h9, jobs <- h10,
         view <- h11

FactorJob ==
    [kind : Factor!Changing \union {"status"}, done : BOOLEAN, ok : BOOLEAN, got : Nat, id : Nat]
FactorTypes ==
    /\ h1 \in BOOLEAN /\ h2 \in [enabled : BOOLEAN, codes : Nat] /\ h9 \in BOOLEAN
    /\ h10 \subseteq FactorJob
    /\ h11 \in [calm : BOOLEAN, held : BOOLEAN, kept : BOOLEAN, clicks : Nat]

\* The shared flag is up exactly while a change runs, and only one runs.
FactorFlag ==
    /\ h9 <=> \E j \in h10 : j.kind \in Factor!Changing
    /\ \A i, j \in h10 : i.kind \in Factor!Changing /\ j.kind \in Factor!Changing => i = j

\* In a calm history there is one request, which read what the account has; if
\* the card differs from the account, the request is what will put it right.
FactorCalm ==
    h11.calm /\ h11.kept =>
        /\ \A i, j \in h10 : i = j
        /\ \A j \in h10 : j.kind = "status" /\ j.done => j.ok = h2.enabled
        /\ h1 # h2.enabled =>
               \E j \in h10 : j.kind = "status" \/ (j.kind \in {"enable", "disable"} /\ j.done /\ j.ok)
FactorInv == FactorTypes /\ FactorFlag /\ FactorCalm

LEMMA FactorStarts == Factor!Init => FactorInv
<1> SUFFICES ASSUME Factor!Init PROVE FactorInv
    OBVIOUS
<1>1. h11 = [calm |-> TRUE, held |-> TRUE, kept |-> TRUE, clicks |-> 0]
    BY DEF Factor!Init
<1>2. h10 = {[kind |-> "status", done |-> FALSE, ok |-> FALSE, got |-> 0, id |-> 0]}
    BY <1>1 DEF Factor!Init, Factor!Request
<1>3. h1 = FALSE /\ h9 = FALSE
    BY DEF Factor!Init
<1>3a. h2 \in {[enabled |-> FALSE, codes |-> 0], [enabled |-> TRUE, codes |-> 1]}
    BY DEF Factor!Init
<1>3b. h2 \in [enabled : BOOLEAN, codes : Nat] /\ h2.enabled \in BOOLEAN
    <2>1. /\ [enabled |-> FALSE, codes |-> 0] \in [enabled : BOOLEAN, codes : Nat]
          /\ [enabled |-> TRUE, codes |-> 1] \in [enabled : BOOLEAN, codes : Nat]
        OBVIOUS
    <2>2. h2 \in [enabled : BOOLEAN, codes : Nat]
        BY <1>3a, <2>1
    <2> QED
        BY <2>2
<1>3c. [kind |-> "status", done |-> FALSE, ok |-> FALSE, got |-> 0, id |-> 0] \in FactorJob
    BY DEF FactorJob
<1>4. FactorTypes
    BY <1>1, <1>2, <1>3, <1>3b, <1>3c DEF FactorTypes
<1> QED
    BY <1>1, <1>2, <1>3, <1>4 DEF FactorInv, FactorFlag, FactorCalm, Factor!Changing

\* What a change does to the history.
LEMMA FactorView ==
    ASSUME NEW v \in [calm : BOOLEAN, held : BOOLEAN, kept : BOOLEAN, clicks : Nat],
           NEW b \in BOOLEAN, NEW w, w = [v EXCEPT !.clicks = @ + 1, !.calm = b]
    PROVE  /\ w \in [calm : BOOLEAN, held : BOOLEAN, kept : BOOLEAN, clicks : Nat]
           /\ w.calm = b /\ w.kept = v.kept
<1>1. [v EXCEPT !.clicks = @ + 1] \in [calm : BOOLEAN, held : BOOLEAN, kept : BOOLEAN, clicks : Nat]
    OBVIOUS
<1>2. [v EXCEPT !.clicks = @ + 1].kept = v.kept
    OBVIOUS
<1> QED
    BY <1>1, <1>2

\* A change is asked for: it is the only one, and calm if nothing is read.
LEMMA FactorAsks ==
    ASSUME FactorInv, ~h9, NEW kind \in Factor!Changing, Factor!Ask(kind)
    PROVE  FactorInv'
<1> DEFINE job == [kind |-> kind, done |-> FALSE, ok |-> FALSE, got |-> 0, id |-> h11.clicks]
           reading == Factor!Of({"status"})
<1>1. h1' = h1 /\ h2' = h2 /\ h9' = TRUE /\ h10' = h10 \union {job}
    BY DEF Factor!Ask, Factor!Request
<1>1a. h11' = [h11 EXCEPT !.clicks = @ + 1, !.calm = @ /\ reading = {}]
    BY DEF Factor!Ask
<1>2. /\ h11' \in [calm : BOOLEAN, held : BOOLEAN, kept : BOOLEAN, clicks : Nat]
      /\ h11'.calm = (h11.calm /\ reading = {}) /\ h11'.kept = h11.kept
    <2> HIDE DEF reading
    <2>1. h11 \in [calm : BOOLEAN, held : BOOLEAN, kept : BOOLEAN, clicks : Nat]
        BY DEF FactorInv, FactorTypes
    <2> QED
        BY <1>1a, <2>1, FactorView
<1>3. job \in FactorJob
    BY DEF FactorInv, FactorTypes, FactorJob
<1>4. FactorTypes'
    BY <1>1, <1>2, <1>3 DEF FactorInv, FactorTypes
<1>5. FactorFlag'
    <2>1. \A j \in h10 : j.kind \notin Factor!Changing
        BY DEF FactorInv, FactorFlag
    <2>2. job.kind \in Factor!Changing
        OBVIOUS
    <2> HIDE DEF job
    <2> QED
        BY <1>1, <2>1, <2>2 DEF FactorFlag
<1>6. FactorCalm'
    <2> SUFFICES ASSUME h11.calm, h11.kept, reading = {} PROVE FactorCalm'
        BY <1>2 DEF FactorCalm
    <2>1. \A j \in h10 : j.kind # "status"
        BY DEF Factor!Of
    <2>2. h10 = {}
        BY <2>1 DEF FactorInv, FactorTypes, FactorJob, FactorFlag
    <2>3. kind # "status" /\ h1 = h2.enabled
        BY <2>2 DEF FactorInv, FactorCalm, Factor!Changing
    <2> QED
        BY <1>1, <2>2, <2>3 DEF FactorCalm
<1> QED
    BY <1>4, <1>5, <1>6 DEF FactorInv

\* A step that leaves the requests, the flag and both sides as they are.
LEMMA FactorStays ==
    ASSUME FactorInv, UNCHANGED <<h1, h2, h9, h10>>,
           h11' \in [calm : BOOLEAN, held : BOOLEAN, kept : BOOLEAN, clicks : Nat],
           h11'.calm = h11.calm, h11'.kept = h11.kept
    PROVE  FactorInv'
<1>1. FactorTypes'
    BY DEF FactorInv, FactorTypes
<1>2. FactorFlag'
    BY DEF FactorInv, FactorFlag
<1>3. FactorCalm'
    BY DEF FactorInv, FactorCalm
<1> QED
    BY <1>1, <1>2, <1>3 DEF FactorInv

LEMMA FactorLeaves ==
    ASSUME FactorInv, NEW d, Factor!Leave(d)
    PROVE  FactorInv'
<1>1. h11' = [h11 EXCEPT !.held = @ /\ ~h9] /\ UNCHANGED <<h1, h2, h9, h10>>
    BY DEF Factor!Leave
<1>2. h11 \in [calm : BOOLEAN, held : BOOLEAN, kept : BOOLEAN, clicks : Nat]
    BY DEF FactorInv, FactorTypes
<1>3. /\ h11' \in [calm : BOOLEAN, held : BOOLEAN, kept : BOOLEAN, clicks : Nat]
      /\ h11'.calm = h11.calm /\ h11'.kept = h11.kept
    BY <1>1, <1>2
<1> QED
    BY <1>1, <1>3, FactorStays

FactorAnswer(j, ok, got) == [j EXCEPT !.done = TRUE, !.ok = ok, !.got = got]

LEMMA FactorMade ==
    ASSUME NEW j \in FactorJob, NEW ok \in BOOLEAN, NEW got \in Nat
    PROVE  /\ FactorAnswer(j, ok, got) \in FactorJob
           /\ FactorAnswer(j, ok, got).kind = j.kind
           /\ FactorAnswer(j, ok, got).done = TRUE
           /\ FactorAnswer(j, ok, got).ok = ok
<1> DEFINE second == [j EXCEPT !.done = TRUE]
           third == [second EXCEPT !.ok = ok]
<1>1. second \in FactorJob /\ second.kind = j.kind /\ second.done = TRUE
    BY DEF FactorJob
<1>2. FactorAnswer(j, ok, got) = [third EXCEPT !.got = got]
    BY Zenon DEF second, third, FactorAnswer
<1> HIDE DEF second
<1>3. third \in FactorJob /\ third.kind = j.kind /\ third.done = TRUE /\ third.ok = ok
    BY <1>1 DEF FactorJob
<1> HIDE DEF third
<1> QED
    BY <1>2, <1>3 DEF FactorJob

\* The server answers a change; the account changes under a calm history only
\* if nothing reads it.
LEMMA FactorServed ==
    ASSUME FactorInv, NEW j \in h10, NEW accepted \in BOOLEAN, Factor!Served(j, accepted)
    PROVE  FactorInv'
<1> DEFINE ok == accepted /\ (h2.enabled = (j.kind \in {"disable", "regenerate"}))
           got == IF j.kind \in {"setup", "regenerate"} /\ ok THEN j.id + 2 ELSE 0
           made == [j EXCEPT !.done = TRUE, !.ok = ok, !.got = got]
<1>1. j \in FactorJob /\ j.kind \in Factor!Changing
    BY DEF Factor!Served, Factor!Of, FactorInv, FactorTypes
<1>2. h10' = (h10 \ {j}) \union {made}
    BY Zenon DEF Factor!Served
<1>3. UNCHANGED <<h1, h9, h11>> /\ ~j.done
    BY DEF Factor!Served
<1>4. made \in FactorJob /\ made.kind = j.kind /\ made.done = TRUE /\ made.ok = ok
    <2>1. got \in Nat /\ ok \in BOOLEAN
        BY <1>1 DEF FactorJob
    <2>2. made = FactorAnswer(j, ok, got)
        BY Zenon DEF FactorAnswer
    <2> HIDE DEF got, ok, made
    <2> QED
        BY <1>1, <2>1, <2>2, FactorMade
<1> HIDE DEF made
<1>5. /\ h2' \in [enabled : BOOLEAN, codes : Nat]
      /\ h2'.enabled # h2.enabled => ok /\ j.kind \in {"enable", "disable"}
    <2>1. h2 \in [enabled : BOOLEAN, codes : Nat] /\ j.id + 2 \in Nat
        BY <1>1 DEF FactorInv, FactorTypes, FactorJob
    <2>2. CASE ~ok
        BY <2>1, <2>2 DEF Factor!Served
    <2>3. CASE ok /\ j.kind = "setup"
        <3>1. h2' = [h2 EXCEPT !.codes = j.id + 2]
            BY <2>3 DEF Factor!Served
        <3> QED
            BY <2>1, <3>1
    <2>4. CASE ok /\ j.kind = "enable"
        <3>1. h2' = [h2 EXCEPT !.enabled = TRUE]
            BY <2>4 DEF Factor!Served
        <3> QED
            BY <2>1, <2>4, <3>1
    <2>5. CASE ok /\ j.kind = "disable"
        <3>1. h2' = [enabled |-> FALSE, codes |-> 0]
            BY <2>5 DEF Factor!Served
        <3> QED
            BY <2>1, <2>5, <3>1
    <2>6. CASE ok /\ j.kind = "regenerate"
        <3>1. h2' = [h2 EXCEPT !.codes = j.id + 2]
            BY <2>6 DEF Factor!Served
        <3> QED
            BY <2>1, <3>1
    <2> QED
        BY <1>1, <2>2, <2>3, <2>4, <2>5, <2>6 DEF Factor!Changing
<1> HIDE DEF ok, got
<1>7. FactorTypes'
    BY <1>2, <1>3, <1>4, <1>5 DEF FactorInv, FactorTypes
<1>8. FactorFlag'
    BY <1>1, <1>2, <1>3, <1>4 DEF FactorInv, FactorFlag
<1>9. FactorCalm'
    <2> SUFFICES ASSUME h11.calm, h11.kept PROVE FactorCalm'
        BY <1>3 DEF FactorCalm
    <2>1. h10 = {j} /\ h10' = {made}
        BY <1>2 DEF FactorInv, FactorCalm
    <2>2. j.kind # "status"
        BY <1>1 DEF Factor!Changing
    <2>3. h1 = h2.enabled
        BY <1>3, <2>1, <2>2 DEF FactorInv, FactorCalm
    <2> QED
        BY <1>3, <1>4, <1>5, <2>1, <2>2, <2>3 DEF FactorCalm
<1> QED
    BY <1>7, <1>8, <1>9 DEF FactorInv

LEMMA FactorStatusServed ==
    ASSUME FactorInv, NEW j \in h10, Factor!StatusServed(j)
    PROVE  FactorInv'
<1> DEFINE made == [j EXCEPT !.done = TRUE, !.ok = h2.enabled]
<1>1. j \in FactorJob /\ j.kind = "status" /\ h2.enabled \in BOOLEAN
    BY DEF Factor!StatusServed, Factor!Of, FactorInv, FactorTypes
<1>2. h10' = (h10 \ {j}) \union {made}
    BY Zenon DEF Factor!StatusServed
<1>3. UNCHANGED <<h1, h2, h9, h11>>
    BY DEF Factor!StatusServed
<1>4. made \in FactorJob /\ made.kind = "status" /\ made.ok = h2.enabled
    <2> DEFINE second == [j EXCEPT !.done = TRUE]
    <2>1. second \in FactorJob /\ second.kind = "status"
        BY <1>1 DEF FactorJob
    <2>2. made = [second EXCEPT !.ok = h2.enabled]
        BY Zenon DEF second
    <2> HIDE DEF second, made
    <2> QED
        BY <1>1, <2>1, <2>2 DEF FactorJob
<1> HIDE DEF made
<1>5. FactorTypes'
    BY <1>2, <1>3, <1>4 DEF FactorInv, FactorTypes
<1>6. FactorFlag'
    <2>1. "status" \notin Factor!Changing
        BY DEF Factor!Changing
    <2> QED
        BY <1>1, <1>2, <1>3, <1>4, <2>1 DEF FactorInv, FactorFlag
<1>7. FactorCalm'
    <2> SUFFICES ASSUME h11.calm, h11.kept PROVE FactorCalm'
        BY <1>3 DEF FactorCalm
    <2>1. h10' = {made}
        BY <1>2 DEF FactorInv, FactorCalm
    <2> QED
        BY <1>3, <1>4, <2>1 DEF FactorCalm
<1> QED
    BY <1>5, <1>6, <1>7 DEF FactorInv

\* The card takes what was read.
LEMMA FactorRead ==
    ASSUME FactorInv, NEW j \in h10, Factor!fetchStatus(j)
    PROVE  FactorInv'
<1>1. j \in FactorJob /\ j.kind = "status" /\ j.done
    BY DEF Factor!fetchStatus, Factor!Of, FactorInv, FactorTypes
<1>2. h1' = j.ok /\ h10' = h10 \ {j} /\ UNCHANGED <<h2, h9, h11>>
    BY DEF Factor!fetchStatus
<1>3. FactorTypes'
    BY <1>1, <1>2 DEF FactorInv, FactorTypes, FactorJob
<1>4. FactorFlag'
    <2>1. "status" \notin Factor!Changing
        BY DEF Factor!Changing
    <2> QED
        BY <1>1, <1>2, <2>1 DEF FactorInv, FactorFlag
<1>5. FactorCalm'
    BY <1>1, <1>2 DEF FactorInv, FactorCalm
<1> QED
    BY <1>3, <1>4, <1>5 DEF FactorInv

\* A change ends without a reading: it did nothing the card does not know.
LEMMA FactorEnds ==
    ASSUME FactorInv, NEW j \in h10, j.kind \in Factor!Changing,
           ~(j.kind \in {"enable", "disable"} /\ j.done /\ j.ok),
           h10' = h10 \ {j}, h9' = FALSE, UNCHANGED <<h1, h2, h11>>
    PROVE  FactorInv'
<1>1. FactorTypes'
    BY DEF FactorInv, FactorTypes
<1>2. FactorFlag'
    BY DEF FactorInv, FactorFlag
<1>3. FactorCalm'
    <2>1. j.kind # "status"
        BY DEF Factor!Changing
    <2> QED
        BY <2>1 DEF FactorInv, FactorCalm
<1> QED
    BY <1>1, <1>2, <1>3 DEF FactorInv

\* A change ends and the status is read again.
LEMMA FactorReadsAgain ==
    ASSUME FactorInv, NEW j \in h10, j.kind \in Factor!Changing, Factor!ReadAgain(j)
    PROVE  FactorInv'
<1> DEFINE job == [kind |-> "status", done |-> FALSE, ok |-> FALSE, got |-> 0, id |-> h11.clicks]
<1>1. h10' = (h10 \ {j}) \union {job} /\ h9' = FALSE /\ UNCHANGED <<h1, h2>>
    BY DEF Factor!ReadAgain, Factor!Request
<1>2. /\ h11' \in [calm : BOOLEAN, held : BOOLEAN, kept : BOOLEAN, clicks : Nat]
      /\ h11'.calm = (h11.calm /\ Factor!Of({"status"}) = {}) /\ h11'.kept = h11.kept
    <2>1. h11' = [h11 EXCEPT !.calm = @ /\ Factor!Of({"status"}) = {}]
        BY DEF Factor!ReadAgain
    <2>2. h11 \in [calm : BOOLEAN, held : BOOLEAN, kept : BOOLEAN, clicks : Nat]
        BY DEF FactorInv, FactorTypes
    <2> QED
        BY <2>1, <2>2
<1>3. job \in FactorJob /\ job.kind = "status" /\ ~job.done
    BY DEF FactorInv, FactorTypes, FactorJob
<1> HIDE DEF job
<1>4. FactorTypes'
    BY <1>1, <1>2, <1>3 DEF FactorInv, FactorTypes
<1>5. "status" \notin Factor!Changing
    BY DEF Factor!Changing
<1>6. FactorFlag'
    BY <1>1, <1>3, <1>5 DEF FactorInv, FactorFlag
<1>7. FactorCalm'
    <2> SUFFICES ASSUME h11.calm, h11.kept PROVE FactorCalm'
        BY <1>2 DEF FactorCalm
    <2>1. h10 = {j}
        BY DEF FactorInv, FactorCalm
    <2> QED
        BY <1>1, <1>3, <2>1 DEF FactorCalm
<1> QED
    BY <1>4, <1>6, <1>7 DEF FactorInv

LEMMA FactorLost ==
    ASSUME FactorInv, NEW j \in h10, Factor!Lost(j)
    PROVE  FactorInv'
<1>1. h10' = h10 \ {j} /\ h9' = (h9 /\ j.kind = "status") /\ UNCHANGED <<h1, h2>>
    BY DEF Factor!Lost
<1>2. h11' \in [calm : BOOLEAN, held : BOOLEAN, kept : BOOLEAN, clicks : Nat] /\ ~h11'.kept
    <2>1. h11' = [h11 EXCEPT !.kept = FALSE]
        BY DEF Factor!Lost
    <2> QED
        BY <2>1 DEF FactorInv, FactorTypes
<1>3. FactorTypes'
    BY <1>1, <1>2 DEF FactorInv, FactorTypes
<1>4. j.kind = "status" \/ j.kind \in Factor!Changing
    BY DEF FactorInv, FactorTypes, FactorJob
<1>5. "status" \notin Factor!Changing
    BY DEF Factor!Changing
<1>6. FactorFlag'
    BY <1>1, <1>4, <1>5 DEF FactorInv, FactorFlag
<1> QED
    BY <1>2, <1>3, <1>6 DEF FactorInv, FactorCalm

LEMMA FactorSteps ==
    ASSUME FactorInv, Factor!Next \/ UNCHANGED Factor!vars
    PROVE  FactorInv'
<1>1. CASE UNCHANGED Factor!vars
    BY <1>1, FactorStays DEF Factor!vars, FactorInv, FactorTypes
<1>2. ASSUME NEW d \in Factor!Dialogs, Factor!OpenDialog(d) PROVE FactorInv'
    BY <1>2, FactorStays DEF Factor!OpenDialog, FactorInv, FactorTypes
<1>3. ASSUME NEW to \in 0..2, Factor!Step(to) PROVE FactorInv'
    BY <1>3, FactorStays DEF Factor!Step, FactorInv, FactorTypes
<1>4. CASE Factor!Type \/ Factor!Tick
    BY <1>4, FactorStays DEF Factor!Type, Factor!Tick, FactorInv, FactorTypes
<1>5. CASE Factor!handleSetup2FA
    BY <1>5, FactorAsks DEF Factor!handleSetup2FA, Factor!Card, Factor!Changing
<1>6. CASE Factor!handleEnable2FA
    BY <1>6, FactorAsks DEF Factor!handleEnable2FA, Factor!EnableUsable, Factor!Changing
<1>7. CASE Factor!handleDisable2FA
    BY <1>7, FactorAsks DEF Factor!handleDisable2FA, Factor!DisableUsable, Factor!Changing
<1>8. CASE Factor!handleRegenerateBackupCodes
    BY <1>8, FactorAsks
       DEF Factor!handleRegenerateBackupCodes, Factor!RegenerateUsable, Factor!Changing
<1>9. ASSUME NEW j \in h10, Factor!Refused(j) PROVE FactorInv'
    BY <1>9, FactorEnds DEF Factor!Refused, Factor!Of
<1>10. ASSUME NEW j \in h10, Factor!SetUp(j) PROVE FactorInv'
    BY <1>10, FactorEnds DEF Factor!SetUp, Factor!Of, Factor!Changing
<1>11. ASSUME NEW j \in h10, Factor!Enabled(j) \/ Factor!Disabled(j) \/ Factor!Regenerated(j)
       PROVE  FactorInv'
    BY <1>11, FactorReadsAgain
       DEF Factor!Enabled, Factor!Disabled, Factor!Regenerated, Factor!Of, Factor!Changing
<1> QED
    BY <1>1, <1>2, <1>3, <1>4, <1>5, <1>6, <1>7, <1>8, <1>9, <1>10, <1>11, FactorLeaves,
       FactorServed, FactorStatusServed, FactorRead, FactorLost DEF Factor!Next

LEMMA FactorCounts == FactorInv => Factor!StatusIsTrue /\ Factor!OneAtATime
<1> SUFFICES ASSUME FactorInv PROVE Factor!StatusIsTrue /\ Factor!OneAtATime
    OBVIOUS
<1>1. Factor!StatusIsTrue
    BY DEF FactorInv, FactorCalm, Factor!StatusIsTrue
<1>2. h9 <=> Factor!Of(Factor!Changing) # {}
    BY DEF FactorInv, FactorFlag, Factor!Of
<1>3. \A i, j \in Factor!Of(Factor!Changing) : i = j
    BY DEF FactorInv, FactorFlag, Factor!Of
<1> QED
    BY <1>1, <1>2, <1>3 DEF Factor!OneAtATime

-----------------------------------------------------------------------------
(* Subscriptions (PlanPurchase): the choice of what is charged first.       *)

PlansPage == INSTANCE PlanPurchase
    WITH plans <- h1, tab <- h2, preference <- h3, subs <- h4, server <- h5, selected <- h6,
         method <- h7, busy <- h8, jobs <- h9, view <- h10

PlansChoice == PlansPage!Preferences \union {"none"}
PlansServer ==
    [preference : PlansChoice, bought : [PlansPage!Plans -> Nat],
     active : SUBSET (0 .. 2), ordered : SUBSET (0 .. 2)]
PlansJob ==
    [kind : {"plans", "self", "prefer", "pay"}, plan : 0 .. 2, pref : PlansChoice,
     before : PlansChoice, answer : Seq(PlansServer \union BOOLEAN), id : Nat]
PlansView == [calm : BOOLEAN, held : BOOLEAN, clicks : Nat]
PlansTypes ==
    /\ h3 \in PlansChoice /\ h5 \in PlansServer /\ h6 \in 0 .. 2
    /\ \A j \in h9 : j.kind = "self" /\ j.answer # <<>> => j.answer[1] \in PlansServer
    /\ h9 \subseteq PlansJob /\ h10 \in PlansView

\* In a calm history one request at most reads or changes the choice; what it
\* was answered is what the account has, what it will put back is what it had.
PlansCalm ==
    h10.calm =>
        LET asked == PlansPage!Of({"self", "prefer"})
        IN  /\ \A i, j \in asked : i = j
            /\ asked = {} => h3 = h5.preference
            /\ \A j \in asked :
                   /\ j.kind = "self" /\ j.answer # <<>> => j.answer[1].preference = h5.preference
                   /\ j.kind = "prefer" /\ j.answer = <<>> => j.before = h5.preference
                   /\ j.kind = "prefer" /\ j.answer # <<>> =>
                          h5.preference = IF j.answer[1] THEN j.pref ELSE j.before
PlansInv == PlansTypes /\ PlansCalm

PlansRequest(kind, pref, before) ==
    [kind |-> kind, plan |-> 0, pref |-> pref, before |-> before, answer |-> <<>>, id |-> 0]

LEMMA PlansRequests ==
    ASSUME NEW kind \in {"plans", "self", "prefer", "pay"}, NEW pref \in PlansChoice, NEW before \in PlansChoice
    PROVE  /\ PlansRequest(kind, pref, before) \in PlansJob
           /\ PlansRequest(kind, pref, before).kind = kind
           /\ PlansRequest(kind, pref, before).pref = pref
           /\ PlansRequest(kind, pref, before).before = before
           /\ PlansRequest(kind, pref, before).answer = <<>>
BY DEF PlansRequest, PlansJob

PlansPrefer(pref, before) == [PlansPage!Request("prefer") EXCEPT !.pref = pref, !.before = before]

LEMMA PlansPrefers ==
    ASSUME NEW pref \in PlansChoice, NEW before \in PlansChoice
    PROVE  /\ PlansPrefer(pref, before) \in PlansJob
           /\ PlansPrefer(pref, before).kind = "prefer"
           /\ PlansPrefer(pref, before).pref = pref
           /\ PlansPrefer(pref, before).before = before
           /\ PlansPrefer(pref, before).answer = <<>>
<1> DEFINE first == PlansRequest("prefer", "none", "none")
           second == [first EXCEPT !.pref = pref]
<1>1. /\ first \in PlansJob /\ first.kind = "prefer" /\ first.answer = <<>>
    BY PlansRequests DEF PlansChoice
<1>2. PlansPrefer(pref, before) = [second EXCEPT !.before = before]
    BY Zenon DEF PlansPrefer, PlansPage!Request, PlansRequest
<1> HIDE DEF first
<1>3. second \in PlansJob /\ second.kind = "prefer" /\ second.answer = <<>> /\ second.pref = pref
    BY <1>1 DEF PlansJob
<1> HIDE DEF second
<1> QED
    BY <1>2, <1>3 DEF PlansJob

LEMMA PlansStarts == PlansPage!Init => PlansInv
<1> SUFFICES ASSUME PlansPage!Init PROVE PlansInv
    OBVIOUS
<1>1. h3 = "subscription_first" /\ h6 = 0 /\ h10 = [calm |-> TRUE, held |-> TRUE, clicks |-> 0]
    BY DEF PlansPage!Init
<1> DEFINE job == PlansRequest("self", "none", "none")
<1>2. h9 = {PlansRequest("plans", "none", "none"), job}
    BY Zenon DEF PlansPage!Init, PlansPage!Request, PlansRequest
<1>3. PICK pref \in PlansPage!Preferences, active \in {{}, {2}} :
          h5 = [preference |-> pref,
                bought |-> [p \in PlansPage!Plans |-> IF p \in active THEN 1 ELSE 0],
                active |-> active, ordered |-> {}]
    BY DEF PlansPage!Init
<1>4. h5 \in PlansServer
    BY <1>3 DEF PlansServer, PlansChoice
<1>5. "none" \in PlansChoice /\ h3 \in PlansChoice
    BY <1>1 DEF PlansChoice, PlansPage!Preferences, PlansPage!OfSubscription
<1>6. PlansTypes
    BY <1>1, <1>2, <1>4, <1>5, PlansRequests DEF PlansTypes, PlansView
<1>7. PlansPage!Of({"self", "prefer"}) = {job}
    BY <1>2, <1>5, PlansRequests DEF PlansPage!Of
<1>8. job.kind = "self" /\ job.answer = <<>>
    BY <1>5, PlansRequests
<1>9. PlansCalm
    <2> HIDE DEF job
    <2> QED
        <3>1. \A i, j \in PlansPage!Of({"self", "prefer"}) : i = j
            BY <1>7
        <3>2. PlansPage!Of({"self", "prefer"}) # {}
            BY <1>7
        <3>3. \A j \in PlansPage!Of({"self", "prefer"}) : j.kind # "prefer" /\ j.answer = <<>>
            BY <1>7, <1>8
        <3> QED
            BY <3>1, <3>2, <3>3 DEF PlansCalm
<1> QED
    BY <1>6, <1>9 DEF PlansInv

\* A step that leaves the choice, what the account chose and its requests.
LEMMA PlansStays ==
    ASSUME PlansInv, h3' = h3, h5' \in PlansServer, h5'.preference = h5.preference,
           h6' \in 0 .. 2, h9' \subseteq PlansJob, h10' \in PlansView, h10'.calm => h10.calm,
           PlansPage!Of({"self", "prefer"})' = PlansPage!Of({"self", "prefer"})
    PROVE  PlansInv'
<1>1. PlansTypes'
    <2>1. \A j \in h9' : j.kind = "self" => j \in h9
        BY DEF PlansPage!Of
    <2> QED
        BY <2>1 DEF PlansInv, PlansTypes
<1>2. PlansCalm'
    BY DEF PlansInv, PlansCalm
<1> QED
    BY <1>1, <1>2 DEF PlansInv

PlansTaken(v, b) == [PlansPage!OneMore(v) EXCEPT !.calm = @ /\ b]

LEMMA PlansClicked ==
    ASSUME NEW v \in PlansView, NEW b \in BOOLEAN
    PROVE  PlansTaken(v, b) \in PlansView /\ PlansTaken(v, b).calm = (v.calm /\ b)
<1>1. PlansPage!OneMore(v) \in PlansView /\ PlansPage!OneMore(v).calm = v.calm
    BY DEF PlansPage!OneMore, PlansView
<1> QED
    BY <1>1 DEF PlansView, PlansTaken

\* The choice is read, or changed: in a calm history nothing else is under way.
LEMMA PlansAsks ==
    ASSUME PlansInv, NEW job \in PlansJob, job.answer = <<>>, h3' \in PlansChoice,
           \/ job.kind = "self" /\ h3' = h3
           \/ job.kind = "prefer" /\ job.before = h3,
           h9' = h9 \union {job}, UNCHANGED <<h5, h6>>,
           h10' = PlansTaken(h10, PlansPage!Of({"self", "prefer"}) = {})
    PROVE  PlansInv'
<1>1. h10' \in PlansView /\ h10'.calm = (h10.calm /\ PlansPage!Of({"self", "prefer"}) = {})
    BY PlansClicked DEF PlansInv, PlansTypes
<1>2. PlansTypes'
    BY <1>1 DEF PlansInv, PlansTypes
<1>3. PlansCalm'
    <2> SUFFICES ASSUME h10.calm, PlansPage!Of({"self", "prefer"}) = {} PROVE PlansCalm'
        BY <1>1 DEF PlansCalm
    <2>1. PlansPage!Of({"self", "prefer"})' = {job}
        BY DEF PlansPage!Of
    <2>2. h3 = h5.preference
        BY DEF PlansInv, PlansCalm
    <2> QED
        BY <2>1, <2>2 DEF PlansCalm
<1> QED
    BY <1>2, <1>3 DEF PlansInv

PlansAnswered(j, answer) == [j EXCEPT !.answer = answer]

LEMMA PlansServed ==
    ASSUME PlansInv, NEW j \in h9, PlansPage!Served(j)
    PROVE  PlansInv'
<1>1. PICK done \in {TRUE} \union (IF j.kind = "prefer" THEN {FALSE} ELSE {}) :
          /\ h5' = IF j.kind = "prefer" /\ done THEN [h5 EXCEPT !.preference = j.pref] ELSE h5
          /\ h9' = (h9 \ {j}) \union
                     {PlansAnswered(j, IF j.kind = "self" THEN <<h5>> ELSE <<done>>)}
    BY Zenon DEF PlansPage!Served, PlansAnswered
<1>2. j.kind \in {"self", "prefer"} /\ j.answer = <<>> /\ UNCHANGED <<h3, h6, h10>>
    BY DEF PlansPage!Served
<1>3. done \in BOOLEAN /\ j \in PlansJob /\ h5 \in PlansServer
    BY DEF PlansInv, PlansTypes
<1> DEFINE answer == IF j.kind = "self" THEN <<h5>> ELSE <<done>>
           made == PlansAnswered(j, answer)
<1>4. made \in PlansJob /\ made.kind = j.kind /\ made.answer = answer /\ made.pref = j.pref /\ made.before = j.before
    <2>1. answer \in Seq(PlansServer \union BOOLEAN)
        <3> DEFINE values == PlansServer \union BOOLEAN
        <3>1. h5 \in values /\ done \in values
            BY <1>3, Zenon
        <3>2. \A x \in values : <<x>> \in Seq(values)
            <4> HIDE DEF values
            <4> QED
                OBVIOUS
        <3> QED
            BY <3>1, <3>2, Zenon
    <2> HIDE DEF answer
    <2> QED
        BY <1>3, <2>1 DEF PlansJob, PlansAnswered
<1>5. answer # <<>> /\ (j.kind = "self" => answer[1] = h5) /\ (j.kind = "prefer" => answer[1] = done)
    OBVIOUS
<1>6. h9' = (h9 \ {j}) \union {made}
    BY <1>1
<1> HIDE DEF made, answer
<1>7. h5' \in PlansServer /\ h5'.preference = IF j.kind = "prefer" /\ done THEN j.pref ELSE h5.preference
    <2>1. j.pref \in PlansChoice
        BY <1>3 DEF PlansJob
    <2>2. CASE j.kind = "prefer" /\ done
        <3>1. h5' = [h5 EXCEPT !.preference = j.pref]
            BY <1>1, <2>2
        <3> QED
            BY <1>3, <2>1, <2>2, <3>1 DEF PlansServer
    <2>3. CASE ~(j.kind = "prefer" /\ done)
        BY <1>1, <1>3, <2>3
    <2> QED
        BY <2>2, <2>3
<1>8. PlansTypes'
    BY <1>2, <1>3, <1>4, <1>5, <1>6, <1>7 DEF PlansInv, PlansTypes
<1>9. PlansCalm'
    <2> SUFFICES ASSUME h10.calm PROVE PlansCalm'
        BY <1>2 DEF PlansCalm
    <2>1. PlansPage!Of({"self", "prefer"}) = {j}
        BY <1>2 DEF PlansPage!Of, PlansInv, PlansCalm
    <2>2. PlansPage!Of({"self", "prefer"})' = {made}
        BY <1>2, <1>4, <1>6, <2>1 DEF PlansPage!Of
    <2>3. j.kind = "prefer" => j.before = h5.preference
        BY <1>2, <2>1 DEF PlansInv, PlansCalm
    <2> QED
        BY <1>1, <1>2, <1>3, <1>4, <1>5, <1>7, <2>2, <2>3 DEF PlansCalm
<1> QED
    BY <1>8, <1>9 DEF PlansInv

\* What was read is shown.
LEMMA PlansRead ==
    ASSUME PlansInv, NEW j \in h9, PlansPage!getSubscriptionSelf(j)
    PROVE  PlansInv'
<1>1. /\ j.kind = "self" /\ j.answer # <<>> /\ j \in PlansJob
      /\ h9' = h9 \ {j} /\ h3' = j.answer[1].preference /\ UNCHANGED <<h5, h6, h10>>
    BY DEF PlansPage!getSubscriptionSelf, PlansInv, PlansTypes
<1>1a. PlansTypes'
    <2>1. j.answer[1] \in PlansServer
        BY <1>1 DEF PlansInv, PlansTypes
    <2>2. h3' \in PlansChoice
        BY <1>1, <2>1 DEF PlansServer
    <2> QED
        BY <1>1, <2>2 DEF PlansInv, PlansTypes
<1>2. CASE h10.calm
    <2>1. PlansPage!Of({"self", "prefer"}) = {j}
        BY <1>1, <1>2 DEF PlansPage!Of, PlansInv, PlansCalm
    <2>2. PlansPage!Of({"self", "prefer"})' = {}
        BY <1>1, <2>1 DEF PlansPage!Of
    <2>3. h3' = h5.preference
        BY <1>1, <1>2, <2>1 DEF PlansInv, PlansCalm
    <2>6. PlansCalm'
        BY <1>1, <2>2, <2>3 DEF PlansCalm
    <2> QED
        BY <1>1a, <2>6 DEF PlansInv
<1>3. CASE ~h10.calm
    <2>2. PlansCalm'
        BY <1>1, <1>3 DEF PlansCalm
    <2> QED
        BY <1>1a, <2>2 DEF PlansInv
<1> QED
    BY <1>2, <1>3

\* A lost reading, and a lost answer, end the calm.
LEMMA PlansUncalm ==
    ASSUME PlansInv, h3' \in PlansChoice, UNCHANGED <<h5, h6>>, h9' \subseteq h9,
           h10' = [h10 EXCEPT !.calm = FALSE]
    PROVE  PlansInv'
<1>1. h10' \in PlansView /\ ~h10'.calm
    BY DEF PlansInv, PlansTypes, PlansView
<1>2. PlansTypes'
    BY <1>1 DEF PlansInv, PlansTypes
<1> QED
    BY <1>1, <1>2 DEF PlansInv, PlansCalm

LEMMA PlansPreferred ==
    ASSUME PlansInv, NEW j \in h9, PlansPage!Preferred(j)
    PROVE  PlansInv'
<1>1. /\ j.kind = "prefer" /\ j.answer # <<>> /\ j \in PlansJob
      /\ h9' = h9 \ {j} /\ UNCHANGED <<h5, h6>>
    BY DEF PlansPage!Preferred, PlansInv, PlansTypes
<1>2. j.pref \in PlansChoice /\ j.before \in PlansChoice
    BY <1>1 DEF PlansJob
<1>3. CASE h3' = j.before /\ h10' = [h10 EXCEPT !.calm = FALSE]
    BY <1>1, <1>2, <1>3, PlansUncalm
<1>4. CASE h3' = (IF j.answer[1] THEN j.pref ELSE j.before) /\ h10' = h10
    <2>1. PlansTypes'
        BY <1>1, <1>2, <1>4 DEF PlansInv, PlansTypes
    <2>2. PlansCalm'
        <3> SUFFICES ASSUME h10.calm PROVE PlansCalm'
            BY <1>4 DEF PlansCalm
        <3>1. PlansPage!Of({"self", "prefer"}) = {j}
            BY <1>1 DEF PlansPage!Of, PlansInv, PlansCalm
        <3>2. PlansPage!Of({"self", "prefer"})' = {}
            BY <1>1, <3>1 DEF PlansPage!Of
        <3>3. h3' = h5.preference
            BY <1>1, <1>4, <3>1 DEF PlansInv, PlansCalm
        <3> QED
            BY <1>1, <3>2, <3>3 DEF PlansCalm
    <2> QED
        BY <2>1, <2>2 DEF PlansInv
<1> QED
    BY <1>3, <1>4 DEF PlansPage!Preferred

\* Orders and subscriptions leave the choice alone.
LEMMA PlansAccount ==
    ASSUME PlansInv, UNCHANGED <<h3, h6, h9, h10>>, h5' \in PlansServer, h5'.preference = h5.preference
    PROVE  PlansInv'
<1>1. PlansPage!Of({"self", "prefer"})' = PlansPage!Of({"self", "prefer"})
    BY DEF PlansPage!Of
<1> QED
    BY <1>1, PlansStays DEF PlansInv, PlansTypes

LEMMA PlansBought ==
    ASSUME PlansInv, NEW p \in PlansPage!Plans, PlansPage!Bought(p)
    PROVE  PlansInv'
<1> DEFINE second == [h5 EXCEPT !.ordered = @ \ {p}]
           third == [second EXCEPT !.active = @ \union {p}]
           bought == [h5.bought EXCEPT ![p] = @ + 1]
<1>1. h5 \in PlansServer /\ p \in 0 .. 2
    BY DEF PlansInv, PlansTypes, PlansPage!Plans
<1>2. h5' = [third EXCEPT !.bought = bought]
    BY Zenon DEF PlansPage!Bought
<1>3. second \in PlansServer /\ second.preference = h5.preference
    BY <1>1 DEF PlansServer
<1> HIDE DEF second
<1>4. third \in PlansServer /\ third.preference = h5.preference
    BY <1>1, <1>3 DEF PlansServer
<1> HIDE DEF third
<1>5. bought \in [PlansPage!Plans -> Nat]
    BY <1>1 DEF PlansServer
<1> HIDE DEF bought
<1>6. h5' \in PlansServer /\ h5'.preference = h5.preference
    BY <1>2, <1>4, <1>5 DEF PlansServer
<1> QED
    BY <1>6, PlansAccount DEF PlansPage!Bought

LEMMA PlansEnded ==
    ASSUME PlansInv, NEW p \in PlansPage!Plans, PlansPage!Ended(p)
    PROVE  PlansInv'
<1>1. h5' = [h5 EXCEPT !.active = @ \ {p}]
    BY DEF PlansPage!Ended
<1>2. h5' \in PlansServer /\ h5'.preference = h5.preference
    BY <1>1 DEF PlansInv, PlansTypes, PlansServer
<1> QED
    BY <1>2, PlansAccount DEF PlansPage!Ended

\* The request of a payment is not one of the choice's.
PlansPayment(plan, id) == [PlansPage!Request("pay") EXCEPT !.plan = plan, !.id = id]

LEMMA PlansPayments ==
    ASSUME NEW plan \in 0 .. 2, NEW id \in Nat
    PROVE  PlansPayment(plan, id) \in PlansJob /\ PlansPayment(plan, id).kind = "pay"
<1> DEFINE first == PlansRequest("pay", "none", "none")
           second == [first EXCEPT !.plan = plan]
<1>1. first \in PlansJob /\ first.kind = "pay"
    BY PlansRequests DEF PlansChoice
<1>2. PlansPayment(plan, id) = [second EXCEPT !.id = id]
    BY Zenon DEF PlansPayment, PlansPage!Request, PlansRequest
<1> HIDE DEF first
<1>3. second \in PlansJob /\ second.kind = "pay"
    BY <1>1 DEF PlansJob
<1> HIDE DEF second
<1> QED
    BY <1>2, <1>3 DEF PlansJob

LEMMA PlansPays ==
    ASSUME PlansInv, NEW way, PlansPage!Pay(way)
    PROVE  PlansInv'
<1>1. /\ h9' = h9 \union {PlansPayment(h6, h10.clicks)} /\ h10' = PlansPage!OneMore(h10)
      /\ UNCHANGED <<h3, h5, h6>>
    BY Zenon DEF PlansPage!Pay, PlansPayment
<1>2. h6 \in 0 .. 2 /\ h10 \in PlansView /\ h10.clicks \in Nat /\ h9 \subseteq PlansJob
    BY DEF PlansInv, PlansTypes, PlansView
<1> DEFINE job == PlansPayment(h6, h10.clicks)
<1>3. job \in PlansJob /\ job.kind = "pay"
    BY <1>2, PlansPayments
<1> HIDE DEF job
<1>4. h9' = h9 \union {job}
    BY <1>1 DEF job
<1>5. h10' \in PlansView /\ h10'.calm = h10.calm
    BY <1>1, <1>2 DEF PlansPage!OneMore, PlansView
<1>6. PlansPage!Of({"self", "prefer"})' = PlansPage!Of({"self", "prefer"})
    BY <1>3, <1>4 DEF PlansPage!Of
<1>7. h5' \in PlansServer /\ h5'.preference = h5.preference /\ h3' = h3 /\ h6' = h6
    BY <1>1 DEF PlansInv, PlansTypes
<1>8. h9' \subseteq PlansJob
    BY <1>2, <1>3, <1>4
<1> QED
    BY <1>2, <1>5, <1>6, <1>7, <1>8, PlansStays

LEMMA PlansPayAnswered ==
    ASSUME PlansInv, NEW j \in h9, PlansPage!PayAnswered(j)
    PROVE  PlansInv'
<1>1. j.kind = "pay" /\ j \in PlansJob /\ h9' = h9 \ {j} /\ UNCHANGED <<h3, h10>>
    BY DEF PlansPage!PayAnswered, PlansInv, PlansTypes
<1>2. h6' \in 0 .. 2 /\ h5' \in PlansServer /\ h5'.preference = h5.preference
    <2>1. CASE h6' = 0 /\ h5' = [h5 EXCEPT !.ordered = @ \union {j.plan}]
        <3>1. h5 \in PlansServer /\ j.plan \in 0 .. 2
            BY <1>1 DEF PlansInv, PlansTypes, PlansJob
        <3>2. h5.ordered \union {j.plan} \in SUBSET (0 .. 2)
            BY <3>1 DEF PlansServer
        <3> QED
            BY <2>1, <3>1, <3>2 DEF PlansServer
    <2>2. CASE UNCHANGED <<h5, h6>>
        BY <2>2 DEF PlansInv, PlansTypes
    <2> QED
        BY <2>1, <2>2 DEF PlansPage!PayAnswered
<1>3. PlansPage!Of({"self", "prefer"})' = PlansPage!Of({"self", "prefer"})
    BY <1>1 DEF PlansPage!Of
<1> QED
    BY <1>1, <1>2, <1>3, PlansStays DEF PlansInv, PlansTypes

LEMMA PlansRefreshes ==
    ASSUME PlansInv, PlansPage!handleRefresh
    PROVE  PlansInv'
<1> DEFINE job == PlansRequest("self", "none", "none")
<1>1. job \in PlansJob /\ job.kind = "self" /\ job.answer = <<>>
    BY PlansRequests DEF PlansChoice
<1>2. /\ h9' = h9 \union {job} /\ UNCHANGED <<h3, h5, h6>>
      /\ h10' = PlansTaken(h10, PlansPage!Of({"self", "prefer"}) = {})
    BY Zenon DEF PlansPage!handleRefresh, PlansPage!Request, PlansRequest, PlansTaken
<1> HIDE DEF job
<1> QED
    BY <1>1, <1>2, PlansAsks DEF PlansInv, PlansTypes

LEMMA PlansPreferenceUpdated ==
    ASSUME PlansInv, NEW pref \in PlansPage!Preferences, PlansPage!updateBillingPreference(pref)
    PROVE  PlansInv'
<1> DEFINE job == PlansPrefer(pref, h3)
<1>1. pref \in PlansChoice /\ h3 \in PlansChoice
    BY DEF PlansInv, PlansTypes, PlansChoice
<1>2. job \in PlansJob /\ job.kind = "prefer" /\ job.answer = <<>> /\ job.before = h3
    BY <1>1, PlansPrefers
<1>3. /\ h9' = h9 \union {job} /\ h3' = pref /\ UNCHANGED <<h5, h6>>
      /\ h10' = PlansTaken(h10, PlansPage!Of({"self", "prefer"}) = {})
    BY Zenon DEF PlansPage!updateBillingPreference, PlansPrefer, PlansTaken
<1> HIDE DEF job
<1> QED
    BY <1>1, <1>2, <1>3, PlansAsks

\* The dialog, the tab and the list of plans.
LEMMA PlansDialog ==
    ASSUME PlansInv, UNCHANGED <<h3, h5>>, h6' \in 0 .. 2, h10' \in PlansView, h10'.calm = h10.calm,
           \/ h9' = h9
           \/ \E j \in h9 : j.kind = "plans" /\ h9' = h9 \ {j}
    PROVE  PlansInv'
<1>1. PlansPage!Of({"self", "prefer"})' = PlansPage!Of({"self", "prefer"})
    BY DEF PlansPage!Of
<1> QED
    BY <1>1, PlansStays DEF PlansInv, PlansTypes

LEMMA PlansCloses == PlansInv /\ PlansPage!closeBuy => PlansInv'
<1> SUFFICES ASSUME PlansInv, PlansPage!closeBuy PROVE PlansInv'
    OBVIOUS
<1>1. /\ h6' = 0 /\ UNCHANGED <<h3, h5, h9>>
      /\ h10' = [h10 EXCEPT !.held = @ /\ PlansPage!Of({"pay"}) = {}]
    BY DEF PlansPage!closeBuy
<1>2. h10' \in PlansView /\ h10'.calm = h10.calm
    BY <1>1 DEF PlansInv, PlansTypes, PlansView
<1> QED
    BY <1>1, <1>2, PlansDialog

LEMMA PlansSteps ==
    ASSUME PlansInv, PlansPage!Next \/ UNCHANGED PlansPage!vars
    PROVE  PlansInv'
<1>1. CASE UNCHANGED PlansPage!vars
    BY <1>1, PlansDialog DEF PlansPage!vars, PlansInv, PlansTypes
<1>2. CASE PlansPage!ChooseTab
    BY <1>2, PlansDialog DEF PlansPage!ChooseTab, PlansInv, PlansTypes
<1>3. ASSUME NEW p \in PlansPage!Plans, PlansPage!openBuy(p) PROVE PlansInv'
    BY <1>3, PlansDialog DEF PlansPage!openBuy, PlansPage!Plans, PlansInv, PlansTypes
<1>4. ASSUME NEW m \in PlansPage!EpayMethods, PlansPage!ChooseMethod(m) PROVE PlansInv'
    BY <1>4, PlansDialog DEF PlansPage!ChooseMethod, PlansInv, PlansTypes
<1>5. ASSUME NEW j \in h9, PlansPage!getSubscriptionPlans(j) PROVE PlansInv'
    BY <1>5, PlansDialog DEF PlansPage!getSubscriptionPlans, PlansInv, PlansTypes
<1>6. ASSUME NEW j \in h9, PlansPage!SelfLost(j) PROVE PlansInv'
    <2>1. h3' \in PlansChoice /\ h9' \subseteq h9
        BY <1>6 DEF PlansPage!SelfLost, PlansInv, PlansTypes
    <2> QED
        BY <1>6, <2>1, PlansUncalm DEF PlansPage!SelfLost
<1> QED
    BY <1>1, <1>2, <1>3, <1>4, <1>5, <1>6, PlansRefreshes, PlansPreferenceUpdated, PlansCloses,
       PlansBought, PlansEnded, PlansPays, PlansRead, PlansServed, PlansPreferred, PlansPayAnswered
       DEF PlansPage!Next

LEMMA PlansKnown == PlansInv => PlansPage!PreferenceIsTrue
BY DEF PlansInv, PlansCalm, PlansPage!PreferenceIsTrue

-----------------------------------------------------------------------------
(* Taking over upstream prices (RatioSync): what is ticked, what is sent.    *)

Sync == INSTANCE RatioSync
    WITH server <- h1, options <- h2, differences <- h3, resolutions <- h4, filter <- h5,
         confirm <- h6, gets <- h7, put <- h8, count <- h9

SyncCharges == [Sync!Models -> [Sync!TypeSet -> Nat]]

\* A row that is listed names channels that say something.
SyncRow(row) ==
    /\ row.model \in Sync!Models /\ row.type \in Sync!TypeSet
    /\ \A offer \in row.offers :
           offer[2] \in Nat \ {Sync!Unset} /\ offer[2] = Sync!Offer[offer[1]][row.model][row.type]

\* A set of ticks takes from the rows one value each, and of a model one way to charge.
SyncTick(model, type, value) ==
    \E row \in h3 : row.model = model /\ row.type = type /\ \E offer \in row.offers : offer[2] = value
SyncTicks(ticked) ==
    /\ \A r \in ticked : SyncTick(r.model, r.type, r.value)
    /\ \A r, s \in ticked : r.model = s.model =>
           /\ r.type = s.type => r = s
           /\ Sync!getBillingCategory(r.type) = Sync!getBillingCategory(s.type)

SyncTypes ==
    /\ h1 \in SyncCharges /\ h2 \in SyncCharges
    /\ h7 \subseteq SUBSET Sync!Channels
    /\ h8 # <<>> => h8[1].maps \in SyncCharges
SyncRows == \A row \in h3 : SyncRow(row)
\* While the question is open nothing is sent, and nothing new is in conflict.
SyncAsks == h6 # <<>> => h8 = <<>> /\ Sync!Conflicts \subseteq h6[1]
SyncInv ==
    SyncTypes /\ SyncRows /\ SyncTicks(h4) /\ SyncAsks /\ Sync!SentIsTicked /\ Sync!AskedBefore

LEMMA SyncNames ==
    /\ Sync!TypeSet = {"completion_ratio", "model_price", "model_ratio"}
    /\ Sync!Channels = {"a", "b"}
<1>1. DOMAIN Sync!Types = {1, 2, 3}
    BY DEF Sync!Types
<1>2. Sync!Types[1] = "completion_ratio" /\ Sync!Types[2] = "model_price" /\ Sync!Types[3] = "model_ratio"
    BY DEF Sync!Types
<1>3. Sync!TypeSet = {"completion_ratio", "model_price", "model_ratio"}
    BY <1>1, <1>2 DEF Sync!TypeSet
<1> QED
    BY <1>3 DEF Sync!Channels, Sync!Offer

LEMMA SyncOffers ==
    ASSUME NEW c \in Sync!Channels, NEW m \in Sync!Models, NEW t \in Sync!TypeSet
    PROVE  Sync!Offer[c][m][t] \in Nat
<1>1. ASSUME NEW p \in Nat, NEW r \in Nat, NEW k \in Nat PROVE Sync!Charge(p, r, k)[t] \in Nat
    BY <1>1, SyncNames DEF Sync!Charge
<1>2. Sync!None[t] \in Nat
    BY <1>1 DEF Sync!None, Sync!Unset
<1>3. c \in {"a", "b"} /\ m \in {"m", "n"}
    BY SyncNames DEF Sync!Models
<1>4. /\ Sync!Offer["a"]["m"] = Sync!Charge(0, 2, 2) /\ Sync!Offer["a"]["n"] = Sync!Charge(3, 0, 0)
      /\ Sync!Offer["b"]["m"] = Sync!Charge(3, 4, 4) /\ Sync!Offer["b"]["n"] = Sync!None
    BY DEF Sync!Offer, Sync!Unset
<1>5. /\ Sync!Offer["a"]["m"][t] \in Nat /\ Sync!Offer["a"]["n"][t] \in Nat
      /\ Sync!Offer["b"]["m"][t] \in Nat /\ Sync!Offer["b"]["n"][t] \in Nat
    BY <1>1, <1>2, <1>4
<1> QED
    BY <1>3, <1>5

LEMMA SyncCharge ==
    ASSUME NEW p \in Nat, NEW r \in Nat, NEW k \in Nat
    PROVE  Sync!Charge(p, r, k) \in [Sync!TypeSet -> Nat]
BY DEF Sync!Charge

\* The rows of an answer.
LEMMA SyncDiffers ==
    ASSUME NEW channels \in SUBSET Sync!Channels, NEW row \in Sync!Differences(channels)
    PROVE  SyncRow(row)
<1> DEFINE offers(m, t) == {<<c, Sync!Offer[c][m][t]>> : c \in {d \in channels :
                            Sync!Offer[d][m][t] \notin {Sync!Unset, h1[m][t]}}}
<1>1. PICK m \in Sync!Models, t \in Sync!TypeSet :
          row = [model |-> m, type |-> t, offers |-> offers(m, t)]
    BY DEF Sync!Differences
<1>2. ASSUME NEW offer \in row.offers
      PROVE  offer[2] \in Nat \ {Sync!Unset} /\ offer[2] = Sync!Offer[offer[1]][m][t]
    <2>1. PICK c \in channels : offer = <<c, Sync!Offer[c][m][t]>> /\ Sync!Offer[c][m][t] # Sync!Unset
        BY <1>1, <1>2
    <2> QED
        BY <2>1, SyncOffers
<1> QED
    BY <1>1, <1>2 DEF SyncRow

\* Ticking a value of a row replaces the other values and the other way to charge.
LEMMA SyncSelects ==
    ASSUME NEW ticked, SyncTicks(ticked), NEW model, NEW type, NEW value, SyncTick(model, type, value)
    PROVE  SyncTicks(Sync!selectValue(ticked, model, type, value))
<1> DEFINE new == [model |-> model, type |-> type, value |-> value]
           kept == {r \in ticked : r.model = model =>
                       r.type # type /\ Sync!getBillingCategory(r.type) = Sync!getBillingCategory(type)}
<1>1. Sync!selectValue(ticked, model, type, value) = kept \union {new}
    BY DEF Sync!selectValue
<1>2. new.model = model /\ new.type = type /\ new.value = value
    OBVIOUS
<1> HIDE DEF new
<1>3. ASSUME NEW r \in kept \union {new} PROVE SyncTick(r.model, r.type, r.value)
    BY <1>2 DEF SyncTicks
<1>4. ASSUME NEW r \in kept \union {new}, NEW s \in kept \union {new}, r.model = s.model
      PROVE  /\ r.type = s.type => r = s
             /\ Sync!getBillingCategory(r.type) = Sync!getBillingCategory(s.type)
    BY <1>2, <1>4 DEF SyncTicks
<1> HIDE DEF kept
<1> QED
    BY <1>1, <1>3, <1>4 DEF SyncTicks

LEMMA SyncTicksRow ==
    ASSUME SyncRows, NEW ticked, SyncTicks(ticked), NEW c, NEW m, NEW t
    PROVE  SyncTicks(Sync!tickRow(ticked, c, m, t))
<1> DEFINE row == {r \in Sync!Shown : r.model = m /\ r.type = t /\ \E offer \in r.offers : offer[1] = c}
<1>1. CASE row = {}
    BY <1>1 DEF Sync!tickRow
<1>2. ASSUME NEW r \in row PROVE SyncTicks(Sync!tickRow(ticked, c, m, t))
    <2>1. PICK offer \in r.offers : offer[1] = c
        BY <1>2
    <2>2. r \in h3 /\ r.model = m /\ r.type = t
        BY <1>2 DEF Sync!Shown
    <2>3. offer[2] = Sync!Offer[c][m][t]
        BY <2>1, <2>2 DEF SyncRows, SyncRow
    <2>4. SyncTick(m, t, Sync!Offer[c][m][t])
        BY <2>2, <2>3 DEF SyncTick
    <2>5. Sync!tickRow(ticked, c, m, t) = Sync!selectValue(ticked, m, t, Sync!Offer[c][m][t])
        BY <1>2 DEF Sync!tickRow
    <2> QED
        BY <2>4, <2>5, SyncSelects
<1> QED
    BY <1>1, <1>2

LEMMA SyncTicksModel ==
    ASSUME SyncRows, NEW ticked, SyncTicks(ticked), NEW c, NEW m
    PROVE  SyncTicks(Sync!tickModel(ticked, c, m))
<1> DEFINE one == Sync!tickRow(ticked, c, m, Sync!Types[1])
           two == Sync!tickRow(one, c, m, Sync!Types[2])
<1>1. SyncTicks(one)
    BY SyncTicksRow
<1> HIDE DEF one
<1>2. SyncTicks(two)
    BY <1>1, SyncTicksRow
<1> HIDE DEF two
<1>3. SyncTicks(Sync!tickRow(two, c, m, Sync!Types[3]))
    BY <1>2, SyncTicksRow
<1> QED
    BY <1>3 DEF Sync!tickModel, one, two

LEMMA SyncFewer ==
    ASSUME NEW ticked, SyncTicks(ticked), NEW fewer \in SUBSET ticked
    PROVE  SyncTicks(fewer)
BY DEF SyncTicks

\* The rows and what is sent stay, the ticks change among the rows.
LEMMA SyncTicked ==
    ASSUME SyncInv, SyncTicks(h4'), h6 = <<>>, UNCHANGED <<h1, h2, h3, h6, h7, h8>>
    PROVE  SyncInv'
<1>1. SyncTypes' /\ SyncRows' /\ SyncAsks'
    BY DEF SyncInv, SyncTypes, SyncRows, SyncRow, SyncAsks
<1>2. SyncTicks(h4)'
    BY DEF SyncTicks, SyncTick
<1>3. Sync!SentIsTicked' /\ Sync!AskedBefore'
    BY DEF SyncInv, Sync!SentIsTicked, Sync!AskedBefore
<1> QED
    BY <1>1, <1>2, <1>3 DEF SyncInv

LEMMA SyncTickOne == SyncInv /\ Sync!Tick => SyncInv'
<1> SUFFICES ASSUME SyncInv, Sync!Tick PROVE SyncInv'
    OBVIOUS
<1>0. PICK row \in Sync!Shown : \E offer \in row.offers :
          LET ticked == [model |-> row.model, type |-> row.type, value |-> offer[2]]
          IN  h4' = IF ticked \in h4 THEN {r \in h4 : r.model # row.model \/ r.type # row.type}
                    ELSE Sync!selectValue(h4, row.model, row.type, offer[2])
    BY DEF Sync!Tick
<1>1. PICK offer \in row.offers :
          LET ticked == [model |-> row.model, type |-> row.type, value |-> offer[2]]
          IN  h4' = IF ticked \in h4 THEN {r \in h4 : r.model # row.model \/ r.type # row.type}
                    ELSE Sync!selectValue(h4, row.model, row.type, offer[2])
    BY <1>0
<1>2. SyncTicks(h4) /\ SyncTick(row.model, row.type, offer[2])
    BY DEF SyncInv, Sync!Shown, SyncTick
<1>3. SyncTicks(Sync!selectValue(h4, row.model, row.type, offer[2]))
    BY <1>2, SyncSelects
<1>4. SyncTicks({r \in h4 : r.model # row.model \/ r.type # row.type})
    BY <1>2, SyncFewer
<1>5. SyncTicks(h4')
    BY <1>1, <1>3, <1>4
<1> QED
    BY <1>5, SyncTicked DEF Sync!Tick, Sync!Clicked

LEMMA SyncBulk == SyncInv /\ Sync!handleBulkSelect => SyncInv'
<1> SUFFICES ASSUME SyncInv, Sync!handleBulkSelect PROVE SyncInv'
    OBVIOUS
<1>1. PICK c \in Sync!Channels :
          \/ h4' = Sync!tickModel(Sync!tickModel(h4, c, "m"), c, "n")
          \/ h4' = {r \in h4 : \A row \in Sync!Shown : r.model # row.model \/ r.type # row.type}
    BY DEF Sync!handleBulkSelect
<1>2. SyncTicks(h4) /\ SyncRows
    BY DEF SyncInv
<1>3. SyncTicks(Sync!tickModel(h4, c, "m"))
    BY <1>2, SyncTicksModel
<1>4. SyncTicks(Sync!tickModel(Sync!tickModel(h4, c, "m"), c, "n"))
    BY <1>2, <1>3, SyncTicksModel
<1>5. SyncTicks({r \in h4 : \A row \in Sync!Shown : r.model # row.model \/ r.type # row.type})
    BY <1>2, SyncFewer
<1>6. SyncTicks(h4')
    BY <1>1, <1>4, <1>5
<1> QED
    BY <1>6, SyncTicked DEF Sync!handleBulkSelect, Sync!Clicked

\* Nothing that is ticked, listed, asked or sent changes.
LEMMA SyncStays ==
    ASSUME SyncInv, h1' \in SyncCharges, h7' \subseteq SUBSET Sync!Channels,
           UNCHANGED <<h2, h3, h4, h6, h8>>
    PROVE  SyncInv'
<1>1. SyncTypes' /\ SyncRows' /\ SyncTicks(h4)'
    BY DEF SyncInv, SyncTypes, SyncRows, SyncRow, SyncTicks, SyncTick
<1>2. SyncAsks'
    BY DEF SyncInv, SyncAsks, Sync!Conflicts, Sync!NewCategory, Sync!Ticked
<1>3. Sync!SentIsTicked' /\ Sync!AskedBefore'
    BY DEF SyncInv, Sync!SentIsTicked, Sync!AskedBefore
<1> QED
    BY <1>1, <1>2, <1>3 DEF SyncInv

LEMMA SyncStarts == Sync!Init => SyncInv
<1> SUFFICES ASSUME Sync!Init PROVE SyncInv
    OBVIOUS
<1>1. PICK m \in {Sync!Charge(1, 0, 0), Sync!Charge(0, 1, 1), Sync!None},
           n \in {Sync!Charge(0, 3, 0), Sync!None} :
          h1 = [x \in Sync!Models |-> IF x = "m" THEN m ELSE n]
    BY DEF Sync!Init, Sync!Unset
<1>2. m \in [Sync!TypeSet -> Nat] /\ n \in [Sync!TypeSet -> Nat]
    <2>1. /\ Sync!Charge(1, 0, 0) \in [Sync!TypeSet -> Nat]
          /\ Sync!Charge(0, 1, 1) \in [Sync!TypeSet -> Nat]
          /\ Sync!Charge(0, 3, 0) \in [Sync!TypeSet -> Nat]
        BY SyncCharge
    <2>2. Sync!None \in [Sync!TypeSet -> Nat]
        BY SyncCharge DEF Sync!None, Sync!Unset
    <2> QED
        BY <2>1, <2>2
<1>3. h1 \in SyncCharges
    BY <1>1, <1>2 DEF SyncCharges
<1> QED
    BY <1>3 DEF Sync!Init, SyncInv, SyncTypes, SyncRows, SyncTicks, SyncAsks, Sync!SentIsTicked,
                Sync!AskedBefore

LEMMA SyncFetched == SyncInv /\ Sync!Fetched => SyncInv'
<1> SUFFICES ASSUME SyncInv, Sync!Fetched PROVE SyncInv'
    OBVIOUS
<1>1. PICK channels \in h7 :
          /\ h7' = h7 \ {channels}
          /\ \/ h3' = Sync!Differences(channels) /\ h4' = {}
             \/ UNCHANGED <<h3, h4>>
    BY DEF Sync!Fetched
<1>2. UNCHANGED <<h1, h2, h6, h8>>
    BY DEF Sync!Fetched
<1>3. CASE UNCHANGED <<h3, h4>>
    BY <1>1, <1>2, <1>3, SyncStays DEF SyncInv, SyncTypes
<1>4. CASE h3' = Sync!Differences(channels) /\ h4' = {}
    <2>1. SyncTypes'
        BY <1>1, <1>2 DEF SyncInv, SyncTypes
    <2>2. SyncRows'
        <3>1. channels \in SUBSET Sync!Channels
            BY DEF SyncInv, SyncTypes
        <3>2. \A row \in Sync!Differences(channels) : SyncRow(row)
            BY <3>1, SyncDiffers
        <3> QED
            BY <1>4, <3>2 DEF SyncRows, SyncRow
    <2>3. SyncTicks(h4)'
        BY <1>4 DEF SyncTicks
    <2>4. SyncAsks'
        BY <1>2, <1>4 DEF SyncInv, SyncAsks, Sync!Conflicts
    <2>5. Sync!SentIsTicked' /\ Sync!AskedBefore'
        BY <1>2 DEF SyncInv, Sync!SentIsTicked, Sync!AskedBefore
    <2> QED
        BY <2>1, <2>2, <2>3, <2>4, <2>5 DEF SyncInv
<1> QED
    BY <1>1, <1>3, <1>4

\* What performSync makes of a model and a type: the tick, nothing if the other
\* way to charge was ticked, or what the page was given.
LEMMA SyncFinal ==
    ASSUME SyncInv, NEW m \in Sync!Models, NEW t \in Sync!TypeSet
    PROVE  /\ Sync!finalRatios[m][t] \in Nat
           /\ \A r \in Sync!Ticked(m) : r.type = t => Sync!finalRatios[m][t] = r.value
           /\ (\A r \in Sync!Ticked(m) : r.type # t) =>
                  /\ (\E r \in Sync!Ticked(m) : Sync!getBillingCategory(r.type) # Sync!getBillingCategory(t)) =>
                         Sync!finalRatios[m][t] = Sync!Unset
                  /\ Sync!Ticked(m) = {} => Sync!finalRatios[m][t] = h2[m][t]
<1> DEFINE here == {r \in Sync!Ticked(m) : r.type = t}
           other == \E r \in Sync!Ticked(m) : Sync!getBillingCategory(r.type) # Sync!getBillingCategory(t)
<1>1. Sync!finalRatios[m][t] = IF here # {} THEN (CHOOSE r \in here : TRUE).value
                               ELSE IF other THEN Sync!Unset ELSE h2[m][t]
    BY DEF Sync!finalRatios
<1>2. h2[m][t] \in Nat /\ Sync!Unset \in Nat
    BY DEF SyncInv, SyncTypes, SyncCharges, Sync!Unset
<1>3. CASE here = {}
    BY <1>1, <1>2, <1>3
<1>4. ASSUME NEW r \in here
      PROVE  Sync!finalRatios[m][t] = r.value /\ r.value \in Nat
    <2>1. here = {r}
        BY <1>4 DEF Sync!Ticked, SyncInv, SyncTicks
    <2>2. (CHOOSE x \in here : TRUE) = r
        BY <2>1
    <2>3. r \in h4
        BY <1>4 DEF Sync!Ticked
    <2>4. r.value \in Nat
        BY <2>3 DEF SyncInv, SyncTicks, SyncTick, SyncRows, SyncRow
    <2> QED
        BY <1>1, <2>1, <2>2, <2>4
<1> QED
    BY <1>3, <1>4

LEMMA SyncMaps == SyncInv => Sync!finalRatios \in SyncCharges
<1> SUFFICES ASSUME SyncInv PROVE Sync!finalRatios \in SyncCharges
    OBVIOUS
<1>1. \A m \in Sync!Models, t \in Sync!TypeSet : Sync!finalRatios[m][t] \in Nat
    BY SyncFinal
<1>2. /\ DOMAIN Sync!finalRatios = Sync!Models
      /\ Sync!finalRatios = [m \in Sync!Models |-> Sync!finalRatios[m]]
    BY DEF Sync!finalRatios
<1>3. \A m \in Sync!Models : Sync!finalRatios[m] = [t \in Sync!TypeSet |-> Sync!finalRatios[m][t]]
    BY DEF Sync!finalRatios
<1> HIDE DEF Sync!finalRatios
<1>4. \A m \in Sync!Models : Sync!finalRatios[m] \in [Sync!TypeSet -> Nat]
    BY <1>1, <1>3
<1> QED
    BY <1>2, <1>4 DEF SyncCharges

\* A ticked model is charged as it was ticked, in one way only.
LEMMA SyncSends ==
    ASSUME SyncInv, NEW m \in Sync!Models
    PROVE  IF Sync!Ticked(m) = {} THEN Sync!finalRatios[m] = h2[m]
           ELSE /\ \A r \in Sync!Ticked(m) : Sync!finalRatios[m][r.type] = r.value
                /\ Sync!finalRatios[m]["model_price"] # Sync!Unset =>
                       \A t \in Sync!TypeSet \ {"model_price"} : Sync!finalRatios[m][t] = Sync!Unset
                /\ Sync!Category(Sync!finalRatios[m]) = Sync!NewCategory(m)
<1>1. CASE Sync!Ticked(m) = {}
    <2>1. \A t \in Sync!TypeSet : Sync!finalRatios[m][t] = h2[m][t]
        BY <1>1, SyncFinal
    <2>2. Sync!finalRatios[m] \in [Sync!TypeSet -> Nat] /\ h2[m] \in [Sync!TypeSet -> Nat]
        BY SyncMaps DEF SyncInv, SyncTypes, SyncCharges
    <2>3. Sync!finalRatios[m] = h2[m]
        BY <2>1, <2>2
    <2> QED
        BY <1>1, <2>3
<1>2. ASSUME NEW r \in Sync!Ticked(m)
      PROVE  /\ \A s \in Sync!Ticked(m) : Sync!finalRatios[m][s.type] = s.value
             /\ Sync!finalRatios[m]["model_price"] # Sync!Unset =>
                    \A t \in Sync!TypeSet \ {"model_price"} : Sync!finalRatios[m][t] = Sync!Unset
             /\ Sync!Category(Sync!finalRatios[m]) = Sync!NewCategory(m)
    <2>1. \A s \in Sync!Ticked(m) :
              /\ s.type \in Sync!TypeSet /\ s.value # Sync!Unset
              /\ Sync!getBillingCategory(s.type) = Sync!getBillingCategory(r.type)
        BY DEF Sync!Ticked, SyncInv, SyncTicks, SyncTick, SyncRows, SyncRow
    <2>2. \A s \in Sync!Ticked(m) : Sync!finalRatios[m][s.type] = s.value
        BY <2>1, SyncFinal
    <2>3. CASE r.type = "model_price"
        <3>1. Sync!getBillingCategory("model_price") = "price"
            BY DEF Sync!getBillingCategory
        <3>2. \A t \in Sync!TypeSet \ {"model_price"} : Sync!getBillingCategory(t) = "ratio"
            BY DEF Sync!getBillingCategory
        <3>3. ASSUME NEW t \in Sync!TypeSet \ {"model_price"} PROVE Sync!finalRatios[m][t] = Sync!Unset
            <4>1. \A s \in Sync!Ticked(m) : s.type # t
                BY <2>1, <2>3, <3>1, <3>2
            <4>2. Sync!getBillingCategory(r.type) # Sync!getBillingCategory(t)
                BY <2>3, <3>1, <3>2
            <4> QED
                BY <1>2, <4>1, <4>2, SyncFinal
        <3>4. Sync!finalRatios[m]["model_price"] # Sync!Unset
            BY <1>2, <2>1, <2>2, <2>3
        <3>5. Sync!Category(Sync!finalRatios[m]) = Sync!NewCategory(m)
            BY <1>2, <2>3, <3>4 DEF Sync!Category, Sync!NewCategory
        <3> QED
            BY <2>2, <3>3, <3>5
    <2>4. CASE r.type # "model_price"
        <3>1. \A s \in Sync!Ticked(m) : s.type # "model_price"
            BY <1>2, <2>1, <2>4 DEF Sync!getBillingCategory
        <3>2. Sync!getBillingCategory(r.type) # Sync!getBillingCategory("model_price")
            BY <2>4 DEF Sync!getBillingCategory
        <3>3. Sync!finalRatios[m]["model_price"] = Sync!Unset
            BY <1>2, <3>1, <3>2, SyncNames, SyncFinal
        <3>4. Sync!finalRatios[m] # Sync!None
            <4>1. Sync!finalRatios[m][r.type] # Sync!Unset
                BY <1>2, <2>1, <2>2
            <4>2. Sync!None[r.type] = Sync!Unset
                BY <1>2, <2>1 DEF Sync!None, Sync!Charge
            <4> QED
                BY <4>1, <4>2
        <3>5. Sync!Category(Sync!finalRatios[m]) = "ratio"
            BY <3>3, <3>4 DEF Sync!Category
        <3>6. Sync!NewCategory(m) = "ratio"
            BY <3>1 DEF Sync!NewCategory
        <3> QED
            BY <2>2, <3>3, <3>5, <3>6
    <2> QED
        BY <2>3, <2>4
<1> QED
    BY <1>1, <1>2

LEMMA SyncPerforms ==
    ASSUME SyncInv, NEW asked, Sync!Conflicts \subseteq asked, Sync!performSync(asked)
    PROVE  Sync!SentIsTicked' /\ Sync!AskedBefore' /\ h8'[1].maps \in SyncCharges
<1> DEFINE sent == [maps |-> Sync!finalRatios, sent |-> h4, was |-> h2, asked |-> asked]
<1>1. h8' = <<sent>>
    BY DEF Sync!performSync
<1>2. sent.maps = Sync!finalRatios /\ sent.sent = h4 /\ sent.was = h2 /\ sent.asked = asked
    OBVIOUS
<1> HIDE DEF sent
<1>3. h8'[1] = sent
    BY <1>1
<1>4. Sync!SentIsTicked'
    <2>1. ASSUME NEW m \in Sync!Models
          PROVE  LET ticked == {r \in h8'[1].sent : r.model = m}
                 IN  IF ticked = {} THEN h8'[1].maps[m] = h8'[1].was[m]
                     ELSE /\ \A r \in ticked : h8'[1].maps[m][r.type] = r.value
                          /\ h8'[1].maps[m]["model_price"] # Sync!Unset =>
                                 \A t \in Sync!TypeSet \ {"model_price"} : h8'[1].maps[m][t] = Sync!Unset
        <3>1. {r \in h8'[1].sent : r.model = m} = Sync!Ticked(m)
            BY <1>2, <1>3 DEF Sync!Ticked
        <3> QED
            BY <1>2, <1>3, <3>1, SyncSends
    <2> QED
        BY <2>1 DEF Sync!SentIsTicked
<1>5. Sync!AskedBefore'
    <2>1. ASSUME NEW m \in Sync!Models \ asked
          PROVE  Sync!Category(h2[m]) \in {"none", Sync!Category(Sync!finalRatios[m])}
        <3>1. CASE Sync!Ticked(m) = {}
            BY <3>1, SyncSends
        <3>2. CASE Sync!Ticked(m) # {}
            <4>1. m \in {r.model : r \in h4} /\ m \notin Sync!Conflicts
                BY <3>2 DEF Sync!Ticked
            <4>2. Sync!Category(h2[m]) \in {"none", Sync!NewCategory(m)}
                BY <4>1 DEF Sync!Conflicts
            <4> QED
                BY <3>2, <4>2, SyncSends
        <3> QED
            BY <3>1, <3>2
    <2> QED
        BY <1>2, <1>3, <2>1 DEF Sync!AskedBefore, Sync!Category
<1> QED
    BY <1>2, <1>3, <1>4, <1>5, SyncMaps

LEMMA SyncApplies == SyncInv /\ Sync!applySync => SyncInv'
<1> SUFFICES ASSUME SyncInv, Sync!applySync PROVE SyncInv'
    OBVIOUS
<1>1. h6 = <<>> /\ h8 = <<>> /\ UNCHANGED <<h1, h2, h3, h4, h7>>
    BY DEF Sync!applySync
<1>2. SyncRows' /\ SyncTicks(h4)'
    BY <1>1 DEF SyncInv, SyncRows, SyncRow, SyncTicks, SyncTick
<1>3. CASE h6' = <<Sync!Conflicts>> /\ h8' = h8
    <2>1. SyncTypes'
        BY <1>1, <1>3 DEF SyncInv, SyncTypes
    <2>2. SyncAsks'
        BY <1>1, <1>3 DEF SyncAsks, Sync!Conflicts, Sync!NewCategory, Sync!Ticked
    <2>3. Sync!SentIsTicked' /\ Sync!AskedBefore'
        BY <1>1, <1>3 DEF Sync!SentIsTicked, Sync!AskedBefore
    <2> QED
        BY <1>2, <2>1, <2>2, <2>3 DEF SyncInv
<1>4. CASE Sync!Conflicts = {} /\ Sync!performSync({}) /\ h6' = h6
    <2>1. Sync!SentIsTicked' /\ Sync!AskedBefore' /\ h8'[1].maps \in SyncCharges
        BY <1>4, SyncPerforms
    <2>2. SyncTypes'
        BY <1>1, <2>1 DEF SyncInv, SyncTypes
    <2>3. SyncAsks'
        BY <1>1, <1>4 DEF SyncAsks
    <2> QED
        BY <1>2, <2>1, <2>2, <2>3 DEF SyncInv
<1> QED
    BY <1>3, <1>4 DEF Sync!applySync

LEMMA SyncConfirms == SyncInv /\ Sync!ConflictConfirmModal => SyncInv'
<1> SUFFICES ASSUME SyncInv, Sync!ConflictConfirmModal PROVE SyncInv'
    OBVIOUS
<1>1. h6 # <<>> /\ h6' = <<>> /\ UNCHANGED <<h1, h2, h3, h4, h7>>
    BY DEF Sync!ConflictConfirmModal
<1>2. SyncRows' /\ SyncTicks(h4)' /\ SyncAsks'
    BY <1>1 DEF SyncInv, SyncRows, SyncRow, SyncTicks, SyncTick, SyncAsks
<1>3. CASE h8' = h8
    <2>1. Sync!SentIsTicked' /\ Sync!AskedBefore' /\ SyncTypes'
        BY <1>1, <1>3 DEF SyncInv, SyncTypes, Sync!SentIsTicked, Sync!AskedBefore
    <2> QED
        BY <1>2, <2>1 DEF SyncInv
<1>4. CASE Sync!performSync(h6[1])
    <2>1. Sync!SentIsTicked' /\ Sync!AskedBefore' /\ h8'[1].maps \in SyncCharges
        BY <1>1, <1>4, SyncPerforms DEF SyncInv, SyncAsks
    <2>2. SyncTypes'
        BY <1>1, <2>1 DEF SyncInv, SyncTypes
    <2> QED
        BY <1>2, <2>1, <2>2 DEF SyncInv
<1> QED
    BY <1>3, <1>4 DEF Sync!ConflictConfirmModal

LEMMA SyncSynced == SyncInv /\ Sync!Synced => SyncInv'
<1> SUFFICES ASSUME SyncInv, Sync!Synced PROVE SyncInv'
    OBVIOUS
<1>1. h8 # <<>> /\ h8' = <<>> /\ h6' = h6 /\ h7' = h7
    BY DEF Sync!Synced
<1>2. PICK written :
          /\ h1' = [m \in Sync!Models |-> [t \in Sync!TypeSet |->
                       IF t \in written THEN h8[1].maps[m][t] ELSE h1[m][t]]]
          /\ \/ h4' = {} /\ h3' \subseteq h3 /\ h2' = h1'
             \/ UNCHANGED <<h4, h3, h2>>
    BY DEF Sync!Synced
<1>3. h1' \in SyncCharges
    BY <1>1, <1>2 DEF SyncInv, SyncTypes, SyncCharges
<1>4. SyncTypes'
    BY <1>1, <1>2, <1>3 DEF SyncInv, SyncTypes
<1>5. SyncRows' /\ SyncTicks(h4)'
    <2>1. \A row \in h3' : row \in h3
        BY <1>2
    <2>2. SyncRows'
        BY <2>1 DEF SyncInv, SyncRows, SyncRow
    <2>3. SyncTicks(h4)'
        BY <1>2 DEF SyncInv, SyncTicks, SyncTick
    <2> QED
        BY <2>2, <2>3
<1>6. SyncAsks' /\ Sync!SentIsTicked' /\ Sync!AskedBefore'
    BY <1>1 DEF SyncInv, SyncAsks, Sync!SentIsTicked, Sync!AskedBefore
<1> QED
    BY <1>4, <1>5, <1>6 DEF SyncInv

LEMMA SyncRefreshed == SyncInv /\ Sync!Refresh => SyncInv'
<1> SUFFICES ASSUME SyncInv, Sync!Refresh PROVE SyncInv'
    OBVIOUS
<1>1. h6 = <<>> /\ h8 = <<>> /\ h2' = h1 /\ UNCHANGED <<h1, h3, h4, h6, h7, h8>>
    BY DEF Sync!Refresh
<1>2. SyncTypes' /\ SyncRows' /\ SyncTicks(h4)'
    BY <1>1 DEF SyncInv, SyncTypes, SyncRows, SyncRow, SyncTicks, SyncTick
<1>3. SyncAsks' /\ Sync!SentIsTicked' /\ Sync!AskedBefore'
    BY <1>1 DEF SyncAsks, Sync!SentIsTicked, Sync!AskedBefore
<1> QED
    BY <1>2, <1>3 DEF SyncInv

LEMMA SyncSteps ==
    ASSUME SyncInv, Sync!Next \/ UNCHANGED Sync!vars
    PROVE  SyncInv'
<1>1. CASE UNCHANGED Sync!vars
    BY <1>1, SyncStays DEF Sync!vars, SyncInv, SyncTypes
<1>2. CASE Sync!fetchRatiosFromChannels
    <2>1. h7' \subseteq SUBSET Sync!Channels
        BY <1>2 DEF Sync!fetchRatiosFromChannels, Sync!ChannelSelectorModal, SyncInv, SyncTypes
    <2> QED
        BY <1>2, <2>1, SyncStays DEF Sync!fetchRatiosFromChannels, Sync!Clicked, SyncInv, SyncTypes
<1>3. CASE Sync!Filter
    BY <1>3, SyncStays DEF Sync!Filter, Sync!Clicked, SyncInv, SyncTypes
<1>4. CASE Sync!OtherSaves
    <2>1. Sync!Charge(5, Sync!Unset, Sync!Unset) \in [Sync!TypeSet -> Nat]
        BY SyncCharge DEF Sync!Unset
    <2>2. h1' = [h1 EXCEPT !["m"] = Sync!Charge(5, Sync!Unset, Sync!Unset)]
        BY <1>4 DEF Sync!OtherSaves
    <2>3. h1' \in SyncCharges
        BY <2>1, <2>2 DEF SyncInv, SyncTypes, SyncCharges, Sync!Models
    <2> QED
        BY <1>4, <2>3, SyncStays DEF Sync!OtherSaves, SyncInv, SyncTypes
<1> QED
    BY <1>1, <1>2, <1>3, <1>4, SyncFetched, SyncTickOne, SyncBulk, SyncApplies, SyncConfirms,
       SyncSynced, SyncRefreshed DEF Sync!Next

LEMMA SyncKnown ==
    SyncInv => Sync!TickedIsOffered /\ Sync!SentIsTicked /\ Sync!AskedBefore
BY DEF SyncInv, SyncTicks, SyncTick, Sync!TickedIsOffered

-----------------------------------------------------------------------------
(* Settings (SettingsForms): one form and its tab.                          *)

Settings == INSTANCE SettingsForms
    WITH form <- h1, server <- h2, inputs <- h3, row <- h4, puts <- h5, late <- h6, get <- h7,
         told <- h8, taken <- h9, edited <- h10, stale <- h11, count <- h12

\* What the forms have in common.
SettingsFits(f) ==
    /\ f.refreshed => f.filled = {} /\ f.fetched = {} /\ f.changed \intersect f.secret = {}
    /\ ~f.refreshed => /\ f.extra = {} /\ ~f.rebased
                       /\ f.given \intersect f.secret \subseteq {"WorkerValidKey"}
                       /\ f.always # {} => f.changed = {}
    /\ f.changed \intersect (f.given \union f.always \union f.own \union {"WorkerValidKey"}) = {}
    /\ f.secret \intersect (f.own \union f.extra) = {}

LEMMA SettingsFitting == \A f \in Settings!AllForms : SettingsFits(f)
<1>1. \A f \in Settings!OperationSetting : SettingsFits(f)
    <2>1. SettingsFits(Settings!SettingsGeneral)
        BY DEF SettingsFits, Settings!SettingsGeneral, Settings!CombinedRate, Settings!Compared,
               Settings!Plain
    <2>2. /\ SettingsFits(Settings!SettingsHeaderNavModules)
          /\ SettingsFits(Settings!SettingsSidebarModulesAdmin)
        BY DEF SettingsFits, Settings!SettingsHeaderNavModules,
               Settings!SettingsSidebarModulesAdmin, Settings!Replaced, Settings!Plain
    <2>3. /\ SettingsFits(Settings!SettingsSensitiveWords)
          /\ SettingsFits(Settings!SettingsLog)
        BY DEF SettingsFits, Settings!SettingsSensitiveWords, Settings!SettingsLog,
               Settings!Compared, Settings!Plain
    <2>4. SettingsFits(Settings!SettingsMonitoring)
        BY DEF SettingsFits, Settings!SettingsMonitoring, Settings!StatusCodeRules,
               Settings!Compared, Settings!Plain
    <2>5. /\ SettingsFits(Settings!SettingsCreditLimit)
          /\ SettingsFits(Settings!SettingsCheckin)
        BY DEF SettingsFits, Settings!SettingsCreditLimit, Settings!SettingsCheckin,
               Settings!Compared, Settings!Plain
    <2> QED
        BY <2>1, <2>2, <2>3, <2>4, <2>5 DEF Settings!OperationSetting
<1>2. \A f \in Settings!ModelSetting : SettingsFits(f)
    <2>1. SettingsFits(Settings!SettingGlobalModel)
        BY DEF SettingsFits, Settings!SettingGlobalModel, Settings!GlobalTexts,
               Settings!Compared, Settings!Plain
    <2>2. SettingsFits(Settings!SettingGeminiModel)
        BY DEF SettingsFits, Settings!SettingGeminiModel, Settings!GeminiTexts,
               Settings!Compared, Settings!Plain
    <2>3. /\ SettingsFits(Settings!SettingClaudeModel)
          /\ SettingsFits(Settings!SettingGrokModel)
        BY DEF SettingsFits, Settings!SettingClaudeModel, Settings!SettingGrokModel,
               Settings!Compared, Settings!Plain
    <2> QED
        BY <2>1, <2>2, <2>3 DEF Settings!ModelSetting
<1>3. \A f \in Settings!PaymentSetting : SettingsFits(f)
    <2>1. SettingsFits(Settings!SettingsGeneralPayment)
        BY DEF SettingsFits, Settings!SettingsGeneralPayment, Settings!Replaced, Settings!Plain
    <2>2. SettingsFits(Settings!SettingsPaymentGateway)
        BY DEF SettingsFits, Settings!SettingsPaymentGateway, Settings!PayTexts,
               Settings!Rebased, Settings!Compared, Settings!Plain
    <2>3. SettingsFits(Settings!SettingsPaymentGatewayStripe)
        BY DEF SettingsFits, Settings!SettingsPaymentGatewayStripe, Settings!StripeSecrets,
               Settings!Rebased, Settings!Compared, Settings!Plain
    <2>4. SettingsFits(Settings!SettingsPaymentGatewayCreem)
        BY DEF SettingsFits, Settings!SettingsPaymentGatewayCreem, Settings!CreemSecrets,
               Settings!Rebased, Settings!Plain
    <2>5. SettingsFits(Settings!SettingsPaymentGatewayWaffo)
        BY DEF SettingsFits, Settings!SettingsPaymentGatewayWaffo, Settings!WaffoSecrets,
               Settings!Rebased, Settings!Plain
    <2> QED
        BY <2>1, <2>2, <2>3, <2>4, <2>5 DEF Settings!PaymentSetting
<1>4. \A f \in Settings!RatioSetting : SettingsFits(f)
    <2>1. SettingsFits(Settings!ModelRatioSettings)
        BY DEF SettingsFits, Settings!ModelRatioSettings, Settings!RatioTexts,
               Settings!Compared, Settings!Plain
    <2>2. SettingsFits(Settings!GroupRatioSettings)
        BY DEF SettingsFits, Settings!GroupRatioSettings, Settings!GroupTexts,
               Settings!Compared, Settings!Plain
    <2> QED
        BY <2>1, <2>2 DEF Settings!RatioSetting
<1>5. \A f \in Settings!DrawingSetting : SettingsFits(f)
    BY DEF SettingsFits, Settings!DrawingSetting, Settings!SettingsDrawing, Settings!Only,
           Settings!Compared, Settings!Plain
<1>6. \A f \in Settings!RateLimitSetting : SettingsFits(f)
    BY DEF SettingsFits, Settings!RateLimitSetting, Settings!RequestRateLimit, Settings!Only,
           Settings!Compared, Settings!Plain
<1>7. \A f \in Settings!PerformanceSetting : SettingsFits(f)
    BY DEF SettingsFits, Settings!PerformanceSetting, Settings!SettingsPerformance,
           Settings!Only, Settings!Compared, Settings!Plain
<1>8. \A f \in Settings!DashboardSetting : SettingsFits(f)
    BY DEF SettingsFits, Settings!DashboardSetting, Settings!SettingsDataDashboard,
           Settings!Compared, Settings!Plain
<1>9. \A f \in Settings!OtherSetting : SettingsFits(f)
    BY DEF SettingsFits, Settings!OtherSetting, Settings!Card, Settings!Plain
<1>10. \A f \in Settings!SystemSetting : SettingsFits(f)
    <2>1. /\ SettingsFits(Settings!submitServerAddress)
          /\ SettingsFits(Settings!submitWorker)
          /\ SettingsFits(Settings!submitSMTP)
          /\ SettingsFits(Settings!submitEmailDomainWhitelist)
          /\ SettingsFits(Settings!submitSSRF)
        BY DEF SettingsFits, Settings!submitServerAddress, Settings!submitWorker,
               Settings!submitSMTP, Settings!submitEmailDomainWhitelist, Settings!submitSSRF,
               Settings!Compared, Settings!Card, Settings!Plain
    <2>2. /\ SettingsFits(Settings!submitWeChat)
          /\ SettingsFits(Settings!submitGitHubOAuth)
          /\ SettingsFits(Settings!submitDiscordOAuth)
          /\ SettingsFits(Settings!submitOIDCSettings)
        BY DEF SettingsFits, Settings!submitWeChat, Settings!submitGitHubOAuth,
               Settings!submitDiscordOAuth, Settings!submitOIDCSettings, Settings!Compared,
               Settings!OAuth, Settings!OIDCEndpoints, Settings!Card, Settings!Plain
    <2>3. /\ SettingsFits(Settings!submitTelegramSettings)
          /\ SettingsFits(Settings!submitTurnstile)
          /\ SettingsFits(Settings!submitLinuxDOOAuth)
          /\ SettingsFits(Settings!submitPasskeySettings)
        BY DEF SettingsFits, Settings!submitTelegramSettings, Settings!submitTurnstile,
               Settings!submitLinuxDOOAuth, Settings!submitPasskeySettings, Settings!Compared,
               Settings!Card, Settings!Plain
    <2>4. \A f \in Settings!Switches : SettingsFits(f)
        BY DEF SettingsFits, Settings!Switches, Settings!Switch, Settings!Card, Settings!Plain
    <2> QED
        BY <2>1, <2>2, <2>3, <2>4 DEF Settings!SystemSetting
<1> QED
    BY <1>1, <1>2, <1>3, <1>4, <1>5, <1>6, <1>7, <1>8, <1>9, <1>10 DEF Settings!AllForms, Settings!Tabs

SettingsValues == Settings!Texts \union {Settings!Odd, Settings!Missing, Settings!Nil}
SettingsRows == [DOMAIN h2 -> SettingsValues]
SettingsGet ==
    [on : BOOLEAN, answer : {<<>>} \union {<<s>> : s \in SettingsRows}, old : BOOLEAN]
SettingsPut ==
    [key : DOMAIN h2, value : SettingsValues, edited : BOOLEAN,
     state : {"sent", "ok", "refused", "failed"}]
SettingsTypes ==
    /\ h1 \in Settings!AllForms
    /\ h2 \in SettingsRows /\ h3 \in SettingsRows /\ h4 \in SettingsRows
    /\ h5 \subseteq SettingsPut /\ h6 \subseteq SettingsPut
    /\ h7 \in SettingsGet /\ h9 \in BOOLEAN /\ h10 \subseteq DOMAIN h2 /\ h11 \in BOOLEAN

\* A tab loads again only if its forms ask for it, and has no answer before.
SettingsGets == h7.on => h1.refreshed
SettingsAnswered == ~h7.on => h7.answer = <<>>

\* While a save runs nothing was said of it; a value that was not taken is
\* known until it is over.
SettingsSaving ==
    /\ h5 # {} => h8 # "saved" /\ (h9 \/ \E p \in h5 : p.state \in {"refused", "failed"})
    /\ h1.checked /\ h8 = "saved" => h9

\* Between the saves the baseline is what the server has, and so is the answer
\* that comes, unless the server may have changed unseen.
SettingsBaseline ==
    h1.refreshed /\ h5 = {} =>
        /\ h7.on /\ ~h7.old /\ h7.answer # <<>> => h7.answer[1] = h2
        /\ ~h7.on /\ ~h11 => \A k \in DOMAIN h2 \ h1.own : h4[k] = Settings!Shown(k, h2[k])

\* What was saved and loaded again is shown.
SettingsShows ==
    h1.refreshed /\ h8 = "saved" /\ ~h7.on /\ ~h11 => h3 = h4

\* What is sent when changed is as it was loaded unless this user edited it, and
\* a secret is empty; a card remembers what it has sent as edited.
SettingsOwn ==
    /\ \A k \in DOMAIN h2 \ (h10 \union h1.fetched) :
           /\ k \in h1.changed => h3[k] = h4[k]
           /\ k \in h1.given \intersect h1.secret /\ h1.refreshed => h3[k] = Settings!None
    /\ ~h1.refreshed => \A p \in h5 : p.edited => p.key \in h10 \union h1.fetched

SettingsInv ==
    /\ SettingsTypes /\ SettingsGets /\ SettingsAnswered /\ SettingsSaving /\ SettingsBaseline
    /\ SettingsShows /\ SettingsOwn /\ Settings!OnlyOwnEdits

LEMMA SettingsTyped ==
    ASSUME SettingsTypes, DOMAIN h2' = DOMAIN h2, h1' = h1, h2' \in SettingsRows, h3' \in SettingsRows,
           h4' \in SettingsRows, h5' \subseteq SettingsPut, h6' \subseteq SettingsPut,
           h7' \in SettingsGet, h9' \in BOOLEAN, h10' \subseteq DOMAIN h2, h11' \in BOOLEAN
    PROVE  SettingsTypes'
<1>1. SettingsRows' = SettingsRows
    BY DEF SettingsRows
<1>2. SettingsPut' = SettingsPut
    BY DEF SettingsPut
<1>3. SettingsGet' = SettingsGet
    BY <1>1 DEF SettingsGet
<1> QED
    BY <1>1, <1>2, <1>3 DEF SettingsTypes

LEMMA SettingsFit == SettingsTypes => SettingsFits(h1)
BY SettingsFitting DEF SettingsTypes

LEMMA SettingsTexts ==
    /\ "x" \in SettingsValues /\ "y" \in SettingsValues
    /\ Settings!Texts \union {Settings!Odd} \subseteq SettingsValues
    /\ \A v \in SettingsValues : Settings!Written(v) \in SettingsValues
    /\ \A k : \A v \in SettingsValues : Settings!Shown(k, v) \in SettingsValues
<1>1. /\ "x" \in SettingsValues /\ "y" \in SettingsValues
      /\ Settings!None \in SettingsValues /\ Settings!Missing \in SettingsValues
      /\ Settings!Nil \in SettingsValues
      /\ Settings!Texts \union {Settings!Odd} \subseteq SettingsValues
    BY DEF SettingsValues, Settings!Texts
<1> QED
    BY <1>1 DEF Settings!Written, Settings!Shown

LEMMA SettingsStarts == Settings!Init => SettingsInv
<1> SUFFICES ASSUME Settings!Init PROVE SettingsInv
    OBVIOUS
<1>1. h1 \in Settings!AllForms
    BY DEF Settings!Init, Settings!Forms
<1>2. PICK ks \in Settings!Samples(h1) : h2 = [k \in ks |-> "x"]
    BY DEF Settings!Init
<1>3. /\ h3 = [k \in DOMAIN h2 |-> Settings!Shown(k, h2[k])] /\ h4 = h3 /\ h5 = {} /\ h6 = {}
      /\ h7 = [on |-> FALSE, answer |-> <<>>, old |-> FALSE]
      /\ h8 = "none" /\ h9 = TRUE /\ h10 = {} /\ h11 = FALSE
    BY DEF Settings!Init, Settings!NoGet
<1>4. SettingsTypes
    <2>1. h2 \in SettingsRows
        <3>1. h2 \in [ks -> SettingsValues]
            BY <1>2, SettingsTexts
        <3> QED
            BY <3>1 DEF SettingsRows
    <2>2. h3 \in SettingsRows
        BY <1>3, <2>1, SettingsTexts DEF SettingsRows
    <2>3. h7 \in SettingsGet
        BY <1>3 DEF SettingsGet
    <2> QED
        BY <1>1, <1>3, <2>1, <2>2, <2>3 DEF SettingsTypes
<1>5. SettingsFits(h1)
    BY <1>4, SettingsFit
<1>6. SettingsOwn
    <2>1. ASSUME NEW k \in DOMAIN h2, k \in h1.given \intersect h1.secret, h1.refreshed
          PROVE  h3[k] = Settings!None
        BY <1>3, <2>1 DEF Settings!Shown
    <2> QED
        BY <1>3, <2>1 DEF SettingsOwn
<1>7. h7.on = FALSE /\ h7.answer = <<>>
    BY <1>3
<1>8. SettingsBaseline
    BY <1>3, <1>7 DEF SettingsBaseline
<1> QED
    BY <1>3, <1>4, <1>6, <1>7, <1>8 DEF SettingsInv, SettingsGets, SettingsAnswered, SettingsSaving,
        SettingsShows, Settings!OnlyOwnEdits

LEMMA SettingsEdited == SettingsInv /\ Settings!Edit => SettingsInv'
<1> SUFFICES ASSUME SettingsInv, Settings!Edit PROVE SettingsInv'
    OBVIOUS
<1>1. PICK k \in DOMAIN h3, v \in Settings!Texts \union {Settings!Odd} :
          /\ h3' = [h3 EXCEPT ![k] = v]
          /\ h10' = h10 \union {k}
          /\ h8' = IF h8 = "saved" THEN "none" ELSE h8
          /\ IF h1.instant
             THEN h5' = {[key |-> k, value |-> v, edited |-> TRUE, state |-> "sent"]} /\ h9' = TRUE
             ELSE UNCHANGED <<h5, h9>>
    BY DEF Settings!Edit
<1>2. UNCHANGED <<h1, h2, h4, h6, h7, h11>>
    BY DEF Settings!Edit
<1> DEFINE new == [key |-> k, value |-> v, edited |-> TRUE, state |-> "sent"]
<1>3. new \in SettingsPut /\ new.key = k /\ new.edited = TRUE
    BY SettingsTexts DEF SettingsInv, SettingsTypes, SettingsRows, SettingsPut
<1>4. \/ h5' = {new} /\ h9' = TRUE
      \/ h5' = h5 /\ h9' = h9
    BY <1>1
<1> HIDE DEF new
<1>5. SettingsTypes'
    <2>1. h3' \in SettingsRows /\ k \in DOMAIN h2
        BY <1>1, SettingsTexts DEF SettingsInv, SettingsTypes, SettingsRows
    <2> QED
        BY <1>1, <1>2, <1>3, <1>4, <2>1, SettingsTyped DEF SettingsInv, SettingsTypes
<1>6. SettingsGets' /\ SettingsAnswered'
    BY <1>2 DEF SettingsInv, SettingsGets, SettingsAnswered
<1>7. h8' # "saved"
    BY <1>1
<1>8. SettingsSaving' /\ SettingsShows'
    BY <1>2, <1>4, <1>7 DEF SettingsInv, SettingsSaving, SettingsShows
<1>9. SettingsBaseline'
    BY <1>2, <1>4 DEF SettingsInv, SettingsBaseline, Settings!Shown
<1>10. SettingsOwn'
    <2>1. \A l \in DOMAIN h2 : l # k => h3'[l] = h3[l]
        BY <1>1 DEF SettingsInv, SettingsTypes, SettingsRows
    <2> QED
        BY <1>1, <1>2, <1>3, <1>4, <2>1 DEF SettingsInv, SettingsOwn
<1>11. Settings!OnlyOwnEdits'
    BY <1>2, <1>3, <1>4 DEF SettingsInv, Settings!OnlyOwnEdits
<1> QED
    BY <1>5, <1>6, <1>8, <1>9, <1>10, <1>11 DEF SettingsInv

LEMMA SettingsSubmitted == SettingsInv /\ Settings!onSubmit => SettingsInv'
<1> SUFFICES ASSUME SettingsInv, Settings!onSubmit PROVE SettingsInv'
    OBVIOUS
<1>1. PICK doc \in {"x", "y"}, more \in SUBSET h1.extra :
          /\ h3' = [k \in DOMAIN h3 |->
                       IF k \in h1.fetched /\ "oidc.well_known" \in DOMAIN h3
                          /\ h3["oidc.well_known"] # Settings!None
                       THEN doc ELSE h3[k]]
          /\ h5' = Settings!Queue(h3', Settings!Sending(h3') \union (more \intersect DOMAIN h3'))
    BY DEF Settings!onSubmit
<1>2. /\ UNCHANGED <<h1, h2, h4, h6, h7, h10, h11>>
      /\ h5' # {} /\ h9' = TRUE /\ h8' = "none"
    BY DEF Settings!onSubmit
<1>3. SettingsFits(h1) /\ h3 \in SettingsRows /\ h4 \in SettingsRows
    BY SettingsFit DEF SettingsInv, SettingsTypes
<1>4. h3' \in SettingsRows /\ DOMAIN h3' = DOMAIN h2
    <2>1. doc \in SettingsValues /\ DOMAIN h3 = DOMAIN h2 /\ \A k \in DOMAIN h2 : h3[k] \in SettingsValues
        BY <1>3, SettingsTexts DEF SettingsRows
    <2> QED
        BY <1>1, <2>1 DEF SettingsRows
<1>5. \A k \in DOMAIN h2 : k \notin h1.fetched => h3'[k] = h3[k]
    BY <1>1, <1>3 DEF SettingsRows
\* Why an option is sent.
<1>6. ASSUME NEW p \in h5'
      PROVE  /\ p \in SettingsPut /\ p.edited = (p.key \in h10 \union h1.fetched)
             /\ p.state = "sent"
             /\ p.edited \/ p.key \notin (h1.changed \ h1.extra) \union h1.secret
                \/ p.key \in h1.always \union {"WorkerValidKey"}
    <2>1. PICK k \in Settings!Sending(h3') \union (more \intersect DOMAIN h3') :
              p = [key |-> k, value |-> h3'[k], edited |-> k \in h10 \union h1.fetched, state |-> "sent"]
        BY <1>1, <1>6 DEF Settings!Queue
    <2>2. k \in DOMAIN h2
        BY <1>4, <2>1 DEF Settings!Sending
    <2>3. p.key = k /\ p.edited = (k \in h10 \union h1.fetched) /\ p.state = "sent"
        BY <2>1
    <2>4. p \in SettingsPut
        BY <1>4, <2>1, <2>2 DEF SettingsPut, SettingsRows
    <2>5. \/ k \in h1.changed /\ h3'[k] # h4[k]
          \/ k \in h1.given /\ h3'[k] # Settings!None
          \/ k = "WorkerValidKey"
          \/ k \in h1.always
          \/ k \in h1.extra
        BY <2>1 DEF Settings!Sending
    <2>6. ASSUME k \notin h10 \union h1.fetched, k \in (h1.changed \ h1.extra) \union h1.secret
          PROVE  k \in h1.always \union {"WorkerValidKey"}
        <3>1. h3'[k] = h3[k]
            BY <1>5, <2>2, <2>6
        <3>2. k \in h1.changed => h3[k] = h4[k]
            BY <2>2, <2>6 DEF SettingsInv, SettingsOwn
        <3>3. k \in h1.given /\ h3'[k] # Settings!None => k = "WorkerValidKey"
            BY <1>3, <2>2, <2>6, <3>1 DEF SettingsInv, SettingsOwn, SettingsFits
        <3>4. k \notin h1.extra
            BY <1>3, <2>6 DEF SettingsFits
        <3> QED
            BY <2>5, <3>1, <3>2, <3>3, <3>4
    <2> QED
        BY <2>3, <2>4, <2>6
<1>7. SettingsTypes'
    BY <1>2, <1>4, <1>6, SettingsTyped DEF SettingsInv, SettingsTypes
<1>8. SettingsGets' /\ SettingsAnswered'
    BY <1>2 DEF SettingsInv, SettingsGets, SettingsAnswered
<1>9. SettingsSaving' /\ SettingsShows' /\ SettingsBaseline'
    BY <1>2 DEF SettingsSaving, SettingsShows, SettingsBaseline
<1>10. SettingsOwn'
    BY <1>2, <1>5, <1>6 DEF SettingsInv, SettingsOwn
<1>11. Settings!OnlyOwnEdits'
    BY <1>2, <1>6 DEF SettingsInv, Settings!OnlyOwnEdits
<1> QED
    BY <1>7, <1>8, <1>9, <1>10, <1>11 DEF SettingsInv

\* What the server makes of a value.
LEMMA SettingsPuts ==
    ASSUME SettingsTypes, NEW p \in SettingsPut, NEW done \in BOOLEAN, Settings!Put(p, done)
    PROVE  h2' \in SettingsRows /\ DOMAIN h2' = DOMAIN h2
<1>1. Settings!Written(p.value) \in SettingsValues
    BY SettingsTexts DEF SettingsPut
<1>2. h2 \in [DOMAIN h2 -> SettingsValues]
    BY DEF SettingsTypes, SettingsRows
<1>3. h2' = [h2 EXCEPT ![p.key] = Settings!Written(p.value)] \/ h2' = h2
    BY DEF Settings!Put
<1> QED
    BY <1>1, <1>2, <1>3 DEF SettingsRows

LEMMA SettingsAnswers == SettingsInv /\ Settings!Answer => SettingsInv'
<1> SUFFICES ASSUME SettingsInv, Settings!Answer PROVE SettingsInv'
    OBVIOUS
<1> DEFINE marked(p, r) == [p EXCEPT !.state = IF r \in {"lost", "broken"} THEN "failed" ELSE r]
<1>1. PICK p \in h5, r \in {"ok", "refused", "lost", "broken"} :
          /\ p.state = "sent"
          /\ Settings!Put(p, r \in {"ok", "broken"})
          /\ h9' = (h9 /\ r = "ok")
          /\ h5' = (h5 \ {p}) \union {marked(p, r)}
    BY Zenon DEF Settings!Answer
<1>2. UNCHANGED <<h1, h3, h4, h6, h7, h8, h10, h11>>
    BY DEF Settings!Answer
<1>3. p \in SettingsPut
    BY DEF SettingsInv, SettingsTypes
<1> DEFINE d == marked(p, r)
<1>4. /\ d \in SettingsPut /\ d.key = p.key /\ d.edited = p.edited
      /\ IF r = "ok" THEN d.state = "ok" ELSE d.state \in {"refused", "failed"}
    BY <1>3 DEF SettingsPut
<1>5. h5' = (h5 \ {p}) \union {d}
    BY <1>1
<1> HIDE DEF d, marked
<1>6. h2' \in SettingsRows /\ DOMAIN h2' = DOMAIN h2
    <2>1. (r \in {"ok", "broken"}) \in BOOLEAN
        OBVIOUS
    <2>2. SettingsTypes /\ Settings!Put(p, r \in {"ok", "broken"})
        BY <1>1 DEF SettingsInv
    <2> QED
        BY Zenon, <1>3, <2>1, <2>2, SettingsPuts
<1>7. SettingsTypes'
    BY <1>1, <1>2, <1>4, <1>5, <1>6, SettingsTyped DEF SettingsInv, SettingsTypes
<1>8. SettingsGets' /\ SettingsAnswered'
    BY <1>2 DEF SettingsInv, SettingsGets, SettingsAnswered
<1>9. h8' # "saved" /\ h5' # {}
    BY <1>1, <1>2, <1>5 DEF SettingsInv, SettingsSaving
<1>10. SettingsSaving'
    <2>1. CASE r = "ok"
        <3>1. h9 \/ \E q \in h5 : q.state \in {"refused", "failed"} /\ q # p
            BY <1>1 DEF SettingsInv, SettingsSaving
        <3> QED
            BY <1>1, <1>5, <1>9, <2>1, <3>1 DEF SettingsSaving
    <2>2. CASE r # "ok"
        BY <1>4, <1>5, <1>9, <2>2 DEF SettingsSaving
    <2> QED
        BY <2>1, <2>2
<1>11. SettingsBaseline' /\ SettingsShows'
    BY <1>9 DEF SettingsBaseline, SettingsShows
<1>12. SettingsOwn'
    BY <1>1, <1>2, <1>4, <1>5, <1>6 DEF SettingsInv, SettingsOwn
<1>13. Settings!OnlyOwnEdits'
    BY <1>1, <1>2, <1>4, <1>5 DEF SettingsInv, Settings!OnlyOwnEdits
<1> QED
    BY <1>7, <1>8, <1>10, <1>11, <1>12, <1>13 DEF SettingsInv

\* The request of the tab that a save, or another form, makes.
LEMMA SettingsRefresh ==
    ASSUME SettingsTypes, SettingsAnswered, h7' = Settings!Refreshed
    PROVE  h7' \in SettingsGet /\ h7'.on /\ (h7'.old \/ h7'.answer = <<>>)
<1>1. CASE h7.on
    <2>1. h7' = [h7 EXCEPT !.old = TRUE]
        BY <1>1 DEF Settings!Refreshed
    <2> QED
        BY <1>1, <2>1 DEF SettingsTypes, SettingsGet
<1>2. CASE ~h7.on
    <2>1. h7' = [on |-> TRUE, answer |-> <<>>, old |-> FALSE]
        BY <1>2 DEF Settings!Refreshed, Settings!NoGet
    <2> QED
        BY <2>1 DEF SettingsGet
<1> QED
    BY <1>1, <1>2

LEMMA SettingsOver ==
    ASSUME SettingsTypes, Settings!Overtaken
    PROVE  /\ h7' \in SettingsGet /\ h7'.on = h7.on /\ h7'.answer = h7.answer /\ h7'.old = h7.on
           /\ h11' \in BOOLEAN /\ (h11' \/ h7'.on)
<1>1. h7' = [h7 EXCEPT !.old = h7.on] /\ h11' = (h11 \/ ~h7.on)
    BY DEF Settings!Overtaken
<1> QED
    BY <1>1 DEF SettingsTypes, SettingsGet

LEMMA SettingsSaved == SettingsInv /\ Settings!Saved => SettingsInv'
<1> SUFFICES ASSUME SettingsInv, Settings!Saved PROVE SettingsInv'
    OBVIOUS
<1> DEFINE refused == \E p \in h5 : p.state = "refused"
           sent == {p.key : p \in h5}
           value(k) == (CHOOSE p \in h5 : p.key = k).value
<1>1. /\ h5 # {} /\ \A p \in h5 : p.state \in {"ok", "refused"}
      /\ h5' = {} /\ UNCHANGED <<h1, h2, h6, h9, h10>>
    BY DEF Settings!Saved
<1>2. SettingsFits(h1) /\ SettingsTypes
    BY SettingsFit DEF SettingsInv
<1>3. CASE h1.checked /\ refused
    <2>1. h8' # "saved" /\ Settings!Overtaken /\ UNCHANGED <<h3, h4>>
        BY <1>3 DEF Settings!Saved
    <2>2. /\ h7' \in SettingsGet /\ h7'.on = h7.on /\ h7'.answer = h7.answer /\ h7'.old = h7.on
          /\ h11' \in BOOLEAN /\ (h11' \/ h7'.on)
        BY <1>2, <2>1, SettingsOver
    <2>3. SettingsTypes'
        BY <1>1, <1>2, <2>1, <2>2, SettingsTyped DEF SettingsTypes
    <2>4. SettingsGets' /\ SettingsAnswered' /\ SettingsSaving' /\ SettingsBaseline' /\ SettingsShows'
        BY <1>1, <2>1, <2>2 DEF SettingsInv, SettingsGets, SettingsAnswered, SettingsSaving,
            SettingsBaseline, SettingsShows
    <2>5. SettingsOwn' /\ Settings!OnlyOwnEdits'
        BY <1>1, <2>1 DEF SettingsInv, SettingsOwn, Settings!OnlyOwnEdits
    <2> QED
        BY <2>3, <2>4, <2>5 DEF SettingsInv
<1>4. CASE ~(h1.checked /\ refused)
    <2>1. /\ h8' = "saved" /\ h11' = h11
          /\ h7' = IF h1.refreshed THEN Settings!Refreshed ELSE h7
          /\ h3' = [k \in DOMAIN h3 |-> IF ~h1.refreshed /\ k \in sent /\ (~h1.covered => ~refused)
                                        THEN value(k) ELSE h3[k]]
          /\ h4' = IF h1.rebased THEN h3 ELSE h4
        BY <1>4 DEF Settings!Saved
    <2>2. h1.refreshed => h7' \in SettingsGet /\ h7'.on /\ (h7'.old \/ h7'.answer = <<>>)
        BY <1>2, <2>1, SettingsRefresh DEF SettingsInv
    <2>3. ~h1.refreshed => h7' = h7
        BY <2>1
    <2>4. h1.refreshed => h3' = h3
        BY <1>2, <2>1 DEF SettingsTypes, SettingsRows
    <2>5. \A k \in sent : \E p \in h5 : p.key = k /\ value(k) = p.value
        OBVIOUS
    <2> HIDE DEF sent, value
    <2>6. h3' \in SettingsRows
        <3>1. \A k \in DOMAIN h3 : k \in sent => value(k) \in SettingsValues
            BY <2>5 DEF SettingsInv, SettingsTypes, SettingsPut
        <3> QED
            BY <1>2, <2>1, <3>1 DEF SettingsTypes, SettingsRows
    <2>7. SettingsTypes'
        BY <1>1, <1>2, <2>1, <2>2, <2>3, <2>6, SettingsTyped DEF SettingsTypes
    <2>8. SettingsGets' /\ SettingsAnswered'
        BY <1>1, <2>2, <2>3 DEF SettingsInv, SettingsGets, SettingsAnswered
    <2>9. SettingsSaving'
        BY <1>1, <1>4 DEF SettingsInv, SettingsSaving
    <2>10. SettingsBaseline' /\ SettingsShows'
        BY <1>1, <2>2 DEF SettingsBaseline, SettingsShows
    <2>11. SettingsOwn'
        <3>1. CASE h1.refreshed
            BY <1>1, <2>1, <2>4, <3>1 DEF SettingsInv, SettingsOwn
        <3>2. CASE ~h1.refreshed
            <4>1. h4' = h4
                BY <1>2, <2>1, <3>2 DEF SettingsFits
            <4>2. ASSUME NEW k \in DOMAIN h2 \ (h10 \union h1.fetched), k \in h1.changed
                  PROVE  h3'[k] = h4[k]
                <5>1. k \notin sent
                    <6> SUFFICES ASSUME NEW p \in h5, p.key = k PROVE FALSE
                        BY <2>5
                    <6>1. ~p.edited
                        BY <3>2, <4>2 DEF SettingsInv, SettingsOwn
                    <6> QED
                        BY <1>2, <3>2, <4>2, <6>1 DEF SettingsInv, Settings!OnlyOwnEdits, SettingsFits
                <5>2. h3'[k] = h3[k]
                    BY <1>2, <2>1, <5>1 DEF SettingsTypes, SettingsRows
                <5> QED
                    BY <4>2, <5>2 DEF SettingsInv, SettingsOwn
            <4> QED
                BY <1>1, <3>2, <4>1, <4>2 DEF SettingsOwn
        <3> QED
            BY <3>1, <3>2
    <2>12. Settings!OnlyOwnEdits'
        BY <1>1 DEF SettingsInv, Settings!OnlyOwnEdits
    <2> QED
        BY <2>7, <2>8, <2>9, <2>10, <2>11, <2>12 DEF SettingsInv
<1> QED
    BY <1>3, <1>4

LEMMA SettingsFailed == SettingsInv /\ Settings!Failed => SettingsInv'
<1> SUFFICES ASSUME SettingsInv, Settings!Failed PROVE SettingsInv'
    OBVIOUS
<1>1. /\ h6' = h6 \union {p \in h5 : p.state = "sent"} /\ h5' = {} /\ h8' = "error"
      /\ Settings!Overtaken /\ UNCHANGED <<h1, h2, h3, h4, h9, h10>>
    BY DEF Settings!Failed
<1>2. /\ h7' \in SettingsGet /\ h7'.on = h7.on /\ h7'.answer = h7.answer /\ h7'.old = h7.on
      /\ h11' \in BOOLEAN /\ (h11' \/ h7'.on)
    BY <1>1, SettingsOver DEF SettingsInv
<1>3. SettingsTypes'
    BY <1>1, <1>2, SettingsTyped DEF SettingsInv, SettingsTypes
<1>4. SettingsGets' /\ SettingsAnswered' /\ SettingsSaving' /\ SettingsBaseline' /\ SettingsShows'
    BY <1>1, <1>2 DEF SettingsInv, SettingsGets, SettingsAnswered, SettingsSaving,
        SettingsBaseline, SettingsShows
<1>5. SettingsOwn' /\ Settings!OnlyOwnEdits'
    BY <1>1 DEF SettingsInv, SettingsOwn, Settings!OnlyOwnEdits
<1> QED
    BY <1>3, <1>4, <1>5 DEF SettingsInv

\* The server changes behind the form's back.
LEMMA SettingsBehind ==
    ASSUME SettingsInv, Settings!Overtaken, h2' \in SettingsRows, DOMAIN h2' = DOMAIN h2,
           h6' \subseteq h6, UNCHANGED <<h1, h3, h4, h5, h8, h9, h10>>
    PROVE  SettingsInv'
<1>1. /\ h7' \in SettingsGet /\ h7'.on = h7.on /\ h7'.answer = h7.answer /\ h7'.old = h7.on
      /\ h11' \in BOOLEAN /\ (h11' \/ h7'.on)
    BY SettingsOver DEF SettingsInv
<1>2. SettingsTypes'
    BY <1>1, SettingsTyped DEF SettingsInv, SettingsTypes
<1>3. SettingsGets' /\ SettingsAnswered' /\ SettingsSaving' /\ SettingsBaseline' /\ SettingsShows'
    BY <1>1 DEF SettingsInv, SettingsGets, SettingsAnswered, SettingsSaving,
        SettingsBaseline, SettingsShows
<1>4. SettingsOwn' /\ Settings!OnlyOwnEdits'
    BY DEF SettingsInv, SettingsOwn, Settings!OnlyOwnEdits
<1> QED
    BY <1>2, <1>3, <1>4 DEF SettingsInv

LEMMA SettingsLate == SettingsInv /\ Settings!LateAnswer => SettingsInv'
<1> SUFFICES ASSUME SettingsInv, Settings!LateAnswer PROVE SettingsInv'
    OBVIOUS
<1>1. PICK p \in h6, done \in BOOLEAN : Settings!Put(p, done) /\ h6' = h6 \ {p}
    BY DEF Settings!LateAnswer
<1>2. Settings!Overtaken /\ UNCHANGED <<h1, h3, h4, h5, h8, h9, h10>>
    BY DEF Settings!LateAnswer
<1>3. h2' \in SettingsRows /\ DOMAIN h2' = DOMAIN h2
    BY <1>1, SettingsPuts DEF SettingsInv, SettingsTypes
<1> QED
    BY <1>1, <1>2, <1>3, SettingsBehind

LEMMA SettingsAnother == SettingsInv /\ Settings!Another => SettingsInv'
<1> SUFFICES ASSUME SettingsInv, Settings!Another PROVE SettingsInv'
    OBVIOUS
<1>1. PICK k \in DOMAIN h2 \ h1.own, v \in {"x", "y"} : h2' = [h2 EXCEPT ![k] = v]
    BY DEF Settings!Another
<1>2. Settings!Overtaken /\ UNCHANGED <<h1, h3, h4, h5, h6, h8, h9, h10>>
    BY DEF Settings!Another
<1>3. h2' \in SettingsRows /\ DOMAIN h2' = DOMAIN h2
    BY <1>1, SettingsTexts DEF SettingsInv, SettingsTypes, SettingsRows
<1> QED
    BY <1>2, <1>3, SettingsBehind

LEMMA SettingsSibling == SettingsInv /\ Settings!Sibling => SettingsInv'
<1> SUFFICES ASSUME SettingsInv, Settings!Sibling PROVE SettingsInv'
    OBVIOUS
<1>1. /\ h1.refreshed /\ ~h7.on /\ h7' = Settings!Refreshed
      /\ UNCHANGED <<h1, h2, h3, h4, h5, h6, h8, h9, h10, h11>>
    BY DEF Settings!Sibling, Settings!HasSibling
<1>2. h7' \in SettingsGet /\ h7'.on /\ (h7'.old \/ h7'.answer = <<>>)
    BY <1>1, SettingsRefresh DEF SettingsInv
<1>3. SettingsTypes'
    BY <1>1, <1>2, SettingsTyped DEF SettingsInv, SettingsTypes
<1>4. SettingsGets' /\ SettingsAnswered' /\ SettingsSaving' /\ SettingsBaseline' /\ SettingsShows'
    BY <1>1, <1>2 DEF SettingsInv, SettingsGets, SettingsAnswered, SettingsSaving,
        SettingsBaseline, SettingsShows
<1>5. SettingsOwn' /\ Settings!OnlyOwnEdits'
    BY <1>1 DEF SettingsInv, SettingsOwn, Settings!OnlyOwnEdits
<1> QED
    BY <1>3, <1>4, <1>5 DEF SettingsInv

LEMMA SettingsAsked == SettingsInv /\ Settings!Asked => SettingsInv'
<1> SUFFICES ASSUME SettingsInv, Settings!Asked PROVE SettingsInv'
    OBVIOUS
<1>1. /\ h7.on /\ h7' = [h7 EXCEPT !.answer = <<h2>>]
      /\ UNCHANGED <<h1, h2, h3, h4, h5, h6, h8, h9, h10, h11>>
    BY DEF Settings!Asked
<1>2. h7' \in SettingsGet /\ h7'.on = h7.on /\ h7'.old = h7.old /\ h7'.answer = <<h2>>
    BY <1>1 DEF SettingsInv, SettingsTypes, SettingsGet
<1>3. h7'.answer[1] = h2
    BY <1>2
<1>4. SettingsTypes'
    BY <1>1, <1>2, SettingsTyped DEF SettingsInv, SettingsTypes
<1>5. SettingsGets' /\ SettingsAnswered' /\ SettingsSaving' /\ SettingsBaseline' /\ SettingsShows'
    BY <1>1, <1>2, <1>3 DEF SettingsInv, SettingsGets, SettingsAnswered, SettingsSaving,
        SettingsBaseline, SettingsShows
<1>6. SettingsOwn' /\ Settings!OnlyOwnEdits'
    BY <1>1 DEF SettingsInv, SettingsOwn, Settings!OnlyOwnEdits
<1> QED
    BY <1>4, <1>5, <1>6 DEF SettingsInv

LEMMA SettingsLoaded == SettingsInv /\ Settings!Loaded => SettingsInv'
<1> SUFFICES ASSUME SettingsInv, Settings!Loaded PROVE SettingsInv'
    OBVIOUS
<1>1. /\ h7.answer # <<>> /\ h7' = [on |-> FALSE, answer |-> <<>>, old |-> FALSE]
      /\ UNCHANGED <<h1, h2, h5, h6, h8, h9>>
    BY DEF Settings!Loaded, Settings!NoGet
<1>2. \/ /\ h3' = [k \in DOMAIN h3 |-> IF k \in h1.own THEN h3[k] ELSE Settings!Shown(k, h7.answer[1][k])]
         /\ h4' = h3' /\ h10' = {} /\ h11' = h7.old
      \/ h11' = TRUE /\ UNCHANGED <<h3, h4, h10>>
    BY DEF Settings!Loaded
<1>3. h7' \in SettingsGet /\ ~h7'.on /\ h7'.answer = <<>>
    BY <1>1 DEF SettingsGet
<1>4. /\ h7.on /\ h1.refreshed /\ SettingsFits(h1) /\ h7.old \in BOOLEAN
      /\ h7.answer[1] \in SettingsRows
    <2>1. h7 \in SettingsGet
        BY DEF SettingsInv, SettingsTypes
    <2>2. PICK s \in SettingsRows : h7.answer = <<s>>
        BY <1>1, <2>1 DEF SettingsGet
    <2>3. h7.answer[1] = s
        BY <2>2
    <2> QED
        BY <1>1, <2>1, <2>3, SettingsFit DEF SettingsInv, SettingsGets, SettingsAnswered, SettingsGet
<1>5. CASE h11' = TRUE /\ UNCHANGED <<h3, h4, h10>>
    <2>1. SettingsTypes'
        BY <1>1, <1>3, <1>5, SettingsTyped DEF SettingsInv, SettingsTypes
    <2>2. SettingsGets' /\ SettingsAnswered' /\ SettingsSaving' /\ SettingsBaseline' /\ SettingsShows'
        BY <1>1, <1>3, <1>5 DEF SettingsInv, SettingsGets, SettingsAnswered, SettingsSaving,
            SettingsBaseline, SettingsShows
    <2>3. SettingsOwn' /\ Settings!OnlyOwnEdits'
        BY <1>1, <1>5 DEF SettingsInv, SettingsOwn, Settings!OnlyOwnEdits
    <2> QED
        BY <2>1, <2>2, <2>3 DEF SettingsInv
<1>6. CASE /\ h3' = [k \in DOMAIN h3 |-> IF k \in h1.own THEN h3[k] ELSE Settings!Shown(k, h7.answer[1][k])]
           /\ h4' = h3' /\ h10' = {} /\ h11' = h7.old
    <2>1. DOMAIN h3 = DOMAIN h2 /\ h3 \in SettingsRows
        BY DEF SettingsInv, SettingsTypes, SettingsRows
    <2>2. \A k \in DOMAIN h2 : k \notin h1.own => h3'[k] = Settings!Shown(k, h7.answer[1][k])
        BY <1>6, <2>1
    <2>3. h3' \in SettingsRows
        <3>1. \A k \in DOMAIN h2 : h3[k] \in SettingsValues /\ Settings!Shown(k, h7.answer[1][k]) \in SettingsValues
            BY <1>4, <2>1, SettingsTexts DEF SettingsRows
        <3> QED
            BY <1>6, <2>1, <3>1 DEF SettingsRows
    <2>4. SettingsTypes'
        BY <1>1, <1>3, <1>4, <1>6, <2>3, SettingsTyped DEF SettingsInv, SettingsTypes
    <2>5. SettingsGets' /\ SettingsAnswered' /\ SettingsSaving' /\ SettingsShows'
        BY <1>1, <1>3, <1>6 DEF SettingsInv, SettingsGets, SettingsAnswered, SettingsSaving,
            SettingsShows
    <2>6. SettingsBaseline'
        <3>1. ASSUME h5 = {}, ~h7.old, NEW k \in DOMAIN h2 \ h1.own
              PROVE  h4'[k] = Settings!Shown(k, h2[k])
            <4>1. h7.answer[1] = h2
                BY <1>1, <1>4, <3>1 DEF SettingsInv, SettingsBaseline
            <4> QED
                BY <1>6, <2>2, <3>1, <4>1
        <3>2. \A k, v : Settings!Shown(k, v)' = Settings!Shown(k, v')
            BY <1>1 DEF Settings!Shown
        <3> QED
            BY <1>1, <1>3, <1>6, <3>1 DEF SettingsBaseline, Settings!Shown
    <2>7. SettingsOwn'
        <3>1. ASSUME NEW k \in DOMAIN h2, k \in h1.given \intersect h1.secret
              PROVE  h3'[k] = Settings!None
            <4>1. k \notin h1.own
                BY <1>4, <3>1 DEF SettingsFits
            <4> QED
                BY <1>4, <2>2, <3>1, <4>1 DEF Settings!Shown
        <3> QED
            BY <1>1, <1>4, <1>6, <3>1 DEF SettingsOwn
    <2>8. Settings!OnlyOwnEdits'
        BY <1>1 DEF SettingsInv, Settings!OnlyOwnEdits
    <2> QED
        BY <2>4, <2>5, <2>6, <2>7, <2>8 DEF SettingsInv
<1> QED
    BY <1>2, <1>5, <1>6

LEMMA SettingsSteps == SettingsInv /\ (Settings!Next \/ UNCHANGED Settings!vars) => SettingsInv'
<1> SUFFICES ASSUME SettingsInv, Settings!Next \/ UNCHANGED Settings!vars PROVE SettingsInv'
    OBVIOUS
<1>1. CASE UNCHANGED Settings!vars
    <2>1. UNCHANGED <<h1, h2, h3, h4, h5, h6, h7, h8, h9, h10, h11>>
        BY <1>1 DEF Settings!vars
    <2>2. SettingsTypes'
        BY <2>1, SettingsTyped DEF SettingsInv, SettingsTypes
    <2> QED
        BY <2>1, <2>2 DEF SettingsInv, SettingsGets, SettingsAnswered, SettingsSaving,
            SettingsBaseline, SettingsShows, SettingsOwn, Settings!OnlyOwnEdits, Settings!Shown
<1>2. CASE Settings!Next
    BY <1>2, SettingsEdited, SettingsSubmitted, SettingsAnswers, SettingsSaved, SettingsFailed,
       SettingsLate, SettingsAnother, SettingsSibling, SettingsAsked, SettingsLoaded DEF Settings!Next
<1> QED
    BY <1>1, <1>2

LEMMA SettingsKnown ==
    SettingsInv => /\ Settings!SavedIsShown /\ Settings!SavedIsTaken
                   /\ Settings!EditIsSent /\ Settings!OnlyOwnEdits
<1> SUFFICES ASSUME SettingsInv PROVE /\ Settings!SavedIsShown /\ Settings!SavedIsTaken
                                      /\ Settings!EditIsSent /\ Settings!OnlyOwnEdits
    OBVIOUS
<1>1. Settings!Quiet /\ h1.refreshed => \A k \in DOMAIN h2 \ h1.own : h4[k] = Settings!Shown(k, h2[k])
    BY DEF Settings!Quiet, SettingsInv, SettingsBaseline
<1>2. Settings!SavedIsShown
    BY <1>1 DEF Settings!SavedIsShown, Settings!Quiet, SettingsInv, SettingsShows
<1>3. Settings!SavedIsTaken
    BY DEF Settings!SavedIsTaken, SettingsInv, SettingsSaving
<1>4. Settings!EditIsSent
    <2> SUFFICES ASSUME Settings!Quiet, h1.refreshed \/ h1.always # {},
                        NEW k \in h10 \intersect (h1.changed \union h1.always),
                        h3[k] # h2[k]
                 PROVE  k \in Settings!Sending(h3)
        BY DEF Settings!EditIsSent
    <2>1. k \in DOMAIN h3 /\ k \in DOMAIN h2 /\ SettingsFits(h1)
        BY SettingsFit DEF SettingsInv, SettingsTypes, SettingsRows
    <2>2. CASE k \in h1.always
        BY <2>1, <2>2 DEF Settings!Sending
    <2>3. CASE k \notin h1.always
        <3>1. k \in h1.changed /\ h1.refreshed
            BY <2>1, <2>3 DEF SettingsFits
        <3>2. k \notin h1.own /\ k \notin h1.secret /\ k \notin h1.filled
            BY <2>1, <3>1 DEF SettingsFits
        <3>3. h4[k] = h2[k]
            BY <1>1, <2>1, <3>1, <3>2 DEF Settings!Shown
        <3> QED
            BY <2>1, <3>1, <3>2, <3>3 DEF Settings!Sending
    <2> QED
        BY <2>2, <2>3
<1> QED
    BY <1>2, <1>3, <1>4 DEF SettingsInv

-----------------------------------------------------------------------------
(* Preferences (Preferences): the parts of one record of the account.       *)

Prefer == INSTANCE Preferences
    WITH server <- h1, user <- h2, form <- h3, sidebar <- h4, bar <- h5, admin <- h6,
         language <- h7, busy <- h8, jobs <- h9, view <- h10

PreferJob ==
    [kind : Prefer!Changes \union Prefer!Readings, sent : Prefer!Settings, user : Prefer!Settings,
     was : Nat, done : BOOLEAN, ok : BOOLEAN]
PreferView ==
    [calm : BOOLEAN, kept : BOOLEAN, whole : BOOLEAN, edited : SUBSET {"form", "sidebar"},
     clicks : Nat]
PreferTypes ==
    /\ h1 \in Prefer!Settings /\ h2 \in Prefer!Settings
    /\ h3 \in [type : Prefer!Kinds, url : 0 .. 1, accept : BOOLEAN]
    /\ h4 \subseteq Prefer!Parts /\ h7 \in Prefer!Languages
    /\ h9 \subseteq PreferJob
    /\ \A j \in Prefer!Of({"modules"}) : j.sent.off \subseteq Prefer!Parts
    /\ \A j \in Prefer!Of({"language"}) : {j.sent.lang, j.was} \subseteq Prefer!Languages
    /\ h10 \in PreferView

\* In a calm history one change runs, and nothing reads what it changes; while it
\* is whole, no notifications are saved.
PreferOrder ==
    /\ h10.calm /\ h10.kept =>
           /\ \A i, j \in Prefer!Of(Prefer!Changes) : i = j
           /\ Prefer!Of({"save", "language"}) # {} => Prefer!Of({"user"}) = {}
           /\ Prefer!Of({"modules"}) # {} => Prefer!Of({"sidebar", "bar", "refresh"}) = {}
    /\ h10.whole => Prefer!Of({"save"}) = {}

\* The form shows the page's copy of the setting, and the copy has the account's
\* notifications unless they are read, or were saved and will be read.
PreferForm ==
    /\ "form" \notin h10.edited => h3 = Prefer!FormOf(h2)
    /\ h10.calm /\ h10.kept =>
           /\ Prefer!FormOf(h2) # Prefer!FormOf(h1) =>
                  \E j \in h9 : j.kind = "user" \/ (j.kind = "save" /\ j.done /\ j.ok)
           /\ \A j \in Prefer!Of({"language"}) : Prefer!FormOf(j.user) = Prefer!FormOf(h1)

\* The switches are the account's unless they are edited or still read; the
\* sidebar is unless it is read again.
PreferSidebar ==
    h10.calm /\ h10.kept /\ h10.whole =>
        /\ "sidebar" \notin h10.edited /\ h4 # h1.off \ Prefer!Unset =>
               h1.off # Prefer!Unset /\ Prefer!Of({"sidebar"}) # {}
        /\ \A j \in Prefer!Of({"modules"}) :
               /\ "sidebar" \notin h10.edited => h4 = j.sent.off
               /\ j.done /\ j.ok => h1.off = j.sent.off
        /\ h5 # h1.off \ Prefer!Unset =>
               \E j \in h9 : j.kind \in {"bar", "refresh"} \/ (j.kind = "modules" /\ j.done /\ j.ok)

\* The language is that of the page's copy and of the account, if they have one,
\* unless it is being changed: the change knows what it will put back.
PreferLanguage ==
    h10.calm /\ h10.kept /\ h10.whole =>
        /\ Prefer!Of({"language"}) = {} =>
               /\ h2.lang # 0 => h7 = h2.lang
               /\ h1.lang # 0 /\ h7 # h1.lang => Prefer!Of({"user"}) # {}
        /\ \A j \in Prefer!Of({"language"}) :
               /\ j.user = h2 /\ h7 = j.sent.lang
               /\ h2.lang # 0 => j.was = h2.lang
               /\ IF j.done /\ j.ok THEN h1.lang = j.sent.lang ELSE h1.lang # 0 => j.was = h1.lang
PreferInv == PreferTypes /\ PreferOrder /\ PreferForm /\ PreferSidebar /\ PreferLanguage

LEMMA PreferNames ==
    /\ Prefer!Changes = {"save", "modules", "language"}
    /\ Prefer!Readings = {"user", "sidebar", "bar", "refresh"}
    /\ Prefer!Unset = {"unset"} /\ "unset" \notin Prefer!Parts
    /\ 0 \notin Prefer!Languages /\ Prefer!Languages \subseteq Nat
BY DEF Prefer!Changes, Prefer!Readings, Prefer!Unset, Prefer!Parts, Prefer!Languages

LEMMA PreferNew == Prefer!New \in Prefer!Settings
BY DEF Prefer!New, Prefer!Settings, Prefer!Kinds

LEMMA PreferRequests ==
    ASSUME NEW kind \in Prefer!Changes \union Prefer!Readings
    PROVE  /\ Prefer!Request(kind) \in PreferJob
           /\ Prefer!Request(kind).kind = kind /\ Prefer!Request(kind).done = FALSE
BY PreferNew DEF Prefer!Request, PreferJob

\* What an edit, and the asking of a change, does to the history.
PreferEdited(v, part) == [v EXCEPT !.clicks = @ + 1, !.edited = @ \union {part}]
PreferAsked(v, a, b) == [v EXCEPT !.clicks = @ + 1, !.calm = @ /\ a, !.whole = @ /\ b]

LEMMA PreferEditeds ==
    ASSUME NEW v \in PreferView, NEW part \in {"form", "sidebar"}
    PROVE  /\ PreferEdited(v, part) \in PreferView
           /\ PreferEdited(v, part).calm = v.calm /\ PreferEdited(v, part).kept = v.kept
           /\ PreferEdited(v, part).whole = v.whole
           /\ PreferEdited(v, part).edited = v.edited \union {part}
<1> DEFINE second == [v EXCEPT !.clicks = @ + 1]
<1>1. /\ second \in PreferView /\ second.calm = v.calm /\ second.kept = v.kept
      /\ second.whole = v.whole /\ second.edited = v.edited
    BY DEF PreferView
<1>2. PreferEdited(v, part) = [second EXCEPT !.edited = @ \union {part}]
    BY Zenon DEF PreferEdited
<1> HIDE DEF second
<1> QED
    BY <1>1, <1>2 DEF PreferView

LEMMA PreferAskeds ==
    ASSUME NEW v \in PreferView, NEW a \in BOOLEAN, NEW b \in BOOLEAN
    PROVE  /\ PreferAsked(v, a, b) \in PreferView
           /\ PreferAsked(v, a, b).calm = (v.calm /\ a) /\ PreferAsked(v, a, b).kept = v.kept
           /\ PreferAsked(v, a, b).whole = (v.whole /\ b)
           /\ PreferAsked(v, a, b).edited = v.edited
<1> DEFINE second == [v EXCEPT !.clicks = @ + 1]
           third == [second EXCEPT !.calm = @ /\ a]
<1>1. /\ second \in PreferView /\ second.calm = v.calm /\ second.kept = v.kept
      /\ second.whole = v.whole /\ second.edited = v.edited
    BY DEF PreferView
<1>2. PreferAsked(v, a, b) = [third EXCEPT !.whole = @ /\ b]
    BY Zenon DEF PreferAsked
<1> HIDE DEF second
<1>3. /\ third \in PreferView /\ third.calm = (v.calm /\ a) /\ third.kept = v.kept
      /\ third.whole = v.whole /\ third.edited = v.edited
    BY <1>1 DEF PreferView
<1> HIDE DEF third
<1> QED
    BY <1>2, <1>3 DEF PreferView

\* The three changes that are asked for.
PreferSave == [Prefer!Request("save") EXCEPT !.sent =
                  [Prefer!New EXCEPT !.type = h3.type, !.url = h3.url, !.accept = h3.accept]]
PreferModules == [Prefer!Request("modules") EXCEPT !.sent = [Prefer!New EXCEPT !.off = h4]]
PreferLang(lang) == [Prefer!Request("language") EXCEPT !.sent = [Prefer!New EXCEPT !.lang = lang],
                                                       !.user = h2, !.was = h7]

LEMMA PreferSaves ==
    ASSUME PreferTypes
    PROVE  PreferSave \in PreferJob /\ PreferSave.kind = "save" /\ PreferSave.done = FALSE
<1> DEFINE first == Prefer!Request("save")
           sent1 == [Prefer!New EXCEPT !.type = h3.type]
           sent2 == [sent1 EXCEPT !.url = h3.url]
           sent == [sent2 EXCEPT !.accept = h3.accept]
<1>1. first \in PreferJob /\ first.kind = "save" /\ first.done = FALSE
    BY PreferRequests, PreferNames
<1>2. PreferSave = [first EXCEPT !.sent = sent]
    BY Zenon DEF PreferSave
<1>3. h3.type \in Prefer!Kinds /\ h3.url \in 0 .. 1 /\ h3.accept \in BOOLEAN
    BY DEF PreferTypes
<1>4. sent1 \in Prefer!Settings
    BY <1>3, PreferNew DEF Prefer!Settings
<1> HIDE DEF sent1
<1>5. sent2 \in Prefer!Settings
    BY <1>3, <1>4 DEF Prefer!Settings
<1> HIDE DEF sent2
<1>6. sent \in Prefer!Settings
    BY <1>3, <1>5 DEF Prefer!Settings
<1> HIDE DEF sent, first
<1> QED
    BY <1>1, <1>2, <1>6 DEF PreferJob

LEMMA PreferModulesSent ==
    ASSUME PreferTypes
    PROVE  /\ PreferModules \in PreferJob /\ PreferModules.kind = "modules"
           /\ PreferModules.done = FALSE /\ PreferModules.sent.off = h4
<1> DEFINE first == Prefer!Request("modules")
           sent == [Prefer!New EXCEPT !.off = h4]
<1>1. first \in PreferJob /\ first.kind = "modules" /\ first.done = FALSE
    BY PreferRequests, PreferNames
<1>2. PreferModules = [first EXCEPT !.sent = sent]
    BY Zenon DEF PreferModules
<1>3. sent \in Prefer!Settings /\ sent.off = h4
    <2>1. h4 \in {Prefer!Unset} \union SUBSET Prefer!Parts
        BY DEF PreferTypes
    <2> QED
        BY <2>1, PreferNew DEF Prefer!Settings
<1> HIDE DEF sent, first
<1> QED
    BY <1>1, <1>2, <1>3 DEF PreferJob

LEMMA PreferLangSent ==
    ASSUME PreferTypes, NEW lang \in Prefer!Languages
    PROVE  /\ PreferLang(lang) \in PreferJob /\ PreferLang(lang).kind = "language"
           /\ PreferLang(lang).done = FALSE /\ PreferLang(lang).sent.lang = lang
           /\ PreferLang(lang).user = h2 /\ PreferLang(lang).was = h7
<1> DEFINE first == Prefer!Request("language")
           sent == [Prefer!New EXCEPT !.lang = lang]
           second == [first EXCEPT !.sent = sent]
           third == [second EXCEPT !.user = h2]
<1>1. first \in PreferJob /\ first.kind = "language" /\ first.done = FALSE
    BY PreferRequests, PreferNames
<1>2. PreferLang(lang) = [third EXCEPT !.was = h7]
    BY Zenon DEF PreferLang
<1>3. sent \in Prefer!Settings /\ sent.lang = lang
    <2>1. lang \in Prefer!Languages \union {0}
        OBVIOUS
    <2> QED
        BY <2>1, PreferNew DEF Prefer!Settings
<1>4. h2 \in Prefer!Settings /\ h7 \in Nat
    BY PreferNames DEF PreferTypes
<1> HIDE DEF sent, first
<1>5. second \in PreferJob /\ second.kind = "language" /\ second.done = FALSE /\ second.sent = sent
    BY <1>1, <1>3 DEF PreferJob
<1> HIDE DEF second
<1>6. /\ third \in PreferJob /\ third.kind = "language" /\ third.done = FALSE
      /\ third.sent = sent /\ third.user = h2
    BY <1>4, <1>5 DEF PreferJob
<1> HIDE DEF third
<1> QED
    BY <1>2, <1>3, <1>4, <1>6 DEF PreferJob

LEMMA PreferStarts == Prefer!Init => PreferInv
<1> SUFFICES ASSUME Prefer!Init PROVE PreferInv
    OBVIOUS
<1>1. PICK s \in Prefer!Starts : h1 = s[1] /\ h2 = s[2]
    BY DEF Prefer!Init
<1>2. \/ h1 = Prefer!New /\ h2 = Prefer!New
      \/ h1 = Prefer!Old /\ h2 = Prefer!New
    <2>1. s = <<Prefer!New, Prefer!New, TRUE>> \/ s = <<Prefer!Old, Prefer!New, FALSE>>
        BY Zenon DEF Prefer!Starts
    <2>2. CASE s = <<Prefer!New, Prefer!New, TRUE>>
        <3>1. s[1] = Prefer!New /\ s[2] = Prefer!New
            BY <2>2
        <3> QED
            BY <1>1, <3>1
    <2>3. CASE s = <<Prefer!Old, Prefer!New, FALSE>>
        <3>1. s[1] = Prefer!Old /\ s[2] = Prefer!New
            BY <2>3
        <3> QED
            BY <1>1, <3>1
    <2> QED
        BY <2>1, <2>2, <2>3
<1>3. Prefer!Old \in Prefer!Settings
    BY DEF Prefer!Old, Prefer!Settings, Prefer!Kinds, Prefer!Parts, Prefer!Languages
<1>4. h2.lang = 0 /\ h7 = 1 /\ h7 \in Prefer!Languages
    BY <1>2 DEF Prefer!New, Prefer!Init, Prefer!Languages
<1>5. /\ h9 = {Prefer!Request("user"), Prefer!Request("sidebar"), Prefer!Request("bar")}
      /\ h4 = {} /\ h5 = {} /\ h3 = Prefer!FormOf(h2)
    BY DEF Prefer!Init
<1>6. /\ Prefer!Request("user") \in PreferJob /\ Prefer!Request("user").kind = "user"
      /\ Prefer!Request("sidebar") \in PreferJob /\ Prefer!Request("sidebar").kind = "sidebar"
      /\ Prefer!Request("bar") \in PreferJob /\ Prefer!Request("bar").kind = "bar"
    BY PreferRequests, PreferNames
<1>7. h10 \in PreferView /\ h10.whole = TRUE
    BY DEF Prefer!Init, PreferView
<1>8. /\ \A j \in h9 : j.kind \in {"user", "sidebar", "bar"}
      /\ Prefer!Of(Prefer!Changes) = {} /\ Prefer!Of({"save"}) = {} /\ Prefer!Of({"modules"}) = {}
      /\ Prefer!Of({"language"}) = {} /\ Prefer!Of({"save", "language"}) = {}
      /\ Prefer!Of({"user"}) # {} /\ Prefer!Of({"sidebar"}) # {}
      /\ \E j \in h9 : j.kind = "bar"
      /\ \E j \in h9 : j.kind = "user"
    BY <1>5, <1>6, PreferNames DEF Prefer!Of
<1>9. PreferTypes
    <2>1. Prefer!FormOf(h2) \in [type : Prefer!Kinds, url : 0 .. 1, accept : BOOLEAN]
        BY <1>2, PreferNew DEF Prefer!FormOf, Prefer!Settings
    <2>2. h1 \in Prefer!Settings /\ h2 \in Prefer!Settings
        BY <1>2, <1>3, PreferNew
    <2>3. h9 \subseteq PreferJob
        BY <1>5, <1>6
    <2> QED
        BY <1>4, <1>5, <1>7, <1>8, <2>1, <2>2, <2>3 DEF PreferTypes
<1>10. PreferOrder
    BY <1>8 DEF PreferOrder
<1>11. PreferForm
    BY <1>5, <1>8 DEF PreferForm
<1>12. PreferSidebar
    <2>1. h4 # h1.off \ Prefer!Unset => h1.off # Prefer!Unset
        BY <1>5
    <2> QED
        BY <1>8, <2>1 DEF PreferSidebar
<1>13. PreferLanguage
    BY <1>4, <1>8 DEF PreferLanguage
<1> QED
    BY <1>9, <1>10, <1>11, <1>12, <1>13 DEF PreferInv

\* An edit of the form.
LEMMA PreferNotify ==
    ASSUME PreferInv, NEW f \in [type : Prefer!Kinds, url : 0 .. 1, accept : BOOLEAN],
           Prefer!Notify(f)
    PROVE  PreferInv'
<1>1. /\ h3' = f /\ h10' = PreferEdited(h10, "form")
      /\ UNCHANGED <<h1, h2, h4, h5, h6, h7, h8, h9>>
    BY Zenon DEF Prefer!Notify, Prefer!Edited, PreferEdited
<1>2. /\ h10' \in PreferView /\ h10'.calm = h10.calm /\ h10'.kept = h10.kept
      /\ h10'.whole = h10.whole /\ h10'.edited = h10.edited \union {"form"}
    BY <1>1, PreferEditeds DEF PreferInv, PreferTypes
<1>3. PreferTypes'
    BY <1>1, <1>2 DEF PreferInv, PreferTypes, Prefer!Of
<1>4. PreferOrder' /\ PreferForm' /\ PreferSidebar' /\ PreferLanguage'
    BY <1>1, <1>2 DEF PreferInv, PreferOrder, PreferForm, PreferSidebar, PreferLanguage, Prefer!Of
<1> QED
    BY <1>3, <1>4 DEF PreferInv

LEMMA PreferEdits ==
    ASSUME PreferInv,
           \/ \E kind \in Prefer!Kinds : Prefer!ChooseKind(kind)
           \/ \E d \in 0 .. 1 : Prefer!TypeDetail(d)
           \/ Prefer!SwitchAccept
    PROVE  PreferInv'
<1>1. h3 \in [type : Prefer!Kinds, url : 0 .. 1, accept : BOOLEAN]
    BY DEF PreferInv, PreferTypes
<1>2. ASSUME NEW kind \in Prefer!Kinds, Prefer!ChooseKind(kind) PROVE PreferInv'
    <2>1. [h3 EXCEPT !.type = kind] \in [type : Prefer!Kinds, url : 0 .. 1, accept : BOOLEAN]
        BY <1>1
    <2> QED
        BY <1>2, <2>1, PreferNotify DEF Prefer!ChooseKind
<1>3. ASSUME NEW d \in 0 .. 1, Prefer!TypeDetail(d) PROVE PreferInv'
    <2>1. [h3 EXCEPT !.url = d] \in [type : Prefer!Kinds, url : 0 .. 1, accept : BOOLEAN]
        BY <1>1
    <2> QED
        BY <1>3, <2>1, PreferNotify DEF Prefer!TypeDetail
<1>4. ASSUME Prefer!SwitchAccept PROVE PreferInv'
    <2>1. [h3 EXCEPT !.accept = ~@] \in [type : Prefer!Kinds, url : 0 .. 1, accept : BOOLEAN]
        BY <1>1
    <2> QED
        BY <1>4, <2>1, PreferNotify DEF Prefer!SwitchAccept
<1> QED
    BY <1>2, <1>3, <1>4

\* An edit of the switches of the sidebar.
LEMMA PreferSwitches ==
    ASSUME PreferInv, NEW off \in SUBSET Prefer!Parts, Prefer!Sidebar(off)
    PROVE  PreferInv'
<1>1. /\ h4' = off /\ h10' = PreferEdited(h10, "sidebar")
      /\ UNCHANGED <<h1, h2, h3, h5, h6, h7, h8, h9>>
    BY Zenon DEF Prefer!Sidebar, Prefer!Edited, PreferEdited
<1>2. /\ h10' \in PreferView /\ h10'.calm = h10.calm /\ h10'.kept = h10.kept
      /\ h10'.whole = h10.whole /\ h10'.edited = h10.edited \union {"sidebar"}
    BY <1>1, PreferEditeds DEF PreferInv, PreferTypes
<1>3. PreferTypes'
    BY <1>1, <1>2 DEF PreferInv, PreferTypes, Prefer!Of
<1>4. PreferOrder' /\ PreferForm' /\ PreferSidebar' /\ PreferLanguage'
    BY <1>1, <1>2 DEF PreferInv, PreferOrder, PreferForm, PreferSidebar, PreferLanguage, Prefer!Of
<1> QED
    BY <1>3, <1>4 DEF PreferInv

LEMMA PreferSwitched ==
    ASSUME PreferInv,
           Prefer!handleSectionChange \/ Prefer!handleModuleChange \/ Prefer!resetSidebarModules
    PROVE  PreferInv'
<1>1. \A part \in Prefer!Parts : Prefer!Flip(part) \in SUBSET Prefer!Parts
    BY DEF Prefer!Flip, PreferInv, PreferTypes
<1>2. "section" \in Prefer!Parts /\ "module" \in Prefer!Parts /\ {} \in SUBSET Prefer!Parts
    BY DEF Prefer!Parts
<1>3. ASSUME Prefer!handleSectionChange PROVE PreferInv'
    BY <1>1, <1>2, <1>3, PreferSwitches DEF Prefer!handleSectionChange
<1>4. ASSUME Prefer!handleModuleChange PROVE PreferInv'
    BY <1>1, <1>2, <1>4, PreferSwitches DEF Prefer!handleModuleChange
<1>5. ASSUME Prefer!resetSidebarModules PROVE PreferInv'
    BY <1>2, <1>5, PreferSwitches DEF Prefer!resetSidebarModules
<1> QED
    BY <1>3, <1>4, <1>5

LEMMA PreferSaveAsked == PreferInv /\ Prefer!saveNotificationSettings => PreferInv'
<1> SUFFICES ASSUME PreferInv, Prefer!saveNotificationSettings PROVE PreferInv'
    OBVIOUS
<1>1. /\ h9' = h9 \union {PreferSave}
      /\ h10' = PreferAsked(h10, Prefer!Of(Prefer!Changes \union {"user"}) = {}, PreferSave.kind # "save")
      /\ UNCHANGED <<h1, h2, h3, h4, h5, h6, h7, h8>>
    BY Zenon DEF Prefer!saveNotificationSettings, Prefer!Ask, PreferSave, PreferAsked
<1>2. PreferSave \in PreferJob /\ PreferSave.kind = "save" /\ PreferSave.done = FALSE
    BY PreferSaves DEF PreferInv
<1>3. /\ h9' \subseteq PreferJob /\ h10' \in PreferView
      /\ h10'.kept = h10.kept /\ h10'.edited = h10.edited /\ ~h10'.whole
      /\ h10'.calm => h10.calm /\ Prefer!Of(Prefer!Changes) = {} /\ Prefer!Of({"user"}) = {}
    <2>1. /\ h10' \in PreferView
          /\ h10'.calm = (h10.calm /\ Prefer!Of(Prefer!Changes \union {"user"}) = {})
          /\ h10'.kept = h10.kept /\ h10'.edited = h10.edited
          /\ h10'.whole = (h10.whole /\ PreferSave.kind # "save")
        BY <1>1, PreferAskeds DEF PreferInv, PreferTypes
    <2>2. h9' \subseteq PreferJob
        BY <1>1, <1>2 DEF PreferInv, PreferTypes
    <2>3. Prefer!Of(Prefer!Changes \union {"user"}) = {} =>
              Prefer!Of(Prefer!Changes) = {} /\ Prefer!Of({"user"}) = {}
        BY DEF Prefer!Of
    <2>4. h10.whole \in BOOLEAN
        BY DEF PreferInv, PreferTypes, PreferView
    <2> QED
        BY <1>2, <2>1, <2>2, <2>3, <2>4
<1>4. PreferTypes'
    <2>1. /\ Prefer!Of({"modules"})' = Prefer!Of({"modules"})
          /\ Prefer!Of({"language"})' = Prefer!Of({"language"})
        BY <1>1, <1>2 DEF Prefer!Of
    <2> QED
        BY <1>1, <1>3, <2>1 DEF PreferInv, PreferTypes
<1>5. PreferOrder'
    <2>1. /\ Prefer!Of(Prefer!Changes)' = Prefer!Of(Prefer!Changes) \union {PreferSave}
          /\ Prefer!Of({"user"})' = Prefer!Of({"user"})
          /\ Prefer!Of({"modules"})' = Prefer!Of({"modules"})
        BY <1>1, <1>2, PreferNames DEF Prefer!Of
    <2>2. Prefer!Of({"modules"}) \subseteq Prefer!Of(Prefer!Changes)
        BY PreferNames DEF Prefer!Of
    <2> QED
        BY <1>3, <2>1, <2>2 DEF PreferOrder
<1>6. PreferForm'
    <2>1. h10.calm /\ h10.kept /\ (\A j \in h9 : j.kind # "user" /\ j.kind # "save")
          => Prefer!FormOf(h2) = Prefer!FormOf(h1)
        BY DEF PreferInv, PreferForm
    <2>2. Prefer!Of({"language"})' = Prefer!Of({"language"})
        BY <1>1, <1>2 DEF Prefer!Of
    <2>3. /\ "form" \notin h10'.edited => h3' = Prefer!FormOf(h2)
          /\ Prefer!Of(Prefer!Changes) = {} /\ Prefer!Of({"user"}) = {} =>
                 /\ \A j \in h9 : j.kind # "user" /\ j.kind # "save"
                 /\ Prefer!Of({"language"}) = {}
        BY <1>1, <1>3, PreferNames DEF PreferInv, PreferForm, Prefer!Of
    <2> QED
        BY <1>1, <1>3, <2>1, <2>2, <2>3 DEF PreferForm, Prefer!FormOf
<1>7. PreferSidebar' /\ PreferLanguage'
    BY <1>3 DEF PreferSidebar, PreferLanguage
<1> QED
    BY <1>4, <1>5, <1>6, <1>7 DEF PreferInv

LEMMA PreferModulesAsked == PreferInv /\ Prefer!saveSidebarSettings => PreferInv'
<1> SUFFICES ASSUME PreferInv, Prefer!saveSidebarSettings PROVE PreferInv'
    OBVIOUS
<1> DEFINE over == Prefer!Readings \ {"user"}
<1>1. /\ h9' = h9 \union {PreferModules}
      /\ h10' = PreferAsked(h10, Prefer!Of(Prefer!Changes \union over) = {}, PreferModules.kind # "save")
      /\ UNCHANGED <<h1, h2, h3, h4, h5, h6, h7>>
    BY Zenon DEF Prefer!saveSidebarSettings, Prefer!Ask, PreferModules, PreferAsked
<1>2. /\ PreferModules \in PreferJob /\ PreferModules.kind = "modules"
      /\ PreferModules.done = FALSE /\ PreferModules.sent.off = h4
    BY PreferModulesSent DEF PreferInv
<1>3. /\ h9' \subseteq PreferJob /\ h10' \in PreferView
      /\ h10'.kept = h10.kept /\ h10'.edited = h10.edited /\ (h10'.whole <=> h10.whole)
      /\ h10'.calm => h10.calm /\ Prefer!Of(Prefer!Changes) = {} /\ Prefer!Of(over) = {}
    <2>1. /\ h10' \in PreferView
          /\ h10'.calm = (h10.calm /\ Prefer!Of(Prefer!Changes \union over) = {})
          /\ h10'.kept = h10.kept /\ h10'.edited = h10.edited
          /\ h10'.whole = (h10.whole /\ PreferModules.kind # "save")
        BY <1>1, PreferAskeds DEF PreferInv, PreferTypes
    <2>2. h9' \subseteq PreferJob
        BY <1>1, <1>2 DEF PreferInv, PreferTypes
    <2>3. Prefer!Of(Prefer!Changes \union over) = {} =>
              Prefer!Of(Prefer!Changes) = {} /\ Prefer!Of(over) = {}
        BY DEF Prefer!Of
    <2>4. h10.whole \in BOOLEAN
        BY DEF PreferInv, PreferTypes, PreferView
    <2> QED
        BY <1>2, <2>1, <2>2, <2>3, <2>4
<1>4. /\ Prefer!Of(Prefer!Changes)' = Prefer!Of(Prefer!Changes) \union {PreferModules}
      /\ Prefer!Of({"modules"})' = Prefer!Of({"modules"}) \union {PreferModules}
      /\ Prefer!Of({"user"})' = Prefer!Of({"user"})
      /\ Prefer!Of({"save"})' = Prefer!Of({"save"})
      /\ Prefer!Of({"sidebar"})' = Prefer!Of({"sidebar"})
      /\ Prefer!Of({"language"})' = Prefer!Of({"language"})
      /\ Prefer!Of({"save", "language"})' = Prefer!Of({"save", "language"})
      /\ Prefer!Of({"sidebar", "bar", "refresh"})' = Prefer!Of({"sidebar", "bar", "refresh"})
    BY <1>1, <1>2, PreferNames DEF Prefer!Of
\* In a calm history no change runs, and nothing reads the sidebar.
<1>5. h10'.calm => /\ \A j \in h9 : j.kind = "user"
                   /\ Prefer!Of({"modules"}) = {} /\ Prefer!Of({"save", "language"}) = {}
                   /\ Prefer!Of({"sidebar"}) = {} /\ Prefer!Of({"sidebar", "bar", "refresh"}) = {}
                   /\ Prefer!Of({"language"}) = {}
    BY <1>3, PreferNames DEF Prefer!Of, PreferInv, PreferTypes, PreferJob
<1>6. PreferTypes'
    <2>1. h4 \subseteq Prefer!Parts
        BY DEF PreferInv, PreferTypes
    <2>2. \A j \in Prefer!Of({"modules"})' : j.sent.off \subseteq Prefer!Parts
        BY <1>2, <1>4, <2>1 DEF PreferInv, PreferTypes
    <2>3. UNCHANGED <<h1, h2, h3, h4, h7>> /\ Prefer!Of({"language"})' = Prefer!Of({"language"})
        BY <1>1, <1>4
    <2> QED
        BY <1>3, <2>2, <2>3 DEF PreferInv, PreferTypes
<1>7. PreferOrder'
    BY <1>3, <1>4, <1>5 DEF PreferInv, PreferOrder
<1>8. PreferForm'
    <2>1. h9 \subseteq h9'
        BY <1>1
    <2> QED
        BY <1>1, <1>3, <1>4, <2>1 DEF PreferInv, PreferForm, Prefer!FormOf
<1>9. PreferSidebar'
    BY <1>1, <1>2, <1>3, <1>4, <1>5 DEF PreferInv, PreferSidebar
<1>10. PreferLanguage'
    BY <1>1, <1>3, <1>4 DEF PreferInv, PreferLanguage
<1> QED
    BY <1>6, <1>7, <1>8, <1>9, <1>10 DEF PreferInv

LEMMA PreferLangAsked ==
    ASSUME PreferInv, NEW lang \in Prefer!Languages, Prefer!handleLanguagePreferenceChange(lang)
    PROVE  PreferInv'
<1>1. /\ h9' = h9 \union {PreferLang(lang)}
      /\ h10' = PreferAsked(h10, Prefer!Of(Prefer!Changes \union {"user"}) = {}, PreferLang(lang).kind # "save")
      /\ h7' = lang
      /\ UNCHANGED <<h1, h2, h3, h4, h5, h6>>
    BY Zenon DEF Prefer!handleLanguagePreferenceChange, Prefer!Ask, PreferLang, PreferAsked
<1> DEFINE new == PreferLang(lang)
<1>2. /\ new \in PreferJob /\ new.kind = "language" /\ new.done = FALSE
      /\ new.sent.lang = lang /\ new.user = h2 /\ new.was = h7
    BY PreferLangSent DEF PreferInv
<1>3. /\ h9' \subseteq PreferJob /\ h10' \in PreferView
      /\ h10'.kept = h10.kept /\ h10'.edited = h10.edited /\ (h10'.whole <=> h10.whole)
      /\ h10'.calm => h10.calm /\ Prefer!Of(Prefer!Changes) = {} /\ Prefer!Of({"user"}) = {}
    <2>1. /\ h10' \in PreferView
          /\ h10'.calm = (h10.calm /\ Prefer!Of(Prefer!Changes \union {"user"}) = {})
          /\ h10'.kept = h10.kept /\ h10'.edited = h10.edited
          /\ h10'.whole = (h10.whole /\ new.kind # "save")
        BY <1>1, PreferAskeds DEF PreferInv, PreferTypes
    <2>2. h9' \subseteq PreferJob
        BY <1>1, <1>2 DEF PreferInv, PreferTypes
    <2>3. Prefer!Of(Prefer!Changes \union {"user"}) = {} =>
              Prefer!Of(Prefer!Changes) = {} /\ Prefer!Of({"user"}) = {}
        BY DEF Prefer!Of
    <2>4. h10.whole \in BOOLEAN
        BY DEF PreferInv, PreferTypes, PreferView
    <2> QED
        BY <1>2, <2>1, <2>2, <2>3, <2>4
<1>4. /\ Prefer!Of(Prefer!Changes)' = Prefer!Of(Prefer!Changes) \union {new}
      /\ Prefer!Of({"modules"})' = Prefer!Of({"modules"})
      /\ Prefer!Of({"user"})' = Prefer!Of({"user"})
      /\ Prefer!Of({"save"})' = Prefer!Of({"save"})
      /\ Prefer!Of({"sidebar"})' = Prefer!Of({"sidebar"})
      /\ Prefer!Of({"language"})' = Prefer!Of({"language"}) \union {new}
      /\ Prefer!Of({"sidebar", "bar", "refresh"})' = Prefer!Of({"sidebar", "bar", "refresh"})
    BY <1>1, <1>2, PreferNames DEF Prefer!Of
<1> HIDE DEF new
<1>5. h10'.calm => /\ Prefer!Of({"modules"}) = {} /\ Prefer!Of({"save", "language"}) = {}
                   /\ Prefer!Of({"user"}) = {} /\ Prefer!Of({"language"}) = {}
                   /\ ~\E j \in h9 : j.kind = "user" \/ (j.kind = "save" /\ j.done /\ j.ok)
    BY <1>3, PreferNames DEF Prefer!Of
<1>6. PreferTypes'
    <2>1. h7 \in Prefer!Languages
        BY DEF PreferInv, PreferTypes
    <2> QED
        BY <1>1, <1>2, <1>3, <1>4, <2>1 DEF PreferInv, PreferTypes
<1>7. PreferOrder'
    BY <1>3, <1>4, <1>5 DEF PreferInv, PreferOrder
<1>8. PreferForm'
    <2>1. h10'.calm /\ h10'.kept => Prefer!FormOf(h2) = Prefer!FormOf(h1)
        BY <1>3, <1>5 DEF PreferInv, PreferForm
    <2>2. "form" \notin h10'.edited => h3' = Prefer!FormOf(h2)
        BY <1>1, <1>3 DEF PreferInv, PreferForm
    <2> QED
        BY <1>1, <1>2, <1>4, <1>5, <2>1, <2>2 DEF PreferForm, Prefer!FormOf
<1>9. PreferSidebar'
    <2>1. h9 \subseteq h9'
        BY <1>1
    <2> QED
        BY <1>1, <1>3, <1>4, <2>1 DEF PreferInv, PreferSidebar
<1>10. PreferLanguage'
    BY <1>1, <1>2, <1>3, <1>4, <1>5 DEF PreferInv, PreferLanguage
<1> QED
    BY <1>6, <1>7, <1>8, <1>9, <1>10 DEF PreferInv

\* What the answer of the server does to a change.
PreferServed(j, ok) == [j EXCEPT !.done = TRUE, !.ok = ok]

LEMMA PreferServeds ==
    ASSUME NEW j \in PreferJob, NEW ok \in BOOLEAN
    PROVE  /\ PreferServed(j, ok) \in PreferJob
           /\ PreferServed(j, ok).kind = j.kind /\ PreferServed(j, ok).sent = j.sent
           /\ PreferServed(j, ok).user = j.user /\ PreferServed(j, ok).was = j.was
           /\ PreferServed(j, ok).done = TRUE /\ PreferServed(j, ok).ok = ok
<1> DEFINE second == [j EXCEPT !.done = TRUE]
<1>1. /\ second \in PreferJob /\ second.kind = j.kind /\ second.sent = j.sent
      /\ second.user = j.user /\ second.was = j.was /\ second.done = TRUE
    BY DEF PreferJob
<1>2. PreferServed(j, ok) = [second EXCEPT !.ok = ok]
    BY Zenon DEF PreferServed
<1> HIDE DEF second
<1> QED
    BY <1>1, <1>2 DEF PreferJob

\* The account after a change.
LEMMA PreferWrites ==
    ASSUME PreferInv, NEW j \in h9,
           h1' = IF j.kind = "save" THEN Prefer!Renewed(j.sent) ELSE Prefer!Patched(j)
    PROVE  /\ h1' \in Prefer!Settings
           /\ j.kind # "save" => Prefer!FormOf(h1)' = Prefer!FormOf(h1)
           /\ j.kind = "modules" => h1'.off = j.sent.off /\ h1'.lang = h1.lang
           /\ j.kind # "save" /\ j.kind # "modules" => h1'.off = h1.off /\ h1'.lang = j.sent.lang
<1>1. h1 \in Prefer!Settings /\ j.sent \in Prefer!Settings
    BY DEF PreferInv, PreferTypes, PreferJob
<1>2. CASE j.kind = "save"
    <2>1. Prefer!Renewed(j.sent) \in Prefer!Settings
        BY <1>1 DEF Prefer!Renewed, Prefer!Settings
    <2> QED
        BY <1>2, <2>1
<1>3. CASE j.kind = "modules"
    <2>1. h1' = [h1 EXCEPT !.off = j.sent.off]
        BY <1>3 DEF Prefer!Patched
    <2> QED
        BY <1>1, <1>3, <2>1 DEF Prefer!Settings, Prefer!FormOf
<1>4. CASE j.kind # "save" /\ j.kind # "modules"
    <2>1. h1' = [h1 EXCEPT !.lang = j.sent.lang]
        BY <1>4 DEF Prefer!Patched
    <2> QED
        BY <1>1, <1>4, <2>1 DEF Prefer!Settings, Prefer!FormOf
<1> QED
    BY <1>2, <1>3, <1>4

LEMMA PreferServe ==
    ASSUME PreferInv, NEW j \in h9, NEW ok \in BOOLEAN, Prefer!Served(j, ok)
    PROVE  PreferInv'
<1> DEFINE d == PreferServed(j, ok)
<1>1. /\ h9' = (h9 \ {j}) \union {d}
      /\ j.kind \in {"save", "modules", "language"} /\ ~j.done
      /\ UNCHANGED <<h2, h3, h4, h5, h6, h7, h8, h10>>
    BY Zenon, PreferNames DEF Prefer!Served, PreferServed
<1>2. /\ d \in PreferJob /\ d.kind = j.kind /\ d.sent = j.sent /\ d.user = j.user /\ d.was = j.was
      /\ d.done /\ d.ok = ok
    BY PreferServeds DEF PreferInv, PreferTypes
<1> HIDE DEF d
<1>3. IF ~ok THEN h1' = h1
      ELSE h1' = IF j.kind = "save" THEN Prefer!Renewed(j.sent) ELSE Prefer!Patched(j)
    BY Zenon DEF Prefer!Served
<1>4. /\ h1' \in Prefer!Settings
      /\ ~ok => h1' = h1
      /\ j.kind # "save" => Prefer!FormOf(h1)' = Prefer!FormOf(h1)
      /\ ok /\ j.kind = "modules" => h1'.off = j.sent.off /\ h1'.lang = h1.lang
      /\ ok /\ j.kind = "language" => h1'.off = h1.off /\ h1'.lang = j.sent.lang
    <2>1. CASE ok
        <3>1. h1' = IF j.kind = "save" THEN Prefer!Renewed(j.sent) ELSE Prefer!Patched(j)
            BY <1>3, <2>1
        <3> QED
            BY <2>1, <3>1, PreferWrites
    <2>2. CASE ~ok
        BY <1>3, <2>2 DEF PreferInv, PreferTypes, Prefer!FormOf
    <2> QED
        BY <2>1, <2>2
\* The request keeps its place among the others.
<1>5. /\ \A k \in {"user", "sidebar"} : Prefer!Of({k})' = Prefer!Of({k})
      /\ Prefer!Of({"sidebar", "bar", "refresh"})' = Prefer!Of({"sidebar", "bar", "refresh"})
      /\ j.kind \in Prefer!Changes
      /\ \A i \in Prefer!Of(Prefer!Changes)' : i = d \/ (i \in Prefer!Of(Prefer!Changes) /\ i # j)
      /\ \A i \in Prefer!Of({"modules"})' : IF i = d THEN j.kind = "modules"
                                            ELSE i \in Prefer!Of({"modules"}) /\ i # j
      /\ \A i \in Prefer!Of({"language"})' : IF i = d THEN j.kind = "language"
                                             ELSE i \in Prefer!Of({"language"}) /\ i # j
      /\ j.kind = "language" => d \in Prefer!Of({"language"})'
      /\ j.kind # "language" => Prefer!Of({"language"})' = Prefer!Of({"language"})
      /\ Prefer!Of({"save"}) = {} => Prefer!Of({"save"})' = {} /\ j.kind # "save"
      /\ Prefer!Of({"save", "language"}) = {} => Prefer!Of({"save", "language"})' = {}
      /\ Prefer!Of({"modules"}) = {} => Prefer!Of({"modules"})' = {}
    BY <1>1, <1>2, PreferNames DEF Prefer!Of
<1>6. j \in Prefer!Of(Prefer!Changes)
    BY <1>5 DEF Prefer!Of
<1>7. PreferTypes'
    <2>1. /\ \A i \in Prefer!Of({"modules"})' : i.sent.off \subseteq Prefer!Parts
          /\ \A i \in Prefer!Of({"language"})' : {i.sent.lang, i.was} \subseteq Prefer!Languages
        <3>1. /\ j.kind = "modules" => j \in Prefer!Of({"modules"})
              /\ j.kind = "language" => j \in Prefer!Of({"language"})
            BY DEF Prefer!Of
        <3> QED
            BY <1>2, <1>5, <3>1 DEF PreferInv, PreferTypes
    <2>2. h9' \subseteq PreferJob
        BY <1>1, <1>2 DEF PreferInv, PreferTypes
    <2> QED
        BY <1>1, <1>4, <2>1, <2>2 DEF PreferInv, PreferTypes
\* In a calm history it is the only change.
<1>8. h10.calm /\ h10.kept => Prefer!Of(Prefer!Changes) = {j}
    BY <1>6 DEF PreferInv, PreferOrder
<1>9. h10.calm /\ h10.kept =>
         /\ Prefer!Of(Prefer!Changes)' = {d}
         /\ \A i \in Prefer!Of({"modules"})' : i = d
         /\ \A i \in Prefer!Of({"language"})' : i = d
    BY <1>1, <1>2, <1>8, PreferNames DEF Prefer!Of
<1>10. PreferOrder'
    BY <1>1, <1>5, <1>9 DEF PreferInv, PreferOrder
<1>11. PreferForm'
    <2>1. "form" \notin h10.edited => h3 = Prefer!FormOf(h2)
        BY DEF PreferInv, PreferForm
    <2>2. ASSUME h10.calm, h10.kept, Prefer!FormOf(h2) # Prefer!FormOf(h1)'
          PROVE  \E i \in h9' : i.kind = "user" \/ (i.kind = "save" /\ i.done /\ i.ok)
        <3>1. CASE j.kind = "save" /\ ok
            BY <1>1, <1>2, <3>1
        <3>2. CASE j.kind # "save" \/ ~ok
            <4>1. Prefer!FormOf(h1)' = Prefer!FormOf(h1)
                BY <1>4, <3>2 DEF Prefer!FormOf
            <4>2. PICK i \in h9 : i.kind = "user" \/ (i.kind = "save" /\ i.done /\ i.ok)
                BY <2>2, <4>1 DEF PreferInv, PreferForm
            <4>3. i # j
                BY <1>1, <4>2
            <4> QED
                BY <1>1, <4>2, <4>3
        <3> QED
            BY <3>1, <3>2
    <2>3. ASSUME h10.calm, h10.kept, NEW i \in Prefer!Of({"language"})'
          PROVE  Prefer!FormOf(i.user) = Prefer!FormOf(h1)'
        <3>1. i = d /\ j.kind = "language" /\ j \in Prefer!Of({"language"})
            BY <1>5, <1>9, <2>3 DEF Prefer!Of
        <3>2. Prefer!FormOf(j.user) = Prefer!FormOf(h1)
            BY <2>3, <3>1 DEF PreferInv, PreferForm
        <3> QED
            BY <1>2, <1>4, <3>1, <3>2
    <2>4. Prefer!FormOf(h2)' = Prefer!FormOf(h2)
        BY <1>1 DEF Prefer!FormOf
    <2> QED
        BY <1>1, <2>1, <2>2, <2>3, <2>4 DEF PreferForm
<1>12. PreferSidebar'
    <2> SUFFICES ASSUME h10.calm, h10.kept, h10.whole PROVE PreferSidebar'
        BY <1>1 DEF PreferSidebar
    <2>1. j.kind # "save"
        BY <1>5 DEF PreferInv, PreferOrder
    <2>2. CASE j.kind = "modules"
        <3>1. j \in Prefer!Of({"modules"}) /\ h4 \subseteq Prefer!Parts
            BY <2>2 DEF Prefer!Of, PreferInv, PreferTypes
        <3>2. "sidebar" \notin h10.edited => h4 = j.sent.off
            BY <3>1 DEF PreferInv, PreferSidebar
        <3>3. d \in h9' /\ (ok => h1'.off = j.sent.off) /\ (~ok => h1' = h1)
            BY <1>1, <1>4, <2>2
        <3>4. "sidebar" \notin h10.edited /\ h4 # h1'.off \ Prefer!Unset =>
                  h1'.off # Prefer!Unset /\ Prefer!Of({"sidebar"})' # {}
            <4>1. CASE ok
                BY <3>1, <3>2, <3>3, <4>1, PreferNames
            <4>2. CASE ~ok
                BY <1>5, <3>3, <4>2 DEF PreferInv, PreferSidebar
            <4> QED
                BY <4>1, <4>2
        <3>5. \A i \in Prefer!Of({"modules"})' :
                  /\ "sidebar" \notin h10.edited => h4 = i.sent.off
                  /\ i.done /\ i.ok => h1'.off = i.sent.off
            BY <1>2, <1>9, <3>2, <3>3
        <3>6. h5 # h1'.off \ Prefer!Unset =>
                 \E i \in h9' : i.kind \in {"bar", "refresh"} \/ (i.kind = "modules" /\ i.done /\ i.ok)
            <4>1. CASE ok
                BY <1>2, <2>2, <3>3, <4>1
            <4>2. CASE ~ok
                BY <1>1, <2>2, <3>3, <4>2 DEF PreferInv, PreferSidebar
            <4> QED
                BY <4>1, <4>2
        <3> QED
            BY <1>1, <3>4, <3>5, <3>6 DEF PreferSidebar
    <2>3. CASE j.kind = "language"
        <3>1. h1'.off = h1.off
            BY <1>4, <2>3
        <3>2. Prefer!Of({"modules"})' = {}
            BY <1>5, <1>9, <2>3
        <3>3. h5 # h1'.off \ Prefer!Unset =>
                 \E i \in h9' : i.kind \in {"bar", "refresh"} \/ (i.kind = "modules" /\ i.done /\ i.ok)
            BY <1>1, <2>3, <3>1 DEF PreferInv, PreferSidebar
        <3> QED
            BY <1>1, <1>5, <3>1, <3>2, <3>3 DEF PreferInv, PreferSidebar
    <2> QED
        BY <1>1, <2>1, <2>2, <2>3
<1>13. PreferLanguage'
    <2> SUFFICES ASSUME h10.calm, h10.kept, h10.whole PROVE PreferLanguage'
        BY <1>1 DEF PreferLanguage
    <2>1. j.kind # "save"
        BY <1>5 DEF PreferInv, PreferOrder
    <2>2. CASE j.kind = "modules"
        <3>1. h1'.lang = h1.lang /\ Prefer!Of({"language"})' = {}
            BY <1>4, <1>5, <1>9, <2>2
        <3>2. Prefer!Of({"language"}) = {}
            BY <1>5, <2>2, <3>1
        <3> QED
            BY <1>1, <1>5, <3>1, <3>2 DEF PreferInv, PreferLanguage
    <2>3. CASE j.kind = "language"
        <3>1. j \in Prefer!Of({"language"}) /\ d \in Prefer!Of({"language"})'
            BY <1>5, <2>3 DEF Prefer!Of
        <3>2. /\ j.user = h2 /\ h7 = j.sent.lang
              /\ h2.lang # 0 => j.was = h2.lang
              /\ h1.lang # 0 => j.was = h1.lang
            BY <1>1, <3>1 DEF PreferInv, PreferLanguage
        <3>3. /\ d.user = h2 /\ h7 = d.sent.lang
              /\ h2.lang # 0 => d.was = h2.lang
              /\ IF d.done /\ d.ok THEN h1'.lang = d.sent.lang ELSE h1'.lang # 0 => d.was = h1'.lang
            BY <1>2, <1>4, <2>3, <3>2
        <3> QED
            BY <1>1, <1>9, <3>1, <3>3 DEF PreferLanguage
    <2> QED
        BY <1>1, <2>1, <2>2, <2>3
<1> QED
    BY <1>7, <1>10, <1>11, <1>12, <1>13 DEF PreferInv

\* The page's copy of the setting is read, or follows what was saved.
LEMMA PreferCopies ==
    ASSUME PreferInv, NEW s \in Prefer!Settings, Prefer!Known(s)
    PROVE  /\ h2' = s /\ h3' \in [type : Prefer!Kinds, url : 0 .. 1, accept : BOOLEAN]
           /\ h7' \in Prefer!Languages
           /\ h10' \in PreferView /\ h10'.calm = h10.calm /\ h10'.kept = h10.kept
           /\ h10'.whole = h10.whole /\ ("sidebar" \in h10'.edited <=> "sidebar" \in h10.edited)
           /\ "form" \notin h10'.edited => h3' = Prefer!FormOf(h2)'
           /\ IF s = h2 THEN h7' = h7 ELSE h7' = IF s.lang = 0 THEN h7 ELSE s.lang
<1>1. h2' = s /\ Prefer!FormOf(h2)' = Prefer!FormOf(s)
    BY DEF Prefer!Known, Prefer!FormOf
<1>2. CASE s # h2
    <2>1. /\ h3' = Prefer!FormOf(s) /\ h10' = [h10 EXCEPT !.edited = @ \ {"form"}]
          /\ h7' = IF s.lang = 0 THEN h7 ELSE s.lang
        BY <1>2 DEF Prefer!Known
    <2>2. Prefer!FormOf(s) \in [type : Prefer!Kinds, url : 0 .. 1, accept : BOOLEAN]
        BY DEF Prefer!FormOf, Prefer!Settings
    <2>3. h7' \in Prefer!Languages
        BY <2>1 DEF Prefer!Settings, PreferInv, PreferTypes
    <2>4. /\ h10' \in PreferView /\ h10'.calm = h10.calm /\ h10'.kept = h10.kept
          /\ h10'.whole = h10.whole /\ h10'.edited = h10.edited \ {"form"}
        <3>1. h10 \in PreferView
            BY DEF PreferInv, PreferTypes
        <3> QED
            BY <2>1, <3>1 DEF PreferView
    <2> QED
        BY <1>1, <1>2, <2>1, <2>2, <2>3, <2>4
<1>3. CASE s = h2
    <2>1. UNCHANGED <<h3, h7, h10>>
        BY <1>3 DEF Prefer!Known
    <2> QED
        BY <1>1, <1>3, <2>1 DEF PreferInv, PreferTypes, PreferForm
<1> QED
    BY <1>2, <1>3

\* A request is answered, and perhaps makes another.
LEMMA PreferAnswers ==
    ASSUME PreferInv, NEW j \in h9, NEW more, h9' = (h9 \ {j}) \union more,
           \/ more = {}
           \/ \E kind \in Prefer!Readings : more = {Prefer!Request(kind)}
    PROVE  /\ h9' \subseteq PreferJob
           /\ Prefer!Of({"modules"})' \subseteq Prefer!Of({"modules"}) \ {j}
           /\ Prefer!Of({"language"})' \subseteq Prefer!Of({"language"}) \ {j}
           /\ Prefer!Of({"save"})' \subseteq Prefer!Of({"save"}) \ {j}
           /\ Prefer!Of({"save", "language"})' \subseteq Prefer!Of({"save", "language"}) \ {j}
           /\ Prefer!Of(Prefer!Changes)' \subseteq Prefer!Of(Prefer!Changes) \ {j}
           /\ \A i \in more : i.kind \in Prefer!Readings
<1>1. \A kind \in Prefer!Readings : Prefer!Request(kind) \in PreferJob /\ Prefer!Request(kind).kind = kind
    BY PreferRequests
<1>2. \A i \in more : i \in PreferJob /\ i.kind \in Prefer!Readings
    BY <1>1
<1> QED
    BY <1>2, PreferNames DEF PreferInv, PreferTypes, Prefer!Of

LEMMA PreferAnswerTypes ==
    ASSUME PreferInv, NEW j \in h9, NEW more, h9' = (h9 \ {j}) \union more,
           \/ more = {}
           \/ \E kind \in Prefer!Readings : more = {Prefer!Request(kind)},
           h1' = h1, h2' \in Prefer!Settings,
           h3' \in [type : Prefer!Kinds, url : 0 .. 1, accept : BOOLEAN],
           h4' \subseteq Prefer!Parts, h7' \in Prefer!Languages, h10' \in PreferView
    PROVE  PreferTypes'
<1>1. /\ h9' \subseteq PreferJob
      /\ Prefer!Of({"modules"})' \subseteq Prefer!Of({"modules"})
      /\ Prefer!Of({"language"})' \subseteq Prefer!Of({"language"})
    BY PreferAnswers
<1> QED
    BY <1>1 DEF PreferInv, PreferTypes

LEMMA PreferUser ==
    ASSUME PreferInv, NEW j \in h9, Prefer!getUserData(j)
    PROVE  PreferInv'
<1>1. /\ j.kind = "user" /\ Prefer!Known(h1) /\ h9' = (h9 \ {j}) \union {}
      /\ UNCHANGED <<h1, h4, h5, h6, h8>>
    BY DEF Prefer!getUserData
<1>2. h1 \in Prefer!Settings /\ h4 \subseteq Prefer!Parts
    BY DEF PreferInv, PreferTypes
<1>3. /\ h2' = h1 /\ h3' \in [type : Prefer!Kinds, url : 0 .. 1, accept : BOOLEAN]
      /\ h7' \in Prefer!Languages
      /\ h10' \in PreferView /\ h10'.calm = h10.calm /\ h10'.kept = h10.kept
      /\ h10'.whole = h10.whole /\ ("sidebar" \in h10'.edited <=> "sidebar" \in h10.edited)
      /\ "form" \notin h10'.edited => h3' = Prefer!FormOf(h2)'
      /\ IF h1 = h2 THEN h7' = h7 ELSE h7' = IF h1.lang = 0 THEN h7 ELSE h1.lang
    BY <1>1, <1>2, PreferCopies
<1>4. PreferTypes'
    BY <1>1, <1>2, <1>3, PreferAnswerTypes
<1>5. /\ Prefer!Of({"modules"})' = Prefer!Of({"modules"})
      /\ Prefer!Of({"language"})' = Prefer!Of({"language"})
      /\ Prefer!Of({"save"})' = Prefer!Of({"save"})
      /\ Prefer!Of({"save", "language"})' = Prefer!Of({"save", "language"})
      /\ Prefer!Of(Prefer!Changes)' = Prefer!Of(Prefer!Changes)
      /\ Prefer!Of({"user"})' \subseteq Prefer!Of({"user"})
      /\ Prefer!Of({"sidebar"})' = Prefer!Of({"sidebar"})
      /\ Prefer!Of({"sidebar", "bar", "refresh"})' = Prefer!Of({"sidebar", "bar", "refresh"})
    BY <1>1, PreferNames DEF Prefer!Of
\* In a calm history no change of the setting runs while it is read.
<1>6. h10.calm /\ h10.kept => Prefer!Of({"save", "language"}) = {} /\ Prefer!Of({"language"}) = {}
    BY <1>1 DEF PreferInv, PreferOrder, Prefer!Of
<1>7. PreferOrder'
    BY <1>3, <1>5 DEF PreferInv, PreferOrder
<1>8. PreferForm'
    <2>1. Prefer!FormOf(h2)' = Prefer!FormOf(h1)'
        BY <1>1, <1>3 DEF Prefer!FormOf
    <2> QED
        BY <1>3, <1>5, <1>6, <2>1 DEF PreferForm
<1>9. PreferSidebar'
    BY <1>1, <1>3, <1>5 DEF PreferInv, PreferSidebar
<1>10. PreferLanguage'
    BY <1>1, <1>3, <1>5, <1>6 DEF PreferInv, PreferLanguage
<1> QED
    BY <1>4, <1>7, <1>8, <1>9, <1>10 DEF PreferInv

LEMMA PreferSwitchesRead ==
    ASSUME PreferInv, NEW j \in h9, Prefer!loadSidebarConfigs(j)
    PROVE  PreferInv'
<1>1. /\ j.kind = "sidebar" /\ h9' = (h9 \ {j}) \union {}
      /\ IF h1.off = Prefer!Unset THEN h4' = h4 /\ h10' = h10
         ELSE h4' = h1.off /\ h10' = [h10 EXCEPT !.edited = @ \ {"sidebar"}]
      /\ UNCHANGED <<h1, h2, h3, h5, h6, h7, h8>>
    BY DEF Prefer!loadSidebarConfigs
<1>2. /\ h1 \in Prefer!Settings /\ h2 \in Prefer!Settings /\ h4 \subseteq Prefer!Parts
      /\ h3 \in [type : Prefer!Kinds, url : 0 .. 1, accept : BOOLEAN] /\ h7 \in Prefer!Languages
      /\ h10 \in PreferView
    BY DEF PreferInv, PreferTypes
<1>3. h1.off # Prefer!Unset => h1.off \subseteq Prefer!Parts
    BY <1>2 DEF Prefer!Settings
<1>4. /\ h10' \in PreferView /\ h10'.calm = h10.calm /\ h10'.kept = h10.kept
      /\ h10'.whole = h10.whole /\ ("form" \in h10'.edited <=> "form" \in h10.edited)
    <2>1. [h10 EXCEPT !.edited = @ \ {"sidebar"}] \in PreferView
        BY <1>2 DEF PreferView
    <2> QED
        BY <1>1, <1>2, <2>1 DEF PreferView
<1>5. PreferTypes'
    <2>1. h4' \subseteq Prefer!Parts
        BY <1>1, <1>2, <1>3
    <2>2. h1' = h1 /\ h2' = h2 /\ h3' = h3 /\ h7' = h7
        BY <1>1
    <2> QED
        BY <1>1, <1>2, <1>4, <2>1, <2>2, PreferAnswerTypes
<1>6. /\ Prefer!Of({"modules"})' = Prefer!Of({"modules"})
      /\ Prefer!Of({"language"})' = Prefer!Of({"language"})
      /\ Prefer!Of({"save"})' = Prefer!Of({"save"})
      /\ Prefer!Of({"save", "language"})' = Prefer!Of({"save", "language"})
      /\ Prefer!Of(Prefer!Changes)' = Prefer!Of(Prefer!Changes)
      /\ Prefer!Of({"user"})' = Prefer!Of({"user"})
      /\ Prefer!Of({"sidebar", "bar", "refresh"})' \subseteq Prefer!Of({"sidebar", "bar", "refresh"})
      /\ \A i \in h9 : i.kind # "sidebar" => i \in h9'
    BY <1>1, PreferNames DEF Prefer!Of
<1>7. h10.calm /\ h10.kept => Prefer!Of({"modules"}) = {}
    BY <1>1 DEF PreferInv, PreferOrder, Prefer!Of
<1>8. PreferOrder'
    BY <1>4, <1>6 DEF PreferInv, PreferOrder
<1>9. PreferForm'
    BY <1>1, <1>4, <1>6 DEF PreferInv, PreferForm, Prefer!FormOf
<1>10. PreferSidebar'
    <2> SUFFICES ASSUME h10.calm, h10.kept, h10.whole PROVE PreferSidebar'
        BY <1>4 DEF PreferSidebar
    <2>1. "sidebar" \notin h10'.edited => h4' = h1.off \ Prefer!Unset
        <3>1. CASE h1.off = Prefer!Unset
            BY <1>1, <3>1 DEF PreferInv, PreferSidebar
        <3>2. CASE h1.off # Prefer!Unset
            BY <1>1, <1>3, <3>2, PreferNames
        <3> QED
            BY <3>1, <3>2
    <2>2. h5' # h1'.off \ Prefer!Unset =>
             \E i \in h9' : i.kind \in {"bar", "refresh"} \/ (i.kind = "modules" /\ i.done /\ i.ok)
        BY <1>1, <1>6 DEF PreferInv, PreferSidebar
    <2> QED
        BY <1>1, <1>6, <1>7, <2>1, <2>2 DEF PreferSidebar
<1>11. PreferLanguage'
    BY <1>1, <1>4, <1>6 DEF PreferInv, PreferLanguage
<1> QED
    BY <1>5, <1>8, <1>9, <1>10, <1>11 DEF PreferInv

LEMMA PreferBarRead ==
    ASSUME PreferInv, NEW j \in h9, Prefer!loadUserConfig(j)
    PROVE  PreferInv'
<1>1. /\ j.kind = "bar" /\ h9' = (h9 \ {j}) \union {} /\ h5' = h1.off \ Prefer!Unset
      /\ UNCHANGED <<h1, h2, h3, h4, h6, h7, h8, h10>>
    BY DEF Prefer!loadUserConfig
<1>2. PreferTypes'
    BY <1>1, PreferAnswerTypes DEF PreferInv, PreferTypes
<1>3. /\ Prefer!Of({"modules"})' = Prefer!Of({"modules"})
      /\ Prefer!Of({"language"})' = Prefer!Of({"language"})
      /\ Prefer!Of({"save"})' = Prefer!Of({"save"})
      /\ Prefer!Of({"save", "language"})' = Prefer!Of({"save", "language"})
      /\ Prefer!Of(Prefer!Changes)' = Prefer!Of(Prefer!Changes)
      /\ Prefer!Of({"user"})' = Prefer!Of({"user"})
      /\ Prefer!Of({"sidebar"})' = Prefer!Of({"sidebar"})
      /\ Prefer!Of({"sidebar", "bar", "refresh"})' \subseteq Prefer!Of({"sidebar", "bar", "refresh"})
      /\ \A i \in h9 : i.kind # "bar" => i \in h9'
    BY <1>1, PreferNames DEF Prefer!Of
<1>4. PreferOrder' /\ PreferForm' /\ PreferSidebar' /\ PreferLanguage'
    BY <1>1, <1>3 DEF PreferInv, PreferOrder, PreferForm, PreferSidebar, PreferLanguage, Prefer!FormOf
<1> QED
    BY <1>2, <1>4 DEF PreferInv

LEMMA PreferRefreshed ==
    ASSUME PreferInv, NEW j \in h9, Prefer!refreshUserConfig(j)
    PROVE  PreferInv'
<1> DEFINE new == Prefer!Request("bar")
<1>1. /\ j.kind = "refresh" /\ h9' = (h9 \ {j}) \union {new}
      /\ UNCHANGED <<h1, h2, h3, h4, h5, h6, h7, h10>>
    BY DEF Prefer!refreshUserConfig
<1>2. PreferTypes'
    BY <1>1, PreferNames, PreferAnswerTypes DEF PreferInv, PreferTypes
<1>3. new.kind = "bar"
    BY PreferRequests, PreferNames
<1> HIDE DEF new
<1>4. /\ Prefer!Of({"modules"})' = Prefer!Of({"modules"})
      /\ Prefer!Of({"language"})' = Prefer!Of({"language"})
      /\ Prefer!Of({"save"})' = Prefer!Of({"save"})
      /\ Prefer!Of({"save", "language"})' = Prefer!Of({"save", "language"})
      /\ Prefer!Of(Prefer!Changes)' = Prefer!Of(Prefer!Changes)
      /\ Prefer!Of({"user"})' = Prefer!Of({"user"})
      /\ Prefer!Of({"sidebar"})' = Prefer!Of({"sidebar"})
      /\ Prefer!Of({"sidebar", "bar", "refresh"}) # {}
      /\ new \in h9' /\ \A i \in h9 : i.kind # "refresh" => i \in h9'
    BY <1>1, <1>3, PreferNames DEF Prefer!Of
<1>5. PreferOrder'
    BY <1>1, <1>4 DEF PreferInv, PreferOrder
<1>6. PreferForm' /\ PreferSidebar' /\ PreferLanguage'
    BY <1>1, <1>3, <1>4 DEF PreferInv, PreferForm, PreferSidebar, PreferLanguage, Prefer!FormOf
<1> QED
    BY <1>2, <1>5, <1>6 DEF PreferInv

LEMMA PreferSaved ==
    ASSUME PreferInv, NEW j \in h9, Prefer!Saved(j)
    PROVE  PreferInv'
<1> DEFINE new == Prefer!Request("user")
<1>1. /\ j.kind = "save" /\ h9' = (h9 \ {j}) \union {new}
      /\ UNCHANGED <<h1, h2, h3, h4, h5, h6, h7, h8>>
    BY DEF Prefer!Saved
<1>2. h10' = [h10 EXCEPT !.calm = @ /\ Prefer!Of({"language"}) = {}]
    BY Zenon DEF Prefer!Saved
<1>3. /\ h10' \in PreferView /\ h10'.kept = h10.kept /\ h10'.whole = h10.whole
      /\ h10'.edited = h10.edited
      /\ h10'.calm => h10.calm /\ Prefer!Of({"language"}) = {}
    <2>1. h10 \in PreferView
        BY DEF PreferInv, PreferTypes
    <2> QED
        BY <1>2, <2>1 DEF PreferView
<1>4. PreferTypes'
    BY <1>1, <1>3, PreferNames, PreferAnswerTypes DEF PreferInv, PreferTypes
<1>5. new.kind = "user"
    BY PreferRequests, PreferNames
<1> HIDE DEF new
<1>6. /\ Prefer!Of({"modules"})' = Prefer!Of({"modules"})
      /\ Prefer!Of({"language"})' = Prefer!Of({"language"})
      /\ Prefer!Of(Prefer!Changes)' = Prefer!Of(Prefer!Changes) \ {j}
      /\ Prefer!Of({"save"})' = Prefer!Of({"save"}) \ {j}
      /\ Prefer!Of({"save", "language"}) = Prefer!Of({"save"}) \union Prefer!Of({"language"})
      /\ Prefer!Of({"save", "language"})' = Prefer!Of({"save", "language"}) \ {j}
      /\ Prefer!Of({"sidebar", "bar", "refresh"})' = Prefer!Of({"sidebar", "bar", "refresh"})
      /\ j \in Prefer!Of({"save"}) /\ j \in Prefer!Of(Prefer!Changes) /\ new \in h9'
      /\ Prefer!Of({"save", "language"}) \subseteq Prefer!Of(Prefer!Changes)
    BY <1>1, <1>5, PreferNames DEF Prefer!Of
<1>7. PreferOrder'
    BY <1>3, <1>6 DEF PreferInv, PreferOrder
<1>8. PreferForm'
    BY <1>1, <1>3, <1>5, <1>6 DEF PreferInv, PreferForm, Prefer!FormOf
<1>9. ~h10'.whole
    BY <1>3, <1>6 DEF PreferInv, PreferOrder
<1>10. PreferSidebar' /\ PreferLanguage'
    BY <1>9 DEF PreferSidebar, PreferLanguage
<1> QED
    BY <1>4, <1>7, <1>8, <1>10 DEF PreferInv

LEMMA PreferModulesSaved ==
    ASSUME PreferInv, NEW j \in h9, Prefer!ModulesSaved(j)
    PROVE  PreferInv'
<1> DEFINE new == Prefer!Request("refresh")
<1>1. /\ j.kind = "modules" /\ j.done /\ j.ok /\ h9' = (h9 \ {j}) \union {new}
      /\ UNCHANGED <<h1, h2, h3, h4, h5, h6, h7, h8>>
    BY DEF Prefer!ModulesSaved
<1>2. h10' = [h10 EXCEPT !.edited = IF h4 = j.sent.off THEN @ \ {"sidebar"} ELSE @]
    BY Zenon DEF Prefer!ModulesSaved
<1>3. /\ h10' \in PreferView /\ h10'.calm = h10.calm /\ h10'.kept = h10.kept
      /\ h10'.whole = h10.whole /\ ("form" \in h10'.edited <=> "form" \in h10.edited)
      /\ h4 # j.sent.off => h10'.edited = h10.edited
    <2>1. h10 \in PreferView
        BY DEF PreferInv, PreferTypes
    <2>2. CASE h4 = j.sent.off
        <3>1. h10' = [h10 EXCEPT !.edited = @ \ {"sidebar"}]
            BY <1>2, <2>2
        <3> QED
            BY <2>1, <2>2, <3>1 DEF PreferView
    <2>3. CASE h4 # j.sent.off
        <3>1. h10' = [h10 EXCEPT !.edited = @]
            BY <1>2, <2>3
        <3> QED
            BY <2>1, <3>1 DEF PreferView
    <2> QED
        BY <2>2, <2>3
<1>4. PreferTypes'
    BY <1>1, <1>3, PreferNames, PreferAnswerTypes DEF PreferInv, PreferTypes
<1>5. new.kind = "refresh"
    BY PreferRequests, PreferNames
<1> HIDE DEF new
<1>6. /\ Prefer!Of({"modules"})' = Prefer!Of({"modules"}) \ {j}
      /\ Prefer!Of({"language"})' = Prefer!Of({"language"})
      /\ Prefer!Of(Prefer!Changes)' = Prefer!Of(Prefer!Changes) \ {j}
      /\ Prefer!Of({"save"})' = Prefer!Of({"save"})
      /\ Prefer!Of({"save", "language"})' = Prefer!Of({"save", "language"})
      /\ Prefer!Of({"user"})' = Prefer!Of({"user"})
      /\ j \in Prefer!Of({"modules"}) /\ j \in Prefer!Of(Prefer!Changes) /\ new \in h9'
      /\ Prefer!Of({"modules"}) \subseteq Prefer!Of(Prefer!Changes)
      /\ \A i \in h9 : i.kind # "modules" => i \in h9'
    BY <1>1, <1>5, PreferNames DEF Prefer!Of
<1>7. h10.calm /\ h10.kept => Prefer!Of({"modules"})' = {}
    BY <1>6 DEF PreferInv, PreferOrder
<1>8. PreferOrder'
    BY <1>3, <1>6, <1>7 DEF PreferInv, PreferOrder
<1>9. PreferForm'
    BY <1>1, <1>3, <1>6 DEF PreferInv, PreferForm, Prefer!FormOf
<1>10. PreferSidebar'
    <2> SUFFICES ASSUME h10.calm, h10.kept, h10.whole PROVE PreferSidebar'
        BY <1>3 DEF PreferSidebar
    <2>1. /\ h1.off = j.sent.off
          /\ "sidebar" \notin h10.edited => h4 = j.sent.off
        BY <1>1, <1>6 DEF PreferInv, PreferSidebar
    <2>2. h4 = j.sent.off => h4 = h1.off \ Prefer!Unset
        BY <2>1, PreferNames DEF PreferInv, PreferTypes
    <2>3. "sidebar" \notin h10'.edited => h4 = h1.off \ Prefer!Unset
        BY <1>3, <2>1, <2>2
    <2> QED
        BY <1>1, <1>5, <1>6, <1>7, <2>3 DEF PreferSidebar
<1>11. PreferLanguage'
    BY <1>1, <1>3, <1>6 DEF PreferInv, PreferLanguage
<1> QED
    BY <1>4, <1>8, <1>9, <1>10, <1>11 DEF PreferInv

\* The copy of the click, with the language put in.
PreferCopy(j) == [j.user EXCEPT !.lang = j.sent.lang]

LEMMA PreferLangSaved ==
    ASSUME PreferInv, NEW j \in h9, Prefer!LanguageSaved(j)
    PROVE  PreferInv'
<1>1. /\ j.kind = "language" /\ j.done /\ j.ok /\ Prefer!Known(PreferCopy(j))
      /\ h9' = (h9 \ {j}) \union {} /\ UNCHANGED <<h1, h4, h5, h6, h8>>
    BY DEF Prefer!LanguageSaved, PreferCopy
<1>2. j \in Prefer!Of({"language"}) /\ j \in Prefer!Of(Prefer!Changes)
    BY <1>1, PreferNames DEF Prefer!Of
<1>3. /\ j.user \in Prefer!Settings /\ j.sent.lang \in Prefer!Languages
      /\ h1 \in Prefer!Settings /\ h4 \subseteq Prefer!Parts
    BY <1>2 DEF PreferInv, PreferTypes, PreferJob
<1>4. /\ PreferCopy(j) \in Prefer!Settings /\ PreferCopy(j).lang = j.sent.lang
      /\ Prefer!FormOf(PreferCopy(j)) = Prefer!FormOf(j.user)
    BY <1>3 DEF PreferCopy, Prefer!Settings, Prefer!FormOf
<1>5. /\ h2' = PreferCopy(j) /\ h3' \in [type : Prefer!Kinds, url : 0 .. 1, accept : BOOLEAN]
      /\ h7' \in Prefer!Languages
      /\ h10' \in PreferView /\ h10'.calm = h10.calm /\ h10'.kept = h10.kept
      /\ h10'.whole = h10.whole /\ ("sidebar" \in h10'.edited <=> "sidebar" \in h10.edited)
      /\ "form" \notin h10'.edited => h3' = Prefer!FormOf(h2)'
      /\ IF PreferCopy(j) = h2 THEN h7' = h7
         ELSE h7' = IF PreferCopy(j).lang = 0 THEN h7 ELSE PreferCopy(j).lang
    BY <1>1, <1>4, PreferCopies
<1>6. PreferTypes'
    BY <1>1, <1>3, <1>4, <1>5, PreferAnswerTypes
<1>7. /\ Prefer!Of({"modules"})' = Prefer!Of({"modules"})
      /\ Prefer!Of({"language"})' = Prefer!Of({"language"}) \ {j}
      /\ Prefer!Of({"language"}) \subseteq Prefer!Of(Prefer!Changes)
      /\ Prefer!Of({"save"})' = Prefer!Of({"save"})
      /\ Prefer!Of({"save", "language"})' \subseteq Prefer!Of({"save", "language"})
      /\ Prefer!Of(Prefer!Changes)' \subseteq Prefer!Of(Prefer!Changes)
      /\ Prefer!Of({"user"})' = Prefer!Of({"user"})
      /\ Prefer!Of({"sidebar"})' = Prefer!Of({"sidebar"})
      /\ Prefer!Of({"sidebar", "bar", "refresh"})' = Prefer!Of({"sidebar", "bar", "refresh"})
      /\ \A i \in h9 : i.kind # "language" => i \in h9'
    BY <1>1, PreferNames DEF Prefer!Of
<1>8. h10.calm /\ h10.kept => Prefer!Of({"language"})' = {}
    BY <1>2, <1>7 DEF PreferInv, PreferOrder
<1>9. PreferOrder'
    BY <1>5, <1>7 DEF PreferInv, PreferOrder
<1>10. PreferForm'
    <2>1. h10.calm /\ h10.kept => Prefer!FormOf(h2)' = Prefer!FormOf(h1)'
        <3>1. Prefer!FormOf(h2)' = Prefer!FormOf(PreferCopy(j)) /\ Prefer!FormOf(h1)' = Prefer!FormOf(h1)
            BY <1>1, <1>5 DEF Prefer!FormOf
        <3> QED
            BY <1>2, <1>4, <3>1 DEF PreferInv, PreferForm
    <2> QED
        BY <1>5, <1>8, <2>1 DEF PreferForm
<1>11. PreferSidebar'
    BY <1>1, <1>5, <1>7 DEF PreferInv, PreferSidebar
<1>12. PreferLanguage'
    <2> SUFFICES ASSUME h10.calm, h10.kept, h10.whole PROVE PreferLanguage'
        BY <1>5 DEF PreferLanguage
    <2>1. h7 = j.sent.lang /\ h1.lang = j.sent.lang /\ j.sent.lang # 0
        BY <1>1, <1>2, <1>3, PreferNames DEF PreferInv, PreferLanguage
    <2>2. h7' = j.sent.lang
        BY <1>4, <1>5, <2>1
    <2> QED
        BY <1>1, <1>4, <1>5, <1>8, <2>1, <2>2 DEF PreferLanguage
<1> QED
    BY <1>6, <1>9, <1>10, <1>11, <1>12 DEF PreferInv

LEMMA PreferRefused ==
    ASSUME PreferInv, NEW j \in h9, Prefer!Refused(j)
    PROVE  PreferInv'
<1>1. /\ j.kind \in Prefer!Changes /\ j.done /\ ~j.ok /\ h9' = (h9 \ {j}) \union {}
      /\ h7' = IF j.kind = "language" THEN j.was ELSE h7
      /\ UNCHANGED <<h1, h2, h3, h4, h5, h6, h10>>
    BY DEF Prefer!Refused, Prefer!Back
<1>2. j \in Prefer!Of(Prefer!Changes) /\ (j.kind = "language" => j \in Prefer!Of({"language"}))
    BY <1>1 DEF Prefer!Of
<1>3. h7' \in Prefer!Languages
    BY <1>1, <1>2 DEF PreferInv, PreferTypes
<1>4. PreferTypes'
    BY <1>1, <1>3, PreferAnswerTypes DEF PreferInv, PreferTypes
<1>5. /\ Prefer!Of({"modules"})' \subseteq Prefer!Of({"modules"})
      /\ Prefer!Of({"language"})' = Prefer!Of({"language"}) \ {j}
      /\ Prefer!Of({"language"}) \subseteq Prefer!Of(Prefer!Changes)
      /\ Prefer!Of({"save"})' \subseteq Prefer!Of({"save"})
      /\ Prefer!Of({"save", "language"})' \subseteq Prefer!Of({"save", "language"})
      /\ Prefer!Of(Prefer!Changes)' \subseteq Prefer!Of(Prefer!Changes)
      /\ Prefer!Of({"user"})' = Prefer!Of({"user"})
      /\ Prefer!Of({"sidebar"})' = Prefer!Of({"sidebar"})
      /\ Prefer!Of({"sidebar", "bar", "refresh"})' = Prefer!Of({"sidebar", "bar", "refresh"})
      /\ \A i \in h9 : (i.kind \in Prefer!Readings \/ i.ok) => i \in h9'
    BY <1>1, PreferNames DEF Prefer!Of
<1>6. PreferOrder'
    BY <1>1, <1>5 DEF PreferInv, PreferOrder
<1>7. PreferForm'
    BY <1>1, <1>5, PreferNames DEF PreferInv, PreferForm, Prefer!FormOf
<1>8. PreferSidebar'
    BY <1>1, <1>5, PreferNames DEF PreferInv, PreferSidebar
<1>9. PreferLanguage'
    <2> SUFFICES ASSUME h10.calm, h10.kept, h10.whole PROVE PreferLanguage'
        BY <1>1 DEF PreferLanguage
    <2>1. CASE j.kind = "language"
        <3>1. /\ h2.lang # 0 => h7' = h2.lang
              /\ h1.lang # 0 => h7' = h1.lang
            BY <1>1, <1>2, <2>1 DEF PreferInv, PreferLanguage
        <3>2. Prefer!Of({"language"})' = {}
            BY <1>2, <1>5 DEF PreferInv, PreferOrder
        <3> QED
            BY <1>1, <3>1, <3>2 DEF PreferLanguage
    <2>2. CASE j.kind # "language"
        <3>1. Prefer!Of({"language"})' = Prefer!Of({"language"})
            BY <1>5, <2>2 DEF Prefer!Of
        <3> QED
            BY <1>1, <1>5, <2>2, <3>1 DEF PreferInv, PreferLanguage
    <2> QED
        BY <2>1, <2>2
<1> QED
    BY <1>4, <1>6, <1>7, <1>8, <1>9 DEF PreferInv

\* An answer that is lost ends the calm: what stays is what every history keeps.
LEMMA PreferLost ==
    ASSUME PreferInv, NEW j \in h9, Prefer!Lost(j)
    PROVE  PreferInv'
<1> DEFINE back == [j EXCEPT !.kind = IF @ = "refresh" THEN "modules" ELSE @]
           more == IF j.kind = "refresh" THEN {Prefer!Request("bar")} ELSE {}
<1>1. /\ h9' = (h9 \ {j}) \union more
      /\ h7' = IF back.kind = "language" THEN back.was ELSE h7
      /\ UNCHANGED <<h1, h2, h3, h4, h6>>
    BY Zenon DEF Prefer!Lost, Prefer!Back
<1>2. back.was = j.was /\ back.kind = IF j.kind = "refresh" THEN "modules" ELSE j.kind
    BY DEF PreferInv, PreferTypes, PreferJob
<1> HIDE DEF back
<1>3. h10' = [h10 EXCEPT !.kept = FALSE]
    BY Zenon DEF Prefer!Lost
<1>4. /\ h10' \in PreferView /\ ~h10'.kept /\ h10'.whole = h10.whole /\ h10'.edited = h10.edited
    <2>1. h10 \in PreferView
        BY DEF PreferInv, PreferTypes
    <2> QED
        BY <1>3, <2>1 DEF PreferView
<1>5. h7' \in Prefer!Languages
    <2>1. j.kind = "language" => j \in Prefer!Of({"language"})
        BY DEF Prefer!Of
    <2> QED
        BY <1>1, <1>2, <2>1 DEF PreferInv, PreferTypes
<1>6. more = {} \/ \E kind \in Prefer!Readings : more = {Prefer!Request(kind)}
    BY PreferNames
<1> HIDE DEF more
<1>7. PreferTypes'
    BY <1>1, <1>4, <1>5, <1>6, PreferAnswerTypes DEF PreferInv, PreferTypes
<1>8. Prefer!Of({"save"})' \subseteq Prefer!Of({"save"})
    BY <1>1, <1>6, PreferAnswers
<1>9. PreferOrder' /\ PreferForm' /\ PreferSidebar' /\ PreferLanguage'
    BY <1>1, <1>4, <1>8 DEF PreferInv, PreferOrder, PreferForm, PreferSidebar, PreferLanguage,
                            Prefer!FormOf
<1> QED
    BY <1>7, <1>9 DEF PreferInv

LEMMA PreferSteps == PreferInv /\ (Prefer!Next \/ UNCHANGED Prefer!vars) => PreferInv'
<1> SUFFICES ASSUME PreferInv, Prefer!Next \/ UNCHANGED Prefer!vars PROVE PreferInv'
    OBVIOUS
<1>1. CASE UNCHANGED Prefer!vars
    BY <1>1 DEF Prefer!vars, PreferInv, PreferTypes, PreferOrder, PreferForm, PreferSidebar,
                PreferLanguage, Prefer!Of
<1>2. CASE \/ \E kind \in Prefer!Kinds : Prefer!ChooseKind(kind)
           \/ \E d \in 0 .. 1 : Prefer!TypeDetail(d)
           \/ Prefer!SwitchAccept
    BY <1>2, PreferEdits
<1>3. CASE Prefer!handleSectionChange \/ Prefer!handleModuleChange \/ Prefer!resetSidebarModules
    BY <1>3, PreferSwitched
<1>4. CASE Prefer!saveNotificationSettings
    BY <1>4, PreferSaveAsked
<1>5. CASE Prefer!saveSidebarSettings
    BY <1>5, PreferModulesAsked
<1>6. ASSUME NEW lang \in Prefer!Languages, Prefer!handleLanguagePreferenceChange(lang)
      PROVE  PreferInv'
    BY <1>6, PreferLangAsked
<1>7. ASSUME NEW j \in h9,
             \/ \E ok \in BOOLEAN : Prefer!Served(j, ok)
             \/ Prefer!getUserData(j) \/ Prefer!loadSidebarConfigs(j) \/ Prefer!loadUserConfig(j)
             \/ Prefer!refreshUserConfig(j) \/ Prefer!Saved(j) \/ Prefer!ModulesSaved(j)
             \/ Prefer!LanguageSaved(j) \/ Prefer!Refused(j) \/ Prefer!Lost(j)
      PROVE  PreferInv'
    BY <1>7, PreferServe, PreferUser, PreferSwitchesRead, PreferBarRead, PreferRefreshed,
       PreferSaved, PreferModulesSaved, PreferLangSaved, PreferRefused, PreferLost
<1> QED
    BY <1>1, <1>2, <1>3, <1>4, <1>5, <1>6, <1>7 DEF Prefer!Next

LEMMA PreferKnown == PreferInv => Prefer!FormIsSaved /\ Prefer!RestIsSaved
<1> SUFFICES ASSUME PreferInv, Prefer!AtRest
             PROVE  /\ "form" \notin h10.edited => h3 = Prefer!FormOf(h1)
                    /\ Prefer!RestIsSaved
    BY DEF Prefer!FormIsSaved, Prefer!RestIsSaved
<1>1. h9 = {} /\ h10.calm /\ h10.kept
    BY DEF Prefer!AtRest
<1>2. "form" \notin h10.edited => h3 = Prefer!FormOf(h1)
    BY <1>1 DEF PreferInv, PreferForm
<1>3. Prefer!Of({"language"}) = {} /\ Prefer!Of({"sidebar"}) = {} /\ Prefer!Of({"user"}) = {}
    BY <1>1 DEF Prefer!Of
<1>4. h10.whole =>
          /\ "sidebar" \notin h10.edited => h4 = h1.off \ Prefer!Unset
          /\ h5 = h1.off \ Prefer!Unset
          /\ h1.lang # 0 => h7 = h1.lang
    BY <1>1, <1>3 DEF PreferInv, PreferSidebar, PreferLanguage
<1>5. /\ "section" \notin Prefer!Unset /\ "module" \notin Prefer!Unset
      /\ Prefer!Parts \intersect Prefer!Unset = {}
    BY DEF Prefer!Unset, Prefer!Parts
<1>6. Prefer!RestIsSaved
    BY <1>4, <1>5 DEF Prefer!RestIsSaved, Prefer!SectionOn, Prefer!ModuleOn, Prefer!ModuleVisible
<1> QED
    BY <1>2, <1>6

-----------------------------------------------------------------------------
(* The tests of a channel's models (ModelTests): while no batch was begun   *)
(* over another there is at most one, and it is the one that is shown.      *)

Tests == INSTANCE ModelTests
    WITH channel <- h1, visible <- h2, testing <- h3, batching <- h4, stop <- h5, results <- h6,
         loops <- h7, tests <- h8, view <- h9, count <- h10

TestsView == [again : BOOLEAN, over : BOOLEAN]
TestsLoop == [by : Nat, channel : Tests!Channels, todo : SUBSET Tests!Models, ended : BOOLEAN]
TestsTypes ==
    /\ h2 \in BOOLEAN /\ h4 \in BOOLEAN /\ h5 \in BOOLEAN
    /\ h1 \in Tests!Channels /\ h7 \subseteq TestsLoop /\ h9 \in TestsView /\ h10 \in Nat

\* A model of a batch is still to be tested, is being tested, or was.
TestsTried(l, m) ==
    \/ m \in l.todo
    \/ <<l.channel, m>> \in h6
    \/ \E t \in h8 : t.by = l.by /\ t.channel = l.channel /\ t.model = m

TestsBatch ==
    ~h9.again =>
        /\ \A k, l \in h7 : k = l
        /\ h4 => h7 # {} /\ ~h5
        /\ h7 # {} /\ ~h5 => h4 /\ h2 /\ \A l \in h7 : l.channel = h1
        /\ \A l \in h7 : \A m \in Tests!Models : TestsTried(l, m)
        /\ \A l \in h7 : l.ended => \A m \in Tests!Models : <<l.channel, m>> \in h6

\* What is shown as being tested is; a dialog that is closed shows nothing.
TestsShown ==
    ~h9.again =>
        /\ ~h2 => h3 = {}
        /\ \A m \in h3 : \E t \in h8 : t.model = m /\ t.channel = h1
TestsInv == TestsTypes /\ TestsBatch /\ TestsShown

LEMMA TestsStarts == Tests!Init => TestsInv
<1> SUFFICES ASSUME Tests!Init PROVE TestsInv
    OBVIOUS
<1>1. /\ h1 = 1 /\ h2 = FALSE /\ h3 = {} /\ h4 = FALSE /\ h5 = FALSE /\ h6 = {} /\ h7 = {} /\ h8 = {}
      /\ h10 = 0
    BY DEF Tests!Init
<1>2. h9 \in TestsView
    BY DEF Tests!Init, TestsView
<1>3. h2 \in BOOLEAN /\ h4 \in BOOLEAN /\ h5 \in BOOLEAN
    BY <1>1, Zenon
<1>4. h1 \in Tests!Channels /\ h10 \in Nat
    BY <1>1 DEF Tests!Channels
<1>5. TestsTypes
    BY <1>1, <1>2, <1>3, <1>4 DEF TestsTypes
<1> QED
    BY <1>1, <1>5 DEF TestsInv, TestsBatch, TestsShown

LEMMA TestsAsked ==
    ASSUME NEW by, NEW c, NEW models, NEW m \in models
    PROVE  \E t \in Tests!Asked(by, c, models) : t.by = by /\ t.channel = c /\ t.model = m
<1>1. [by |-> by, channel |-> c, model |-> m] \in Tests!Asked(by, c, models)
    BY DEF Tests!Asked
<1> QED
    BY <1>1

LEMMA TestsOpened == TestsInv /\ Tests!Open => TestsInv'
<1> SUFFICES ASSUME TestsInv, Tests!Open PROVE TestsInv'
    OBVIOUS
<1>1. h2 = FALSE /\ h2' = TRUE /\ h1' \in Tests!Channels /\ h10' = h10 + 1
    BY DEF Tests!Open, Tests!Clicked, TestsInv, TestsTypes
<1>2. h3' = h3 /\ h4' = h4 /\ h5' = h5 /\ h6' = h6 /\ h7' = h7 /\ h8' = h8 /\ h9' = h9
    BY DEF Tests!Open
<1>3. TestsTypes'
    BY <1>1, <1>2 DEF TestsInv, TestsTypes
<1>4. TestsBatch'
    BY <1>1, <1>2 DEF TestsInv, TestsBatch, TestsTried
<1>5. TestsShown'
    BY <1>1, <1>2 DEF TestsInv, TestsShown
<1> QED
    BY <1>3, <1>4, <1>5 DEF TestsInv

LEMMA TestsOver ==
    ASSUME TestsInv, NEW s, h9' = [h9 EXCEPT !.over = Tests!Over(s)]
    PROVE  h9' \in TestsView /\ h9'.again = h9.again
<1>1. Tests!Over(s) \in BOOLEAN
    BY DEF Tests!Over, TestsInv, TestsTypes, TestsView
<1> QED
    BY <1>1 DEF TestsInv, TestsTypes, TestsView

LEMMA TestsOne == TestsInv /\ Tests!testChannel => TestsInv'
<1> SUFFICES ASSUME TestsInv, Tests!testChannel PROVE TestsInv'
    OBVIOUS
<1>1. PICK m \in Tests!Models \ h3 :
        /\ h8' = h8 \union Tests!Asked(Tests!Single, h1, {m})
        /\ h3' = Tests!Begun({m})
        /\ h9' = [h9 EXCEPT !.over = Tests!Over({m})]
    BY DEF Tests!testChannel
<1>2. h2 /\ h1' = h1 /\ h2' = h2 /\ h4' = h4 /\ h5' = h5 /\ h6' = h6 /\ h7' = h7 /\ h10' = h10 + 1
    BY DEF Tests!testChannel, Tests!Clicked
<1>3. h9' \in TestsView /\ h9'.again = h9.again
    BY <1>1, TestsOver
<1>4. /\ h8 \subseteq h8' /\ h3' = h3 \union {m}
      /\ \E t \in h8' : t.model = m /\ t.channel = h1
    BY <1>1, TestsAsked DEF Tests!Begun
<1>5. TestsTypes'
    BY <1>2, <1>3 DEF TestsInv, TestsTypes
<1>6. TestsBatch'
    BY <1>2, <1>3, <1>4 DEF TestsInv, TestsBatch, TestsTried
<1>7. TestsShown'
    BY <1>2, <1>3, <1>4 DEF TestsInv, TestsShown
<1> QED
    BY <1>5, <1>6, <1>7 DEF TestsInv

\* A batch is begun; over no other, it is the only one.
LEMMA TestsBegun == TestsInv /\ Tests!batchTestModels => TestsInv'
<1> SUFFICES ASSUME TestsInv, Tests!batchTestModels PROVE TestsInv'
    OBVIOUS
<1>0. PICK first, loop :
        /\ first = Tests!Chunk(Tests!Models)
        /\ loop = [by |-> h10 + 1, channel |-> h1, todo |-> Tests!Models \ first, ended |-> FALSE]
    OBVIOUS
<1>1. /\ h2 /\ h1' = h1 /\ h2' = h2 /\ h4' = TRUE /\ h5' = FALSE /\ h10' = h10 + 1
      /\ h7' = h7 \union {loop} /\ h8' = h8 \union Tests!Asked(h10 + 1, h1, first)
      /\ h3' = Tests!Begun(first)
      /\ h9' = [again |-> h9.again \/ h7 # {}, over |-> Tests!Over(first)]
    BY <1>0 DEF Tests!batchTestModels, Tests!Clicked
<1>2. first \subseteq Tests!Models
    BY <1>0 DEF Tests!Chunk
<1>3. loop \in TestsLoop /\ loop.by = h10 + 1 /\ loop.channel = h1 /\ loop.todo = Tests!Models \ first
      /\ loop.ended = FALSE
    BY <1>0, <1>2 DEF TestsInv, TestsTypes, TestsLoop
<1>4. h9' \in TestsView /\ h9'.again = (h9.again \/ h7 # {})
    <2>1. Tests!Over(first) \in BOOLEAN
        BY DEF Tests!Over, TestsInv, TestsTypes, TestsView
    <2> QED
        BY <1>1, <2>1 DEF TestsInv, TestsTypes, TestsView
<1>5. TestsTypes'
    <2>1. /\ h2' = h2 /\ h4' = TRUE /\ h5' = FALSE /\ h1' = h1 /\ h7' = h7 \union {loop}
          /\ h10' = h10 + 1
        BY <1>1
    <2>2. h4' \in BOOLEAN /\ h5' \in BOOLEAN
        BY <2>1, Zenon
    <2>3. /\ h2' = h2 /\ h1' = h1 /\ h7' = h7 \union {loop} /\ h10' = h10 + 1
        BY <1>1
    <2> QED
        BY <1>3, <1>4, <2>2, <2>3 DEF TestsInv, TestsTypes
<1>6. \A m \in first : \E t \in h8' : t.by = h10 + 1 /\ t.channel = h1 /\ t.model = m
    BY <1>1, TestsAsked
<1>7. TestsBatch'
    <2> SUFFICES ASSUME ~h9.again, h7 = {} PROVE TestsBatch'
        BY <1>4 DEF TestsBatch
    <2>1. h7' = {loop}
        BY <1>1
    <2>2. \A m \in Tests!Models : TestsTried(loop, m)'
        BY <1>3, <1>6 DEF TestsTried
    <2> QED
        BY <1>1, <1>3, <2>1, <2>2 DEF TestsBatch
<1>8. TestsShown'
    <2> SUFFICES ASSUME ~h9.again PROVE TestsShown'
        BY <1>4 DEF TestsShown
    <2>1. h8 \subseteq h8' /\ h3' = h3 \union first
        BY <1>1 DEF Tests!Begun
    <2> QED
        BY <1>1, <1>6, <2>1 DEF TestsInv, TestsShown
<1> QED
    BY <1>5, <1>7, <1>8 DEF TestsInv

LEMMA TestsAnswered == TestsInv /\ Tests!Tested => TestsInv'
<1> SUFFICES ASSUME TestsInv, Tests!Tested PROVE TestsInv'
    OBVIOUS
<1>1. PICK t \in h8 : /\ h8' = h8 \ {t}
                      /\ h6' = h6 \union {<<t.channel, t.model>>}
                      /\ h3' = h3 \ {t.model}
    BY DEF Tests!Tested
<1>2. h1' = h1 /\ h2' = h2 /\ h4' = h4 /\ h5' = h5 /\ h7' = h7 /\ h9' = h9 /\ h10' = h10
    BY DEF Tests!Tested
<1>3. TestsTypes'
    BY <1>2 DEF TestsInv, TestsTypes
<1>4. \A l, m : TestsTried(l, m) => TestsTried(l, m)'
    BY <1>1 DEF TestsTried
<1>5. TestsBatch'
    BY <1>1, <1>2, <1>4 DEF TestsInv, TestsBatch
<1>6. TestsShown'
    BY <1>1, <1>2 DEF TestsInv, TestsShown
<1> QED
    BY <1>3, <1>5, <1>6 DEF TestsInv

\* The next models of a batch are asked for: the batch is the one that is shown.
LEMMA TestsContinued == TestsInv /\ Tests!Continued => TestsInv'
<1> SUFFICES ASSUME TestsInv, Tests!Continued PROVE TestsInv'
    OBVIOUS
<1>1. PICK l \in h7 :
        /\ ~l.ended /\ Tests!Settled(l) /\ Tests!GoesOn(l)
        /\ h7' = (h7 \ {l}) \union {[l EXCEPT !.todo = @ \ Tests!Chunk(l.todo)]}
        /\ h8' = h8 \union Tests!Asked(l.by, l.channel, Tests!Chunk(l.todo))
        /\ h3' = Tests!Begun(Tests!Chunk(l.todo))
        /\ h9' = [h9 EXCEPT !.over = Tests!Over(Tests!Chunk(l.todo))]
    BY DEF Tests!Continued
<1>1a. PICK next, left : next = Tests!Chunk(l.todo) /\ left = [l EXCEPT !.todo = @ \ next]
    OBVIOUS
<1>2. h1' = h1 /\ h2' = h2 /\ h4' = h4 /\ h5' = h5 /\ h6' = h6 /\ h10' = h10
    BY DEF Tests!Continued
<1>3. l \in TestsLoop /\ ~h5
    BY <1>1 DEF TestsInv, TestsTypes, Tests!GoesOn
<1>4. left \in TestsLoop /\ left.by = l.by /\ left.channel = l.channel
      /\ left.todo = l.todo \ next /\ left.ended = l.ended
    BY <1>1a, <1>3 DEF TestsLoop
<1>5. h9' \in TestsView /\ h9'.again = h9.again
    BY <1>1, TestsOver
<1>6. /\ h8 \subseteq h8' /\ h3' = h3 \union next
      /\ \A m \in next : \E t \in h8' : t.by = l.by /\ t.channel = l.channel /\ t.model = m
    BY <1>1, <1>1a, TestsAsked DEF Tests!Begun
<1>7. h7' = (h7 \ {l}) \union {left}
    BY <1>1, <1>1a
<1>8. TestsTypes'
    BY <1>2, <1>4, <1>5, <1>7 DEF TestsInv, TestsTypes
<1>9. TestsBatch'
    <2> SUFFICES ASSUME ~h9.again PROVE TestsBatch'
        BY <1>5 DEF TestsBatch
    <2>1. h7 = {l} /\ h7' = {left}
        BY <1>7 DEF TestsInv, TestsBatch
    <2>2. \A m \in Tests!Models : TestsTried(l, m)
        BY DEF TestsInv, TestsBatch
    <2>3. \A m \in Tests!Models : TestsTried(left, m)'
        BY <1>2, <1>4, <1>6, <2>2 DEF TestsTried
    <2>4. h4 /\ h2 /\ l.channel = h1
        BY <1>3 DEF TestsInv, TestsBatch
    <2> QED
        BY <1>1, <1>2, <1>3, <1>4, <2>1, <2>3, <2>4 DEF TestsBatch
<1>10. TestsShown'
    <2> SUFFICES ASSUME ~h9.again PROVE TestsShown'
        BY <1>5 DEF TestsShown
    <2>1. h2 /\ l.channel = h1
        BY <1>3 DEF TestsInv, TestsBatch
    <2> QED
        BY <1>2, <1>6, <2>1 DEF TestsInv, TestsShown
<1> QED
    BY <1>8, <1>9, <1>10 DEF TestsInv

LEMMA TestsFinished == TestsInv /\ Tests!Finished => TestsInv'
<1> SUFFICES ASSUME TestsInv, Tests!Finished PROVE TestsInv'
    OBVIOUS
<1>1. PICK l \in h7 :
        /\ Tests!Settled(l) /\ ~Tests!GoesOn(l)
        /\ IF h5 \/ l.ended
           THEN h7' = h7 \ {l} /\ h4' = FALSE
           ELSE h7' = (h7 \ {l}) \union {[l EXCEPT !.ended = TRUE]} /\ h4' = h4
    BY DEF Tests!Finished
<1>2. h1' = h1 /\ h2' = h2 /\ h3' = h3 /\ h5' = h5 /\ h6' = h6 /\ h8' = h8 /\ h9' = h9 /\ h10' = h10
    BY DEF Tests!Finished
<1>3. l \in TestsLoop
    BY DEF TestsInv, TestsTypes
<1>4. TestsShown'
    BY <1>2 DEF TestsInv, TestsShown
<1>5. CASE h5 \/ l.ended
    <2>1. h7' = h7 \ {l} /\ h4' = FALSE
        BY <1>1, <1>5
    <2>2. TestsTypes'
        BY <1>2, <2>1 DEF TestsInv, TestsTypes
    <2>3. TestsBatch'
        <3> SUFFICES ASSUME ~h9.again PROVE TestsBatch'
            BY <1>2 DEF TestsBatch
        <3>1. h7' = {}
            BY <2>1 DEF TestsInv, TestsBatch
        <3> QED
            BY <2>1, <3>1 DEF TestsBatch
    <2> QED
        BY <1>4, <2>2, <2>3 DEF TestsInv
<1>6. CASE ~(h5 \/ l.ended)
    <2>0. PICK done : done = [l EXCEPT !.ended = TRUE]
        OBVIOUS
    <2>1. h7' = (h7 \ {l}) \union {done} /\ h4' = h4
        BY <1>1, <1>6, <2>0
    <2>2. done \in TestsLoop /\ done.by = l.by /\ done.channel = l.channel /\ done.todo = l.todo
        BY <1>3, <2>0 DEF TestsLoop
    <2>3. TestsTypes'
        BY <1>2, <2>1, <2>2 DEF TestsInv, TestsTypes
    <2>4. TestsBatch'
        <3> SUFFICES ASSUME ~h9.again PROVE TestsBatch'
            BY <1>2 DEF TestsBatch
        <3>1. h7' = {done} /\ h7 = {l}
            BY <2>1 DEF TestsInv, TestsBatch
        <3>2. l.todo = {} /\ \A t \in h8 : t.by # l.by
            BY <1>1, <1>6 DEF Tests!GoesOn, Tests!Settled
        <3>3. \A m \in Tests!Models : TestsTried(l, m)
            BY DEF TestsInv, TestsBatch
        <3>4. \A m \in Tests!Models : <<l.channel, m>> \in h6
            BY <3>2, <3>3 DEF TestsTried
        <3>5. (h4 => ~h5) /\ (~h5 => h4 /\ h2 /\ l.channel = h1)
            BY <3>1 DEF TestsInv, TestsBatch
        <3>6. \A m \in Tests!Models : TestsTried(done, m)'
            BY <1>2, <2>2, <3>4 DEF TestsTried
        <3> QED
            BY <1>2, <2>1, <2>2, <3>1, <3>4, <3>5, <3>6 DEF TestsBatch
    <2> QED
        BY <1>4, <2>3, <2>4 DEF TestsInv
<1> QED
    BY <1>5, <1>6

LEMMA TestsClosed == TestsInv /\ Tests!handleCloseModal => TestsInv'
<1> SUFFICES ASSUME TestsInv, Tests!handleCloseModal PROVE TestsInv'
    OBVIOUS
<1>1. /\ h2' = FALSE /\ h5' = (h5 \/ h4) /\ h4' = FALSE /\ h3' = {}
      /\ h1' = h1 /\ h6' = h6 /\ h7' = h7 /\ h8' = h8 /\ h9' = h9 /\ h10' = h10
    BY DEF Tests!handleCloseModal
<1>2. TestsTypes'
    BY <1>1 DEF TestsInv, TestsTypes
<1>3. TestsBatch'
    BY <1>1 DEF TestsInv, TestsBatch, TestsTried
<1>4. TestsShown'
    BY <1>1 DEF TestsInv, TestsShown
<1> QED
    BY <1>2, <1>3, <1>4 DEF TestsInv

LEMMA TestsSteps ==
    TestsInv /\ (Tests!Next \/ UNCHANGED Tests!vars) => TestsInv'
<1> SUFFICES ASSUME TestsInv, Tests!Next \/ UNCHANGED Tests!vars PROVE TestsInv'
    OBVIOUS
<1>1. CASE UNCHANGED Tests!vars
    BY <1>1 DEF Tests!vars, TestsInv, TestsTypes, TestsBatch, TestsTried, TestsShown
<1> QED
    BY <1>1, TestsOpened, TestsOne, TestsBegun, TestsAnswered, TestsContinued, TestsFinished,
       TestsClosed DEF Tests!Next

LEMMA TestsKnown ==
    TestsInv => Tests!RunningIsRunning /\ Tests!RunningIsShown /\ Tests!AllAreTested
BY DEF TestsInv, TestsTypes, TestsBatch, TestsShown, Tests!RunningIsRunning, Tests!RunningIsShown,
       Tests!AllAreTested

-----------------------------------------------------------------------------
(* The models and their prices (ModelSquare): until they are loaded nothing *)
(* is filtered and the first page is shown.                                 *)

Square == INSTANCE ModelSquare
    WITH config <- h1, data <- h2, loading <- h3, site <- h4, filter <- h5, group <- h6,
         display <- h7, paging <- h8, sheet <- h9, view <- h10

SquareTypes ==
    /\ h2.models \subseteq Square!ModelsListed
    /\ h5 = [k \in Square!Kinds |-> h5[k]]
    /\ h8 \in [page : Nat, size : Square!PageSizes]
    /\ DOMAIN h10 = {"mobile", "opened", "late", "resized", "clicks"}

\* The page that is shown has models, while there are any.
SquarePaged ==
    h10.resized = FALSE => \/ h8.page = 1
                           \/ (h8.page - 1) * h8.size < Cardinality(Square!filteredModels(h5))

SquareVendor ==
    /\ h3 = "asked" => h5["vendor"] = "all" /\ h8.page = 1
    /\ h5["vendor"] = "all" \/ h5["vendor"] \in Square!getAllVendors
SquareInv == SquareTypes /\ SquarePaged /\ SquareVendor

LEMMA SquareCard == \A S : Square!Cardinality(S) = Cardinality(S)
BY DEF Square!Cardinality, Cardinality

LEMMA SquareFinite ==
    ASSUME SquareTypes, NEW f
    PROVE  /\ IsFiniteSet(Square!filteredModels(f)) /\ Cardinality(Square!filteredModels(f)) \in Nat
           /\ Square!filteredModels(f) # {} => Cardinality(Square!filteredModels(f)) > 0
<1> DEFINE a == Square!Model("a", {"default", "vip"}, "tokens", {"chat"}, "V", {"new"}, "name", 2)
           b == Square!Model("b", {"vip"}, "call", {}, "", {"new", "old"}, "description", 3)
           c == Square!Model("c", {"default", "own"}, "tokens", {"chat", "image"}, "V", {}, "", 1)
<1>1. Square!ModelsListed = {a, b, c}
    BY DEF Square!ModelsListed
<1> HIDE DEF a, b, c
<1>2. {a, b, c} = ({a} \union {b}) \union {c}
    OBVIOUS
<1>3. IsFiniteSet({a}) /\ IsFiniteSet({b}) /\ IsFiniteSet({c})
    BY FS_Singleton
<1>4. IsFiniteSet({a} \union {b})
    BY <1>3, FS_Union
<1>4a. IsFiniteSet(({a} \union {b}) \union {c})
    BY <1>3, <1>4, FS_Union
<1>5. IsFiniteSet(Square!ModelsListed)
    BY <1>1, <1>2, <1>4a
<1>6. Square!filteredModels(f) \subseteq Square!ModelsListed
    BY DEF SquareTypes, Square!filteredModels
<1>7. IsFiniteSet(Square!filteredModels(f))
    BY <1>5, <1>6, FS_Subset
<1>8. Cardinality(Square!filteredModels(f)) \in Nat
    BY <1>7, FS_CardinalityType
<1>9. Cardinality(Square!filteredModels(f)) = 0 <=> Square!filteredModels(f) = {}
    BY <1>7, FS_EmptySet
<1> QED
    BY <1>7, <1>8, <1>9

LEMMA SquareSame ==
    ASSUME h2' = h2, h5' = h5
    PROVE  Square!filteredModels(h5)' = Square!filteredModels(h5)
BY Zenon DEF Square!filteredModels

LEMMA SquareStarts == Square!Init => SquareInv
<1> SUFFICES ASSUME Square!Init PROVE SquareInv
    OBVIOUS
<1>1. h2.models = {} /\ h5 = [k \in Square!Kinds |-> "all"]
    BY DEF Square!Init, Square!NoFilter
<1>2. h8 = [page |-> 1, size |-> 2]
    BY DEF Square!Init
<1>3. h10 \in [mobile : BOOLEAN, opened : {""}, late : {FALSE}, resized : {FALSE}, clicks : {0}]
    BY DEF Square!Init
<1>4. DOMAIN h10 = {"mobile", "opened", "late", "resized", "clicks"}
    BY <1>3
<1>5. h8 \in [page : Nat, size : Square!PageSizes] /\ h8.page = 1
    BY <1>2 DEF Square!PageSizes
<1>6. h5["vendor"] = "all" /\ h5 = [k \in Square!Kinds |-> h5[k]]
    BY <1>1 DEF Square!Kinds
<1>7. SquareTypes
    BY <1>1, <1>4, <1>5, <1>6 DEF SquareTypes
<1> QED
    BY <1>5, <1>6, <1>7 DEF SquareInv, SquarePaged, SquareVendor

LEMMA SquareLoaded == SquareInv /\ Square!loadPricing => SquareInv'
<1> SUFFICES ASSUME SquareInv, Square!loadPricing PROVE SquareInv'
    OBVIOUS
<1>1. h3 = "asked" /\ h3' # "asked" /\ h5' = h5 /\ h8' = h8 /\ h10' = h10
      /\ (h2' = h2 \/ h2' = Square!GetPricing)
    BY DEF Square!loadPricing
<1>2. h5["vendor"] = "all" /\ h8.page = 1
    BY <1>1 DEF SquareInv, SquareVendor
<1>3. h2'.models \subseteq Square!ModelsListed
    BY <1>1 DEF SquareInv, SquareTypes, Square!GetPricing
<1>4. SquareTypes'
    BY <1>1, <1>3 DEF SquareInv, SquareTypes
<1> QED
    BY <1>1, <1>2, <1>4 DEF SquareInv, SquarePaged, SquareVendor

LEMMA SquareClicks ==
    ASSUME SquareInv, Square!Click
    PROVE  DOMAIN h10' = DOMAIN h10 /\ h10'.resized = h10.resized
BY DEF Square!Click, SquareInv, SquareTypes

\* A filter is changed: the first page is shown again.
LEMMA SquareFilters ==
    ASSUME SquareInv, Square!Click, NEW k, NEW v,
           Square!Filtered([h5 EXCEPT ![k] = v]), h2' = h2, h3' = h3,
           k = "vendor" => h3 # "asked" /\ v \in {"all"} \union Square!getAllVendors
    PROVE  SquareInv'
<1> DEFINE f == [h5 EXCEPT ![k] = v]
<1>1. h5' = f /\ h8' = IF f = h5 THEN h8 ELSE [h8 EXCEPT !.page = 1]
    BY DEF Square!Filtered
<1>2. /\ f = [i \in Square!Kinds |-> f[i]]
      /\ f["vendor"] = IF k = "vendor" THEN v ELSE h5["vendor"]
    BY DEF SquareInv, SquareTypes, Square!Kinds
<1> HIDE DEF f
<1>3. h8 \in [page : Nat, size : Square!PageSizes]
    BY DEF SquareInv, SquareTypes
<1>4. /\ h8' \in [page : Nat, size : Square!PageSizes]
      /\ h8.page = 1 => h8'.page = 1
      /\ (h8' = h8 /\ h5' = h5) \/ h8'.page = 1
    BY <1>1, <1>3
<1>5. DOMAIN h10' = DOMAIN h10 /\ h10'.resized = h10.resized
    BY SquareClicks
<1>6. SquareTypes'
    BY <1>1, <1>2, <1>4, <1>5 DEF SquareInv, SquareTypes
<1>8. SquarePaged'
    <2>1. CASE h8'.page = 1
        BY <2>1 DEF SquarePaged
    <2>2. CASE h8' = h8 /\ h5' = h5
        BY <1>5, <2>2, SquareSame DEF SquareInv, SquarePaged
    <2> QED
        BY <1>4, <2>1, <2>2
<1>9. SquareVendor'
    BY <1>1, <1>2, <1>4 DEF SquareInv, SquareVendor, Square!getAllVendors
<1> QED
    BY <1>6, <1>8, <1>9 DEF SquareInv

LEMMA SquareFilterClick == SquareInv /\ Square!FilterClick => SquareInv'
<1> SUFFICES ASSUME SquareInv, Square!FilterClick PROVE SquareInv'
    OBVIOUS
<1>1. PICK k, v : k \in Square!Kinds \ {"search"} /\ v \in Square!Buttons(k)
                   /\ Square!Filtered([h5 EXCEPT ![k] = v])
    BY DEF Square!FilterClick, Square!handleGroupClick
<1>2. Square!Click /\ h2' = h2 /\ h3' = h3 /\ h3 # "asked"
    BY DEF Square!FilterClick, Square!Shown, Square!Ready
<1>3. k = "vendor" => v \in {"all"} \union Square!getAllVendors
    BY <1>1 DEF Square!Buttons
<1> QED
    BY <1>1, <1>2, <1>3, SquareFilters

LEMMA SquareSearch == SquareInv /\ Square!handleChange => SquareInv'
<1> SUFFICES ASSUME SquareInv, Square!handleChange PROVE SquareInv'
    OBVIOUS
<1>1. PICK w : Square!Filtered([h5 EXCEPT !["search"] = w])
    BY DEF Square!handleChange
<1>2. Square!Click /\ h2' = h2 /\ h3' = h3
    BY DEF Square!handleChange
<1> QED
    BY <1>1, <1>2, SquareFilters

LEMMA SquareReset == SquareInv /\ Square!resetPricingFilters => SquareInv'
<1> SUFFICES ASSUME SquareInv, Square!resetPricingFilters PROVE SquareInv'
    OBVIOUS
<1>1. Square!Click /\ h2' = h2 /\ h3' = h3 /\ h5' = [k \in Square!Kinds |-> "all"]
      /\ h8' = [h8 EXCEPT !.page = 1]
    BY DEF Square!resetPricingFilters, Square!NoFilter
<1>2. h8' \in [page : Nat, size : Square!PageSizes] /\ h8'.page = 1
    BY <1>1 DEF SquareInv, SquareTypes
<1>3. DOMAIN h10' = DOMAIN h10
    BY <1>1, SquareClicks
<1>4. h5'["vendor"] = "all" /\ h5' = [k \in Square!Kinds |-> h5'[k]]
    BY <1>1 DEF Square!Kinds
<1>5. SquareTypes'
    BY <1>1, <1>2, <1>3, <1>4 DEF SquareInv, SquareTypes
<1> QED
    BY <1>2, <1>4, <1>5 DEF SquareInv, SquarePaged, SquareVendor

\* A step that leaves the models, the filters and the page as they are.
LEMMA SquareStays ==
    ASSUME SquareInv, h2' = h2, h3' = h3, h5' = h5, h8' = h8,
           DOMAIN h10' = DOMAIN h10, h10'.resized = h10.resized
    PROVE  SquareInv'
<1>1. SquareTypes'
    BY DEF SquareInv, SquareTypes
<1>2. SquarePaged'
    BY SquareSame DEF SquareInv, SquarePaged
<1>3. SquareVendor'
    BY DEF SquareInv, SquareVendor, Square!getAllVendors
<1> QED
    BY <1>1, <1>2, <1>3 DEF SquareInv

LEMMA SquarePages == SquareInv /\ Square!PageChange => SquareInv'
<1> SUFFICES ASSUME SquareInv, Square!PageChange PROVE SquareInv'
    OBVIOUS
<1>0. Square!Click /\ h2' = h2 /\ h3' = h3 /\ h5' = h5 /\ h3 # "asked"
    BY DEF Square!PageChange, Square!Ready
<1>1. /\ \/ \E p \in 1..3 : /\ (p - 1) * h8.size < Cardinality(Square!filteredModels(h5))
                            /\ h8' = [h8 EXCEPT !.page = p]
         \/ \E s \in Square!PageSizes : h8' = [page |-> 1, size |-> s]
    BY SquareCard DEF Square!PageChange
<1>2. h8 \in [page : Nat, size : Square!PageSizes]
    BY DEF SquareInv, SquareTypes
<1>3. /\ h8' \in [page : Nat, size : Square!PageSizes]
      /\ \/ h8'.page = 1
         \/ (h8'.page - 1) * h8'.size < Cardinality(Square!filteredModels(h5))
    <2>1. ASSUME NEW p \in 1..3, (p - 1) * h8.size < Cardinality(Square!filteredModels(h5)),
                 h8' = [h8 EXCEPT !.page = p]
          PROVE  /\ h8' \in [page : Nat, size : Square!PageSizes]
                 /\ (h8'.page - 1) * h8'.size < Cardinality(Square!filteredModels(h5))
        BY <1>2, <2>1
    <2> QED
        BY <1>1, <1>2
<1>4. DOMAIN h10' = DOMAIN h10 /\ h10'.resized = h10.resized
    BY <1>0, SquareClicks
<1>5. Square!filteredModels(h5)' = Square!filteredModels(h5)
    BY <1>0, SquareSame
<1>6. SquareTypes'
    BY <1>0, <1>3, <1>4 DEF SquareInv, SquareTypes
<1>7. SquarePaged'
    BY <1>3, <1>5 DEF SquarePaged
<1>8. SquareVendor'
    BY <1>0 DEF SquareInv, SquareVendor, Square!getAllVendors
<1> QED
    BY <1>6, <1>7, <1>8 DEF SquareInv

LEMMA SquareResized == SquareInv /\ Square!TableSizeChange => SquareInv'
<1> SUFFICES ASSUME SquareInv, Square!TableSizeChange PROVE SquareInv'
    OBVIOUS
<1>1. PICK s \in Square!PageSizes : h8' = [h8 EXCEPT !.size = s]
    BY DEF Square!TableSizeChange
<1>2. h2' = h2 /\ h3' = h3 /\ h5' = h5 /\ h10' = [h10 EXCEPT !.resized = TRUE, !.clicks = @ + 1]
    BY DEF Square!TableSizeChange
<1>3. h8' \in [page : Nat, size : Square!PageSizes] /\ h8'.page = h8.page
    BY <1>1 DEF SquareInv, SquareTypes
<1>4. DOMAIN h10' = DOMAIN h10 /\ h10'.resized = TRUE
    BY <1>2 DEF SquareInv, SquareTypes
<1>5. SquareTypes'
    BY <1>2, <1>3, <1>4 DEF SquareInv, SquareTypes
<1>6. SquareVendor'
    BY <1>2, <1>3 DEF SquareInv, SquareVendor, Square!getAllVendors
<1> QED
    BY <1>4, <1>5, <1>6 DEF SquareInv, SquarePaged

LEMMA SquareSteps ==
    SquareInv /\ (Square!Next \/ UNCHANGED Square!vars) => SquareInv'
<1> SUFFICES ASSUME SquareInv, Square!Next \/ UNCHANGED Square!vars PROVE SquareInv'
    OBVIOUS
<1>1. CASE UNCHANGED Square!vars
    BY <1>1, SquareStays, Zenon DEF Square!vars
<1>2. CASE Square!StatusLoaded \/ Square!PricingFilterModal \/ Square!closeModelDetail \/ Square!Emptied
    BY <1>2, SquareStays DEF Square!StatusLoaded, Square!PricingFilterModal, Square!closeModelDetail,
       Square!Emptied
<1>3. CASE Square!DisplayChange
    <2>1. Square!Click /\ UNCHANGED <<h2, h3, h5, h8>>
        BY <1>3 DEF Square!DisplayChange
    <2> QED
        BY <2>1, SquareClicks, SquareStays
<1>4. CASE Square!openModelDetail
    <2>1. PICK m : h10' = [h10 EXCEPT !.opened = m.name, !.late = h9.timers > 0, !.clicks = @ + 1]
        BY <1>4 DEF Square!openModelDetail
    <2>2. UNCHANGED <<h2, h3, h5, h8>>
        BY <1>4 DEF Square!openModelDetail
    <2>3. DOMAIN h10' = DOMAIN h10 /\ h10'.resized = h10.resized
        BY <2>1 DEF SquareInv, SquareTypes
    <2> QED
        BY <2>2, <2>3, SquareStays
<1> QED
    BY <1>1, <1>2, <1>3, <1>4, SquareLoaded, SquareFilterClick, SquareSearch, SquareReset,
       SquarePages, SquareResized DEF Square!Next

\* The buttons of a kind count the models that pass the other filters.
LEMMA SquareLeft ==
    ASSUME SquareInv, NEW k \in Square!Kinds, NEW v
    PROVE  Square!filteredModels([h5 EXCEPT ![k] = v])
             = {m \in Square!CountModels(k) : Square!Passes(m, k, v)}
<1> DEFINE f == [h5 EXCEPT ![k] = v]
<1>1. f[k] = v /\ \A i \in Square!Kinds \ {k} : f[i] = h5[i]
    BY DEF SquareInv, SquareTypes
<1> HIDE DEF f
<1>2. \A m : (\A i \in Square!Kinds : Square!Passes(m, i, f[i]))
               <=> (\A i \in Square!Kinds \ {k} : Square!Passes(m, i, h5[i])) /\ Square!Passes(m, k, v)
    BY <1>1
<1>3. Square!filteredModels(f) = {m \in Square!CountModels(k) : Square!Passes(m, k, v)}
    BY <1>2 DEF Square!filteredModels, Square!CountModels, Square!matchesFilters
<1> QED
    BY <1>3 DEF f

LEMMA SquareCounts == SquareInv => Square!CountsAreTrue
<1> SUFFICES ASSUME SquareInv PROVE Square!CountsAreTrue
    OBVIOUS
<1>1. ASSUME NEW v
      PROVE  Square!getVendorCount(v)
               = Cardinality(Square!filteredModels([h5 EXCEPT !["vendor"] = v]))
    <2> DEFINE S == Square!CountModels("vendor")
    <2>1. (IF v = "all" THEN S ELSE IF v = "unknown" THEN {m \in S : m.vendor = ""}
           ELSE {m \in S : m.vendor = v}) = {m \in S : Square!Passes(m, "vendor", v)}
        <3> HIDE DEF S
        <3> QED
            BY DEF Square!Passes
    <2> QED
        BY <2>1, SquareLeft, SquareCard DEF Square!getVendorCount, Square!Kinds
<1>2. ASSUME NEW v
      PROVE  Square!getTagCount(v)
               = Cardinality(Square!filteredModels([h5 EXCEPT !["tag"] = v]))
    <2> DEFINE S == Square!CountModels("tag")
    <2>1. {m \in S : v = "all" \/ v \in m.tags} = {m \in S : Square!Passes(m, "tag", v)}
        <3> HIDE DEF S
        <3> QED
            BY DEF Square!Passes
    <2> QED
        BY <2>1, SquareLeft, SquareCard DEF Square!getTagCount, Square!Kinds
<1>3. ASSUME NEW v
      PROVE  Square!qtyCount(v)
               = Cardinality(Square!filteredModels([h5 EXCEPT !["quota"] = v]))
    <2> DEFINE S == Square!CountModels("quota")
    <2>1. {m \in S : v = "all" \/ m.quota = v} = {m \in S : Square!Passes(m, "quota", v)}
        <3> HIDE DEF S
        <3> QED
            BY DEF Square!Passes
    <2> QED
        BY <2>1, SquareLeft, SquareCard DEF Square!qtyCount, Square!Kinds
<1>4. ASSUME NEW v
      PROVE  Square!getEndpointTypeCount(v)
               = Cardinality(Square!filteredModels([h5 EXCEPT !["ends"] = v]))
    <2> DEFINE S == Square!CountModels("ends")
    <2>1. {m \in S : v = "all" \/ v \in m.ends} = {m \in S : Square!Passes(m, "ends", v)}
        <3> HIDE DEF S
        <3> QED
            BY DEF Square!Passes
    <2> QED
        BY <2>1, SquareLeft, SquareCard DEF Square!getEndpointTypeCount, Square!Kinds
<1> QED
    BY <1>1, <1>2, <1>3, <1>4, SquareCard, Zenon DEF Square!CountsAreTrue

LEMMA SquareKept == SquareInv => Square!NothingVanishes
<1> SUFFICES ASSUME SquareInv PROVE Square!NothingVanishes
    OBVIOUS
<1>1. ASSUME Square!filteredModels(h5) # {}, ~h10.resized
      PROVE  Square!paginatedModels > 0
    <2> DEFINE n == Cardinality(Square!filteredModels(h5))
               start == (h8.page - 1) * h8.size
    <2>1. n \in Nat /\ n > 0
        BY <1>1, SquareFinite DEF SquareInv
    <2>2. h8.page \in Nat /\ h8.size \in {1, 2, 4}
        BY DEF SquareInv, SquareTypes, Square!PageSizes
    <2>3. start \in Int /\ start < n
        BY <1>1, <2>1, <2>2 DEF SquareInv, SquarePaged
    <2> HIDE DEF n, start
    <2>4. \A x \in {n - start, h8.size} : x > 0
        BY <2>1, <2>2, <2>3
    <2>5. Square!Min({n - start, h8.size}) \in {n - start, h8.size}
        BY <2>1, <2>2, <2>3 DEF Square!Min
    <2> QED
        BY <2>1, <2>2, <2>3, <2>4, <2>5, SquareCard DEF Square!paginatedModels, n, start
<1>2. Square!HeaderShown
    BY DEF SquareInv, SquareVendor, Square!HeaderShown, Square!vendorInfo
<1> QED
    BY <1>1, <1>2 DEF Square!NothingVanishes

-----------------------------------------------------------------------------
(* The dashboard (Dashboard): while nothing was asked for or chosen over a  *)
(* handler that waits there is at most one, and it will put right whatever  *)
(* is not yet what was searched for and selected.                           *)

Dash == INSTANCE Dashboard
    WITH server <- h1, inputs <- h2, charted <- h3, modal <- h4, loading <- h5, channel <- h6,
         items <- h7, drawn <- h8, jobs <- h9, view <- h10

\* One element of a set, and the sum of the quotas of at most two.
DashPicked(s) == CHOOSE x \in s : TRUE
DashAdded(it, s) == IF s = {} THEN 0 ELSE DashPicked(s).quota + it[s \ {DashPicked(s)}]

LEMMA DashSum ==
    ASSUME NEW a, NEW b, a.quota \in Nat, b.quota \in Nat, NEW S \in SUBSET {a, b}
    PROVE  Dash!MapThenSumSet(LAMBDA i : i.quota, S) \in Nat
<1> DEFINE One(s) == IF s = {} THEN 0 ELSE DashPicked(s).quota
           sums == [s \in SUBSET S |-> IF s = {} THEN 0
                                       ELSE DashPicked(s).quota + One(s \ {DashPicked(s)})]
<1>1. \A s \in SUBSET S : s # {} => DashPicked(s) \in s
    BY DEF DashPicked
<1>2. \A s \in SUBSET S : One(s) \in Nat
    BY <1>1
<1>3. \A s \in SUBSET S : s # {} => s \ {DashPicked(s)} \in SUBSET S
    OBVIOUS
<1>4. \A s \in SUBSET S : sums[s] \in Nat
    <2>1. ASSUME NEW s \in SUBSET S, s # {} PROVE DashPicked(s).quota \in Nat
        BY <1>1, <2>1
    <2> QED
        BY <1>2, <1>3, <2>1
<1>5. \A s \in SUBSET S : s # {} => sums[s \ {DashPicked(s)}] = One(s \ {DashPicked(s)})
    <2>1. ASSUME NEW s \in SUBSET S, s # {} PROVE sums[s \ {DashPicked(s)}] = One(s \ {DashPicked(s)})
        <3>1. PICK r : r = s \ {DashPicked(s)}
            OBVIOUS
        <3>2. r \in SUBSET S /\ (r = {} \/ \E x : r = {x})
            BY <1>1, <2>1, <3>1
        <3>3. CASE r = {}
            BY <3>1, <3>2, <3>3
        <3>4. CASE r # {}
            <4>1. r \ {DashPicked(r)} = {}
                BY <1>1, <3>2, <3>4
            <4>2. sums[r] = DashPicked(r).quota + 0
                BY <3>2, <3>4, <4>1
            <4>3. One(r) = DashPicked(r).quota /\ One(r) \in Nat
                BY <1>2, <3>2, <3>4
            <4> HIDE DEF One, sums
            <4> QED
                BY <3>1, <4>2, <4>3
        <3> QED
            BY <3>3, <3>4
    <2> QED
        BY <2>1
<1>6. sums = [s \in SUBSET S |-> DashAdded(sums, s)]
    <2>1. PICK fin : fin = sums
        OBVIOUS
    <2>2. \A s \in SUBSET S : fin[s] = DashAdded(fin, s)
        <3>1. ASSUME NEW s \in SUBSET S PROVE fin[s] = DashAdded(fin, s)
            BY <1>5, <2>1 DEF DashAdded
        <3> QED
            BY <3>1
    <2>3. fin = [s \in SUBSET S |-> fin[s]]
        BY <2>1
    <2> HIDE DEF sums
    <2> QED
        BY <2>1, <2>2, <2>3
<1>7. Dash!MapThenSumSet(LAMBDA i : i.quota, S) = (CHOOSE it : it = [s \in SUBSET S |-> DashAdded(it, s)])[S]
    BY DEF Dash!MapThenSumSet, Dash!MapThenFoldSet, DashAdded, DashPicked
<1>8. PICK it : /\ it = [s \in SUBSET S |-> DashAdded(it, s)]
                /\ Dash!MapThenSumSet(LAMBDA i : i.quota, S) = it[S]
    <2> HIDE DEF sums
    <2> QED
        BY <1>6, <1>7
<1>9. \A s \in SUBSET S : it[s] = DashAdded(it, s)
    BY <1>8
<1>10. it[{}] = 0
    BY <1>9 DEF DashAdded
<1>11. \A s \in SUBSET S : s # {} => DashPicked(s).quota \in Nat
    BY <1>1
<1>12. \A x \in S : it[{x}] \in Nat
    <2>1. ASSUME NEW x \in S PROVE it[{x}] \in Nat
        <3>1. {x} \in SUBSET S /\ {x} \ {DashPicked({x})} = {}
            BY <1>1
        <3> QED
            BY <1>9, <1>10, <1>11, <3>1 DEF DashAdded
    <2> QED
        BY <2>1
<1>13. CASE S = {}
    BY <1>8, <1>10, <1>13
<1>14. CASE S # {}
    <2>1. PICK p : p = DashPicked(S)
        OBVIOUS
    <2>2. p \in S
        BY <1>1, <1>14, <2>1
    <2>3. S \ {p} = {} \/ \E x \in S : S \ {p} = {x}
        <3>1. ASSUME NEW x \in S, x # p PROVE S \ {p} = {x}
            BY <2>2, <3>1
        <3> QED
            BY <3>1
    <2>4. it[S \ {p}] \in Nat
        <3>1. CASE S \ {p} = {}
            BY <1>10, <3>1
        <3>2. ASSUME NEW x \in S, S \ {p} = {x} PROVE it[S \ {p}] \in Nat
            BY <1>12, <3>2
        <3> QED
            BY <2>3, <3>1, <3>2
    <2>5. it[S] = p.quota + it[S \ {p}]
        <3>1. S \in SUBSET S
            OBVIOUS
        <3> QED
            BY <1>9, <1>14, <2>1, <3>1 DEF DashAdded
    <2> QED
        BY <1>8, <1>11, <1>14, <2>1, <2>4, <2>5
<1> QED
    BY <1>13, <1>14

DashItem == [channel : {1, 2}, model : {"a", "b"}, count : Nat, quota : Nat]

LEMMA DashItems ==
    /\ \A w : Dash!ItemsOf(w) \subseteq DashItem
    /\ \A w \in Dash!Windows : Dash!ItemsOf(w) # {}
<1>1. ASSUME NEW w PROVE Dash!ItemsOf(w) \subseteq DashItem
    <2>1. \A c \in {1, 2}, m \in {"a", "b"}, n \in Nat, q \in Nat : Dash!Item(c, m, n, q) \in DashItem
        BY DEF Dash!Item, DashItem
    <2>2. CASE w \in Dash!Windows
        BY <2>1, <2>2 DEF Dash!ItemsOf, Dash!Windows
    <2>3. CASE w \notin Dash!Windows
        BY <2>3 DEF Dash!ItemsOf, Dash!Windows
    <2> QED
        BY <2>2, <2>3
<1>2. ASSUME NEW w \in Dash!Windows PROVE Dash!ItemsOf(w) # {}
    BY DEF Dash!ItemsOf, Dash!Windows
<1> QED
    BY <1>1, <1>2

\* Of a window's items at most two are of one channel.
DashOf(w, c) == {i \in Dash!ItemsOf(w) : i.channel = c}
DashQuota(w, c) == Dash!MapThenSumSet(LAMBDA i : i.quota, DashOf(w, c))
DashCount(w, c) == Dash!MapThenSumSet(LAMBDA i : i.count, DashOf(w, c))
DashNamed(w, c) == Dash!Item(c, "", DashCount(w, c), DashQuota(w, c))

LEMMA DashQuotas == \A w \in Dash!Windows, c \in {1, 2} : DashQuota(w, c) \in Nat
<1> SUFFICES ASSUME NEW w \in Dash!Windows, NEW c \in {1, 2} PROVE DashQuota(w, c) \in Nat
    OBVIOUS
<1>1. PICK S : S = DashOf(w, c)
    OBVIOUS
<1>2. \E a, b \in DashItem : S \subseteq {a, b}
    <2>1. \A d \in {1, 2}, m \in {"a", "b"}, n \in Nat, q \in Nat :
              Dash!Item(d, m, n, q) \in DashItem /\ Dash!Item(d, m, n, q).channel = d
        BY DEF Dash!Item, DashItem
    <2>2. CASE w = "24h"
        <3>1. Dash!ItemsOf(w) = {Dash!Item(1, "a", 3, 7), Dash!Item(2, "b", 4, 2)}
            BY <2>2 DEF Dash!ItemsOf
        <3>2. S \subseteq {Dash!Item(1, "a", 3, 7), Dash!Item(2, "b", 4, 2)}
            BY <1>1, <3>1 DEF DashOf
        <3> QED
            BY <2>1, <3>2
    <2>3. CASE w = "today"
        <3>1. Dash!ItemsOf(w) = {Dash!Item(2, "a", 1, 1)}
            BY <2>3 DEF Dash!ItemsOf
        <3>2. S \subseteq {Dash!Item(2, "a", 1, 1), Dash!Item(2, "a", 1, 1)}
            BY <1>1, <3>1 DEF DashOf
        <3> QED
            BY <2>1, <3>2
    <2>4. CASE w = "week"
        <3>1. Dash!ItemsOf(w) =
                  {Dash!Item(1, "a", 3, 8), Dash!Item(2, "a", 1, 1), Dash!Item(2, "b", 9, 6)}
            BY <2>4 DEF Dash!ItemsOf
        <3>2. CASE c = 1
            <4>1. S \subseteq {Dash!Item(1, "a", 3, 8), Dash!Item(1, "a", 3, 8)}
                BY <1>1, <2>1, <3>1, <3>2 DEF DashOf
            <4> QED
                BY <2>1, <4>1
        <3>3. CASE c = 2
            <4>1. S \subseteq {Dash!Item(2, "a", 1, 1), Dash!Item(2, "b", 9, 6)}
                BY <1>1, <2>1, <3>1, <3>3 DEF DashOf
            <4> QED
                BY <2>1, <4>1
        <3> QED
            BY <3>2, <3>3
    <2> QED
        BY <2>2, <2>3, <2>4 DEF Dash!Windows
<1>3. PICK a, b \in DashItem : S \subseteq {a, b}
    BY <1>2
<1>4. a.quota \in Nat /\ b.quota \in Nat
    BY DEF DashItem
<1>5. Dash!MapThenSumSet(LAMBDA i : i.quota, S) \in Nat
    BY <1>3, <1>4, DashSum
<1> QED
    BY <1>1, <1>5 DEF DashQuota

\* Of the channels of a window, and of its items, there is a first.
LEMMA DashNames ==
    ASSUME NEW w
    PROVE  Dash!channelItems(w) = {DashNamed(w, c) : c \in {i.channel : i \in Dash!ItemsOf(w)}}
BY DEF Dash!channelItems, DashNamed, DashQuota, DashCount, DashOf

LEMMA DashFirsts ==
    ASSUME NEW w \in Dash!Windows
    PROVE  /\ Dash!First(Dash!ItemsOf(w)).model \in {i.model : i \in Dash!ItemsOf(w)}
           /\ Dash!First(Dash!channelItems(w)).channel \in {i.channel : i \in Dash!ItemsOf(w)}
<1>1. ASSUME NEW S, NEW x \in S, \A k \in S : x.quota >= k.quota PROVE Dash!First(S) \in S
    BY <1>1 DEF Dash!First
<1>2. Dash!First(Dash!ItemsOf(w)) \in Dash!ItemsOf(w)
    <2>1. CASE w = "24h"
        <3>1. PICK S : S = {Dash!Item(1, "a", 3, 7), Dash!Item(2, "b", 4, 2)}
            OBVIOUS
        <3>2. S = Dash!ItemsOf(w) /\ Dash!Item(1, "a", 3, 7) \in S
            BY <2>1, <3>1 DEF Dash!ItemsOf
        <3>3. \A k \in S : Dash!Item(1, "a", 3, 7).quota >= k.quota
            BY <3>1 DEF Dash!Item
        <3> QED
            BY <1>1, <3>2, <3>3
    <2>2. CASE w = "today"
        <3>1. PICK S : S = {Dash!Item(2, "a", 1, 1)}
            OBVIOUS
        <3>2. S = Dash!ItemsOf(w) /\ Dash!Item(2, "a", 1, 1) \in S
            BY <2>2, <3>1 DEF Dash!ItemsOf
        <3>3. \A k \in S : Dash!Item(2, "a", 1, 1).quota >= k.quota
            BY <3>1 DEF Dash!Item
        <3> QED
            BY <1>1, <3>2, <3>3
    <2>3. CASE w = "week"
        <3>1. PICK S : S = {Dash!Item(1, "a", 3, 8), Dash!Item(2, "a", 1, 1), Dash!Item(2, "b", 9, 6)}
            OBVIOUS
        <3>2. S = Dash!ItemsOf(w) /\ Dash!Item(1, "a", 3, 8) \in S
            BY <2>3, <3>1 DEF Dash!ItemsOf
        <3>3. \A k \in S : Dash!Item(1, "a", 3, 8).quota >= k.quota
            BY <3>1 DEF Dash!Item
        <3> QED
            BY <1>1, <3>2, <3>3
    <2> QED
        BY <2>1, <2>2, <2>3 DEF Dash!Windows
<1>3. PICK C : C = {i.channel : i \in Dash!ItemsOf(w)}
    OBVIOUS
<1>4. C \subseteq {1, 2} /\ C # {}
    BY <1>3, DashItems DEF DashItem
<1>5. \A c \in C : DashNamed(w, c).quota \in Nat /\ DashNamed(w, c).channel = c
    BY <1>4, DashQuotas DEF DashNamed, Dash!Item
<1>6. \E x \in C : \A c \in C : DashNamed(w, x).quota >= DashNamed(w, c).quota
    <2>1. CASE C = {1, 2}
        <3>1. DashNamed(w, 1).quota \in Nat /\ DashNamed(w, 2).quota \in Nat
            BY <1>5, <2>1
        <3>2. CASE DashNamed(w, 1).quota >= DashNamed(w, 2).quota
            BY <2>1, <3>1, <3>2
        <3>3. CASE DashNamed(w, 2).quota >= DashNamed(w, 1).quota
            BY <2>1, <3>1, <3>3
        <3> QED
            BY <3>1, <3>2, <3>3
    <2>2. CASE C # {1, 2}
        <3>1. PICK x \in C : C = {x}
            BY <1>4, <2>2
        <3> QED
            BY <1>5, <3>1
    <2> QED
        BY <2>1, <2>2
<1>7. PICK S : S = Dash!channelItems(w)
    OBVIOUS
<1>8. S = {DashNamed(w, c) : c \in C}
    BY <1>3, <1>7, DashNames
<1>9. PICK x \in C : \A c \in C : DashNamed(w, x).quota >= DashNamed(w, c).quota
    BY <1>6
<1>10. DashNamed(w, x) \in S /\ \A k \in S : DashNamed(w, x).quota >= k.quota
    BY <1>8, <1>9
<1>11. Dash!First(S) \in S
    BY <1>1, <1>10
<1>12. Dash!First(S).channel \in C
    BY <1>5, <1>8, <1>11
<1> QED
    BY <1>2, <1>3, <1>7, <1>12

DashInputs == [range : Dash!Ranges, gran : Dash!Grans]
DashChoice == [window : Dash!Windows, top : Dash!Tops, model : {"", "a", "b"}, channel : {0, 1, 2}]
DashShown == Dash!Windows \union {"none"}
DashJob ==
    [kind : {"init", "refresh", "search", "window"}, n : Nat,
     stage : {"quota", "channel", "both", "others", "last"}, of : DashInputs,
     data : Dash!Data \union {"none"}, window : Dash!Windows, chosen : DashChoice, got : DashShown]
DashView == [edited : BOOLEAN, calm : BOOLEAN, kept : BOOLEAN, clicks : Nat]
DashTypes ==
    /\ h1 \in [Dash!Ranges -> Dash!Data] /\ h2 \in DashInputs
    /\ h3 \in [range : Dash!Ranges \union {"none"}, gran : Dash!Grans,
               data : Dash!Data \union {"none"}]
    /\ h6 \in DashChoice /\ h7 \in DashShown
    /\ h8 \in [by : DashChoice, items : DashShown]
    /\ h9 \subseteq DashJob /\ h10 \in DashView

\* What a job goes through.
DashStages ==
    \A j \in h9 :
        /\ j.kind = "init" => j.stage \in {"quota", "channel"}
        /\ j.kind = "window" => j.stage = "channel"
        /\ j.kind \in {"refresh", "search"} => j.stage \in {"quota", "both", "others", "last"}

DashCalm == h10.calm /\ h10.kept
DashSelectedIn(c, w) ==
    /\ c.model \in {i.model : i \in Dash!ItemsOf(w)}
    /\ c.channel \in {i.channel : i \in Dash!ItemsOf(w)}
DashListed == h7 = h6.window /\ DashSelectedIn(h6, h7)
DashCharted == h3 = [range |-> h2.range, gran |-> h2.gran, data |-> h1[h2.range]]

\* The one handler is about the window that is named; what it holds of the
\* selection is what will be drawn, or nothing will be drawn from it.
DashLists(j) ==
    /\ j.window = h6.window
    /\ j.stage \in {"quota", "both"} => j.chosen = h6
    /\ j.stage = "others" =>
           /\ DashListed /\ j.got = j.window
           /\ h6 = [j.chosen EXCEPT !.model = Dash!Selected(j, j.got).model,
                                    !.channel = Dash!Selected(j, j.got).channel]

\* Either the figures are what was searched for, or the handler has it.
DashFigures(j) ==
    \/ h10.edited
    \/ j.kind = "window" /\ DashCharted
    \/ j.kind = "init" /\ j.stage = "channel" /\ DashCharted
    \/ j.kind # "window" /\ j.of = h2 /\ j.stage = "quota"
    \/ j.kind \in {"refresh", "search"} /\ j.of = h2 /\ j.data = h1[h2.range]

DashWorks ==
    DashCalm =>
        /\ \A i, j \in h9 : i = j
        /\ \A j \in h9 : DashLists(j) /\ DashFigures(j)
        /\ h9 = {} => DashListed /\ h8 = [by |-> h6, items |-> h7] /\ (h10.edited \/ DashCharted)
DashInv == DashTypes /\ DashStages /\ DashWorks

LEMMA DashNones == "none" \notin Dash!Windows /\ "none" \notin Dash!Data /\ Dash!ItemsOf("none") = {}
BY DEF Dash!Windows, Dash!Data, Dash!ItemsOf

LEMMA DashStarts == Dash!Init => DashInv
<1> SUFFICES ASSUME Dash!Init PROVE DashInv
    OBVIOUS
<1>1. /\ h2 = [range |-> "short", gran |-> "hour"]
      /\ h3 = [range |-> "none", gran |-> "hour", data |-> "none"]
      /\ h6 = [window |-> "24h", top |-> 2, model |-> "", channel |-> 0]
      /\ h7 = "none" /\ h8 = [by |-> h6, items |-> "none"]
      /\ h9 = {Dash!Job("init", 0, "24h")}
      /\ h10 = [edited |-> FALSE, calm |-> TRUE, kept |-> TRUE, clicks |-> 0]
    BY DEF Dash!Init
<1>2. h1 \in [Dash!Ranges -> Dash!Data]
    <2>1. h1 \in Dash!Servers
        BY DEF Dash!Init
    <2> QED
        BY <2>1 DEF Dash!Servers, Dash!Ranges, Dash!Data
<1>3. h6 \in DashChoice /\ h2 \in DashInputs /\ h7 \in DashShown
    BY <1>1 DEF DashChoice, Dash!Windows, Dash!Tops, DashInputs, Dash!Ranges, Dash!Grans, DashShown
<1>4. PICK j : j = Dash!Job("init", 0, "24h")
    OBVIOUS
<1>5. j = [kind |-> "init", n |-> 0, stage |-> "quota", of |-> h2, data |-> "none",
           window |-> "24h", chosen |-> h6, got |-> "none"]
    BY <1>4 DEF Dash!Job
<1>6. j \in DashJob
    BY <1>3, <1>5 DEF DashJob, DashShown, Dash!Windows
<1>7. DashTypes
    <2>1. h3 \in [range : Dash!Ranges \union {"none"}, gran : Dash!Grans,
                  data : Dash!Data \union {"none"}]
        BY <1>1 DEF Dash!Grans
    <2>2. h8 \in [by : DashChoice, items : DashShown]
        BY <1>1, <1>3
    <2>3. h10 \in DashView
        BY <1>1 DEF DashView
    <2>4. h9 \subseteq DashJob
        BY <1>1, <1>4, <1>6
    <2> QED
        BY <1>2, <1>3, <2>1, <2>2, <2>3, <2>4 DEF DashTypes
<1>8. DashStages
    <2>1. h9 = {j}
        BY <1>1, <1>4
    <2>2. j.kind = "init" /\ j.stage = "quota"
        BY <1>5
    <2>3. \A k \in h9 : k.kind = "init" /\ k.stage = "quota"
        BY <2>1, <2>2
    <2> QED
        BY <2>3 DEF DashStages
<1>9. DashWorks
    <2>1. h9 = {j}
        BY <1>1, <1>4
    <2>2. DashLists(j)
        BY <1>1, <1>5 DEF DashLists
    <2>3. DashFigures(j)
        BY <1>1, <1>5 DEF DashFigures
    <2> QED
        BY <2>1, <2>2, <2>3 DEF DashWorks
<1> QED
    BY <1>7, <1>8, <1>9 DEF DashInv

\* What is selected after an answer is in it.
LEMMA DashSelects ==
    ASSUME NEW j \in DashJob, NEW w \in DashShown
    PROVE  /\ Dash!Selected(j, w).model \in {"", "a", "b"}
           /\ Dash!Selected(j, w).channel \in {0, 1, 2}
           /\ w \in Dash!Windows => DashSelectedIn(Dash!Selected(j, w), w)
<1>1. PICK I : I = Dash!ItemsOf(w)
    OBVIOUS
<1>2. I \subseteq DashItem /\ (w \in Dash!Windows => I # {}) /\ (w \notin Dash!Windows => I = {})
    BY <1>1, DashItems, DashNones DEF DashShown
<1>3. /\ Dash!Selected(j, w).model =
             IF j.chosen.model \in {i.model : i \in I} THEN j.chosen.model
             ELSE IF I = {} THEN "" ELSE Dash!First(I).model
      /\ Dash!Selected(j, w).channel =
             IF j.chosen.channel \in {i.channel : i \in I} THEN j.chosen.channel
             ELSE IF I = {} THEN 0 ELSE Dash!First(Dash!channelItems(w)).channel
    BY <1>1, Zenon DEF Dash!Selected
<1>4. {i.model : i \in I} \subseteq {"a", "b"} /\ {i.channel : i \in I} \subseteq {1, 2}
    BY <1>2 DEF DashItem
<1>5. CASE w \in Dash!Windows
    <2>1. /\ Dash!First(I).model \in {i.model : i \in I}
          /\ Dash!First(Dash!channelItems(w)).channel \in {i.channel : i \in I}
        BY <1>1, <1>5, DashFirsts
    <2>2. /\ Dash!Selected(j, w).model \in {i.model : i \in I}
          /\ Dash!Selected(j, w).channel \in {i.channel : i \in I}
        BY <1>2, <1>3, <1>5, <2>1, Zenon
    <2> QED
        BY <1>1, <1>4, <2>2 DEF DashSelectedIn
<1>6. CASE w \notin Dash!Windows
    <2>1. I = {}
        BY <1>2, <1>6
    <2>2. Dash!Selected(j, w).model = "" /\ Dash!Selected(j, w).channel = 0
        BY <1>3, <2>1
    <2> QED
        BY <1>6, <2>2
<1> QED
    BY <1>5, <1>6

\* What only the user's eyes see.
LEMMA DashStays ==
    DashInv /\ UNCHANGED <<h1, h2, h3, h6, h7, h8, h9, h10>> => DashInv'
<1> SUFFICES ASSUME DashInv, UNCHANGED <<h1, h2, h3, h6, h7, h8, h9, h10>> PROVE DashInv'
    OBVIOUS
<1>1. DashTypes' /\ DashStages'
    BY DEF DashInv, DashTypes, DashStages
<1>2. DashListed' = DashListed /\ DashCharted' = DashCharted /\ DashCalm' = DashCalm
    BY DEF DashListed, DashCharted, DashCalm, DashSelectedIn
<1>3. \A j : DashLists(j)' = DashLists(j) /\ DashFigures(j)' = DashFigures(j)
    BY <1>2, Zenon DEF DashLists, DashFigures, Dash!Selected
<1>4. DashWorks'
    BY <1>2, <1>3 DEF DashInv, DashWorks
<1> QED
    BY <1>1, <1>4 DEF DashInv

\* Asking adds a handler that knows what is chosen.
LEMMA DashAsks ==
    ASSUME DashInv, NEW kind \in {"refresh", "search", "window"}, NEW w \in Dash!Windows,
           Dash!Ask(kind, w), UNCHANGED <<h1, h2, h3, h7>>, h6' \in DashChoice, h6'.window = w,
           kind # "window" => h6' = h6, h8' \in [by : DashChoice, items : DashShown]
    PROVE  DashInv'
<1>1. PICK j : j = Dash!Job(kind, h10.clicks + 1, w)
    OBVIOUS
<1>2. j = [kind |-> kind, n |-> h10.clicks + 1,
           stage |-> IF kind = "window" THEN "channel" ELSE "quota", of |-> h2, data |-> "none",
           window |-> w, chosen |-> h6, got |-> "none"]
    BY <1>1, Zenon DEF Dash!Job
<1>3. /\ h9' = h9 \union {j}
      /\ h10' = [h10 EXCEPT !.clicks = @ + 1, !.calm = @ /\ h9 = {}, !.edited = @ /\ kind = "window"]
    BY <1>1 DEF Dash!Ask
<1>4. h10 \in DashView /\ h9 \subseteq DashJob /\ h2 \in DashInputs /\ h6 \in DashChoice
    BY DEF DashInv, DashTypes
<1>5. h10' = [edited |-> h10.edited /\ kind = "window", calm |-> h10.calm /\ h9 = {},
              kept |-> h10.kept, clicks |-> h10.clicks + 1]
    BY <1>3, <1>4 DEF DashView
<1>6. h10' \in DashView
    BY <1>4, <1>5 DEF DashView
<1>7. j \in DashJob
    BY <1>2, <1>4 DEF DashJob, DashShown, DashView
<1>8. DashTypes'
    BY <1>3, <1>4, <1>6, <1>7 DEF DashInv, DashTypes
<1>9. j.kind = kind /\ j.stage = IF kind = "window" THEN "channel" ELSE "quota"
    BY <1>2
<1>10. DashStages'
    BY <1>3, <1>9 DEF DashInv, DashStages
<1>11. DashWorks'
    <2> SUFFICES ASSUME DashCalm' PROVE DashWorks'
        BY DEF DashWorks
    <2>1. h9 = {} /\ DashCalm /\ (h10'.edited <=> h10.edited /\ kind = "window")
        <3>1. h10'.calm /\ h10'.kept
            BY DEF DashCalm
        <3> QED
            BY <1>4, <1>5, <3>1 DEF DashCalm, DashView
    <2>2. h9' = {j}
        BY <1>3, <2>1
    <2>3. DashListed /\ (h10.edited \/ DashCharted)
        BY <2>1 DEF DashInv, DashWorks
    <2>4. DashLists(j)'
        BY <1>2, <1>9 DEF DashLists
    <2>5. DashFigures(j)'
        <3>1. CASE kind = "window"
            <4>1. h10'.edited \/ DashCharted'
                BY <2>1, <2>3, <3>1 DEF DashCharted
            <4> QED
                BY <1>9, <3>1, <4>1 DEF DashFigures
        <3>2. CASE kind # "window"
            <4>1. j.kind # "window" /\ j.of = h2' /\ j.stage = "quota"
                BY <1>2, <3>2
            <4> QED
                BY <4>1 DEF DashFigures
        <3> QED
            BY <3>1, <3>2
    <2> QED
        BY <2>2, <2>4, <2>5 DEF DashWorks
<1> QED
    BY <1>8, <1>10, <1>11 DEF DashInv

LEMMA DashRefreshes == DashInv /\ Dash!handleRefresh => DashInv'
<1> SUFFICES ASSUME DashInv, Dash!handleRefresh PROVE DashInv'
    OBVIOUS
<1>1. /\ Dash!Ask("refresh", h6.window) /\ UNCHANGED <<h1, h2, h3, h6, h7, h8>>
    BY DEF Dash!handleRefresh
<1>2. h6 \in DashChoice /\ h8 \in [by : DashChoice, items : DashShown] /\ h6.window \in Dash!Windows
    BY DEF DashInv, DashTypes, DashChoice
<1> QED
    BY <1>1, <1>2, DashAsks

LEMMA DashSearches == DashInv /\ Dash!handleSearchConfirm => DashInv'
<1> SUFFICES ASSUME DashInv, Dash!handleSearchConfirm PROVE DashInv'
    OBVIOUS
<1>1. /\ Dash!Ask("search", h6.window) /\ UNCHANGED <<h1, h2, h3, h6, h7, h8>>
    BY DEF Dash!handleSearchConfirm
<1>2. h6 \in DashChoice /\ h8 \in [by : DashChoice, items : DashShown] /\ h6.window \in Dash!Windows
    BY DEF DashInv, DashTypes, DashChoice
<1> QED
    BY <1>1, <1>2, DashAsks

LEMMA DashTurns == DashInv /\ Dash!handleChannelUsageWindowChange => DashInv'
<1> SUFFICES ASSUME DashInv, Dash!handleChannelUsageWindowChange PROVE DashInv'
    OBVIOUS
<1>1. PICK w \in Dash!Windows : h6' = [h6 EXCEPT !.window = w] /\ Dash!Ask("window", w)
    BY DEF Dash!handleChannelUsageWindowChange
<1>2. UNCHANGED <<h1, h2, h3, h7>> /\ h8' = [by |-> h6', items |-> h7']
    BY DEF Dash!handleChannelUsageWindowChange, Dash!Redrawn
<1>3. h6 \in DashChoice /\ h7 \in DashShown
    BY DEF DashInv, DashTypes
<1>4. h6' \in DashChoice /\ h6'.window = w
    BY <1>1, <1>3 DEF DashChoice
<1>5. h8' \in [by : DashChoice, items : DashShown]
    BY <1>2, <1>3, <1>4
<1> QED
    BY <1>1, <1>2, <1>4, <1>5, DashAsks

\* Editing leaves what is drawn, and says so.
LEMMA DashEdits == DashInv /\ Dash!handleInputChange => DashInv'
<1> SUFFICES ASSUME DashInv, Dash!handleInputChange PROVE DashInv'
    OBVIOUS
<1>1. /\ h10' = [h10 EXCEPT !.clicks = @ + 1, !.edited = TRUE]
      /\ UNCHANGED <<h1, h3, h6, h7, h8, h9>>
    BY DEF Dash!handleInputChange
<1>2. h2 \in DashInputs /\ h10 \in DashView
    BY DEF DashInv, DashTypes
<1>3. h2' \in DashInputs
    BY <1>2 DEF Dash!handleInputChange, DashInputs
<1>4. h10' = [edited |-> TRUE, calm |-> h10.calm, kept |-> h10.kept, clicks |-> h10.clicks + 1]
    BY <1>1, <1>2 DEF DashView
<1>5. h10' \in DashView
    BY <1>2, <1>4 DEF DashView
<1>6. DashTypes'
    BY <1>1, <1>3, <1>5 DEF DashInv, DashTypes
<1>7. DashStages'
    BY <1>1 DEF DashInv, DashStages
<1>8. DashWorks'
    <2> SUFFICES ASSUME DashCalm' PROVE DashWorks'
        BY DEF DashWorks
    <2>1. h10'.edited /\ DashCalm
        BY <1>4 DEF DashCalm
    <2>2. /\ \A i, j \in h9 : i = j
          /\ \A j \in h9 : DashLists(j)
          /\ h9 = {} => DashListed /\ h8 = [by |-> h6, items |-> h7]
        BY <2>1 DEF DashInv, DashWorks
    <2>3. \A j \in h9' : DashLists(j)'
        BY <1>1, <2>2 DEF DashLists, DashListed, DashSelectedIn, Dash!Selected
    <2>4. \A j \in h9' : DashFigures(j)'
        BY <2>1 DEF DashFigures
    <2>5. h9' = {} => DashListed' /\ h8' = [by |-> h6', items |-> h7']
        BY <1>1, <2>2 DEF DashListed, DashSelectedIn
    <2> QED
        BY <1>1, <2>1, <2>2, <2>3, <2>4, <2>5 DEF DashWorks
<1> QED
    BY <1>6, <1>7, <1>8 DEF DashInv

\* A choice over a handler that waits is not calm; any other is drawn.
LEMMA DashChooses == DashInv /\ Dash!Choose => DashInv'
<1> SUFFICES ASSUME DashInv, Dash!Choose PROVE DashInv'
    OBVIOUS
<1>1. /\ h10' = [h10 EXCEPT !.clicks = @ + 1, !.calm = @ /\ h9 = {}]
      /\ UNCHANGED <<h1, h2, h3, h7, h9>> /\ h8' = [by |-> h6', items |-> h7']
    BY DEF Dash!Choose, Dash!Redrawn
<1>2. h6 \in DashChoice /\ h7 \in DashShown /\ h10 \in DashView /\ h8.items \in DashShown
    BY DEF DashInv, DashTypes
<1>3. PICK I : I = Dash!ItemsOf(h7) \union Dash!ItemsOf(h8.items)
    OBVIOUS
<1>4. I \subseteq DashItem
    BY <1>3, DashItems
<1>5. Dash!channelModelData(h8) \subseteq I /\ Dash!modelChannelData(h8) \subseteq I
    BY <1>3 DEF Dash!channelModelData, Dash!modelChannelData, Dash!Top
<1>6. /\ \A i \in Dash!channelItems(h7) : i.channel \in {k.channel : k \in Dash!ItemsOf(h7)}
      /\ \A i \in Dash!channelItems(h8.items) : i.channel \in {k.channel : k \in Dash!ItemsOf(h8.items)}
    <2>1. \A w, c : DashNamed(w, c).channel = c
        BY DEF DashNamed, Dash!Item
    <2> QED
        BY <2>1, DashNames
<1>7. \A i \in Dash!channelQuotaData(h8) : i \in Dash!channelItems(h8.items)
    BY DEF Dash!channelQuotaData, Dash!Top
<1>8. \/ \E n \in Dash!Tops : h6' = [h6 EXCEPT !.top = n]
      \/ \E i \in I : h6' = [h6 EXCEPT !.model = i.model]
      \/ \E i \in I : h6' = [h6 EXCEPT !.channel = i.channel]
    <2>1. \A m \in {i.model : i \in Dash!ItemsOf(h7) \union Dash!channelModelData(h8)} :
              \E i \in I : m = i.model
        BY <1>3, <1>5
    <2>2. \A c \in {i.channel : i \in Dash!channelItems(h7) \union Dash!channelQuotaData(h8)
                                          \union Dash!modelChannelData(h8)} :
              \E i \in I : c = i.channel
        BY <1>3, <1>5, <1>6, <1>7
    <2> QED
        BY <2>1, <2>2 DEF Dash!Choose
<1>9. h6' \in DashChoice /\ h6'.window = h6.window
    BY <1>2, <1>4, <1>8 DEF DashChoice, DashItem
<1>10. h10' = [edited |-> h10.edited, calm |-> h10.calm /\ h9 = {}, kept |-> h10.kept,
               clicks |-> h10.clicks + 1]
    BY <1>1, <1>2 DEF DashView
<1>11. h10' \in DashView
    BY <1>2, <1>10 DEF DashView
<1>12. h8' \in [by : DashChoice, items : DashShown]
    BY <1>1, <1>2, <1>9
<1>13. DashTypes'
    BY <1>1, <1>9, <1>11, <1>12 DEF DashInv, DashTypes
<1>14. DashStages'
    BY <1>1 DEF DashInv, DashStages
<1>15. DashWorks'
    <2> SUFFICES ASSUME DashCalm' PROVE DashWorks'
        BY DEF DashWorks
    <2>1. DashCalm /\ h9 = {} /\ (h10'.edited = h10.edited)
        <3>1. h10'.calm /\ h10'.kept
            BY DEF DashCalm
        <3> QED
            BY <1>2, <1>10, <3>1 DEF DashCalm, DashView
    <2>2. DashListed /\ h8 = [by |-> h6, items |-> h7] /\ (h10.edited \/ DashCharted)
        BY <2>1 DEF DashInv, DashWorks
    <2>3. I = Dash!ItemsOf(h7)
        BY <1>3, <2>2
    <2>4. DashSelectedIn(h6', h7)
        BY <1>2, <1>8, <2>2, <2>3 DEF DashListed, DashSelectedIn, DashChoice
    <2>5. DashListed'
        BY <1>1, <1>9, <2>2, <2>4 DEF DashListed, DashSelectedIn
    <2>6. h10'.edited \/ DashCharted'
        BY <1>1, <2>1, <2>2 DEF DashCharted
    <2> QED
        BY <1>1, <2>1, <2>5, <2>6 DEF DashWorks
<1> QED
    BY <1>13, <1>14, <1>15 DEF DashInv

\* A handler that fails is over, and nothing is promised after it.
LEMMA DashFails ==
    ASSUME DashInv, NEW jobs, jobs \subseteq DashJob, h9' = jobs, DashStages', Dash!Failed,
           h1' = h1, h2' = h2, h3' \in [range : Dash!Ranges \union {"none"}, gran : Dash!Grans,
                                        data : Dash!Data \union {"none"}],
           h6' \in DashChoice, h7' \in DashShown, h8' \in [by : DashChoice, items : DashShown]
    PROVE  DashInv'
<1>1. h10' = [h10 EXCEPT !.kept = FALSE] /\ h10 \in DashView
    BY DEF Dash!Failed, DashInv, DashTypes
<1>2. h10' \in DashView /\ ~h10'.kept
    BY <1>1 DEF DashView
<1>3. DashTypes'
    BY <1>2 DEF DashInv, DashTypes
<1>4. DashWorks'
    BY <1>2 DEF DashWorks, DashCalm
<1> QED
    BY <1>3, <1>4 DEF DashInv

LEMMA DashBroken == ASSUME NEW j \in h9 PROVE DashInv /\ Dash!Broken(j) => DashInv'
<1> SUFFICES ASSUME DashInv, Dash!Broken(j) PROVE DashInv'
    OBVIOUS
<1>1. /\ h9' = h9 \ {j} /\ Dash!Failed /\ UNCHANGED <<h1, h2, h3, h6, h7, h8>>
    BY DEF Dash!Broken, Dash!Replace
<1>2. DashStages'
    BY <1>1 DEF DashInv, DashStages
<1>3. h9' \subseteq DashJob
    BY <1>1 DEF DashInv, DashTypes
<1>4. /\ h3' \in [range : Dash!Ranges \union {"none"}, gran : Dash!Grans,
                  data : Dash!Data \union {"none"}]
      /\ h6' \in DashChoice /\ h7' \in DashShown /\ h8' \in [by : DashChoice, items : DashShown]
    BY <1>1 DEF DashInv, DashTypes
<1>5. PICK js : js = h9'
    OBVIOUS
<1> QED
    BY <1>1, <1>2, <1>3, <1>4, <1>5, DashFails

LEMMA DashKinds ==
    ASSUME DashInv, NEW j \in h9
    PROVE  /\ j.stage = "quota" => j.kind \in {"init", "refresh", "search"}
           /\ j.stage \in {"both", "others", "last"} => j.kind \in {"refresh", "search"}
           /\ j.stage = "channel" => j.kind \in {"init", "window"}
<1>1. j \in DashJob
    BY DEF DashInv, DashTypes
<1>2. j.kind \in {"init", "refresh", "search", "window"}
    BY <1>1 DEF DashJob
<1>3. /\ j.kind = "init" => j.stage \in {"quota", "channel"}
      /\ j.kind = "window" => j.stage = "channel"
      /\ j.kind \in {"refresh", "search"} => j.stage \in {"quota", "both", "others", "last"}
    BY DEF DashInv, DashStages
<1> QED
    BY <1>2, <1>3

\* What a handler draws in the end.
LEMMA DashUpdates ==
    ASSUME DashTypes, NEW j \in DashJob, Dash!updateChartData(j)
    PROVE  /\ h3' \in [range : Dash!Ranges \union {"none"}, gran : Dash!Grans,
                       data : Dash!Data \union {"none"}]
           /\ j.data # "none" => h3' = [range |-> j.of.range, gran |-> j.of.gran, data |-> j.data]
           /\ j.data = "none" => h3' = h3
<1>1. j.of \in DashInputs /\ j.data \in Dash!Data \union {"none"}
    BY DEF DashJob
<1>2. [range |-> j.of.range, gran |-> j.of.gran, data |-> j.data] \in
          [range : Dash!Ranges \union {"none"}, gran : Dash!Grans, data : Dash!Data \union {"none"}]
    BY <1>1 DEF DashInputs
<1> QED
    BY <1>2 DEF DashTypes, Dash!updateChartData

LEMMA DashQuoted ==
    ASSUME NEW j \in h9, NEW r \in {"ok", "refused", "broken"}
    PROVE  DashInv /\ Dash!QuotaAnswered(j, r) => DashInv'
<1> SUFFICES ASSUME DashInv, Dash!QuotaAnswered(j, r) PROVE DashInv'
    OBVIOUS
<1> DEFINE answer == IF r = "ok" THEN h1[j.of.range] ELSE "none"
           next == IF j.kind = "init" THEN "channel" ELSE "both"
<1>1. PICK a : a = [j EXCEPT !.data = answer]
    OBVIOUS
<1>2. PICK k : k = [a EXCEPT !.stage = next]
    OBVIOUS
<1>3. /\ j.stage = "quota" /\ UNCHANGED <<h1, h2, h6, h7, h8>>
      /\ h9' = (h9 \ {j}) \union (IF r = "broken" THEN {} ELSE {k})
      /\ IF j.kind = "init" THEN Dash!updateChartData(a) ELSE h3' = h3
      /\ IF r = "ok" THEN h10' = h10 ELSE Dash!Failed
    BY <1>1, <1>2 DEF Dash!QuotaAnswered, Dash!Replace
<1>4. j \in DashJob /\ DashTypes
    BY DEF DashInv, DashTypes
<1>5. answer \in Dash!Data \union {"none"} /\ (r = "ok" => answer \in Dash!Data)
    BY <1>4 DEF DashJob, DashInputs, DashTypes
<1>6. a \in DashJob /\ a.data = answer /\ a.of = j.of /\ a.kind = j.kind
    BY <1>1, <1>4, <1>5 DEF DashJob
<1>7. /\ k \in DashJob /\ k.data = answer /\ k.of = j.of /\ k.kind = j.kind /\ k.stage = next
      /\ k.window = j.window /\ k.chosen = j.chosen
    BY <1>1, <1>2, <1>4, <1>5 DEF DashJob
<1>8. j.kind \in {"init", "refresh", "search"}
    BY <1>3, DashKinds
<1>9. DashStages'
    <2>1. /\ k.kind = "init" => k.stage = "channel"
          /\ k.kind # "init" => k.stage = "both"
          /\ k.kind # "window"
        BY <1>7, <1>8
    <2> QED
        BY <1>3, <2>1 DEF DashInv, DashStages
<1>10. /\ h3' \in [range : Dash!Ranges \union {"none"}, gran : Dash!Grans,
                   data : Dash!Data \union {"none"}]
       /\ j.kind = "init" /\ r = "ok" =>
              h3' = [range |-> j.of.range, gran |-> j.of.gran, data |-> answer]
    <2>1. CASE j.kind = "init"
        BY <1>3, <1>4, <1>5, <1>6, <2>1, DashUpdates, DashNones
    <2>2. CASE j.kind # "init"
        BY <1>3, <1>4, <2>2 DEF DashTypes
    <2> QED
        BY <2>1, <2>2
<1>11. h9' \subseteq DashJob
    BY <1>3, <1>4, <1>7 DEF DashTypes
<1>12. CASE r # "ok"
    <2>1. /\ h6' \in DashChoice /\ h7' \in DashShown /\ h8' \in [by : DashChoice, items : DashShown]
        BY <1>3, <1>4 DEF DashTypes
    <2>2. PICK js : js = h9'
        OBVIOUS
    <2> QED
        BY <1>3, <1>9, <1>10, <1>11, <1>12, <2>1, <2>2, DashFails
<1>13. CASE r = "ok"
    <2>1. h10' = h10 /\ h9' = (h9 \ {j}) \union {k}
        BY <1>3, <1>13
    <2>2. DashTypes'
        BY <1>3, <1>4, <1>10, <1>11, <2>1 DEF DashTypes
    <2>3. DashWorks'
        <3> SUFFICES ASSUME DashCalm' PROVE DashWorks'
            BY DEF DashWorks
        <3>1. DashCalm
            BY <2>1 DEF DashCalm
        <3>2. h9 = {j} /\ DashLists(j) /\ DashFigures(j)
            BY <3>1 DEF DashInv, DashWorks
        <3>3. h9' = {k}
            BY <2>1, <3>2
        <3>4. DashLists(k)'
            BY <1>3, <1>7, <3>2 DEF DashLists
        <3>5. DashFigures(k)'
            <4>1. CASE h10.edited
                BY <2>1, <4>1 DEF DashFigures
            <4>2. CASE ~h10.edited
                <5>1. j.of = h2
                    BY <1>3, <1>8, <3>2, <4>2 DEF DashFigures
                <5>2. answer = h1[h2.range]
                    BY <1>13, <5>1
                <5>3. j.kind = "init" => DashCharted'
                    BY <1>3, <1>10, <1>13, <5>1, <5>2 DEF DashCharted
                <5> HIDE DEF answer
                <5>4. CASE j.kind = "init"
                    <6>1. k.kind = "init" /\ k.stage = "channel"
                        BY <1>7, <5>4
                    <6> QED
                        BY <5>3, <5>4, <6>1 DEF DashFigures
                <5>5. CASE j.kind # "init"
                    <6>1. k.kind \in {"refresh", "search"} /\ k.of = h2' /\ k.data = h1'[h2'.range]
                        BY <1>3, <1>7, <1>8, <5>1, <5>2, <5>5
                    <6> QED
                        BY <6>1 DEF DashFigures
                <5> QED
                    BY <5>4, <5>5
            <4> QED
                BY <4>1, <4>2
        <3> QED
            BY <3>3, <3>4, <3>5 DEF DashWorks
    <2> QED
        BY <1>9, <2>2, <2>3 DEF DashInv
<1> QED
    BY <1>12, <1>13

\* A refresh or a search at its end draws the figures that it asked for.
LEMMA DashFinishes ==
    ASSUME DashInv, DashCalm, NEW j \in h9, j.kind \in {"refresh", "search"}, j.stage # "quota",
           Dash!updateChartData(j), h1' = h1, h2' = h2
    PROVE  h10.edited \/ DashCharted'
<1>1. DashFigures(j) /\ DashTypes /\ j \in DashJob
    BY DEF DashInv, DashWorks, DashTypes
<1>2. CASE ~h10.edited
    <2>1. j.of = h2 /\ j.data = h1[h2.range]
        BY <1>1, <1>2 DEF DashFigures
    <2>2. j.data # "none"
        BY <1>1, <2>1, DashNones DEF DashTypes, DashInputs
    <2> QED
        BY <1>1, <2>1, <2>2, DashUpdates DEF DashCharted
<1> QED
    BY <1>2

LEMMA DashAnswers ==
    ASSUME NEW j \in h9, NEW r \in {"ok", "refused"}
    PROVE  DashInv /\ Dash!ChannelAnswered(j, r) => DashInv'
<1> SUFFICES ASSUME DashInv, Dash!ChannelAnswered(j, r) PROVE DashInv'
    OBVIOUS
<1>1. PICK got : got = IF r = "ok" THEN j.window ELSE "none"
    OBVIOUS
<1>2. PICK s : s = Dash!Selected(j, got)
    OBVIOUS
<1>3. PICK k : k = [j EXCEPT !.stage = "others", !.got = got]
    OBVIOUS
<1>4. /\ j.stage \in {"channel", "both", "last"}
      /\ h7' = got /\ h6' = [h6 EXCEPT !.model = s.model, !.channel = s.channel]
      /\ h9' = (h9 \ {j}) \union (IF j.stage = "both" THEN {k} ELSE {})
      /\ h8' = [by |-> h6', items |-> h7']
      /\ IF j.stage = "last" THEN Dash!updateChartData(j) ELSE h3' = h3
      /\ IF r = "ok" THEN h10' = h10 ELSE Dash!Failed
      /\ UNCHANGED <<h1, h2>>
    BY <1>1, <1>2, <1>3 DEF Dash!ChannelAnswered, Dash!Replace, Dash!Redrawn, Dash!Finish
<1>5. j \in DashJob /\ DashTypes /\ h6 \in DashChoice
    BY DEF DashInv, DashTypes
<1>6. got \in DashShown /\ (r = "ok" => got \in Dash!Windows)
    BY <1>1, <1>5 DEF DashJob, DashShown
<1>7. /\ s.model \in {"", "a", "b"} /\ s.channel \in {0, 1, 2}
      /\ r = "ok" => DashSelectedIn(s, got)
    BY <1>2, <1>5, <1>6, DashSelects
<1>8. /\ h6' \in DashChoice /\ h6'.window = h6.window
      /\ h6'.model = s.model /\ h6'.channel = s.channel
    BY <1>4, <1>5, <1>7 DEF DashChoice
<1>9. h7' \in DashShown /\ h8' \in [by : DashChoice, items : DashShown]
    BY <1>4, <1>6, <1>8
<1>10. /\ k \in DashJob /\ k.stage = "others" /\ k.got = got /\ k.kind = j.kind
       /\ k.window = j.window /\ k.chosen = j.chosen /\ k.of = j.of /\ k.data = j.data
    BY <1>3, <1>5, <1>6 DEF DashJob
<1>11. j.stage = "both" => j.kind \in {"refresh", "search"}
    BY DashKinds
<1>12. DashStages'
    BY <1>4, <1>10, <1>11 DEF DashInv, DashStages
<1>13. h9' \subseteq DashJob
    BY <1>4, <1>5, <1>10 DEF DashTypes
<1>14. h3' \in [range : Dash!Ranges \union {"none"}, gran : Dash!Grans,
                data : Dash!Data \union {"none"}]
    BY <1>4, <1>5, DashUpdates DEF DashTypes
<1>15. CASE r # "ok"
    <2>1. PICK js : js = h9'
        OBVIOUS
    <2> QED
        BY <1>4, <1>8, <1>9, <1>12, <1>13, <1>14, <1>15, <2>1, DashFails
<1>16. CASE r = "ok"
    <2>1. h10' = h10 /\ got = j.window /\ got \in Dash!Windows /\ DashSelectedIn(s, got)
        BY <1>1, <1>4, <1>6, <1>7, <1>16
    <2>2. DashTypes'
        BY <1>4, <1>5, <1>8, <1>9, <1>13, <1>14, <2>1 DEF DashTypes
    <2>3. DashWorks'
        <3> SUFFICES ASSUME DashCalm' PROVE DashWorks'
            BY DEF DashWorks
        <3>1. DashCalm
            BY <2>1 DEF DashCalm
        <3>2. h9 = {j} /\ DashLists(j) /\ DashFigures(j)
            BY <3>1 DEF DashInv, DashWorks
        <3>3. DashListed'
            BY <1>4, <1>8, <2>1, <3>2 DEF DashListed, DashSelectedIn, DashLists
        <3>4. CASE j.stage = "both"
            <4>1. h9' = {k} /\ h3' = h3
                BY <1>4, <3>2, <3>4
            <4>2. j.chosen = h6
                BY <3>2, <3>4 DEF DashLists
            <4>3. Dash!Selected(k, got) = s
                BY <1>2, <1>10, Zenon DEF Dash!Selected
            <4>4. DashLists(k)'
                <5>1. h6' = [k.chosen EXCEPT !.model = Dash!Selected(k, k.got).model,
                                             !.channel = Dash!Selected(k, k.got).channel]
                    BY <1>4, <1>10, <4>2, <4>3
                <5>2. k.window = h6'.window
                    BY <1>8, <1>10, <3>2 DEF DashLists
                <5>3. k.got = k.window
                    BY <1>10, <2>1
                <5> QED
                    BY <1>10, <3>3, <5>1, <5>2, <5>3 DEF DashLists, Dash!Selected
            <4>5. DashFigures(k)'
                <5>1. h10.edited \/ (k.kind \in {"refresh", "search"} /\ k.of = h2 /\ k.data = h1[h2.range])
                    BY <1>10, <1>11, <3>2, <3>4 DEF DashFigures
                <5> QED
                    BY <1>4, <2>1, <5>1 DEF DashFigures
            <4> QED
                BY <4>1, <4>4, <4>5 DEF DashWorks
        <3>5. CASE j.stage # "both"
            <4>1. h9' = {}
                BY <1>4, <3>2, <3>5
            <4>2. h10'.edited \/ DashCharted'
                <5>1. CASE j.stage = "last"
                    <6>1. j.kind \in {"refresh", "search"}
                        BY  <5>1, DashKinds
                    <6> QED
                        BY <1>4, <2>1, <3>1, <5>1, <6>1, DashFinishes
                <5>2. CASE j.stage = "channel"
                    <6>1. j.kind \in {"init", "window"}
                        BY  <5>2, DashKinds
                    <6>2. h10.edited \/ DashCharted
                        BY <3>2, <5>2, <6>1 DEF DashFigures
                    <6> QED
                        BY <1>4, <2>1, <5>2, <6>2 DEF DashCharted
                <5> QED
                    BY <1>4, <3>5, <5>1, <5>2
            <4> QED
                BY <1>4, <3>3, <4>1, <4>2 DEF DashWorks
        <3> QED
            BY <3>4, <3>5
    <2> QED
        BY <1>12, <2>2, <2>3 DEF DashInv
<1> QED
    BY <1>15, <1>16

LEMMA DashOthers == ASSUME NEW j \in h9 PROVE DashInv /\ Dash!OthersAnswered(j) => DashInv'
<1> SUFFICES ASSUME DashInv, Dash!OthersAnswered(j) PROVE DashInv'
    OBVIOUS
<1>1. j \in DashJob /\ DashTypes /\ h6 \in DashChoice
    BY DEF DashInv, DashTypes
<1>2. j.stage \in {"both", "others"} /\ UNCHANGED <<h1, h2, h6, h7, h10>>
    BY Zenon DEF Dash!OthersAnswered
<1>3. j.kind \in {"refresh", "search"}
    BY <1>2, DashKinds
<1>4. CASE j.stage = "both"
    <2>1. PICK k : k = [j EXCEPT !.stage = "last"]
        OBVIOUS
    <2>2. h9' = (h9 \ {j}) \union {k} /\ UNCHANGED <<h3, h8>>
        BY <1>4, <2>1 DEF Dash!OthersAnswered, Dash!Replace
    <2>3. k \in DashJob /\ k.stage = "last" /\ k.kind = j.kind /\ k.window = j.window /\ k.of = j.of /\ k.data = j.data
        BY <1>1, <2>1 DEF DashJob
    <2>4. DashTypes'
        BY <1>1, <1>2, <2>2, <2>3 DEF DashTypes
    <2>5. DashStages'
        BY <1>3, <2>2, <2>3 DEF DashInv, DashStages
    <2>6. DashWorks'
        <3> SUFFICES ASSUME DashCalm' PROVE DashWorks'
            BY DEF DashWorks
        <3>1. h9 = {j} /\ DashLists(j) /\ DashFigures(j)
            BY <1>2 DEF DashInv, DashWorks, DashCalm
        <3>2. DashLists(k)'
            BY <1>2, <2>3, <3>1 DEF DashLists
        <3>3. h10.edited \/ (j.of = h2 /\ j.data = h1[h2.range])
            BY <1>3, <1>4, <3>1 DEF DashFigures
        <3>4. DashFigures(k)'
            BY <1>2, <1>3, <2>3, <3>3 DEF DashFigures
        <3>5. h9' = {k}
            BY <2>2, <3>1
        <3> QED
            BY <3>2, <3>4, <3>5 DEF DashWorks
    <2> QED
        BY <2>4, <2>5, <2>6 DEF DashInv
<1>5. CASE j.stage = "others"
    <2>1. PICK s : s = IF Dash!ItemsOf(j.got) = {} THEN j.chosen ELSE Dash!Selected(j, j.got)
        OBVIOUS
    <2>2. /\ h9' = h9 \ {j} /\ Dash!updateChartData(j)
          /\ h8' = [by |-> [j.chosen EXCEPT !.model = s.model, !.channel = s.channel], items |-> j.got]
        BY <1>5, <2>1 DEF Dash!OthersAnswered, Dash!Replace, Dash!Finish, Dash!updateChannelChartData
    <2>3. h3' \in [range : Dash!Ranges \union {"none"}, gran : Dash!Grans,
                   data : Dash!Data \union {"none"}]
        BY <1>1, <2>2, DashUpdates
    <2>4. h8' \in [by : DashChoice, items : DashShown]
        <3>1. j.chosen \in DashChoice /\ j.got \in DashShown
            BY <1>1 DEF DashJob
        <3>2. s.model \in {"", "a", "b"} /\ s.channel \in {0, 1, 2}
            BY <1>1, <2>1, <3>1, DashSelects DEF DashChoice
        <3> QED
            BY <2>2, <3>1, <3>2 DEF DashChoice
    <2>5. DashTypes'
        BY <1>1, <1>2, <2>2, <2>3, <2>4 DEF DashTypes
    <2>6. DashStages'
        BY <2>2 DEF DashInv, DashStages
    <2>7. DashWorks'
        <3> SUFFICES ASSUME DashCalm' PROVE DashWorks'
            BY DEF DashWorks
        <3>1. DashCalm
            BY <1>2 DEF DashCalm
        <3>2. h9 = {j} /\ DashLists(j)
            BY <3>1 DEF DashInv, DashWorks
        <3>3. /\ DashListed /\ j.got = j.window /\ j.window = h6.window
              /\ h6 = [j.chosen EXCEPT !.model = Dash!Selected(j, j.got).model,
                                       !.channel = Dash!Selected(j, j.got).channel]
            BY <1>5, <3>2 DEF DashLists
        <3>4. Dash!ItemsOf(j.got) # {}
            BY <1>1, <3>3, DashItems DEF DashJob
        <3>5. h8' = [by |-> h6, items |-> h7]
            BY <2>1, <2>2, <3>3, <3>4 DEF DashListed
        <3>6. h10.edited \/ DashCharted'
            BY <1>2, <1>3, <1>5, <2>2, <3>1, DashFinishes
        <3>7. DashListed' /\ h9' = {}
            BY <1>2, <2>2, <3>2, <3>3 DEF DashListed, DashSelectedIn
        <3> QED
            BY <1>2, <3>5, <3>6, <3>7 DEF DashWorks
    <2> QED
        BY <2>5, <2>6, <2>7 DEF DashInv
<1> QED
    BY <1>2, <1>4, <1>5

LEMMA DashSteps == DashInv /\ (Dash!Next \/ UNCHANGED Dash!vars) => DashInv'
<1> SUFFICES ASSUME DashInv, Dash!Next \/ UNCHANGED Dash!vars PROVE DashInv'
    OBVIOUS
<1>1. CASE UNCHANGED Dash!vars
    BY <1>1, DashStays DEF Dash!vars
<1>2. CASE Dash!showSearchModal \/ Dash!handleCloseModal
    BY <1>2, DashStays DEF Dash!showSearchModal, Dash!handleCloseModal
<1>3. CASE \E j \in h9 : \/ \E r \in {"ok", "refused", "broken"} : Dash!QuotaAnswered(j, r)
                         \/ \E r \in {"ok", "refused"} : Dash!ChannelAnswered(j, r)
                         \/ Dash!OthersAnswered(j) \/ Dash!Broken(j)
    BY <1>3, DashQuoted, DashAnswers, DashOthers, DashBroken
<1> QED
    BY <1>1, <1>2, <1>3, DashRefreshes, DashEdits, DashSearches, DashTurns, DashChooses DEF Dash!Next

\* What the page promises.
LEMMA DashKnown == DashInv => Dash!FiguresAreSearched /\ Dash!DrawnIsSelected
<1> SUFFICES ASSUME DashInv PROVE Dash!FiguresAreSearched /\ Dash!DrawnIsSelected
    OBVIOUS
<1>1. CASE Dash!AtRest
    <2>1. DashListed /\ h8 = [by |-> h6, items |-> h7] /\ (h10.edited \/ DashCharted)
        BY <1>1 DEF Dash!AtRest, DashInv, DashWorks, DashCalm
    <2>2. h2 = [range |-> h2.range, gran |-> h2.gran]
        BY DEF DashInv, DashTypes, DashInputs
    <2>3. Dash!FiguresAreSearched
        BY <2>1, <2>2 DEF Dash!FiguresAreSearched, DashCharted
    <2>4. h8.by.window = h6.window
        BY <2>1
    <2>5. Dash!DrawnIsSelected
        BY <2>1, <2>4 DEF Dash!DrawnIsSelected, DashListed, DashSelectedIn
    <2> QED
        BY <2>3, <2>5
<1>2. CASE ~Dash!AtRest
    BY <1>2 DEF Dash!FiguresAreSearched, Dash!DrawnIsSelected
<1> QED
    BY <1>1, <1>2

-----------------------------------------------------------------------------
(* Pages of tables (ConsoleTables, ChannelTable, KeyTable) are cut from the *)
(* ids in order; there is such an order of every finite set of numbers.     *)

LEMMA PagesSorted ==
    ASSUME NEW S \in SUBSET Nat, IsFiniteSet(S)
    PROVE  \E f \in [1..Cardinality(S) -> S] : \A i, j \in DOMAIN f : i < j => f[i] < f[j]
<1> DEFINE n == Cardinality(S)
           upTo(i) == {k \in S : k <= i}
           rank == [i \in S |-> Cardinality(upTo(i))]
<1>1. n \in Nat /\ IsFiniteSet(1..n) /\ Cardinality(1..n) = n
    BY FS_CardinalityType, FS_Interval
<1>2. ASSUME NEW i \in S PROVE rank[i] \in 1..n
    <2>1. IsFiniteSet(upTo(i)) /\ Cardinality(upTo(i)) <= n
        BY FS_Subset
    <2>2. i \in upTo(i)
        OBVIOUS
    <2>3. Cardinality(upTo(i)) \in Nat /\ Cardinality(upTo(i)) # 0
        BY <2>1, <2>2, FS_CardinalityType, FS_EmptySet
    <2> QED
        BY <1>1, <2>1, <2>3
<1>3. ASSUME NEW i \in S, NEW j \in S, i < j PROVE rank[i] < rank[j]
    <2>1. upTo(i) \in SUBSET upTo(j) /\ IsFiniteSet(upTo(j)) /\ upTo(i) # upTo(j)
        <3>1. upTo(i) \in SUBSET upTo(j)
            <4>1. \A k \in S : k <= i => k <= j
                BY <1>3
            <4> QED
                BY <4>1
        <3>2. j \in upTo(j) /\ j \notin upTo(i)
            BY <1>3
        <3>3. IsFiniteSet(upTo(j))
            BY FS_Subset
        <3> HIDE DEF upTo
        <3> QED
            BY <3>1, <3>2, <3>3
    <2>2. Cardinality(upTo(i)) <= Cardinality(upTo(j)) /\ Cardinality(upTo(i)) # Cardinality(upTo(j))
        BY <2>1, FS_Subset
    <2>3. rank[i] \in Nat /\ rank[j] \in Nat
        BY <1>2
    <2> QED
        BY <2>2, <2>3
<1> HIDE DEF n, rank
<1>4. rank \in Injection(S, 1..n)
    <2>1. rank \in [S -> 1..n]
        BY <1>2 DEF rank
    <2>2. ASSUME NEW i \in S, NEW j \in S, rank[i] = rank[j] PROVE i = j
        <3>1. rank[i] \in Nat /\ rank[j] \in Nat
            BY <1>2
        <3>2. ~(i < j) /\ ~(j < i)
            BY <1>3, <2>2, <3>1
        <3> QED
            BY <3>2
    <2> QED
        BY <2>1, <2>2 DEF Injection, IsInjective
<1>5. rank \in Surjection(S, 1..n)
    BY <1>1, <1>4, FS_Injection DEF n
<1>6. \A p \in 1..n : \E i \in S : rank[i] = p
    BY <1>5 DEF Surjection
<1> DEFINE f == [p \in 1..n |-> CHOOSE i \in S : rank[i] = p]
<1>7. \A p \in 1..n : f[p] \in S /\ rank[f[p]] = p
    BY <1>6
<1>8. f \in [1..n -> S]
    BY <1>7
<1>9. ASSUME NEW p \in 1..n, NEW q \in 1..n, p < q PROVE f[p] < f[q]
    <2>1. PICK a \in S : a = f[p] /\ rank[a] = p
        BY <1>7
    <2>2. PICK b \in S : b = f[q] /\ rank[b] = q
        BY <1>7
    <2>3. ~(b < a) /\ a # b
        <3>1. p \in Nat /\ q \in Nat /\ ~(rank[b] < rank[a])
            BY <1>1, <1>9, <2>1, <2>2
        <3> QED
            BY <1>3, <1>9, <2>1, <2>2, <3>1
    <2>4. a < b
        BY <2>3
    <2> QED
        BY <2>1, <2>2, <2>4
<1> HIDE DEF f
<1>10. DOMAIN f = 1..n
    BY <1>8
<1> QED
    BY <1>8, <1>9, <1>10 DEF n

-----------------------------------------------------------------------------
(* The table of the channels (ChannelTable): as long as nothing has come    *)
(* between, what is still to be shown is the page that is named, and        *)
(* whatever turns has something to wait for.                                *)

Channels == INSTANCE ChannelTable
    WITH server <- h1, keyword <- h2, at <- h3, rows <- h4, loading <- h5, gets <- h6,
         act <- h7, view <- h8, count <- h9

LEMMA ChannelsCount == \A S : Channels!Cardinality(S) = Cardinality(S)
BY DEF Channels!Cardinality, Cardinality

LEMMA ChannelsSorted ==
    ASSUME NEW S \in SUBSET Nat, IsFiniteSet(S)
    PROVE  Channels!Sorted(S) \in [1..Cardinality(S) -> S]
<1>1. \E f \in [1..Cardinality(S) -> S] : \A i, j \in DOMAIN f : i < j => f[i] < f[j]
    BY PagesSorted
<1> QED
    BY <1>1, ChannelsCount DEF Channels!Sorted

\* The rows of a page, whichever it is, are channels with their status.
ChannelsRow == [id : Nat, on : BOOLEAN]
ChannelsTrue(rows) == \A i \in DOMAIN rows : rows[i].id \in DOMAIN h1 /\ rows[i].on = h1[rows[i].id]

LEMMA ChannelsPaged ==
    ASSUME DOMAIN h1 \subseteq Channels!Items, h1 \in [DOMAIN h1 -> BOOLEAN],
           NEW search \in BOOLEAN, NEW only \in BOOLEAN, NEW p \in Nat, NEW size \in Channels!Sizes
    PROVE  /\ Channels!PageOf(search, p, size, only) \in Seq(ChannelsRow)
           /\ ChannelsTrue(Channels!PageOf(search, p, size, only))
<1>1. PICK S : S = Channels!Found(search, only)
    OBVIOUS
<1>2. S \subseteq DOMAIN h1 /\ S \subseteq 1..MaxItems
    BY <1>1 DEF Channels!Found, Channels!Items
<1>3. S \in SUBSET Nat /\ IsFiniteSet(S)
    <2>1. S \in SUBSET Nat /\ \A x \in S : x <= MaxItems
        BY <1>2, PagesAssumption
    <2> QED
        BY <2>1, PagesAssumption, FS_BoundedSetOfNaturals
<1>4. PICK n : n = Cardinality(S)
    OBVIOUS
<1>5. PICK all : all = Channels!Sorted(S)
    OBVIOUS
<1>6. n \in Nat /\ all \in [1..n -> S]
    BY <1>3, <1>4, <1>5, ChannelsSorted, FS_CardinalityType
<1>7. all \in Seq(S) /\ Len(all) = n
    BY <1>6
<1>8. PICK q : q = Channels!Max({p, 1})
    OBVIOUS
<1>9. q \in Nat /\ q >= 1
    BY <1>8 DEF Channels!Max
<1>10. PICK lo : lo = (q - 1) * size + 1
    OBVIOUS
<1>11. lo \in Nat /\ lo >= 1 /\ q * size \in Nat
    BY <1>9, <1>10 DEF Channels!Sizes
<1>12. PICK hi : hi = Channels!Min({q * size, n})
    OBVIOUS
<1>13. hi \in Int /\ hi <= n
    BY <1>6, <1>11, <1>12 DEF Channels!Min
<1>14. PICK here : here = SubSeq(all, lo, hi)
    OBVIOUS
<1>15. here \in Seq(S)
    <2>1. \A i \in lo..hi : all[i] \in S
        BY <1>6, <1>11, <1>13
    <2> QED
        BY <1>11, <1>13, <1>14, <2>1, SubSeqProperties
<1>16. \A i \in DOMAIN here : here[i] \in DOMAIN h1 /\ here[i] \in Nat
    BY <1>2, <1>3, <1>15
<1>17. PICK page0 : page0 = Channels!PageOf(search, p, size, only)
    OBVIOUS
<1>18. page0 = [i \in DOMAIN here |-> [id |-> here[i], on |-> h1[here[i]]]]
    BY <1>1, <1>5, <1>7, <1>8, <1>10, <1>12, <1>14, <1>17, Zenon DEF Channels!PageOf
<1>19. DOMAIN here = 1..Len(here) /\ Len(here) \in Nat
    BY <1>15
<1>20. \A i \in 1..Len(here) : [id |-> here[i], on |-> h1[here[i]]] \in ChannelsRow
    BY <1>16, <1>19 DEF ChannelsRow
<1>21. page0 \in Seq(ChannelsRow)
    BY <1>18, <1>19, <1>20
<1>22. ChannelsTrue(page0)
    BY <1>16, <1>18 DEF ChannelsTrue
<1> QED
    BY <1>17, <1>21, <1>22

ChannelsAt == [page : Nat, size : Channels!Sizes, only : BOOLEAN]
ChannelsFlags == {"loading", "searching"}
ChannelsGet ==
    [search : BOOLEAN, page : Nat, size : Channels!Sizes, only : BOOLEAN,
     ends : SUBSET ChannelsFlags, newest : BOOLEAN,
     answer : {<<>>} \union {<<rows>> : rows \in Seq(ChannelsRow)}]
ChannelsAct ==
    [what : {"switch", "delete", "test", "batch"}, ids : SUBSET Nat, rows : Seq(ChannelsRow),
     at : ChannelsAt]
ChannelsView == [search : BOOLEAN, known : BOOLEAN, exact : BOOLEAN, sure : BOOLEAN]
ChannelsTypes ==
    /\ DOMAIN h1 \subseteq Channels!Items /\ h1 \in [DOMAIN h1 -> BOOLEAN]
    /\ h2 \in BOOLEAN /\ h3 \in ChannelsAt /\ h4 \in Seq(ChannelsRow)
    /\ h5 \subseteq ChannelsFlags /\ h6 \subseteq ChannelsGet
    /\ h7 \in {<<>>} \union {<<a>> : a \in ChannelsAct} /\ h8 \in ChannelsView

\* What turns until the answer to a GET.
ChannelsEnds(g) == g.ends \union (IF Channels!Shown(g) THEN {Channels!Spinner(g)} ELSE {})
ChannelsBatch == h7 # <<>> /\ h7[1].what = "batch"
ChannelsTurns ==
    h8.sure => \A s \in h5 : (\E g \in h6 : s \in ChannelsEnds(g)) \/ (s = "loading" /\ ChannelsBatch)

\* An answer that will be shown is of the page that is named, or names it; it
\* says what the server has.
ChannelsFits(g) ==
    Channels!Shown(g) =>
        /\ g.size = h3.size /\ g.only = h3.only
        /\ g.search \/ g.page = h3.page \/ (g.page = 0 /\ h3.page = 1)
ChannelsAnswered(g) ==
    g.answer # <<>> => g.answer = <<Channels!PageOf(g.search, g.page, g.size, g.only)>>
ChannelsGets ==
    h8.sure =>
        /\ \A g \in h6 : ChannelsFits(g) /\ ChannelsAnswered(g)
        /\ \A g, k \in h6 :
              Channels!Shown(g) /\ Channels!Shown(k) => Channels!Address(g) = Channels!Address(k)

\* With nothing to be shown, the rows are the page.
ChannelsRows ==
    h8.sure /\ (\A g \in h6 : ~Channels!Shown(g)) =>
        /\ ChannelsTrue(h4)
        /\ h8.exact => h4 = Channels!PageOf(h8.search, h3.page, h3.size, h3.only)
ChannelsInv == ChannelsTypes /\ ChannelsTurns /\ ChannelsGets /\ ChannelsRows

\* A page depends on nothing but the server; the page of an event is the first.
LEMMA ChannelsSame ==
    h1' = h1 => \A s, p, z, o : Channels!PageOf(s, p, z, o)' = Channels!PageOf(s, p, z, o)
<1> SUFFICES ASSUME h1' = h1, NEW s, NEW p, NEW z, NEW o
             PROVE  Channels!PageOf(s, p, z, o)' = Channels!PageOf(s, p, z, o)
    OBVIOUS
<1>1. Channels!Found(s, o)' = Channels!Found(s, o)
    BY DEF Channels!Found
<1> QED
    BY <1>1 DEF Channels!PageOf

LEMMA ChannelsFirst ==
    ASSUME NEW s, NEW z, NEW o
    PROVE  Channels!PageOf(s, 0, z, o) = Channels!PageOf(s, 1, z, o)
<1>1. Channels!Max({0, 1}) = 1 /\ Channels!Max({1, 1}) = 1
    BY DEF Channels!Max
<1> QED
    BY <1>1 DEF Channels!PageOf

\* The request that a load or a search asks, and what turns until its answer.
LEMMA ChannelsLoads ==
    ASSUME ChannelsTypes, NEW p \in Nat, NEW size \in Channels!Sizes, NEW only \in BOOLEAN,
           NEW ends \in SUBSET ChannelsFlags,
           Channels!loadChannels(p, size, only, ends) \/ Channels!searchChannels(p, size, only, ends)
    PROVE  \E new \in ChannelsGet :
               /\ new.search = h2 /\ new.newest = ~h2 /\ new.answer = <<>>
               /\ new.page = p /\ new.size = size /\ new.only = only
               /\ h6' = Channels!Joined(new) /\ ends \subseteq new.ends
               /\ h5' \subseteq h5 \union ChannelsEnds(new)
<1>1. h2 \in BOOLEAN
    BY DEF ChannelsTypes
<1>2. ASSUME NEW e \in SUBSET ChannelsFlags
      PROVE  /\ Channels!Ask(p, size, only, e) \in ChannelsGet
             /\ Channels!Ask(p, size, only, e) =
                    [search |-> h2, page |-> p, size |-> size, only |-> only, ends |-> e,
                     newest |-> ~h2, answer |-> <<>>]
    BY <1>1 DEF Channels!Ask, ChannelsGet
<1>3. ASSUME NEW e \in SUBSET ChannelsFlags
      PROVE  ChannelsEnds(Channels!Ask(p, size, only, e)) =
                 e \union (IF h2 THEN {"searching"} ELSE {"loading"})
    <2>1. PICK g : g = Channels!Ask(p, size, only, e)
        OBVIOUS
    <2>2. g.search = h2 /\ g.newest = ~h2 /\ g.ends = e
        BY <1>2, <2>1
    <2>3. ChannelsEnds(g) = e \union (IF h2 THEN {"searching"} ELSE {"loading"})
        BY <1>1, <2>2 DEF ChannelsEnds, Channels!Shown, Channels!Spinner
    <2> QED
        BY <2>1, <2>3
<1>4. CASE Channels!loadChannels(p, size, only, ends)
    <2>1. PICK e : e = ends \union (IF h2 THEN {"loading"} ELSE {})
        OBVIOUS
    <2>2. e \in SUBSET ChannelsFlags /\ ends \subseteq e
        BY <2>1 DEF ChannelsFlags
    <2>3. PICK new : new = Channels!Ask(p, size, only, e)
        OBVIOUS
    <2>4. /\ h6' = Channels!Joined(new)
          /\ h5' = h5 \union {"loading"} \union (IF h2 THEN {"searching"} ELSE {})
        BY <1>4, <2>1, <2>3 DEF Channels!loadChannels
    <2>5. ChannelsEnds(new) = e \union (IF h2 THEN {"searching"} ELSE {"loading"})
        BY <1>3, <2>2, <2>3
    <2>6. h5' \subseteq h5 \union ChannelsEnds(new)
        BY <2>1, <2>4, <2>5
    <2> QED
        BY <1>2, <2>2, <2>3, <2>4, <2>6
<1>5. CASE Channels!searchChannels(p, size, only, ends)
    <2>1. PICK e : e = ends \union (IF h2 THEN {} ELSE {"searching"})
        OBVIOUS
    <2>2. e \in SUBSET ChannelsFlags /\ ends \subseteq e
        BY <2>1 DEF ChannelsFlags
    <2>3. PICK new : new = Channels!Ask(p, size, only, e)
        OBVIOUS
    <2>4. /\ h6' = Channels!Joined(new)
          /\ h5' = h5 \union {"searching"} \union (IF h2 THEN {} ELSE {"loading"})
        BY <1>5, <2>1, <2>3 DEF Channels!searchChannels
    <2>5. ChannelsEnds(new) = e \union (IF h2 THEN {"searching"} ELSE {"loading"})
        BY <1>3, <2>2, <2>3
    <2>6. h5' \subseteq h5 \union ChannelsEnds(new)
        BY <2>1, <2>4, <2>5
    <2> QED
        BY <1>2, <2>2, <2>3, <2>4, <2>6
<1> QED
    BY <1>4, <1>5

\* How it joins the others: each of those is still there, but for the newest
\* being another.
LEMMA ChannelsJoins ==
    ASSUME NEW gets \in SUBSET ChannelsGet, gets = h6, NEW new \in ChannelsGet,
           new.newest = ~new.search, NEW joined, joined = Channels!Joined(new)
    PROVE  /\ joined \subseteq ChannelsGet
           /\ \A g \in gets \union {new} : \A s \in ChannelsEnds(g) :
                  \E k \in joined : s \in ChannelsEnds(k)
           /\ \A k \in joined :
                  \/ k = new
                  \/ \E g \in gets :
                        /\ Channels!Address(k) = Channels!Address(g) /\ k.answer = g.answer
                        /\ Channels!Shown(k) /\ Channels!Address(k) # Channels!Address(new) =>
                               g.search \/ new.search
           /\ \E k \in joined : Channels!Shown(k)
<1> DEFINE older(g) == [g EXCEPT !.newest = @ /\ new.search]
           merged(g) == [g EXCEPT !.newest = new.newest, !.ends = @ \union new.ends]
<1>1. PICK old : old = {older(g) : g \in gets}
    OBVIOUS
<1>2. PICK same : same = {g \in old : Channels!Address(g) = Channels!Address(new)}
    OBVIOUS
<1>3. joined = (old \ same) \union (IF same = {} THEN {new} ELSE {merged(g) : g \in same})
    BY <1>1, <1>2 DEF Channels!Joined
<1>4. ASSUME NEW g \in gets
      PROVE  /\ older(g) \in ChannelsGet /\ Channels!Address(older(g)) = Channels!Address(g)
             /\ older(g).answer = g.answer /\ older(g).ends = g.ends
             /\ older(g).search = g.search /\ older(g).newest = (g.newest /\ new.search)
    BY DEF ChannelsGet, Channels!Address
<1>5. ASSUME NEW g \in ChannelsGet
      PROVE  /\ merged(g) \in ChannelsGet /\ Channels!Address(merged(g)) = Channels!Address(g)
             /\ merged(g).answer = g.answer /\ merged(g).ends = g.ends \union new.ends
             /\ merged(g).search = g.search /\ merged(g).newest = new.newest
    BY DEF ChannelsGet, Channels!Address
<1> HIDE DEF older, merged
<1>6. old \subseteq ChannelsGet /\ same \subseteq ChannelsGet
    BY <1>1, <1>2, <1>4
<1>7. joined \subseteq ChannelsGet
    BY <1>3, <1>5, <1>6
<1>8. \A g \in ChannelsGet : Channels!Address(g) = Channels!Address(new) => g.search = new.search
    BY DEF Channels!Address
<1>9. ASSUME NEW g \in ChannelsGet
      PROVE  ChannelsEnds(g) = g.ends \union (IF g.search THEN {"searching"}
                                              ELSE IF g.newest THEN {"loading"} ELSE {})
    BY DEF ChannelsEnds, Channels!Shown, Channels!Spinner
<1>10. PICK last \in joined : /\ new.ends \subseteq last.ends /\ last.search = new.search
                              /\ last.newest = new.newest
    <2>1. CASE same = {}
        BY <1>3, <2>1
    <2>2. CASE same # {}
        <3>1. PICK g \in same : TRUE
            BY <2>2
        <3>2. merged(g) \in joined
            BY <1>3, <2>2, <3>1
        <3>3. g \in ChannelsGet /\ Channels!Address(g) = Channels!Address(new)
            BY <1>2, <1>6, <3>1
        <3> QED
            BY <1>5, <1>8, <3>2, <3>3
    <2> QED
        BY <2>1, <2>2
<1>11. ChannelsEnds(new) \subseteq ChannelsEnds(last)
    BY <1>7, <1>9, <1>10
<1>12. ASSUME NEW g \in gets, NEW s \in ChannelsEnds(g)
       PROVE  \E k \in joined : s \in ChannelsEnds(k)
    <2>1. CASE s \in ChannelsEnds(older(g))
        <3>1. CASE older(g) \notin same
            BY <1>1, <1>3, <2>1, <3>1
        <3>2. CASE older(g) \in same
            <4>1. PICK o : o = older(g)
                OBVIOUS
            <4>2. merged(o) \in joined
                BY <1>3, <3>2, <4>1
            <4>3. o \in ChannelsGet /\ o.search = new.search
                BY <1>2, <1>4, <1>8, <3>2, <4>1
            <4>4. s \in o.ends \/ (s = "searching" /\ o.search) \/ (s = "loading" /\ ~o.search /\ o.newest)
                <5>1. s \in ChannelsEnds(o)
                    BY <2>1, <4>1
                <5>2. ChannelsEnds(o) = o.ends \union (IF o.search THEN {"searching"}
                                                       ELSE IF o.newest THEN {"loading"} ELSE {})
                    BY <1>9, <4>3
                <5>3. CASE o.search
                    BY <5>1, <5>2, <5>3
                <5>4. CASE ~o.search
                    BY <5>1, <5>2, <5>4
                <5> QED
                    BY <5>3, <5>4
            <4>5. s \in ChannelsEnds(merged(o))
                <5>1. PICK m : m = merged(o)
                    OBVIOUS
                <5>2. /\ m \in ChannelsGet /\ m.ends = o.ends \union new.ends
                      /\ m.search = o.search /\ m.newest = new.newest
                    BY <1>5, <4>3, <5>1
                <5>3. ChannelsEnds(m) = m.ends \union (IF m.search THEN {"searching"}
                                                       ELSE IF m.newest THEN {"loading"} ELSE {})
                    BY <1>9, <5>2
                <5>4. s \in ChannelsEnds(m)
                    BY <4>3, <4>4, <5>2, <5>3
                <5> QED
                    BY <5>1, <5>4
            <4> QED
                BY <4>2, <4>5
        <3> QED
            BY <3>1, <3>2
    <2>2. CASE s \notin ChannelsEnds(older(g))
        <3>1. s = "loading" /\ ~new.search
            BY <1>4, <1>9, <2>2, <1>12 DEF ChannelsGet
        <3>2. s \in ChannelsEnds(new)
            BY <1>9, <3>1
        <3> QED
            BY <1>11, <3>2
    <2> QED
        BY <2>1, <2>2
<1>13. ASSUME NEW k \in joined, k # new
       PROVE  \E g \in gets :
                  /\ Channels!Address(k) = Channels!Address(g) /\ k.answer = g.answer
                  /\ Channels!Shown(k) /\ Channels!Address(k) # Channels!Address(new) =>
                         g.search \/ new.search
    <2>1. CASE k \in old \ same
        <3>1. PICK g \in gets : k = older(g)
            BY <1>1, <2>1
        <3>2. Channels!Shown(k) => g.search \/ new.search
            BY <1>4, <3>1 DEF Channels!Shown
        <3> QED
            BY <1>4, <3>1, <3>2
    <2>2. CASE k \notin old \ same
        <3>1. PICK o \in same : k = merged(o)
            BY <1>3, <1>13, <2>2
        <3>2. PICK g \in gets : o = older(g)
            BY <1>1, <1>2, <3>1
        <3>3. Channels!Address(o) = Channels!Address(new) /\ o \in ChannelsGet
            BY <1>2, <1>6, <3>1
        <3>4. Channels!Address(k) = Channels!Address(new) /\ k.answer = o.answer
            BY <1>5, <3>1, <3>3
        <3> QED
            BY <1>4, <3>2, <3>3, <3>4
    <2> QED
        BY <2>1, <2>2
<1>14. Channels!Shown(last)
    BY <1>10 DEF Channels!Shown, ChannelsGet
<1> QED
    BY <1>7, <1>10, <1>11, <1>12, <1>13, <1>14

\* Asking for a page keeps the invariant if, as long as nothing has come between,
\* the page is the one that is named and overtakes none, and the server is as it
\* was when others were asked for.
LEMMA ChannelsAsks ==
    ASSUME ChannelsInv, ChannelsTypes', NEW p \in Nat, NEW size \in Channels!Sizes,
           NEW only \in BOOLEAN, NEW ends \in SUBSET ChannelsFlags, NEW new \in ChannelsGet,
           new.search = h2, new.newest = ~h2, new.answer = <<>>,
           new.page = p, new.size = size, new.only = only,
           h6' = Channels!Joined(new), ends \subseteq new.ends,
           h5' \subseteq h5 \union ChannelsEnds(new),
           h8'.sure =>
               /\ h8.sure /\ ~Channels!Overtakes(Channels!Ask(p, size, only, {}))
               /\ h3'.size = size /\ h3'.only = only
               /\ h2 \/ p = h3'.page \/ (p = 0 /\ h3'.page = 1)
               /\ h1' = h1 \/ h6 = {}
               /\ ChannelsBatch => h7' = h7 \/ "loading" \in ends
    PROVE  ChannelsInv'
<1>1. /\ new.search = h2 /\ new.newest = ~h2 /\ new.answer = <<>>
      /\ new.page = p /\ new.size = size /\ new.only = only
      /\ h6' = Channels!Joined(new) /\ ends \subseteq new.ends
      /\ h5' \subseteq h5 \union ChannelsEnds(new)
    OBVIOUS
<1>2. PICK gets : gets = h6
    OBVIOUS
<1>3. gets \in SUBSET ChannelsGet /\ new.newest = ~new.search
    BY <1>1, <1>2 DEF ChannelsInv, ChannelsTypes
<1>4. PICK joined : joined = Channels!Joined(new)
    OBVIOUS
<1>5. /\ h6' = joined
      /\ \A g \in gets \union {new} : \A s \in ChannelsEnds(g) :
             \E k \in joined : s \in ChannelsEnds(k)
      /\ \A k \in joined :
             \/ k = new
             \/ \E g \in gets :
                   /\ Channels!Address(k) = Channels!Address(g) /\ k.answer = g.answer
                   /\ Channels!Shown(k) /\ Channels!Address(k) # Channels!Address(new) =>
                          g.search \/ new.search
      /\ \E k \in joined : Channels!Shown(k)
    BY <1>1, <1>2, <1>3, <1>4, ChannelsJoins
<1>6. CASE h8'.sure
    <2>1. /\ h8.sure /\ h3'.size = size /\ h3'.only = only
          /\ h2 \/ p = h3'.page \/ (p = 0 /\ h3'.page = 1)
          /\ h1' = h1 \/ h6 = {}
          /\ ChannelsBatch => h7' = h7 \/ "loading" \in ends
        BY <1>6
    <2>2. \A g \in gets : Channels!Address(g) = Channels!Address(new) \/ (~g.search /\ ~new.search)
        <3>1. PICK bare : bare = Channels!Ask(p, size, only, {})
            OBVIOUS
        <3>2. Channels!Address(bare) = Channels!Address(new) /\ bare.search = new.search
            BY <1>1, <3>1 DEF Channels!Ask, Channels!Address
        <3>3. ~\E g \in gets : Channels!Address(g) # Channels!Address(bare) /\ (g.search \/ bare.search)
            BY <1>2, <1>6, <3>1 DEF Channels!Overtakes
        <3> QED
            BY <3>2, <3>3
    <2>3. \A k \in joined : Channels!Shown(k) => Channels!Address(k) = Channels!Address(new)
        BY <1>5, <2>2
    <2>4. ChannelsTurns'
        <3> SUFFICES ASSUME NEW s \in h5'
                     PROVE  (\E k \in h6' : s \in ChannelsEnds(k)) \/ (s = "loading" /\ ChannelsBatch')
            BY Zenon DEF ChannelsTurns, ChannelsEnds, Channels!Shown, Channels!Spinner
        <3>1. CASE s \in ChannelsEnds(new)
            BY <1>5, <3>1
        <3>2. CASE s \in h5 /\ s \notin ChannelsEnds(new)
            <4>1. (\E g \in gets : s \in ChannelsEnds(g)) \/ (s = "loading" /\ ChannelsBatch)
                BY <1>2, <2>1, <3>2 DEF ChannelsInv, ChannelsTurns
            <4>2. CASE \E g \in gets : s \in ChannelsEnds(g)
                BY <1>5, <4>2
            <4>3. CASE s = "loading" /\ ChannelsBatch
                <5>1. "loading" \notin ends
                    BY <1>1, <3>2, <4>3 DEF ChannelsEnds
                <5>2. h7' = h7
                    BY <2>1, <4>3, <5>1
                <5> QED
                    BY <4>3, <5>2 DEF ChannelsBatch
            <4> QED
                BY <4>1, <4>2, <4>3
        <3> QED
            BY <1>1, <3>1, <3>2
    <2>5. ChannelsGets'
        <3>0. ASSUME NEW k \in joined, NEW g \in joined, Channels!Shown(k), Channels!Shown(g)
              PROVE  Channels!Address(g) = Channels!Address(k)
            BY <2>3, <3>0
        <3> SUFFICES ASSUME NEW k \in joined
                     PROVE  ChannelsFits(k)' /\ ChannelsAnswered(k)'
            BY <1>5, <3>0 DEF ChannelsGets, Channels!Shown, Channels!Address
        <3>1. ChannelsFits(k)'
            <4>1. CASE Channels!Shown(k)
                <5>1. k.search = h2 /\ k.page = p /\ k.size = size /\ k.only = only
                    BY <1>1, <2>3, <4>1 DEF Channels!Address
                <5> QED
                    BY <2>1, <5>1 DEF ChannelsFits
            <4>2. CASE ~Channels!Shown(k)
                BY <4>2 DEF ChannelsFits, Channels!Shown
            <4> QED
                BY <4>1, <4>2
        <3>2. ChannelsAnswered(k)'
            <4>1. CASE k = new
                BY <1>1, <4>1 DEF ChannelsAnswered
            <4>2. CASE k # new
                <5>1. PICK g \in gets : Channels!Address(k) = Channels!Address(g) /\ k.answer = g.answer
                    BY <1>5, <4>2
                <5>2. h1' = h1
                    BY <1>2, <2>1, <5>1
                <5>3. g.search = k.search /\ g.page = k.page /\ g.size = k.size /\ g.only = k.only
                    BY <5>1 DEF Channels!Address
                <5>4. ChannelsAnswered(g)
                    BY <1>2, <2>1, <5>1 DEF ChannelsInv, ChannelsGets
                <5>5. Channels!PageOf(k.search, k.page, k.size, k.only)' =
                          Channels!PageOf(k.search, k.page, k.size, k.only)
                    BY <5>2, ChannelsSame
                <5> QED
                    BY <5>1, <5>3, <5>4, <5>5 DEF ChannelsAnswered
            <4> QED
                BY <4>1, <4>2
        <3> QED
            BY <3>1, <3>2
    <2>6. ChannelsRows'
        <3>1. \E k \in h6' : Channels!Shown(k)
            BY <1>5
        <3> QED
            BY <3>1 DEF ChannelsRows, Channels!Shown
    <2> QED
        BY <2>4, <2>5, <2>6 DEF ChannelsInv
<1>7. CASE ~h8'.sure
    BY <1>7 DEF ChannelsInv, ChannelsTurns, ChannelsGets, ChannelsRows
<1> QED
    BY <1>6, <1>7

LEMMA ChannelsStarts == Channels!Init => ChannelsInv
<1> SUFFICES ASSUME Channels!Init PROVE ChannelsInv
    OBVIOUS
<1>1. PICK g : g = Channels!Ask(1, 2, TRUE, {})
    OBVIOUS
<1>2. /\ g \in ChannelsGet /\ g.answer = <<>> /\ g.ends = {} /\ ~g.search /\ g.newest
      /\ g.page = 1 /\ g.size = 2 /\ g.only
    BY <1>1 DEF Channels!Init, Channels!Ask, ChannelsGet, Channels!Sizes
<1>3. /\ h1 \in [Channels!Items -> BOOLEAN] /\ h2 = FALSE /\ h4 = <<>> /\ h5 = {"loading"}
      /\ h3 = [page |-> 1, size |-> 2, only |-> TRUE] /\ h6 = {g} /\ h7 = <<>>
      /\ h8 = [search |-> FALSE, known |-> FALSE, exact |-> TRUE, sure |-> TRUE]
    BY <1>1 DEF Channels!Init
<1>4. ChannelsTypes
    <2>1. h3 \in ChannelsAt /\ h8 \in ChannelsView
        BY <1>3 DEF ChannelsAt, ChannelsView, Channels!Sizes
    <2>2. h4 \in Seq(ChannelsRow) /\ h5 \subseteq ChannelsFlags /\ h6 \subseteq ChannelsGet
        BY <1>2, <1>3 DEF ChannelsFlags
    <2>3. DOMAIN h1 = Channels!Items
        BY <1>3
    <2> QED
        BY <1>3, <2>1, <2>2, <2>3 DEF ChannelsTypes
<1>5. Channels!Shown(g) /\ "loading" \in ChannelsEnds(g)
    BY <1>2 DEF ChannelsEnds, Channels!Shown, Channels!Spinner
<1>6. ChannelsTurns
    BY <1>3, <1>5 DEF ChannelsTurns
<1>7. ChannelsGets
    BY <1>2, <1>3 DEF ChannelsGets, ChannelsFits, ChannelsAnswered
<1>8. ChannelsRows
    BY <1>3, <1>5 DEF ChannelsRows
<1> QED
    BY <1>4, <1>6, <1>7, <1>8 DEF ChannelsInv

\* A step that leaves alone what the invariant is about.
LEMMA ChannelsStays ==
    ASSUME ChannelsInv, UNCHANGED <<h1, h3, h4, h5, h6, h7, h8>>, h2' \in BOOLEAN
    PROVE  ChannelsInv'
<1>1. ChannelsTypes'
    BY DEF ChannelsInv, ChannelsTypes
<1>2. ChannelsTurns'
    BY DEF ChannelsInv, ChannelsTurns, ChannelsEnds, ChannelsBatch, Channels!Shown, Channels!Spinner
<1>3. \A s, p, z, o : Channels!PageOf(s, p, z, o)' = Channels!PageOf(s, p, z, o)
    BY ChannelsSame
<1>4. ChannelsGets'
    BY <1>3
    DEF ChannelsInv, ChannelsGets, ChannelsFits, ChannelsAnswered, Channels!Shown, Channels!Address
<1>5. ChannelsRows'
    BY <1>3 DEF ChannelsInv, ChannelsRows, ChannelsTrue, Channels!Shown
<1> QED
    BY <1>1, <1>2, <1>4, <1>5 DEF ChannelsInv

\* What a load leaves of the types.
LEMMA ChannelsAskTypes ==
    ASSUME ChannelsTypes, NEW new \in ChannelsGet, new.search = h2, new.newest = ~h2,
           h6' = Channels!Joined(new), h5' \subseteq h5 \union ChannelsEnds(new)
    PROVE  h6' \subseteq ChannelsGet /\ h5' \subseteq ChannelsFlags
<1>1. PICK gets : gets = h6
    OBVIOUS
<1>2. PICK joined : joined = Channels!Joined(new)
    OBVIOUS
<1>3. gets \in SUBSET ChannelsGet /\ new.newest = ~new.search
    BY <1>1 DEF ChannelsTypes
<1>4. joined \subseteq ChannelsGet
    BY <1>1, <1>2, <1>3, ChannelsJoins
<1>5. ChannelsEnds(new) \subseteq ChannelsFlags
    BY DEF ChannelsEnds, Channels!Spinner, ChannelsGet, ChannelsFlags
<1> QED
    BY <1>2, <1>4, <1>5 DEF ChannelsTypes

\* A click that asks for a page.
LEMMA ChannelsClicks ==
    ASSUME ChannelsInv, NEW p \in Nat, NEW size \in Channels!Sizes, NEW only \in BOOLEAN,
           Channels!loadChannels(p, size, only, {}) \/ Channels!searchChannels(p, size, only, {}),
           UNCHANGED <<h1, h2, h4, h7>>, h3' \in ChannelsAt, h8' \in ChannelsView,
           h8'.sure =>
               /\ Channels!Sure(p, size, only) /\ h3'.size = size /\ h3'.only = only
               /\ h2 \/ p = h3'.page \/ (p = 0 /\ h3'.page = 1)
    PROVE  ChannelsInv'
<1>1. ChannelsTypes /\ {} \in SUBSET ChannelsFlags
    BY DEF ChannelsInv
<1>2. PICK new \in ChannelsGet :
          /\ new.search = h2 /\ new.newest = ~h2 /\ new.answer = <<>>
          /\ new.page = p /\ new.size = size /\ new.only = only
          /\ h6' = Channels!Joined(new) /\ {} \subseteq new.ends
          /\ h5' \subseteq h5 \union ChannelsEnds(new)
    BY <1>1, ChannelsLoads
<1>3. h6' \subseteq ChannelsGet /\ h5' \subseteq ChannelsFlags
    BY <1>1, <1>2, ChannelsAskTypes
<1>4. ChannelsTypes'
    BY <1>1, <1>3 DEF ChannelsTypes
<1>5. PICK e \in SUBSET ChannelsFlags : e = {}
    OBVIOUS
<1>6. e \subseteq new.ends
    BY <1>5
<1>7. h8'.sure =>
          /\ h8.sure /\ ~Channels!Overtakes(Channels!Ask(p, size, only, {}))
          /\ h3'.size = size /\ h3'.only = only
          /\ h2 \/ p = h3'.page \/ (p = 0 /\ h3'.page = 1)
          /\ h1' = h1 \/ h6 = {}
          /\ ChannelsBatch => h7' = h7 \/ "loading" \in e
    BY DEF Channels!Sure
<1> QED
    BY <1>2, <1>4, <1>6, <1>7, ChannelsAsks

LEMMA ChannelsClicked ==
    ASSUME ChannelsInv,
           \/ Channels!search \/ Channels!refreshClicked \/ Channels!handlePageChange
           \/ Channels!handlePageSizeChange \/ Channels!filterChanged
    PROVE  ChannelsInv'
<1>1. /\ h3 \in ChannelsAt /\ h8 \in ChannelsView /\ h2 \in BOOLEAN
      /\ h3.page \in Nat /\ h3.size \in Channels!Sizes /\ h3.only \in BOOLEAN
    BY DEF ChannelsInv, ChannelsTypes, ChannelsAt
<1>2. CASE Channels!search
    <2>1. /\ Channels!searchChannels(1, h3.size, h3.only, {}) /\ UNCHANGED <<h1, h2, h3, h4, h7>>
          /\ h8' = [h8 EXCEPT !.sure = Channels!Sure(1, h3.size, h3.only) /\ (h2 \/ h3.page = 1)]
        BY <1>2 DEF Channels!search
    <2>2. h8' \in ChannelsView /\ h8'.sure = (Channels!Sure(1, h3.size, h3.only) /\ (h2 \/ h3.page = 1))
        <3>1. (Channels!Sure(1, h3.size, h3.only) /\ (h2 \/ h3.page = 1)) \in BOOLEAN
            OBVIOUS
        <3> QED
            BY <1>1, <2>1, <3>1 DEF ChannelsView
    <2> QED
        BY <1>1, <2>1, <2>2, ChannelsClicks
<1>3. CASE Channels!refreshClicked
    <2>1. /\ Channels!refresh(0, h3.size, h3.only) /\ UNCHANGED <<h1, h2, h3, h4, h7>>
          /\ h8' = [h8 EXCEPT !.sure = Channels!Sure(0, h3.size, h3.only) /\ (h2 \/ h3.page = 1)]
        BY <1>3 DEF Channels!refreshClicked, Channels!Event
    <2>2. h8' \in ChannelsView /\ h8'.sure = (Channels!Sure(0, h3.size, h3.only) /\ (h2 \/ h3.page = 1))
        <3>1. (Channels!Sure(0, h3.size, h3.only) /\ (h2 \/ h3.page = 1)) \in BOOLEAN
            OBVIOUS
        <3> QED
            BY <1>1, <2>1, <3>1 DEF ChannelsView
    <2>3. \/ Channels!loadChannels(0, h3.size, h3.only, {})
          \/ Channels!searchChannels(0, h3.size, h3.only, {})
        BY <2>1 DEF Channels!refresh, Channels!refreshThen
    <2> QED
        BY <1>1, <2>1, <2>2, <2>3, ChannelsClicks
<1>4. CASE Channels!handlePageChange
    <2>1. PICK p \in 1..Channels!LastPage(h8.search, h3.size, h3.only) \ {h3.page} :
              /\ Channels!refresh(p, h3.size, h3.only) /\ h3' = [h3 EXCEPT !.page = p]
              /\ h8' = [h8 EXCEPT !.sure = Channels!Sure(p, h3.size, h3.only)]
        BY <1>4 DEF Channels!handlePageChange
    <2>2. p \in Nat /\ UNCHANGED <<h1, h2, h4, h7>>
        <3>1. p \in Int /\ p >= 1
            BY <2>1
        <3> QED
            BY <1>4, <3>1 DEF Channels!handlePageChange
    <2>3. h8' \in ChannelsView /\ h8'.sure = Channels!Sure(p, h3.size, h3.only)
        <3>1. Channels!Sure(p, h3.size, h3.only) \in BOOLEAN
            BY <1>1 DEF Channels!Sure, ChannelsView
        <3> QED
            BY <1>1, <2>1, <3>1 DEF ChannelsView
    <2>4. h3' \in ChannelsAt /\ h3'.page = p /\ h3'.size = h3.size /\ h3'.only = h3.only
        BY <1>1, <2>1, <2>2 DEF ChannelsAt
    <2>5. \/ Channels!loadChannels(p, h3.size, h3.only, {})
          \/ Channels!searchChannels(p, h3.size, h3.only, {})
        BY <2>1 DEF Channels!refresh, Channels!refreshThen
    <2> QED
        BY <1>1, <2>2, <2>3, <2>4, <2>5, ChannelsClicks
<1>5. CASE Channels!handlePageSizeChange
    <2>1. PICK s \in Channels!Sizes \ {h3.size} :
              /\ Channels!refresh(1, s, h3.only) /\ h3' = [h3 EXCEPT !.page = 1, !.size = s]
              /\ h8' = [h8 EXCEPT !.sure = Channels!Sure(1, s, h3.only)]
        BY <1>5 DEF Channels!handlePageSizeChange
    <2>2. UNCHANGED <<h1, h2, h4, h7>>
        BY <1>5 DEF Channels!handlePageSizeChange
    <2>3. h8' \in ChannelsView /\ h8'.sure = Channels!Sure(1, s, h3.only)
        <3>1. Channels!Sure(1, s, h3.only) \in BOOLEAN
            BY <1>1 DEF Channels!Sure, ChannelsView
        <3> QED
            BY <1>1, <2>1, <3>1 DEF ChannelsView
    <2>4. h3' \in ChannelsAt /\ h3'.page = 1 /\ h3'.size = s /\ h3'.only = h3.only
        BY <1>1, <2>1 DEF ChannelsAt
    <2>5. \/ Channels!loadChannels(1, s, h3.only, {})
          \/ Channels!searchChannels(1, s, h3.only, {})
        BY <2>1 DEF Channels!refresh, Channels!refreshThen
    <2> QED
        BY <1>1, <2>1, <2>2, <2>3, <2>4, <2>5, ChannelsClicks
<1>6. CASE Channels!filterChanged
    <2>1. /\ Channels!loadChannels(1, h3.size, ~h3.only, {}) /\ UNCHANGED <<h1, h2, h4, h7>>
          /\ h3' = [h3 EXCEPT !.page = 1, !.only = ~h3.only]
          /\ h8' = [h8 EXCEPT !.sure = Channels!Sure(1, h3.size, ~h3.only)]
        BY <1>6 DEF Channels!filterChanged
    <2>2. PICK o \in BOOLEAN : o = ~h3.only
        OBVIOUS
    <2>3. h8' \in ChannelsView /\ h8'.sure = Channels!Sure(1, h3.size, o)
        <3>1. Channels!Sure(1, h3.size, o) \in BOOLEAN
            BY <1>1 DEF Channels!Sure, ChannelsView
        <3> QED
            BY <1>1, <2>1, <2>2, <3>1 DEF ChannelsView
    <2>4. h3' \in ChannelsAt /\ h3'.page = 1 /\ h3'.size = h3.size /\ h3'.only = o
        BY <1>1, <2>1, <2>2 DEF ChannelsAt
    <2> QED
        BY <1>1, <2>1, <2>2, <2>3, <2>4, ChannelsClicks
<1> QED
    BY <1>2, <1>3, <1>4, <1>5, <1>6

\* An answer that no longer comes takes its spinners with it, or nothing is sure.
LEMMA ChannelsEnded ==
    ASSUME ChannelsInv, NEW g \in h6, h6' = h6 \ {g}, UNCHANGED <<h1, h2, h7>>,
           h3' \in ChannelsAt, h4' \in Seq(ChannelsRow), h5' \subseteq h5, h8' \in ChannelsView,
           h8'.sure => h8.sure /\ h5' = h5 \ ChannelsEnds(g) /\ ChannelsGets' /\ ChannelsRows'
    PROVE  ChannelsInv'
<1>1. ChannelsTypes'
    BY DEF ChannelsInv, ChannelsTypes
<1>2. CASE h8'.sure
    <2>1. ChannelsTurns'
        <3> SUFFICES ASSUME NEW s \in h5'
                     PROVE  \/ \E k \in h6' : s \in ChannelsEnds(k)
                            \/ s = "loading" /\ ChannelsBatch
            BY DEF ChannelsTurns, ChannelsBatch, ChannelsEnds, Channels!Shown, Channels!Spinner
        <3>1. s \in h5 /\ s \notin ChannelsEnds(g) /\ h8.sure
            BY <1>2
        <3>2. (\E k \in h6 : s \in ChannelsEnds(k)) \/ (s = "loading" /\ ChannelsBatch)
            BY <3>1 DEF ChannelsInv, ChannelsTurns
        <3>3. \A k \in h6 : s \in ChannelsEnds(k) => k \in h6'
            BY <3>1
        <3> QED
            BY <3>2, <3>3
    <2> QED
        BY <1>1, <1>2, <2>1 DEF ChannelsInv
<1>3. CASE ~h8'.sure
    BY <1>1, <1>3 DEF ChannelsInv, ChannelsTurns, ChannelsGets, ChannelsRows
<1> QED
    BY <1>2, <1>3

LEMMA ChannelsLoaded == ASSUME ChannelsInv, Channels!Loaded PROVE ChannelsInv'
<1>1. PICK g \in h6 :
          /\ g.answer # <<>> /\ h6' = h6 \ {g} /\ h5' = h5 \ ChannelsEnds(g)
          /\ ~Channels!Shown(g) => UNCHANGED <<h4, h3, h8>>
          /\ Channels!Shown(g) =>
                /\ h4' = g.answer[1]
                /\ h3' = IF g.search THEN [h3 EXCEPT !.page = g.page] ELSE h3
                /\ h8' = [h8 EXCEPT !.search = g.search, !.known = TRUE, !.exact = TRUE]
    <2>1. PICK g \in h6 :
          /\ g.answer # <<>> /\ h6' = h6 \ {g}
          /\ h5' = h5 \ (g.ends \union (IF Channels!Shown(g) THEN {Channels!Spinner(g)} ELSE {}))
          /\ IF ~Channels!Shown(g) THEN UNCHANGED <<h4, h3, h8>>
             ELSE /\ h4' = g.answer[1]
                  /\ h3' = IF g.search THEN [h3 EXCEPT !.page = g.page] ELSE h3
                  /\ h8' = [h8 EXCEPT !.search = g.search, !.known = TRUE, !.exact = TRUE]
        BY DEF Channels!Loaded
    <2>2. h5' = h5 \ ChannelsEnds(g)
        BY <2>1 DEF ChannelsEnds
    <2> QED
        BY <2>1, <2>2
<1>2. UNCHANGED <<h1, h2, h7>> /\ h5' \subseteq h5
    BY <1>1 DEF Channels!Loaded
<1>3. \A s, p, z, o : Channels!PageOf(s, p, z, o)' = Channels!PageOf(s, p, z, o)
    BY <1>2, ChannelsSame
<1>4. /\ g \in ChannelsGet /\ h3 \in ChannelsAt /\ h8 \in ChannelsView /\ h4 \in Seq(ChannelsRow)
    BY DEF ChannelsInv, ChannelsTypes
<1>5. CASE ~Channels!Shown(g)
    <2>1. UNCHANGED <<h4, h3, h8>>
        BY <1>1, <1>5
    <2>2. ChannelsGets'
        BY <1>1, <1>3, <2>1
        DEF ChannelsInv, ChannelsGets, ChannelsFits, ChannelsAnswered, Channels!Shown,
            Channels!Address
    <2>3. ChannelsRows'
        <3>1. (\A k \in h6' : ~Channels!Shown(k)) => \A k \in h6 : ~Channels!Shown(k)
            BY <1>1, <1>5
        <3> QED
            BY <1>2, <1>3, <2>1, <3>1 DEF ChannelsInv, ChannelsRows, ChannelsTrue, Channels!Shown
    <2> QED
        BY <1>1, <1>2, <1>4, <2>1, <2>2, <2>3, ChannelsEnded
<1>6. CASE Channels!Shown(g)
    <2>1. /\ h4' = g.answer[1]
          /\ h3' = IF g.search THEN [h3 EXCEPT !.page = g.page] ELSE h3
          /\ h8' = [h8 EXCEPT !.search = g.search, !.known = TRUE, !.exact = TRUE]
        BY <1>1, <1>6
    <2>2. PICK r \in Seq(ChannelsRow) : g.answer = <<r>> /\ h4' = r
        BY <1>1, <1>4, <2>1 DEF ChannelsGet
    <2>3. /\ g.page \in Nat /\ g.size \in Channels!Sizes /\ g.only \in BOOLEAN
          /\ g.search \in BOOLEAN /\ h3.page \in Nat
        BY <1>4 DEF ChannelsGet, ChannelsAt
    <2>4. /\ h8' \in ChannelsView /\ h8'.search = g.search /\ h8'.sure = h8.sure
        BY <1>4, <2>1, <2>3 DEF ChannelsView
    <2>5. /\ h3' \in ChannelsAt /\ h3'.size = h3.size /\ h3'.only = h3.only
          /\ g.search => h3'.page = g.page
          /\ ~g.search => h3'.page = h3.page
        BY <1>4, <2>1, <2>3 DEF ChannelsAt
    <2>6. ASSUME h8.sure PROVE ChannelsGets' /\ ChannelsRows'
        <3>1. /\ \A k \in h6 : ChannelsFits(k) /\ ChannelsAnswered(k)
              /\ \A f, k \in h6 :
                    Channels!Shown(f) /\ Channels!Shown(k) => Channels!Address(f) = Channels!Address(k)
            BY <2>6 DEF ChannelsInv, ChannelsGets
        <3>2. ASSUME NEW k \in h6' PROVE ChannelsFits(k)' /\ ChannelsAnswered(k)'
            <4>1. k \in h6 /\ ChannelsFits(k) /\ ChannelsAnswered(k)
                BY <1>1, <3>1
            <4>2. ChannelsAnswered(k)'
                BY <1>3, <4>1 DEF ChannelsAnswered
            <4>3. Channels!Shown(k) => Channels!Address(k) = Channels!Address(g)
                BY <1>6, <3>1, <4>1
            <4>4. Channels!Shown(k) => k.search = g.search
                BY <4>3 DEF Channels!Address
            <4>5. ChannelsFits(k)'
                BY <2>5, <4>1, <4>4 DEF ChannelsFits, Channels!Shown
            <4> QED
                BY <4>2, <4>5
        <3>3. ChannelsGets'
            <4>1. \A f, k \in h6' :
                      Channels!Shown(f) /\ Channels!Shown(k) => Channels!Address(f) = Channels!Address(k)
                BY <1>1, <3>1
            <4>2. \A k \in h6' : ChannelsFits(k)' /\ ChannelsAnswered(k)'
                BY <3>2
            <4> QED
                BY <4>1, <4>2 DEF ChannelsGets, Channels!Shown, Channels!Address
        <3>4. r = Channels!PageOf(g.search, g.page, g.size, g.only)
            <4>1. g.answer = <<Channels!PageOf(g.search, g.page, g.size, g.only)>>
                BY <1>1, <3>1 DEF ChannelsAnswered
            <4> QED
                BY <2>2, <4>1
        <3>5. g.size = h3.size /\ g.only = h3.only /\ (g.search \/ g.page = h3.page \/ (g.page = 0 /\ h3.page = 1))
            BY <1>6, <3>1 DEF ChannelsFits
        <3>6. r = Channels!PageOf(g.search, h3'.page, h3'.size, h3'.only)
            <4>1. CASE g.search \/ g.page = h3.page
                BY <2>5, <3>4, <3>5, <4>1
            <4>2. CASE ~g.search /\ g.page = 0 /\ h3.page = 1
                <5>1. Channels!PageOf(g.search, 0, g.size, g.only) =
                          Channels!PageOf(g.search, 1, g.size, g.only)
                    BY ChannelsFirst
                <5> QED
                    BY <2>5, <3>4, <3>5, <4>2, <5>1
            <4> QED
                BY <3>5, <4>1, <4>2
        <3>7. ChannelsTrue(r)
            BY <2>3, <3>4, ChannelsPaged DEF ChannelsInv, ChannelsTypes
        <3>8. ChannelsRows'
            BY <1>2, <1>3, <2>2, <2>4, <3>6, <3>7 DEF ChannelsRows, ChannelsTrue
        <3> QED
            BY <3>3, <3>8
    <2> QED
        BY <1>1, <1>2, <2>2, <2>4, <2>5, <2>6, ChannelsEnded
<1> QED
    BY <1>5, <1>6

LEMMA ChannelsLoadFailed == ASSUME ChannelsInv, Channels!LoadFailed PROVE ChannelsInv'
<1>1. PICK g \in h6 : h6' = h6 \ {g} /\ h5' \subseteq h5
    <2>1. PICK g \in h6, broken \in BOOLEAN :
              /\ h6' = h6 \ {g}
              /\ h5' = IF broken THEN h5 \ ((g.ends \union {Channels!Spinner(g)}) \ {"loading"})
                       ELSE h5 \ (g.ends \union (IF Channels!Shown(g) THEN {Channels!Spinner(g)} ELSE {}))
        BY DEF Channels!LoadFailed
    <2>2. h5' \subseteq h5
        BY <2>1
    <2> QED
        BY <2>1, <2>2
<1>2. UNCHANGED <<h1, h2, h3, h4, h7>> /\ h8' = [h8 EXCEPT !.sure = FALSE]
    BY DEF Channels!LoadFailed
<1>3. h8' \in ChannelsView /\ ~h8'.sure /\ h3' \in ChannelsAt /\ h4' \in Seq(ChannelsRow)
    BY <1>2 DEF ChannelsInv, ChannelsTypes, ChannelsView
<1> QED
    BY <1>1, <1>2, <1>3, ChannelsEnded

LEMMA ChannelsAsked == ASSUME ChannelsInv, Channels!Asked PROVE ChannelsInv'
<1> DEFINE done(g) == [g EXCEPT !.answer = <<Channels!PageOf(g.search, g.page, g.size, g.only)>>]
<1>1. PICK g \in h6 : g.answer = <<>> /\ h6' = (h6 \ {g}) \union {done(g)}
    BY DEF Channels!Asked
<1>2. UNCHANGED <<h1, h2, h3, h4, h5, h7, h8>>
    BY DEF Channels!Asked
<1>3. \A s, p, z, o : Channels!PageOf(s, p, z, o)' = Channels!PageOf(s, p, z, o)
    BY <1>2, ChannelsSame
<1>4. g \in ChannelsGet
    BY DEF ChannelsInv, ChannelsTypes
<1>5. Channels!PageOf(g.search, g.page, g.size, g.only) \in Seq(ChannelsRow)
    BY <1>4, ChannelsPaged DEF ChannelsInv, ChannelsTypes, ChannelsGet
<1>6. PICK d : d = done(g)
    OBVIOUS
<1>7. /\ d \in ChannelsGet /\ d.answer = <<Channels!PageOf(g.search, g.page, g.size, g.only)>>
      /\ d.search = g.search /\ d.page = g.page /\ d.size = g.size /\ d.only = g.only
      /\ d.ends = g.ends /\ d.newest = g.newest
    BY <1>4, <1>5, <1>6 DEF ChannelsGet
<1> HIDE DEF done
<1>8. h6' = (h6 \ {g}) \union {d}
    BY <1>1, <1>6
<1>9. ChannelsTypes'
    BY <1>2, <1>7, <1>8 DEF ChannelsInv, ChannelsTypes
<1>10. (Channels!Shown(d) <=> Channels!Shown(g)) /\ Channels!Address(d) = Channels!Address(g)
       /\ ChannelsEnds(d) = ChannelsEnds(g)
    BY <1>7 DEF Channels!Shown, Channels!Address, ChannelsEnds, Channels!Spinner
<1>11. ChannelsTurns'
    <2> SUFFICES ASSUME h8.sure, NEW s \in h5
                 PROVE  (\E k \in h6' : s \in ChannelsEnds(k)) \/ (s = "loading" /\ ChannelsBatch)
        BY <1>2 DEF ChannelsTurns, ChannelsBatch, ChannelsEnds, Channels!Shown, Channels!Spinner
    <2>1. (\E k \in h6 : s \in ChannelsEnds(k)) \/ (s = "loading" /\ ChannelsBatch)
        BY DEF ChannelsInv, ChannelsTurns
    <2>2. \A k \in h6 : \E f \in h6' : ChannelsEnds(f) = ChannelsEnds(k)
        BY <1>8, <1>10
    <2> QED
        BY <2>1, <2>2
<1>12. ChannelsGets'
    <2> SUFFICES ASSUME h8.sure PROVE ChannelsGets'
        BY <1>2 DEF ChannelsGets
    <2>1. /\ \A k \in h6 : ChannelsFits(k) /\ ChannelsAnswered(k)
          /\ \A f, k \in h6 :
                Channels!Shown(f) /\ Channels!Shown(k) => Channels!Address(f) = Channels!Address(k)
        BY DEF ChannelsInv, ChannelsGets
    <2>2. ChannelsFits(d)
        BY <1>7, <1>10, <2>1 DEF ChannelsFits
    <2>3. ChannelsAnswered(d)
        BY <1>7 DEF ChannelsAnswered
    <2>4. \A k \in h6' : ChannelsFits(k) /\ ChannelsAnswered(k)
        BY <1>8, <2>1, <2>2, <2>3
    <2>5. \A f, k \in h6' :
              Channels!Shown(f) /\ Channels!Shown(k) => Channels!Address(f) = Channels!Address(k)
        BY <1>8, <1>10, <2>1
    <2> QED
        BY <1>2, <1>3, <2>4, <2>5
        DEF ChannelsGets, ChannelsFits, ChannelsAnswered, Channels!Shown, Channels!Address
<1>13. ChannelsRows'
    <2>1. (\A k \in h6' : ~Channels!Shown(k)) => \A k \in h6 : ~Channels!Shown(k)
        BY <1>8, <1>10
    <2> QED
        BY <1>2, <1>3, <2>1 DEF ChannelsInv, ChannelsRows, ChannelsTrue, Channels!Shown
<1> QED
    BY <1>9, <1>11, <1>12, <1>13 DEF ChannelsInv

\* What the rows are when nothing else is asked for.
LEMMA ChannelsAtRest ==
    ASSUME ChannelsInv, h8.sure, h6 = {}
    PROVE  /\ ChannelsTrue(h4)
           /\ h8.exact => h4 = Channels!PageOf(h8.search, h3.page, h3.size, h3.only)
           /\ \A s \in h5 : s = "loading" /\ ChannelsBatch
BY DEF ChannelsInv, ChannelsRows, ChannelsTurns

LEMMA ChannelsManage == ASSUME ChannelsInv, Channels!manage PROVE ChannelsInv'
<1>1. PICK ids \in SUBSET {h4[i].id : i \in DOMAIN h4} \ {{}},
           what \in {"switch", "delete", "test", "batch"} :
          /\ h7' = <<[what |-> what, ids |-> ids, rows |-> h4, at |-> h3]>>
          /\ h5' = IF what = "batch" THEN h5 \union {"loading"} ELSE h5
    BY DEF Channels!manage
<1>2. /\ h7 = <<>> /\ UNCHANGED <<h1, h2, h3, h4, h6>>
      /\ h8' = [h8 EXCEPT !.sure = h8.sure /\ h6 = {}]
    BY DEF Channels!manage
<1>3. h8' \in ChannelsView /\ h8'.sure = (h8.sure /\ h6 = {}) /\ h8'.search = h8.search
      /\ h8'.exact = h8.exact
    <2>1. h8 \in ChannelsView /\ (h8.sure /\ h6 = {}) \in BOOLEAN
        BY DEF ChannelsInv, ChannelsTypes
    <2> QED
        BY <1>2, <2>1 DEF ChannelsView
<1>4. PICK a : a = [what |-> what, ids |-> ids, rows |-> h4, at |-> h3]
    OBVIOUS
<1>5. a \in ChannelsAct /\ h7' = <<a>> /\ a.what = what
    <2>1. h4 \in Seq(ChannelsRow) /\ h3 \in ChannelsAt
        BY DEF ChannelsInv, ChannelsTypes
    <2>2. \A i \in DOMAIN h4 : h4[i].id \in Nat
        <3>1. \A i \in DOMAIN h4 : h4[i] \in ChannelsRow
            BY <2>1
        <3> QED
            BY <3>1 DEF ChannelsRow
    <2>3. ids \subseteq Nat
        BY <1>1, <2>2
    <2> QED
        BY <1>1, <1>4, <2>1, <2>3 DEF ChannelsAct
<1>6. ChannelsTypes'
    <2>1. h5' \subseteq ChannelsFlags
        BY <1>1 DEF ChannelsInv, ChannelsTypes, ChannelsFlags
    <2> QED
        BY <1>2, <1>3, <1>5, <2>1 DEF ChannelsInv, ChannelsTypes
<1>7. CASE h8'.sure
    <2>1. h8.sure /\ h6 = {} /\ h6' = {}
        BY <1>2, <1>3, <1>7
    <2>2. /\ ChannelsTrue(h4)
          /\ h8.exact => h4 = Channels!PageOf(h8.search, h3.page, h3.size, h3.only)
          /\ h5 = {}
        BY <1>2, <2>1, ChannelsAtRest DEF ChannelsBatch
    <2>3. ChannelsTurns'
        <3>1. \A s \in h5' : s = "loading" /\ what = "batch"
            BY <1>1, <2>2
        <3>2. what = "batch" => ChannelsBatch'
            BY <1>5 DEF ChannelsBatch
        <3> QED
            BY <3>1, <3>2 DEF ChannelsTurns
    <2>4. ChannelsGets'
        BY <2>1 DEF ChannelsGets
    <2>5. \A s, p, z, o : Channels!PageOf(s, p, z, o)' = Channels!PageOf(s, p, z, o)
        BY <1>2, ChannelsSame
    <2>6. ChannelsRows'
        BY <1>2, <1>3, <2>2, <2>5 DEF ChannelsRows, ChannelsTrue
    <2> QED
        BY <1>6, <2>3, <2>4, <2>6 DEF ChannelsInv
<1>8. CASE ~h8'.sure
    BY <1>6, <1>8 DEF ChannelsInv, ChannelsTurns, ChannelsGets, ChannelsRows
<1> QED
    BY <1>7, <1>8

LEMMA ChannelsDone ==
    ASSUME ChannelsTypes, NEW a \in ChannelsAct, NEW new, new = Channels!Done(a)
    PROVE  DOMAIN new \subseteq Channels!Items /\ new \in [DOMAIN new -> BOOLEAN]
<1>1. DOMAIN h1 \subseteq Channels!Items /\ h1 \in [DOMAIN h1 -> BOOLEAN]
    BY DEF ChannelsTypes
<1>2. CASE a.what = "switch"
    <2>1. new = [i \in DOMAIN h1 |-> IF i \in a.ids THEN ~h1[i] ELSE h1[i]]
        BY <1>2 DEF Channels!Done
    <2> QED
        BY <1>1, <2>1
<1>3. CASE a.what = "test"
    BY <1>1, <1>3 DEF Channels!Done
<1>4. CASE a.what # "switch" /\ a.what # "test"
    <2>1. new = [i \in DOMAIN h1 \ a.ids |-> h1[i]]
        BY <1>4 DEF Channels!Done
    <2> QED
        BY <1>1, <2>1
<1> QED
    BY <1>2, <1>3, <1>4

LEMMA ChannelsRestored ==
    ASSUME NEW a \in ChannelsAct, NEW new, new = Channels!Restored(a)
    PROVE  /\ new \in Seq(ChannelsRow)
           /\ DOMAIN new = DOMAIN a.rows
           /\ \A i \in DOMAIN new :
                 /\ new[i].id = a.rows[i].id
                 /\ new[i].on = IF a.what = "switch" /\ a.rows[i].id \in a.ids
                                THEN ~a.rows[i].on ELSE a.rows[i].on
           /\ a.what # "switch" => new = a.rows
<1>1. a.rows \in Seq(ChannelsRow)
    BY DEF ChannelsAct
<1> DEFINE row(i) == [a.rows[i] EXCEPT !.on =
                         IF a.what = "switch" /\ a.rows[i].id \in a.ids THEN ~@ ELSE @]
<1>2. ASSUME NEW i \in DOMAIN a.rows
      PROVE  /\ row(i) \in ChannelsRow /\ row(i).id = a.rows[i].id
             /\ row(i).on = IF a.what = "switch" /\ a.rows[i].id \in a.ids
                            THEN ~a.rows[i].on ELSE a.rows[i].on
             /\ a.what # "switch" => row(i) = a.rows[i]
    <2>1. a.rows[i] \in ChannelsRow
        BY <1>1
    <2> QED
        BY <2>1 DEF ChannelsRow
<1>3. new = [i \in DOMAIN a.rows |-> row(i)]
    BY DEF Channels!Restored
<1> HIDE DEF row
<1>4. DOMAIN a.rows = 1..Len(a.rows) /\ Len(a.rows) \in Nat
    BY <1>1
<1>5. new \in Seq(ChannelsRow)
    BY <1>2, <1>3, <1>4
<1>6. a.what # "switch" => new = a.rows
    <2> SUFFICES ASSUME a.what # "switch" PROVE new = a.rows
        OBVIOUS
    <2>1. \A i \in DOMAIN a.rows : row(i) = a.rows[i]
        BY <1>2
    <2>2. new = [i \in DOMAIN a.rows |-> a.rows[i]]
        BY <1>3, <2>1
    <2> QED
        BY <1>1, <1>4, <2>2
<1> QED
    BY <1>2, <1>3, <1>5, <1>6

\* A change that has been made, and a page that is asked for again.
LEMMA ChannelsManaged == ASSUME ChannelsInv, Channels!Managed PROVE ChannelsInv'
<1>1. PICK a \in ChannelsAct : h7 = <<a>>
    BY DEF Channels!Managed, ChannelsInv, ChannelsTypes
<1>2. PICK ok \in BOOLEAN :
          /\ h1' = IF ok THEN Channels!Done(a) ELSE h1
          /\ h4' = IF ok /\ a.what # "batch" THEN Channels!Restored(a) ELSE h4
          /\ IF a.what = "delete" \/ (a.what = "batch" /\ ok)
             THEN Channels!refreshThen(a.at.page, a.at.size, a.at.only,
                                       IF a.what = "batch" THEN {"loading"} ELSE {})
             ELSE /\ h6' = h6
                  /\ h5' = IF a.what = "batch" THEN h5 \ {"loading"} ELSE h5
          /\ h8' = [h8 EXCEPT !.exact = h8.exact /\ ~(ok /\ a.what = "switch"),
                        !.sure = h8.sure /\ ok /\ h6 = {} /\ a.rows = h4 /\ a.at = h3
                                    /\ (a.what \in {"delete", "batch"} => h8.search = h2)]
    <2>1. h7[1] = a
        BY <1>1
    <2> QED
        BY <2>1 DEF Channels!Managed
<1>3. h7' = <<>> /\ UNCHANGED <<h2, h3>>
    BY DEF Channels!Managed
<1>4. /\ h8' \in ChannelsView /\ h8'.search = h8.search
      /\ h8'.sure => h8.sure /\ ok /\ h6 = {} /\ a.rows = h4 /\ a.at = h3
      /\ h8'.exact => h8.exact /\ ~(ok /\ a.what = "switch")
    <2>1. PICK exact \in BOOLEAN : exact = (h8.exact /\ ~(ok /\ a.what = "switch"))
        OBVIOUS
    <2>2. PICK sure \in BOOLEAN :
              sure = (h8.sure /\ ok /\ h6 = {} /\ a.rows = h4 /\ a.at = h3
                          /\ (a.what \in {"delete", "batch"} => h8.search = h2))
        OBVIOUS
    <2>3. h8' = [h8 EXCEPT !.exact = exact, !.sure = sure] /\ h8 \in ChannelsView
        BY <1>2, <2>1, <2>2 DEF ChannelsInv, ChannelsTypes
    <2>4. h8' \in ChannelsView /\ h8'.search = h8.search /\ h8'.sure = sure /\ h8'.exact = exact
        BY <2>3 DEF ChannelsView
    <2> QED
        BY <2>1, <2>2, <2>4
<1>5. /\ a.at \in ChannelsAt /\ a.at.page \in Nat /\ a.at.size \in Channels!Sizes
      /\ a.at.only \in BOOLEAN /\ a.rows \in Seq(ChannelsRow)
      /\ a.what \in {"switch", "delete", "test", "batch"}
    BY DEF ChannelsAct, ChannelsAt
<1>6. DOMAIN h1' \subseteq Channels!Items /\ h1' \in [DOMAIN h1' -> BOOLEAN]
    <2>1. CASE ok
        <3>1. PICK new : new = Channels!Done(a)
            OBVIOUS
        <3>2. DOMAIN new \subseteq Channels!Items /\ new \in [DOMAIN new -> BOOLEAN]
            BY <3>1, ChannelsDone DEF ChannelsInv
        <3> QED
            BY <1>2, <2>1, <3>1, <3>2
    <2>2. CASE ~ok
        BY <1>2, <2>2 DEF ChannelsInv, ChannelsTypes
    <2> QED
        BY <2>1, <2>2
<1>7. PICK back : back = Channels!Restored(a)
    OBVIOUS
<1>8. /\ back \in Seq(ChannelsRow) /\ DOMAIN back = DOMAIN a.rows
      /\ \A i \in DOMAIN back :
            /\ back[i].id = a.rows[i].id
            /\ back[i].on = IF a.what = "switch" /\ a.rows[i].id \in a.ids
                            THEN ~a.rows[i].on ELSE a.rows[i].on
      /\ a.what # "switch" => back = a.rows
    BY <1>7, ChannelsRestored
<1>9. h4' \in Seq(ChannelsRow)
    <2>1. h4' = back \/ h4' = h4
        BY <1>2, <1>7
    <2> QED
        BY <1>8, <2>1 DEF ChannelsInv, ChannelsTypes
<1>10. CASE a.what = "delete" \/ (a.what = "batch" /\ ok)
    <2>1. PICK ends \in SUBSET ChannelsFlags : ends = IF a.what = "batch" THEN {"loading"} ELSE {}
        BY DEF ChannelsFlags
    <2>2. \/ Channels!loadChannels(a.at.page, a.at.size, a.at.only, ends)
          \/ Channels!searchChannels(a.at.page, a.at.size, a.at.only, ends)
        BY <1>2, <1>10, <2>1 DEF Channels!refreshThen
    <2>3. PICK new \in ChannelsGet :
              /\ new.search = h2 /\ new.newest = ~h2 /\ new.answer = <<>>
              /\ new.page = a.at.page /\ new.size = a.at.size /\ new.only = a.at.only
              /\ h6' = Channels!Joined(new) /\ ends \subseteq new.ends
              /\ h5' \subseteq h5 \union ChannelsEnds(new)
        BY <1>5, <2>2, ChannelsLoads DEF ChannelsInv
    <2>4. h6' \subseteq ChannelsGet /\ h5' \subseteq ChannelsFlags
        BY <2>3, ChannelsAskTypes DEF ChannelsInv
    <2>5. ChannelsTypes'
        <3>1. h2' \in BOOLEAN /\ h3' \in ChannelsAt
            BY <1>3 DEF ChannelsInv, ChannelsTypes
        <3> QED
            BY <1>3, <1>4, <1>6, <1>9, <2>4, <3>1 DEF ChannelsTypes
    <2>6. h8'.sure =>
              /\ h8.sure
              /\ ~Channels!Overtakes(Channels!Ask(a.at.page, a.at.size, a.at.only, {}))
              /\ h3'.size = a.at.size /\ h3'.only = a.at.only
              /\ h2 \/ a.at.page = h3'.page \/ (a.at.page = 0 /\ h3'.page = 1)
              /\ h1' = h1 \/ h6 = {}
              /\ ChannelsBatch => h7' = h7 \/ "loading" \in ends
        <3>1. ChannelsBatch => "loading" \in ends
            BY <1>1, <2>1 DEF ChannelsBatch
        <3>2. h6 = {} => ~Channels!Overtakes(Channels!Ask(a.at.page, a.at.size, a.at.only, {}))
            BY DEF Channels!Overtakes
        <3> QED
            BY <1>3, <1>4, <3>1, <3>2
    <2> QED
        BY <1>5, <2>3, <2>5, <2>6, ChannelsAsks
<1>11. CASE ~(a.what = "delete" \/ (a.what = "batch" /\ ok))
    <2>1. h6' = h6 /\ h5' = IF a.what = "batch" THEN h5 \ {"loading"} ELSE h5
        BY <1>2, <1>11
    <2>2. ChannelsTypes'
        BY <1>3, <1>4, <1>6, <1>9, <2>1 DEF ChannelsInv, ChannelsTypes
    <2>3. CASE h8'.sure
        <3>1. h8.sure /\ ok /\ h6 = {} /\ a.rows = h4 /\ a.what \in {"switch", "test"}
            BY <1>4, <1>5, <1>11, <2>3
        <3>2. /\ ChannelsTrue(h4)
              /\ h8.exact => h4 = Channels!PageOf(h8.search, h3.page, h3.size, h3.only)
              /\ h5 = {}
            BY <1>1, <3>1, ChannelsAtRest DEF ChannelsBatch
        <3>3. h5' = {} /\ h6' = {} /\ h4' = back
            BY <1>2, <1>7, <2>1, <3>1, <3>2
        <3>4. ChannelsTurns' /\ ChannelsGets'
            BY <3>3 DEF ChannelsTurns, ChannelsGets
        <3>5. CASE a.what = "switch"
            <4>1. h1' = [i \in DOMAIN h1 |-> IF i \in a.ids THEN ~h1[i] ELSE h1[i]]
                BY <1>2, <3>1, <3>5 DEF Channels!Done
            <4>2. ASSUME NEW i \in DOMAIN back
                  PROVE  back[i].id \in DOMAIN h1' /\ back[i].on = h1'[back[i].id]
                <5>1. /\ back[i].id = h4[i].id
                      /\ back[i].on = IF h4[i].id \in a.ids THEN ~h4[i].on ELSE h4[i].on
                      /\ h4[i].id \in DOMAIN h1 /\ h4[i].on = h1[h4[i].id]
                    BY <1>8, <3>1, <3>2, <3>5 DEF ChannelsTrue
                <5> QED
                    BY <4>1, <5>1
            <4>3. ChannelsTrue(h4)'
                BY <3>3, <4>2 DEF ChannelsTrue
            <4>4. ~h8'.exact
                BY <1>4, <3>1, <3>5
            <4> QED
                BY <2>2, <3>4, <4>3, <4>4 DEF ChannelsInv, ChannelsRows
        <3>6. CASE a.what = "test"
            <4>1. h1' = h1 /\ h4' = h4
                BY <1>2, <1>8, <3>1, <3>3, <3>6 DEF Channels!Done
            <4>2. \A s, p, z, o : Channels!PageOf(s, p, z, o)' = Channels!PageOf(s, p, z, o)
                BY <4>1, ChannelsSame
            <4>3. ChannelsRows'
                BY <1>3, <1>4, <3>2, <4>1, <4>2 DEF ChannelsRows, ChannelsTrue
            <4> QED
                BY <2>2, <3>4, <4>3 DEF ChannelsInv
        <3> QED
            BY <3>1, <3>5, <3>6
    <2>4. CASE ~h8'.sure
        BY <2>2, <2>4 DEF ChannelsInv, ChannelsTurns, ChannelsGets, ChannelsRows
    <2> QED
        BY <2>3, <2>4
<1> QED
    BY <1>10, <1>11

LEMMA ChannelsUnsure ==
    ASSUME ChannelsTypes', ~h8'.sure
    PROVE  ChannelsInv'
BY DEF ChannelsInv, ChannelsTurns, ChannelsGets, ChannelsRows

LEMMA ChannelsSteps == ASSUME ChannelsInv, [Channels!Next]_(Channels!vars) PROVE ChannelsInv'
<1>1. CASE UNCHANGED Channels!vars \/ Channels!Typed
    <2>1. UNCHANGED <<h1, h3, h4, h5, h6, h7, h8>> /\ h2' \in BOOLEAN
        BY <1>1 DEF Channels!vars, Channels!Typed, ChannelsInv, ChannelsTypes
    <2> QED
        BY <2>1, ChannelsStays
<1>2. CASE Channels!search \/ Channels!refreshClicked \/ Channels!handlePageChange
           \/ Channels!handlePageSizeChange \/ Channels!filterChanged
    BY <1>2, ChannelsClicked
<1>3. CASE Channels!Asked
    BY <1>3, ChannelsAsked
<1>4. CASE Channels!Loaded
    BY <1>4, ChannelsLoaded
<1>5. CASE Channels!LoadFailed
    BY <1>5, ChannelsLoadFailed
<1>6. CASE Channels!manage
    BY <1>6, ChannelsManage
<1>7. CASE Channels!Managed
    BY <1>7, ChannelsManaged
<1>8. CASE Channels!ManageFailed
    <2>1. PICK a \in ChannelsAct : h7 = <<a>>
        BY <1>8 DEF Channels!ManageFailed, ChannelsInv, ChannelsTypes
    <2>2. PICK new : new = Channels!Done(a)
        OBVIOUS
    <2>3. DOMAIN new \subseteq Channels!Items /\ new \in [DOMAIN new -> BOOLEAN]
        BY <2>2, ChannelsDone DEF ChannelsInv
    <2>4. h7[1] = a
        BY <2>1
    <2>5. h1' \in {h1, new}
        BY <1>8, <2>2, <2>4 DEF Channels!ManageFailed
    <2>6. DOMAIN h1' \subseteq Channels!Items /\ h1' \in [DOMAIN h1' -> BOOLEAN]
        BY <2>3, <2>5 DEF ChannelsInv, ChannelsTypes
    <2>7. UNCHANGED <<h2, h3, h4, h5, h6>> /\ h7' = <<>> /\ h8' = [h8 EXCEPT !.sure = FALSE]
        BY <1>8 DEF Channels!ManageFailed
    <2>8. h8' \in ChannelsView /\ ~h8'.sure
        BY <2>7 DEF ChannelsInv, ChannelsTypes, ChannelsView
    <2>9. ChannelsTypes'
        BY <2>6, <2>7, <2>8 DEF ChannelsInv, ChannelsTypes
    <2> QED
        BY <2>8, <2>9, ChannelsUnsure
<1>9. CASE Channels!Another
    <2>1. PICK i \in DOMAIN h1 : h1' = [h1 EXCEPT ![i] = ~h1[i]]
        BY <1>9 DEF Channels!Another
    <2>2. DOMAIN h1' \subseteq Channels!Items /\ h1' \in [DOMAIN h1' -> BOOLEAN]
        BY <2>1 DEF ChannelsInv, ChannelsTypes
    <2>3. UNCHANGED <<h2, h3, h4, h5, h6, h7>> /\ h8' = [h8 EXCEPT !.sure = FALSE]
        BY <1>9 DEF Channels!Another
    <2>4. h8' \in ChannelsView /\ ~h8'.sure
        BY <2>3 DEF ChannelsInv, ChannelsTypes, ChannelsView
    <2>5. ChannelsTypes'
        BY <2>2, <2>3, <2>4 DEF ChannelsInv, ChannelsTypes
    <2> QED
        BY <2>4, <2>5, ChannelsUnsure
<1> QED
    BY <1>1, <1>2, <1>3, <1>4, <1>5, <1>6, <1>7, <1>8, <1>9 DEF Channels!Next

LEMMA ChannelsKnown == ChannelsInv => Channels!RowsAreThePage /\ Channels!NothingTurns
<1> SUFFICES ASSUME ChannelsInv, h6 = {}, h7 = <<>>, h8.sure
             PROVE  /\ \A i \in DOMAIN h4 : h4[i].on = h1[h4[i].id]
                    /\ h8.exact => h4 = Channels!PageOf(h8.search, h3.page, h3.size, h3.only)
                    /\ h5 = {}
    BY DEF Channels!RowsAreThePage, Channels!NothingTurns
<1>1. ~ChannelsBatch
    BY DEF ChannelsBatch
<1> QED
    BY <1>1, ChannelsAtRest DEF ChannelsTrue

-----------------------------------------------------------------------------
(* The other tables (ConsoleTables): as long as nothing has come between,   *)
(* every answer on its way is of what the server has, and what is shown is  *)
(* what was answered last.                                                  *)

Tables == INSTANCE ConsoleTables
    WITH table <- h1, server <- h2, keyword <- h3, searchMode <- h4, rows <- h5, at <- h6,
         loading <- h7, selected <- h8, gets <- h9, act <- h10, view <- h11, count <- h12

LEMMA TablesCount == \A S : Tables!Cardinality(S) = Cardinality(S)
BY DEF Tables!Cardinality, Cardinality

LEMMA TablesSorted ==
    ASSUME NEW S \in SUBSET Nat, IsFiniteSet(S)
    PROVE  Tables!Sorted(S) \in [1..Cardinality(S) -> S]
<1>1. \E f \in [1..Cardinality(S) -> S] : \A i, j \in DOMAIN f : i < j => f[i] < f[j]
    BY PagesSorted
<1> QED
    BY <1>1, TablesCount DEF Tables!Sorted

TablesRow == [id : Nat, on : BOOLEAN, gone : BOOLEAN]
TablesExist(rows) == \A i \in DOMAIN rows : rows[i].id \in DOMAIN h2

LEMMA TablesPaged ==
    ASSUME DOMAIN h2 \subseteq Tables!Items, h2 \in [DOMAIN h2 -> BOOLEAN],
           NEW filter \in BOOLEAN, NEW p \in Nat \ {0}, NEW size \in Tables!Sizes
    PROVE  /\ Tables!PageOf(filter, p, size) \in Seq(TablesRow)
           /\ TablesExist(Tables!PageOf(filter, p, size))
<1>1. PICK S : S = Tables!Found(filter)
    OBVIOUS
<1>2. S \subseteq DOMAIN h2 /\ S \subseteq 1..MaxItems
    BY <1>1 DEF Tables!Found, Tables!Items
<1>3. S \in SUBSET Nat /\ IsFiniteSet(S)
    <2>1. S \in SUBSET Nat /\ \A x \in S : x <= MaxItems
        BY <1>2, PagesAssumption
    <2> QED
        BY <2>1, PagesAssumption, FS_BoundedSetOfNaturals
<1>4. PICK n : n = Cardinality(S)
    OBVIOUS
<1>5. PICK all : all = Tables!Sorted(S)
    OBVIOUS
<1>6. n \in Nat /\ all \in [1..n -> S]
    BY <1>3, <1>4, <1>5, TablesSorted, FS_CardinalityType
<1>7. all \in Seq(S) /\ Len(all) = n
    BY <1>6
<1>8. PICK lo : lo = (p - 1) * size + 1
    OBVIOUS
<1>9. lo \in Nat /\ lo >= 1 /\ p * size \in Nat
    BY <1>8 DEF Tables!Sizes
<1>10. PICK hi : hi = Tables!Min({p * size, n})
    OBVIOUS
<1>11. hi \in Int /\ hi <= n
    BY <1>6, <1>9, <1>10 DEF Tables!Min
<1>12. PICK here : here = SubSeq(all, lo, hi)
    OBVIOUS
<1>13. here \in Seq(S)
    <2>1. \A i \in lo..hi : all[i] \in S
        BY <1>6, <1>9, <1>11
    <2> QED
        BY <1>9, <1>11, <1>12, <2>1, SubSeqProperties
<1>14. \A i \in DOMAIN here : here[i] \in DOMAIN h2 /\ here[i] \in Nat
    BY <1>2, <1>3, <1>13
<1>15. PICK page0 : page0 = Tables!PageOf(filter, p, size)
    OBVIOUS
<1>16. page0 = [i \in DOMAIN here |-> [id |-> here[i], on |-> h2[here[i]], gone |-> FALSE]]
    BY <1>1, <1>5, <1>7, <1>8, <1>10, <1>12, <1>15, Zenon DEF Tables!PageOf
<1>17. DOMAIN here = 1..Len(here) /\ Len(here) \in Nat
    BY <1>13
<1>18. \A i \in 1..Len(here) : [id |-> here[i], on |-> h2[here[i]], gone |-> FALSE] \in TablesRow
    BY <1>14, <1>17 DEF TablesRow
<1>19. page0 \in Seq(TablesRow)
    BY <1>16, <1>17, <1>18
<1>20. TablesExist(page0)
    BY <1>14, <1>16 DEF TablesExist
<1> QED
    BY <1>15, <1>19, <1>20

\* A page depends on nothing but the server.
LEMMA TablesSame ==
    h2' = h2 => \A f, p, z : Tables!PageOf(f, p, z)' = Tables!PageOf(f, p, z)
<1> SUFFICES ASSUME h2' = h2, NEW f, NEW p, NEW z
             PROVE  Tables!PageOf(f, p, z)' = Tables!PageOf(f, p, z)
    OBVIOUS
<1>1. Tables!Found(f)' = Tables!Found(f)
    BY DEF Tables!Found
<1> QED
    BY <1>1 DEF Tables!PageOf

\* Switching a row changes the row of its page and no other.
LEMMA TablesSwitched ==
    ASSUME DOMAIN h2 \subseteq Tables!Items, h2 \in [DOMAIN h2 -> BOOLEAN],
           NEW f \in BOOLEAN, NEW p \in Nat \ {0}, NEW z \in Tables!Sizes,
           NEW a, a.what = "switch", NEW ids, ids = a.ids, h2' = Tables!Applied(a, ids)
    PROVE  Tables!PageOf(f, p, z)' = Tables!Changed(Tables!PageOf(f, p, z), a)
<1>1. h2' = [i \in DOMAIN h2 |-> IF i \in ids THEN a.on ELSE h2[i]]
    BY DEF Tables!Applied
<1>2. Tables!Found(f)' = Tables!Found(f)
    <2>1. DOMAIN h2' = DOMAIN h2
        BY <1>1
    <2> QED
        BY <2>1 DEF Tables!Found
<1>3. PICK all : all = Tables!Sorted(Tables!Found(f))
    OBVIOUS
<1>4. PICK here : here = SubSeq(all, (p - 1) * z + 1, Tables!Min({p * z, Len(all)}))
    OBVIOUS
<1>5. PICK old : old = Tables!PageOf(f, p, z)
    OBVIOUS
<1>6. old = [i \in DOMAIN here |-> [id |-> here[i], on |-> h2[here[i]], gone |-> FALSE]]
    BY <1>3, <1>4, <1>5 DEF Tables!PageOf
<1>7. Tables!PageOf(f, p, z)' = [i \in DOMAIN here |-> [id |-> here[i], on |-> h2'[here[i]], gone |-> FALSE]]
    BY <1>2, <1>3, <1>4 DEF Tables!PageOf
<1>8. \A i \in DOMAIN here : here[i] \in DOMAIN h2
    <2>1. TablesExist(old)
        BY <1>5, TablesPaged
    <2> QED
        BY <1>6, <2>1 DEF TablesExist
<1>9. ASSUME NEW i \in DOMAIN here
      PROVE  [id |-> here[i], on |-> h2'[here[i]], gone |-> FALSE] =
                 IF old[i].id \notin a.ids THEN old[i] ELSE [old[i] EXCEPT !.on = a.on]
    BY <1>1, <1>6, <1>8
<1>10. Tables!Changed(old, a) =
           [i \in DOMAIN here |-> IF old[i].id \notin a.ids THEN old[i] ELSE [old[i] EXCEPT !.on = a.on]]
    BY <1>6 DEF Tables!Changed
<1> QED
    BY <1>5, <1>7, <1>9, <1>10

\* What the tables have in common.
LEMMA TablesKinds ==
    ASSUME NEW t \in Tables!Tables
    PROVE  /\ t.sized \in BOOLEAN /\ t.lazy \in BOOLEAN /\ t.eager \in BOOLEAN
           /\ t.oldPage \in BOOLEAN /\ t.resized \in BOOLEAN
           /\ t.sized \/ ~t.lazy
           /\ t.changes \in {"none", "asked", "current"}
           /\ t.changes # "none" => "delete" \in t.reloads
           /\ t.selects => t.changes # "none" /\ "batch" \in t.reloads
           /\ t.name = "tokens" => /\ t.paging = "shown"
                                   /\ t.reloads = {"switch", "delete", "batch"}
           /\ t.name = "models" => t.paging = "whole"
<1>1. CASE t = Tables!useTokensData
    BY <1>1 DEF Tables!useTokensData, Tables!Table
<1>2. CASE t = Tables!useRedemptionsData
    BY <1>2 DEF Tables!useRedemptionsData, Tables!Table
<1>3. CASE t = Tables!useUsersData
    BY <1>3 DEF Tables!useUsersData, Tables!Table
<1>4. CASE t = Tables!useModelsData
    BY <1>4 DEF Tables!useModelsData, Tables!Table
<1>5. CASE t = Tables!useMjLogsData
    BY <1>5 DEF Tables!useMjLogsData, Tables!Table
<1>6. CASE t = Tables!useTaskLogsData
    BY <1>6 DEF Tables!useTaskLogsData, Tables!Table
<1>7. CASE t = Tables!useLogsData
    BY <1>7 DEF Tables!useLogsData, Tables!Table
<1> QED
    BY <1>1, <1>2, <1>3, <1>4, <1>5, <1>6, <1>7 DEF Tables!Tables

TablesGet ==
    [filter : BOOLEAN, page : Nat \ {0}, size : Tables!Sizes, clear : BOOLEAN,
     answer : {<<>>} \union {<<rows>> : rows \in Seq(TablesRow)}]
TablesAct ==
    [what : {"switch", "delete", "batch"}, ids : SUBSET Nat, on : BOOLEAN, rows : Seq(TablesRow),
     page : Nat \ {0}, size : Tables!Sizes]
TablesAt == [page : Nat \ {0}, size : Tables!Sizes]
TablesView ==
    [filter : BOOLEAN, page : Nat, size : Nat, sure : BOOLEAN, mixed : BOOLEAN, known : BOOLEAN]
TablesFlags == {"loading", "searching"}
TablesTypes ==
    /\ h1 \in Tables!Tables /\ DOMAIN h2 \subseteq Tables!Items /\ h2 \in [DOMAIN h2 -> BOOLEAN]
    /\ h3 \in BOOLEAN /\ h4 \in BOOLEAN /\ h5 \in Seq(TablesRow) /\ h6 \in TablesAt
    /\ h7 \subseteq TablesFlags /\ h8 \subseteq Nat /\ h9 \subseteq TablesGet
    /\ h10 \in {<<>>} \union {<<a>> : a \in TablesAct} /\ h11 \in TablesView
TablesActs ==
    h10 # <<>> => /\ h1.changes # "none"
                  /\ h10[1].what = "batch" => h1.selects

\* What turns has something to wait for.
TablesTurns ==
    \A s \in h7 : \/ \E g \in h9 : s = Tables!Spinner(g)
                  \/ s = "loading" /\ h10 # <<>> /\ h1.name # "models"

\* The answers say what the server has; where the size that is named is not
\* taken from the answer, they are of that size.
TablesAnswered(g) ==
    /\ g.answer # <<>> => g.answer = <<Tables!PageOf(g.filter, g.page, g.size)>>
    /\ ~h1.sized => g.size = h6.size
TablesGets == \A g \in h9 : TablesAnswered(g)
TablesRows == h9 = {} => h5 = Tables!PageOf(h11.filter, h6.page, h6.size)

\* The mode of the tokens is the one of what is shown, and what is asked for
\* will make it so.
TablesMode ==
    h1.paging = "shown" /\ ~h11.mixed =>
        /\ \A g, k \in h9 : g.filter = k.filter
        /\ \A g \in h9 : ~g.filter => ~h4
        /\ h9 = {} => (h4 <=> h11.filter)

\* What is selected, and what can be, exists, until a load that clears it is over.
TablesSelected ==
    h1.name = "tokens" =>
        \/ h8 \subseteq DOMAIN h2 /\ TablesExist(h5)
        \/ \E g \in h9 : g.clear

TablesSure == TablesTurns /\ TablesGets /\ TablesRows /\ TablesMode /\ TablesSelected
TablesInv == TablesTypes /\ TablesActs /\ (h11.sure => TablesSure)

\* How addresses join those on their way.
LEMMA TablesJoins ==
    ASSUME NEW gets \in SUBSET TablesGet, gets = h9, NEW new \in SUBSET TablesGet, new # {},
           NEW joined, joined = Tables!Joined(new)
    PROVE  /\ joined \in SUBSET TablesGet /\ joined # {}
           /\ \A h \in new : \E k \in joined : Tables!Same(k, h) /\ (h.clear => k.clear)
           /\ \A g \in gets : \E k \in joined : Tables!Same(k, g) /\ (g.clear => k.clear)
           /\ \A k \in joined :
                  k \in new \/ \E g \in gets : Tables!Same(k, g) /\ k.answer = g.answer
<1> DEFINE met(g) == [g EXCEPT !.clear = @ \/ \E h \in new : Tables!Same(g, h) /\ h.clear]
<1>1. ASSUME NEW g \in gets
      PROVE  /\ met(g) \in TablesGet /\ Tables!Same(met(g), g) /\ met(g).answer = g.answer
             /\ g.clear => met(g).clear
             /\ \A h \in new : Tables!Same(g, h) => Tables!Same(met(g), h) /\ (h.clear => met(g).clear)
    <2>1. g \in TablesGet
        OBVIOUS
    <2>2. PICK c \in BOOLEAN : c = (g.clear \/ \E h \in new : Tables!Same(g, h) /\ h.clear)
        OBVIOUS
    <2>3. met(g) = [g EXCEPT !.clear = c]
        BY <2>2
    <2> HIDE DEF met
    <2>4. /\ met(g) \in TablesGet /\ met(g).answer = g.answer /\ met(g).clear = c
          /\ met(g).filter = g.filter /\ met(g).page = g.page /\ met(g).size = g.size
        BY <2>1, <2>3 DEF TablesGet
    <2> QED
        BY <2>2, <2>4 DEF Tables!Same
<1>2. joined = {met(g) : g \in gets} \union {h \in new : \A g \in gets : ~Tables!Same(g, h)}
    BY DEF Tables!Joined
<1> HIDE DEF met
<1>3. joined \in SUBSET TablesGet
    BY <1>1, <1>2
<1>4. ASSUME NEW h \in new
      PROVE  \E k \in joined : Tables!Same(k, h) /\ (h.clear => k.clear)
    <2>1. CASE \E g \in gets : Tables!Same(g, h)
        BY <1>1, <1>2, <2>1
    <2>2. CASE \A g \in gets : ~Tables!Same(g, h)
        BY <1>2, <2>2 DEF Tables!Same
    <2> QED
        BY <2>1, <2>2
<1>5. \A g \in gets : \E k \in joined : Tables!Same(k, g) /\ (g.clear => k.clear)
    BY <1>1, <1>2
<1>6. \A k \in joined : k \in new \/ \E g \in gets : Tables!Same(k, g) /\ k.answer = g.answer
    BY <1>1, <1>2
<1> QED
    BY <1>3, <1>4, <1>5, <1>6

\* A step after which nothing is sure keeps the types only.
LEMMA TablesUnsure ==
    ASSUME TablesTypes', TablesActs', ~h11'.sure
    PROVE  TablesInv'
BY DEF TablesInv

\* Asking keeps the invariant.
LEMMA TablesAsks ==
    ASSUME TablesInv, TablesTypes', TablesActs', h1' = h1,
           NEW new \in SUBSET TablesGet, new # {}, \A h \in new : h.answer = <<>>,
           h9' = Tables!Joined(new),
           h11'.sure =>
               /\ h11.sure /\ (h2' = h2 \/ h9 = {})
               /\ ~h1.sized => /\ \A h \in new : h.size = h6'.size
                               /\ h6'.size = h6.size \/ h9 = {}
               /\ \A s \in h7' : (\E h \in new : s = Tables!Spinner(h)) \/ (s \in h7 /\ h10' = h10)
               /\ h4' = (h4 /\ \A h \in new : h.filter)
               /\ h11'.mixed = (h11.mixed \/ \E g, k \in h9' : g.filter # k.filter)
               /\ UNCHANGED <<h2, h5, h8>> \/ h1.name # "tokens" \/ \E h \in new : h.clear
    PROVE  TablesInv'
<1> SUFFICES ASSUME h11'.sure PROVE TablesSure'
    BY DEF TablesInv
<1>1. PICK gets : gets = h9
    OBVIOUS
<1>2. PICK joined : joined = Tables!Joined(new) /\ h9' = joined
    OBVIOUS
<1>3. /\ joined \in SUBSET TablesGet /\ joined # {}
      /\ \A h \in new : \E k \in joined : Tables!Same(k, h) /\ (h.clear => k.clear)
      /\ \A g \in gets : \E k \in joined : Tables!Same(k, g) /\ (g.clear => k.clear)
      /\ \A k \in joined :
             k \in new \/ \E g \in gets : Tables!Same(k, g) /\ k.answer = g.answer
    BY <1>1, <1>2, TablesJoins DEF TablesInv, TablesTypes
<1>4. TablesSure
    BY DEF TablesInv
<1>5. \A g, k : Tables!Same(k, g) => Tables!Spinner(k) = Tables!Spinner(g)
    BY DEF Tables!Same, Tables!Spinner
<1>6. \A g : Tables!Spinner(g)' = Tables!Spinner(g)
    BY DEF Tables!Spinner
<1>7. TablesTurns'
    <2> SUFFICES ASSUME NEW s \in h7'
                 PROVE  \/ \E k \in joined : s = Tables!Spinner(k)
                        \/ s = "loading" /\ h10' # <<>> /\ h1'.name # "models"
        BY <1>2, <1>6 DEF TablesTurns
    <2>1. (\E h \in new : s = Tables!Spinner(h)) \/ (s \in h7 /\ h10' = h10)
        OBVIOUS
    <2>2. CASE \E h \in new : s = Tables!Spinner(h)
        BY <1>3, <1>5, <2>2
    <2>3. CASE s \in h7 /\ h10' = h10
        BY <1>1, <1>3, <1>4, <1>5, <2>3 DEF TablesSure, TablesTurns
    <2> QED
        BY <2>1, <2>2, <2>3
<1>8. TablesGets'
    <2> SUFFICES ASSUME NEW k \in joined PROVE TablesAnswered(k)'
        BY <1>2 DEF TablesGets
    <2>1. CASE k \in new
        BY <2>1 DEF TablesAnswered
    <2>2. CASE \E g \in gets : Tables!Same(k, g) /\ k.answer = g.answer
        <3>1. PICK g \in gets : Tables!Same(k, g) /\ k.answer = g.answer
            BY <2>2
        <3>2. g.filter = k.filter /\ g.page = k.page /\ g.size = k.size
            BY <3>1 DEF Tables!Same
        <3>3. h2' = h2 /\ (~h1.sized => h6'.size = h6.size)
            BY <1>1, <3>1
        <3>4. Tables!PageOf(k.filter, k.page, k.size)' = Tables!PageOf(k.filter, k.page, k.size)
            BY <3>3, TablesSame
        <3>5. TablesAnswered(g)
            BY <1>1, <1>4, <3>1 DEF TablesSure, TablesGets
        <3> QED
            BY <3>1, <3>2, <3>3, <3>4, <3>5 DEF TablesAnswered
    <2> QED
        BY <1>3, <2>1, <2>2
<1>9. TablesRows'
    BY <1>2, <1>3 DEF TablesRows
<1>10. TablesMode'
    <2> SUFFICES ASSUME h1.paging = "shown", ~h11'.mixed
                 PROVE  /\ \A g, k \in joined : g.filter = k.filter
                        /\ \A g \in joined : ~g.filter => ~h4'
        BY <1>2, <1>3 DEF TablesMode
    <2>1. \A g, k \in joined : g.filter = k.filter
        BY <1>2
    <2>2. ASSUME NEW g \in joined, ~g.filter PROVE ~h4'
        <3>1. PICK h \in new : TRUE
            OBVIOUS
        <3>2. PICK k \in joined : Tables!Same(k, h)
            BY <1>3
        <3>3. ~h.filter
            BY <2>1, <2>2, <3>2 DEF Tables!Same
        <3> QED
            BY <3>3
    <2> QED
        BY <2>1, <2>2
<1>11. TablesSelected'
    <2>1. CASE h1.name # "tokens"
        BY <2>1 DEF TablesSelected
    <2>2. CASE \E h \in new : h.clear
        BY <1>2, <1>3, <2>2 DEF TablesSelected
    <2>3. CASE UNCHANGED <<h2, h5, h8>>
        <3>1. CASE \E g \in gets : g.clear
            BY <1>2, <1>3, <3>1 DEF TablesSelected
        <3>2. CASE ~\E g \in gets : g.clear
            BY <1>1, <1>4, <2>3, <3>2 DEF TablesSure, TablesSelected, TablesExist
        <3> QED
            BY <3>1, <3>2
    <2> QED
        BY <2>1, <2>2, <2>3
<1> QED
    BY <1>7, <1>8, <1>9, <1>10, <1>11 DEF TablesSure

LEMMA TablesStarts == Tables!Init => TablesInv
<1> SUFFICES ASSUME Tables!Init PROVE TablesInv
    OBVIOUS
<1>1. PICK g : g = Tables!Get(FALSE, 1, 2, FALSE)
    OBVIOUS
<1>2. /\ g \in TablesGet /\ g.answer = <<>> /\ ~g.filter /\ g.page = 1 /\ g.size = 2 /\ ~g.clear
    BY <1>1 DEF Tables!Get, TablesGet, Tables!Sizes
<1>3. /\ h1 \in Tables!Tables /\ h2 \in [Tables!Items -> {TRUE}] /\ h3 = FALSE /\ h4 = FALSE
      /\ h5 = <<>> /\ h6 = [page |-> 1, size |-> 2] /\ h7 = {"loading"} /\ h8 = {}
      /\ h9 = {g} /\ h10 = <<>>
      /\ h11 = [filter |-> FALSE, page |-> 1, size |-> 2, sure |-> TRUE, mixed |-> FALSE,
                known |-> FALSE]
    BY <1>1 DEF Tables!Init
<1>4. TablesTypes
    <2>1. h6 \in TablesAt /\ h11 \in TablesView
        BY <1>3 DEF TablesAt, TablesView, Tables!Sizes
    <2>2. h5 \in Seq(TablesRow) /\ h7 \subseteq TablesFlags /\ h9 \subseteq TablesGet
        BY <1>2, <1>3 DEF TablesFlags
    <2>3. DOMAIN h2 = Tables!Items /\ h2 \in [Tables!Items -> BOOLEAN]
        BY <1>3
    <2> QED
        BY <1>3, <2>1, <2>2, <2>3 DEF TablesTypes
<1>5. Tables!Spinner(g) = "loading"
    BY <1>2 DEF Tables!Spinner
<1>6. TablesTurns
    BY <1>3, <1>5 DEF TablesTurns
<1>7. TablesGets
    BY <1>2, <1>3 DEF TablesGets, TablesAnswered
<1>8. TablesRows
    BY <1>3 DEF TablesRows
<1>9. TablesMode
    BY <1>3 DEF TablesMode
<1>10. TablesSelected
    BY <1>3 DEF TablesSelected, TablesExist
<1> QED
    BY <1>3, <1>4, <1>6, <1>7, <1>8, <1>9, <1>10 DEF TablesInv, TablesSure, TablesActs

\* A step that leaves alone what the invariant is about, but for what is selected.
LEMMA TablesStays ==
    ASSUME TablesInv, UNCHANGED <<h1, h2, h4, h5, h6, h7, h9, h10, h11>>, h3' \in BOOLEAN,
           h8' \subseteq Nat, TablesSelected => TablesSelected'
    PROVE  TablesInv'
<1>1. TablesTypes' /\ TablesActs'
    BY DEF TablesInv, TablesTypes, TablesActs
<1>2. ASSUME h11.sure PROVE TablesSure'
    <2>1. TablesTurns'
        BY <1>2 DEF TablesInv, TablesSure, TablesTurns, Tables!Spinner
    <2>2. \A f, p, z : Tables!PageOf(f, p, z)' = Tables!PageOf(f, p, z)
        BY TablesSame
    <2>3. TablesGets'
        BY <1>2, <2>2 DEF TablesInv, TablesSure, TablesGets, TablesAnswered
    <2>4. TablesRows'
        BY <1>2, <2>2 DEF TablesInv, TablesSure, TablesRows
    <2>5. TablesMode'
        BY <1>2 DEF TablesInv, TablesSure, TablesMode
    <2>6. TablesSelected'
        BY <1>2 DEF TablesInv, TablesSure
    <2> QED
        BY <2>1, <2>3, <2>4, <2>5, <2>6 DEF TablesSure
<1> QED
    BY <1>1, <1>2 DEF TablesInv

\* A click that asks.
LEMMA TablesClicks ==
    ASSUME TablesInv, NEW new \in SUBSET TablesGet, new # {}, \A h \in new : h.answer = <<>>,
           Tables!Ask(new), UNCHANGED <<h1, h2, h3, h5, h8, h10>>,
           h6' \in TablesAt, h11' \in TablesView, h11'.mixed = Tables!Mixed(h9'),
           h11'.sure => /\ h11.sure
                        /\ ~h1.sized => /\ \A h \in new : h.size = h6'.size
                                        /\ h6'.size = h6.size \/ h9 = {}
    PROVE  TablesInv'
<1>1. /\ h9' = Tables!Joined(new) /\ h7' = h7 \union {Tables!Spinner(g) : g \in new}
      /\ h4' = (h4 /\ \A g \in new : g.filter)
    BY DEF Tables!Ask
<1>2. h7' \subseteq TablesFlags
    <2>1. \A g \in new : Tables!Spinner(g) \in TablesFlags
        BY DEF Tables!Spinner, TablesFlags
    <2> QED
        BY <1>1, <2>1 DEF TablesInv, TablesTypes
<1>3. h9' \subseteq TablesGet
    <2>1. PICK gets : gets = h9
        OBVIOUS
    <2>2. PICK joined : joined = Tables!Joined(new) /\ h9' = joined
        BY <1>1
    <2>3. gets \in SUBSET TablesGet
        BY <2>1 DEF TablesInv, TablesTypes
    <2> QED
        BY <2>1, <2>2, <2>3, TablesJoins
<1>4. h4' \in BOOLEAN
    BY <1>1 DEF TablesInv, TablesTypes
<1>5. TablesTypes' /\ TablesActs'
    BY <1>2, <1>3, <1>4 DEF TablesInv, TablesTypes, TablesActs
<1>6. \A s \in h7' : (\E h \in new : s = Tables!Spinner(h)) \/ (s \in h7 /\ h10' = h10)
    BY <1>1
<1>7. h11'.mixed = (h11.mixed \/ \E g, k \in h9' : g.filter # k.filter)
    BY DEF Tables!Mixed
<1> HIDE DEF TablesInv, TablesTypes, TablesActs
<1> QED
    BY <1>1, <1>5, <1>6, <1>7, TablesAsks

LEMMA TablesClicked ==
    ASSUME TablesInv,
           Tables!search \/ Tables!handlePageChange \/ Tables!handlePageSizeChange
    PROVE  TablesInv'
<1>1. /\ h6 \in TablesAt /\ h6.page \in Nat \ {0} /\ h6.size \in Tables!Sizes
      /\ h11 \in TablesView /\ h1 \in Tables!Tables /\ h3 \in BOOLEAN /\ h4 \in BOOLEAN
    BY DEF TablesInv, TablesTypes, TablesAt
<1>2. Tables!Filter \in BOOLEAN
    BY <1>1 DEF Tables!Filter
<1>3. \A all : Tables!Mixed(all) \in BOOLEAN
    BY <1>1 DEF Tables!Mixed, TablesView
<1>4. CASE Tables!search
    <2>1. PICK g : g = Tables!Get(h3, 1, h6.size, FALSE)
        OBVIOUS
    <2>2. g \in TablesGet /\ g.answer = <<>> /\ g.size = h6.size
        BY <1>1, <2>1 DEF Tables!Get, TablesGet
    <2>3. /\ Tables!Ask({g}) /\ UNCHANGED <<h1, h2, h3, h5, h6, h8, h10>>
          /\ h11' = [h11 EXCEPT !.mixed = Tables!Mixed(h9')]
        BY <1>4, <2>1 DEF Tables!search
    <2>4. h11' \in TablesView /\ h11'.mixed = Tables!Mixed(h9') /\ h11'.sure = h11.sure
        BY <1>1, <1>3, <2>3 DEF TablesView
    <2>5. {g} \in SUBSET TablesGet /\ {g} # {} /\ \A h \in {g} : h.answer = <<>> /\ h.size = h6'.size
        BY <2>2, <2>3
    <2>6. h6' \in TablesAt /\ h6'.size = h6.size
        BY <1>1, <2>3
    <2> QED
        BY <2>3, <2>4, <2>5, <2>6, TablesClicks
<1>5. CASE Tables!handlePageChange
    <2>1. PICK p \in 1..Tables!LastPage(h11.filter, h6.size) \ {h6.page} :
              /\ Tables!Ask({Tables!Get(Tables!Filter, Tables!PageAsked(Tables!Filter, p),
                                        h6.size, FALSE)})
              /\ h6' = IF h1.eager THEN [h6 EXCEPT !.page = p] ELSE h6
        BY <1>5 DEF Tables!handlePageChange
    <2>2. p \in Nat \ {0}
        <3>1. p \in Int /\ p >= 1
            BY <2>1
        <3> QED
            BY <3>1
    <2>3. PICK q : q = Tables!PageAsked(Tables!Filter, p)
        OBVIOUS
    <2>4. q \in Nat \ {0}
        BY <2>2, <2>3 DEF Tables!PageAsked
    <2>5. PICK g : g = Tables!Get(Tables!Filter, q, h6.size, FALSE)
        OBVIOUS
    <2>6. g \in TablesGet /\ g.answer = <<>> /\ g.size = h6.size
        BY <1>1, <1>2, <2>4, <2>5 DEF Tables!Get, TablesGet
    <2>7. /\ Tables!Ask({g}) /\ UNCHANGED <<h1, h2, h3, h5, h8, h10>>
          /\ h11' = [h11 EXCEPT !.mixed = Tables!Mixed(h9')]
        BY <1>5, <2>1, <2>3, <2>5 DEF Tables!handlePageChange
    <2>8. h11' \in TablesView /\ h11'.mixed = Tables!Mixed(h9') /\ h11'.sure = h11.sure
        BY <1>1, <1>3, <2>7 DEF TablesView
    <2>9. h6' \in TablesAt /\ h6'.size = h6.size
        BY <1>1, <2>1, <2>2 DEF TablesAt
    <2>10. {g} \in SUBSET TablesGet /\ {g} # {} /\ \A h \in {g} : h.answer = <<>> /\ h.size = h6'.size
        BY <2>6, <2>9
    <2> QED
        BY <2>7, <2>8, <2>9, <2>10, TablesClicks
<1>6. CASE Tables!handlePageSizeChange
    <2>1. PICK s \in Tables!Sizes \ {h6.size} :
        LET page0 == IF h1.oldPage THEN h6.page ELSE 1
            filter == IF h1.name \in {"users", "models"} THEN FALSE ELSE Tables!Filter
            asked == Tables!Get(filter, page0, IF filter /\ h1.first THEN h6.size ELSE s, FALSE)
            effect == IF h1.resized THEN {Tables!Get(FALSE, 1, s, FALSE)} ELSE {}
        IN  /\ Tables!Ask({asked} \union effect)
            /\ h6' = [page |-> IF h1.eager THEN 1 ELSE h6.page,
                      size |-> IF h1.lazy THEN h6.size ELSE s]
            /\ h11' = [h11 EXCEPT !.mixed = Tables!Mixed(h9'),
                            !.sure = h11.sure /\ asked.size = s /\ (h1.sized \/ h9 = {})]
        BY <1>6 DEF Tables!handlePageSizeChange
    <2>2. PICK page0 \in Nat \ {0} : page0 = IF h1.oldPage THEN h6.page ELSE 1
        BY <1>1
    <2>3. PICK filter \in BOOLEAN :
              filter = IF h1.name \in {"users", "models"} THEN FALSE ELSE Tables!Filter
        BY <1>2
    <2>4. PICK z \in Tables!Sizes : z = IF filter /\ h1.first THEN h6.size ELSE s
        BY <1>1
    <2>5. PICK asked : asked = Tables!Get(filter, page0, z, FALSE)
        OBVIOUS
    <2>6. PICK effect : effect = IF h1.resized THEN {Tables!Get(FALSE, 1, s, FALSE)} ELSE {}
        OBVIOUS
    <2>7. asked \in TablesGet /\ asked.answer = <<>> /\ asked.size = z
        BY <2>5 DEF Tables!Get, TablesGet
    <2>8. \A h \in effect : h \in TablesGet /\ h.answer = <<>> /\ h.size = s
        <3>1. PICK h : h = Tables!Get(FALSE, 1, s, FALSE)
            OBVIOUS
        <3>2. h \in TablesGet /\ h.answer = <<>> /\ h.size = s
            BY <3>1 DEF Tables!Get, TablesGet, Tables!Sizes
        <3> QED
            BY <2>6, <3>1, <3>2
    <2>9. PICK sure \in BOOLEAN : sure = (h11.sure /\ asked.size = s /\ (h1.sized \/ h9 = {}))
        OBVIOUS
    <2>10. /\ Tables!Ask({asked} \union effect)
           /\ h6' = [page |-> IF h1.eager THEN 1 ELSE h6.page,
                     size |-> IF h1.lazy THEN h6.size ELSE s]
           /\ h11' = [h11 EXCEPT !.mixed = Tables!Mixed(h9'), !.sure = sure]
        BY <2>1, <2>2, <2>3, <2>4, <2>5, <2>6, <2>9, Zenon
    <2>11. UNCHANGED <<h1, h2, h3, h5, h8, h10>>
        BY <1>6 DEF Tables!handlePageSizeChange
    <2>12. h11' \in TablesView /\ h11'.mixed = Tables!Mixed(h9') /\ h11'.sure = sure
        BY <1>1, <1>3, <2>10 DEF TablesView
    <2>13. h6' \in TablesAt /\ (~h1.lazy => h6'.size = s)
        BY <1>1, <2>10 DEF TablesAt
    <2>14. h1.sized \/ ~h1.lazy
        BY <1>1, TablesKinds
    <2>15. PICK new : new = {asked} \union effect
        OBVIOUS
    <2>16. new \in SUBSET TablesGet /\ new # {} /\ \A h \in new : h.answer = <<>>
        BY <2>7, <2>8, <2>15
    <2>17. h11'.sure => /\ h11.sure
                        /\ ~h1.sized => /\ \A h \in new : h.size = h6'.size
                                        /\ h6'.size = h6.size \/ h9 = {}
        BY <2>8, <2>9, <2>12, <2>13, <2>14, <2>15
    <2>18. Tables!Ask(new)
        BY <2>10, <2>15
    <2> QED
        BY <2>11, <2>12, <2>13, <2>16, <2>17, <2>18, TablesClicks
<1> QED
    BY <1>4, <1>5, <1>6

LEMMA TablesAsked == ASSUME TablesInv, Tables!Asked PROVE TablesInv'
<1> DEFINE done(g) == [g EXCEPT !.answer = <<Tables!PageOf(g.filter, g.page, g.size)>>]
<1>1. PICK g \in h9 : g.answer = <<>> /\ h9' = (h9 \ {g}) \union {done(g)}
    BY DEF Tables!Asked
<1>2. UNCHANGED <<h1, h2, h3, h4, h5, h6, h7, h8, h10, h11>>
    BY DEF Tables!Asked
<1>3. g \in TablesGet
    BY DEF TablesInv, TablesTypes
<1>4. Tables!PageOf(g.filter, g.page, g.size) \in Seq(TablesRow)
    BY <1>3, TablesPaged DEF TablesInv, TablesTypes, TablesGet
<1>5. PICK d : d = done(g)
    OBVIOUS
<1>6. /\ d \in TablesGet /\ d.answer = <<Tables!PageOf(g.filter, g.page, g.size)>>
      /\ d.filter = g.filter /\ d.page = g.page /\ d.size = g.size /\ d.clear = g.clear
    BY <1>3, <1>4, <1>5 DEF TablesGet
<1> HIDE DEF done
<1>7. h9' = (h9 \ {g}) \union {d}
    BY <1>1, <1>5
<1>8. TablesTypes' /\ TablesActs'
    BY <1>2, <1>6, <1>7 DEF TablesInv, TablesTypes, TablesActs
<1>9. \A f, p, z : Tables!PageOf(f, p, z)' = Tables!PageOf(f, p, z)
    BY <1>2, TablesSame
<1>10. ASSUME h11.sure PROVE TablesSure'
    <2>1. TablesSure
        BY <1>10 DEF TablesInv
    <2>2. Tables!Spinner(d) = Tables!Spinner(g)
        BY <1>6 DEF Tables!Spinner
    <2>3. \A k : Tables!Spinner(k)' = Tables!Spinner(k)
        BY <1>2 DEF Tables!Spinner
    <2>4. \A k \in h9 : \E f \in h9' : Tables!Spinner(f) = Tables!Spinner(k) /\ f.clear = k.clear
        BY <1>6, <1>7, <2>2
    <2>5. TablesTurns'
        BY <1>2, <2>1, <2>3, <2>4 DEF TablesSure, TablesTurns
    <2>6. TablesAnswered(d)
        BY <1>6, <2>1 DEF TablesSure, TablesGets, TablesAnswered
    <2>7. \A k \in h9' : TablesAnswered(k)
        BY <1>7, <2>1, <2>6 DEF TablesSure, TablesGets
    <2>8. TablesGets'
        BY <1>2, <1>9, <2>7 DEF TablesGets, TablesAnswered
    <2>9. TablesRows'
        BY <1>7 DEF TablesRows
    <2>10. TablesMode'
        BY <1>2, <1>6, <1>7, <2>1 DEF TablesSure, TablesMode
    <2>11. TablesSelected'
        BY <1>2, <2>1, <2>4 DEF TablesSure, TablesSelected, TablesExist
    <2> QED
        BY <2>5, <2>8, <2>9, <2>10, <2>11 DEF TablesSure
<1> QED
    BY <1>2, <1>8, <1>10 DEF TablesInv

LEMMA TablesLoaded == ASSUME TablesInv, Tables!Loaded PROVE TablesInv'
<1>1. PICK g \in h9 :
          /\ g.answer # <<>> /\ h9' = h9 \ {g} /\ h5' = g.answer[1]
          /\ h6' = [page |-> g.page, size |-> Tables!ShownSize(g)]
          /\ h7' = h7 \ {Tables!Spinner(g)}
          /\ h4' = (h4 \/ (g.filter /\ h1.paging = "shown"))
          /\ h8' = IF g.clear THEN {} ELSE h8
          /\ h11' = [h11 EXCEPT !.filter = g.filter, !.page = g.page, !.size = g.size,
                                !.known = TRUE]
    BY DEF Tables!Loaded
<1>2. UNCHANGED <<h1, h2, h3, h10>>
    BY DEF Tables!Loaded
<1>3. /\ g \in TablesGet /\ g.page \in Nat \ {0} /\ g.size \in Tables!Sizes /\ g.filter \in BOOLEAN
      /\ g.clear \in BOOLEAN /\ h6 \in TablesAt /\ h6.size \in Tables!Sizes /\ h11 \in TablesView
      /\ h4 \in BOOLEAN
    BY DEF TablesInv, TablesTypes, TablesGet, TablesAt
<1>4. PICK r \in Seq(TablesRow) : g.answer = <<r>> /\ h5' = r
    BY <1>1, <1>3 DEF TablesGet
<1>5. /\ h6' \in TablesAt /\ h6'.page = g.page
      /\ h6'.size = IF h1.sized THEN g.size ELSE h6.size
    BY <1>1, <1>3 DEF TablesAt, Tables!ShownSize
<1>6. /\ h11' \in TablesView /\ h11'.filter = g.filter /\ h11'.sure = h11.sure
      /\ h11'.mixed = h11.mixed
    <2>1. g.page \in Nat /\ g.size \in Nat
        BY <1>3 DEF Tables!Sizes
    <2> QED
        BY <1>1, <1>3, <2>1 DEF TablesView
<1>7. h4' \in BOOLEAN
    BY <1>1
<1>8. TablesTypes' /\ TablesActs'
    BY <1>1, <1>2, <1>4, <1>5, <1>6, <1>7 DEF TablesInv, TablesTypes, TablesActs
<1>9. \A f, p, z : Tables!PageOf(f, p, z)' = Tables!PageOf(f, p, z)
    BY <1>2, TablesSame
<1>10. ASSUME h11.sure PROVE TablesSure'
    <2>1. TablesSure
        BY <1>10 DEF TablesInv
    <2>2. \A k : Tables!Spinner(k)' = Tables!Spinner(k)
        BY <1>2 DEF Tables!Spinner
    <2>3. TablesTurns'
        <3> SUFFICES ASSUME NEW s \in h7'
                     PROVE  \/ \E k \in h9' : s = Tables!Spinner(k)
                            \/ s = "loading" /\ h10 # <<>> /\ h1.name # "models"
            BY <1>2, <2>2 DEF TablesTurns
        <3>1. s \in h7 /\ s # Tables!Spinner(g)
            BY <1>1
        <3> QED
            BY <1>1, <2>1, <3>1 DEF TablesSure, TablesTurns
    <2>4. TablesAnswered(g)
        BY <2>1 DEF TablesSure, TablesGets
    <2>5. TablesGets'
        <3> SUFFICES ASSUME NEW k \in h9' PROVE TablesAnswered(k)'
            BY DEF TablesGets
        <3>1. TablesAnswered(k)
            BY <1>1, <2>1 DEF TablesSure, TablesGets
        <3> QED
            BY <1>2, <1>5, <1>9, <3>1 DEF TablesAnswered
    <2>6. r = Tables!PageOf(g.filter, g.page, g.size)
        <3>1. g.answer = <<Tables!PageOf(g.filter, g.page, g.size)>>
            BY <1>1, <2>4 DEF TablesAnswered
        <3> QED
            BY <1>4, <3>1
    <2>7. h6'.size = g.size
        BY <1>5, <2>4 DEF TablesAnswered
    <2>8. TablesRows'
        BY <1>4, <1>5, <1>6, <1>9, <2>6, <2>7 DEF TablesRows
    <2>9. TablesMode'
        <3> SUFFICES ASSUME h1.paging = "shown", ~h11.mixed
                     PROVE  /\ \A f, k \in h9' : f.filter = k.filter
                            /\ \A f \in h9' : ~f.filter => ~h4'
                            /\ h9' = {} => (h4' <=> h11'.filter)
            BY <1>2, <1>6 DEF TablesMode
        <3>1. /\ \A f, k \in h9 : f.filter = k.filter
              /\ ~g.filter => ~h4
            BY <2>1 DEF TablesSure, TablesMode
        <3>2. h4' = (h4 \/ g.filter)
            BY <1>1
        <3> QED
            BY <1>1, <1>6, <3>1, <3>2
    <2>10. TablesSelected'
        <3> SUFFICES ASSUME h1.name = "tokens"
                     PROVE  \/ h8' \subseteq DOMAIN h2' /\ TablesExist(h5)'
                            \/ \E k \in h9' : k.clear
            BY <1>2 DEF TablesSelected
        <3>1. TablesExist(r)
            BY <1>3, <2>6, TablesPaged DEF TablesInv, TablesTypes
        <3>2. TablesExist(h5)'
            BY <1>2, <1>4, <3>1 DEF TablesExist
        <3>3. CASE g.clear \/ h8 \subseteq DOMAIN h2
            BY <1>1, <1>2, <3>2, <3>3
        <3>4. CASE ~g.clear /\ \E k \in h9 : k.clear
            BY <1>1, <3>4
        <3> QED
            BY <2>1, <3>3, <3>4 DEF TablesSure, TablesSelected
    <2> QED
        BY <2>3, <2>5, <2>8, <2>9, <2>10 DEF TablesSure
<1> QED
    BY <1>6, <1>8, <1>10 DEF TablesInv

LEMMA TablesLoadFailed == ASSUME TablesInv, Tables!LoadFailed PROVE TablesInv'
<1>1. PICK g \in h9, broken \in BOOLEAN :
          /\ h9' = h9 \ {g} /\ h5' = IF h1.clears THEN <<>> ELSE h5
          /\ h7' = IF broken /\ ~h1.caught THEN h7 ELSE h7 \ {Tables!Spinner(g)}
          /\ h8' = IF g.clear /\ ~broken THEN {} ELSE h8
          /\ h11' = [h11 EXCEPT !.sure = FALSE]
    BY DEF Tables!LoadFailed
<1>2. UNCHANGED <<h1, h2, h3, h4, h6, h10>>
    BY DEF Tables!LoadFailed
<1>3. h5' \in Seq(TablesRow) /\ h7' \subseteq h7 /\ h8' \subseteq h8
    <2>1. h5 \in Seq(TablesRow) /\ <<>> \in Seq(TablesRow)
        BY DEF TablesInv, TablesTypes
    <2> QED
        BY <1>1, <2>1
<1>4. h11' \in TablesView /\ ~h11'.sure
    BY <1>1 DEF TablesInv, TablesTypes, TablesView
<1>5. TablesTypes' /\ TablesActs'
    BY <1>1, <1>2, <1>3, <1>4 DEF TablesInv, TablesTypes, TablesActs
<1> QED
    BY <1>4, <1>5, TablesUnsure

LEMMA TablesRowSelection == ASSUME TablesInv, Tables!rowSelection PROVE TablesInv'
<1>1. PICK i \in DOMAIN h5 :
          h8' = IF h5[i].id \in h8 THEN h8 \ {h5[i].id} ELSE h8 \union {h5[i].id}
    BY DEF Tables!rowSelection
<1>2. UNCHANGED <<h1, h2, h3, h4, h5, h6, h7, h9, h10, h11>>
    BY DEF Tables!rowSelection
<1>3. h5[i].id \in Nat /\ h8 \subseteq Nat
    <2>1. h5[i] \in TablesRow
        BY DEF TablesInv, TablesTypes
    <2> QED
        BY <2>1 DEF TablesInv, TablesTypes, TablesRow
<1>4. TablesSelected => TablesSelected'
    BY <1>1, <1>2 DEF TablesSelected, TablesExist
<1>5. h3' \in BOOLEAN /\ h8' \subseteq Nat
    BY <1>1, <1>2, <1>3 DEF TablesInv, TablesTypes
<1> QED
    BY <1>2, <1>4, <1>5, TablesStays

\* What a table is when nothing is asked for.
LEMMA TablesAtRest ==
    ASSUME TablesInv, h11.sure, h9 = {}
    PROVE  /\ h5 = Tables!PageOf(h11.filter, h6.page, h6.size)
           /\ \A s \in h7 : s = "loading" /\ h10 # <<>> /\ h1.name # "models"
           /\ h1.paging = "shown" /\ ~h11.mixed => (h4 <=> h11.filter)
           /\ h1.name = "tokens" => h8 \subseteq DOMAIN h2
BY DEF TablesInv, TablesSure, TablesRows, TablesTurns, TablesMode, TablesSelected

LEMMA TablesManage == ASSUME TablesInv, Tables!manage PROVE TablesInv'
<1>1. /\ h10 = <<>> /\ h1.changes # "none" /\ UNCHANGED <<h1, h2, h3, h4, h5, h6, h8, h9>>
      /\ h7' = IF h1.name = "models" THEN h7 ELSE h7 \union {"loading"}
      /\ h11' = [h11 EXCEPT !.sure = h11.sure /\ h9 = {}]
    BY DEF Tables!manage
<1>2. /\ h5 \in Seq(TablesRow) /\ h6.page \in Nat \ {0} /\ h6.size \in Tables!Sizes /\ h8 \subseteq Nat
      /\ h11 \in TablesView
    BY DEF TablesInv, TablesTypes, TablesAt
<1>3. PICK a \in TablesAct : h10' = <<a>> /\ (a.what = "batch" => h1.selects)
    <2>1. CASE h1.selects /\ h8 # {} /\ h10' = <<[what |-> "batch", ids |-> h8, on |-> FALSE,
                                     rows |-> h5, page |-> h6.page, size |-> h6.size]>>
        <3>1. PICK a : a = [what |-> "batch", ids |-> h8, on |-> FALSE, rows |-> h5,
                            page |-> h6.page, size |-> h6.size]
            OBVIOUS
        <3>2. a \in TablesAct
            BY <1>2, <3>1 DEF TablesAct
        <3> QED
            BY <2>1, <3>1, <3>2
    <2>2. CASE \E i \in DOMAIN h5, what \in {"switch", "delete"} :
                   ~h5[i].gone /\ h10' = <<[what |-> what, ids |-> {h5[i].id}, on |-> ~h5[i].on,
                                            rows |-> h5, page |-> h6.page, size |-> h6.size]>>
        <3>1. PICK i \in DOMAIN h5, what \in {"switch", "delete"} :
                  h10' = <<[what |-> what, ids |-> {h5[i].id}, on |-> ~h5[i].on,
                            rows |-> h5, page |-> h6.page, size |-> h6.size]>>
            BY <2>2
        <3>2. h5[i] \in TablesRow
            BY <1>2
        <3>3. PICK ids \in SUBSET Nat : ids = {h5[i].id}
            BY <3>2 DEF TablesRow
        <3>4. PICK on \in BOOLEAN : on = ~h5[i].on
            OBVIOUS
        <3>5. PICK a : a = [what |-> what, ids |-> ids, on |-> on, rows |-> h5,
                            page |-> h6.page, size |-> h6.size]
            OBVIOUS
        <3>6. a \in TablesAct /\ a.what # "batch"
            BY <1>2, <3>5 DEF TablesAct
        <3> QED
            BY <3>1, <3>3, <3>4, <3>5, <3>6
    <2> QED
        BY <2>1, <2>2 DEF Tables!manage
<1>4. /\ h11' \in TablesView /\ h11'.sure = (h11.sure /\ h9 = {}) /\ h11'.filter = h11.filter
      /\ h11'.mixed = h11.mixed
    <2>1. (h11.sure /\ h9 = {}) \in BOOLEAN
        OBVIOUS
    <2> QED
        BY <1>1, <1>2, <2>1 DEF TablesView
<1>5. h7' \subseteq TablesFlags
    BY <1>1 DEF TablesInv, TablesTypes, TablesFlags
<1>6. TablesTypes' /\ TablesActs'
    BY <1>1, <1>3, <1>4, <1>5 DEF TablesInv, TablesTypes, TablesActs
<1>7. ASSUME h11'.sure PROVE TablesSure'
    <2>1. h11.sure /\ h9 = {} /\ h9' = {}
        BY <1>1, <1>4, <1>7
    <2>2. /\ h5 = Tables!PageOf(h11.filter, h6.page, h6.size) /\ h7 = {}
          /\ h1.paging = "shown" /\ ~h11.mixed => (h4 <=> h11.filter)
          /\ TablesSelected
        BY <1>1, <2>1, TablesAtRest DEF TablesInv, TablesSure
    <2>3. \A f, p, z : Tables!PageOf(f, p, z)' = Tables!PageOf(f, p, z)
        BY <1>1, TablesSame
    <2>4. TablesTurns'
        BY <1>1, <1>3, <2>2 DEF TablesTurns
    <2>5. TablesGets'
        BY <2>1 DEF TablesGets
    <2>6. TablesRows'
        BY <1>1, <1>4, <2>2, <2>3 DEF TablesRows
    <2>7. TablesMode'
        BY <1>1, <1>4, <2>1, <2>2 DEF TablesMode
    <2>8. TablesSelected'
        BY <1>1, <2>2 DEF TablesSelected, TablesExist
    <2> QED
        BY <2>4, <2>5, <2>6, <2>7, <2>8 DEF TablesSure
<1> QED
    BY <1>6, <1>7 DEF TablesInv

LEMMA TablesApplied ==
    ASSUME TablesTypes, NEW a \in TablesAct, NEW ids \in SUBSET a.ids,
           NEW new, new = Tables!Applied(a, ids)
    PROVE  DOMAIN new \subseteq Tables!Items /\ new \in [DOMAIN new -> BOOLEAN]
<1>1. DOMAIN h2 \subseteq Tables!Items /\ h2 \in [DOMAIN h2 -> BOOLEAN] /\ a.on \in BOOLEAN
    BY DEF TablesTypes, TablesAct
<1>2. CASE a.what = "switch"
    <2>1. new = [i \in DOMAIN h2 |-> IF i \in ids THEN a.on ELSE h2[i]]
        BY <1>2 DEF Tables!Applied
    <2> QED
        BY <1>1, <2>1
<1>3. CASE a.what # "switch"
    <2>1. new = [i \in DOMAIN h2 \ ids |-> h2[i]]
        BY <1>3 DEF Tables!Applied
    <2> QED
        BY <1>1, <2>1
<1> QED
    BY <1>2, <1>3

LEMMA TablesChanged ==
    ASSUME NEW old \in Seq(TablesRow), NEW a \in TablesAct
    PROVE  Tables!Changed(old, a) \in Seq(TablesRow)
<1> DEFINE row(i) == IF old[i].id \notin a.ids THEN old[i]
                     ELSE IF a.what = "switch" THEN [old[i] EXCEPT !.on = a.on]
                     ELSE [old[i] EXCEPT !.gone = (h1.name = "users")]
<1>1. ASSUME NEW i \in DOMAIN old PROVE row(i) \in TablesRow
    <2>1. old[i] \in TablesRow /\ a.on \in BOOLEAN
        BY DEF TablesAct
    <2>2. PICK gone \in BOOLEAN : gone = (h1.name = "users")
        OBVIOUS
    <2> QED
        BY <2>1, <2>2 DEF TablesRow
<1>2. Tables!Changed(old, a) = [i \in DOMAIN old |-> row(i)]
    BY DEF Tables!Changed
<1> HIDE DEF row
<1>3. DOMAIN old = 1..Len(old) /\ Len(old) \in Nat
    OBVIOUS
<1> QED
    BY <1>1, <1>2, <1>3

LEMMA TablesAgain ==
    ASSUME TablesTypes, NEW a \in TablesAct, NEW g, g = Tables!Again(a)
    PROVE  /\ g \in TablesGet /\ g.answer = <<>> /\ g.size = a.size
           /\ h1.name = "tokens" => g.clear
<1>1. PICK f \in BOOLEAN : f = (h1.paging = "entered" /\ h3)
    BY DEF TablesTypes
<1>2. PICK p : p = Tables!PageAsked(f, a.page)
    OBVIOUS
<1>3. p \in Nat \ {0} /\ a.size \in Tables!Sizes
    BY <1>2 DEF Tables!PageAsked, TablesAct
<1>4. PICK c \in BOOLEAN : c = (h1.name = "tokens")
    OBVIOUS
<1>5. Tables!Again(a) = Tables!Get(f, p, a.size, c)
    <2>1. Tables!Again(a) = Tables!Get(h1.paging = "entered" /\ h3,
              Tables!PageAsked(h1.paging = "entered" /\ h3, a.page), a.size, h1.name = "tokens")
        BY DEF Tables!Again
    <2> QED
        BY <1>1, <1>2, <1>4, <2>1, Zenon
<1>6. g = Tables!Get(f, p, a.size, c)
    BY <1>5
<1>7. PICK z \in Tables!Sizes : z = a.size
    BY <1>3
<1>8. g = [filter |-> f, page |-> p, size |-> z, clear |-> c, answer |-> <<>>]
    BY <1>6, <1>7 DEF Tables!Get
<1>9. g \in TablesGet /\ g.answer = <<>> /\ g.size = z /\ g.clear = c
    BY <1>3, <1>8 DEF TablesGet
<1> QED
    BY <1>4, <1>7, <1>9

LEMMA TablesManaged == ASSUME TablesInv, Tables!Managed PROVE TablesInv'
<1>1. PICK a \in TablesAct : h10 = <<a>>
    BY DEF Tables!Managed, TablesInv, TablesTypes
<1>2. h10' = <<>> /\ UNCHANGED <<h1, h3, h6>>
    BY DEF Tables!Managed
<1> DEFINE b == h10[1]
<1>3. b = a
    BY <1>1
<1>4. PICK ids \in IF b.what = "batch" /\ h1.name = "models" THEN SUBSET b.ids ELSE {{}, b.ids} :
        LET ok == ids # {} IN
        /\ h2' = Tables!Applied(b, ids)
        /\ h5' = CASE ~ok \/ b.what = "batch" -> h5
                   [] h1.changes = "current" /\ b.what = "switch" -> Tables!Changed(h5, b)
                   [] h1.changes = "asked" -> Tables!Changed(b.rows, b)
                   [] OTHER -> h5
        /\ h8' = IF ok /\ b.what = "batch" /\ h1.name = "models" THEN {} ELSE h8
        /\ LET spared == IF h1.name = "models" THEN h7 ELSE h7 \ {"loading"}
               again == b.what \in h1.reloads /\ (ok \/ b.what # "batch")
           IN  /\ h9' = IF again THEN Tables!Joined({Tables!Again(b)}) ELSE h9
               /\ h7' = IF again THEN spared \union {Tables!Spinner(Tables!Again(b))} ELSE spared
               /\ h4' = (h4 /\ (again => Tables!Again(b).filter))
        /\ h11' = [h11 EXCEPT !.sure = h11.sure /\ ok /\ h9 = {} /\ b.rows = h5
                                          /\ b.page = h6.page /\ b.size = h6.size,
                              !.mixed = Tables!Mixed(h9')]
    BY DEF Tables!Managed
<1> HIDE DEF b
<1>5. PICK ok \in BOOLEAN : ok = (ids # {})
    OBVIOUS
<1>6. PICK again \in BOOLEAN : again = (b.what \in h1.reloads /\ (ok \/ b.what # "batch"))
    OBVIOUS
<1>7. PICK spared : spared = IF h1.name = "models" THEN h7 ELSE h7 \ {"loading"}
    OBVIOUS
<1>8. PICK g : g = Tables!Again(b)
    OBVIOUS
<1>9. PICK sure \in BOOLEAN : sure = (h11.sure /\ ok /\ h9 = {} /\ b.rows = h5
                                          /\ b.page = h6.page /\ b.size = h6.size)
    OBVIOUS
<1>10. /\ h2' = Tables!Applied(a, ids)
       /\ h5' = CASE ~ok \/ a.what = "batch" -> h5
                  [] h1.changes = "current" /\ a.what = "switch" -> Tables!Changed(h5, a)
                  [] h1.changes = "asked" -> Tables!Changed(a.rows, a)
                  [] OTHER -> h5
       /\ h8' = IF ok /\ a.what = "batch" /\ h1.name = "models" THEN {} ELSE h8
       /\ h9' = IF again THEN Tables!Joined({g}) ELSE h9
       /\ h7' = IF again THEN spared \union {Tables!Spinner(g)} ELSE spared
       /\ h4' = (h4 /\ (again => g.filter))
       /\ h11' = [h11 EXCEPT !.sure = sure, !.mixed = Tables!Mixed(h9')]
    <2>1. /\ h2' = Tables!Applied(b, ids)
          /\ h5' = CASE ~ok \/ b.what = "batch" -> h5
                     [] h1.changes = "current" /\ b.what = "switch" -> Tables!Changed(h5, b)
                     [] h1.changes = "asked" -> Tables!Changed(b.rows, b)
                     [] OTHER -> h5
          /\ h8' = IF ok /\ b.what = "batch" /\ h1.name = "models" THEN {} ELSE h8
          /\ h9' = IF again THEN Tables!Joined({g}) ELSE h9
          /\ h7' = IF again THEN spared \union {Tables!Spinner(g)} ELSE spared
          /\ h4' = (h4 /\ (again => g.filter))
          /\ h11' = [h11 EXCEPT !.sure = sure, !.mixed = Tables!Mixed(h9')]
        BY <1>4, <1>5, <1>6, <1>7, <1>8, <1>9, Zenon
    <2>2. Tables!Applied(b, ids) = Tables!Applied(a, ids)
        BY <1>3
    <2>3. /\ Tables!Changed(h5, b) = Tables!Changed(h5, a)
          /\ Tables!Changed(b.rows, b) = Tables!Changed(a.rows, a)
        BY <1>3
    <2>4. h2' = Tables!Applied(a, ids)
        BY <2>1, <2>2
    <2>5. h5' = CASE ~ok \/ a.what = "batch" -> h5
                  [] h1.changes = "current" /\ a.what = "switch" -> Tables!Changed(h5, a)
                  [] h1.changes = "asked" -> Tables!Changed(a.rows, a)
                  [] OTHER -> h5
        BY <1>3, <2>1, <2>3
    <2>6. h8' = IF ok /\ a.what = "batch" /\ h1.name = "models" THEN {} ELSE h8
        BY <1>3, <2>1
    <2> QED
        BY <2>1, <2>4, <2>5, <2>6
<1>11. /\ a.what \in {"switch", "delete", "batch"} /\ a.page \in Nat \ {0} /\ a.size \in Tables!Sizes
       /\ a.rows \in Seq(TablesRow) /\ h5 \in Seq(TablesRow) /\ h11 \in TablesView
       /\ h1 \in Tables!Tables /\ h3 \in BOOLEAN /\ h4 \in BOOLEAN /\ h7 \subseteq TablesFlags
       /\ h8 \subseteq Nat /\ h6 \in TablesAt
    BY DEF TablesInv, TablesTypes, TablesAct
<1>12. ids \in SUBSET a.ids /\ (a.what # "batch" => ids \in {{}, a.ids})
    BY <1>3, <1>4
<1>13. DOMAIN h2' \subseteq Tables!Items /\ h2' \in [DOMAIN h2' -> BOOLEAN]
    <2>1. PICK new : new = Tables!Applied(a, ids)
        OBVIOUS
    <2> QED
        BY <1>10, <1>12, <2>1, TablesApplied DEF TablesInv
<1>14. h5' \in Seq(TablesRow)
    <2>1. h5' \in {h5, Tables!Changed(h5, a), Tables!Changed(a.rows, a)}
        BY <1>10
    <2>2. Tables!Changed(h5, a) \in Seq(TablesRow) /\ Tables!Changed(a.rows, a) \in Seq(TablesRow)
        BY <1>11, TablesChanged
    <2> QED
        BY <1>11, <2>1, <2>2
<1>15. h8' \subseteq Nat
    BY <1>10, <1>11
<1>16. /\ g \in TablesGet /\ g.answer = <<>> /\ g.size = a.size
       /\ h1.name = "tokens" => g.clear
    <2>1. Tables!Again(b) = Tables!Again(a)
        BY <1>3
    <2> QED
        BY <1>8, <2>1, TablesAgain DEF TablesInv
<1>17. /\ h11' \in TablesView /\ h11'.filter = h11.filter /\ h11'.sure = sure
       /\ h11'.mixed = Tables!Mixed(h9')
    <2>1. Tables!Mixed(h9') \in BOOLEAN
        BY <1>11 DEF Tables!Mixed, TablesView
    <2> QED
        BY <1>10, <1>11, <2>1 DEF TablesView
<1>18. h4' \in BOOLEAN /\ h7' \subseteq TablesFlags
    <2>1. Tables!Spinner(g) \in TablesFlags
        BY DEF Tables!Spinner, TablesFlags
    <2> QED
        BY <1>7, <1>10, <1>11, <2>1
<1>19. h9' \subseteq TablesGet
    <2>1. CASE again
        <3>1. PICK gets : gets = h9
            OBVIOUS
        <3>2. PICK new : new = {g}
            OBVIOUS
        <3>3. PICK joined : joined = Tables!Joined(new)
            OBVIOUS
        <3>4. gets \in SUBSET TablesGet /\ new \in SUBSET TablesGet /\ new # {}
            BY <1>16, <3>1, <3>2 DEF TablesInv, TablesTypes
        <3>5. joined \in SUBSET TablesGet
            BY <3>1, <3>3, <3>4, TablesJoins
        <3> QED
            BY <1>10, <2>1, <3>2, <3>3, <3>5
    <2>2. CASE ~again
        BY <1>10, <2>2 DEF TablesInv, TablesTypes
    <2> QED
        BY <2>1, <2>2
<1>20. TablesTypes' /\ TablesActs'
    BY <1>2, <1>11, <1>13, <1>14, <1>15, <1>17, <1>18, <1>19 DEF TablesTypes, TablesActs
<1>21. sure => /\ h11.sure /\ ok /\ h9 = {} /\ a.rows = h5
               /\ a.page = h6.page /\ a.size = h6.size /\ spared = {}
    <2> SUFFICES ASSUME sure PROVE spared = {}
        BY <1>3, <1>9
    <2>1. h11.sure /\ h9 = {}
        BY <1>9
    <2>2. \A s \in h7 : s = "loading" /\ h1.name # "models"
        BY <2>1, TablesAtRest
    <2> QED
        BY <1>7, <2>2
<1>22. CASE again
    <2>1. PICK new : new = {g}
        OBVIOUS
    <2>2. new \in SUBSET TablesGet /\ new # {} /\ \A h \in new : h.answer = <<>>
        BY <1>16, <2>1
    <2>3. h9' = Tables!Joined(new) /\ h1' = h1
        BY <1>2, <1>10, <1>22, <2>1
    <2>4. h11'.mixed = (h11.mixed \/ \E f, k \in h9' : f.filter # k.filter)
        BY <1>17 DEF Tables!Mixed
    <2>5. h11'.sure =>
               /\ h11.sure /\ (h2' = h2 \/ h9 = {})
               /\ ~h1.sized => /\ \A h \in new : h.size = h6'.size
                               /\ h6'.size = h6.size \/ h9 = {}
               /\ \A s \in h7' : (\E h \in new : s = Tables!Spinner(h)) \/ (s \in h7 /\ h10' = h10)
               /\ h4' = (h4 /\ \A h \in new : h.filter)
               /\ h11'.mixed = (h11.mixed \/ \E f, k \in h9' : f.filter # k.filter)
               /\ UNCHANGED <<h2, h5, h8>> \/ h1.name # "tokens" \/ \E h \in new : h.clear
        <3> SUFFICES ASSUME sure
                     PROVE  /\ \A h \in new : h.size = h6'.size
                            /\ \A s \in h7' : \E h \in new : s = Tables!Spinner(h)
                            /\ h4' = (h4 /\ \A h \in new : h.filter)
                            /\ h1.name # "tokens" \/ \E h \in new : h.clear
            BY <1>17, <1>21, <2>4
        <3>1. \A h \in new : h.size = h6'.size
            BY <1>2, <1>16, <1>21, <2>1
        <3>2. \A s \in h7' : \E h \in new : s = Tables!Spinner(h)
            BY <1>10, <1>21, <1>22, <2>1
        <3>3. h4' = (h4 /\ \A h \in new : h.filter)
            BY <1>10, <1>22, <2>1
        <3>4. h1.name # "tokens" \/ \E h \in new : h.clear
            BY <1>16, <2>1
        <3> QED
            BY <3>1, <3>2, <3>3, <3>4
    <2> QED
        BY <1>20, <2>2, <2>3, <2>5, TablesAsks
<1>23. CASE ~again
    <2> SUFFICES ASSUME sure PROVE TablesSure'
        BY <1>17, <1>20 DEF TablesInv
    <2>1. /\ h11.sure /\ ok /\ h9 = {} /\ a.rows = h5 /\ spared = {}
        BY <1>21
    <2>2. a.what \notin h1.reloads
        BY <1>3, <1>6, <1>23, <2>1
    <2>3. h1.changes # "none" /\ (a.what = "batch" => h1.selects)
        BY <1>1 DEF TablesInv, TablesActs
    <2>4. a.what = "switch" /\ h1.changes \in {"asked", "current"} /\ h1.name # "tokens"
        BY <1>11, <2>2, <2>3, TablesKinds
    <2>5. ids = a.ids
        BY <1>5, <1>12, <2>1, <2>4
    <2>6. h5' = Tables!Changed(h5, a) /\ h9' = {} /\ h7' = {} /\ h4' = h4
        BY <1>10, <1>11, <1>23, <2>1, <2>4
    <2>7. /\ h5 = Tables!PageOf(h11.filter, h6.page, h6.size)
          /\ h1.paging = "shown" /\ ~h11.mixed => (h4 <=> h11.filter)
        BY <2>1, TablesAtRest
    <2>8. Tables!PageOf(h11.filter, h6.page, h6.size)' =
              Tables!Changed(Tables!PageOf(h11.filter, h6.page, h6.size), a)
        <3>1. PICK f \in BOOLEAN : f = h11.filter /\ f = h11'.filter
            BY <1>11, <1>17 DEF TablesView
        <3>2. PICK p \in Nat \ {0} : p = h6.page /\ p = h6'.page
            BY <1>2, <1>11 DEF TablesAt
        <3>3. PICK z \in Tables!Sizes : z = h6.size /\ z = h6'.size
            BY <1>2, <1>11 DEF TablesAt
        <3>4. Tables!PageOf(f, p, z)' = Tables!Changed(Tables!PageOf(f, p, z), a)
            BY <1>10, <2>4, <2>5, TablesSwitched DEF TablesInv, TablesTypes
        <3>5. Tables!PageOf(h11.filter, h6.page, h6.size)' = Tables!PageOf(f, p, z)'
            BY <3>1, <3>2, <3>3 DEF Tables!PageOf, Tables!Found
        <3> QED
            BY <3>1, <3>2, <3>3, <3>4, <3>5
    <2>9. TablesRows'
        BY <2>6, <2>7, <2>8 DEF TablesRows
    <2>10. TablesTurns' /\ TablesGets'
        BY <2>6 DEF TablesTurns, TablesGets
    <2>11. TablesMode'
        <3>1. h11'.mixed = h11.mixed
            <4>1. Tables!Mixed(h9') = h11.mixed
                BY <1>11, <2>6 DEF Tables!Mixed, TablesView
            <4> QED
                BY <1>17, <4>1
        <3> QED
            BY <1>2, <1>17, <2>6, <2>7, <3>1 DEF TablesMode
    <2>12. TablesSelected'
        BY <1>2, <2>4 DEF TablesSelected
    <2> QED
        BY <2>9, <2>10, <2>11, <2>12 DEF TablesSure
<1> QED
    BY <1>22, <1>23

LEMMA TablesManageFailed == ASSUME TablesInv, Tables!ManageFailed PROVE TablesInv'
<1>1. PICK a \in TablesAct : h10 = <<a>>
    BY DEF Tables!ManageFailed, TablesInv, TablesTypes
<1>2. /\ h10' = <<>> /\ h11' = [h11 EXCEPT !.sure = FALSE] /\ UNCHANGED <<h1, h3, h4, h5, h6, h8>>
    BY DEF Tables!ManageFailed
<1> DEFINE b == h10[1]
<1>3. b = a
    BY <1>1
<1>4. PICK ids \in {{}, b.ids} :
          /\ h2' = Tables!Applied(b, ids)
          /\ h7' = IF h1.caught \/ b.what = "batch" THEN h7 \ {"loading"} ELSE h7
          /\ h9' = IF h1.name = "redemptions" /\ b.what = "delete"
                   THEN Tables!Joined({Tables!Again(b)}) ELSE h9
    BY DEF Tables!ManageFailed
<1> HIDE DEF b
<1>5. DOMAIN h2' \subseteq Tables!Items /\ h2' \in [DOMAIN h2' -> BOOLEAN]
    <2>1. PICK new : new = Tables!Applied(a, ids)
        OBVIOUS
    <2>2. h2' = new
        BY <1>3, <1>4, <2>1
    <2>3. ids \in SUBSET a.ids
        BY <1>3, <1>4
    <2> QED
        BY <2>1, <2>2, <2>3, TablesApplied DEF TablesInv
<1>6. h9' \subseteq TablesGet
    <2>1. CASE h1.name = "redemptions" /\ b.what = "delete"
        <3>1. PICK g : g = Tables!Again(a)
            OBVIOUS
        <3>2. Tables!Again(b) = Tables!Again(a)
            BY <1>3
        <3>3. g \in TablesGet
            BY <3>1, TablesAgain DEF TablesInv
        <3>4. PICK gets : gets = h9
            OBVIOUS
        <3>5. PICK new : new = {g}
            OBVIOUS
        <3>6. PICK joined : joined = Tables!Joined(new)
            OBVIOUS
        <3>7. gets \in SUBSET TablesGet /\ new \in SUBSET TablesGet /\ new # {}
            BY <3>3, <3>4, <3>5 DEF TablesInv, TablesTypes
        <3>8. joined \in SUBSET TablesGet
            BY <3>4, <3>6, <3>7, TablesJoins
        <3>9. h9' = Tables!Joined(new)
            BY <1>4, <2>1, <3>1, <3>2, <3>5
        <3> QED
            BY <3>6, <3>8, <3>9
    <2>2. CASE ~(h1.name = "redemptions" /\ b.what = "delete")
        BY <1>4, <2>2 DEF TablesInv, TablesTypes
    <2> QED
        BY <2>1, <2>2
<1>7. h7' \subseteq h7
    BY <1>4
<1>8. h11' \in TablesView /\ ~h11'.sure
    BY <1>2 DEF TablesInv, TablesTypes, TablesView
<1>9. TablesTypes' /\ TablesActs'
    BY <1>2, <1>5, <1>6, <1>7, <1>8 DEF TablesInv, TablesTypes, TablesActs
<1> QED
    BY <1>8, <1>9, TablesUnsure

LEMMA TablesSteps == ASSUME TablesInv, [Tables!Next]_(Tables!vars) PROVE TablesInv'
<1>1. CASE UNCHANGED Tables!vars \/ Tables!Typed
    <2>1. UNCHANGED <<h1, h2, h4, h5, h6, h7, h8, h9, h10, h11>> /\ h3' \in BOOLEAN
        BY <1>1 DEF Tables!vars, Tables!Typed, TablesInv, TablesTypes
    <2>2. h8' \subseteq Nat /\ (TablesSelected => TablesSelected')
        BY <2>1 DEF TablesInv, TablesTypes, TablesSelected, TablesExist
    <2> QED
        BY <2>1, <2>2, TablesStays
<1>2. CASE Tables!search \/ Tables!handlePageChange \/ Tables!handlePageSizeChange
    BY <1>2, TablesClicked
<1>3. CASE Tables!Asked
    BY <1>3, TablesAsked
<1>4. CASE Tables!Loaded
    BY <1>4, TablesLoaded
<1>5. CASE Tables!LoadFailed
    BY <1>5, TablesLoadFailed
<1>6. CASE Tables!rowSelection
    BY <1>6, TablesRowSelection
<1>7. CASE Tables!manage
    BY <1>7, TablesManage
<1>8. CASE Tables!Managed
    BY <1>8, TablesManaged
<1>9. CASE Tables!ManageFailed
    BY <1>9, TablesManageFailed
<1>10. CASE Tables!Another
    <2>1. PICK i \in DOMAIN h2 : h2' = [h2 EXCEPT ![i] = ~h2[i]]
        BY <1>10 DEF Tables!Another
    <2>2. DOMAIN h2' \subseteq Tables!Items /\ h2' \in [DOMAIN h2' -> BOOLEAN]
        BY <2>1 DEF TablesInv, TablesTypes
    <2>3. /\ UNCHANGED <<h1, h3, h4, h5, h6, h7, h8, h9, h10>>
          /\ h11' = [h11 EXCEPT !.sure = FALSE]
        BY <1>10 DEF Tables!Another
    <2>4. h11' \in TablesView /\ ~h11'.sure
        BY <2>3 DEF TablesInv, TablesTypes, TablesView
    <2>5. TablesTypes' /\ TablesActs'
        BY <2>2, <2>3, <2>4 DEF TablesInv, TablesTypes, TablesActs
    <2> QED
        BY <2>4, <2>5, TablesUnsure
<1> QED
    BY <1>1, <1>2, <1>3, <1>4, <1>5, <1>6, <1>7, <1>8, <1>9, <1>10 DEF Tables!Next

LEMMA TablesKnown ==
    TablesInv => Tables!RowsAreThePage /\ Tables!ModeIsShown /\ Tables!SelectedExist
<1> SUFFICES ASSUME TablesInv, h9 = {}, h10 = <<>>, h11.sure
             PROVE  /\ h5 = Tables!PageOf(h11.filter, h6.page, h6.size) /\ h7 = {}
                    /\ ~h11.mixed /\ h1.paging = "shown" => (h4 <=> h11.filter)
                    /\ h1.name = "tokens" => h8 \subseteq DOMAIN h2
    BY DEF Tables!RowsAreThePage, Tables!ModeIsShown, Tables!SelectedExist, Tables!Quiet
<1> QED
    BY TablesAtRest

-----------------------------------------------------------------------------
(* The keys of a channel (KeyTable): as long as nothing has come between,   *)
(* one thing is on its way, and the rows say the places of their keys.      *)

Keys == INSTANCE KeyTable
    WITH server <- h1, channel <- h2, visible <- h3, at <- h4, list <- h5, loading <- h6,
         gets <- h7, acts <- h8, view <- h9, count <- h10

LEMMA KeysCount == \A S : Keys!Cardinality(S) = Cardinality(S)
BY DEF Keys!Cardinality, Cardinality

LEMMA KeysWhere ==
    ASSUME NEW T, NEW seq \in Seq(T), NEW places \in SUBSET DOMAIN seq
    PROVE  /\ Keys!Where(seq, places) \in Seq(T)
           /\ \A n \in DOMAIN Keys!Where(seq, places) :
                  \E i \in places : Keys!Where(seq, places)[n] = seq[i]
<1>1. places \in SUBSET Nat /\ IsFiniteSet(places)
    <2>1. Len(seq) \in Nat /\ places \in SUBSET Nat /\ \A x \in places : x <= Len(seq)
        OBVIOUS
    <2> QED
        BY <2>1, FS_BoundedSetOfNaturals
<1>2. PICK f : f = Keys!Sorted(places)
    OBVIOUS
<1>3. PICK n : n = Cardinality(places)
    OBVIOUS
<1>4. n \in Nat /\ f \in [1..n -> places]
    <2>1. \E g \in [1..Cardinality(places) -> places] :
              \A i, j \in DOMAIN g : i < j => g[i] < g[j]
        BY <1>1, PagesSorted
    <2> QED
        BY <1>1, <1>2, <1>3, <2>1, KeysCount, FS_CardinalityType DEF Keys!Sorted
<1>5. PICK new : new = Keys!Where(seq, places)
    OBVIOUS
<1>6. new = [k \in 1..n |-> seq[f[k]]]
    BY <1>2, <1>3, <1>5, KeysCount DEF Keys!Where
<1>7. \A k \in 1..n : f[k] \in places /\ seq[f[k]] \in T
    BY <1>4
<1>8. new \in Seq(T)
    BY <1>4, <1>6, <1>7
<1>9. \A k \in DOMAIN new : \E i \in places : new[k] = seq[i]
    BY <1>6, <1>7
<1> QED
    BY <1>5, <1>8, <1>9

KeysIds == Keys!Channels \X Nat
KeysKey == [key : KeysIds, status : Keys!Statuses]
KeysRow == [channel : Keys!Channels, index : Nat, key : KeysIds, status : Keys!Statuses]
KeysFilters == {"all"} \union Keys!Statuses
KeysServer == h1 \in [Keys!Channels -> Seq(KeysKey)]

\* Every row of a page is at its place.
KeysTrue(c, rows) ==
    \A i \in DOMAIN rows : /\ rows[i].index \in DOMAIN h1[c]
                           /\ h1[c][rows[i].index].key = rows[i].key

LEMMA KeysPaged ==
    ASSUME KeysServer, NEW c \in Keys!Channels, NEW p \in Nat \ {0}, NEW filter \in KeysFilters
    PROVE  /\ Keys!PageOf(c, p, filter) \in [page : Nat \ {0}, keys : Seq(KeysRow)]
           /\ KeysTrue(c, Keys!PageOf(c, p, filter).keys)
           /\ Keys!PageOf(c, Keys!PageOf(c, p, filter).page, filter) = Keys!PageOf(c, p, filter)
<1>1. PICK keys \in Seq(KeysKey) : keys = h1[c]
    BY DEF KeysServer
<1>2. PICK rows : rows = [i \in DOMAIN keys |-> [channel |-> c, index |-> i, key |-> keys[i].key,
                                                status |-> keys[i].status]]
    OBVIOUS
<1>3. \A i \in DOMAIN keys : keys[i] \in KeysKey /\ i \in Nat
    OBVIOUS
<1>4. \A i \in DOMAIN keys : rows[i] \in KeysRow /\ rows[i].index = i /\ rows[i].key = keys[i].key
    BY <1>2, <1>3 DEF KeysRow, KeysKey
<1>5. rows \in Seq(KeysRow) /\ DOMAIN rows = DOMAIN keys
    <2>1. DOMAIN keys = 1..Len(keys) /\ Len(keys) \in Nat
        OBVIOUS
    <2> QED
        BY <1>2, <1>4, <2>1
<1>6. PICK places : places = {i \in DOMAIN keys : Keys!Matches(keys[i].status, filter)}
    OBVIOUS
<1>7. PICK fits : fits = Keys!Where(rows, places)
    OBVIOUS
<1>8. places \in SUBSET DOMAIN rows
    BY <1>5, <1>6
<1>9. fits \in Seq(KeysRow) /\ \A n \in DOMAIN fits : \E i \in places : fits[n] = rows[i]
    BY <1>5, <1>7, <1>8, KeysWhere
<1> DEFINE Good == {r \in KeysRow : r.index \in DOMAIN keys /\ keys[r.index].key = r.key}
<1>10. fits \in Seq(Good)
    <2>1. \A n \in DOMAIN fits : fits[n] \in Good
        <3> SUFFICES ASSUME NEW n \in DOMAIN fits PROVE fits[n] \in Good
            OBVIOUS
        <3>1. PICK i \in DOMAIN keys : fits[n] = rows[i]
            BY <1>6, <1>9
        <3> QED
            BY <1>4, <3>1
    <2>2. DOMAIN fits = 1..Len(fits) /\ Len(fits) \in Nat /\ fits = [n \in 1..Len(fits) |-> fits[n]]
        BY <1>9
    <2> HIDE DEF Good
    <2> QED
        BY <2>1, <2>2
<1>11. PICK n \in Nat : n = Len(fits)
    BY <1>9
<1>12. PICK pages : pages = Keys!Max({1, (n + 2 - 1) \div 2})
    OBVIOUS
<1>13. pages \in Nat \ {0}
    <2>1. PICK m \in Nat : m = (n + 2 - 1) \div 2
        BY <1>11
    <2>2. pages = Keys!Max({1, m})
        BY <1>12, <2>1
    <2>3. \E x \in {1, m} : \A y \in {1, m} : x >= y
        BY <2>1
    <2>4. pages \in {1, m} /\ \A y \in {1, m} : pages >= y
        BY <2>2, <2>3, Zenon DEF Keys!Max
    <2> QED
        BY <2>1, <2>4
<1> DEFINE cut(q) == Keys!Min({q, pages})
           at(q) == [page |-> cut(q),
                     keys |-> SubSeq(fits, (cut(q) - 1) * 2 + 1, Keys!Min({cut(q) * 2, n}))]
<1>14. \A q : Keys!PageOf(c, q, filter) = at(q)
    BY <1>1, <1>2, <1>6, <1>7, <1>11, <1>12, Zenon DEF Keys!PageOf, Keys!PageSize
<1>15. cut(p) \in Nat \ {0} /\ cut(cut(p)) = cut(p)
    <2>1. \A a, b \in Nat \ {0} : /\ Keys!Min({a, b}) \in Nat \ {0} /\ Keys!Min({a, b}) <= b
                                  /\ a <= b => Keys!Min({a, b}) = a
        <3> SUFFICES ASSUME NEW a \in Nat \ {0}, NEW b \in Nat \ {0}
                     PROVE  /\ Keys!Min({a, b}) \in Nat \ {0} /\ Keys!Min({a, b}) <= b
                            /\ a <= b => Keys!Min({a, b}) = a
            OBVIOUS
        <3>1. \E x \in {a, b} : \A y \in {a, b} : x <= y
            OBVIOUS
        <3>2. PICK x : x = Keys!Min({a, b})
            OBVIOUS
        <3>3. x \in {a, b} /\ \A y \in {a, b} : x <= y
            BY <3>1, <3>2, Zenon DEF Keys!Min
        <3> QED
            BY <3>2, <3>3
    <2>2. PICK q : q = cut(p)
        OBVIOUS
    <2>3. q \in Nat \ {0} /\ q <= pages
        BY <1>13, <2>1, <2>2
    <2>4. cut(q) = q
        BY <1>13, <2>1, <2>3
    <2> QED
        BY <2>2, <2>3, <2>4
<1>16. PICK q \in Nat \ {0} : q = cut(p)
    BY <1>15
<1>17. PICK here : here = SubSeq(fits, (q - 1) * 2 + 1, Keys!Min({q * 2, n}))
    OBVIOUS
<1>18. here \in Seq(Good)
    <2>1. PICK lo \in Nat \ {0} : lo = (q - 1) * 2 + 1
        OBVIOUS
    <2>2. PICK hi : hi = Keys!Min({q * 2, n})
        OBVIOUS
    <2>3. hi \in Int /\ hi <= n
        BY <1>11, <2>2 DEF Keys!Min
    <2>4. \A i \in lo..hi : fits[i] \in Good
        <3>1. \A i \in 1..n : fits[i] \in Good
            BY <1>10, <1>11
        <3> HIDE DEF Good
        <3> QED
            BY <2>1, <2>3, <3>1
    <2> HIDE DEF Good
    <2> QED
        <3>1. here = SubSeq(fits, lo, hi)
            BY <1>17, <2>1, <2>2
        <3>2. lo \in Int
            BY <2>1
        <3> QED
            BY <2>3, <2>4, <3>1, <3>2, SubSeqProperties
<1> HIDE DEF cut
<1>19. at(p) = [page |-> q, keys |-> here]
    BY <1>16, <1>17
<1>20. at(cut(p)) = at(p)
    BY <1>15
<1> HIDE DEF at
<1>21. here \in Seq(KeysRow) /\ KeysTrue(c, here)
    <2>1. \A i \in DOMAIN here : here[i] \in Good
        <3> HIDE DEF Good
        <3> QED
            BY <1>18
    <2>2. DOMAIN here = 1..Len(here) /\ Len(here) \in Nat /\ here = [i \in 1..Len(here) |-> here[i]]
        <3> HIDE DEF Good
        <3> QED
            BY <1>18
    <2>3. \A i \in DOMAIN here : here[i] \in KeysRow
        BY <2>1
    <2>4. here \in Seq(KeysRow)
        BY <2>2, <2>3
    <2>5. KeysTrue(c, here)
        BY <1>1, <2>1 DEF KeysTrue
    <2> QED
        BY <2>4, <2>5
<1>22. Keys!PageOf(c, p, filter) = [page |-> q, keys |-> here]
    BY <1>14, <1>19
<1>23. Keys!PageOf(c, q, filter) = [page |-> q, keys |-> here]
    BY <1>14, <1>16, <1>19, <1>20
<1> QED
    BY <1>21, <1>22, <1>23

KeysAt == [page : Nat \ {0}, filter : KeysFilters]
KeysCut == [page : Nat \ {0}, keys : Seq(KeysRow)]
KeysGet ==
    [channel : Keys!Channels, page : Nat \ {0}, filter : KeysFilters,
     answer : {<<>>} \union {<<r>> : r \in KeysCut}]
KeysAct ==
    [what : {"switch", "delete", "all", "disabled"}, index : Nat, key : {<<>>} \union KeysIds,
     on : BOOLEAN, channel : Keys!Channels, at : KeysAt, done : BOOLEAN]
KeysView == [asked : Keys!Channels \X KeysFilters, sure : BOOLEAN, missed : BOOLEAN]
KeysTypes ==
    /\ KeysServer /\ h2 \in Keys!Channels /\ h3 \in BOOLEAN /\ h4 \in KeysAt
    /\ h5 \in Seq(KeysRow) /\ h6 \in BOOLEAN /\ h7 \subseteq KeysGet /\ h8 \subseteq KeysAct
    /\ h9 \in KeysView

\* One thing is on its way.
KeysAlone ==
    /\ h7 = {} \/ h8 = {}
    /\ \A f, g \in h7 : f = g
    /\ \A a, b \in h8 : a = b
\* An operation that has not been done finds its key; while the dialog is open
\* it is of what is shown, and so is a page that is asked for.
KeysFinds(a) == a.index \in DOMAIN h1[a.channel] /\ h1[a.channel][a.index].key = a.key
KeysActs ==
    \A a \in h8 : /\ ~a.done /\ a.key # <<>> => KeysFinds(a)
                  /\ h3 => a.channel = h2 /\ a.at = h4
KeysAnswered(g) == g.answer # <<>> => g.answer = <<Keys!PageOf(g.channel, g.page, g.filter)>>
KeysGets == \A g \in h7 : KeysAnswered(g) /\ (h3 => g.channel = h2 /\ g.filter = h4.filter)
KeysRows ==
    h3 /\ h7 = {} /\ h8 = {} =>
        /\ h9.asked = <<h2, h4.filter>>
        /\ h5 = Keys!PageOf(h2, h4.page, h4.filter).keys
KeysSure == KeysAlone /\ KeysActs /\ KeysGets /\ KeysRows /\ ~h9.missed
KeysInv == KeysTypes /\ (h9.sure => KeysSure)

LEMMA KeysSame ==
    h1' = h1 => \A c, p, f : Keys!PageOf(c, p, f)' = Keys!PageOf(c, p, f)
BY DEF Keys!PageOf

LEMMA KeysWords ==
    /\ "all" \in KeysFilters /\ "on" \in KeysFilters
    /\ "on" \in Keys!Statuses /\ "off" \in Keys!Statuses /\ "auto" \in Keys!Statuses
    /\ 1 \in Keys!Channels
BY DEF KeysFilters, Keys!Statuses, Keys!Channels

LEMMA KeysStarts == Keys!Init => KeysInv
<1> SUFFICES ASSUME Keys!Init PROVE KeysInv
    OBVIOUS
<1>1. PICK status \in {"on", "auto"} :
        h1 = [c \in Keys!Channels |->
                [i \in 1..(MaxItems + 1 - c) |->
                    [key |-> <<c, i>>, status |-> IF i = 1 \/ c = 2 THEN status ELSE "on"]]]
    BY DEF Keys!Init
<1>2. ASSUME NEW c \in Keys!Channels PROVE h1[c] \in Seq(KeysKey)
    <2>1. c \in {1, 2}
        BY DEF Keys!Channels
    <2>2. PICK n \in Nat : 1..n = 1..(MaxItems + 1 - c)
        <3>1. MaxItems + 1 - c \in Int
            BY <2>1, PagesAssumption
        <3>2. CASE MaxItems + 1 - c >= 0
            BY <3>1, <3>2
        <3>3. CASE ~(MaxItems + 1 - c >= 0)
            <4>1. 1..0 = 1..(MaxItems + 1 - c)
                BY <3>1, <3>3
            <4> QED
                BY <4>1
        <3> QED
            BY <3>2, <3>3
    <2> DEFINE one(i) == [key |-> <<c, i>>, status |-> IF i = 1 \/ c = 2 THEN status ELSE "on"]
    <2>3. \A i \in 1..n : one(i) \in KeysKey
        <3>1. status \in Keys!Statuses
            BY KeysWords
        <3> QED
            BY <3>1, KeysWords DEF KeysKey, KeysIds
    <2>4. h1[c] = [i \in 1..n |-> one(i)]
        BY <1>1, <2>2
    <2> HIDE DEF one
    <2> QED
        BY <2>3, <2>4
<1>3. KeysServer
    BY <1>1, <1>2 DEF KeysServer
<1>4. /\ h2 = 1 /\ h3 = FALSE /\ h4 = [page |-> 1, filter |-> "all"] /\ h5 = <<>> /\ h6 = FALSE
      /\ h7 = {} /\ h8 = {}
      /\ h9 = [asked |-> <<1, "all">>, sure |-> TRUE, missed |-> FALSE]
    BY DEF Keys!Init
<1>5. h4 \in KeysAt /\ h9 \in KeysView
    BY <1>4, KeysWords DEF KeysAt, KeysView
<1>6. KeysTypes
    <2>1. h2 \in Keys!Channels /\ h5 \in Seq(KeysRow)
        BY <1>4, KeysWords
    <2> QED
        BY <1>3, <1>4, <1>5, <2>1 DEF KeysTypes
<1>7. KeysSure
    BY <1>4 DEF KeysSure, KeysAlone, KeysActs, KeysGets, KeysRows
<1> QED
    BY <1>6, <1>7 DEF KeysInv

\* What is asked for.
LEMMA KeysLoads ==
    ASSUME NEW c \in Keys!Channels, NEW p \in Nat \ {0}, NEW f \in KeysFilters
    PROVE  /\ Keys!Get(c, p, f) \in KeysGet /\ Keys!Get(c, p, f).answer = <<>>
           /\ Keys!Get(c, p, f).channel = c /\ Keys!Get(c, p, f).filter = f
BY DEF Keys!Get, KeysGet

\* A page is asked for while nothing is on its way, or nothing is sure.
LEMMA KeysAsks ==
    ASSUME KeysInv, NEW c \in Keys!Channels, NEW p \in Nat \ {0}, NEW f \in KeysFilters,
           Keys!loadKeyStatus(c, p, f), h1' = h1, h2' \in Keys!Channels, h3' \in BOOLEAN,
           h4' \in KeysAt, h5' = h5, h8' \subseteq h8, h9' \in KeysView,
           h9'.sure => /\ h9.sure /\ h7 = {} /\ h8' = {} /\ h9'.missed = h9.missed
                       /\ h3' => c = h2' /\ f = h4'.filter
    PROVE  KeysInv'
<1>1. PICK g : g = Keys!Get(c, p, f)
    OBVIOUS
<1>2. g \in KeysGet /\ g.answer = <<>> /\ g.channel = c /\ g.filter = f
    BY <1>1, KeysLoads
<1>3. h7' = h7 \union {g} /\ h6' = TRUE
    BY <1>1 DEF Keys!loadKeyStatus
<1>4. KeysTypes'
    BY <1>2, <1>3 DEF KeysInv, KeysTypes, KeysServer
<1>5. ASSUME h9'.sure PROVE KeysSure'
    <2>1. h7' = {g} /\ h8' = {} /\ ~h9'.missed
        BY <1>3, <1>5 DEF KeysInv, KeysSure
    <2>2. KeysAlone' /\ KeysActs' /\ KeysRows'
        BY <2>1 DEF KeysAlone, KeysActs, KeysRows
    <2>3. KeysGets'
        BY <1>2, <1>5, <2>1 DEF KeysGets, KeysAnswered
    <2> QED
        BY <2>1, <2>2, <2>3 DEF KeysSure
<1> QED
    BY <1>4, <1>5 DEF KeysInv

LEMMA KeysUnsure ==
    ASSUME KeysTypes', ~h9'.sure
    PROVE  KeysInv'
BY DEF KeysInv

LEMMA KeysOpens ==
    ASSUME KeysInv, Keys!Open \/ Keys!Close \/ Keys!handlePageChange
    PROVE  KeysInv'
<1>1. /\ h4 \in KeysAt /\ h4.filter \in KeysFilters /\ h9 \in KeysView /\ 1 \in Nat \ {0}
      /\ h2 \in Keys!Channels
    BY DEF KeysInv, KeysTypes, KeysAt
<1>2. PICK sure \in BOOLEAN : sure = (h9.sure /\ h7 = {} /\ h8 = {})
    OBVIOUS
<1>3. ASSUME h9' = [h9 EXCEPT !.sure = h9.sure /\ h7 = {} /\ h8 = {}]
      PROVE  /\ h9' \in KeysView /\ h9'.missed = h9.missed
             /\ h9'.sure => h9.sure /\ h7 = {} /\ h8 = {}
    <2>1. h9' = [h9 EXCEPT !.sure = sure]
        BY <1>2, <1>3
    <2>2. h9' \in KeysView /\ h9'.missed = h9.missed /\ h9'.sure = sure
        BY <1>1, <2>1 DEF KeysView
    <2> QED
        BY <1>2, <2>2
<1>4. CASE Keys!Open
    <2>1. /\ h3' = TRUE /\ h2' \in Keys!Channels /\ h4' = [h4 EXCEPT !.page = 1]
          /\ Keys!loadKeyStatus(h2', 1, h4.filter) /\ UNCHANGED <<h1, h5, h8>>
          /\ h9' = [h9 EXCEPT !.sure = h9.sure /\ h7 = {} /\ h8 = {}]
        BY <1>4 DEF Keys!Open
    <2>2. h4' \in KeysAt /\ h4'.filter = h4.filter
        BY <1>1, <2>1 DEF KeysAt
    <2>3. PICK c \in Keys!Channels : c = h2'
        BY <2>1
    <2>4. PICK f \in KeysFilters : f = h4.filter
        BY <1>1
    <2>5. Keys!loadKeyStatus(c, 1, f)
        BY <2>1, <2>3, <2>4
    <2> QED
        BY <1>1, <1>3, <2>1, <2>2, <2>3, <2>4, <2>5, KeysAsks
<1>5. CASE Keys!handlePageChange
    <2>1. PICK p \in 1..2, f \in {"all", "on"} :
              h4' = [page |-> p, filter |-> f] /\ Keys!loadKeyStatus(h2, p, f)
        BY <1>5 DEF Keys!handlePageChange
    <2>2. /\ UNCHANGED <<h1, h2, h3, h5, h8>>
          /\ h9' = [h9 EXCEPT !.sure = h9.sure /\ h7 = {} /\ h8 = {}]
        BY <1>5 DEF Keys!handlePageChange
    <2>3. p \in Nat \ {0} /\ f \in KeysFilters
        BY <2>1, KeysWords
    <2>4. h4' \in KeysAt /\ h4'.filter = f
        BY <2>1, <2>3 DEF KeysAt
    <2>5. h3' \in BOOLEAN
        BY <2>2 DEF KeysInv, KeysTypes
    <2>6. PICK c \in Keys!Channels : c = h2
        BY <1>1
    <2>7. Keys!loadKeyStatus(c, p, f)
        BY <2>1, <2>6
    <2> QED
        BY <1>1, <1>3, <2>2, <2>3, <2>4, <2>5, <2>6, <2>7, KeysAsks
<1>6. CASE Keys!Close
    <2>1. /\ h3' = FALSE /\ h4' = [page |-> 1, filter |-> "all"] /\ h5' = <<>>
          /\ UNCHANGED <<h1, h2, h6, h7, h8, h9>>
        BY <1>6 DEF Keys!Close
    <2>2. h4' \in KeysAt
        BY <2>1, KeysWords DEF KeysAt
    <2>3. KeysTypes'
        <3>1. KeysServer'
            BY <2>1 DEF KeysInv, KeysTypes, KeysServer
        <3>2. h5' \in Seq(KeysRow)
            BY <2>1
        <3> QED
            BY <2>1, <2>2, <3>1, <3>2 DEF KeysInv, KeysTypes
    <2>4. ASSUME h9.sure PROVE KeysSure'
        <3>1. KeysSure
            BY <2>4 DEF KeysInv
        <3>2. KeysAlone' /\ KeysRows'
            BY <2>1, <3>1 DEF KeysSure, KeysAlone, KeysRows
        <3>3. KeysActs'
            BY <2>1, <3>1 DEF KeysSure, KeysActs, KeysFinds
        <3>4. \A c, p, f : Keys!PageOf(c, p, f)' = Keys!PageOf(c, p, f)
            BY <2>1, KeysSame
        <3>5. KeysGets'
            BY <2>1, <3>1, <3>4 DEF KeysSure, KeysGets, KeysAnswered
        <3> QED
            BY <2>1, <3>1, <3>2, <3>3, <3>5 DEF KeysSure
    <2> QED
        BY <2>1, <2>3, <2>4 DEF KeysInv
<1> QED
    BY <1>4, <1>5, <1>6

LEMMA KeysAsked == ASSUME KeysInv, Keys!Asked PROVE KeysInv'
<1> DEFINE done(g) == [g EXCEPT !.answer = <<Keys!PageOf(g.channel, g.page, g.filter)>>]
<1>1. PICK g \in h7 : g.answer = <<>> /\ h7' = (h7 \ {g}) \union {done(g)}
    BY DEF Keys!Asked
<1>2. UNCHANGED <<h1, h2, h3, h4, h5, h6, h8, h9>>
    BY DEF Keys!Asked
<1>3. g \in KeysGet
    BY DEF KeysInv, KeysTypes
<1>4. Keys!PageOf(g.channel, g.page, g.filter) \in KeysCut
    BY <1>3, KeysPaged DEF KeysInv, KeysTypes, KeysGet, KeysCut
<1>5. PICK d : d = done(g)
    OBVIOUS
<1>6. /\ d \in KeysGet /\ d.answer = <<Keys!PageOf(g.channel, g.page, g.filter)>>
      /\ d.channel = g.channel /\ d.page = g.page /\ d.filter = g.filter
    BY <1>3, <1>4, <1>5 DEF KeysGet
<1> HIDE DEF done
<1>7. h7' = (h7 \ {g}) \union {d}
    BY <1>1, <1>5
<1>8. KeysTypes'
    BY <1>2, <1>6, <1>7 DEF KeysInv, KeysTypes, KeysServer
<1>9. ASSUME h9.sure PROVE KeysSure'
    <2>1. KeysSure
        BY <1>9 DEF KeysInv
    <2>2. h7 = {g} /\ h8 = {} /\ h7' = {d}
        BY <1>7, <2>1 DEF KeysSure, KeysAlone
    <2>3. KeysAlone' /\ KeysActs' /\ KeysRows'
        BY <1>2, <2>2 DEF KeysAlone, KeysActs, KeysRows
    <2>4. KeysAnswered(d)'
        <3>1. Keys!PageOf(d.channel, d.page, d.filter)' = Keys!PageOf(d.channel, d.page, d.filter)
            BY <1>2, KeysSame
        <3> QED
            BY <1>6, <3>1 DEF KeysAnswered
    <2>5. h3 => d.channel = h2 /\ d.filter = h4.filter
        BY <1>6, <2>1 DEF KeysSure, KeysGets
    <2>6. KeysGets'
        BY <1>2, <2>2, <2>4, <2>5 DEF KeysGets
    <2> QED
        BY <1>2, <2>1, <2>3, <2>6 DEF KeysSure
<1> QED
    BY <1>2, <1>8, <1>9 DEF KeysInv

LEMMA KeysLoaded == ASSUME KeysInv, Keys!Loaded PROVE KeysInv'
<1>1. PICK g \in h7 :
          /\ g.answer # <<>> /\ h7' = h7 \ {g} /\ h5' = g.answer[1].keys
          /\ h4' = [h4 EXCEPT !.page = g.answer[1].page]
          /\ h9' = [h9 EXCEPT !.asked = <<g.channel, g.filter>>]
    BY DEF Keys!Loaded
<1>2. UNCHANGED <<h1, h2, h3, h8>> /\ h6' = FALSE
    BY DEF Keys!Loaded
<1>3. /\ g \in KeysGet /\ g.channel \in Keys!Channels /\ g.page \in Nat \ {0}
      /\ g.filter \in KeysFilters /\ h4 \in KeysAt /\ h9 \in KeysView
    BY DEF KeysInv, KeysTypes, KeysGet
<1>4. PICK r \in KeysCut : g.answer = <<r>>
    BY <1>1, <1>3 DEF KeysGet
<1>5. /\ r.page \in Nat \ {0} /\ r.keys \in Seq(KeysRow)
      /\ h5' = r.keys /\ h4' = [h4 EXCEPT !.page = r.page]
    BY <1>1, <1>4 DEF KeysCut
<1>6. h4' \in KeysAt /\ h4'.page = r.page /\ h4'.filter = h4.filter
    BY <1>3, <1>5 DEF KeysAt
<1>7. /\ h9' \in KeysView /\ h9'.asked = <<g.channel, g.filter>> /\ h9'.sure = h9.sure
      /\ h9'.missed = h9.missed
    <2>1. <<g.channel, g.filter>> \in Keys!Channels \X KeysFilters
        BY <1>3
    <2> QED
        BY <1>1, <1>3, <2>1 DEF KeysView
<1>8. KeysTypes'
    BY <1>1, <1>2, <1>5, <1>6, <1>7 DEF KeysInv, KeysTypes, KeysServer
<1>9. ASSUME h9.sure PROVE KeysSure'
    <2>1. KeysSure
        BY <1>9 DEF KeysInv
    <2>2. h7 = {g} /\ h8 = {} /\ h7' = {}
        BY <1>1, <2>1 DEF KeysSure, KeysAlone
    <2>3. KeysAlone' /\ KeysActs' /\ KeysGets'
        BY <1>2, <2>2 DEF KeysAlone, KeysActs, KeysGets
    <2>4. r = Keys!PageOf(g.channel, g.page, g.filter)
        <3>1. g.answer = <<Keys!PageOf(g.channel, g.page, g.filter)>>
            BY <1>1, <2>1 DEF KeysSure, KeysGets, KeysAnswered
        <3> QED
            BY <1>4, <3>1
    <2>5. Keys!PageOf(g.channel, r.page, g.filter) = r
        BY <1>3, <2>4, KeysPaged DEF KeysInv, KeysTypes
    <2>6. h3 => g.channel = h2 /\ g.filter = h4.filter
        BY <2>1 DEF KeysSure, KeysGets
    <2>7. \A c, p, f : Keys!PageOf(c, p, f)' = Keys!PageOf(c, p, f)
        BY <1>2, KeysSame
    <2>8. KeysRows'
        BY <1>2, <1>5, <1>6, <1>7, <2>5, <2>6, <2>7 DEF KeysRows
    <2> QED
        BY <1>7, <2>1, <2>3, <2>8 DEF KeysSure
<1> QED
    BY <1>7, <1>8, <1>9 DEF KeysInv

\* The operation that a button sends.
LEMMA KeysOperate == ASSUME KeysInv, Keys!operate PROVE KeysInv'
<1> DEFINE ofRows == UNION {{Keys!Act("switch", r.index, r.key, r.status # "on"),
                             Keys!Act("delete", r.index, r.key, FALSE)} :
                            r \in IF h6 THEN {} ELSE {h5[i] : i \in DOMAIN h5}}
           ofAll == {Keys!Act("all", 0, <<>>, on) : on \in BOOLEAN}
           ofDisabled == {Keys!Act("disabled", 0, <<>>, FALSE)}
<1>1. PICK a \in ofRows \union ofAll \union ofDisabled : h8' = h8 \union {a}
    BY DEF Keys!operate
<1>2. /\ h3 /\ UNCHANGED <<h1, h2, h3, h4, h5, h6, h7>>
      /\ h9' = [h9 EXCEPT !.sure = h9.sure /\ h7 = {} /\ h8 = {}]
    BY DEF Keys!operate
<1>3. h2 \in Keys!Channels /\ h4 \in KeysAt /\ h5 \in Seq(KeysRow) /\ h9 \in KeysView
    BY DEF KeysInv, KeysTypes
<1>4. ASSUME NEW what \in {"switch", "delete", "all", "disabled"}, NEW index \in Nat,
             NEW key \in {<<>>} \union KeysIds, NEW on \in BOOLEAN,
             a = [what |-> what, index |-> index, key |-> key, on |-> on, channel |-> h2,
                  at |-> h4, done |-> FALSE]
      PROVE  a \in KeysAct /\ a.channel = h2 /\ a.at = h4 /\ a.index = index /\ a.key = key
    BY <1>3, <1>4 DEF KeysAct
<1>5. /\ a \in KeysAct /\ a.channel = h2 /\ a.at = h4
      /\ a.key = <<>> \/ \E i \in DOMAIN h5 : a.index = h5[i].index /\ a.key = h5[i].key
    <2>1. CASE a \in ofRows
        <3>1. PICK r \in {h5[i] : i \in DOMAIN h5} :
                  \/ a = Keys!Act("switch", r.index, r.key, r.status # "on")
                  \/ a = Keys!Act("delete", r.index, r.key, FALSE)
            BY <2>1, Zenon
        <3>2. PICK i \in DOMAIN h5 : r = h5[i]
            OBVIOUS
        <3>3. r \in KeysRow
            BY <1>3, <3>2
        <3>4. PICK index \in Nat : index = r.index
            BY <3>3 DEF KeysRow
        <3>5. PICK key \in KeysIds : key = r.key
            BY <3>3 DEF KeysRow
        <3>6. CASE a = Keys!Act("switch", r.index, r.key, r.status # "on")
            <4>1. PICK on \in BOOLEAN : on = (r.status # "on")
                OBVIOUS
            <4>2. a = [what |-> "switch", index |-> r.index, key |-> r.key, on |-> r.status # "on",
                       channel |-> h2, at |-> h4, done |-> FALSE]
                BY <3>6, Zenon DEF Keys!Act
            <4>3. a = [what |-> "switch", index |-> index, key |-> key, on |-> on,
                       channel |-> h2, at |-> h4, done |-> FALSE]
                BY <3>4, <3>5, <4>1, <4>2
            <4> QED
                BY <1>4, <3>2, <3>4, <3>5, <4>3
        <3>7. CASE a = Keys!Act("delete", r.index, r.key, FALSE)
            <4>1. a = [what |-> "delete", index |-> r.index, key |-> r.key, on |-> FALSE,
                       channel |-> h2, at |-> h4, done |-> FALSE]
                BY <3>7, Zenon DEF Keys!Act
            <4>2. a = [what |-> "delete", index |-> index, key |-> key, on |-> FALSE,
                       channel |-> h2, at |-> h4, done |-> FALSE]
                BY <3>4, <3>5, <4>1
            <4> QED
                BY <1>4, <3>2, <3>4, <3>5, <4>2
        <3> QED
            BY <3>1, <3>6, <3>7
    <2>2. CASE a \in ofAll
        <3>1. PICK on \in BOOLEAN : a = Keys!Act("all", 0, <<>>, on)
            BY <2>2
        <3>2. a = [what |-> "all", index |-> 0, key |-> <<>>, on |-> on, channel |-> h2,
                   at |-> h4, done |-> FALSE]
            BY <3>1, Zenon DEF Keys!Act
        <3> QED
            BY <1>4, <3>2
    <2>3. CASE a \in ofDisabled
        <3>1. a = [what |-> "disabled", index |-> 0, key |-> <<>>, on |-> FALSE, channel |-> h2,
                   at |-> h4, done |-> FALSE]
            BY <2>3, Zenon DEF Keys!Act
        <3> QED
            BY <1>4, <3>1
    <2> HIDE DEF ofRows, ofAll, ofDisabled
    <2> QED
        BY <2>1, <2>2, <2>3
<1>6. /\ h9' \in KeysView /\ h9'.asked = h9.asked /\ h9'.missed = h9.missed
      /\ h9'.sure => h9.sure /\ h7 = {} /\ h8 = {}
    <2>1. PICK sure \in BOOLEAN : sure = (h9.sure /\ h7 = {} /\ h8 = {})
        OBVIOUS
    <2>2. h9' = [h9 EXCEPT !.sure = sure]
        BY <1>2, <2>1
    <2>3. h9' \in KeysView /\ h9'.asked = h9.asked /\ h9'.missed = h9.missed /\ h9'.sure = sure
        BY <1>3, <2>2 DEF KeysView
    <2> QED
        BY <2>1, <2>3
<1>7. KeysTypes'
    BY <1>1, <1>2, <1>5, <1>6 DEF KeysInv, KeysTypes, KeysServer
<1>8. ASSUME h9'.sure PROVE KeysSure'
    <2>1. h7' = {} /\ h8' = {a} /\ KeysSure /\ h7 = {} /\ h8 = {}
        BY <1>1, <1>2, <1>6, <1>8 DEF KeysInv
    <2>2. h5 = Keys!PageOf(h2, h4.page, h4.filter).keys
        BY <1>2, <2>1 DEF KeysSure, KeysRows
    <2>3. KeysTrue(h2, h5)
        <3>1. h4.page \in Nat \ {0} /\ h4.filter \in KeysFilters
            BY <1>3 DEF KeysAt
        <3> QED
            BY <1>3, <2>2, <3>1, KeysPaged DEF KeysInv, KeysTypes
    <2>4. a.key # <<>> => KeysFinds(a)
        BY <1>5, <2>3 DEF KeysTrue, KeysFinds
    <2>5. KeysActs'
        BY <1>2, <1>5, <2>1, <2>4 DEF KeysActs, KeysFinds
    <2>6. KeysAlone' /\ KeysGets' /\ KeysRows'
        BY <2>1 DEF KeysAlone, KeysGets, KeysRows
    <2> QED
        BY <1>6, <2>1, <2>5, <2>6 DEF KeysSure
<1> QED
    BY <1>7, <1>8 DEF KeysInv

LEMMA KeysOperated ==
    ASSUME KeysServer, NEW a \in KeysAct
    PROVE  Keys!Operated(a) \in Seq(KeysKey)
<1>1. a.channel \in Keys!Channels /\ a.what \in {"switch", "delete", "all", "disabled"}
    BY DEF KeysAct
<1>2. PICK keys \in Seq(KeysKey) : keys = h1[a.channel]
    BY <1>1 DEF KeysServer
<1>3. \A i \in DOMAIN keys : /\ keys[i] \in KeysKey
                             /\ \A s \in Keys!Statuses : [keys[i] EXCEPT !.status = s] \in KeysKey
    <2>1. \A i \in DOMAIN keys : keys[i] \in KeysKey
        OBVIOUS
    <2> QED
        BY <2>1 DEF KeysKey
<1>4. ASSUME NEW places \in SUBSET DOMAIN keys PROVE Keys!Where(keys, places) \in Seq(KeysKey)
    BY KeysWhere
<1>5. CASE a.what = "switch"
    <2>1. PICK s \in Keys!Statuses : s = IF a.on THEN "on" ELSE "off"
        BY KeysWords
    <2>2. Keys!Operated(a) =
            IF a.index \notin DOMAIN keys THEN keys
            ELSE [keys EXCEPT ![a.index].status = IF a.on THEN "on" ELSE "off"]
        BY <1>2, <1>5 DEF Keys!Operated
    <2>3. CASE a.index \in DOMAIN keys
        <3>1. [keys[a.index] EXCEPT !.status = s] \in KeysKey
            BY <1>3, <2>3
        <3>2. [keys EXCEPT ![a.index] = [keys[a.index] EXCEPT !.status = s]] \in Seq(KeysKey)
            BY <2>3, <3>1
        <3>3. Keys!Operated(a) = [keys EXCEPT ![a.index] = [keys[a.index] EXCEPT !.status = s]]
            BY <2>1, <2>2, <2>3
        <3> QED
            BY <3>2, <3>3
    <2> QED
        BY <2>2, <2>3
<1>6. CASE a.what = "delete"
    <2>1. Keys!Operated(a) \in {keys, Keys!Where(keys, DOMAIN keys \ {a.index})}
        BY <1>2, <1>6 DEF Keys!Operated
    <2> QED
        BY <1>4, <2>1
<1>7. CASE a.what = "all"
    <2> DEFINE one(i) ==
            IF a.on THEN [keys[i] EXCEPT !.status = "on"]
            ELSE [keys[i] EXCEPT !.status = IF keys[i].status = "on" THEN "off" ELSE keys[i].status]
    <2>1. ASSUME NEW i \in DOMAIN keys PROVE one(i) \in KeysKey
        <3>1. PICK s \in Keys!Statuses :
                  s = IF keys[i].status = "on" THEN "off" ELSE keys[i].status
            BY <1>3, KeysWords DEF KeysKey
        <3>2. one(i) = IF a.on THEN [keys[i] EXCEPT !.status = "on"]
                       ELSE [keys[i] EXCEPT !.status = s]
            BY <3>1
        <3> HIDE DEF one
        <3> QED
            BY <1>3, <3>2, KeysWords
    <2>2. Keys!Operated(a) = [i \in DOMAIN keys |-> one(i)]
        BY <1>2, <1>7 DEF Keys!Operated
    <2> HIDE DEF one
    <2>3. DOMAIN keys = 1..Len(keys) /\ Len(keys) \in Nat
        OBVIOUS
    <2> QED
        BY <2>1, <2>2, <2>3
<1>8. CASE a.what = "disabled"
    <2> DEFINE one(i) == [keys[i] EXCEPT !.status = "on"]
    <2>1. Keys!Operated(a) \in {[i \in DOMAIN keys |-> one(i)],
                                Keys!Where(keys, {i \in DOMAIN keys : keys[i].status # "auto"})}
        BY <1>2, <1>8 DEF Keys!Operated
    <2>2. \A i \in DOMAIN keys : one(i) \in KeysKey
        BY <1>3, KeysWords
    <2>3. DOMAIN keys = 1..Len(keys) /\ Len(keys) \in Nat
        OBVIOUS
    <2> HIDE DEF one
    <2>4. [i \in DOMAIN keys |-> one(i)] \in Seq(KeysKey)
        BY <2>2, <2>3
    <2> QED
        BY <1>4, <2>1, <2>4
<1> QED
    BY <1>1, <1>5, <1>6, <1>7, <1>8

LEMMA KeysDone == ASSUME KeysInv, Keys!Done PROVE KeysInv'
<1>1. PICK a \in h8 :
          /\ ~a.done /\ h1' = [h1 EXCEPT ![a.channel] = Keys!Operated(a)]
          /\ h8' = (h8 \ {a}) \union {[a EXCEPT !.done = TRUE]}
          /\ h9' = [h9 EXCEPT !.missed = h9.missed \/
                        (a.key # <<>> /\ \/ a.index \notin DOMAIN h1[a.channel]
                                         \/ h1[a.channel][a.index].key # a.key)]
    BY DEF Keys!Done
<1>2. UNCHANGED <<h2, h3, h4, h5, h6, h7>>
    BY DEF Keys!Done
<1>3. a \in KeysAct /\ a.channel \in Keys!Channels /\ h9 \in KeysView
    BY DEF KeysInv, KeysTypes, KeysAct
<1>4. PICK new \in Seq(KeysKey) : new = Keys!Operated(a)
    BY KeysOperated, <1>3 DEF KeysInv, KeysTypes
<1>5. KeysServer'
    BY <1>1, <1>3, <1>4 DEF KeysInv, KeysTypes, KeysServer
<1>6. PICK b : b = [a EXCEPT !.done = TRUE]
    OBVIOUS
<1>7. b \in KeysAct /\ b.done /\ b.channel = a.channel /\ b.at = a.at
    BY <1>3, <1>6 DEF KeysAct
<1>8. PICK missed \in BOOLEAN :
          missed = (h9.missed \/ (a.key # <<>> /\ \/ a.index \notin DOMAIN h1[a.channel]
                                                  \/ h1[a.channel][a.index].key # a.key))
    BY <1>3 DEF KeysView
<1>9. h9' = [h9 EXCEPT !.missed = missed]
    BY <1>1, <1>8
<1>10. h9' \in KeysView /\ h9'.missed = missed /\ h9'.sure = h9.sure
    BY <1>3, <1>9 DEF KeysView
<1>11. h8' = (h8 \ {a}) \union {b}
    BY <1>1, <1>6
<1>12. KeysTypes'
    BY <1>2, <1>5, <1>7, <1>10, <1>11 DEF KeysInv, KeysTypes
<1>13. ASSUME h9.sure PROVE KeysSure'
    <2>1. KeysSure
        BY <1>13 DEF KeysInv
    <2>2. h7' = {} /\ h8' = {b}
        BY <1>2, <1>11, <2>1 DEF KeysSure, KeysAlone
    <2>3. a.key # <<>> => KeysFinds(a)
        BY <1>1, <2>1 DEF KeysSure, KeysActs
    <2>4. ~missed
        BY <1>8, <2>1, <2>3 DEF KeysSure, KeysFinds
    <2>5. h3 => a.channel = h2 /\ a.at = h4
        BY <2>1 DEF KeysSure, KeysActs
    <2>6. KeysActs'
        BY <1>2, <1>7, <2>2, <2>5 DEF KeysActs
    <2>7. KeysAlone' /\ KeysGets' /\ KeysRows'
        BY <2>2 DEF KeysAlone, KeysGets, KeysRows
    <2> QED
        BY <1>10, <2>4, <2>6, <2>7 DEF KeysSure
<1> QED
    BY <1>10, <1>12, <1>13 DEF KeysInv

LEMMA KeysSucceeded == ASSUME KeysInv, Keys!Succeeded PROVE KeysInv'
<1>1. PICK a \in h8 :
          /\ a.done /\ h8' = h8 \ {a}
          /\ Keys!loadKeyStatus(a.channel, IF a.key # <<>> THEN a.at.page ELSE 1, a.at.filter)
          /\ h4' = IF a.key # <<>> THEN h4 ELSE [h4 EXCEPT !.page = 1]
          /\ h9' = [h9 EXCEPT !.sure = h9.sure /\ (h3 => a.channel = h2)]
    BY DEF Keys!Succeeded
<1>2. UNCHANGED <<h1, h2, h3, h5>>
    BY DEF Keys!Succeeded
<1>3. /\ a \in KeysAct /\ h9 \in KeysView /\ h4 \in KeysAt /\ h2 \in Keys!Channels
      /\ h3 \in BOOLEAN
    BY DEF KeysInv, KeysTypes
<1>4. PICK c \in Keys!Channels : c = a.channel
    BY <1>3 DEF KeysAct
<1>5. PICK p \in Nat \ {0} : p = IF a.key # <<>> THEN a.at.page ELSE 1
    BY <1>3 DEF KeysAct, KeysAt
<1>6. PICK f \in KeysFilters : f = a.at.filter
    BY <1>3 DEF KeysAct, KeysAt
<1>7. Keys!loadKeyStatus(c, p, f)
    BY <1>1, <1>4, <1>5, <1>6
<1>8. h4' \in KeysAt /\ h4'.filter = h4.filter
    BY <1>1, <1>3 DEF KeysAt
<1>9. PICK sure \in BOOLEAN : sure = (h9.sure /\ (h3 => a.channel = h2))
    BY <1>3 DEF KeysView
<1>10. h9' = [h9 EXCEPT !.sure = sure]
    BY <1>1, <1>9
<1>11. h9' \in KeysView /\ h9'.sure = sure /\ h9'.missed = h9.missed
    BY <1>3, <1>10 DEF KeysView
<1>12. ASSUME h9'.sure
       PROVE  /\ h9.sure /\ h7 = {} /\ h8' = {} /\ h9'.missed = h9.missed
              /\ h3' => c = h2' /\ f = h4'.filter
    <2>1. h9.sure /\ (h3 => a.channel = h2)
        BY <1>9, <1>11, <1>12
    <2>2. KeysSure
        BY <2>1 DEF KeysInv
    <2>3. h7 = {} /\ h8' = {}
        BY <1>1, <2>2 DEF KeysSure, KeysAlone
    <2>4. h3 => a.at = h4
        BY <2>2 DEF KeysSure, KeysActs
    <2> QED
        BY <1>2, <1>4, <1>6, <1>8, <1>11, <2>1, <2>3, <2>4
<1>13. h8' \subseteq h8
    BY <1>1
<1> QED
    BY <1>2, <1>3, <1>7, <1>8, <1>11, <1>12, <1>13, KeysAsks

LEMMA KeysFailed == ASSUME KeysInv, Keys!LoadFailed \/ Keys!Failed PROVE KeysInv'
<1>1. /\ h7' \subseteq h7 /\ h8' \subseteq h8 /\ h6' \in {FALSE, h6}
      /\ h9' = [h9 EXCEPT !.sure = FALSE] /\ UNCHANGED <<h1, h2, h3, h4, h5>>
    <2>1. CASE Keys!LoadFailed
        BY <2>1 DEF Keys!LoadFailed
    <2>2. CASE Keys!Failed
        BY <2>2 DEF Keys!Failed
    <2> QED
        BY <2>1, <2>2
<1>2. h9' \in KeysView /\ ~h9'.sure
    BY <1>1 DEF KeysInv, KeysTypes, KeysView
<1>3. KeysTypes'
    BY <1>1, <1>2 DEF KeysInv, KeysTypes, KeysServer
<1> QED
    BY <1>2, <1>3, KeysUnsure

LEMMA KeysStill == ASSUME KeysInv, UNCHANGED Keys!vars PROVE KeysInv'
<1>1. UNCHANGED <<h1, h2, h3, h4, h5, h6, h7, h8, h9>>
    BY DEF Keys!vars
<1>2. KeysTypes'
    BY <1>1 DEF KeysInv, KeysTypes, KeysServer
<1>3. ASSUME KeysSure PROVE KeysSure'
    <2>1. \A c, p, f : Keys!PageOf(c, p, f)' = Keys!PageOf(c, p, f)
        BY <1>1, KeysSame
    <2>2. KeysAlone' /\ KeysActs'
        BY <1>1, <1>3 DEF KeysSure, KeysAlone, KeysActs, KeysFinds
    <2>3. KeysGets'
        BY <1>1, <1>3, <2>1 DEF KeysSure, KeysGets, KeysAnswered
    <2>4. KeysRows'
        BY <1>1, <1>3, <2>1 DEF KeysSure, KeysRows
    <2> QED
        BY <1>1, <1>3, <2>2, <2>3, <2>4 DEF KeysSure
<1> QED
    BY <1>1, <1>2, <1>3 DEF KeysInv

LEMMA KeysSteps == KeysInv /\ [Keys!Next]_(Keys!vars) => KeysInv'
<1> SUFFICES ASSUME KeysInv, [Keys!Next]_(Keys!vars) PROVE KeysInv'
    OBVIOUS
<1>1. CASE Keys!Open \/ Keys!Close \/ Keys!handlePageChange
    BY <1>1, KeysOpens
<1>2. CASE Keys!Asked
    BY <1>2, KeysAsked
<1>3. CASE Keys!Loaded
    BY <1>3, KeysLoaded
<1>4. CASE Keys!LoadFailed \/ Keys!Failed
    BY <1>4, KeysFailed
<1>5. CASE Keys!operate
    BY <1>5, KeysOperate
<1>6. CASE Keys!Done
    BY <1>6, KeysDone
<1>7. CASE Keys!Succeeded
    BY <1>7, KeysSucceeded
<1>8. CASE UNCHANGED Keys!vars
    BY <1>8, KeysStill
<1> QED
    BY <1>1, <1>2, <1>3, <1>4, <1>5, <1>6, <1>7, <1>8 DEF Keys!Next

LEMMA KeysKnown == KeysInv => Keys!HitsItsKey /\ Keys!KeysAreThePage
BY DEF KeysInv, KeysSure, KeysRows, Keys!HitsItsKey, Keys!KeysAreThePage
=============================================================================
