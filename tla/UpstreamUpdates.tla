--------------------------- MODULE UpstreamUpdates ---------------------------
(***************************************************************************)
(* The models a channel's provider has newly got or dropped: a detection   *)
(* writes them down with the channel, the table shows how many there are,  *)
(* and a dialog asks which to add and which to remove; what is not added   *)
(* is ignored from then on.  Detections of one channel or of all, and the  *)
(* application to all, run beside the dialog; each reads the channel       *)
(* first and writes all its settings afterwards.                           *)
(***************************************************************************)
EXTENDS FiniteSets, Integers

CONSTANT MaxClicks  \* bound: detections, applications and changes of the provider

VARIABLES
    upstream, \* what the provider has: channel -> models
    server,   \* the channels: channel -> [models, ignored, add, remove]
    rows,     \* what the table shows: channel -> [add, remove]
    of,       \* the channel of the dialog, 0 when it is closed
    offered,  \* what the dialog offers: [add, remove]
    ticked,   \* what is ticked in it
    tab,
    ask,      \* the question about the other tab: what would be sent, and confirmed
    put,      \* the application on its way
    jobs,     \* the others: [kind, of, read]
    calm,     \* history: nothing was written over what another wrote meanwhile
    count

vars == <<upstream, server, rows, of, offered, ticked, tab, ask, put, jobs, calm, count>>

Channels == 1..2
Models == 1..2
None == [add |-> {}, remove |-> {}]
Tabs == {"add", "remove"}

\* What the table takes from the settings of a channel.
parseUpstreamUpdateMeta(channel) == [add |-> channel.add, remove |-> channel.remove]

Init ==
    /\ upstream \in [Channels -> {{1, 2}, {2}}]
    /\ server = [c \in Channels |->
                    [models |-> IF c = 1 THEN {1} ELSE {}, ignored |-> IF c = 1 THEN {} ELSE {2},
                     add |-> {}, remove |-> {}]]
    /\ rows = [c \in Channels |-> None]
    /\ of = 0 /\ offered = None /\ ticked = None /\ tab = "add"
    /\ ask = [sent |-> <<>>, confirmed |-> FALSE]
    /\ put = <<>> /\ jobs = {} /\ calm = TRUE /\ count = 0

Clicked == count < MaxClicks /\ count' = count + 1

-----------------------------------------------------------------------------
(* The server. *)

\* collectPendingUpstreamModelChanges, of what the detection had read.
Detected(channel, provided) ==
    [channel EXCEPT !.add = provided \ (channel.models \union channel.ignored),
                    !.remove = channel.models \ provided]

\* applyChannelUpstreamModelUpdates: only what is pending is taken.
Applied(channel, add, ignore, remove) ==
    [channel EXCEPT !.models = (@ \union (add \cap channel.add)) \ (remove \cap channel.remove),
                    !.ignored = (@ \union (ignore \cap channel.add)) \ (add \cap channel.add),
                    !.add = @ \ (add \union ignore), !.remove = @ \ remove]

\* The models are written by an application only, the settings always, even if
\* the provider did not answer.
Written(job, answered) ==
    LET there == server[job.of]
        new == IF job.kind = "apply"
               THEN Applied(job.read, job.read.add, {}, job.read.remove)
               ELSE IF answered THEN Detected(job.read, upstream[job.of]) ELSE job.read
    IN  [server EXCEPT ![job.of] =
            [new EXCEPT !.models = IF new.models = job.read.models THEN there.models ELSE @]]

-----------------------------------------------------------------------------
(* Beside the dialog. *)

detectChannelUpstreamUpdates ==
    /\ Clicked /\ {j \in jobs : j.kind = "detect"} = {}
    /\ \E c \in Channels : jobs' = jobs \union {[kind |-> "detect", of |-> c, read |-> server[c]]}
    /\ UNCHANGED <<upstream, server, rows, of, offered, ticked, tab, ask, put, calm>>

All(kind) ==
    /\ Clicked /\ {j \in jobs : j.kind = kind} = {}
    /\ jobs' = jobs \union {[kind |-> kind, of |-> c, read |-> server[c]] : c \in Channels}
    /\ UNCHANGED <<upstream, server, rows, of, offered, ticked, tab, ask, put, calm>>
detectAllUpstreamUpdates == All("detect all")
applyAllUpstreamUpdates == All("apply")

\* One channel is written, or its save fails.
JobStep ==
    /\ \E j \in jobs, answered \in BOOLEAN :
        /\ jobs' = jobs \ {j}
        /\ \/ /\ server' = Written(j, answered)
              /\ calm' = (calm /\ server[j.of] = j.read)
           \/ UNCHANGED <<server, calm>>
    /\ UNCHANGED <<upstream, rows, of, offered, ticked, tab, ask, put, count>>

\* The provider.
Provided ==
    /\ Clicked
    /\ \E c \in Channels, has \in SUBSET Models : upstream' = [upstream EXCEPT ![c] = has]
    /\ UNCHANGED <<server, rows, of, offered, ticked, tab, ask, put, jobs, calm>>

\* The table is loaded, after an answer or by the user.
refresh ==
    /\ rows' = [c \in Channels |-> parseUpstreamUpdateMeta(server[c])]
    /\ rows' # rows
    /\ UNCHANGED <<upstream, server, of, offered, ticked, tab, ask, put, jobs, calm, count>>

-----------------------------------------------------------------------------
(* The dialog. *)

\* The rows that have a tag to click on.
Tagged == {c \in Channels : rows[c] # None}

openUpstreamUpdateModal ==
    /\ of = 0 /\ Clicked
    /\ \E c \in Tagged :
        /\ of' = c /\ offered' = rows[c]
        /\ tab' \in {t \in Tabs : rows[c][t] # {}}
    /\ ticked' = None
    /\ ask' = [sent |-> <<>>, confirmed |-> FALSE]
    /\ UNCHANGED <<upstream, server, rows, put, jobs, calm>>

Closed == of' = 0 /\ offered' = None
closeUpstreamUpdateModal ==
    /\ of # 0 /\ ask.sent = <<>> /\ Closed
    /\ UNCHANGED <<upstream, server, rows, ticked, tab, ask, put, jobs, calm, count>>

Turn ==
    /\ of # 0 /\ ask.sent = <<>>
    /\ tab' \in {t \in Tabs : offered[t] # {}} /\ tab' # tab
    /\ UNCHANGED <<upstream, server, rows, of, offered, ticked, ask, put, jobs, calm, count>>

\* The models a word leaves in the list.
Shown == SUBSET offered[tab]

\* All of them, or one.
Tick ==
    /\ of # 0 /\ ask.sent = <<>>
    /\ \E shown \in Shown \ {{}} :
        ticked' \in {[ticked EXCEPT ![tab] = @ \union shown], [ticked EXCEPT ![tab] = @ \ shown]}
    /\ UNCHANGED <<upstream, server, rows, of, offered, tab, ask, put, jobs, calm, count>>

\* applyUpstreamUpdates: what was offered to add and is not ticked is ignored.
Sent == <<[of |-> of, add |-> ticked.add, ignore |-> offered.add \ ticked.add,
           remove |-> ticked.remove]>>

\* One tab is left alone while the other is not.
LeftAlone == {t \in Tabs : offered[t] # {} /\ ticked[t] = {}}
MustAsk == Cardinality(LeftAlone) = 1 /\ {offered.add, offered.remove} \cap {{}} = {}

handleSubmit ==
    /\ of # 0 /\ put = <<>> /\ ask.sent = <<>>
    /\ IF MustAsk /\ ~ask.confirmed
       THEN ask' = [ask EXCEPT !.sent = Sent] /\ tab' \in LeftAlone /\ UNCHANGED put
       ELSE put' = Sent /\ UNCHANGED <<ask, tab>>
    /\ UNCHANGED <<upstream, server, rows, of, offered, ticked, jobs, calm, count>>

Confirmed ==
    /\ ask.sent # <<>>
    /\ \/ put' = ask.sent /\ ask' = [sent |-> <<>>, confirmed |-> TRUE]
       \/ ask' = [ask EXCEPT !.sent = <<>>] /\ UNCHANGED put
    /\ UNCHANGED <<upstream, server, rows, of, offered, ticked, tab, jobs, calm, count>>

\* The dialog that is open by then is closed.
applyUpstreamUpdates ==
    /\ put # <<>> /\ put' = <<>>
    /\ server' = [server EXCEPT ![put[1].of] =
                      Applied(@, put[1].add, put[1].ignore, put[1].remove)]
    /\ IF ask.sent = <<>> THEN Closed ELSE UNCHANGED <<of, offered>>
    /\ UNCHANGED <<upstream, rows, ticked, tab, ask, jobs, calm, count>>

Refused ==
    /\ put # <<>> /\ put' = <<>>
    /\ UNCHANGED <<upstream, server, rows, of, offered, ticked, tab, ask, jobs, calm, count>>

Next == detectChannelUpstreamUpdates \/ detectAllUpstreamUpdates \/ applyAllUpstreamUpdates
        \/ JobStep \/ Provided \/ refresh
        \/ openUpstreamUpdateModal \/ closeUpstreamUpdateModal \/ Turn \/ Tick
        \/ handleSubmit \/ Confirmed \/ applyUpstreamUpdates \/ Refused
Spec == Init /\ [][Next]_vars

-----------------------------------------------------------------------------
(* Properties. *)

\* Type correctness.
TypeOK ==
    /\ of \in Channels \union {0} /\ tab \in Tabs /\ {calm, ask.confirmed} \subseteq BOOLEAN
    /\ \A c \in Channels :
        server[c].models \union server[c].ignored \union upstream[c] \subseteq Models
    /\ \A t \in Tabs : ticked[t] \subseteq Models

\* What is pending can be done: no model is offered that the channel has or that
\* was ignored, and only its own for removal; unless a detection or an application
\* to all wrote over what was applied meanwhile.
PendingIsTrue ==
    calm => \A c \in Channels :
        /\ server[c].add \cap (server[c].models \union server[c].ignored) = {}
        /\ server[c].remove \subseteq server[c].models

\* What the dialog sends is about the channel it was opened for, and all of what
\* it offered to add is either added or ignored.
SentIsOffered ==
    \A s \in {put, ask.sent} \ {<<>>} :
        /\ s[1].add \cap s[1].ignore = {}
        /\ s = ask.sent => s[1].of = of /\ s[1].add \union s[1].ignore = offered.add

\* A model that is ignored stays so until it is added.
IgnoredStays ==
    calm' => \A c \in Channels :
        server[c].ignored \subseteq server'[c].ignored \union server'[c].models
=============================================================================
