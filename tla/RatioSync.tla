------------------------------ MODULE RatioSync -------------------------------
(***************************************************************************)
(* Taking over the prices of upstream channels (UpstreamRatioSync): the    *)
(* page asks for what differs, the administrator ticks what to take over,  *)
(* a change of the way a model is charged has to be confirmed, and the     *)
(* options are written as a whole, made of those the page was given.       *)
(***************************************************************************)
EXTENDS Naturals, Sequences

CONSTANTS
    MaxClicks,  \* bound: operations
    MaxOthers   \* bound: saves of another administrator

VARIABLES
    server,       \* the saved options, by model
    options,      \* those the page was given
    differences,  \* the rows: [model, type, offers]
    resolutions,  \* what is ticked: [model, type, value]
    filter,       \* ratioTypeFilter
    confirm,      \* conflictItems: the models that were asked about
    gets,         \* channels asked, answers not yet here
    put,          \* the PUTs on their way
    count

vars == <<server, options, differences, resolutions, filter, confirm, gets, put, count>>

Models == {"m", "n"}
Types == <<"completion_ratio", "model_price", "model_ratio">>  \* as they are listed
TypeSet == {Types[i] : i \in DOMAIN Types}
Unset == 0
getBillingCategory(type) == IF type = "model_price" THEN "price" ELSE "ratio"

Charge(price, ratio, completion) ==
    [t \in TypeSet |-> CASE t = "model_price" -> price [] t = "model_ratio" -> ratio
                         [] OTHER -> completion]
None == Charge(Unset, Unset, Unset)
\* What the channels say: b has two ways to charge for m.
Offer == [a |-> [m |-> Charge(Unset, 2, 2), n |-> Charge(3, Unset, Unset)],
          b |-> [m |-> Charge(3, 4, 4), n |-> None]]
Channels == DOMAIN Offer

\* The channel selector: at least one channel is needed.
ChannelSelectorModal == SUBSET Channels \ {{}}

\* The backend's answer: the rows of which some channel says something else.
Differences(channels) ==
    LET offers(m, t) == {<<c, Offer[c][m][t]>> : c \in {d \in channels :
                            Offer[d][m][t] \notin {Unset, server[m][t]}}}
    IN  {[model |-> p[1], type |-> p[2], offers |-> offers(p[1], p[2])] :
            p \in {q \in Models \X TypeSet : offers(q[1], q[2]) # {}}}

-----------------------------------------------------------------------------

Init ==
    /\ \E m \in {Charge(1, Unset, Unset), Charge(Unset, 1, 1), None}, n \in {Charge(Unset, 3, Unset), None} :
        server = [x \in Models |-> IF x = "m" THEN m ELSE n]
    /\ options = server
    /\ differences = {} /\ resolutions = {} /\ filter = "" /\ confirm = <<>>
    /\ gets = {} /\ put = <<>> /\ count = [clicks |-> 0, others |-> 0]

Clicked ==
    /\ confirm = <<>> /\ put = <<>> /\ count.clicks < MaxClicks
    /\ count' = [count EXCEPT !.clicks = @ + 1]
    /\ UNCHANGED <<server, options, put>>

\* confirmChannelSelection, fetchRatiosFromChannels: the requests are not numbered.
fetchRatiosFromChannels ==
    /\ Clicked
    /\ \E channels \in ChannelSelectorModal : gets' = gets \union {channels}
    /\ UNCHANGED <<differences, resolutions, filter, confirm>>
Fetched ==
    /\ \E channels \in gets :
        /\ gets' = gets \ {channels}
        /\ \/ differences' = Differences(channels) /\ resolutions' = {}
           \/ UNCHANGED <<differences, resolutions>>
    /\ UNCHANGED <<server, options, filter, confirm, put, count>>

\* selectValue: ticking one way to charge unticks the other.
selectValue(ticked, model, type, value) ==
    {r \in ticked : r.model = model =>
        r.type # type /\ getBillingCategory(r.type) = getBillingCategory(type)}
    \union {[model |-> model, type |-> type, value |-> value]}

Shown == {row \in differences : filter \in {"", row.type}}
Tick ==
    /\ Clicked
    /\ \E row \in Shown : \E offer \in row.offers :
        LET ticked == [model |-> row.model, type |-> row.type, value |-> offer[2]]
        IN  resolutions' = IF ticked \in resolutions
                           THEN {r \in resolutions : r.model # row.model \/ r.type # row.type}
                           ELSE selectValue(resolutions, row.model, row.type, offer[2])
    /\ UNCHANGED <<differences, filter, confirm, gets>>

\* handleBulkSelect: a channel's box ticks its rows one by one, on every page of
\* the table; unticking it clears the rows, whosever value they had.
tickRow(ticked, c, m, t) ==
    LET row == {r \in Shown : r.model = m /\ r.type = t /\ \E offer \in r.offers : offer[1] = c}
    IN  IF row = {} THEN ticked ELSE selectValue(ticked, m, t, Offer[c][m][t])
tickModel(ticked, c, m) ==
    tickRow(tickRow(tickRow(ticked, c, m, Types[1]), c, m, Types[2]), c, m, Types[3])
handleBulkSelect ==
    /\ Clicked
    /\ \E c \in Channels :
        \/ resolutions' = tickModel(tickModel(resolutions, c, "m"), c, "n")
        \/ resolutions' = {r \in resolutions : \A row \in Shown : r.model # row.model \/ r.type # row.type}
    /\ resolutions' # resolutions
    /\ UNCHANGED <<differences, filter, confirm, gets>>

Filter ==
    /\ Clicked
    /\ filter' \in {"", "model_ratio"} \ {filter}
    /\ UNCHANGED <<differences, resolutions, confirm, gets>>

\* The way a model is charged: the fixed price goes first.
Category(charge) ==
    IF charge["model_price"] # Unset THEN "price" ELSE IF charge = None THEN "none" ELSE "ratio"
Ticked(model) == {r \in resolutions : r.model = model}
NewCategory(model) ==
    IF \E r \in Ticked(model) : r.type = "model_price" THEN "price" ELSE "ratio"
Conflicts == {m \in {r.model : r \in resolutions} : Category(options[m]) \notin {"none", NewCategory(m)}}

\* performSync: what is ticked replaces the other way to charge.
finalRatios == [m \in Models |-> [t \in TypeSet |->
    LET here == {r \in Ticked(m) : r.type = t}
    IN  IF here # {} THEN (CHOOSE r \in here : TRUE).value
        ELSE IF \E r \in Ticked(m) : getBillingCategory(r.type) # getBillingCategory(t) THEN Unset
        ELSE options[m][t]]]
performSync(asked) ==
    put' = <<[maps |-> finalRatios, sent |-> resolutions, was |-> options, asked |-> asked]>>

\* applySync: the PUTs, or the question.
applySync ==
    /\ confirm = <<>> /\ put = <<>> /\ resolutions # {} /\ count.clicks < MaxClicks
    /\ count' = [count EXCEPT !.clicks = @ + 1]
    /\ IF Conflicts # {} THEN confirm' = <<Conflicts>> /\ UNCHANGED put
       ELSE performSync({}) /\ UNCHANGED confirm
    /\ UNCHANGED <<server, options, differences, resolutions, filter, gets>>
ConflictConfirmModal ==
    /\ confirm # <<>> /\ confirm' = <<>>
    /\ performSync(confirm[1]) \/ UNCHANGED put
    /\ UNCHANGED <<server, options, differences, resolutions, filter, gets, count>>

\* The answers: if all is written, the rows that were taken over go away.
Synced ==
    /\ put # <<>> /\ put' = <<>>
    /\ \E written \in {TypeSet, {}, {"model_price"}, TypeSet \ {"model_price"}} :
        /\ server' = [m \in Models |-> [t \in TypeSet |->
                IF t \in written THEN put[1].maps[m][t] ELSE server[m][t]]]
        /\ IF written = TypeSet
           THEN /\ resolutions' = {}
                /\ differences' = {row \in differences :
                        \A r \in put[1].sent : r.model # row.model \/ r.type # row.type}
                /\ options' = server'
           ELSE UNCHANGED <<resolutions, differences, options>>
    /\ UNCHANGED <<filter, confirm, gets, count>>

OtherSaves ==
    /\ count.others < MaxOthers
    /\ count' = [count EXCEPT !.others = @ + 1]
    /\ server' = [server EXCEPT !["m"] = Charge(5, Unset, Unset)]
    /\ UNCHANGED <<options, differences, resolutions, filter, confirm, gets, put>>
\* Another form of the page has saved; the page cannot be used meanwhile.
Refresh ==
    /\ confirm = <<>> /\ put = <<>> /\ options # server /\ options' = server
    /\ UNCHANGED <<server, differences, resolutions, filter, confirm, gets, put, count>>

Next ==
    \/ fetchRatiosFromChannels \/ Fetched \/ Tick \/ handleBulkSelect \/ Filter
    \/ applySync \/ ConflictConfirmModal \/ Synced \/ OtherSaves \/ Refresh
Spec == Init /\ [][Next]_vars

-----------------------------------------------------------------------------
(* Properties. *)

\* Type correctness.
TypeOK ==
    /\ server \in [Models -> [TypeSet -> Nat]] /\ options \in [Models -> [TypeSet -> Nat]]
    /\ gets \subseteq SUBSET Channels /\ filter \in {"", "model_ratio"}

\* What is ticked is offered by the rows that are listed, one value a row.
TickedIsOffered ==
    \A r \in resolutions :
        /\ \E row \in differences : row.model = r.model /\ row.type = r.type
                /\ \E offer \in row.offers : offer[2] = r.value
        /\ \A s \in resolutions : s.model = r.model /\ s.type = r.type => s = r

\* What is sent has what was ticked, charges for such a model in one way only, and
\* leaves the other models as the page was given them.
SentIsTicked ==
    put # <<>> => \A m \in Models :
        LET ticked == {r \in put[1].sent : r.model = m}
        IN  IF ticked = {} THEN put[1].maps[m] = put[1].was[m]
            ELSE /\ \A r \in ticked : put[1].maps[m][r.type] = r.value
                 /\ put[1].maps[m]["model_price"] # Unset =>
                        \A t \in TypeSet \ {"model_price"} : put[1].maps[m][t] = Unset

\* No model changes the way it is charged without a question.
AskedBefore ==
    put # <<>> => \A m \in Models \ put[1].asked :
        Category(put[1].was[m]) \in {"none", Category(put[1].maps[m])}
=============================================================================
