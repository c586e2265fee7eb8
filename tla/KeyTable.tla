------------------------------- MODULE KeyTable -------------------------------
(***************************************************************************)
(* The dialog of a channel's keys (MultiKeyManageModal.jsx).  The server   *)
(* numbers the keys (controller/channel.go, ManageMultiKeys); the dialog   *)
(* shows a page of their status and sends the number of the key that is    *)
(* switched or deleted, then asks for the page of the click again.  The    *)
(* dialog is mounted once for all channels, and its answers are applied    *)
(* whatever is shown by then.                                              *)
(***************************************************************************)
EXTENDS FiniteSetsExt, Integers, Sequences

CONSTANTS
    MaxItems,   \* bound: keys of a channel
    MaxClicks   \* bound: what the user does

VARIABLES
    server,   \* channel -> its keys: sequence of [key, status]
    channel,  \* the channel the dialog is for
    visible,
    at,       \* currentPage and statusFilter
    list,     \* keyStatusList: [channel, index, key, status]
    loading,
    gets,     \* get_key_status on their way
    acts,     \* operations on their way, with what the dialog said then
    view,     \* history: asked, what the list answers; sure, nothing has come between;
              \* missed, an operation hit another key than the one it was clicked for
    count     \* bound

vars == <<server, channel, visible, at, list, loading, gets, acts, view, count>>

Channels == 1..2
Statuses == {"on", "off", "auto"}
PageSize == 2

-----------------------------------------------------------------------------
(* The server. *)

Matches(status, filter) == filter = "all" \/ status = filter

\* What a sequence has at these places, in their order.
Sorted(S) ==
    CHOOSE f \in [1..Cardinality(S) -> S] : \A i, j \in DOMAIN f : i < j => f[i] < f[j]
Where(seq, places) == [n \in 1..Cardinality(places) |-> seq[Sorted(places)[n]]]

\* get_key_status: a page beyond the last one is the last one.
PageOf(c, page, filter) ==
    LET keys == server[c]
        rows == [i \in DOMAIN keys |-> [channel |-> c, index |-> i, key |-> keys[i].key,
                                        status |-> keys[i].status]]
        fits == Where(rows, {i \in DOMAIN keys : Matches(keys[i].status, filter)})
        pages == Max({1, (Len(fits) + PageSize - 1) \div PageSize})
        p == Min({page, pages})
    IN  [page |-> p, keys |-> SubSeq(fits, (p - 1) * PageSize + 1, Min({p * PageSize, Len(fits)}))]

\* Only keys that were disabled by the system are deleted together.  The last key
\* is not deleted; if all would be, an empty text is not stored, so that they stay
\* and only their status is forgotten.
Operated(a) ==
    LET keys == server[a.channel] IN
    CASE a.what = "switch" ->
            IF a.index \notin DOMAIN keys THEN keys
            ELSE [keys EXCEPT ![a.index].status = IF a.on THEN "on" ELSE "off"]
      [] a.what = "delete" ->
            IF a.index \notin DOMAIN keys \/ Len(keys) = 1 THEN keys
            ELSE Where(keys, DOMAIN keys \ {a.index})
      [] a.what = "all" ->
            [i \in DOMAIN keys |->
                IF a.on THEN [keys[i] EXCEPT !.status = "on"]
                ELSE [keys[i] EXCEPT !.status = IF @ = "on" THEN "off" ELSE @]]
      [] OTHER ->
            IF \A i \in DOMAIN keys : keys[i].status = "auto"
            THEN [i \in DOMAIN keys |-> [keys[i] EXCEPT !.status = "on"]]
            ELSE Where(keys, {i \in DOMAIN keys : keys[i].status # "auto"})

Init ==
    /\ \E status \in {"on", "auto"} :
        server = [c \in Channels |->
                    [i \in 1..(MaxItems + 1 - c) |->
                        [key |-> <<c, i>>, status |-> IF i = 1 \/ c = 2 THEN status ELSE "on"]]]
    /\ channel = 1 /\ visible = FALSE
    /\ at = [page |-> 1, filter |-> "all"]
    /\ list = <<>> /\ loading = FALSE /\ gets = {} /\ acts = {}
    /\ view = [asked |-> <<1, "all">>, sure |-> TRUE, missed |-> FALSE] /\ count = 0

Clicked == count < MaxClicks /\ count' = count + 1

-----------------------------------------------------------------------------
(* Loading. *)

Get(c, page, filter) == [channel |-> c, page |-> page, filter |-> filter, answer |-> <<>>]
loadKeyStatus(c, page, filter) ==
    /\ gets' = gets \union {Get(c, page, filter)}
    /\ loading' = TRUE

\* The filter that the load uses is the one of before the dialog was closed.
Open ==
    /\ Clicked /\ ~visible /\ visible' = TRUE
    /\ channel' \in Channels
    /\ at' = [at EXCEPT !.page = 1]
    /\ loadKeyStatus(channel', 1, at.filter)
    /\ view' = [view EXCEPT !.sure = @ /\ gets = {} /\ acts = {}]
    /\ UNCHANGED <<server, list, acts>>

Close ==
    /\ visible /\ visible' = FALSE
    /\ at' = [page |-> 1, filter |-> "all"] /\ list' = <<>>
    /\ UNCHANGED <<server, channel, loading, gets, acts, view, count>>

\* Another page, another filter, or the refresh button.
handlePageChange ==
    /\ Clicked /\ visible
    /\ \E p \in 1..2, filter \in {"all", "on"} :
        /\ filter = at.filter \/ p = 1
        /\ at' = [page |-> p, filter |-> filter]
        /\ loadKeyStatus(channel, p, filter)
    /\ view' = [view EXCEPT !.sure = @ /\ gets = {} /\ acts = {}]
    /\ UNCHANGED <<server, channel, visible, list, acts>>

Asked ==
    /\ \E g \in gets :
        /\ g.answer = <<>>
        /\ gets' = (gets \ {g}) \union {[g EXCEPT !.answer = <<PageOf(g.channel, g.page, g.filter)>>]}
    /\ UNCHANGED <<server, channel, visible, at, list, loading, acts, view, count>>

Loaded ==
    /\ \E g \in gets :
        /\ g.answer # <<>> /\ gets' = gets \ {g}
        /\ list' = g.answer[1].keys
        /\ at' = [at EXCEPT !.page = g.answer[1].page]
        /\ view' = [view EXCEPT !.asked = <<g.channel, g.filter>>]
    /\ loading' = FALSE
    /\ UNCHANGED <<server, channel, visible, acts, count>>

LoadFailed ==
    /\ \E g \in gets : gets' = gets \ {g}
    /\ loading' = FALSE
    /\ view' = [view EXCEPT !.sure = FALSE]
    /\ UNCHANGED <<server, channel, visible, at, list, acts, count>>

-----------------------------------------------------------------------------
(* Operations.  The rows are covered while they load; each button turns only *)
(* while its own operation is on its way. *)

Act(what, index, key, on) ==
    [what |-> what, index |-> index, key |-> key, on |-> on, channel |-> channel, at |-> at,
     done |-> FALSE]
SameButton(a, b) == a.what = b.what /\ a.index = b.index /\ a.on = b.on

\* handleDisableKey, handleEnableKey, handleDeleteKey, of a row; and of all.
operate ==
    /\ Clicked /\ visible
    /\ \E a \in (UNION {{Act("switch", r.index, r.key, r.status # "on"),
                         Act("delete", r.index, r.key, FALSE)} :
                        r \in IF loading THEN {} ELSE {list[i] : i \in DOMAIN list}})
                \union {Act("all", 0, <<>>, on) : on \in BOOLEAN}
                \union {Act("disabled", 0, <<>>, FALSE)} :
        /\ \A b \in acts : ~SameButton(a, b)
        /\ acts' = acts \union {a}
    /\ view' = [view EXCEPT !.sure = @ /\ gets = {} /\ acts = {}]
    /\ UNCHANGED <<server, channel, visible, at, list, loading, gets>>

Done ==
    /\ \E a \in acts :
        /\ ~a.done
        /\ server' = [server EXCEPT ![a.channel] = Operated(a)]
        /\ acts' = (acts \ {a}) \union {[a EXCEPT !.done = TRUE]}
        /\ view' = [view EXCEPT !.missed = @ \/
                        (a.key # <<>> /\ \/ a.index \notin DOMAIN server[a.channel]
                                         \/ server[a.channel][a.index].key # a.key)]
    /\ UNCHANGED <<channel, visible, at, list, loading, gets, count>>

\* The page of the click, or the first one after an operation on all, with the
\* filter of the click, of the channel of the click.
Succeeded ==
    /\ \E a \in acts :
        /\ a.done /\ acts' = acts \ {a}
        /\ loadKeyStatus(a.channel, IF a.key # <<>> THEN a.at.page ELSE 1, a.at.filter)
        /\ at' = IF a.key # <<>> THEN at ELSE [at EXCEPT !.page = 1]
        /\ view' = [view EXCEPT !.sure = @ /\ (visible => a.channel = channel)]
    /\ UNCHANGED <<server, channel, visible, list, count>>

\* Refused, or broken, before or after it was done.
Failed ==
    /\ \E a \in acts : acts' = acts \ {a}
    /\ view' = [view EXCEPT !.sure = FALSE]
    /\ UNCHANGED <<server, channel, visible, at, list, loading, gets, count>>

Next == Open \/ Close \/ handlePageChange \/ Asked \/ Loaded \/ LoadFailed
        \/ operate \/ Done \/ Succeeded \/ Failed
Spec == Init /\ [][Next]_vars

-----------------------------------------------------------------------------
(* Properties. *)

\* Type correctness.
TypeOK ==
    /\ channel \in Channels /\ at.page \in 1..MaxItems /\ at.filter \in {"all"} \union Statuses
    /\ \A c \in Channels : server[c] # <<>> /\ \A i \in DOMAIN server[c] : server[c][i].status \in Statuses
    /\ \A i \in DOMAIN list : list[i].channel \in Channels

\* An operation hits the key that its row showed, although keys are renumbered
\* when one is deleted; unless it was clicked over something still on its way.
HitsItsKey == view.sure => ~view.missed

\* At rest the dialog shows the page and the filter it names, of its channel.
KeysAreThePage ==
    visible /\ gets = {} /\ acts = {} /\ view.sure =>
        /\ view.asked = <<channel, at.filter>>
        /\ list = PageOf(channel, at.page, at.filter).keys
=============================================================================
