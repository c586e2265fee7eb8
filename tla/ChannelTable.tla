----------------------------- MODULE ChannelTable -----------------------------
(***************************************************************************)
(* The table of the channels (useChannelsData.jsx).  A load of the whole   *)
(* is numbered, and its answer is dropped when another has been asked for; *)
(* a search is not.  Each of the two turns into the other by what the      *)
(* search form says when it starts.  Requests that change channels are     *)
(* sent at any time, and their answers are applied to the rows, the page   *)
(* and the filter of the click.                                            *)
(***************************************************************************)
EXTENDS FiniteSetsExt, Integers, Sequences

CONSTANTS
    MaxItems,   \* bound: what the server has
    MaxClicks   \* bound: what the user and other administrators do

VARIABLES
    server,   \* status of every channel: id -> enabled or not
    keyword,  \* the search form is not empty
    at,       \* activePage, pageSize, and only: statusFilter, activeTypeKey
    rows,     \* channels: the rows shown
    loading,  \* loading, searching
    gets,     \* GETs on their way
    act,      \* the request that changes channels, with its closure
    view,     \* history: search, what the rows are of; known, they were loaded; exact,
              \* none was switched since; sure, nothing has come between
    count     \* bound

vars == <<server, keyword, at, rows, loading, gets, act, view, count>>

Items == 1..MaxItems
Matching == {i \in Items : i < MaxItems}  \* what the search finds
Sizes == {1, 2}
Event == 0                                \* the page the refresh button asks for: its event

-----------------------------------------------------------------------------
(* Asking for rows. *)

Found(search, only) ==
    {i \in DOMAIN server : (search => i \in Matching) /\ (only => server[i])}
\* Ids in ascending order.
Sorted(S) ==
    CHOOSE f \in [1..Cardinality(S) -> S] : \A i, j \in DOMAIN f : i < j => f[i] < f[j]
\* A page that is not a number is the first.
PageOf(search, page, size, only) ==
    LET all == Sorted(Found(search, only))
        p == Max({page, 1})
        here == SubSeq(all, (p - 1) * size + 1, Min({p * size, Len(all)}))
    IN  [i \in DOMAIN here |-> [id |-> here[i], on |-> server[here[i]]]]
LastPage(search, size, only) ==
    Max({1, (Cardinality(Found(search, only)) + size - 1) \div size})

Ask(page, size, only, ends) ==
    [search |-> keyword, page |-> page, size |-> size, only |-> only, ends |-> ends,
     newest |-> ~keyword, answer |-> <<>>]
Address(g) == <<g.search, g.page, g.size, g.only>>

\* A GET of an address that is on its way waits for the same answer, and only
\* the newest load will use it.
Joined(new) ==
    LET old == {[g EXCEPT !.newest = @ /\ new.search] : g \in gets}
        same == {g \in old : Address(g) = Address(new)}
        both == {[g EXCEPT !.newest = new.newest, !.ends = @ \union new.ends] : g \in same}
    IN  (old \ same) \union (IF same = {} THEN {new} ELSE both)
\* A search that overtakes anything, or is overtaken.
Overtakes(new) == \E g \in gets : Address(g) # Address(new) /\ (g.search \/ new.search)

\* loadChannels sets loading and asks a search first; searchChannels sets
\* searching, until the load it asks is over.
loadChannels(page, size, only, ends) ==
    /\ gets' = Joined(Ask(page, size, only, ends \union (IF keyword THEN {"loading"} ELSE {})))
    /\ loading' = loading \union {"loading"} \union (IF keyword THEN {"searching"} ELSE {})
searchChannels(page, size, only, ends) ==
    /\ gets' = Joined(Ask(page, size, only, ends \union (IF keyword THEN {} ELSE {"searching"})))
    /\ loading' = loading \union {"searching"} \union (IF keyword THEN {} ELSE {"loading"})
refreshThen(page, size, only, ends) ==
    IF keyword THEN searchChannels(page, size, only, ends) ELSE loadChannels(page, size, only, ends)
refresh(page, size, only) == refreshThen(page, size, only, {})
Sure(page, size, only) == view.sure /\ ~Overtakes(Ask(page, size, only, {}))

Init ==
    /\ server \in [Items -> {TRUE}] \union {[i \in Items |-> i # 1]}
    /\ keyword = FALSE /\ rows = <<>>
    /\ at = [page |-> 1, size |-> 2, only |-> TRUE]
    /\ loading = {"loading"} /\ gets = {Ask(1, 2, TRUE, {})}
    /\ act = <<>> /\ count = 0
    /\ view = [search |-> FALSE, known |-> FALSE, exact |-> TRUE, sure |-> TRUE]

Clicked == count < MaxClicks /\ count' = count + 1

Typed ==
    /\ Clicked /\ keyword' = ~keyword
    /\ UNCHANGED <<server, at, rows, loading, gets, act, view>>

\* The search button, the refresh button, a page.
search ==
    /\ Clicked /\ searchChannels(1, at.size, at.only, {})
    /\ view' = [view EXCEPT !.sure = Sure(1, at.size, at.only) /\ (keyword \/ at.page = 1)]
    /\ UNCHANGED <<server, keyword, at, rows, act>>

refreshClicked ==
    /\ Clicked /\ refresh(Event, at.size, at.only)
    /\ view' = [view EXCEPT !.sure = Sure(Event, at.size, at.only) /\ (keyword \/ at.page = 1)]
    /\ UNCHANGED <<server, keyword, at, rows, act>>

handlePageChange ==
    /\ Clicked /\ view.known
    /\ \E p \in 1..LastPage(view.search, at.size, at.only) \ {at.page} :
        /\ refresh(p, at.size, at.only)
        /\ at' = [at EXCEPT !.page = p]
        /\ view' = [view EXCEPT !.sure = Sure(p, at.size, at.only)]
    /\ UNCHANGED <<server, keyword, rows, act>>

handlePageSizeChange ==
    /\ Clicked
    /\ \E s \in Sizes \ {at.size} :
        /\ refresh(1, s, at.only)
        /\ at' = [at EXCEPT !.page = 1, !.size = s]
        /\ view' = [view EXCEPT !.sure = Sure(1, s, at.only)]
    /\ UNCHANGED <<server, keyword, rows, act>>

\* Another status or another type.
filterChanged ==
    /\ Clicked /\ loadChannels(1, at.size, ~at.only, {})
    /\ at' = [at EXCEPT !.page = 1, !.only = ~@]
    /\ view' = [view EXCEPT !.sure = Sure(1, at.size, ~at.only)]
    /\ UNCHANGED <<server, keyword, rows, act>>

-----------------------------------------------------------------------------
(* Answers. *)

Asked ==
    /\ \E g \in gets :
        /\ g.answer = <<>>
        /\ gets' = (gets \ {g})
                \union {[g EXCEPT !.answer = <<PageOf(g.search, g.page, g.size, g.only)>>]}
    /\ UNCHANGED <<server, keyword, at, rows, loading, act, view, count>>

Shown(g) == g.search \/ g.newest
Spinner(g) == IF g.search THEN "searching" ELSE "loading"

\* A search says which page it is; a load leaves it at what was clicked.
Loaded ==
    /\ \E g \in gets :
        /\ g.answer # <<>> /\ gets' = gets \ {g}
        /\ loading' = loading \ (g.ends \union (IF Shown(g) THEN {Spinner(g)} ELSE {}))
        /\ IF ~Shown(g) THEN UNCHANGED <<rows, at, view>>
           ELSE /\ rows' = g.answer[1]
                /\ at' = IF g.search THEN [at EXCEPT !.page = g.page] ELSE at
                /\ view' = [view EXCEPT !.search = g.search, !.known = TRUE, !.exact = TRUE]
    /\ UNCHANGED <<server, keyword, act, count>>

\* Refused, or broken: then a load's spinner stays, a search's does not.
LoadFailed ==
    /\ \E g \in gets, broken \in BOOLEAN :
        /\ gets' = gets \ {g}
        /\ loading' =
            IF broken THEN loading \ ((g.ends \union {Spinner(g)}) \ {"loading"})
            ELSE loading \ (g.ends \union (IF Shown(g) THEN {Spinner(g)} ELSE {}))
    /\ view' = [view EXCEPT !.sure = FALSE]
    /\ UNCHANGED <<server, keyword, at, rows, act, count>>

-----------------------------------------------------------------------------
(* Changing channels. *)

\* manageChannel, testChannel and updateChannelBalance, batchDeleteChannels and
\* the like: they keep the rows, the page and the filter of the click.
manage ==
    /\ Clicked /\ act = <<>>
    /\ \E ids \in SUBSET {rows[i].id : i \in DOMAIN rows} \ {{}},
          what \in {"switch", "delete", "test", "batch"} :
        /\ what # "batch" => Cardinality(ids) = 1
        /\ act' = <<[what |-> what, ids |-> ids, rows |-> rows, at |-> at]>>
        /\ loading' = IF what = "batch" THEN loading \union {"loading"} ELSE loading
    \* Another load that is under way may answer with what was before.
    /\ view' = [view EXCEPT !.sure = @ /\ gets = {}]
    /\ UNCHANGED <<server, keyword, at, rows, gets>>

Done(a) ==
    CASE a.what = "switch" -> [i \in DOMAIN server |-> IF i \in a.ids THEN ~server[i] ELSE server[i]]
      [] a.what = "test" -> server
      [] OTHER -> [i \in DOMAIN server \ a.ids |-> server[i]]

\* setChannels of the rows of the click.
Restored(a) ==
    [i \in DOMAIN a.rows |->
        [a.rows[i] EXCEPT !.on = IF a.what = "switch" /\ a.rows[i].id \in a.ids THEN ~@ ELSE @]]

\* After a deletion the page of the click is loaded again, also when it was
\* refused; a batch that was refused loads nothing.  Its last step says that
\* nothing is loading.
Managed ==
    /\ act # <<>> /\ act' = <<>>
    /\ LET a == act[1] IN
       \E ok \in BOOLEAN :
        /\ server' = IF ok THEN Done(a) ELSE server
        /\ rows' = IF ok /\ a.what # "batch" THEN Restored(a) ELSE rows
        /\ IF a.what = "delete" \/ (a.what = "batch" /\ ok)
           THEN refreshThen(a.at.page, a.at.size, a.at.only,
                            IF a.what = "batch" THEN {"loading"} ELSE {})
           ELSE /\ gets' = gets
                /\ loading' = IF a.what = "batch" THEN loading \ {"loading"} ELSE loading
        /\ view' = [view EXCEPT !.exact = @ /\ ~(ok /\ a.what = "switch"),
                        !.sure = @ /\ ok /\ gets = {} /\ a.rows = rows /\ a.at = at
                                    /\ (a.what \in {"delete", "batch"} => view.search = keyword)]
    /\ UNCHANGED <<keyword, at, count>>

\* The request breaks, before or after the server has done it; a batch's
\* spinner stays.
ManageFailed ==
    /\ act # <<>> /\ act' = <<>>
    /\ server' \in {server, Done(act[1])}
    /\ view' = [view EXCEPT !.sure = FALSE]
    /\ UNCHANGED <<keyword, at, rows, loading, gets, count>>

\* Another administrator, or the system.
Another ==
    /\ Clicked
    /\ \E i \in DOMAIN server : server' = [server EXCEPT ![i] = ~@]
    /\ view' = [view EXCEPT !.sure = FALSE]
    /\ UNCHANGED <<keyword, at, rows, loading, gets, act>>

Next == Typed \/ search \/ refreshClicked \/ handlePageChange \/ handlePageSizeChange
        \/ filterChanged \/ Asked \/ Loaded \/ LoadFailed
        \/ manage \/ Managed \/ ManageFailed \/ Another
Spec == Init /\ [][Next]_vars

-----------------------------------------------------------------------------
(* Properties. *)

\* Type correctness.
TypeOK ==
    /\ DOMAIN server \subseteq Items /\ at.size \in Sizes /\ at.page \in 0..MaxItems
    /\ loading \subseteq {"loading", "searching"}
    /\ Cardinality({Address(g) : g \in gets}) = Cardinality(gets)
    /\ Cardinality({g \in gets : g.newest}) <= 1

\* At rest the table shows the page and the filter it names, with the status
\* that the server has, in whichever order loads have overtaken each other; only
\* a channel that was switched by hand stays where it was.
RowsAreThePage ==
    gets = {} /\ act = <<>> /\ view.sure =>
        /\ \A i \in DOMAIN rows : rows[i].on = server[rows[i].id]
        /\ view.exact => rows = PageOf(view.search, at.page, at.size, at.only)

\* And nothing turns that has nothing to wait for.
NothingTurns == gets = {} /\ act = <<>> /\ view.sure => loading = {}
=============================================================================
