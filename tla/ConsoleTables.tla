---------------------------- MODULE ConsoleTables ----------------------------
(***************************************************************************)
(* The tables of the console (hooks/*/use...Data): tokens, redemption      *)
(* codes, users, models, drawing tasks, tasks and usage logs.  A table     *)
(* shows one page of what the server has, or of what a search finds in it; *)
(* its spinner covers the rows but not the pagination, so that several     *)
(* GETs can be on their way, and GETs of one address share one answer      *)
(* (patchAPIInstance).  Rows are switched and deleted one by one, or as    *)
(* selected, and the rows that were on the screen when that was asked are  *)
(* what the answer is applied to.                                          *)
(***************************************************************************)
EXTENDS FiniteSetsExt, Integers, Sequences

CONSTANTS
    MaxItems,   \* bound: what the server has
    MaxClicks   \* bound: what the user and other administrators do

VARIABLES
    table,       \* which table: a record of Tables
    server,      \* status of every row the server has: id -> on or off
    keyword,     \* the search form is not empty
    searchMode,  \* searchMode of the tokens
    rows,        \* the rows shown: sequence of [id, on, gone]
    at,          \* activePage and pageSize
    loading,     \* loading, searching
    selected,    \* selectedKeys, by id
    gets,        \* GETs on their way
    act,         \* the request that changes rows, with the rows it was asked on
    view,        \* history: the question whose answer is shown; sure: nothing has
                 \* come between; mixed: a search and the whole were asked at once
    count        \* bound

vars == <<table, server, keyword, searchMode, rows, at, loading, selected, gets, act, view, count>>

Items == 1..MaxItems
Matching == {i \in Items : i < MaxItems}  \* what the search finds
Sizes == {1, 2}

\* paging: what another page is a page of: the search that is shown, the search
\* that is entered, or always the whole.  first: of a search only page 1 is
\* ever asked for.  eager: the page number changes before the rows.  resized:
\* an effect of pageSize loads page 1 too.  oldPage: another size loads the old
\* page number.  sized: the size is the one that was answered; lazy: and until
\* then the old one.  caught: a request that breaks ends the spinner.  clears: one
\* that fails empties the rows.  changes: which rows an answer is applied to;
\* reloads: after which changes the page is loaded again.
Table(name) ==
    [name |-> name, paging |-> "entered", first |-> FALSE, eager |-> FALSE, resized |-> FALSE,
     oldPage |-> FALSE, sized |-> TRUE, lazy |-> FALSE, caught |-> FALSE, clears |-> FALSE, changes |-> "none", reloads |-> {},
     selects |-> FALSE]

useTokensData ==
    [Table("tokens") EXCEPT !.paging = "shown", !.resized = TRUE, !.changes = "asked",
        !.reloads = {"switch", "delete", "batch"}, !.selects = TRUE]
useRedemptionsData ==
    [Table("redemptions") EXCEPT !.first = TRUE, !.eager = TRUE, !.resized = TRUE, !.caught = TRUE,
        !.sized = FALSE, !.changes = "asked", !.reloads = {"delete"}]
useUsersData ==
    [Table("users") EXCEPT !.eager = TRUE, !.oldPage = TRUE, !.sized = FALSE,
        !.changes = "asked", !.reloads = {"delete"}]
useModelsData ==
    [Table("models") EXCEPT !.paging = "whole", !.eager = TRUE, !.caught = TRUE, !.clears = TRUE,
        !.sized = FALSE, !.changes = "current", !.reloads = {"delete", "batch"}, !.selects = TRUE]
useMjLogsData == [Table("mj") EXCEPT !.lazy = TRUE]
useTaskLogsData == [Table("task") EXCEPT !.lazy = TRUE]
useLogsData == [Table("usage") EXCEPT !.eager = TRUE, !.oldPage = TRUE]
Tables == {useTokensData, useRedemptionsData, useUsersData, useModelsData, useMjLogsData,
           useTaskLogsData, useLogsData}
Log(t) == t \in {"mj", "task", "usage"}

-----------------------------------------------------------------------------
(* What the server answers. *)

Found(filter) == {i \in DOMAIN server : filter => i \in Matching}
\* Ids in ascending order.
Sorted(S) ==
    CHOOSE f \in [1..Cardinality(S) -> S] : \A i, j \in DOMAIN f : i < j => f[i] < f[j]
PageOf(filter, page, size) ==
    LET all == Sorted(Found(filter))
        here == SubSeq(all, (page - 1) * size + 1, Min({page * size, Len(all)}))
    IN  [i \in DOMAIN here |-> [id |-> here[i], on |-> server[here[i]], gone |-> FALSE]]
LastPage(filter, size) == Max({1, (Cardinality(Found(filter)) + size - 1) \div size})

\* The addresses asked for join those under way; clear: setSelectedKeys([])
\* waits for it.
Get(filter, page, size, clear) ==
    [filter |-> filter, page |-> page, size |-> size, clear |-> clear, answer |-> <<>>]
Same(g, h) == g.filter = h.filter /\ g.page = h.page /\ g.size = h.size
Joined(new) ==
    {[g EXCEPT !.clear = @ \/ \E h \in new : Same(g, h) /\ h.clear] : g \in gets}
        \union {h \in new : \A g \in gets : ~Same(g, h)}

\* loadTokens and its like, searchTokens and its like.
Spinner(g) == IF g.filter /\ ~Log(table.name) THEN "searching" ELSE "loading"
Ask(new) ==
    /\ gets' = Joined(new)
    /\ loading' = loading \union {Spinner(g) : g \in new}
    /\ searchMode' = (searchMode /\ \A g \in new : g.filter)
Mixed(all) == view.mixed \/ \E g, h \in all : g.filter # h.filter

Init ==
    /\ table \in Tables
    /\ server \in [Items -> {TRUE}]
    /\ keyword = FALSE /\ searchMode = FALSE
    /\ rows = <<>> /\ at = [page |-> 1, size |-> 2] /\ loading = {"loading"}
    /\ selected = {} /\ act = <<>>
    /\ gets = {Get(FALSE, 1, 2, FALSE)}
    /\ view = [filter |-> FALSE, page |-> 1, size |-> 2, sure |-> TRUE, mixed |-> FALSE,
                known |-> FALSE]
    /\ count = 0

Clicked == count < MaxClicks /\ count' = count + 1

-----------------------------------------------------------------------------
(* Asking for rows. *)

Typed ==
    /\ Clicked /\ keyword' = ~keyword
    /\ UNCHANGED <<table, server, searchMode, rows, at, loading, selected, gets, act, view>>

\* The search button: an empty form loads the whole.
search ==
    /\ Clicked /\ loading = {}
    /\ Ask({Get(keyword, 1, at.size, FALSE)})
    /\ view' = [view EXCEPT !.mixed = Mixed(gets')]
    /\ UNCHANGED <<table, server, keyword, rows, at, selected, act>>

Filter == CASE table.paging = "shown" -> searchMode
            [] table.paging = "entered" -> keyword
            [] OTHER -> FALSE
PageAsked(filter, page) == IF filter /\ table.first THEN 1 ELSE page

handlePageChange ==
    /\ Clicked /\ view.known
    /\ \E p \in 1..LastPage(view.filter, at.size) \ {at.page} :
        /\ Ask({Get(Filter, PageAsked(Filter, p), at.size, FALSE)})
        /\ at' = IF table.eager THEN [at EXCEPT !.page = p] ELSE at
    /\ view' = [view EXCEPT !.mixed = Mixed(gets')]
    /\ UNCHANGED <<table, server, keyword, rows, selected, act>>

\* Two loads at once if a search is shown and the effect loads the whole: which
\* is shown is a matter of the answers' order.  The search of the codes asks
\* for the old size, and an answer to an earlier load for the size it had, which
\* most tables do not take over.
handlePageSizeChange ==
    /\ Clicked
    /\ \E s \in Sizes \ {at.size} :
        LET page == IF table.oldPage THEN at.page ELSE 1
            filter == IF table.name \in {"users", "models"} THEN FALSE ELSE Filter
            asked == Get(filter, page, IF filter /\ table.first THEN at.size ELSE s, FALSE)
            effect == IF table.resized THEN {Get(FALSE, 1, s, FALSE)} ELSE {}
        IN  /\ Ask({asked} \union effect)
            /\ at' = [page |-> IF table.eager THEN 1 ELSE at.page,
                      size |-> IF table.lazy THEN at.size ELSE s]
            /\ view' = [view EXCEPT !.mixed = Mixed(gets'),
                            !.sure = @ /\ asked.size = s /\ (table.sized \/ gets = {})]
    /\ UNCHANGED <<table, server, keyword, rows, selected, act>>

Asked ==
    /\ \E g \in gets :
        /\ g.answer = <<>>
        /\ gets' = (gets \ {g}) \union {[g EXCEPT !.answer = <<PageOf(g.filter, g.page, g.size)>>]}
    /\ UNCHANGED <<table, server, keyword, searchMode, rows, at, loading, selected, act, view, count>>

\* A bug: the size that was answered is not taken over.
LoadedSize(g) == at.size
ShownSize(g) == IF table.sized THEN g.size ELSE at.size

\* syncPageData and its like.
Loaded ==
    /\ \E g \in gets :
        /\ g.answer # <<>> /\ gets' = gets \ {g}
        /\ rows' = g.answer[1]
        /\ at' = [page |-> g.page, size |-> ShownSize(g)]
        /\ loading' = loading \ {Spinner(g)}
        /\ searchMode' = (searchMode \/ (g.filter /\ table.paging = "shown"))
        /\ selected' = IF g.clear THEN {} ELSE selected
        /\ view' = [view EXCEPT !.filter = g.filter, !.page = g.page, !.size = g.size,
                                !.known = TRUE]
    /\ UNCHANGED <<table, server, keyword, act, count>>

\* The server refuses, or the request breaks: then the spinner of most tables
\* stays, for the handler ends with the exception.
LoadFailed ==
    /\ \E g \in gets, broken \in BOOLEAN :
        /\ gets' = gets \ {g}
        /\ rows' = IF table.clears THEN <<>> ELSE rows
        /\ loading' = IF broken /\ ~table.caught THEN loading ELSE loading \ {Spinner(g)}
        /\ selected' = IF g.clear /\ ~broken THEN {} ELSE selected
        /\ view' = [view EXCEPT !.sure = FALSE]
    /\ UNCHANGED <<table, server, keyword, searchMode, at, act, count>>

-----------------------------------------------------------------------------
(* Changing rows. *)

rowSelection ==
    /\ Clicked /\ table.selects /\ "loading" \notin loading
    /\ \E i \in DOMAIN rows :
        selected' = IF rows[i].id \in selected THEN selected \ {rows[i].id}
                    ELSE selected \union {rows[i].id}
    /\ UNCHANGED <<table, server, keyword, searchMode, rows, at, loading, gets, act, view>>

\* manageToken and its like, batchDeleteTokens, batchDeleteModels.
manage ==
    /\ Clicked /\ table.changes # "none" /\ act = <<>> /\ "loading" \notin loading
    /\ \/ \E i \in DOMAIN rows, what \in {"switch", "delete"} :
            ~rows[i].gone /\ act' = <<[what |-> what, ids |-> {rows[i].id}, on |-> ~rows[i].on,
                                       rows |-> rows, page |-> at.page, size |-> at.size]>>
       \/ table.selects /\ selected # {}
            /\ act' = <<[what |-> "batch", ids |-> selected, on |-> FALSE, rows |-> rows,
                         page |-> at.page, size |-> at.size]>>
    /\ loading' = IF table.name = "models" THEN loading ELSE loading \union {"loading"}
    \* Another load that is under way may answer with what was before.
    /\ view' = [view EXCEPT !.sure = @ /\ gets = {}]
    /\ UNCHANGED <<table, server, keyword, searchMode, rows, at, selected, gets>>

Changed(old, a) ==
    [i \in DOMAIN old |->
        IF old[i].id \notin a.ids THEN old[i]
        ELSE IF a.what = "switch" THEN [old[i] EXCEPT !.on = a.on]
        ELSE [old[i] EXCEPT !.gone = (table.name = "users")]]
Applied(a, ids) ==
    IF a.what = "switch"
    THEN [i \in DOMAIN server |-> IF i \in ids THEN a.on ELSE server[i]]
    ELSE [i \in DOMAIN server \ ids |-> server[i]]

\* refresh of the moment of the click: the tokens forget their search.
Again(a) ==
    LET filter == table.paging = "entered" /\ keyword
    IN  Get(filter, PageAsked(filter, a.page), a.size, table.name = "tokens")

\* Of a batch of models some may be refused.  The check for an empty page after
\* a deletion looks at the rows of the click, which are not empty.
Managed ==
    /\ act # <<>> /\ act' = <<>>
    /\ LET a == act[1] IN
       \E ids \in IF a.what = "batch" /\ table.name = "models" THEN SUBSET a.ids ELSE {{}, a.ids} :
        LET ok == ids # {} IN
        /\ server' = Applied(a, ids)
        /\ rows' = CASE ~ok \/ a.what = "batch" -> rows
                     [] table.changes = "current" /\ a.what = "switch" -> Changed(rows, a)
                     [] table.changes = "asked" -> Changed(a.rows, a)
                     [] OTHER -> rows
        /\ selected' = IF ok /\ a.what = "batch" /\ table.name = "models" THEN {} ELSE selected
        /\ LET spared == IF table.name = "models" THEN loading ELSE loading \ {"loading"}
               again == a.what \in table.reloads /\ (ok \/ a.what # "batch")
           IN  /\ gets' = IF again THEN Joined({Again(a)}) ELSE gets
               /\ loading' = IF again THEN spared \union {Spinner(Again(a))} ELSE spared
               /\ searchMode' = (searchMode /\ (again => Again(a).filter))
        /\ view' = [view EXCEPT !.sure = @ /\ ok /\ gets = {} /\ a.rows = rows
                                            /\ a.page = at.page /\ a.size = at.size,
                                !.mixed = Mixed(gets')]
    /\ UNCHANGED <<table, keyword, at, count>>

\* The request breaks, before or after the server has done it.
ManageFailed ==
    /\ act # <<>> /\ act' = <<>>
    /\ LET a == act[1] IN
       \E ids \in {{}, a.ids} :
        /\ server' = Applied(a, ids)
        /\ loading' = IF table.caught \/ a.what = "batch" THEN loading \ {"loading"} ELSE loading
        /\ gets' = IF table.name = "redemptions" /\ a.what = "delete" THEN Joined({Again(a)}) ELSE gets
    /\ view' = [view EXCEPT !.sure = FALSE]
    /\ UNCHANGED <<table, keyword, searchMode, rows, at, selected, count>>

\* Another administrator, or the system.
Another ==
    /\ Clicked
    /\ \E i \in DOMAIN server : server' = [server EXCEPT ![i] = ~@]
    /\ view' = [view EXCEPT !.sure = FALSE]
    /\ UNCHANGED <<table, keyword, searchMode, rows, at, loading, selected, gets, act>>

Next == Typed \/ search \/ handlePageChange \/ handlePageSizeChange \/ Asked \/ Loaded
        \/ LoadFailed \/ rowSelection \/ manage \/ Managed \/ ManageFailed \/ Another
Spec == Init /\ [][Next]_vars

-----------------------------------------------------------------------------
(* Properties. *)

\* Type correctness.
TypeOK ==
    /\ table \in Tables /\ DOMAIN server \subseteq Items
    /\ \A i \in DOMAIN rows : rows[i].id \in Items
    /\ at.size \in Sizes /\ at.page \in 1..MaxItems
    /\ loading \subseteq {"loading", "searching"} /\ selected \subseteq Items
    /\ Cardinality({<<g.filter, g.page, g.size>> : g \in gets}) = Cardinality(gets)

Quiet == gets = {} /\ act = <<>> /\ view.sure

\* At rest a table shows the page it names, of the size it names, with the
\* states the server has, whatever was asked for and in whichever order the
\* answers came; unless one failed, or the page was changed while a row was.
RowsAreThePage ==
    Quiet =>
        /\ rows = PageOf(view.filter, at.page, at.size)
        /\ loading = {}

\* The tokens' searchMode, which decides what the next page is a page of, says
\* what is shown, unless a search and a load of the whole have overtaken each
\* other.
ModeIsShown == Quiet /\ ~view.mixed /\ table.paging = "shown" => (searchMode <=> view.filter)

\* What is selected for a batch of tokens still exists.
SelectedExist == Quiet /\ table.name = "tokens" => selected \subseteq DOMAIN server
=============================================================================
