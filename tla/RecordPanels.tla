---------------------------- MODULE RecordPanels -----------------------------
(***************************************************************************)
(* The panels that list what belongs to one record and offer operations on *)
(* the rows: a user's subscriptions, a user's bindings, the cache of one   *)
(* affinity key, the usage of a Codex account, a page of the bills, the    *)
(* models without settings, the prefill groups.  The panel stays mounted   *)
(* and is opened for the next record while the answers for the one before  *)
(* are on their way.                                                       *)
(***************************************************************************)
EXTENDS FiniteSets, Integers

CONSTANTS
    MaxOpens,  \* bound: panels opened or turned to another record
    MaxClicks  \* bound: operations

VARIABLES
    panel,    \* which panel: a record of Panels
    server,   \* what each record has: record -> item -> status
    visible,
    of,       \* the record the panel is opened for, 0 before the first one
    rows,     \* what is listed: [of, items]
    memo,     \* the columns: [of, due], the record their handlers close over
    loading,
    seq,      \* requestSeqRef
    gets,     \* GETs on their way: [of, seq, answer]
    act,      \* the operation on its way
    calm,     \* history: nothing crossed a request, failed, or used old columns
    count     \* bound: [opens, clicks]

vars == <<panel, server, visible, of, rows, memo, loading, seq, gets, act, calm, count>>

Records == 1..2
Items == 1..2
Gone == [i \in Items |-> "gone"]

\* records: what it can be opened for.  turns: it goes to another record while
\* it is seen.  numbered: an answer to an earlier request is dropped.  clears: the
\* rows are forgotten on closing.  operations: what the rows offer.  byName: an
\* operation names the record opened, not the row's.  local: afterwards the row
\* is changed in place, else the list is loaded again.  memo: the columns are
\* made anew when the plans arrive, at the first render only, or always.
Panel(name) ==
    [name |-> name, records |-> Records, turns |-> FALSE, numbered |-> FALSE,
     clears |-> FALSE, operations |-> {}, byName |-> FALSE, local |-> FALSE, memo |-> "always"]

UserSubscriptionsModal ==
    [Panel("subscriptions") EXCEPT !.operations = {"ended", "gone"}, !.memo = "plans"]
UserBindingManagementModal ==
    [Panel("bindings") EXCEPT !.operations = {"gone"}, !.byName = TRUE, !.local = TRUE]
ChannelAffinityUsageCacheModal ==
    [Panel("affinity") EXCEPT !.numbered = TRUE, !.clears = TRUE]
CodexUsageLoader == [Panel("codex") EXCEPT !.numbered = TRUE, !.clears = TRUE]
TopupHistoryModal ==
    [Panel("bills") EXCEPT !.turns = TRUE, !.operations = {"ended"}, !.memo = "first"]
MissingModelsModal == [Panel("missing") EXCEPT !.records = {1}, !.clears = TRUE]
PrefillGroupManagement == [Panel("prefill") EXCEPT !.records = {1}, !.operations = {"gone"}]

Panels == {UserSubscriptionsModal, UserBindingManagementModal, ChannelAffinityUsageCacheModal,
           CodexUsageLoader, TopupHistoryModal, MissingModelsModal, PrefillGroupManagement}

Init ==
    /\ panel \in Panels
    /\ server = [r \in Records |-> [i \in Items |-> "active"]]
    /\ visible = FALSE /\ of = 0 /\ rows = [of |-> 0, items |-> Gone]
    /\ memo = [of |-> IF panel.memo = "first" THEN 1 ELSE 0, due |-> FALSE]
    /\ loading = FALSE /\ seq = 0 /\ gets = {} /\ act = <<>>
    /\ calm = TRUE /\ count = [opens |-> 0, clicks |-> 0]

-----------------------------------------------------------------------------
(* Loading. *)

\* A GET of the same address joins the one on its way, unless it asks not to.
Load(r, n) ==
    IF ~panel.numbered /\ \E g \in gets : g.of = r
    THEN gets
    ELSE gets \union {[of |-> r, seq |-> n, answer |-> <<>>]}

Quiet == gets = {} /\ act = <<>>

Open ==
    /\ ~visible /\ count.opens < MaxOpens /\ count' = [count EXCEPT !.opens = @ + 1]
    /\ visible' = TRUE
    /\ of' \in IF panel.turns /\ of # 0 THEN {of}
               ELSE IF panel.turns THEN {1} ELSE panel.records
    /\ seq' = seq + 1
    /\ gets' = Load(of', seq')
    /\ loading' = TRUE
    /\ memo' = [memo EXCEPT !.due = panel.memo = "plans"]
    /\ calm' = (calm /\ Quiet)
    /\ UNCHANGED <<panel, server, rows, act>>

\* The effect on the page, its size and the word searched for.
Turn ==
    /\ visible /\ panel.turns /\ count.opens < MaxOpens
    /\ count' = [count EXCEPT !.opens = @ + 1]
    /\ of' \in panel.records \ {of}
    /\ gets' = Load(of', seq)
    /\ loading' = TRUE
    /\ calm' = (calm /\ Quiet)
    /\ UNCHANGED <<panel, server, visible, rows, memo, seq, act>>

Close ==
    /\ visible /\ visible' = FALSE
    /\ seq' = seq + 1
    /\ rows' = IF panel.clears THEN [of |-> 0, items |-> Gone] ELSE rows
    /\ loading' = (loading /\ ~panel.numbered)
    /\ UNCHANGED <<panel, server, of, memo, gets, act, calm, count>>

Answered ==
    /\ \E g \in gets :
        /\ g.answer = <<>>
        /\ gets' = (gets \ {g}) \union {[g EXCEPT !.answer = <<server[g.of]>>]}
    /\ UNCHANGED <<panel, server, visible, of, rows, memo, loading, seq, act, calm, count>>

Current(g) == panel.numbered => g.seq = seq

\* An answer is listed, whichever record it is about.
Loaded ==
    /\ \E g \in gets :
        /\ g.answer # <<>> /\ gets' = gets \ {g}
        /\ rows' = IF Current(g) THEN [of |-> g.of, items |-> g.answer[1]] ELSE rows
        /\ loading' = (loading /\ ~Current(g))
    /\ UNCHANGED <<panel, server, visible, of, memo, seq, act, calm, count>>

LoadFailed ==
    /\ \E g \in gets :
        /\ gets' = gets \ {g}
        /\ rows' = IF Current(g) /\ panel.numbered THEN [of |-> 0, items |-> Gone] ELSE rows
        /\ loading' = (loading /\ ~Current(g))
    /\ calm' = FALSE
    /\ UNCHANGED <<panel, server, visible, of, memo, seq, act, count>>

\* loadPlans: the titles of the plans are new, and with them the columns.
PlansLoaded ==
    /\ memo.due
    /\ memo' \in {[of |-> of, due |-> FALSE], [memo EXCEPT !.due = FALSE]}
    /\ UNCHANGED <<panel, server, visible, of, rows, loading, seq, gets, act, calm, count>>

-----------------------------------------------------------------------------
(* Operations. *)

\* What is listed, and what a row of it offers: what is active can be ended,
\* anything deleted.
Listed == {i \in Items : rows.items[i] # "gone"}
Offered(i) ==
    {o \in panel.operations : rows.items[i] = "active" \/ (o = "gone" /\ rows.items[i] = "ended")}

\* The record whose list a handler of the columns loads again.
Closure == IF panel.memo = "always" THEN of ELSE memo.of

\* The list is covered while it loads.
Usable == visible /\ ~loading /\ rows.of # 0

Target == IF panel.byName THEN of ELSE rows.of

Click ==
    /\ Usable /\ act = <<>>
    /\ count.clicks < MaxClicks /\ count' = [count EXCEPT !.clicks = @ + 1]
    /\ \E i \in Listed : \E o \in Offered(i) :
        act' = <<[item |-> i, to |-> o, of |-> Target, shown |-> rows.of, again |-> Closure]>>
    /\ calm' = (calm /\ gets = {} /\ Closure = of)
    /\ UNCHANGED <<panel, server, visible, of, rows, memo, loading, seq, gets>>

Operated == [server EXCEPT ![act[1].of][act[1].item] = act[1].to]

\* The list of the record the handler closed over, if there was one.
Done ==
    /\ act # <<>> /\ act' = <<>>
    /\ server' = Operated
    /\ IF panel.local
       THEN /\ rows' = [rows EXCEPT !.items[act[1].item] = "gone"]
            /\ UNCHANGED <<gets, loading>>
       ELSE /\ gets' = IF act[1].again = 0 THEN gets ELSE Load(act[1].again, seq)
            /\ loading' = (loading \/ act[1].again # 0)
            /\ UNCHANGED rows
    /\ UNCHANGED <<panel, visible, of, memo, seq, calm, count>>

Failed ==
    /\ act # <<>> /\ act' = <<>>
    /\ \/ UNCHANGED <<server, calm>>
       \/ server' = Operated /\ calm' = FALSE
    /\ UNCHANGED <<panel, visible, of, rows, memo, loading, seq, gets, count>>

Next == Open \/ Turn \/ Close \/ Answered \/ Loaded \/ LoadFailed \/ PlansLoaded
        \/ Click \/ Done \/ Failed
Spec == Init /\ [][Next]_vars

-----------------------------------------------------------------------------
(* Properties. *)

\* Type correctness.
TypeOK ==
    /\ panel \in Panels
    /\ {visible, loading, calm, memo.due} \subseteq BOOLEAN
    /\ {of, rows.of, memo.of} \subseteq Records \union {0}
    /\ rows.items \in [Items -> {"active", "ended", "gone"}]
    /\ \A g \in gets : g.of \in panel.records

\* What is listed belongs to the record the panel was opened for, unless a
\* request was crossed or failed; where the requests are numbered, always.
ListsItsRecord ==
    visible /\ ~loading /\ rows.of # 0 /\ (calm \/ panel.numbered) => rows.of = of

\* An operation reaches the record whose row was clicked: a user's bindings,
\* which are named by their kind, only if nothing was crossed.
HitsItsRow == act # <<>> /\ (calm \/ ~panel.byName) => act[1].of = act[1].shown

\* At rest the panel lists what the server has.
ListsTheServer ==
    calm /\ visible /\ Quiet /\ rows.of # 0 => rows.items = server[rows.of]
=============================================================================
