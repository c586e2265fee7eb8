---------------------------- MODULE SettingsLists ----------------------------
(***************************************************************************)
(* The lists of the dashboard tab (pages/Setting/Dashboard): questions,    *)
(* API addresses, announcements and monitor groups.  Each is one option,   *)
(* a JSON array; the page edits a copy of it row by row and saves it whole *)
(* with a button that hasChanges enables.  The copy is made again when the *)
(* option the tab holds changes, not whenever the tab loads.               *)
(***************************************************************************)
EXTENDS FiniteSetsExt, Integers, SequencesExt

CONSTANTS
    MaxRows,    \* bound: rows of a list
    MaxRowEdits,   \* bound: what the user does to the rows
    MaxOthers   \* bound: refreshes of other cards, saves of other administrators

VARIABLES
    panel,       \* which list: a record of Panels
    server,      \* the option of the server, a sequence of [id, text]
    given,       \* the option as the tab holds it
    list,        \* faqList, apiInfoList, announcementsList, uptimeGroupsList
    hasChanges,  \* hasChanges
    selected,    \* selectedRowKeys
    modal,       \* the dialog: [show, id, text], of the row it was opened on
    switch,      \* panelEnabled, the option as the tab holds it and the server's; its PUT
    put,         \* loading: the list a PUT takes to the server, in a sequence
    get,         \* the GET of the tab, if one is under way
    sure,        \* history: nothing has come between this page and the server
    count        \* bounds: edits, others

vars == <<panel, server, given, list, hasChanges, selected, modal, switch, put, get, sure, count>>

None == ""
Texts == {"a", "b"}
Odd == "odd"  \* complete, but not a well formed address or slug
NoGet == [on |-> FALSE, list |-> <<>>, enabled |-> <<>>]
Closed == [show |-> "no", id |-> 0, text |-> None]

\* numbered: rows without an id get their position when they are read;
\* wellFormed: the page itself refuses an address that is none.
SettingsFAQ == [name |-> "faq", numbered |-> TRUE, wellFormed |-> FALSE]
SettingsAPIInfo == [name |-> "api_info", numbered |-> FALSE, wellFormed |-> FALSE]
SettingsAnnouncements == [name |-> "announcements", numbered |-> TRUE, wellFormed |-> FALSE]
SettingsUptimeKuma == [name |-> "uptime_kuma_groups", numbered |-> TRUE, wellFormed |-> TRUE]
Panels == {SettingsFAQ, SettingsAPIInfo, SettingsAnnouncements, SettingsUptimeKuma}

\* parseFAQ and its like.
Parsed(value) ==
    IF panel.numbered
    THEN [i \in DOMAIN value |-> [value[i] EXCEPT !.id = IF @ = 0 THEN i ELSE @]]
    ELSE value

Ids == {list[i].id : i \in DOMAIN list}
\* A list of the old console has no ids, or one for every row.
Stored ==
    {<<>>, <<[id |-> 1, text |-> "a"], [id |-> 2, text |-> "a"]>>}
        \union IF panel.numbered THEN {<<[id |-> 0, text |-> "a"], [id |-> 0, text |-> "b"]>>} ELSE {}

Init ==
    /\ panel \in Panels
    /\ server \in Stored /\ given = server
    /\ list = Parsed(given)
    /\ hasChanges = FALSE /\ selected = {} /\ modal = Closed
    /\ switch = [server |-> TRUE, given |-> TRUE, shown |-> TRUE, put |-> <<>>]
    /\ put = <<>> /\ get = NoGet /\ sure = TRUE
    /\ count = [edits |-> 0, others |-> 0]

\* The tab hides its cards behind a spinner while it loads; a dialog that is
\* open is in front of it.
Loading == get.on
Refreshed == [NoGet EXCEPT !.on = TRUE]
Counted(what) ==
    /\ count[what] < IF what = "others" THEN MaxOthers ELSE MaxRowEdits
    /\ count' = [count EXCEPT ![what] = @ + 1]

-----------------------------------------------------------------------------
(* The rows.  They can be changed while a save is on its way. *)

Rows(new) ==
    /\ list' = new /\ hasChanges' = TRUE
    /\ sure' = (sure /\ put = <<>>)

\* handleAdd..., handleEdit..., handleDelete...
Opened ==
    /\ ~Loading /\ modal = Closed
    /\ Counted("edits")
    /\ \/ modal' = [show |-> "new", id |-> 0, text |-> None]
       \/ \E i \in DOMAIN list, show \in {"edit", "delete"} :
            modal' = [show |-> show, id |-> list[i].id, text |-> list[i].text]
    /\ UNCHANGED <<panel, server, given, list, hasChanges, selected, switch, put, get, sure>>

Typed ==
    /\ modal.show \in {"new", "edit"}
    /\ \E v \in Texts \union (IF panel.wellFormed THEN {Odd} ELSE {}) :
        v # modal.text /\ modal' = [modal EXCEPT !.text = v]
    /\ Counted("edits")
    /\ UNCHANGED <<panel, server, given, list, hasChanges, selected, switch, put, get, sure>>

NewId == Max(Ids \union {0}) + 1

\* handleSave...: refused while a field is empty or not well formed.
handleSave ==
    /\ modal.show \in {"new", "edit"} /\ modal.text \notin {None, Odd}
    /\ IF modal.show = "edit"
       THEN Rows([i \in DOMAIN list |->
                     IF list[i].id = modal.id THEN [list[i] EXCEPT !.text = modal.text] ELSE list[i]])
       ELSE Len(list) < MaxRows /\ Rows(Append(list, [id |-> NewId, text |-> modal.text]))
    /\ modal' = Closed
    /\ UNCHANGED <<panel, server, given, selected, switch, put, get, count>>

\* The row goes, its key stays selected if it was.
confirmDelete ==
    /\ modal.show = "delete"
    /\ Rows(SelectSeq(list, LAMBDA r : r.id # modal.id))
    /\ modal' = Closed
    /\ UNCHANGED <<panel, server, given, selected, switch, put, get, count>>

Cancelled ==
    /\ modal # Closed /\ modal' = Closed
    /\ UNCHANGED <<panel, server, given, list, hasChanges, selected, switch, put, get, sure, count>>

rowSelection ==
    /\ ~Loading /\ modal = Closed /\ put = <<>>
    /\ Counted("edits")
    /\ selected' \in {selected \union Ids, {}} \union
          {IF k \in selected THEN selected \ {k} ELSE selected \union {k} : k \in Ids}
    /\ UNCHANGED <<panel, server, given, list, hasChanges, modal, switch, put, get, sure>>

handleBatchDelete ==
    /\ ~Loading /\ modal = Closed /\ selected # {}
    /\ Rows(SelectSeq(list, LAMBDA r : r.id \notin selected))
    /\ selected' = {}
    /\ UNCHANGED <<panel, server, given, modal, switch, put, get, count>>

-----------------------------------------------------------------------------
(* Saving and loading. *)

submit ==
    /\ ~Loading /\ modal = Closed /\ hasChanges /\ put = <<>>
    /\ put' = <<list>>
    /\ UNCHANGED <<panel, server, given, list, hasChanges, selected, modal, switch, get, sure, count>>

\* updateOption shows a refusal and returns; the caller takes the change as saved.
Saved ==
    /\ put # <<>> /\ put' = <<>>
    /\ \E r \in {"ok", "refused", "lost", "broken"} :
        /\ server' = IF r \in {"ok", "broken"} THEN put[1] ELSE server
        /\ hasChanges' = (hasChanges /\ r \in {"lost", "broken"})
        /\ get' = IF r = "ok" /\ ~Loading THEN Refreshed ELSE get
        /\ sure' = (sure /\ r = "ok" /\ ~Loading)
    /\ UNCHANGED <<panel, given, list, selected, modal, switch, count>>

handleToggleEnabled ==
    /\ ~Loading /\ modal = Closed /\ switch.put = <<>>
    /\ Counted("edits")
    /\ switch' = [switch EXCEPT !.put = <<~switch.shown>>]
    /\ UNCHANGED <<panel, server, given, list, hasChanges, selected, modal, put, get, sure>>

Toggled ==
    /\ switch.put # <<>>
    /\ \E r \in {"ok", "refused", "lost", "broken"} :
        /\ switch' = [switch EXCEPT !.server = IF r \in {"ok", "broken"} THEN switch.put[1] ELSE @,
                                    !.shown = IF r = "ok" THEN switch.put[1] ELSE @, !.put = <<>>]
        /\ get' = IF r = "ok" /\ ~Loading THEN Refreshed ELSE get
        /\ sure' = (sure /\ r # "broken" /\ (r = "ok" => ~Loading))
    /\ UNCHANGED <<panel, server, given, list, hasChanges, selected, modal, put, count>>

Sibling ==
    /\ ~Loading /\ Counted("others") /\ get' = Refreshed
    /\ UNCHANGED <<panel, server, given, list, hasChanges, selected, modal, switch, put, sure>>

Another ==
    /\ Counted("others")
    /\ server' \in {<<[id |-> 1, text |-> "b"]>>, <<>>} \ {server}
    /\ sure' = FALSE
    /\ UNCHANGED <<panel, given, list, hasChanges, selected, modal, switch, put, get>>

Asked ==
    /\ get.on /\ get.list = <<>>
    /\ get' = [get EXCEPT !.list = <<server>>, !.enabled = <<switch.server>>]
    /\ UNCHANGED <<panel, server, given, list, hasChanges, selected, modal, switch, put, sure, count>>

\* The effects run only for an option that is not the one the tab held: the
\* rows are read again, whatever hasChanges says.
Loaded ==
    /\ get.list # <<>> /\ get' = NoGet
    /\ \/ /\ given' = get.list[1]
          /\ list' = IF given' = given THEN list ELSE Parsed(given')
          /\ switch' = [switch EXCEPT !.given = get.enabled[1],
                         !.shown = IF get.enabled[1] = switch.given THEN @ ELSE get.enabled[1]]
          /\ UNCHANGED sure
       \/ sure' = FALSE /\ UNCHANGED <<given, list, switch>>
    /\ UNCHANGED <<panel, server, hasChanges, selected, modal, put, count>>

Next == Opened \/ Typed \/ handleSave \/ confirmDelete \/ Cancelled \/ rowSelection
        \/ handleBatchDelete \/ submit \/ Saved \/ handleToggleEnabled \/ Toggled
        \/ Sibling \/ Another \/ Asked \/ Loaded
Spec == Init /\ [][Next]_vars

-----------------------------------------------------------------------------
(* Properties. *)

\* Type correctness.
TypeOK ==
    /\ panel \in Panels /\ Len(list) <= MaxRows /\ Len(server) <= MaxRows
    /\ {hasChanges, sure, switch.server, switch.shown} \subseteq BOOLEAN
    /\ selected \subseteq 0..(MaxRows + MaxRowEdits)
    /\ modal.show \in {"no", "new", "edit", "delete"}

\* No two rows of a list have the same id, by which they are edited, deleted and
\* selected (NewId, Parsed).
IdsDiffer == \A i, j \in DOMAIN list : i # j => list[i].id # list[j].id

\* A page whose save button is off and on which nothing has failed shows what
\* the server has; one that differs from it can be saved.
ShownIsSaved ==
    sure /\ put = <<>> /\ switch.put = <<>> /\ ~Loading => hasChanges \/ list = Parsed(server)

\* The switch shows what the server has.
SwitchIsSaved == sure /\ put = <<>> /\ switch.put = <<>> /\ ~Loading => switch.shown = switch.server
=============================================================================
