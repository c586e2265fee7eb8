----------------------------- MODULE TwinEditors -----------------------------
(***************************************************************************)
(* Editors that show one value as a list of rows and as a JSON text: the   *)
(* chat links (SettingsChats), the rules of the channel affinity           *)
(* (SettingsChannelAffinity) and the key-value editor of the dialogs       *)
(* (JSONEditor).  What is saved is the text; an operation on a row writes  *)
(* it, and a change of the text, or a switch to the rows, reads the rows   *)
(* again.  A row is a name and a value; a rule's id in the text is left    *)
(* out.  The tab loads again whenever one of its forms has saved.          *)
(***************************************************************************)
EXTENDS SequencesExt, Integers

CONSTANTS
    MaxClicks,  \* bound: operations
    MaxOthers   \* bound: saves of another administrator

VARIABLES
    editor,  \* a record of Editors
    server,  \* the saved text
    row,     \* inputsRow: the text that was loaded
    text,    \* inputs, value
    list,    \* rules, chatConfigs, keyValuePairs: the rows, with ids
    mode,    \* editMode, or "crashed"
    shown,   \* manualText: the text that is seen in the text's mode
    modal,   \* the dialog of a row: [id, was, fresh]
    put,     \* the PUT on its way
    count

vars == <<editor, server, row, text, list, mode, shown, modal, put, count>>

Broken == [ok |-> FALSE, items |-> <<>>]
Text(items) == [ok |-> TRUE, items |-> items]
Entry(name, val) == [name |-> name, val |-> val]

\* blocks: a broken text keeps its mode; unique: the dialog wants a new name;
\* anytime: rows can be added from the text's mode; object: a JSON object, whose
\* names are unique and not empty.
Editor(name) == [name |-> name, blocks |-> TRUE, unique |-> FALSE, anytime |-> FALSE, object |-> FALSE]
SettingsChats == [Editor("chats") EXCEPT !.blocks = FALSE, !.unique = TRUE]
SettingsChannelAffinity == [Editor("affinity") EXCEPT !.anytime = TRUE]
JSONEditor == [Editor("pairs") EXCEPT !.object = TRUE]
Editors == {SettingsChats, SettingsChannelAffinity, JSONEditor}

-----------------------------------------------------------------------------
(* From rows to text and back. *)

\* keyValueArrayToObject: of equal names the last value, at the first's place.
keyValueArrayToObject(items) ==
    FoldLeft(LAMBDA object, e :
                IF e.name = "" THEN object
                ELSE IF \E i \in DOMAIN object : object[i].name = e.name
                THEN [i \in DOMAIN object |-> IF object[i].name = e.name THEN e ELSE object[i]]
                ELSE Append(object, e),
             <<>>, items)

\* What JSON.parse makes of the text, JSON.stringify of the rows.
Parsed(t) == IF editor.object THEN keyValueArrayToObject(t.items) ELSE t.items
rulesToJson(rows) ==
    LET items == [i \in DOMAIN rows |-> Entry(rows[i].name, rows[i].val)]
    IN  Text(IF editor.object THEN keyValueArrayToObject(items) ELSE items)
\* parseRulesJson, jsonToConfigs, objectToKeyValueArray: numbered; no rows of a
\* broken text.
parseRulesJson(t) ==
    LET items == Parsed(t)
    IN  [i \in DOMAIN items |-> [id |-> i, name |-> items[i].name, val |-> items[i].val]]

NewId == FoldLeft(LAMBDA m, r : IF r.id > m THEN r.id ELSE m, 0, list) + 1
\* The names that a rule's dialog is given, and the rows that offer their operations.
RuleForm == {"m", "n"}
ruleColumns == IF mode = "visual" THEN DOMAIN list ELSE {}
renderKeyValueEditor == IF editor.object THEN ruleColumns ELSE {}
Row(id, name, val) == [id |-> id, name |-> name, val |-> val]
Has(name) == \E i \in DOMAIN list : list[i].name = name

-----------------------------------------------------------------------------

Init ==
    /\ editor \in Editors
    /\ server \in {Text(<<>>), Text(<<Entry("m", 0), Entry("n", 0)>>)}
    /\ row = server /\ text = server /\ shown = server
    /\ list = parseRulesJson(text)
    /\ mode = "visual" /\ modal = <<>> /\ put = <<>>
    /\ count = [clicks |-> 0, others |-> 0]

Clicked ==
    /\ mode # "crashed" /\ put = <<>>
    /\ count.clicks < MaxClicks
    /\ count' = [count EXCEPT !.clicks = @ + 1]
Stamp == count.clicks + 1

\* updateRulesState, syncConfigsToJson, handleVisualChange.  In visual mode the
\* effect on the text then reads the rows again; the key-value editor only if
\* they say something else.
updateRulesState(rows) ==
    /\ text' = rulesToJson(rows)
    /\ list' = IF editor.object \/ mode = "text" THEN rows ELSE parseRulesJson(rulesToJson(rows))
    /\ shown' = rulesToJson(rows)
    /\ UNCHANGED <<editor, server, row, mode, put>>

\* handleAddConfig, openAddModal, handleEditRule.
OpenModal ==
    /\ ~editor.object /\ Clicked /\ modal = <<>>
    /\ \/ /\ mode = "visual" \/ editor.anytime
          /\ modal' = <<[id |-> 0, was |-> "", fresh |-> TRUE]>>
       \/ \E i \in ruleColumns :
             modal' = <<[id |-> list[i].id, was |-> list[i].name, fresh |-> TRUE]>>
    /\ UNCHANGED <<editor, server, row, text, list, mode, shown, put>>

\* handleModalOk: the row with the id, if there still is one.
handleModalOk ==
    /\ editor = SettingsChats /\ modal # <<>> /\ Clicked /\ modal' = <<>>
    /\ \E name \in RuleForm :
        /\ \A i \in DOMAIN list : list[i].name = name => modal[1].id = list[i].id
        /\ updateRulesState(
            IF modal[1].id = 0 THEN Append(list, Row(NewId, name, Stamp))
            ELSE [i \in DOMAIN list |->
                    IF list[i].id = modal[1].id THEN Row(list[i].id, name, Stamp) ELSE list[i]])

\* handleModalSave: the rule with the id, otherwise the first with the old name.
handleModalSave ==
    /\ editor = SettingsChannelAffinity /\ modal # <<>> /\ Clicked /\ modal' = <<>>
    /\ \E name \in RuleForm :
        LET here == {i \in DOMAIN list : list[i].id = modal[1].id}
            named == {i \in DOMAIN list : list[i].name = modal[1].was}
            idx == IF here # {} THEN CHOOSE i \in here : TRUE
                   ELSE CHOOSE i \in named : \A j \in named : i <= j
        IN  IF modal[1].id = 0
            THEN updateRulesState(Append(list, Row(NewId, name, Stamp)))
            ELSE /\ here \union named # {}
                 /\ updateRulesState([list EXCEPT ![idx] = Row(list[idx].id, name, Stamp)])

Cancel ==
    /\ modal # <<>> /\ modal' = <<>>
    /\ UNCHANGED <<editor, server, row, text, list, mode, shown, put, count>>

\* handleDeleteRule, handleDeleteConfig, removeKeyValue.
without(id) == SelectSeq(list, LAMBDA r : r.id # id)
handleDeleteRule ==
    /\ modal = <<>> /\ Clicked
    /\ \E i \in ruleColumns : updateRulesState(without(list[i].id))
    /\ UNCHANGED modal

\* addTemplates adds what is missing, appendCodexAndClaudeCodeTemplates all of it
\* under new names, fillTemplate puts it in the place of the rows.
addTemplates ==
    /\ mode = "visual" \/ editor.anytime \/ editor.object
    /\ modal = <<>> /\ Clicked /\ UNCHANGED modal
    /\ CASE editor = SettingsChats ->
            ~Has("t") /\ updateRulesState(Append(list, Row(NewId, "t", 0)))
         [] editor = SettingsChannelAffinity ->
            updateRulesState(Append(list, Row(NewId, IF Has("t") THEN "t-2" ELSE "t", 0)))
         [] editor = JSONEditor ->
            updateRulesState(<<Row(1, "t", 0)>>)

\* addKeyValue, updateKey, updateValue.
EditPair ==
    /\ editor.object /\ mode = "visual" /\ Clicked /\ UNCHANGED modal
    /\ \/ updateRulesState(Append(list, Row(NewId, IF Has("m") THEN "f" ELSE "m", 0)))
       \/ \E i \in renderKeyValueEditor, name \in RuleForm \union {""} :
            name # list[i].name /\ updateRulesState([list EXCEPT ![i].name = name])
       \/ \E i \in renderKeyValueEditor : updateRulesState([list EXCEPT ![i].val = Stamp])

\* switchToJsonMode writes the text from the rows; switchToVisualMode,
\* toggleEditMode and the RadioGroup of the chats read them from it.
SwitchMode ==
    /\ modal = <<>> /\ Clicked
    /\ \/ /\ mode = "visual" /\ mode' = "text"
          /\ text' = IF editor.anytime THEN rulesToJson(list) ELSE text
          /\ shown' = text'
          /\ UNCHANGED list
       \/ /\ mode = "text" /\ mode' = "visual"
          /\ editor.blocks => shown.ok
          /\ list' = parseRulesJson(shown)
          /\ UNCHANGED <<text, shown>>
    /\ UNCHANGED <<editor, server, row, modal, put>>

\* The user types in the text.  handleManualChange keeps a broken one to itself.
Typed ==
    /\ mode = "text" /\ modal = <<>> /\ Clicked
    /\ \E new \in {Broken, Text(<<>>), Text(<<Entry("m", Stamp)>>),
                   Text(<<Entry("n", Stamp), Entry("m", 0)>>),
                   Text(<<Entry("m", 0), Entry("m", Stamp)>>)} :
        /\ shown' = new
        /\ text' = IF editor.object /\ ~new.ok THEN text ELSE new
        /\ list' = IF editor.object /\ new.ok THEN parseRulesJson(new) ELSE list
    /\ UNCHANGED <<editor, server, row, mode, modal, put>>

\* onSubmit: what has changed; the chats are looked at only in the text's mode.
Sendable == text.ok \/ (editor = SettingsChats /\ mode = "visual")
onSubmit ==
    /\ modal = <<>> /\ Clicked
    /\ text # row /\ Sendable
    /\ put' = <<text>>
    /\ UNCHANGED <<editor, server, row, text, list, mode, shown, modal>>

\* UpdateOption writes the option before it looks at it: a refused text is
\* stored too.  A refusal leaves the form as it is; otherwise the tab loads.
Saved ==
    /\ put # <<>> /\ put' = <<>>
    /\ server' = put[1]
    /\ UNCHANGED <<editor, row, text, list, mode, shown, modal, count>>
SaveFailed ==
    /\ put # <<>> /\ put' = <<>>
    /\ UNCHANGED <<editor, server, row, text, list, mode, shown, modal, count>>

\* The tab has loaded, after a save of this form or of another one: the chats
\* parse what they are given.  The dialog of the pairs is opened again.
Loaded ==
    /\ put = <<>>
    /\ row' = server /\ text' = server /\ shown' = server
    /\ list' = parseRulesJson(server)
    /\ mode' = CASE editor = SettingsChats /\ ~server.ok -> "crashed"
                 [] editor = JSONEditor -> "visual"
                 [] OTHER -> mode
    /\ modal' = IF modal # <<>> /\ list' # list THEN <<[modal[1] EXCEPT !.fresh = FALSE]>> ELSE modal
    /\ UNCHANGED <<editor, server, put, count>>

OtherSaves ==
    /\ count.others < MaxOthers
    /\ count' = [count EXCEPT !.others = @ + 1]
    /\ server' = Text(<<Entry("n", 9)>>)
    /\ UNCHANGED <<editor, row, text, list, mode, shown, modal, put>>

Next == OpenModal \/ handleModalOk \/ handleModalSave \/ Cancel \/ handleDeleteRule \/ addTemplates
        \/ EditPair \/ SwitchMode \/ Typed \/ onSubmit \/ Saved \/ SaveFailed \/ Loaded \/ OtherSaves
Spec == Init /\ [][Next]_vars

-----------------------------------------------------------------------------
(* Properties. *)

\* Type correctness.
TypeOK ==
    /\ editor \in Editors /\ mode \in {"visual", "text", "crashed"}
    /\ \A t \in {server, row, text, shown} : ~t.ok => t = Broken
    /\ Cardinality({list[i].id : i \in DOMAIN list}) = Len(list)

\* The rows that are seen say what is saved; only the chats show no rows for a
\* text that is broken.
TwinsAgree ==
    mode = "visual" =>
        /\ text.ok \/ (editor = SettingsChats /\ list = <<>>)
        /\ text.ok => rulesToJson(list).items = Parsed(text)

\* What is saved can be read again; the chats write a broken text that was typed
\* and then left for the rows.
SavedIsRead == server.ok \/ editor = SettingsChats

\* An operation on a row of a readable list keeps every other row, unless the
\* template takes their place, or the rows were read again since its dialog was
\* opened.
OthersKept ==
    /\ mode = "visual" /\ text.ok /\ count'.clicks > count.clicks /\ mode' = "visual"
    /\ ~(editor.object /\ \E i \in DOMAIN list' : list'[i].name = "t")
    /\ modal # <<>> => modal[1].fresh
    =>
    \A i \in DOMAIN list :
        \/ \E j \in DOMAIN list' : [list'[j] EXCEPT !.id = list[i].id] = list[i]
        \/ /\ modal # <<>> => modal[1].id = list[i].id
           /\ \A k \in DOMAIN list \ {i} : \E j \in DOMAIN list' :
                [list'[j] EXCEPT !.id = list[k].id] = list[k]
=============================================================================
