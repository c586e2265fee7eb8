--------------------------- MODULE ParamOverride ----------------------------
(***************************************************************************)
(* The editor of a channel's parameter override                            *)
(* (channels/modals/ParamOverrideEditorModal.jsx): one value, edited as a  *)
(* list of operations, as an object of the old format, or as JSON text,    *)
(* each with a state of its own that the other two do not follow.          *)
(***************************************************************************)
EXTENDS Naturals, SequencesExt

CONSTANTS
    MaxOperations,  \* bound: operations in the list
    MaxEdits        \* bound: openings, changes of the view and edits

VARIABLES
    override,    \* the channel's value
    written,     \* it was saved from the list of operations
    open,        \* the editor is open
    editMode, visualMode,
    legacy,      \* the text of the old format
    operations,  \* the list
    selected,    \* selectedOperationId
    jsonText,
    nextId,      \* localIdSeed
    edits

vars == <<override, written, open, editMode, visualMode, legacy, operations, selected,
           jsonText, nextId, edits>>

(* A text that is typed for a value, and the value it is read as: text that   *)
(* is JSON becomes what it says, so a string of digits has to be quoted.      *)
Texts == {"", "text", "5", "quoted 5"}
toValueText(value) == CASE value = "string" -> "text" [] value \in {"number", "digits"} -> "5"
                        [] OTHER -> ""
parseLooseValue(text) == CASE text = "text" -> "string" [] text = "5" -> "number"
                           [] text = "quoted 5" -> "digits" [] OTHER -> "empty"

\* What an operation of each mode needs: MODE_META and the sets next to it.
Modes == {"set", "delete", "trim_prefix", "replace", "copy_header"}
Path  == {"set", "delete", "trim_prefix", "replace"}
From  == {"replace", "copy_header"}
To    == {"copy_header"}
Value == {"set", "trim_prefix"}
KeepOrigin == {"set", "copy_header"}
ValueRequired == {"trim_prefix"}

\* An operation in the list; conditions are texts, "" one without a path.
Operation(id, mode, fields, text, keep, conditions) ==
    [id |-> id, mode |-> mode, fields |-> fields, text |-> text, keep |-> keep,
     conditions |-> conditions]
createDefaultOperation(id) == Operation(id, "set", {}, "", FALSE, <<>>)

\* The values a channel has: nothing, JSON that is no object, an object of the
\* old format, and operations.
Empty  == [kind |-> "empty"]
Broken == [kind |-> "broken"]
Array  == [kind |-> "array"]
Legacy(keys) == [kind |-> "legacy", keys |-> keys]
Rules(ops) == [kind |-> "operations", ops |-> ops]
Rule(mode, fields, value, keep, conditions) ==
    [mode |-> mode, fields |-> fields, value |-> value, keep |-> keep, conditions |-> conditions]

SetRule == Rule("set", {"path"}, "number", FALSE, <<"5">>)
LegacyTemplate == Legacy({"temperature"})
RulesTemplate  == Rules(<<SetRule>>)
Stored == {Empty, Broken, Array, Legacy({"max_tokens"}), RulesTemplate,
           Rules(<<Rule("unknown", {"path"}, "digits", FALSE, <<>>), SetRule>>)}

-----------------------------------------------------------------------------
(* From rules to the list and back. *)

\* normalizeOperation: a mode that is not known becomes "set".
normalizeOperation(rule, id) ==
    Operation(id, IF rule.mode \in Modes THEN rule.mode ELSE "set", rule.fields,
              toValueText(rule.value), rule.keep,
              [i \in DOMAIN rule.conditions |-> rule.conditions[i]])

Normalized(rules, id) == [i \in DOMAIN rules |-> normalizeOperation(rules[i], id + i - 1)]

isOperationBlank(op) ==
    op.mode = "set" /\ op.fields = {} /\ op.text = "" /\ ~op.keep
    /\ \A i \in DOMAIN op.conditions : op.conditions[i] = ""

\* validateOperations.
Valid(op) ==
    /\ op.mode \in Path => "path" \in op.fields
    /\ op.mode \in From => "from" \in op.fields
    /\ op.mode \in To => "to" \in op.fields
    /\ op.mode \in ValueRequired => op.text # ""

\* buildConditionPayload: a condition without a path is left out.
Conditions(op) == SelectSeq(op.conditions, LAMBDA c : c # "")

\* buildOperationsJson: each operation with the fields of its mode.
Payload(op) ==
    Rule(op.mode,
         (op.fields \intersect
            ((IF op.mode \in Path THEN {"path"} ELSE {}) \union
             (IF op.mode \in From THEN {"from"} ELSE {}) \union {"to"}))
         \union (IF op.mode = "copy_header" /\ "path" \in op.fields THEN {"from", "to"} ELSE {}),
         IF op.mode \in Value THEN parseLooseValue(op.text) ELSE "absent",
         op.mode \in KeepOrigin /\ op.keep, Conditions(op))

NotBlank(ops) == SelectSeq(ops, LAMBDA op : ~isOperationBlank(op))
AllValid(ops) == \A i \in DOMAIN ops : isOperationBlank(ops[i]) \/ Valid(ops[i])

Built(ops) ==
    LET some == NotBlank(ops)
    IN  IF some = <<>> THEN Empty ELSE Rules([i \in DOMAIN some |-> Payload(some[i])])

\* buildVisualJson, or an error.
VisualValid == IF visualMode = "legacy" THEN legacy.kind \in {"empty", "legacy", "operations"}
               ELSE AllValid(operations)
buildVisualJson == IF visualMode = "legacy" THEN legacy ELSE Built(operations)

-----------------------------------------------------------------------------

Count == edits < MaxEdits /\ edits' = edits + 1
Default(id) == <<createDefaultOperation(id)>>
Show(mode, visual, oldText, ops, json, id) ==
    /\ editMode' = mode /\ visualMode' = visual /\ legacy' = oldText /\ operations' = ops
    /\ selected' = ops[1].id /\ jsonText' = json /\ nextId' = id

\* parseInitialState and the way back from JSON text to the list.
Listed(rules) == IF rules = <<>> THEN Default(nextId) ELSE Normalized(rules, nextId)
After(rules) == nextId + (IF rules = <<>> THEN 1 ELSE Len(rules))

Init ==
    /\ override \in Stored /\ written = FALSE /\ open = FALSE
    /\ editMode = "visual" /\ visualMode = "operations" /\ legacy = Empty
    /\ operations = Default(1) /\ selected = 1 /\ jsonText = Empty
    /\ nextId = 2 /\ edits = 0

Open ==
    /\ ~open /\ open' = TRUE /\ Count
    /\ CASE override.kind = "empty" ->
                Show("visual", "operations", Empty, Default(nextId), Empty, nextId + 1)
         [] override.kind \in {"broken", "array"} ->
                Show("json", "operations", Empty, Default(nextId), override, nextId + 1)
         [] override.kind = "operations" ->
                Show("visual", "operations", Empty, Listed(override.ops), override,
                     After(override.ops))
         [] override.kind = "legacy" ->
                Show("visual", "legacy", override, Default(nextId), override, nextId + 1)
    /\ UNCHANGED <<override, written>>

Editing == open /\ UNCHANGED <<override, written, open>>

switchToJsonMode ==
    /\ Editing /\ editMode = "visual"
    /\ editMode' = "json"
    /\ jsonText' = buildVisualJson \* unvalidated when it is not valid
    /\ UNCHANGED <<visualMode, legacy, operations, selected, nextId, edits>>

\* Text that is no object stays where it is.
switchToVisualMode ==
    /\ Editing /\ Count /\ editMode = "json" /\ jsonText.kind \notin {"broken", "array"}
    /\ CASE jsonText.kind = "empty" ->
                Show("visual", "operations", Empty, Default(nextId), jsonText, nextId + 1)
         [] jsonText.kind = "operations" ->
                Show("visual", "operations", Empty, Listed(jsonText.ops), jsonText,
                     After(jsonText.ops))
         [] jsonText.kind = "legacy" ->
                Show("visual", "legacy", jsonText, Default(nextId), jsonText, nextId + 1)

Edit == Editing /\ Count

fillTemplate ==
    /\ Edit
    /\ \/ Show("visual", "legacy", LegacyTemplate, Default(nextId), LegacyTemplate, nextId + 1)
       \/ Show("visual", "operations", legacy, Normalized(RulesTemplate.ops, nextId),
               RulesTemplate, nextId + 1)

\* The old format is merged with the template, if it is what is shown ...
appendLegacyTemplate ==
    /\ Edit
    /\ visualMode = "legacy" => legacy.kind \in {"empty", "legacy"}
    /\ LET keys == LegacyTemplate.keys \union
                   (IF visualMode = "legacy" /\ legacy.kind = "legacy" THEN legacy.keys ELSE {})
       IN  Show("visual", "legacy", Legacy(keys), Default(nextId), Legacy(keys), nextId + 1)

\* ... and so is the list; whatever else there was is dropped, JSON text too.
appendOperationsTemplate ==
    /\ Edit
    /\ LET kept == IF visualMode = "operations" THEN NotBlank(operations) ELSE <<>>
       IN  /\ Len(kept) < MaxOperations
           /\ Show("visual", "operations", Empty, kept \o Normalized(RulesTemplate.ops, nextId),
                   Empty, nextId + 1)

\* clearValue, and back to the list.
resetEditorState ==
    /\ Edit
    /\ Show("visual", "operations", Empty, Default(nextId), Empty, nextId + 1)

InList == editMode = "visual" /\ visualMode = "operations"
Id(i) == operations[i].id
UpdateOnly == UNCHANGED <<editMode, visualMode, legacy, jsonText>>

updateOperation(i) ==
    /\ Edit /\ InList
    /\ \/ \E mode \in Modes : operations' = [operations EXCEPT ![i].mode = mode]
       \/ \E f \in {"path", "from", "to"} :
              operations' = [operations EXCEPT ![i].fields = (@ \union {f}) \ (@ \intersect {f})]
       \/ \E text \in Texts : operations' = [operations EXCEPT ![i].text = text]
       \/ operations' = [operations EXCEPT ![i].keep = ~@]
    /\ UNCHANGED <<selected, nextId>> /\ UpdateOnly

addOperation ==
    /\ Edit /\ InList /\ Len(operations) < MaxOperations
    /\ operations' = Append(operations, createDefaultOperation(nextId))
    /\ selected' = nextId /\ nextId' = nextId + 1
    /\ UpdateOnly

\* A mutant of duplicateOperation: the copy keeps the id.
duplicateOperationSame(i) ==
    /\ Edit /\ InList /\ Len(operations) < MaxOperations
    /\ operations' = InsertAt(operations, i + 1, operations[i])
    /\ UNCHANGED <<selected, nextId>> /\ UpdateOnly

\* The copy is made from values, so digits in quotes lose them.
duplicateOperation(i) ==
    /\ Edit /\ InList /\ Len(operations) < MaxOperations
    /\ operations' = InsertAt(operations, i + 1,
          [operations[i] EXCEPT !.id = nextId, !.text = toValueText(parseLooseValue(@))])
    /\ nextId' = nextId + 1
    /\ UNCHANGED selected /\ UpdateOnly

\* A mutant of removeOperation: the selection stays on what is gone.
removeOperationSelected(i) ==
    /\ Edit /\ InList
    /\ IF Len(operations) = 1 THEN operations' = Default(nextId) /\ nextId' = nextId + 1
       ELSE operations' = RemoveAt(operations, i) /\ UNCHANGED nextId
    /\ UNCHANGED selected /\ UpdateOnly

\* The last one is replaced; an operation that is gone is not selected, the
\* first one is.
removeOperation(i) ==
    /\ Edit /\ InList
    /\ IF Len(operations) = 1 THEN operations' = Default(nextId) /\ nextId' = nextId + 1
       ELSE operations' = RemoveAt(operations, i) /\ UNCHANGED nextId
    /\ selected' = IF \E j \in DOMAIN operations' : operations'[j].id = selected
                   THEN selected ELSE operations'[1].id
    /\ UpdateOnly

\* A mutant of reorderOperations: the place is found before the operation is
\* taken out, and may be one too far.
reorderOperationsEarly(i, j, after) ==
    LET target == IF after THEN j + 1 ELSE j
    IN  [RemoveAt(operations, i) EXCEPT ![IF target > Len(operations) - 1
            THEN Len(operations) - 1 ELSE target] = operations[i]]

\* reorderOperations: before or after the one it is dropped on.
reorderOperations(i, j, after) ==
    LET rest == RemoveAt(operations, i)
        at == CHOOSE k \in DOMAIN rest : rest[k].id = Id(j)
    IN  InsertAt(rest, IF after THEN at + 1 ELSE at, operations[i])

moveOperation(i, j) ==
    /\ Edit /\ InList /\ i # j
    /\ \E after \in BOOLEAN : operations' = reorderOperations(i, j, after)
    /\ selected' = Id(i)
    /\ UNCHANGED nextId /\ UpdateOnly

\* addCondition, updateCondition and removeCondition.
changeConditions(i) ==
    /\ Edit /\ InList
    /\ \E conditions \in {<<>>, <<"">>, <<"5">>} :
          operations' = [operations EXCEPT ![i].conditions = conditions]
    /\ UNCHANGED <<selected, nextId>> /\ UpdateOnly

handleJsonChange ==
    /\ Edit /\ editMode = "json"
    /\ jsonText' \in Stored
    /\ UNCHANGED <<editMode, visualMode, legacy, operations, selected, nextId>>

handleSave ==
    /\ open /\ open' = FALSE
    /\ IF editMode = "json" THEN jsonText.kind # "broken" /\ override' = jsonText
       ELSE VisualValid /\ override' = buildVisualJson
    /\ written' = InList
    /\ UNCHANGED <<editMode, visualMode, legacy, operations, selected, jsonText, nextId, edits>>

onCancel ==
    /\ open /\ open' = FALSE
    /\ UNCHANGED <<override, written, editMode, visualMode, legacy, operations, selected,
                   jsonText, nextId, edits>>

Next ==
    \/ Open \/ switchToJsonMode \/ switchToVisualMode \/ fillTemplate
    \/ appendLegacyTemplate \/ appendOperationsTemplate \/ resetEditorState
    \/ addOperation \/ handleJsonChange \/ handleSave \/ onCancel
    \/ \E i \in DOMAIN operations :
          \/ updateOperation(i) \/ duplicateOperation(i) \/ removeOperation(i)
          \/ changeConditions(i)
          \/ \E j \in DOMAIN operations : moveOperation(i, j)

Spec == Init /\ [][Next]_vars

-----------------------------------------------------------------------------
(* Properties. *)

\* Type correctness, and a selected operation that is in the list.
TypeOK ==
    /\ editMode \in {"visual", "json"} /\ visualMode \in {"operations", "legacy"}
    /\ operations # <<>> /\ \E i \in DOMAIN operations : Id(i) = selected
    /\ \A i \in DOMAIN operations :
          operations[i].mode \in Modes /\ operations[i].fields \subseteq {"path", "from", "to"}
    /\ {open, written} \subseteq BOOLEAN

\* No two operations have one id, whatever is added, copied, moved or loaded:
\* an edit, a drop and a removal find their operation by it.
IdsDiffer == \A i, j \in DOMAIN operations : Id(i) = Id(j) => i = j

Digits(rules) == \E i \in DOMAIN rules : rules[i].value = "digits"

\* What was saved from the list comes back as the same list: opened and saved
\* without an edit it stays as it is, except for digits that were quoted
\* (normalizeOperation against buildOperationsJson).
SavedReopens ==
    (written /\ override.kind = "operations" /\ ~Digits(override.ops)) =>
        LET back == Normalized(override.ops, 1)
        IN  AllValid(back) /\ Built(back) = override

\* Moving an operation changes the order and nothing else.
MoveKeepsAllStep ==
    (\E i, j \in DOMAIN operations : moveOperation(i, j)) =>
        /\ Len(operations') = Len(operations)
        /\ ToSet(operations') = ToSet(operations)

Content == IF editMode = "json" THEN jsonText ELSE buildVisualJson
Read(rule) ==
    [rule EXCEPT !.mode = IF @ \in Modes THEN @ ELSE "set",
                 !.value = IF @ = "digits" THEN "number" ELSE @]
Same(a, b) ==
    \/ a = b
    \/ a.kind = "operations" /\ b.kind = "operations"
       /\ b.ops = [i \in DOMAIN a.ops |-> Read(a.ops[i])]

\* Going between list and text loses nothing of a list that is valid: what would
\* be saved stays, with unknown modes read as "set" and quoted digits as
\* numbers (switchToJsonMode and switchToVisualMode).
SwitchLosesNothingStep ==
    (VisualValid /\ (switchToJsonMode \/ switchToVisualMode)) => Same(Content, Content')
=============================================================================
