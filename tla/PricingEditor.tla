---------------------------- MODULE PricingEditor -----------------------------
(***************************************************************************)
(* The price editor of the rate settings (useModelPricingEditorState,      *)
(* ModelPricingEditor): the saved ratios of a model are edited as prices,  *)
(* in a tab of all models (ModelSettingsVisualEditor) and in a tab of the  *)
(* models without a price (ModelRationNotSetEditor).  Both list only the   *)
(* models of enabled channels, and a save writes each option as a whole.   *)
(***************************************************************************)
EXTENDS Integers, FiniteSets

CONSTANTS
    MaxClicks,  \* bound: operations
    MaxOthers   \* bound: saves of another form of the page

VARIABLES
    tab,       \* filterMode
    server,    \* the saved options, by model
    options,   \* the options the page was given
    models,    \* the models being edited
    listed,    \* initialVisibleModelNames
    selected,  \* selectedModelName
    chosen,    \* selectedModelNames
    toggles,   \* optionalFieldToggles
    put,       \* the PUTs on their way: the options, by model
    edited,    \* models edited since they were built
    count

vars == <<tab, server, options, models, listed, selected, chosen, toggles, put, edited, count>>

(* n's completion ratio is fixed by the backend; z is on no enabled channel. *)
Candidates == {"m", "n"}
Names == Candidates \union {"z"}
Locked(name) == name = "n"
LockedRatio == 32

(* Ratios are in units of 1/16, so that prices divide without a rest. *)
Scale == 16
None == -1
Priced(v) == v # None
Times(price, ratio) == IF Priced(price) /\ Priced(ratio) THEN (price * ratio) \div Scale ELSE None
Over(price, base) == IF Priced(price) /\ base > 0 THEN (price * Scale) \div base ELSE None

Fields == {"completion", "cache", "audio", "audioOut"}
Options == Fields \union {"price", "ratio"}
Blank == [o \in Options |-> None]
ByRatio == [Blank EXCEPT !["ratio"] = Scale, !["completion"] = 32, !["audio"] = 16, !["audioOut"] = 32]
Saved == {Blank, ByRatio, [Blank EXCEPT !["price"] = 4], [ByRatio EXCEPT !["price"] = 4],
          [ByRatio EXCEPT !["ratio"] = None]}

-----------------------------------------------------------------------------
(* From options to prices and back. *)

\* buildModelState.
buildModelState(name, saved) ==
    LET input == IF Priced(saved["ratio"]) THEN (saved["ratio"] * 2) \div Scale ELSE None
        audio == Times(input, saved["audio"])
    IN  [mode |-> IF Priced(saved["price"]) THEN "per-request" ELSE "per-token",
         price |-> saved["price"], input |-> input, raw |-> saved,
         of |-> [f \in Fields |->
            CASE f = "completion" /\ Locked(name) -> Times(input, LockedRatio)
              [] f = "audioOut" -> Times(audio, saved["audioOut"])
              [] OTHER -> Times(input, saved[f])]]

isBasePricingUnset(model) == ~Priced(model.price) /\ ~Priced(model.input)
hasConflict(model) == Priced(model.price) /\ \E o \in Options \ {"price"} : Priced(model.raw[o])

buildOptionalFieldToggles(name, model) ==
    [f \in Fields |-> Priced(model.of[f]) \/ (f = "completion" /\ Locked(name))]

\* serializeModel: the error, and the options.
Sendable(model) ==
    model.mode = "per-token" =>
        /\ ~Priced(model.input) => \A f \in Fields : ~Priced(model.of[f])
        /\ Priced(model.of["audioOut"]) => model.of["audio"] > 0
serializeModel(name, model) ==
    IF model.mode = "per-request" THEN [Blank EXCEPT !["price"] = model.price]
    ELSE IF ~Priced(model.input) THEN [model.raw EXCEPT !["price"] = None]
    ELSE [o \in Options |->
            CASE o = "price" -> None
              [] o = "ratio" -> (model.input * Scale) \div 2
              [] o = "completion" /\ Locked(name) -> model.raw["completion"]
              [] o = "audioOut" -> Over(model.of["audioOut"], model.of["audio"])
              [] OTHER -> Over(model.of[o], model.input)]

\* getModelWarnings, of what cannot be saved.
getModelWarnings(model) ==
    model.mode = "per-token" =>
        \/ ~Priced(model.input) /\ \E f \in Fields : Priced(model.of[f])
        \/ Priced(model.of["audioOut"]) /\ ~Priced(model.of["audio"])

\* buildPreviewRows: what the page says the save will write.
buildPreviewRows(name, model) ==
    IF model.mode = "per-request" THEN [o \in {"price"} |-> model.price]
    ELSE IF ~Priced(model.input) THEN [o \in Options \ {"price"} |-> model.raw[o]]
    ELSE [o \in Options \ {"price"} |->
            CASE o = "ratio" -> (model.input * Scale) \div 2
              [] o = "completion" /\ Locked(name) -> LockedRatio
              [] o = "audioOut" -> Over(model.of["audioOut"], model.of["audio"])
              [] OTHER -> Over(model.of[o], model.input)]

-----------------------------------------------------------------------------

visibleModels == IF tab = "unset" THEN DOMAIN models \intersect listed ELSE DOMAIN models
First(names) == IF "m" \in names THEN "m" ELSE IF "n" \in names THEN "n" ELSE ""

\* The effect on options and candidates builds every model again.
Build(names, saved) ==
    LET built == [x \in names |-> buildModelState(x, saved[x])]
        shown == {x \in names : tab = "unset" => isBasePricingUnset(built[x])}
    IN  /\ models' = built /\ listed' = shown
        /\ toggles' = [x \in names |-> buildOptionalFieldToggles(x, built[x])]
        /\ selected' = IF selected \in shown THEN selected ELSE First(shown)
        /\ chosen' = chosen \intersect shown
        /\ edited' = {}

Init ==
    /\ tab \in {"all", "unset"}
    /\ \E m \in Saved, n \in {Blank, ByRatio} :
        server = [x \in Names |-> IF x = "m" THEN m ELSE IF x = "n" THEN n ELSE ByRatio]
    /\ options = server
    /\ models = <<>> /\ listed = {} /\ selected = "" /\ chosen = {} /\ toggles = <<>>
    /\ put = <<>> /\ edited = {} /\ count = [clicks |-> 0, others |-> 0]

\* The models of enabled channels have arrived; they may come late, or never.
LoadEnabledModels ==
    /\ DOMAIN models = {} /\ count.clicks = 0 /\ put = <<>>
    /\ Build(Candidates, options)
    /\ UNCHANGED <<tab, server, options, put, count>>

\* A form of the page has saved and refreshes the options of all of them.
Refresh ==
    /\ put = <<>> /\ options # server
    /\ options' = server
    /\ Build(DOMAIN models, server)
    /\ UNCHANGED <<tab, server, put, count>>

Clicked ==
    /\ count.clicks < MaxClicks
    /\ count' = [count EXCEPT !.clicks = @ + 1]
    /\ UNCHANGED <<tab, server, options, listed>>
Selected == selected \in visibleModels
Model == models[selected]
Edit(model) ==
    /\ models' = [models EXCEPT ![selected] = model]
    /\ edited' = edited \union {selected}

\* A row is clicked, or the boxes of the other rows.
Choose ==
    /\ Clicked
    /\ \/ selected' \in visibleModels \ {selected} /\ UNCHANGED chosen
       \/ Selected /\ chosen' = visibleModels \ {selected} /\ chosen' # chosen /\ UNCHANGED selected
    /\ UNCHANGED <<models, toggles, put, edited>>

\* fillDerivedPricesFromBase: only a price that is empty is filled in.
fillDerivedPricesFromBase(model, base) ==
    [model EXCEPT !.input = base, !.of = [f \in Fields |->
        CASE ~Priced(base) -> model.of[f]
          [] f = "completion" /\ Locked(selected) -> Times(base, LockedRatio)
          [] Priced(model.of[f]) -> model.of[f]
          [] f = "audioOut" -> Times(Times(base, model.raw["audio"]), model.raw["audioOut"])
          [] OTHER -> Times(base, model.raw[f])]]

\* The inputs of the two cards that are shown and enabled.
Open(f, base) == toggles[selected][f] /\ Priced(base)
BasePrices == {f \in {"completion", "cache"} :
    Open(f, Model.input) /\ ~(f = "completion" /\ Locked(selected))}
ExtendedPrices == {f \in {"audio", "audioOut"} :
    Open(f, IF f = "audioOut" THEN Model.of["audio"] ELSE Model.input)}

\* handleNumericFieldChange, for the inputs that are shown and enabled.
handleNumericFieldChange ==
    /\ Selected /\ Clicked
    /\ \/ /\ Model.mode = "per-request"
          /\ \E v \in {None, 2} : Edit([Model EXCEPT !.price = v])
       \/ /\ Model.mode = "per-token"
          /\ \E v \in {None, 0, 2, 4} : Edit(fillDerivedPricesFromBase(Model, v))
       \/ /\ Model.mode = "per-token"
          /\ \E f \in BasePrices \union ExtendedPrices, v \in {None, 4} :
                Edit([Model EXCEPT !.of[f] = v])
    /\ UNCHANGED <<selected, chosen, toggles, put>>

\* handleOptionalFieldToggle: off empties the price, audio also its completion.
handleOptionalFieldToggle ==
    /\ Selected /\ Model.mode = "per-token" /\ Clicked
    /\ \E f \in Fields :
        /\ ~(f = "completion" /\ Locked(selected))
        /\ f = "audioOut" => toggles[selected]["audio"]
        /\ LET off == IF f = "audio" THEN {"audio", "audioOut"} ELSE {f}
           IN  IF toggles[selected][f]
               THEN /\ toggles' = [toggles EXCEPT ![selected] =
                            [g \in Fields |-> g \notin off /\ @[g]]]
                    /\ Edit([Model EXCEPT !.of = [g \in Fields |-> IF g \in off THEN None ELSE @[g]]])
               ELSE toggles' = [toggles EXCEPT ![selected][f] = TRUE] /\ UNCHANGED <<models, edited>>
    /\ UNCHANGED <<selected, chosen, put>>

handleBillingModeChange ==
    /\ Selected /\ Clicked
    /\ \E mode \in {"per-token", "per-request"} \ {Model.mode} : Edit([Model EXCEPT !.mode = mode])
    /\ UNCHANGED <<selected, chosen, toggles, put>>

deleteModel ==
    /\ tab = "all" /\ Clicked
    /\ \E x \in visibleModels :
        LET rest == DOMAIN models \ {x}
        IN  /\ models' = [y \in rest |-> models[y]]
            /\ toggles' = [y \in rest |-> toggles[y]]
            /\ chosen' = chosen \ {x}
            /\ selected' = IF selected = x THEN First(rest) ELSE selected
    /\ UNCHANGED <<put, edited>>

\* applySelectedModelPricing: the prices of the selected model to the chosen.
applySelectedModelPricing ==
    /\ Selected /\ chosen # {} /\ Clicked
    /\ models' = [x \in DOMAIN models |->
        IF x \notin chosen THEN models[x]
        ELSE [Model EXCEPT
                !.raw = models[x].raw,
                !.of["completion"] =
                    IF Model.mode = "per-token" /\ Locked(x) /\ Priced(Model.input)
                    THEN Times(Model.input, LockedRatio) ELSE @]]
    /\ toggles' = [x \in DOMAIN models |->
        IF x \notin chosen THEN toggles[x]
        ELSE [toggles[selected] EXCEPT
                !["completion"] = @ \/ Locked(x), !["audioOut"] = @ /\ toggles[selected]["audio"]]]
    /\ edited' = edited \union chosen
    /\ UNCHANGED <<selected, chosen, put>>

\* handleSubmit: every option, made of the visible models alone.
Output == [x \in Names |-> IF x \in visibleModels THEN serializeModel(x, models[x]) ELSE Blank]
handleSubmit ==
    /\ put = <<>> /\ Clicked
    /\ \A x \in visibleModels : Sendable(models[x])
    /\ put' = <<Output>>
    /\ UNCHANGED <<models, selected, chosen, toggles, edited>>

\* Some of the PUTs may fail: the others are written, and nothing is refreshed.
Answered ==
    /\ put # <<>> /\ put' = <<>>
    /\ \E written \in {Options, {}, {"price"}, Options \ {"price"}} :
        /\ server' = [x \in Names |-> [o \in Options |->
                IF o \in written THEN put[1][x][o] ELSE server[x][o]]]
        /\ IF written = Options THEN options' = server' /\ Build(DOMAIN models, server')
           ELSE UNCHANGED <<options, models, listed, selected, chosen, toggles, edited>>
    /\ UNCHANGED <<tab, count>>

\* Another form of the page, or another administrator, saves.
OtherSaves ==
    /\ count.others < MaxOthers
    /\ count' = [count EXCEPT !.others = @ + 1]
    /\ server' = [server EXCEPT !["m"]["ratio"] = 2 * Scale]
    /\ UNCHANGED <<tab, options, models, listed, selected, chosen, toggles, put, edited>>

Next ==
    \/ LoadEnabledModels \/ Refresh \/ handleNumericFieldChange \/ handleOptionalFieldToggle
    \/ handleBillingModeChange \/ deleteModel \/ applySelectedModelPricing \/ handleSubmit
    \/ Answered \/ OtherSaves \/ Choose
Spec == Init /\ [][Next]_vars

-----------------------------------------------------------------------------
(* Properties. *)

\* Type correctness.
TypeOK ==
    /\ tab \in {"all", "unset"}
    /\ DOMAIN models \subseteq Candidates /\ DOMAIN toggles = DOMAIN models
    /\ chosen \subseteq Candidates /\ selected \in Candidates \union {""}
    /\ \A x \in DOMAIN models : \A f \in Fields : models[x].of[f] \in Int

\* The preview shows every option the save writes, the ratio that the backend
\* fixes apart.
PreviewIsSent ==
    \A x \in visibleModels : Sendable(models[x]) =>
        LET rows == buildPreviewRows(x, models[x])
        IN  \A o \in Options :
                IF o = "completion" /\ Locked(x) /\ o \in DOMAIN rows /\ Priced(models[x].input)
                THEN rows[o] = LockedRatio
                ELSE Output[x][o] = IF o \in DOMAIN rows THEN rows[o] ELSE None

\* A model that keeps the page from being saved has a warning, unless its audio
\* input is free.
UnsendableIsWarned ==
    \A x \in visibleModels :
        ~Sendable(models[x]) => getModelWarnings(models[x]) \/ models[x].of["audio"] = 0

\* The prices that are saved are the prices seen when the editor is opened again;
\* a model whose input price was emptied comes back with the ratios it had.
SavedReopens ==
    \A x \in visibleModels : Sendable(models[x]) =>
        LET now == models[x]
            again == buildModelState(x, Output[x])
        IN  IF now.mode = "per-request" THEN again.price = now.price
            ELSE /\ again.input = IF Priced(now.input) THEN now.input
                                  ELSE buildModelState(x, now.raw).input
                 /\ now.input > 0 => again.of = now.of

\* A save writes back the options of a model that was not edited, unless it has
\* a price and ratios, or ratios of what is free or missing.
SentAsGiven ==
    \A x \in visibleModels \ edited :
        LET given == options[x]
        IN  /\ ~hasConflict(models[x])
            /\ given["ratio"] # 0
            /\ Priced(given["ratio"]) /\ Priced(given["audioOut"]) => given["audio"] > 0
            => Output[x] = given
=============================================================================
