----------------------------- MODULE ModelPickers -----------------------------
(***************************************************************************)
(* Where the channel dialog gets model names from (EditChannelModal.jsx):  *)
(* it asks the channel's provider and offers the answer for the list of    *)
(* models or for the target of a redirection, and for an Ollama server it  *)
(* opens a panel that lists, pulls and deletes the models themselves.      *)
(* What was fetched, and a pull, outlive the dialog they began in.         *)
(***************************************************************************)
EXTENDS FiniteSets, Integers

CONSTANTS
    MaxOpens,  \* bound: dialogs and Ollama panels opened
    MaxTries   \* bound: fetches, pulls and deletions

VARIABLES
    provider, \* what each provider has: channel -> models
    editing,  \* the channel of the dialog, 0 when it is closed
    form,     \* [models, target]: the models and the target of a redirection, 0 for none
    fetched,  \* fetchedModels: [of, models]
    gets,     \* requests for models: [of, use, answer]
    picker,   \* which of the three are open
    checked,  \* checkedList
    choice,   \* modelMappingValueModalModels: [of, models]
    listed,   \* what the Ollama panel lists: [of, models, chosen]
    pulls,    \* pulls that go on: [id, of, model, aborted]
    panel,    \* [loading, pulling, handle]: loading, pullLoading, eventSource
    view      \* history: calm, nothing was left behind; bounds: opens, clicks

vars == <<provider, editing, form, fetched, gets, picker, checked, choice, listed, pulls, panel, view>>

Channels == 1..2
Models == 1..3
Nothing == [of |-> 0, models |-> {}]
\* What a provider may have: one model is common to both.
Own(c) == IF c = 1 THEN {1, 2} ELSE {1, 3}
Kept == {1}   \* the models of a channel as it was saved

Init ==
    /\ provider = [c \in Channels |-> Own(c)]
    /\ editing = 0 /\ form = [models |-> {}, target |-> 0]
    /\ fetched = Nothing /\ gets = {} /\ picker = {} /\ checked = {}
    /\ choice = Nothing /\ listed = [of |-> 0, models |-> {}, chosen |-> {}]
    /\ pulls = {} /\ panel = [loading |-> FALSE, pulling |-> FALSE, handle |-> 0]
    /\ view = [calm |-> TRUE, opens |-> 0, clicks |-> 0]

Opened == view.opens < MaxOpens
Clicked == view.clicks < MaxTries /\ view' = [view EXCEPT !.clicks = @ + 1]
Ask(of, use) == gets \union {[of |-> of, use |-> use, answer |-> <<>>]}

Open ==
    /\ editing = 0 /\ Opened /\ editing' \in Channels
    /\ form' = [models |-> Kept, target |-> 0]
    /\ view' = [view EXCEPT !.opens = @ + 1, !.calm = @ /\ gets = {} /\ pulls = {} /\ picker = {}]
    /\ UNCHANGED <<provider, fetched, gets, picker, checked, choice, listed, pulls, panel>>

\* resetModalState keeps what was fetched.
Close ==
    /\ editing # 0 /\ picker = {}
    /\ editing' = 0 /\ form' = [models |-> {}, target |-> 0]
    /\ UNCHANGED <<provider, fetched, gets, picker, checked, choice, listed, pulls, panel, view>>

-----------------------------------------------------------------------------
(* Fetching. *)

\* The form is covered while it waits for an answer.
Free == editing # 0 /\ picker = {} /\ \A g \in gets : g.use = "list"

fetchUpstreamModelList ==
    /\ Free /\ Clicked
    /\ gets' = Ask(editing, "models")
    /\ UNCHANGED <<provider, editing, form, fetched, picker, checked, choice, listed, pulls, panel>>

Answered ==
    /\ \E g \in gets :
        /\ g.answer = <<>>
        /\ gets' = (gets \ {g}) \union {[g EXCEPT !.answer = <<provider[g.of]>>]}
    /\ UNCHANGED <<provider, editing, form, fetched, picker, checked, choice, listed, pulls, panel, view>>

\* The picker starts with the models of the form; the targets are offered if
\* there are any.
Fetched ==
    /\ \E g \in gets :
        /\ g.answer # <<>> /\ g.use # "list" /\ gets' = gets \ {g}
        /\ fetched' = [of |-> g.of, models |-> g.answer[1]]
        /\ picker' = picker \union (IF g.use = "models" \/ (g.use = "target" /\ g.answer[1] # {})
                                    THEN {g.use} ELSE {})
        /\ checked' = IF g.use = "models" THEN form.models ELSE checked
        /\ choice' = IF g.use = "target" /\ g.answer[1] # {} THEN fetched' ELSE choice
    /\ UNCHANGED <<provider, editing, form, listed, pulls, panel, view>>

FetchFailed ==
    /\ \E g \in gets : g.use # "list" /\ gets' = gets \ {g}
    /\ UNCHANGED <<provider, editing, form, fetched, picker, checked, choice, listed, pulls, panel, view>>

\* What was fetched before is offered, for whichever channel it was.
openModelMappingValueModal ==
    /\ Free /\ Clicked
    /\ IF fetched.models = {}
       THEN gets' = Ask(editing, "target") /\ UNCHANGED <<picker, choice>>
       ELSE picker' = {"target"} /\ choice' = fetched /\ UNCHANGED gets
    /\ UNCHANGED <<provider, editing, form, fetched, checked, listed, pulls, panel>>

-----------------------------------------------------------------------------
(* Choosing. *)

\* A model, or all of those a tab and a word leave.
handleCategorySelectAll ==
    /\ "models" \in picker
    /\ \E some \in {{m} : m \in fetched.models} \union {fetched.models} :
        checked' \in {checked \union some, checked \ some} \ {checked}
    /\ UNCHANGED <<provider, editing, form, fetched, gets, picker, choice, listed, pulls, panel, view>>

\* Over a dialog that is closed, nothing that stays.
Put(models) == form' = IF editing = 0 THEN form ELSE [form EXCEPT !.models = models]

ModelSelectModal ==
    /\ "models" \in picker /\ picker' = picker \ {"models"}
    /\ Put(checked) \/ UNCHANGED form
    /\ UNCHANGED <<provider, editing, fetched, gets, checked, choice, listed, pulls, panel, view>>

SingleModelSelectModal ==
    /\ "target" \in picker /\ picker' = picker \ {"target"}
    /\ form' \in {form} \union
                 (IF editing = 0 THEN {} ELSE {[form EXCEPT !.target = m] : m \in choice.models})
    /\ UNCHANGED <<provider, editing, fetched, gets, checked, choice, listed, pulls, panel, view>>

-----------------------------------------------------------------------------
(* The Ollama panel. *)

OllamaModelModal ==
    /\ Free /\ Opened /\ picker' = {"ollama"}
    /\ gets' = Ask(editing, "list")
    /\ panel' = [panel EXCEPT !.loading = TRUE]
    /\ view' = [view EXCEPT !.opens = @ + 1]
    /\ UNCHANGED <<provider, editing, form, fetched, checked, choice, listed, pulls>>

\* The pull goes on, its button is free again.
onCancel ==
    /\ "ollama" \in picker /\ picker' = picker \ {"ollama"}
    /\ listed' = [listed EXCEPT !.chosen = {}]
    /\ panel' = [panel EXCEPT !.pulling = FALSE]
    /\ view' = [view EXCEPT !.calm = @ /\ pulls = {}]
    /\ UNCHANGED <<provider, editing, form, fetched, gets, checked, choice, pulls>>

\* What was chosen stays if it is there, else everything is chosen.
Chosen(models) == IF listed.chosen \cap models = {} THEN models ELSE listed.chosen \cap models

fetchModels ==
    /\ \E g \in gets :
        /\ g.use = "list" /\ gets' = gets \ {g}
        /\ \E models \in {{}} \union (IF g.answer = <<>> THEN {} ELSE {g.answer[1]}) :
            listed' = [of |-> g.of, models |-> models, chosen |-> Chosen(models)]
    /\ panel' = [panel EXCEPT !.loading = FALSE]
    /\ UNCHANGED <<provider, editing, form, fetched, picker, checked, choice, pulls, view>>

Usable == "ollama" \in picker /\ ~panel.loading

handleToggleModel ==
    /\ Usable
    /\ \E chosen \in {{}, listed.models} \union {{m} : m \in listed.models} : listed' = [listed EXCEPT !.chosen = chosen]
    /\ UNCHANGED <<provider, editing, form, fetched, gets, picker, checked, choice, pulls, panel, view>>

handleApplyAllModels ==
    /\ "ollama" \in picker /\ Put(form.models \union listed.chosen)
    /\ UNCHANGED <<provider, editing, fetched, gets, picker, checked, choice, listed, pulls, panel, view>>

deleteModel ==
    /\ Usable /\ Clicked
    /\ \E m \in listed.models : provider' = [provider EXCEPT ![editing] = @ \ {m}]
    /\ gets' = Ask(editing, "list") \union Ask(editing, "silent")
    /\ panel' = [panel EXCEPT !.loading = TRUE]
    /\ UNCHANGED <<editing, form, fetched, picker, checked, choice, listed, pulls>>

\* The connection the panel knows of is closed: by the next pull, and by the
\* effect's clean-up whenever a pull that ends forgets it.
Abort(all, id) == {IF p.id = id THEN [p EXCEPT !.aborted = TRUE] ELSE p : p \in all}

Pullable == "ollama" \in picker /\ ~panel.pulling

pullModel ==
    /\ Pullable /\ Clicked
    /\ \E m \in Own(editing) :
        pulls' = Abort(pulls, panel.handle)
                 \union {[id |-> view'.clicks, of |-> editing, model |-> m, aborted |-> FALSE]}
    /\ panel' = [panel EXCEPT !.pulling = TRUE, !.handle = view'.clicks]
    /\ UNCHANGED <<provider, editing, form, fetched, gets, picker, checked, choice, listed>>

\* The lists are asked for again, of the channel the pull was for.
processStream ==
    /\ \E p \in pulls :
        /\ pulls' = Abort(pulls \ {p}, panel.handle)
        /\ provider' \in {provider}
               \union (IF p.aborted THEN {} ELSE {[provider EXCEPT ![p.of] = @ \union {p.model}]})
        /\ gets' \in {Ask(p.of, "list") \union Ask(p.of, "silent")}
                     \union (IF p.aborted THEN {gets} ELSE {})
        /\ panel' = [loading |-> panel.loading \/ gets' # gets, pulling |-> FALSE, handle |-> 0]
    /\ UNCHANGED <<editing, form, fetched, picker, checked, choice, listed, view>>

Next == Open \/ Close \/ fetchUpstreamModelList \/ Answered \/ Fetched \/ FetchFailed
        \/ openModelMappingValueModal \/ handleCategorySelectAll \/ ModelSelectModal
        \/ SingleModelSelectModal \/ OllamaModelModal \/ onCancel \/ fetchModels
        \/ handleToggleModel \/ handleApplyAllModels \/ deleteModel \/ pullModel \/ processStream
Spec == Init /\ [][Next]_vars

-----------------------------------------------------------------------------
(* Properties. *)

\* Type correctness.
TypeOK ==
    /\ editing \in Channels \union {0} /\ picker \subseteq {"models", "target", "ollama"}
    /\ form.models \union checked \union listed.models \union fetched.models \subseteq Models
    /\ {panel.loading, panel.pulling, view.calm} \subseteq BOOLEAN
    /\ \A p, q \in pulls : p.id = q.id => p = q

\* The models of a channel are models of its provider, unless something of
\* another channel was on its way when the dialog opened.
ModelsAreItsOwn == view.calm /\ editing # 0 => form.models \subseteq Own(editing)

\* So is the target of a redirection, if what was fetched was this channel's.
TargetIsItsOwn ==
    /\ view.calm /\ editing # 0 /\ "models" \in picker => fetched.of = editing
    /\ view.calm /\ editing # 0 /\ choice.of = editing => form.target \in Own(editing) \union {0}

\* One pull goes on, and the panel says so, unless it was closed over one.
PullIsShown ==
    view.calm =>
        /\ Cardinality({p \in pulls : ~p.aborted}) <= 1
        /\ panel.pulling <=> \E p \in pulls : p.id = panel.handle /\ ~p.aborted
=============================================================================
