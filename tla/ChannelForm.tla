----------------------------- MODULE ChannelForm -----------------------------
(***************************************************************************)
(* The dialog that edits a channel (EditChannelModal.jsx).  It is mounted  *)
(* once and only its form is emptied when it closes: the mode of the keys, *)
(* the files read and the values the submission compares with stay until   *)
(* the next channel is loaded.  A submission may stop to ask about models  *)
(* that are redirected but not listed, and about status codes that should  *)
(* not be redirected; nothing covers its button while it saves.            *)
(***************************************************************************)
EXTENDS Naturals, FiniteSets

CONSTANTS
    MaxOpens,  \* bound: dialogs opened
    MaxTyped,  \* bound: edits
    MaxPuts   \* bound: saves on their way at a time

VARIABLES
    server,   \* the channels: id -> [type, multi, managed, models, maps, risk]
    editing,  \* channelId, 0 for a new one
    visible,
    form,     \* inputs, with the key that was typed: a set, by the channel it is for
    mode,     \* loading, batch, multiToSingle, isIonetChannel, useManualInput
    files,    \* vertexKeys, by the channel they are for
    initial,  \* initialModelsRef, initialModelMappingRef, initialStatusCodeMappingRef
    asking,   \* the confirmation that is waited for, with what would be sent
    gets,     \* GETs on their way
    puts,     \* saves on their way
    view,     \* history: calm, nothing was left open between two channels; kept, files
              \* were there when it was opened; had, what the loaded channel had
    count     \* bounds: opened and typed

vars == <<server, editing, visible, form, mode, files, initial, asking, gets, puts, view, count>>

Channels == 1..2
Types == {"plain", "vertex", "codex"}
Basic == {"m1"}          \* getChannelModels
Mapped == "m2"           \* a model that may be redirected

originInputs ==
    [of |-> 0, type |-> "plain", key |-> {}, models |-> {}, maps |-> {}, risk |-> FALSE]
NoInitial == [models |-> {}, maps |-> {}, risk |-> FALSE]

Stored(type, multi, managed, maps) ==
    [type |-> type, multi |-> multi, managed |-> managed, models |-> Basic, maps |-> maps,
     risk |-> FALSE]

Init ==
    /\ \E multi, managed \in BOOLEAN :
        /\ multi # managed
        /\ server = <<Stored("plain", multi, managed, {Mapped}), Stored("vertex", FALSE, FALSE, {})>>
    /\ editing = 0 /\ visible = FALSE /\ form = originInputs
    /\ mode = [loading |-> FALSE, batch |-> FALSE, aggregate |-> FALSE,
               managed |-> FALSE, manual |-> FALSE]
    /\ files = {} /\ initial = NoInitial /\ asking = <<>>
    /\ gets = {} /\ puts = {}
    /\ view = [calm |-> TRUE, kept |-> FALSE, had |-> NoInitial]
    /\ count = [opened |-> 0, typed |-> 0]

isEdit == editing # 0

-----------------------------------------------------------------------------
(* Opening and loading. *)

\* The effects of the id and of visible.  The default models are put into a new
\* channel's form only when the one before was not new.
Open ==
    /\ ~visible /\ count.opened < MaxOpens /\ count' = [count EXCEPT !.opened = @ + 1]
    /\ \E id \in Channels \union {0} :
        /\ visible' = TRUE /\ editing' = id
        /\ form' = [originInputs EXCEPT !.models = IF id = 0 /\ isEdit THEN Basic ELSE {}]
        /\ initial' = IF id = 0 THEN NoInitial ELSE initial
        /\ mode' = [mode EXCEPT !.manual = FALSE, !.loading = @ \/ id # 0,
                                !.managed = @ /\ id # 0]
        /\ gets' = IF id = 0 \/ \E g \in gets : g.id = id THEN gets
                   ELSE gets \union {[id |-> id, answer |-> <<>>]}
    /\ view' = [view EXCEPT !.calm = @ /\ gets = {} /\ puts = {} /\ asking = <<>>,
                               !.kept = files # {}]
    /\ UNCHANGED <<server, files, asking, puts>>

Asked ==
    /\ \E g \in gets :
        /\ g.answer = <<>>
        /\ gets' = (gets \ {g}) \union {[g EXCEPT !.answer = <<server[g.id]>>]}
    /\ UNCHANGED <<server, editing, visible, form, mode, files, initial, asking, puts, view, count>>

Compared(c) == [models |-> c.models, maps |-> c.maps, risk |-> c.risk]
loadChannel(id, c) ==
    /\ form' = [of |-> id, type |-> c.type, key |-> {}, models |-> c.models, maps |-> c.maps,
                risk |-> c.risk]
    /\ mode' = [mode EXCEPT !.loading = FALSE, !.batch = c.multi, !.aggregate = c.multi,
                            !.managed = c.managed]
    /\ initial' = Compared(c)

Loaded ==
    /\ \E g \in gets :
        /\ g.answer # <<>> /\ gets' = gets \ {g}
        /\ loadChannel(g.id, g.answer[1])
        /\ view' = [view EXCEPT !.had = Compared(g.answer[1])]
    /\ UNCHANGED <<server, editing, visible, files, asking, puts, count>>

\* A request that breaks leaves the dialog loading.
LoadFailed ==
    /\ \E g \in gets, broken \in BOOLEAN :
        /\ gets' = gets \ {g}
        /\ mode' = [mode EXCEPT !.loading = broken]
    /\ view' = [view EXCEPT !.calm = FALSE]
    /\ UNCHANGED <<server, editing, visible, form, files, initial, asking, puts, count>>

\* resetModalState: a status code confirmation that is open is answered with no.
resetModalState ==
    /\ visible' = FALSE
    /\ form' = originInputs
    /\ asking' = IF asking # <<>> /\ asking[1].about = "risk" THEN <<>> ELSE asking

handleCancel ==
    /\ visible /\ asking = <<>> /\ resetModalState
    /\ UNCHANGED <<server, editing, mode, files, initial, gets, puts, view, count>>

-----------------------------------------------------------------------------
(* Editing. *)

Edits ==
    /\ visible /\ asking = <<>> /\ ~mode.loading
    /\ count.typed < MaxTyped /\ count' = [count EXCEPT !.typed = @ + 1]
    /\ UNCHANGED <<server, editing, visible, initial, asking, gets, puts, view>>

\* A managed channel's type and key cannot be changed.
Locked == mode.managed /\ isEdit

typeChanged ==
    /\ Edits /\ ~Locked
    /\ \E type \in Types \ {form.type} :
        /\ form' = [form EXCEPT !.type = type, !.models = IF @ = {} THEN Basic ELSE @]
        /\ mode' = [mode EXCEPT !.manual = FALSE, !.batch = @ /\ type # "codex",
                                !.aggregate = @ /\ type # "codex"]
        /\ files' = IF type = "codex" THEN {} ELSE files

keyTyped ==
    /\ Edits /\ ~Locked /\ (form.type = "vertex" => mode.manual /\ ~mode.batch)
    /\ form' = [form EXCEPT !.key = {editing}]
    /\ UNCHANGED <<mode, files>>

\* The button of file upload or manual input.
keyInputChosen ==
    /\ Edits /\ form.type = "vertex" /\ ~mode.batch
    /\ mode' = [mode EXCEPT !.manual = ~@]
    /\ form' = IF mode.manual THEN [form EXCEPT !.key = {}] ELSE form
    /\ files' = IF mode.manual THEN files ELSE {}

\* The upload keeps one file, or all of a batch.
handleVertexUploadChange ==
    /\ Edits /\ form.type = "vertex" /\ (mode.batch \/ ~mode.manual)
    /\ files' = {editing}
    /\ UNCHANGED <<form, mode>>

batchChanged ==
    /\ Edits /\ ~isEdit /\ form.type # "codex"
    /\ \/ /\ mode' = [mode EXCEPT !.batch = ~@, !.aggregate = FALSE,
                                  !.manual = @ /\ mode.batch]
          /\ form' = IF form.type = "vertex" /\ ~mode.batch THEN [form EXCEPT !.key = {}] ELSE form
       \/ /\ mode.batch /\ mode' = [mode EXCEPT !.aggregate = ~@]
          /\ form' = form
    /\ UNCHANGED files

modelsChanged ==
    /\ Edits
    /\ \/ \E m \in {"m1", Mapped} :
            form' = [form EXCEPT !.models = IF m \in @ THEN @ \ {m} ELSE @ \union {m}]
       \/ form' = [form EXCEPT !.maps = IF @ = {} THEN {Mapped} ELSE {}]
       \/ form' = [form EXCEPT !.risk = ~@]
    /\ UNCHANGED <<mode, files>>

-----------------------------------------------------------------------------
(* Submitting. *)

\* The key that is sent: of a service account the files', unless it is typed.
\* An empty one is not sent for a channel that exists.
SentKey == IF form.type = "vertex" /\ ~mode.manual THEN files ELSE form.key
Refuses ==
    \/ form.type = "codex" /\ mode.batch
    \/ ~isEdit /\ SentKey = {}
    \/ form.models = {}

Request ==
    [id |-> editing, of |-> form.of, key |-> SentKey, type |-> form.type,
     models |-> form.models, maps |-> form.maps, risk |-> form.risk,
     mode |-> CASE isEdit -> "edit"
                [] ~mode.batch -> "single"
                [] mode.aggregate -> "multi_to_single"
                [] OTHER -> "batch",
     accepted |-> {}]

Missing(r) == r.maps \ r.models
hasModelConfigChanged(r) ==
    r.id = 0 \/ r.models # initial.models \/ r.maps # initial.maps
AsksMissing(r) == Missing(r) # {} /\ hasModelConfigChanged(r)
\* collectNewDisallowedStatusCodeRedirects: those that were there are not asked about.
AsksRisk(r) == r.risk /\ ~initial.risk

SentOrAsked(r) ==
    IF AsksRisk(r)
    THEN asking' = <<[about |-> "risk", request |-> r]>> /\ puts' = puts
    ELSE asking' = <<>> /\ puts' = puts \union {r}

submit ==
    /\ visible /\ asking = <<>> /\ ~Refuses /\ Cardinality(puts) < MaxPuts
    /\ IF AsksMissing(Request)
       THEN asking' = <<[about |-> "missing", request |-> Request]>> /\ puts' = puts
       ELSE SentOrAsked(Request)
    /\ UNCHANGED <<server, editing, visible, form, mode, files, initial, gets, view, count>>

\* Back to the form, or to send it as it is, or with the models that are missing.
confirmMissingModelMappings ==
    /\ asking # <<>> /\ asking[1].about = "missing"
    /\ LET r == asking[1].request IN
       \/ asking' = <<>> /\ UNCHANGED <<form, puts>>
       \/ SentOrAsked([r EXCEPT !.accepted = {"missing"}]) /\ UNCHANGED form
       \/ /\ SentOrAsked([r EXCEPT !.models = @ \union Missing(r)])
          /\ form' = [form EXCEPT !.models = r.models \union Missing(r)]
    /\ UNCHANGED <<server, editing, visible, mode, files, initial, gets, view, count>>

resolveStatusCodeRiskConfirm ==
    /\ asking # <<>> /\ asking[1].about = "risk"
    /\ asking' = <<>>
    /\ \/ puts' = puts
       \/ puts' = puts \union {[asking[1].request EXCEPT !.accepted = @ \union {"risk"}]}
    /\ UNCHANGED <<server, editing, visible, form, mode, files, initial, gets, view, count>>

\* The server keeps what the request does not name; handleClose closes the
\* dialog that is open by then.
Kept(r) ==
    IF r.id = 0 THEN server
    ELSE [server EXCEPT ![r.id] =
            [@ EXCEPT !.type = r.type, !.models = r.models, !.maps = r.maps, !.risk = r.risk]]
Saved ==
    /\ \E r \in puts : puts' = puts \ {r} /\ server' = Kept(r)
    /\ resetModalState
    /\ UNCHANGED <<editing, mode, files, initial, gets, view, count>>

SaveFailed ==
    /\ \E r \in puts : puts' = puts \ {r} /\ server' \in {server, Kept(r)}
    /\ UNCHANGED <<editing, visible, form, mode, files, initial, asking, gets, view, count>>

Next == Open \/ Asked \/ Loaded \/ LoadFailed \/ handleCancel
        \/ typeChanged \/ keyTyped \/ keyInputChosen \/ handleVertexUploadChange
        \/ batchChanged \/ modelsChanged
        \/ submit \/ confirmMissingModelMappings \/ resolveStatusCodeRiskConfirm
        \/ Saved \/ SaveFailed
Spec == Init /\ [][Next]_vars

-----------------------------------------------------------------------------
(* Properties. *)

\* Type correctness.
TypeOK ==
    /\ editing \in {0} \union Channels /\ DOMAIN server = Channels
    /\ \A c \in {form} \union {server[i] : i \in Channels} :
        c.type \in Types /\ c.models \subseteq {"m1", Mapped} /\ c.maps \subseteq {Mapped}
    /\ files \subseteq {0} \union Channels
    /\ mode.aggregate => mode.batch

\* A channel is sent the content it was loaded with, and only keys that were
\* entered for it: unless another dialog's requests were still on their way, or
\* its files had been left behind.
SentIsItsOwn ==
    \A r \in puts :
        /\ view.calm => r.of = r.id
        /\ view.calm /\ ~view.kept => r.key \subseteq {r.id}

\* Nothing is sent with a redirect of a model that is not listed, nor with a
\* newly redirected status code, that this submission has not accepted; what a
\* channel had before may stay.
SentIsAccepted ==
    \A r \in puts :
        /\ Missing(r) # {} /\ "missing" \notin r.accepted =>
            r.id # 0 /\ (view.calm => r.models = view.had.models /\ r.maps = view.had.maps)
        /\ r.risk /\ "risk" \notin r.accepted =>
            r.id # 0 /\ (view.calm => view.had.risk)
=============================================================================
