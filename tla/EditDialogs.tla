----------------------------- MODULE EditDialogs -----------------------------
(***************************************************************************)
(* The dialogs that edit one record of a table: tokens, redemption codes,  *)
(* users, models, vendors, subscription plans, prefill groups and tags.    *)
(* The table says which record; the dialog loads it, and sends the form    *)
(* with the record's id.  It can be closed while it loads or saves, and    *)
(* the next one opened: the component, its loading flag and the answers    *)
(* that are on their way stay.  Some tables forget the record half a       *)
(* second after the dialog is closed.                                      *)
(***************************************************************************)
EXTENDS FiniteSets, Integers

CONSTANTS
    MaxOpens,  \* bound: dialogs opened
    MaxTyped   \* bound: edits

VARIABLES
    dialog,   \* which dialog: a record of Dialogs
    server,   \* the records: id -> [of, val], whose content it is and which
    editing,  \* the record that is edited, 0 for a new one
    visible, loading,
    form,     \* the form: content like the server's
    timers,   \* setTimeouts of closeEdit
    gets,     \* GETs on their way: [id, waiting, answer]
    put,      \* the save on its way
    calm,     \* history: nothing has been asked across two dialogs or failed
    opened, typed  \* bounds

vars == <<dialog, server, editing, visible, loading, form, timers, gets, put, calm, opened, typed>>

Records == 1..2
Blank == [of |-> 0, val |-> 0]
Garbled == -1

\* load: whenever the dialog is seen, when the id changes, or from the row of
\* the table.  closing: the record is forgotten now, later or kept.  twice: the
\* handler changes the answer, which two requests may share, so that the second
\* time it means something else.  clears: the form is emptied after every save,
\* a refused one too.  caught: a request that breaks ends the loading.
\* self: no record means one's own.  covers: the form cannot be used while loading.
Dialog(name) ==
    [name |-> name, load |-> "seen", closing |-> "later", twice |-> FALSE, clears |-> FALSE,
     caught |-> FALSE, self |-> FALSE, creates |-> TRUE, covers |-> TRUE]

EditTokenModal == [Dialog("token") EXCEPT !.clears = TRUE]
EditRedemptionModal == [Dialog("redemption") EXCEPT !.load = "id", !.twice = TRUE]
EditUserModal ==
    [Dialog("user") EXCEPT !.load = "id", !.closing = "now", !.self = TRUE, !.creates = FALSE]
EditModelModal == [Dialog("model") EXCEPT !.clears = TRUE, !.caught = TRUE]
EditVendorModal ==
    [Dialog("vendor") EXCEPT !.closing = "now", !.twice = TRUE, !.caught = TRUE, !.covers = FALSE]
AddEditSubscriptionModal ==
    [Dialog("plan") EXCEPT !.load = "row", !.closing = "now", !.caught = TRUE]
EditPrefillGroupModal == [Dialog("prefill") EXCEPT !.load = "row", !.caught = TRUE]
EditTagModal == [Dialog("tag") EXCEPT !.closing = "kept", !.caught = TRUE, !.creates = FALSE]
Dialogs == {EditTokenModal, EditRedemptionModal, EditUserModal, EditModelModal, EditVendorModal,
            AddEditSubscriptionModal, EditPrefillGroupModal, EditTagModal}

Init ==
    /\ dialog \in Dialogs
    /\ server = [i \in Records \union {0} |-> [of |-> i, val |-> 0]]
    /\ editing = 0 /\ visible = FALSE /\ loading = FALSE /\ form = Blank
    /\ timers = 0 /\ gets = {} /\ put = <<>>
    /\ calm = TRUE /\ opened = 0 /\ typed = 0

-----------------------------------------------------------------------------
(* Loading. *)

\* loadToken and its like, joined with a GET of the same address.
Asked(id) ==
    IF \E g \in gets : g.id = id
    THEN {IF g.id = id THEN [g EXCEPT !.waiting = @ + 1] ELSE g : g \in gets}
    ELSE gets \union {[id |-> id, waiting |-> 1, answer |-> <<>>]}

\* A bug: the record is loaded only when another one is edited.
LoadsOnceOnly(id) == id # 0 /\ id # editing /\ dialog.load # "row"
Loads(id) ==
    /\ id # 0
    /\ \/ dialog.load = "seen"
       \/ dialog.load = "id" /\ id # editing

Open ==
    /\ ~visible /\ opened < MaxOpens /\ opened' = opened + 1
    /\ \E id \in Records \union (IF dialog.creates THEN {0} ELSE {}) :
        /\ visible' = TRUE /\ editing' = id
        /\ gets' = IF Loads(id) THEN Asked(id) ELSE gets
        /\ loading' = (loading \/ Loads(id))
        /\ form' = IF dialog.load = "row" /\ id # 0 THEN server[id] ELSE Blank
    /\ calm' = (calm /\ gets = {} /\ put = <<>> /\ (dialog.load = "id" => timers = 0))
    /\ UNCHANGED <<dialog, server, timers, put, typed>>

\* closeEdit: the form is emptied; without a record the user's dialog loads
\* one's own, unseen.
LoadsSelf == dialog.self /\ editing # 0
Closed ==
    /\ visible' = FALSE
    /\ form' = Blank
    /\ timers' = IF dialog.closing = "later" THEN timers + 1 ELSE timers
    /\ editing' = IF dialog.closing = "now" THEN 0 ELSE editing
    /\ gets' = IF LoadsSelf THEN Asked(0) ELSE gets

handleCancel ==
    /\ visible /\ Closed
    /\ loading' = (loading \/ LoadsSelf)
    /\ UNCHANGED <<dialog, server, put, calm, opened, typed>>

\* Half a second later, whatever is edited by then.
Forgotten ==
    /\ timers > 0 /\ timers' = timers - 1
    /\ editing' = 0
    /\ form' = IF editing = 0 \/ dialog.load = "row" THEN form ELSE Blank
    /\ UNCHANGED <<dialog, server, visible, loading, gets, put, calm, opened, typed>>

Answered ==
    /\ \E g \in gets :
        /\ g.answer = <<>>
        /\ gets' = (gets \ {g}) \union {[g EXCEPT !.answer = <<server[g.id]>>]}
    /\ UNCHANGED <<dialog, server, editing, visible, loading, form, timers, put, calm, opened, typed>>

\* The form of a closed dialog may be gone.
Loaded ==
    /\ \E g \in gets, there \in {TRUE, visible} :
        /\ g.answer # <<>> /\ gets' = gets \ {g}
        /\ form' = IF ~there THEN form
                   ELSE IF dialog.twice /\ g.waiting > 1
                   THEN [g.answer[1] EXCEPT !.val = Garbled]
                   ELSE g.answer[1]
    /\ loading' = FALSE
    /\ UNCHANGED <<dialog, server, editing, visible, timers, put, calm, opened, typed>>

LoadFailed ==
    /\ \E g \in gets, broken \in BOOLEAN :
        /\ gets' = gets \ {g}
        /\ loading' = (broken /\ ~dialog.caught)
    /\ calm' = FALSE
    /\ UNCHANGED <<dialog, server, editing, visible, form, timers, put, opened, typed>>

-----------------------------------------------------------------------------
(* Saving. *)

Typed ==
    /\ visible /\ (dialog.covers => ~loading)
    /\ typed < MaxTyped /\ typed' = typed + 1
    /\ form' = [form EXCEPT !.val = typed + 1]
    /\ UNCHANGED <<dialog, server, editing, visible, loading, timers, gets, put, calm, opened>>

\* An empty form lacks what is required.
submit ==
    /\ visible /\ ~loading /\ put = <<>> /\ form # Blank
    /\ put' = <<[id |-> editing, form |-> form]>>
    /\ loading' = TRUE
    /\ UNCHANGED <<dialog, server, editing, visible, form, timers, gets, calm, opened, typed>>

Stored(id, content) == IF id = 0 THEN server ELSE [server EXCEPT ![id] = content]

\* handleClose closes the dialog that is open by then.
Saved ==
    /\ put # <<>> /\ put' = <<>>
    /\ server' = Stored(put[1].id, put[1].form)
    /\ Closed
    /\ loading' = LoadsSelf
    /\ UNCHANGED <<dialog, calm, opened, typed>>

\* The dialog stays open, of a token or a model with an empty form.
Refused ==
    /\ put # <<>> /\ put' = <<>>
    /\ loading' = FALSE
    /\ form' = IF dialog.clears THEN Blank ELSE form
    /\ calm' = (calm /\ ~dialog.clears)
    /\ UNCHANGED <<dialog, server, editing, visible, timers, gets, opened, typed>>

SaveFailed ==
    /\ put # <<>> /\ put' = <<>>
    /\ server' \in {server, Stored(put[1].id, put[1].form)}
    /\ loading' = ~dialog.caught
    /\ form' = IF dialog.name = "model" THEN Blank ELSE form
    /\ calm' = FALSE
    /\ UNCHANGED <<dialog, editing, visible, timers, gets, opened, typed>>

Next == Open \/ handleCancel \/ Forgotten \/ Answered \/ Loaded \/ LoadFailed
        \/ Typed \/ submit \/ Saved \/ Refused \/ SaveFailed
Spec == Init /\ [][Next]_vars

-----------------------------------------------------------------------------
(* Properties. *)

\* Type correctness.
TypeOK ==
    /\ dialog \in Dialogs
    /\ editing \in DOMAIN server /\ {visible, loading, calm} \subseteq BOOLEAN
    /\ \A content \in {form} \union {server[i] : i \in DOMAIN server} :
        content.of \in DOMAIN server /\ content.val \in -1..MaxTyped
    /\ \A g, h \in gets : g.id = h.id => g = h

\* A record is never overwritten with what another one held, nor with what a
\* shared answer was turned into, unless dialogs were opened over requests that
\* were still on their way, or one failed; a dialog that takes the row of
\* the table not even then.
OwnContent ==
    calm \/ dialog.load = "row" =>
        \A id \in Records : server[id].of = id /\ server[id].val # Garbled

\* What can be edited is the record that was opened.
ShownIsOpened == calm /\ visible /\ ~loading /\ editing # 0 => form.of = editing

\* A dialog does not wait for nothing.
NeverStuck == calm /\ gets = {} /\ put = <<>> => ~loading
=============================================================================
