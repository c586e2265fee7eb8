---------------------------- MODULE OAuthProviders ----------------------------
(***************************************************************************)
(* The custom OAuth providers of the settings (CustomOAuthSetting.jsx):    *)
(* their list, the dialog that edits one, the presets and the discovery    *)
(* that fill in its endpoints, and the server's table with the registry    *)
(* the sign-in reads.                                                      *)
(***************************************************************************)
EXTENDS FiniteSets, Integers

CONSTANTS
    MaxOpens,  \* bound: dialogs opened
    MaxTyped,  \* bound: edits of the form
    MaxTries   \* bound: clicks that send a request

VARIABLES
    providers, \* the rows shown
    server,    \* the rows of the table
    registry,  \* the provider the sign-in knows by a slug, 0 for none
    modal,     \* [visible, of]: editingProvider, 0 for a new one
    form,      \* formValues
    preset,    \* selectedPreset
    base,      \* baseUrl
    looking,   \* discoveryLoading
    get,       \* the GET of the list, which a second one shares
    jobs,      \* discoveries, saves, deletions
    view       \* history: calm, the dialog was left with nothing under way;
               \* fresh, the last refresh was answered after it began; given, the issuer
               \* or the preset was chosen in this dialog; opens, edits, tries

vars == <<providers, server, registry, modal, form, preset, base, looking, get, jobs, view>>

Providers == 1..3                      \* an old one, and those that are added
OAUTH_PRESETS == {"gitlab"}            \* the keys of the presets
Slugs == OAUTH_PRESETS \union {"own"}

\* Each provider has a host of its own, and two issuers: the host, and a path under it.
Class(p) == IF p = 1 THEN 1 ELSE 2
Issuers(p) == {Class(p), Class(p) + 2}
Origin(issuer) == IF issuer > 2 THEN issuer - 2 ELSE issuer
Ends(by, host) == [by |-> by, host |-> host]
NoEnds == Ends("none", 0)
EndsSet == [by : {"none", "path", "preset", "found", "typed"}, host : 0..4]

\* slug stands for the name too, ends for the three endpoints, scopes for the other
\* fields; the policy of access, which its templates fill in, is no part of it.
Row(slug, ends, known, scopes) ==
    [slug |-> slug, ends |-> ends, known |-> known, scopes |-> scopes]
NoRow == Row("", NoEnds, 0, 0)
Rows == [slug : Slugs \union {""}, ends : EndsSet, known : 0..4, scopes : 0..1]

\* What a closed dialog holds is set anew when the next one is opened.
Closed == [visible |-> FALSE, of |-> 0]
Empty == [row |-> NoRow, secret |-> FALSE]

Idle == [step |-> "idle", rows |-> [p \in Providers |-> NoRow]]
Steps(f) == view' = [view EXCEPT ![f] = @ + 1]

\* The list has arrived.
Init ==
    /\ server \in {[p \in Providers |-> IF p = 1 THEN r ELSE NoRow] :
                     r \in {Row("gitlab", Ends("preset", 1), 0, 1),
                            Row("gitlab", Ends("preset", 3), 0, 1),
                            Row("own", Ends("typed", 1), 1, 1)}}
    /\ providers = server
    /\ registry = [s \in Slugs |-> IF server[1].slug = s THEN 1 ELSE 0]
    /\ modal = Closed /\ form = Empty /\ preset = "" /\ base = 0
    /\ looking = FALSE /\ get = Idle /\ jobs = {}
    /\ view = [calm |-> TRUE, fresh |-> TRUE, given |-> FALSE, opens |-> 0, edits |-> 0, tries |-> 0]

-----------------------------------------------------------------------------
(* The list. *)

\* A request that is on its way is shared, whether or not it has been answered.
fetchProviders(v) ==
    /\ get' = IF get.step = "idle" THEN [get EXCEPT !.step = "asked"] ELSE get
    /\ view' = [v EXCEPT !.fresh = get.step # "answered"]

GetCustomOAuthProviders ==
    /\ get.step = "asked" /\ get' = [step |-> "answered", rows |-> server]
    /\ UNCHANGED <<providers, server, registry, modal, form, preset, base, looking, jobs, view>>

\* Each row shown has its two buttons.
Offered(p) == providers[p] # NoRow

Listed ==
    /\ get.step # "idle" /\ get' = Idle
    /\ \/ get.step = "answered" /\ providers' = get.rows /\ UNCHANGED view
       \/ view' = [view EXCEPT !.fresh = FALSE] /\ UNCHANGED providers
    /\ UNCHANGED <<server, registry, modal, form, preset, base, looking, jobs>>

-----------------------------------------------------------------------------
(* The dialog. *)

Open(of, row, chosen, url) ==
    /\ ~modal.visible /\ view.opens < MaxOpens
    /\ modal' = [visible |-> TRUE, of |-> of]
    /\ form' = [Empty EXCEPT !.row = row] /\ preset' = chosen /\ base' = url
    /\ view' = [view EXCEPT !.opens = @ + 1, !.given = FALSE]
    /\ UNCHANGED <<providers, server, registry, looking, get, jobs>>

handleAdd == Open(0, [NoRow EXCEPT !.scopes = 1], "", 0)

\* The preset and the issuer are inferred from what was saved: of an issuer under a
\* path only the host is left.
inferBaseUrlFromProvider(row) ==
    IF row.ends.by \in {"none", "path"} THEN 0 ELSE Origin(row.ends.host)
handleEdit ==
    \E p \in Providers :
        /\ Offered(p)
        /\ Open(p, providers[p], IF providers[p].slug \in OAUTH_PRESETS THEN providers[p].slug ELSE "",
                inferBaseUrlFromProvider(providers[p]))

\* What is under way goes on.
Close == modal' = Closed /\ form' = Empty /\ preset' = "" /\ base' = 0
Alone(others) == \A j \in others : j.kind = "delete"
closeModal ==
    /\ modal.visible /\ Close
    /\ view' = [view EXCEPT !.calm = @ /\ Alone(jobs)]
    /\ UNCHANGED <<providers, server, registry, looking, get, jobs>>

Edit(given) ==
    /\ modal.visible /\ view.edits < MaxTyped
    /\ view' = [view EXCEPT !.edits = @ + 1, !.given = @ \/ given]
mergeFormValues(row) == form' = [form EXCEPT !.row = row]

NameFields(row) == {[row EXCEPT !.slug = "own"]}
MappingFields(row) == {[row EXCEPT !.scopes = 0]}
EndpointFields(row) == {[row EXCEPT !.ends = Ends("path", 0)]}
SecretField == ~form.secret /\ form' = [form EXCEPT !.secret = TRUE]

onValueChange ==
    /\ Edit(FALSE)
    /\ \/ \E row \in UNION {NameFields(form.row), MappingFields(form.row),
                             EndpointFields(form.row)} \ {form.row} : mergeFormValues(row)
       \/ SecretField
    /\ UNCHANGED <<providers, server, registry, modal, preset, base, looking, get, jobs>>

\* A preset fills in its own fields and empties the others.
PRESET_RESET_VALUES == NoRow
handlePresetChange ==
    /\ Edit(TRUE) /\ preset' \in (OAUTH_PRESETS \union {""}) \ {preset}
    /\ mergeFormValues(
          IF preset' = "" THEN PRESET_RESET_VALUES
          ELSE [PRESET_RESET_VALUES EXCEPT
                    !.slug = preset', !.scopes = 1,
                    !.ends = IF base = 0 THEN NoEnds ELSE Ends("preset", base)])
    /\ UNCHANGED <<providers, server, registry, modal, base, looking, get, jobs>>

\* Emptying the issuer leaves the endpoints as they are.
handleBaseUrlChange ==
    /\ Edit(TRUE) /\ base' \in ({0} \union Issuers(modal.of)) \ {base}
    /\ IF base' # 0 /\ preset # ""
       THEN mergeFormValues([form.row EXCEPT !.ends = Ends("preset", base')])
       ELSE UNCHANGED form
    /\ UNCHANGED <<providers, server, registry, modal, preset, looking, get, jobs>>

-----------------------------------------------------------------------------
(* Discovery. *)

\* The address of the document goes before the issuer.
WellKnown == IF form.row.known # 0 THEN form.row.known ELSE base

Send(job) ==
    /\ view.tries < MaxTries /\ Steps("tries")
    /\ jobs' = jobs \union {[job EXCEPT !.id = view'.tries]}

Job(kind, of) == [kind |-> kind, of |-> of, row |-> NoRow, host |-> 0, id |-> 0,
                  done |-> FALSE, ok |-> FALSE]

\* The form of the click says what is empty.
handleFetchFromDiscovery ==
    /\ modal.visible /\ ~looking /\ WellKnown # 0
    /\ Send([Job("find", modal.of) EXCEPT !.row.scopes = form.row.scopes, !.host = WellKnown])
    /\ looking' = TRUE
    /\ UNCHANGED <<providers, server, registry, modal, form, preset, base, get>>

\* Whatever is edited by now gets what was found.
Discovered ==
    \E j \in jobs :
        /\ j.kind = "find" /\ jobs' = jobs \ {j} /\ looking' = FALSE
        /\ \/ /\ modal.visible
              /\ mergeFormValues(
                    [form.row EXCEPT !.ends = Ends("found", j.host), !.known = j.host,
                                     !.scopes = IF j.row.scopes = 0 THEN 1 ELSE @])
           \/ UNCHANGED form
        /\ UNCHANGED <<providers, server, registry, modal, preset, base, get, view>>

-----------------------------------------------------------------------------
(* Saving and deleting. *)

Valid ==
    /\ form.row.slug # "" /\ (modal.of = 0 => form.secret)
    /\ form.row.ends.by \notin {"none", "path"}

\* The button is not blocked while a save is on its way.
handleSubmit ==
    /\ modal.visible /\ Valid
    /\ Send([Job("save", modal.of) EXCEPT !.row = form.row])
    /\ UNCHANGED <<providers, server, registry, modal, form, preset, base, looking, get>>

handleDelete ==
    /\ ~modal.visible
    /\ \E p \in Providers : Offered(p) /\ Send(Job("delete", p))
    /\ UNCHANGED <<providers, server, registry, modal, form, preset, base, looking, get>>

IsSlugTaken(slug, but) == \E p \in Providers \ {but} : server[p].slug = slug

Answer(j, ok) == jobs' = (jobs \ {j}) \union {[j EXCEPT !.done = TRUE, !.ok = ok, !.row = NoRow]}
Unused(p) == \A q \in Providers : q >= p => server[q] = NoRow

\* The next number: within MaxTries no row is added after a deletion of one.
CreateCustomOAuthProvider(j, p) ==
    /\ j.kind = "save" /\ j.of = 0 /\ ~IsSlugTaken(j.row.slug, 0)
    /\ Unused(p) /\ p > 1 /\ \A q \in 2..(p - 1) : ~Unused(q)
    /\ server' = [server EXCEPT ![p] = j.row]
    /\ registry' = [registry EXCEPT ![j.row.slug] = p]

\* What is sent empty stays as it was, such as the scopes.
UpdateCustomOAuthProvider(j) ==
    /\ j.kind = "save" /\ j.of # 0 /\ server[j.of] # NoRow
    /\ ~IsSlugTaken(j.row.slug, j.of)
    /\ server' = [server EXCEPT ![j.of] = [j.row EXCEPT !.scopes = IF @ = 0 THEN server[j.of].scopes
                                                                   ELSE @]]
    /\ registry' = [s \in Slugs |-> IF s = j.row.slug THEN j.of
                                    ELSE IF s = server[j.of].slug THEN 0 ELSE registry[s]]

DeleteCustomOAuthProvider(j) ==
    /\ j.kind = "delete" /\ server[j.of] # NoRow
    /\ server' = [server EXCEPT ![j.of] = NoRow]
    /\ registry' = [registry EXCEPT ![server[j.of].slug] = 0]

\* Refused also for a built-in slug, a binding, or an error of the database.
Served ==
    \E j \in jobs :
        /\ j.kind # "find" /\ ~j.done
        /\ \/ (\E p \in Providers : CreateCustomOAuthProvider(j, p)) /\ Answer(j, TRUE)
           \/ UpdateCustomOAuthProvider(j) /\ Answer(j, TRUE)
           \/ DeleteCustomOAuthProvider(j) /\ Answer(j, TRUE)
           \/ Answer(j, FALSE) /\ UNCHANGED <<server, registry>>
        /\ UNCHANGED <<providers, modal, form, preset, base, looking, get, view>>

\* A save closes the dialog, whichever it is by then; the list is fetched again.
Answered ==
    \E j \in jobs :
        /\ j.done /\ jobs' = jobs \ {j}
        /\ \/ /\ j.ok
              /\ IF j.kind = "save"
                 THEN Close /\ fetchProviders([view EXCEPT !.calm = @ /\ Alone(jobs \ {j})])
                 ELSE fetchProviders(view) /\ UNCHANGED <<modal, form, preset, base>>
           \/ ~j.ok /\ UNCHANGED <<modal, form, preset, base, get, view>>
           \/ /\ j.ok /\ view' = [view EXCEPT !.fresh = FALSE]   \* the answer is lost
              /\ UNCHANGED <<modal, form, preset, base, get>>
        /\ UNCHANGED <<providers, server, registry, looking>>

Next ==
    \/ GetCustomOAuthProviders \/ Listed
    \/ handleAdd \/ handleEdit \/ closeModal
    \/ onValueChange \/ handlePresetChange \/ handleBaseUrlChange
    \/ handleFetchFromDiscovery \/ Discovered
    \/ handleSubmit \/ handleDelete \/ Served \/ Answered

Spec == Init /\ [][Next]_vars

-----------------------------------------------------------------------------
(* Properties *)

TypeOK ==
    /\ {providers, server, get.rows} \subseteq [Providers -> Rows]
    /\ registry \in [Slugs -> 0..3] /\ get.step \in {"idle", "asked", "answered"}
    /\ modal.visible \in BOOLEAN /\ modal.of \in 0..3
    /\ form.row \in Rows /\ form.secret \in BOOLEAN
    /\ preset \in OAUTH_PRESETS \union {""} /\ base \in 0..4 /\ looking \in BOOLEAN
    /\ IsFiniteSet(jobs) /\ \A j \in jobs : j.kind \in {"find", "save", "delete"} /\ j.row \in Rows

\* A provider is asked at its own addresses: what a discovery found for one is not
\* saved with another, unless a dialog was left while it looked.
FoundIsItsOwn ==
    view.calm => \A p \in Providers : server[p].ends.host \in Issuers(p) \union {0}

\* No provider is saved with an address that is missing or incomplete.
EndpointsAreWhole ==
    \A p \in Providers : server[p] # NoRow => server[p].ends.by \notin {"none", "path"}

\* The endpoints a preset has generated are those of the issuer, once the preset or the
\* issuer has been chosen in the dialog. One that has only been opened shows the host of
\* what was saved: of an issuer under a path that is not the one the endpoints are of.
GeneratedFits ==
    (modal.visible /\ preset # "" /\ base # 0 /\ form.row.ends.by = "preset") =>
        base = IF view.given THEN form.row.ends.host ELSE Origin(form.row.ends.host)

\* The sign-in knows each provider by the slug it has in the table, and no other.
RegistryIsTrue ==
    \A s \in Slugs, p \in Providers : registry[s] = p <=> server[p].slug = s

\* At rest the list is the table, unless the refresh shared an answer that was
\* there before it, or failed.
ListIsTrue == (jobs = {} /\ get.step = "idle" /\ view.fresh) => providers = server
=============================================================================
