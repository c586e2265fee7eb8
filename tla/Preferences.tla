------------------------------ MODULE Preferences ------------------------------
(***************************************************************************)
(* What a user sets on the personal page: the notifications and switches   *)
(* of one form, the parts of the sidebar, the language.  All of it is one  *)
(* record of the account (dto.UserSetting); each part is saved by its own  *)
(* request, and shown from its own reading of the account:                 *)
(* PersonalSetting reads it for the form and the language,                 *)
(* NotificationSettings for the switches of the sidebar, useSidebar for    *)
(* the sidebar itself.                                                     *)
(***************************************************************************)
EXTENDS Integers, FiniteSets

CONSTANT
    MaxTries  \* bound: what the user edits and asks for

VARIABLES
    server,   \* the account's setting: [type, url, accept, off, lang]
    user,     \* userState.user.setting, the page's copy of it
    form,     \* notificationSettings: [type, url, accept]
    sidebar,  \* sidebarModulesUser: what is switched off
    bar,      \* userConfig of the sidebar's own useSidebar
    admin,    \* the administrator allows the section
    language, \* currentLanguage
    busy,     \* sidebarLoading
    jobs,     \* requests under way: [kind, sent, user, was, done, ok]
    view      \* history: calm, no change was asked for over another or over a
              \* reading of what it changes; kept, no answer was lost; whole, no
              \* notifications were saved; edited, what was since it was read;
              \* clicks, made

vars == <<server, user, form, sidebar, bar, admin, language, busy, jobs, view>>

Kinds == {"email", "webhook"}   \* Bark and Gotify are as the second
Parts == {"section", "module"}  \* of the sidebar, and what is in it
Unset == {"unset"}              \* sidebar_modules was never saved
Languages == {1, 2}             \* 0 for none
Settings ==
    [type : Kinds, url : 0..1, accept : BOOLEAN,
     off : {Unset} \union SUBSET Parts, lang : Languages \union {0}]
New == [type |-> "email", url |-> 0, accept |-> FALSE, off |-> Unset, lang |-> 0]
Old == [type |-> "webhook", url |-> 1, accept |-> TRUE,
        off |-> {"module"}, lang |-> 2]

\* What the form shows of a setting.
FormOf(s) == [type |-> s.type, url |-> s.url, accept |-> s.accept]

Changes == {"save", "modules", "language"}
Readings == {"user", "sidebar", "bar", "refresh"}
Request(kind) ==
    [kind |-> kind, sent |-> New, user |-> New, was |-> 0, done |-> FALSE, ok |-> FALSE]
Of(kinds) == {j \in jobs : j.kind \in kinds}

\* A new account; one of which the page has no copy yet, with a closed section.
Starts == {<<New, New, TRUE>>, <<Old, New, FALSE>>}

Init ==
    /\ \E s \in Starts : server = s[1] /\ user = s[2] /\ admin = s[3]
    /\ form = FormOf(user)
    /\ sidebar = {} /\ bar = {}
    /\ language = (IF user.lang = 0 THEN 1 ELSE user.lang)
    /\ busy = FALSE
    /\ view = [calm |-> TRUE, kept |-> TRUE, whole |-> TRUE, edited |-> {}, clicks |-> 0]
    /\ jobs = {Request(kind) : kind \in {"user", "sidebar", "bar"}}

-----------------------------------------------------------------------------
(* What the page shows. *)

\* isAllowedByAdmin: a section the administrator has closed is not listed.
SectionListed == admin
SectionOn == "section" \notin sidebar
ModuleUsable == SectionListed /\ SectionOn
ModuleOn == "module" \notin sidebar

\* A kind of notification shows its own detail, which it needs except by mail.
DetailShown(kind) == form.type = kind
Complete == form.type # "email" => form.url # 0

\* One button saves the form, or on the fourth of its tabs the sidebar.
SaveUsable == Complete
ModulesUsable == ~busy

\* finalConfig: what both the administrator and the user allow.
ModuleVisible == admin /\ bar \intersect Parts = {}

-----------------------------------------------------------------------------
(* The user. *)

Edited(part) ==
    /\ view.clicks < MaxTries
    /\ view' = [view EXCEPT !.clicks = @ + 1, !.edited = @ \union {part}]
Notify(f) ==
    /\ f # form /\ form' = f /\ Edited("form")
    /\ UNCHANGED <<server, user, sidebar, bar, admin, language, busy, jobs>>

ChooseKind(kind) == Notify([form EXCEPT !.type = kind])
TypeDetail(d) == DetailShown("webhook") /\ Notify([form EXCEPT !.url = d])
SwitchAccept == Notify([form EXCEPT !.accept = ~@])

Sidebar(off) ==
    /\ off # sidebar /\ sidebar' = off /\ Edited("sidebar")
    /\ UNCHANGED <<server, user, form, bar, admin, language, busy, jobs>>
Flip(part) == IF part \in sidebar THEN sidebar \ {part} ELSE sidebar \union {part}
handleSectionChange == SectionListed /\ Sidebar(Flip("section"))
handleModuleChange == ModuleUsable /\ Sidebar(Flip("module"))
resetSidebarModules == Sidebar({})

\* A change is asked for: what it overtakes is remembered.
Ask(j, over) ==
    /\ view.clicks < MaxTries /\ jobs' = jobs \union {j}
    /\ view' = [view EXCEPT !.clicks = @ + 1, !.calm = @ /\ Of(Changes \union over) = {},
                            !.whole = @ /\ j.kind # "save"]

\* The button of the form does not wait for its answer.
saveNotificationSettings ==
    /\ SaveUsable
    /\ Ask([Request("save") EXCEPT !.sent =
              [New EXCEPT !.type = form.type, !.url = form.url, !.accept = form.accept]], {"user"})
    /\ UNCHANGED <<server, user, form, sidebar, bar, admin, language, busy>>

saveSidebarSettings ==
    /\ ModulesUsable /\ busy' = TRUE
    /\ Ask([Request("modules") EXCEPT !.sent = [New EXCEPT !.off = sidebar]], Readings \ {"user"})
    /\ UNCHANGED <<server, user, form, sidebar, bar, admin, language>>

\* The language is shown before it is saved.
handleLanguagePreferenceChange(lang) ==
    /\ lang # language /\ language' = lang
    /\ Ask([Request("language") EXCEPT !.sent = [New EXCEPT !.lang = lang], !.user = user,
                                       !.was = language], {"user"})
    /\ UNCHANGED <<server, user, form, sidebar, bar, admin, busy>>

-----------------------------------------------------------------------------
(* The server. *)

\* UpdateUserSetting writes a new record: the details of the other kinds, the
\* sidebar and the language are not in it.
Renewed(s) == [s EXCEPT !.url = IF s.type = "webhook" THEN @ ELSE 0]

\* UpdateSelf changes one field of what it reads.
Patched(j) ==
    IF j.kind = "modules" THEN [server EXCEPT !.off = j.sent.off]
    ELSE [server EXCEPT !.lang = j.sent.lang]

Served(j, ok) ==
    /\ j.kind \in Changes /\ ~j.done
    /\ jobs' = (jobs \ {j}) \union {[j EXCEPT !.done = TRUE, !.ok = ok]}
    /\ server' = IF ~ok THEN server
                 ELSE IF j.kind = "save" THEN Renewed(j.sent) ELSE Patched(j)
    /\ UNCHANGED <<user, form, sidebar, bar, admin, language, busy, view>>

-----------------------------------------------------------------------------
(* The answers.  A reading is taken when its answer comes: one that a change *)
(* overtakes is not calm anyway. *)

\* Two effects follow the page's copy: the form is filled again, and the
\* language set if there is one.
Known(s) ==
    /\ user' = s
    /\ IF s # user
       THEN /\ form' = FormOf(s)
            /\ language' = IF s.lang = 0 THEN language ELSE s.lang
            /\ view' = [view EXCEPT !.edited = @ \ {"form"}]
       ELSE UNCHANGED <<form, language, view>>

getUserData(j) ==
    /\ j.kind = "user" /\ Known(server) /\ jobs' = jobs \ {j}
    /\ UNCHANGED <<server, sidebar, bar, admin, busy>>

\* The switches are filled if sidebar_modules was ever saved.
loadSidebarConfigs(j) ==
    /\ j.kind = "sidebar" /\ jobs' = jobs \ {j}
    /\ IF server.off = Unset THEN UNCHANGED <<sidebar, view>>
       ELSE sidebar' = server.off /\ view' = [view EXCEPT !.edited = @ \ {"sidebar"}]
    /\ UNCHANGED <<server, user, form, bar, admin, language, busy>>

\* loadUserConfig: without a configuration of its own everything is on.
loadUserConfig(j) ==
    /\ j.kind = "bar" /\ jobs' = jobs \ {j}
    /\ bar' = server.off \ Unset
    /\ UNCHANGED <<server, user, form, sidebar, admin, language, busy, view>>

\* refreshUserConfig: this page's reading first, then the event for the others.
refreshUserConfig(j) ==
    /\ j.kind = "refresh"
    /\ jobs' = (jobs \ {j}) \union {Request("bar")} /\ busy' = FALSE
    /\ UNCHANGED <<server, user, form, sidebar, bar, admin, language, view>>

\* What was saved is read back.
Saved(j) ==
    /\ j.kind = "save" /\ j.done /\ j.ok
    /\ jobs' = (jobs \ {j}) \union {Request("user")}
    /\ view' = [view EXCEPT !.calm = @ /\ Of({"language"}) = {}]
    /\ UNCHANGED <<server, user, form, sidebar, bar, admin, language, busy>>

\* Nothing is read back; the switches are as they were saved, unless they were
\* changed since.
ModulesSaved(j) ==
    /\ j.kind = "modules" /\ j.done /\ j.ok
    /\ jobs' = (jobs \ {j}) \union {Request("refresh")}
    /\ view' = [view EXCEPT !.edited =
                  IF sidebar = j.sent.off THEN @ \ {"sidebar"} ELSE @]
    /\ UNCHANGED <<server, user, form, sidebar, bar, admin, language, busy>>

\* The page's copy is the one of the click, with the language put in.
LanguageSaved(j) ==
    /\ j.kind = "language" /\ j.done /\ j.ok
    /\ Known([j.user EXCEPT !.lang = j.sent.lang]) /\ jobs' = jobs \ {j}
    /\ UNCHANGED <<server, sidebar, bar, admin, busy>>

\* A refused or lost change: the language goes back to that of the click.
Back(j) ==
    /\ language' = IF j.kind = "language" THEN j.was ELSE language
    /\ busy' = (busy /\ j.kind # "modules")
    /\ UNCHANGED <<server, user, form, sidebar, admin>>

Refused(j) ==
    /\ j.kind \in Changes /\ j.done /\ ~j.ok /\ Back(j) /\ jobs' = jobs \ {j}
    /\ UNCHANGED <<bar, view>>

\* A reading that fails leaves things as they are, except that the sidebar then
\* shows everything, and the event of a refresh is sent all the same.
\* Bound: one answer is lost.
Lost(j) ==
    /\ view.kept
    /\ Back([j EXCEPT !.kind = IF @ = "refresh" THEN "modules" ELSE @])
    /\ jobs' = (jobs \ {j}) \union (IF j.kind = "refresh" THEN {Request("bar")} ELSE {})
    /\ bar' = IF j.kind = "bar" THEN {} ELSE bar
    /\ view' = [view EXCEPT !.kept = FALSE]

Next ==
    \/ \E kind \in Kinds : ChooseKind(kind)
    \/ \E d \in 0..1 : TypeDetail(d)
    \/ SwitchAccept \/ handleSectionChange \/ handleModuleChange \/ resetSidebarModules
    \/ saveNotificationSettings \/ saveSidebarSettings
    \/ \E lang \in Languages : handleLanguagePreferenceChange(lang)
    \/ \E j \in jobs :
          \/ \E ok \in BOOLEAN : Served(j, ok)
          \/ getUserData(j) \/ loadSidebarConfigs(j) \/ loadUserConfig(j) \/ refreshUserConfig(j)
          \/ Saved(j) \/ ModulesSaved(j) \/ LanguageSaved(j) \/ Refused(j) \/ Lost(j)

Spec == Init /\ [][Next]_vars

-----------------------------------------------------------------------------
(* Types and properties. *)

TypeOK ==
    /\ {server, user} \subseteq Settings /\ form \in [type : Kinds, url : 0..1, accept : BOOLEAN]
    /\ sidebar \subseteq Parts /\ bar \subseteq Parts /\ {admin, busy} \subseteq BOOLEAN
    /\ language \in Languages
    /\ \A j \in jobs : j.kind \in Changes \union Readings /\ {j.sent, j.user} \subseteq Settings
    /\ view.edited \subseteq {"form", "sidebar"} /\ view.clicks \in 0..MaxTries

AtRest == jobs = {} /\ view.calm /\ view.kept

\* At rest, what is not being edited is what the account has, unless a change
\* overtook another request or an answer was lost: the form, also after it
\* saved its kind and the server forgot the details of the others, and after
\* the language was put into the page's copy of the setting.
FormIsSaved == (AtRest /\ "form" \notin view.edited) => form = FormOf(server)

\* So are the switches of the sidebar and the language, and the sidebar shows
\* what its switches and the administrator say, until the notifications are
\* saved: the server then drops both from the record, and no part of the page
\* reads it again.
RestIsSaved ==
    (AtRest /\ view.whole) =>
       /\ "sidebar" \notin view.edited =>
              /\ SectionOn <=> "section" \notin server.off
              /\ ModuleOn <=> "module" \notin server.off
       /\ server.lang # 0 => language = server.lang
       /\ ModuleVisible <=> (admin /\ server.off \intersect Parts = {})
=============================================================================
