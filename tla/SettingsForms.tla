--------------------------- MODULE SettingsForms ----------------------------
(***************************************************************************)
(* The administrator's settings (components/settings, pages/Setting): a    *)
(* tab loads every option with one GET and hands them to its forms; a form *)
(* keeps what the user edits (inputs) beside what it was given (row), saves *)
(* with one PUT per option, all at once, and has the tab load again.       *)
(*                                                                         *)
(* A form is the record of which options it sends and when.  Of a form TLC *)
(* takes two options, of different kinds if there are; forms of the same   *)
(* kinds behave alike, so one of each is enough.  Another form of the tab  *)
(* is what its saving does to this one: a refresh at any time.  Another    *)
(* administrator writes to the same server.                                *)
(***************************************************************************)
EXTENDS FiniteSetsExt, Naturals

CONSTANTS
    MaxSaves,   \* bound: what the user edits and saves, each
    MaxOthers   \* bound: refreshes of other forms, saves of other administrators

VARIABLES
    form,     \* the form, a record of AllForms
    server,   \* the options of the server
    inputs,   \* inputs
    row,      \* inputsRow, originInputs
    puts,     \* requestQueue: [key, value, edited, state]
    late,     \* PUTs still on their way although the save was given up
    get,      \* the GET of the tab, if one is under way
    told,     \* the last message: "none", "saved", "error", "stuck"
    taken,    \* history: the server took every value of the last save
    edited,   \* history: edited since the form was last filled
    stale,    \* history: since then the server may have changed unseen
    count     \* bounds: edits, saves, others' saves

vars == <<form, server, inputs, row, puts, late, get, told, taken, edited, stale, count>>

None == ""
NoGet == [on |-> FALSE, answer |-> <<>>, old |-> FALSE]
Texts == {None, "x", "y"}
Odd == "odd"  \* a text the form's own rules refuse

-----------------------------------------------------------------------------
(* The forms.  changed: sent if it differs from row; given: sent if it is   *)
(* not empty; always: sent.  secret: GetOptions leaves it out; filled:      *)
(* never sent empty; validated: looked at before anything is sent; extra:   *)
(* possibly sent although not edited; own: not an option; fetched: replaced *)
(* by the well-known document.  checked: the answers' success is looked at; *)
(* rebased: row becomes inputs after a save; refreshed: the tab loads again *)
(* after a save; instant: saved by its own click; covered: behind a spinner *)
(* while it saves; alone: its tab has no other form.                        *)

Plain == [changed |-> {}, given |-> {}, always |-> {}, secret |-> {}, filled |-> {},
          validated |-> {}, extra |-> {}, own |-> {}, fetched |-> {}, checked |-> FALSE,
          rebased |-> FALSE, refreshed |-> TRUE, instant |-> FALSE, covered |-> TRUE,
          alone |-> FALSE]
Compared(keys) == [Plain EXCEPT !.changed = keys]
Only(f) == [f EXCEPT !.alone = TRUE]

SettingsCreditLimit ==
    Compared({"QuotaForNewUser", "PreConsumedQuota", "QuotaForInviter", "QuotaForInvitee",
              "quota_setting.enable_free_model_pre_consume"})
SettingsCheckin ==
    Compared({"checkin_setting.enabled", "checkin_setting.min_quota", "checkin_setting.max_quota"})
SettingsSensitiveWords ==
    Compared({"CheckSensitiveEnabled", "CheckSensitiveOnPromptEnabled", "SensitiveWords"})
\* historyTimestamp belongs to the cleaning of the log and is not saved.
SettingsLog == [Compared({"LogConsumeEnabled"}) EXCEPT !.own = {"historyTimestamp"}]
StatusCodeRules == {"AutomaticDisableStatusCodes", "AutomaticRetryStatusCodes"}
SettingsMonitoring ==
    [Compared({"ChannelDisableThreshold", "QuotaRemindThreshold", "AutomaticDisableChannelEnabled",
               "AutomaticEnableChannelEnabled", "AutomaticDisableKeywords",
               "monitor_setting.auto_test_channel_enabled",
               "monitor_setting.auto_test_channel_minutes"} \union StatusCodeRules)
        EXCEPT !.validated = StatusCodeRules]
\* The rate of one dollar is the option the display type selects.
CombinedRate == {"USDExchangeRate", "QuotaPerUnit", "general_setting.custom_currency_exchange_rate"}
SettingsGeneral ==
    Compared({"TopUpLink", "general_setting.docs_link", "general_setting.quota_display_type",
              "general_setting.custom_currency_symbol", "RetryTimes", "DisplayTokenStatEnabled",
              "DefaultCollapseSidebar", "DemoSiteEnabled", "SelfUseModeEnabled",
              "token_setting.max_user_tokens"} \union CombinedRate)
SettingsDrawing ==
    Only(Compared({"DrawingEnabled", "MjNotifyEnabled", "MjAccountFilterEnabled",
                   "MjForwardUrlEnabled", "MjModeClearEnabled", "MjActionCheckSuccessEnabled"}))
SettingsDataDashboard ==
    Compared({"DataExportEnabled", "DataExportInterval", "DataExportDefaultTime"})
SettingsPerformance ==
    Only(Compared({"performance_setting.disk_cache_enabled", "performance_setting.disk_cache_path",
                   "performance_setting.disk_cache_threshold_mb", "performance_setting.monitor_enabled",
                   "performance_setting.disk_cache_max_size_mb",
                   "performance_setting.monitor_cpu_threshold",
                   "performance_setting.monitor_memory_threshold",
                   "performance_setting.monitor_disk_threshold"}))
SettingGrokModel ==
    [Compared({"grok.violation_deduction_enabled", "grok.violation_deduction_amount"})
        EXCEPT !.validated = {"grok.violation_deduction_amount"}]
GeminiTexts == {"gemini.safety_settings", "gemini.version_settings", "gemini.supported_imagine_models"}
SettingGeminiModel ==
    [Compared(GeminiTexts \union
              {"gemini.thinking_adapter_enabled", "gemini.thinking_adapter_budget_tokens_percentage",
               "gemini.function_call_thought_signature_enabled",
               "gemini.remove_function_response_id_enabled"})
        EXCEPT !.validated = GeminiTexts]
\* Their rules only mark the field; onSubmit does not ask for them.
SettingClaudeModel ==
    Compared({"claude.model_headers_settings", "claude.thinking_adapter_enabled",
              "claude.default_max_tokens", "claude.thinking_adapter_budget_tokens_percentage"})
GlobalTexts == {"global.thinking_model_blacklist", "global.chat_completions_to_responses_policy"}
SettingGlobalModel ==
    Compared(GlobalTexts \union {"global.pass_through_request_enabled",
              "general_setting.ping_interval_enabled", "general_setting.ping_interval_seconds"})
RequestRateLimit ==
    [Only(Compared({"ModelRequestRateLimitEnabled", "ModelRequestRateLimitCount",
               "ModelRequestRateLimitSuccessCount", "ModelRequestRateLimitDurationMinutes",
               "ModelRequestRateLimitGroup"})) EXCEPT !.checked = TRUE]

GroupTexts == {"GroupRatio", "UserUsableGroups", "GroupGroupRatio", "AutoGroups",
               "group_ratio_setting.group_special_usable_group"}
GroupRatioSettings ==
    [Compared(GroupTexts \union {"DefaultUseAutoGroup"})
        EXCEPT !.validated = GroupTexts, !.checked = TRUE]
\* Only the models some channel offers are shown; the others are put back
\* behind them before the texts are compared, so that the order of the models
\* can differ, and an option be sent, although nobody edited it.
RatioTexts == {"ModelPrice", "ModelRatio", "CacheRatio", "CreateCacheRatio", "CompletionRatio",
               "ImageRatio", "AudioRatio", "AudioCompletionRatio"}
ModelRatioSettings ==
    [Compared(RatioTexts \union {"ExposeRatioEnabled"})
        EXCEPT !.validated = RatioTexts, !.extra = RatioTexts, !.checked = TRUE]

Replaced(keys) == [Plain EXCEPT !.always = keys, !.checked = TRUE]
SettingsHeaderNavModules == Replaced({"HeaderNavModules"})
SettingsSidebarModulesAdmin == Replaced({"SidebarModulesAdmin"})
SettingsGeneralPayment == Replaced({"ServerAddress"})

Rebased(f) == [f EXCEPT !.checked = TRUE, !.rebased = TRUE]
PayTexts == {"TopupGroupRatio", "PayMethods", "AmountOptions", "AmountDiscount"}
SettingsPaymentGateway ==
    Rebased([Compared(PayTexts) EXCEPT !.validated = PayTexts, !.always = {"PayAddress"},
        !.given = {"EpayId", "EpayKey", "Price", "MinTopUp", "CustomCallbackAddress"},
        !.secret = {"EpayKey"}])
StripeSecrets == {"StripeApiSecret", "StripeWebhookSecret"}
SettingsPaymentGatewayStripe ==
    Rebased([Compared({"StripePromotionCodesEnabled"}) EXCEPT !.secret = StripeSecrets,
        !.given = {"StripePriceId"} \union StripeSecrets,
        !.always = {"StripeUnitPrice", "StripeMinTopUp"}])
CreemSecrets == {"CreemApiKey", "CreemWebhookSecret"}
SettingsPaymentGatewayCreem ==
    Rebased([Plain EXCEPT !.given = CreemSecrets, !.secret = CreemSecrets,
        !.always = {"CreemTestMode", "CreemProducts"}])
WaffoSecrets == {"WaffoApiKey", "WaffoPrivateKey", "WaffoSandboxApiKey", "WaffoSandboxPrivateKey"}
SettingsPaymentGatewayWaffo ==
    Rebased([Plain EXCEPT !.given = WaffoSecrets, !.secret = WaffoSecrets,
        !.always = {"WaffoEnabled", "WaffoPublicCert", "WaffoSandboxPublicCert", "WaffoSandbox",
                    "WaffoMerchantId", "WaffoCurrency", "WaffoUnitPrice", "WaffoMinTopUp",
                    "WaffoNotifyUrl", "WaffoReturnUrl", "WaffoPayMethods"}])

-----------------------------------------------------------------------------
(* SystemSetting loads once and neither refreshes nor looks at the answers   *)
(* of its texts; each card is a form of its own, each checkbox too.          *)

Card(f) == [f EXCEPT !.refreshed = FALSE]
OAuth(id, hidden) == Card([Compared({id, hidden}) EXCEPT !.secret = {hidden}, !.filled = {hidden}])

submitServerAddress == Card([Plain EXCEPT !.always = {"ServerAddress"}])
submitWorker ==
    Card([Plain EXCEPT !.always = {"WorkerUrl", "WorkerAllowHttpImageRequestEnabled"},
        !.given = {"WorkerValidKey"}, !.secret = {"WorkerValidKey"}])
submitSMTP ==
    Card([Compared({"SMTPServer", "SMTPAccount", "SMTPFrom", "SMTPPort", "SMTPToken"})
        EXCEPT !.secret = {"SMTPToken"}, !.filled = {"SMTPPort", "SMTPToken"}])
submitEmailDomainWhitelist == Card([Plain EXCEPT !.always = {"EmailDomainWhitelist"}])
submitSSRF ==
    Card([Plain EXCEPT !.always = {"fetch_setting.domain_filter_mode", "fetch_setting.domain_list",
        "fetch_setting.ip_filter_mode", "fetch_setting.ip_list", "fetch_setting.allowed_ports"}])
submitWeChat ==
    Card([Compared({"WeChatServerAddress", "WeChatAccountQRCodeImageURL", "WeChatServerToken"})
        EXCEPT !.secret = {"WeChatServerToken"}, !.filled = {"WeChatServerToken"}])
submitGitHubOAuth == OAuth("GitHubClientId", "GitHubClientSecret")
submitDiscordOAuth == OAuth("discord.client_id", "discord.client_secret")
\* The endpoints are replaced by what the well-known document says.
OIDCEndpoints == {"oidc.authorization_endpoint", "oidc.token_endpoint", "oidc.user_info_endpoint"}
submitOIDCSettings ==
    Card([Compared({"oidc.well_known", "oidc.client_id", "oidc.client_secret"}
                   \union OIDCEndpoints)
        EXCEPT !.secret = {"oidc.client_secret"}, !.filled = {"oidc.client_secret"},
               !.fetched = OIDCEndpoints])
submitTelegramSettings ==
    Card([Plain EXCEPT !.always = {"TelegramBotToken", "TelegramBotName"},
        !.secret = {"TelegramBotToken"}])
submitTurnstile ==
    Card([Compared({"TurnstileSiteKey", "TurnstileSecretKey"})
        EXCEPT !.secret = {"TurnstileSiteKey", "TurnstileSecretKey"},
               !.filled = {"TurnstileSecretKey"}])
submitLinuxDOOAuth ==
    Card([Compared({"LinuxDOClientId", "LinuxDOClientSecret", "LinuxDOMinimumTrustLevel"})
        EXCEPT !.secret = {"LinuxDOClientSecret"}, !.filled = {"LinuxDOClientSecret"}])
submitPasskeySettings ==
    Card([Plain EXCEPT !.always = {"passkey.rp_display_name", "passkey.rp_id",
        "passkey.user_verification", "passkey.attachment_preference", "passkey.origins"}])
SignInSwitches ==
    {"PasswordLoginEnabled", "PasswordRegisterEnabled", "EmailVerificationEnabled",
     "RegisterEnabled", "TurnstileCheckEnabled", "GitHubOAuthEnabled", "LinuxDOOAuthEnabled",
     "WeChatAuthEnabled", "TelegramOAuthEnabled"}
\* updateOptions stops at the first refusal of an option named "...enabled".
Switch(o) == Card([Plain EXCEPT !.always = {o}, !.instant = TRUE, !.checked = TRUE])
Switches == {Switch(o) : o \in SignInSwitches \union
                {"discord.enabled", "oidc.enabled", "passkey.enabled",
                 "EmailDomainRestrictionEnabled", "EmailAliasRestrictionEnabled", "SMTPSSLEnabled"}}

\* OtherSetting: one button per text; the page stays open while it saves.
OtherSetting ==
    {[Card([Plain EXCEPT !.always = {o}]) EXCEPT !.covered = FALSE] :
        o \in {"Notice", "legal.user_agreement", "legal.privacy_policy", "SystemName", "Logo",
               "Footer", "About", "HomePageContent"}}
SystemSetting ==
    {submitServerAddress, submitWorker, submitSMTP, submitEmailDomainWhitelist, submitSSRF,
     submitWeChat, submitGitHubOAuth, submitDiscordOAuth, submitOIDCSettings,
     submitTelegramSettings, submitTurnstile, submitLinuxDOOAuth, submitPasskeySettings}
    \union Switches

-----------------------------------------------------------------------------
(* The tabs. *)

OperationSetting ==
    {SettingsGeneral, SettingsHeaderNavModules, SettingsSidebarModulesAdmin,
     SettingsSensitiveWords, SettingsLog, SettingsMonitoring, SettingsCreditLimit, SettingsCheckin}
ModelSetting == {SettingGlobalModel, SettingGeminiModel, SettingClaudeModel, SettingGrokModel}
PaymentSetting ==
    {SettingsGeneralPayment, SettingsPaymentGateway, SettingsPaymentGatewayStripe,
     SettingsPaymentGatewayCreem, SettingsPaymentGatewayWaffo}
RatioSetting == {ModelRatioSettings, GroupRatioSettings}
DrawingSetting == {SettingsDrawing}
RateLimitSetting == {RequestRateLimit}
PerformanceSetting == {SettingsPerformance}
DashboardSetting == {SettingsDataDashboard}

Tabs == {OperationSetting, ModelSetting, PaymentSetting, RatioSetting, DrawingSetting,
         RateLimitSetting, PerformanceSetting, DashboardSetting, SystemSetting, OtherSetting}
AllForms == UNION Tabs
HasSibling(f) == f.refreshed /\ ~f.alone
-----------------------------------------------------------------------------
(* What TLC takes of a form. *)

Options(f) == f.changed \union f.given \union f.always \union f.own
Sets == {"changed", "given", "always", "secret", "filled", "validated", "extra", "own", "fetched"}
Kind(f, k) == {s \in Sets : k \in f[s]}
\* One option of each kind.
Sample(f) == {CHOOSE k \in Options(f) : Kind(f, k) = c : c \in {Kind(f, k) : k \in Options(f)}}
Samples(f) ==
    LET one == Sample(f)
    IN  IF Cardinality(one) > 1 THEN kSubset(2, one)
        ELSE {one \union {CHOOSE k \in Options(f) : Options(f) = one \/ k \notin one}}
Shape(f) == [f EXCEPT !.changed = {}, !.given = {}, !.always = {}, !.secret = {}, !.filled = {},
                      !.validated = {}, !.extra = {}, !.own = {}, !.fetched = {}]
Nature(f) == <<Shape(f), {Kind(f, k) : k \in Options(f)}, Cardinality(Options(f)) > 1,
               "WorkerValidKey" \in Options(f)>>
\* One form of each nature.
Forms == {CHOOSE f \in AllForms : Nature(f) = n : n \in {Nature(f) : f \in AllForms}}

\* A form of SystemSetting has no value at all for an option it was not given;
\* sent, that is a value of nil, which UpdateOption formats.
Missing == "undefined"
Nil == "<nil>"
Shown(k, v) ==
    IF k \notin form.secret THEN v ELSE IF form.refreshed THEN None ELSE Missing
Written(v) == IF v = Missing THEN Nil ELSE v

Init ==
    /\ form \in Forms
    /\ \E ks \in Samples(form) :
        server = [k \in ks |-> "x"]
    /\ inputs = [k \in DOMAIN server |-> Shown(k, server[k])]
    /\ row = inputs
    /\ puts = {} /\ late = {} /\ get = NoGet
    /\ told = "none" /\ taken = TRUE /\ edited = {} /\ stale = FALSE
    /\ count = [edits |-> 0, saves |-> 0, others |-> 0]

Loading == get.on \/ told = "stuck"
Counted(what) ==
    /\ count[what] < IF what = "others" THEN MaxOthers ELSE MaxSaves
    /\ count' = [count EXCEPT ![what] = @ + 1]

-----------------------------------------------------------------------------
(* Saving. *)

\* compareObjects and the conditions of the payment forms and the cards.
Sending(now) ==
    {k \in DOMAIN now :
        \/ k \in form.changed /\ now[k] # row[k] /\ (k \in form.filled => now[k] # None)
        \/ k \in form.given /\ now[k] # None
        \/ k = "WorkerValidKey" /\ "WorkerUrl" \in DOMAIN now /\ now["WorkerUrl"] = None
        \/ k \in form.always}

Queue(now, ks) ==
    {[key |-> k, value |-> now[k], edited |-> k \in edited \union form.fetched, state |-> "sent"] :
        k \in ks}

\* The user edits an option.  Of a page that is not behind a spinner also while
\* it saves.
Edit ==
    /\ ~Loading /\ (puts = {} \/ ~form.covered)
    /\ Counted("edits")
    /\ \E k \in DOMAIN inputs, v \in Texts \union {Odd} :
        /\ v # inputs[k] /\ (v = Odd => k \in form.validated)
        /\ inputs' = [inputs EXCEPT ![k] = v]
        /\ edited' = edited \union {k}
        /\ told' = IF told = "saved" THEN "none" ELSE told
        /\ IF form.instant
           THEN puts' = {[key |-> k, value |-> v, edited |-> TRUE, state |-> "sent"]} /\ taken' = TRUE
           ELSE UNCHANGED <<puts, taken>>
    /\ UNCHANGED <<form, server, row, late, get, stale>>

\* onSubmit: nothing is sent while a text breaks the form's rules, or if there
\* is nothing to send.
onSubmit ==
    /\ ~Loading /\ puts = {} /\ ~form.instant
    /\ Counted("saves")
    /\ \A k \in DOMAIN inputs : inputs[k] # Odd
    /\ \E doc \in {"x", "y"}, more \in SUBSET form.extra :
        LET now == [k \in DOMAIN inputs |->
                       IF k \in form.fetched /\ "oidc.well_known" \in DOMAIN inputs
                          /\ inputs["oidc.well_known"] # None
                       THEN doc ELSE inputs[k]]
        IN  /\ inputs' = now
            /\ puts' = Queue(now, Sending(now) \union (more \intersect DOMAIN now))
    /\ puts' # {}
    /\ taken' = TRUE /\ told' = "none"
    /\ UNCHANGED <<form, server, row, late, get, edited, stale>>

\* The server takes the value, refuses it, or the connection breaks before or
\* after it has.
Put(p, done) ==
    server' = IF done THEN [server EXCEPT ![p.key] = Written(p.value)] ELSE server

Answer ==
    /\ \E p \in puts, r \in {"ok", "refused", "lost", "broken"} :
        /\ p.state = "sent"
        /\ Put(p, r \in {"ok", "broken"})
        /\ taken' = (taken /\ r = "ok")
        /\ puts' = (puts \ {p}) \union
             {[p EXCEPT !.state = IF r \in {"lost", "broken"} THEN "failed" ELSE r]}
    /\ UNCHANGED <<form, inputs, row, late, get, told, edited, stale, count>>

\* The tab's onRefresh; while a GET is on its way it is that GET that answers.
Refreshed == IF get.on THEN [get EXCEPT !.old = TRUE] ELSE [NoGet EXCEPT !.on = TRUE]

\* From now on the form does not know what the server has, until it asks again.
Overtaken ==
    /\ stale' = (stale \/ ~get.on)
    /\ get' = [get EXCEPT !.old = get.on]

\* Promise.all has every answer.  A card keeps the row it loaded.
Saved ==
    /\ puts # {} /\ \A p \in puts : p.state \in {"ok", "refused"}
    /\ LET refused == \E p \in puts : p.state = "refused"
           sent == {p.key : p \in puts}
           value(k) == (CHOOSE p \in puts : p.key = k).value
       IN  IF form.checked /\ refused
           THEN /\ told' = IF form.instant THEN "stuck" ELSE "error"
                /\ Overtaken
                /\ UNCHANGED <<inputs, row>>
           ELSE /\ told' = "saved"
                /\ get' = IF form.refreshed THEN Refreshed ELSE get
                /\ inputs' = [k \in DOMAIN inputs |->
                                 IF ~form.refreshed /\ k \in sent /\ (~form.covered => ~refused)
                                 THEN value(k) ELSE inputs[k]]
                /\ row' = IF form.rebased THEN inputs ELSE row
                /\ stale' = stale
    /\ puts' = {}
    /\ UNCHANGED <<form, server, late, taken, edited, count>>

\* It has the first failure; the others may still arrive.
Failed ==
    /\ \E p \in puts : p.state = "failed"
    /\ late' = late \union {p \in puts : p.state = "sent"}
    /\ puts' = {} /\ told' = "error"
    /\ Overtaken
    /\ UNCHANGED <<form, server, inputs, row, taken, edited, count>>

\* What arrives after that, and what another administrator saves.
LateAnswer ==
    /\ \E p \in late, done \in BOOLEAN : Put(p, done) /\ late' = late \ {p}
    /\ Overtaken
    /\ UNCHANGED <<form, inputs, row, puts, told, taken, edited, count>>
Another ==
    /\ Counted("others")
    /\ \E k \in DOMAIN server \ form.own, v \in {"x", "y"} :
        v # server[k] /\ server' = [server EXCEPT ![k] = v]
    /\ Overtaken
    /\ UNCHANGED <<form, inputs, row, puts, late, told, taken, edited>>

-----------------------------------------------------------------------------
(* Loading. *)

\* Another form of the tab was saved before and its refresh comes now.
Sibling ==
    /\ HasSibling(form) /\ ~get.on
    /\ Counted("others")
    /\ get' = Refreshed
    /\ UNCHANGED <<form, server, inputs, row, puts, late, told, taken, edited, stale>>

Asked ==
    /\ get.on /\ get.answer = <<>>
    /\ get' = [get EXCEPT !.answer = <<server>>]
    /\ UNCHANGED <<form, server, inputs, row, puts, late, told, taken, edited, stale, count>>

\* A bug: the effect fills the form and forgets the baseline of its comparison.
LoadedWithoutRow ==
    /\ get.answer # <<>> /\ get' = NoGet
    /\ inputs' = [k \in DOMAIN inputs |->
                     IF k \in form.own THEN inputs[k] ELSE Shown(k, get.answer[1][k])]
    /\ edited' = {} /\ stale' = get.old
    /\ UNCHANGED <<form, server, row, puts, late, told, taken, count>>

\* getOptions replaces the options, and the effect of every form of the tab its
\* inputs and its row, saved or not; or the GET fails.
Loaded ==
    /\ get.answer # <<>> /\ get' = NoGet
    /\ \/ /\ inputs' = [k \in DOMAIN inputs |->
                           IF k \in form.own THEN inputs[k] ELSE Shown(k, get.answer[1][k])]
          /\ row' = inputs'
          /\ edited' = {}
          /\ stale' = get.old
       \/ stale' = TRUE /\ UNCHANGED <<inputs, row, edited>>
    /\ UNCHANGED <<form, server, puts, late, told, taken, count>>

Next == Edit \/ onSubmit \/ Answer \/ Saved \/ Failed \/ LateAnswer \/ Another
        \/ Sibling \/ Asked \/ Loaded
Spec == Init /\ [][Next]_vars

-----------------------------------------------------------------------------
(* Properties. *)

\* Type correctness.
TypeOK ==
    /\ DOMAIN inputs \subseteq Options(form)
    /\ DOMAIN inputs = DOMAIN server /\ DOMAIN row = DOMAIN server
    /\ \A p \in puts \union late : p.key \in DOMAIN server
    /\ told \in {"none", "saved", "error", "stuck"} /\ {taken, stale} \subseteq BOOLEAN
    /\ edited \subseteq DOMAIN server

Quiet == puts = {} /\ late = {} /\ ~get.on /\ ~stale

\* Once a tab has said "saved" and loaded again, its form shows what the server
\* has, unless the load began before the save or another administrator has
\* written since (onSubmit, onRefresh and the forms' effects on props.options).
SavedIsShown ==
    Quiet /\ told = "saved" /\ form.refreshed =>
        \A k \in DOMAIN server \ form.own :
            row[k] = Shown(k, server[k]) /\ inputs[k] = row[k]

\* A form that looks at the answers says "saved" only if the server took every
\* value (RequestRateLimit, the ratio forms, the payment forms).
SavedIsTaken == form.checked /\ told = "saved" => taken

\* What the user has edited and the server does not have is sent by the next
\* save: the baseline of the comparison is what the server has.  Not so of
\* SystemSetting, which keeps the one it loaded.
EditIsSent ==
    Quiet /\ told # "stuck" /\ (form.refreshed \/ form.always # {}) =>
        \A k \in edited \intersect (form.changed \union form.always) :
            inputs[k] \notin {Odd, server[k]} => k \in Sending(inputs)

\* A save writes an option that is sent when changed only if this user changed
\* it, so that it does not take back what another administrator has saved; and
\* a secret, which it was never shown, only if the user entered it.  Not so of
\* the cards of the worker and of Telegram, which send what they do not have.
OnlyOwnEdits ==
    \A p \in puts \union late :
        \/ p.edited
        \/ p.key \notin (form.changed \ form.extra) \union form.secret
        \/ p.key \in form.always \union {"WorkerValidKey"}
=============================================================================
