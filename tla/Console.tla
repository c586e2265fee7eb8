------------------------------ MODULE Console -------------------------------
(***************************************************************************)
(* The web console (web/src): App.jsx mounts one page at a time, and the   *)
(* state of a page is what its hooks keep while it is mounted.  The        *)
(* variables are those hooks, by position; each page names its own.        *)
(* Eleven pages are in ConsolePages, with what is proved of their steps;   *)
(* the others are here, and what follows for the console.                  *)
(***************************************************************************)
EXTENDS ConsolePages

CONSTANTS  \* bounds of the pages below
    MaxTokens, MaxOperations, MaxEdits, MaxPuts, MaxRows, MaxRowEdits, MaxOpens, MaxTyped

ASSUME ConsoleAssumption ==
    {MaxTokens, MaxOperations, MaxEdits, MaxSaves, MaxPuts, MaxOthers, MaxRows, MaxRowEdits,
     MaxItems, MaxClicks, MaxOpens, MaxTyped, MaxTries, MaxSteps, MaxRequests} \subseteq Nat

Unused == "no hook"

Usage == INSTANCE UsageLogs
    WITH usage <- h1, row <- h2, total <- h3, mode <- h4, tokens <- h5
Override == INSTANCE ParamOverride
    WITH override <- h1, written <- h2, open <- h3, editMode <- h4, visualMode <- h5,
         legacy <- h6, operations <- h7, selected <- h8, jsonText <- h9, nextId <- h10,
         edits <- h11
Lists == INSTANCE SettingsLists
    WITH panel <- h1, server <- h2, given <- h3, list <- h4, hasChanges <- h5, selected <- h6,
         modal <- h7, switch <- h8, put <- h9, get <- h10, sure <- h11, count <- h12
Dialogs == INSTANCE EditDialogs
    WITH dialog <- h1, server <- h2, editing <- h3, visible <- h4, loading <- h5, form <- h6,
         timers <- h7, gets <- h8, put <- h9, calm <- h10, opened <- h11, typed <- h12
Panels == INSTANCE RecordPanels
    WITH panel <- h1, server <- h2, visible <- h3, of <- h4, rows <- h5, memo <- h6,
         loading <- h7, seq <- h8, gets <- h9, act <- h10, calm <- h11, count <- h12
SignIn == INSTANCE SignIn
    WITH cookie <- h1, stored <- h2, state <- h3, header <- h4, page <- h5, form <- h6,
         shown <- h7, busy <- h8, count <- h9, jobs <- h10, away <- h11, view <- h12
Secure == INSTANCE SecureCheck
    WITH methods <- h1, session <- h2, editing <- h3, known <- h4, modal <- h5, key <- h6,
         jobs <- h7, view <- h8
TopUpPage == INSTANCE TopUp
    WITH topUpCount <- h1, info <- h2, amount <- h3, payWay <- h4, product <- h5, shown <- h6,
         busy <- h7, code <- h8, user <- h9, server <- h10, jobs <- h11, view <- h12
Account == INSTANCE AccountPage
    WITH email <- h1, token <- h2, passkey <- h3, bound <- h4, server <- h5, typed <- h6,
         visible <- h7, cool <- h8, loading <- h9, busy <- h10, jobs <- h11, view <- h12
Channel == INSTANCE ChannelForm
    WITH server <- h1, editing <- h2, visible <- h3, form <- h4, mode <- h5, files <- h6,
         initial <- h7, asking <- h8, gets <- h9, puts <- h10, view <- h11, count <- h12
Updates == INSTANCE UpstreamUpdates
    WITH upstream <- h1, server <- h2, rows <- h3, of <- h4, offered <- h5, ticked <- h6,
         tab <- h7, ask <- h8, put <- h9, jobs <- h10, calm <- h11, count <- h12
Pickers == INSTANCE ModelPickers
    WITH provider <- h1, editing <- h2, form <- h3, fetched <- h4, gets <- h5, picker <- h6,
         checked <- h7, choice <- h8, listed <- h9, pulls <- h10, panel <- h11, view <- h12
Twins == INSTANCE TwinEditors
    WITH editor <- h1, server <- h2, row <- h3, text <- h4, list <- h5, mode <- h6, shown <- h7,
         modal <- h8, put <- h9, count <- h10
Prices == INSTANCE PricingEditor
    WITH tab <- h1, server <- h2, options <- h3, models <- h4, listed <- h5, selected <- h6,
         chosen <- h7, toggles <- h8, put <- h9, edited <- h10, count <- h11
OAuth == INSTANCE OAuthProviders
    WITH providers <- h1, server <- h2, registry <- h3, modal <- h4, form <- h5, preset <- h6,
         base <- h7, looking <- h8, get <- h9, jobs <- h10, view <- h11

Init ==
    \/ /\ page = "usage" /\ Usage!Init
       /\ h6 = Unused /\ h7 = Unused /\ h8 = Unused /\ h9 = Unused /\ h10 = Unused /\
          h11 = Unused /\ h12 = Unused
    \/ /\ page = "override" /\ Override!Init
       /\ h12 = Unused
    \/ page = "settings" /\ Settings!Init
    \/ page = "lists" /\ Lists!Init
    \/ page = "dialogs" /\ Dialogs!Init
    \/ page = "panels" /\ Panels!Init
    \/ page = "signin" /\ SignIn!Init
    \/ /\ page = "secure" /\ Secure!Init
       /\ h9 = Unused /\ h10 = Unused /\ h11 = Unused /\ h12 = Unused
    \/ page = "topup" /\ TopUpPage!Init
    \/ /\ page = "plans" /\ PlansPage!Init
       /\ h11 = Unused /\ h12 = Unused
    \/ page = "account" /\ Account!Init
    \/ /\ page = "factor" /\ Factor!Init
       /\ h12 = Unused
    \/ /\ page = "preferences" /\ Prefer!Init
       /\ h11 = Unused /\ h12 = Unused
    \/ page = "channel" /\ Channel!Init
    \/ /\ page = "channels" /\ Channels!Init
       /\ h10 = Unused /\ h11 = Unused /\ h12 = Unused
    \/ page = "updates" /\ Updates!Init
    \/ page = "pickers" /\ Pickers!Init
    \/ /\ page = "keys" /\ Keys!Init
       /\ h11 = Unused /\ h12 = Unused
    \/ /\ page = "tests" /\ Tests!Init
       /\ h11 = Unused /\ h12 = Unused
    \/ /\ page = "twins" /\ Twins!Init
       /\ h11 = Unused /\ h12 = Unused
    \/ /\ page = "prices" /\ Prices!Init
       /\ h12 = Unused
    \/ /\ page = "sync" /\ Sync!Init
       /\ h10 = Unused /\ h11 = Unused /\ h12 = Unused
    \/ /\ page = "oauth" /\ OAuth!Init
       /\ h12 = Unused
    \/ /\ page = "square" /\ Square!Init
       /\ h11 = Unused /\ h12 = Unused
    \/ /\ page = "dashboard" /\ Dash!Init
       /\ h11 = Unused /\ h12 = Unused
    \/ page = "tables" /\ Tables!Init

UsagePage == page = "usage" /\ Usage!Next /\ UNCHANGED <<page, h6, h7, h8, h9, h10, h11, h12>>
OverridePage == page = "override" /\ Override!Next /\ UNCHANGED <<page, h12>>
SettingsPage == page = "settings" /\ Settings!Next /\ UNCHANGED page
ListsPage == page = "lists" /\ Lists!Next /\ UNCHANGED page
DialogsPage == page = "dialogs" /\ Dialogs!Next /\ UNCHANGED page
PanelsPage == page = "panels" /\ Panels!Next /\ UNCHANGED page
SignInPage == page = "signin" /\ SignIn!Next /\ UNCHANGED page
SecurePage == page = "secure" /\ Secure!Next /\ UNCHANGED <<page, h9, h10, h11, h12>>
TopUpPagePage == page = "topup" /\ TopUpPage!Next /\ UNCHANGED page
PlansPagePage == page = "plans" /\ PlansPage!Next /\ UNCHANGED <<page, h11, h12>>
AccountPage == page = "account" /\ Account!Next /\ UNCHANGED page
FactorPage == page = "factor" /\ Factor!Next /\ UNCHANGED <<page, h12>>
PreferPage == page = "preferences" /\ Prefer!Next /\ UNCHANGED <<page, h11, h12>>
ChannelPage == page = "channel" /\ Channel!Next /\ UNCHANGED page
ChannelsPage == page = "channels" /\ Channels!Next /\ UNCHANGED <<page, h10, h11, h12>>
UpdatesPage == page = "updates" /\ Updates!Next /\ UNCHANGED page
PickersPage == page = "pickers" /\ Pickers!Next /\ UNCHANGED page
KeysPage == page = "keys" /\ Keys!Next /\ UNCHANGED <<page, h11, h12>>
TestsPage == page = "tests" /\ Tests!Next /\ UNCHANGED <<page, h11, h12>>
TwinsPage == page = "twins" /\ Twins!Next /\ UNCHANGED <<page, h11, h12>>
PricesPage == page = "prices" /\ Prices!Next /\ UNCHANGED <<page, h12>>
SyncPage == page = "sync" /\ Sync!Next /\ UNCHANGED <<page, h10, h11, h12>>
OAuthPage == page = "oauth" /\ OAuth!Next /\ UNCHANGED <<page, h12>>
SquarePage == page = "square" /\ Square!Next /\ UNCHANGED <<page, h11, h12>>
DashPage == page = "dashboard" /\ Dash!Next /\ UNCHANGED <<page, h11, h12>>
TablesPage == page = "tables" /\ Tables!Next /\ UNCHANGED page

Next == UsagePage \/ OverridePage \/ SettingsPage \/ ListsPage \/ DialogsPage \/ PanelsPage \/
        SignInPage \/ SecurePage \/ TopUpPagePage \/ PlansPagePage \/ AccountPage \/ FactorPage
        \/ PreferPage \/ ChannelPage \/ ChannelsPage \/ UpdatesPage \/ PickersPage \/ KeysPage
        \/ TestsPage \/ TwinsPage \/ PricesPage \/ SyncPage \/ OAuthPage \/ SquarePage \/
        DashPage \/ TablesPage
Spec == Init /\ [][Next]_vars

-----------------------------------------------------------------------------
(* Properties: what the pages promise, each stated in its module. *)

\* Type correctness of every page.
ConsoleTypeOK ==
    /\ page = "usage" => Usage!TypeOK
    /\ page = "override" => Override!TypeOK
    /\ page = "settings" => Settings!TypeOK
    /\ page = "lists" => Lists!TypeOK
    /\ page = "dialogs" => Dialogs!TypeOK
    /\ page = "panels" => Panels!TypeOK
    /\ page = "signin" => SignIn!TypeOK
    /\ page = "secure" => Secure!TypeOK
    /\ page = "topup" => TopUpPage!TypeOK
    /\ page = "plans" => PlansPage!TypeOK
    /\ page = "account" => Account!TypeOK
    /\ page = "factor" => Factor!TypeOK
    /\ page = "preferences" => Prefer!TypeOK
    /\ page = "channel" => Channel!TypeOK
    /\ page = "channels" => Channels!TypeOK
    /\ page = "updates" => Updates!TypeOK
    /\ page = "pickers" => Pickers!TypeOK
    /\ page = "keys" => Keys!TypeOK
    /\ page = "tests" => Tests!TypeOK
    /\ page = "twins" => Twins!TypeOK
    /\ page = "prices" => Prices!TypeOK
    /\ page = "sync" => Sync!TypeOK
    /\ page = "oauth" => OAuth!TypeOK
    /\ page = "square" => Square!TypeOK
    /\ page = "dashboard" => Dash!TypeOK
    /\ page = "tables" => Tables!TypeOK

\* The price, the lines, the formula, the summary and the details of a usage
\* log row agree with the charge and with each other (UsageLogs); the amount a user
\* confirms is priced by the server (TopUp); the prices an administrator previews are
\* those that are sent (PricingEditor); the prices of the model square are what a request
\* is charged (ModelSquare); the charts add up to the figures (Dashboard).
PricesAgree ==
    /\ page = "usage" =>
           /\ Usage!ShownIsCharged
           /\ Usage!LinesAddUp
           /\ Usage!FormulaAddsUp
           /\ Usage!DetailsNameIt
    /\ page = "topup" => TopUpPage!PriceIsAsked
    /\ page = "prices" =>
           /\ Prices!PreviewIsSent
           /\ Prices!SentAsGiven
           /\ Prices!UnsendableIsWarned
    /\ page = "square" =>
           /\ Square!PriceIsCharged
           /\ Square!DiscountAgrees
           /\ Square!TokensHaveNoCurrency
    /\ page = "dashboard" => Dash!ChartsAddUp

\* What was saved in an editor comes back when it is opened (ParamOverride,
\* TwinEditors, PricingEditor); a list shows what was saved, or can be saved
\* (SettingsLists); the updates that are pending are true (UpstreamUpdates), and
\* so are the providers that are listed (OAuthProviders).
SavedComesBack ==
    /\ page = "override" => Override!IdsDiffer /\ Override!SavedReopens
    /\ page = "lists" => Lists!IdsDiffer /\ Lists!ShownIsSaved /\ Lists!SwitchIsSaved
    /\ page = "updates" => Updates!PendingIsTrue /\ Updates!SentIsOffered
    /\ page = "oauth" => OAuth!GeneratedFits /\ OAuth!RegistryIsTrue /\ OAuth!ListIsTrue
    /\ page = "twins" => Twins!TwinsAgree /\ Twins!SavedIsRead
    /\ page = "prices" => Prices!SavedReopens

\* What a form says of a save is true, it sends what was edited and no more
\* (SettingsForms, Preferences, RatioSync); the status the page shows is the server's
\* (TwoFactor, PlanPurchase).
SettingsTrue ==
    /\ page = "settings" =>
           /\ Settings!SavedIsShown
           /\ Settings!SavedIsTaken
           /\ Settings!EditIsSent
           /\ Settings!OnlyOwnEdits
    /\ page = "plans" => PlansPage!PreferenceIsTrue
    /\ page = "factor" => Factor!StatusIsTrue /\ Factor!OneAtATime
    /\ page = "preferences" => Prefer!FormIsSaved /\ Prefer!RestIsSaved
    /\ page = "sync" => Sync!TickedIsOffered /\ Sync!SentIsTicked /\ Sync!AskedBefore

\* At rest a table shows the page it names, and what is selected in it exists
\* (ConsoleTables, ChannelTable, KeyTable); an operation hits the key it was clicked
\* for, and what is shown as being tested is (ModelTests);
\* a filter leaves as many models as its button says (ModelSquare); figures and charts
\* are those of what was searched for and selected (Dashboard).
TablesTrue ==
    /\ page = "tables" => Tables!RowsAreThePage /\ Tables!ModeIsShown /\ Tables!SelectedExist
    /\ page = "channels" => Channels!RowsAreThePage /\ Channels!NothingTurns
    /\ page = "keys" => Keys!HitsItsKey /\ Keys!KeysAreThePage
    /\ page = "tests" => Tests!RunningIsRunning /\ Tests!RunningIsShown /\ Tests!AllAreTested
    /\ page = "square" => Square!CountsAreTrue /\ Square!NothingVanishes
    /\ page = "dashboard" => Dash!FiguresAreSearched /\ Dash!DrawnIsSelected

\* What a dialog or panel shows, saves and operates on belongs to the record
\* it was opened for (EditDialogs, RecordPanels, ModelPickers, SecureCheck,
\* OAuthProviders), to what was selected (TopUp, PlanPurchase, ModelSquare) and to the
\* account that signed in (SignIn, AccountPage, TwoFactor); a channel
\* is not sent what the submission had to ask about (ChannelForm).
OwnRecord ==
    /\ page = "dialogs" => Dialogs!OwnContent /\ Dialogs!ShownIsOpened /\ Dialogs!NeverStuck
    /\ page = "panels" => Panels!ListsItsRecord /\ Panels!HitsItsRow /\ Panels!ListsTheServer
    /\ page = "pickers" =>
           /\ Pickers!ModelsAreItsOwn
           /\ Pickers!TargetIsItsOwn
           /\ Pickers!PullIsShown
    /\ page = "signin" => SignIn!OneAccount /\ SignIn!AskedOfTheirs /\ SignIn!HeldWhileAsked
    /\ page = "topup" => TopUpPage!PaidOnce /\ TopUpPage!BalanceIsTrue /\ TopUpPage!FreedAgain
    /\ page = "plans" => PlansPage!PaidIsSelected
    /\ page = "account" => Account!ShownIsTheAccount /\ Account!FlagsEnd
    /\ page = "oauth" => OAuth!FoundIsItsOwn /\ OAuth!EndpointsAreWhole
    /\ page = "factor" => Factor!CodesAreTheAccounts
    /\ page = "secure" => Secure!KeyIsItsOwn /\ Secure!HeldWhileVerifying
    /\ page = "channel" => Channel!SentIsItsOwn /\ Channel!SentIsAccepted
    /\ page = "square" => Square!DetailIsItsOwn

\* No step of a page loses what the user has entered (ParamOverride, TwinEditors)
\* or what was chosen to be ignored (UpstreamUpdates).
NothingLost ==
    [][/\ page = "override" => Override!MoveKeepsAllStep /\ Override!SwitchLosesNothingStep
       /\ page = "twins" => Twins!OthersKept
       /\ page = "updates" => Updates!IgnoredStays]_vars

-----------------------------------------------------------------------------
(* What is proved: a page is entered by its initial state and left by no   *)
(* step, so that what ConsolePages proves of the steps of a page holds of  *)
(* the console.                                                            *)

\* Which page starts how, and whose steps are taken while it is mounted.
LEMMA SettingsInit == page = "settings" /\ Init => Settings!Init
BY DEF Init

LEMMA SettingsNext ==
    [Next]_vars /\ page' = "settings" => page = "settings" /\ (Settings!Next \/ UNCHANGED Settings!vars)
BY DEF Next, vars, Settings!vars, UsagePage, OverridePage, SettingsPage, ListsPage, DialogsPage,
       PanelsPage, SignInPage, SecurePage, TopUpPagePage, PlansPagePage, AccountPage, FactorPage,
       PreferPage, ChannelPage, ChannelsPage, UpdatesPage, PickersPage, KeysPage, TestsPage,
       TwinsPage, PricesPage, SyncPage, OAuthPage, SquarePage, DashPage, TablesPage

LEMMA PlansInit == page = "plans" /\ Init => PlansPage!Init
BY DEF Init

LEMMA PlansNext ==
    [Next]_vars /\ page' = "plans" => page = "plans" /\ (PlansPage!Next \/ UNCHANGED PlansPage!vars)
BY DEF Next, vars, PlansPage!vars, UsagePage, OverridePage, SettingsPage, ListsPage, DialogsPage,
       PanelsPage, SignInPage, SecurePage, TopUpPagePage, PlansPagePage, AccountPage, FactorPage,
       PreferPage, ChannelPage, ChannelsPage, UpdatesPage, PickersPage, KeysPage, TestsPage,
       TwinsPage, PricesPage, SyncPage, OAuthPage, SquarePage, DashPage, TablesPage

LEMMA FactorInit == page = "factor" /\ Init => Factor!Init
BY DEF Init

LEMMA FactorNext ==
    [Next]_vars /\ page' = "factor" => page = "factor" /\ (Factor!Next \/ UNCHANGED Factor!vars)
BY DEF Next, vars, Factor!vars, UsagePage, OverridePage, SettingsPage, ListsPage, DialogsPage,
       PanelsPage, SignInPage, SecurePage, TopUpPagePage, PlansPagePage, AccountPage, FactorPage,
       PreferPage, ChannelPage, ChannelsPage, UpdatesPage, PickersPage, KeysPage, TestsPage,
       TwinsPage, PricesPage, SyncPage, OAuthPage, SquarePage, DashPage, TablesPage

LEMMA PreferInit == page = "preferences" /\ Init => Prefer!Init
BY DEF Init

LEMMA PreferNext ==
    [Next]_vars /\ page' = "preferences" => page = "preferences" /\ (Prefer!Next \/ UNCHANGED Prefer!vars)
BY DEF Next, vars, Prefer!vars, UsagePage, OverridePage, SettingsPage, ListsPage, DialogsPage,
       PanelsPage, SignInPage, SecurePage, TopUpPagePage, PlansPagePage, AccountPage, FactorPage,
       PreferPage, ChannelPage, ChannelsPage, UpdatesPage, PickersPage, KeysPage, TestsPage,
       TwinsPage, PricesPage, SyncPage, OAuthPage, SquarePage, DashPage, TablesPage

LEMMA SyncInit == page = "sync" /\ Init => Sync!Init
BY DEF Init

LEMMA SyncNext ==
    [Next]_vars /\ page' = "sync" => page = "sync" /\ (Sync!Next \/ UNCHANGED Sync!vars)
BY DEF Next, vars, Sync!vars, UsagePage, OverridePage, SettingsPage, ListsPage, DialogsPage,
       PanelsPage, SignInPage, SecurePage, TopUpPagePage, PlansPagePage, AccountPage, FactorPage,
       PreferPage, ChannelPage, ChannelsPage, UpdatesPage, PickersPage, KeysPage, TestsPage,
       TwinsPage, PricesPage, SyncPage, OAuthPage, SquarePage, DashPage, TablesPage

LEMMA TestsInit == page = "tests" /\ Init => Tests!Init
BY DEF Init

LEMMA TestsNext ==
    [Next]_vars /\ page' = "tests" =>
        page = "tests" /\ (Tests!Next \/ UNCHANGED Tests!vars)
BY DEF Next, vars, Tests!vars, UsagePage, OverridePage, SettingsPage, ListsPage, DialogsPage,
       PanelsPage, SignInPage, SecurePage, TopUpPagePage, PlansPagePage, AccountPage, FactorPage,
       PreferPage, ChannelPage, ChannelsPage, UpdatesPage, PickersPage, KeysPage, TestsPage,
       TwinsPage, PricesPage, SyncPage, OAuthPage, SquarePage, DashPage, TablesPage

LEMMA SquareInit == page = "square" /\ Init => Square!Init
BY DEF Init

LEMMA SquareNext ==
    [Next]_vars /\ page' = "square" =>
        page = "square" /\ (Square!Next \/ UNCHANGED Square!vars)
BY DEF Next, vars, Square!vars, UsagePage, OverridePage, SettingsPage, ListsPage, DialogsPage,
       PanelsPage, SignInPage, SecurePage, TopUpPagePage, PlansPagePage, AccountPage, FactorPage,
       PreferPage, ChannelPage, ChannelsPage, UpdatesPage, PickersPage, KeysPage, TestsPage,
       TwinsPage, PricesPage, SyncPage, OAuthPage, SquarePage, DashPage, TablesPage

LEMMA DashInit == page = "dashboard" /\ Init => Dash!Init
BY DEF Init

LEMMA DashNext ==
    [Next]_vars /\ page' = "dashboard" =>
        page = "dashboard" /\ (Dash!Next \/ UNCHANGED Dash!vars)
BY DEF Next, vars, Dash!vars, UsagePage, OverridePage, SettingsPage, ListsPage, DialogsPage,
       PanelsPage, SignInPage, SecurePage, TopUpPagePage, PlansPagePage, AccountPage, FactorPage,
       PreferPage, ChannelPage, ChannelsPage, UpdatesPage, PickersPage, KeysPage, TestsPage,
       TwinsPage, PricesPage, SyncPage, OAuthPage, SquarePage, DashPage, TablesPage

LEMMA ChannelsInit == page = "channels" /\ Init => Channels!Init
BY DEF Init

LEMMA ChannelsNext ==
    [Next]_vars /\ page' = "channels" =>
        page = "channels" /\ (Channels!Next \/ UNCHANGED Channels!vars)
BY DEF Next, vars, Channels!vars, UsagePage, OverridePage, SettingsPage, ListsPage, DialogsPage,
       PanelsPage, SignInPage, SecurePage, TopUpPagePage, PlansPagePage, AccountPage, FactorPage,
       PreferPage, ChannelPage, ChannelsPage, UpdatesPage, PickersPage, KeysPage, TestsPage,
       TwinsPage, PricesPage, SyncPage, OAuthPage, SquarePage, DashPage, TablesPage

LEMMA TablesInit == page = "tables" /\ Init => Tables!Init
BY DEF Init

LEMMA TablesNext ==
    [Next]_vars /\ page' = "tables" =>
        page = "tables" /\ (Tables!Next \/ UNCHANGED Tables!vars)
BY DEF Next, vars, Tables!vars, UsagePage, OverridePage, SettingsPage, ListsPage, DialogsPage,
       PanelsPage, SignInPage, SecurePage, TopUpPagePage, PlansPagePage, AccountPage, FactorPage,
       PreferPage, ChannelPage, ChannelsPage, UpdatesPage, PickersPage, KeysPage, TestsPage,
       TwinsPage, PricesPage, SyncPage, OAuthPage, SquarePage, DashPage, TablesPage

LEMMA KeysInit == page = "keys" /\ Init => Keys!Init
BY DEF Init

LEMMA KeysNext ==
    [Next]_vars /\ page' = "keys" =>
        page = "keys" /\ (Keys!Next \/ UNCHANGED Keys!vars)
BY DEF Next, vars, Keys!vars, UsagePage, OverridePage, SettingsPage, ListsPage, DialogsPage,
       PanelsPage, SignInPage, SecurePage, TopUpPagePage, PlansPagePage, AccountPage, FactorPage,
       PreferPage, ChannelPage, ChannelsPage, UpdatesPage, PickersPage, KeysPage, TestsPage,
       TwinsPage, PricesPage, SyncPage, OAuthPage, SquarePage, DashPage, TablesPage

-----------------------------------------------------------------------------

\* The invariant of the page that is mounted, of those that save.
PagesInv ==
    /\ page = "settings" => SettingsInv
    /\ page = "plans" => PlansInv
    /\ page = "factor" => FactorInv
    /\ page = "preferences" => PreferInv
    /\ page = "sync" => SyncInv

\* What a form says of a save is true, it sends what was edited and no more,
\* and the status a page shows is the server's, in every state of the five pages
\* that save (SettingsForms, PlanPurchase, TwoFactor, Preferences, RatioSync).
THEOREM FormsAreTrue == Spec => []SettingsTrue
<1>1. Init => PagesInv
    BY SettingsInit, SettingsStarts, PlansInit, PlansStarts, FactorInit, FactorStarts,
       PreferInit, PreferStarts, SyncInit, SyncStarts DEF PagesInv
<1>2. PagesInv /\ [Next]_vars => PagesInv'
    <2> SUFFICES ASSUME PagesInv, [Next]_vars PROVE PagesInv'
        OBVIOUS
    <2>1. page' = "settings" => SettingsInv'
        BY SettingsNext, SettingsSteps DEF PagesInv
    <2>2. page' = "plans" => PlansInv'
        BY PlansNext, PlansSteps DEF PagesInv
    <2>3. page' = "factor" => FactorInv'
        BY FactorNext, FactorSteps DEF PagesInv
    <2>4. page' = "preferences" => PreferInv'
        BY PreferNext, PreferSteps DEF PagesInv
    <2>5. page' = "sync" => SyncInv'
        BY SyncNext, SyncSteps DEF PagesInv
    <2> QED
        BY <2>1, <2>2, <2>3, <2>4, <2>5 DEF PagesInv
<1>3. PagesInv => SettingsTrue
    BY SettingsKnown, PlansKnown, FactorCounts, PreferKnown, SyncKnown DEF PagesInv, SettingsTrue
<1> QED
    BY <1>1, <1>2, <1>3, PTL DEF Spec

\* The invariant of the page that is mounted, of those that list.
ListsInv ==
    /\ page = "tests" => TestsInv
    /\ page = "square" => SquareInv
    /\ page = "dashboard" => DashInv
    /\ page = "channels" => ChannelsInv
    /\ page = "tables" => TablesInv
    /\ page = "keys" => KeysInv

\* At rest a table shows the page it names, what is selected in it exists, an
\* operation hits the key it was clicked for, what is shown as being tested is, a
\* filter leaves as many models as its button says, and figures and charts are
\* those of what was searched for, in every state of the six pages that list
\* (ConsoleTables, ChannelTable, KeyTable, ModelTests, ModelSquare, Dashboard).
THEOREM ListsAreTrue == Spec => []TablesTrue
<1>1. Init => ListsInv
    BY TestsInit, TestsStarts, SquareInit, SquareStarts, DashInit, DashStarts,
       ChannelsInit, ChannelsStarts, TablesInit, TablesStarts, KeysInit, KeysStarts DEF ListsInv
<1>2. ListsInv /\ [Next]_vars => ListsInv'
    <2> SUFFICES ASSUME ListsInv, [Next]_vars PROVE ListsInv'
        OBVIOUS
    <2>1. page' = "tests" => TestsInv'
        BY TestsNext, TestsSteps DEF ListsInv
    <2>2. page' = "square" => SquareInv'
        BY SquareNext, SquareSteps DEF ListsInv
    <2>3. page' = "dashboard" => DashInv'
        BY DashNext, DashSteps DEF ListsInv
    <2>4. page' = "channels" => ChannelsInv'
        BY ChannelsNext, ChannelsSteps DEF ListsInv
    <2>5. page' = "tables" => TablesInv'
        BY TablesNext, TablesSteps DEF ListsInv
    <2>6. page' = "keys" => KeysInv'
        BY KeysNext, KeysSteps DEF ListsInv
    <2> QED
        BY <2>1, <2>2, <2>3, <2>4, <2>5, <2>6 DEF ListsInv
<1>3. ListsInv => TablesTrue
    BY TestsKnown, SquareCounts, SquareKept, DashKnown, ChannelsKnown, TablesKnown, KeysKnown
       DEF ListsInv, TablesTrue
<1> QED
    BY <1>1, <1>2, <1>3, PTL DEF Spec
=============================================================================
