----------------------------- MODULE ModelSquare ------------------------------
(***************************************************************************)
(* The page of the models and their prices (useModelPricingData.jsx and    *)
(* components/table/model-pricing): the filters and the counts on their    *)
(* buttons, the three views with the price of each model, the display      *)
(* settings, and the sheet with a model's details.                         *)
(***************************************************************************)
EXTENDS FiniteSets, FiniteSetsExt, Integers

CONSTANT MaxSteps   \* bound: clicks on the page

VARIABLES
    config,   \* the server's options: [ratios, special, usable]
    data,     \* what was loaded: [models, groupRatio, usableGroup]
    loading,  \* "asked", "loaded"; "refused"; "broken" is shown as loading
    site,     \* [type: siteDisplayType, real: that of the status to come]
    filter,   \* the filters, by kind
    group,    \* selectedGroup
    display,  \* [recharge, currency, mode]
    paging,   \* [page, size]
    sheet,    \* [visible, model, timers]: the details; [filters]: the filter modal
    view      \* mobile; history: opened, the model clicked last; late, a timer was
              \* running by then; resized, the table has changed the size; clicks

vars == <<config, data, loading, site, filter, group, display, paging, sheet, view>>

\* ModelsListed stands for the abilities and the models' table; found says where
\* the word that is searched for occurs.
Model(name, groups, quota, ends, vendor, tags, found, base) ==
    [name |-> name, groups |-> groups, quota |-> quota, ends |-> ends, vendor |-> vendor,
     tags |-> tags, found |-> found, base |-> base]
ModelsListed ==
    {Model("a", {"default", "vip"}, "tokens", {"chat"}, "V", {"new"}, "name", 2),
     Model("b", {"vip"}, "call", {}, "", {"new", "old"}, "description", 3),
     Model("c", {"default", "own"}, "tokens", {"chat", "image"}, "V", {}, "", 1)}

GroupNames == {"default", "vip", "own"}
QuotaTypes == {"tokens", "call"}
Kinds == {"group", "quota", "ends", "vendor", "tag", "search"}
NoFilter == [k \in Kinds |-> "all"]
WORD == "word"
PageSizes == {1, 2, 4}                   \* for 10, 20 and 50
CompletionRatio == 3
UsdRate == 2  PriceRate == 1             \* yuan for a dollar, and for one of quota
Official(m) == IF m.name = "a" THEN 5 ELSE IF m.name = "c" THEN 2 ELSE 0

\* "own" is the user's group: usable, and perhaps without a ratio; "vip" may be free.
Configs ==
    {[ratios |-> [default |-> 1, vip |-> 2], special |-> [vip |-> 0],
      usable |-> {"default", "vip", "own"}],
     [ratios |-> [default |-> 2, vip |-> 1, own |-> 3], special |-> [own |-> 2],
      usable |-> {"default", "own"}]}

DefaultDisplay(mode) ==
    [recharge |-> FALSE, currency |-> "USD", mode |-> mode]
Closed == [visible |-> FALSE, model |-> "", timers |-> 0, filters |-> FALSE]

Init ==
    /\ config \in Configs
    /\ data = [models |-> {}, groupRatio |-> [g \in {} |-> 0], usableGroup |-> {}]
    /\ loading = "asked"
    /\ site \in [type : {"USD"}, real : {"USD", "CNY", "TOKENS"}]
    /\ filter = NoFilter /\ group = "all"
    /\ display = DefaultDisplay("grouped") /\ paging = [page |-> 1, size |-> 2]
    /\ sheet = Closed
    /\ view \in [mobile : BOOLEAN, opened : {""}, late : {FALSE}, resized : {FALSE}, clicks : {0}]

-----------------------------------------------------------------------------
(* Loading. *)

\* Only the ratios of usable groups are given, the user's special ones first.
GetPricing ==
    [models |-> ModelsListed, usableGroup |-> config.usable,
     groupRatio |-> [g \in DOMAIN config.ratios \intersect config.usable |->
                        IF g \in DOMAIN config.special THEN config.special[g]
                        ELSE config.ratios[g]]]

loadPricing ==
    /\ loading = "asked" /\ loading' \in {"loaded", "refused", "broken"}
    /\ IF loading' = "loaded" THEN data' = GetPricing /\ group' = "all"
       ELSE UNCHANGED <<data, group>>
    /\ UNCHANGED <<config, site, filter, display, paging, sheet, view>>

\* The status arrives: the currency is the site's, and no recharge price with tokens.
StatusLoaded ==
    /\ site.type # site.real /\ site' = [site EXCEPT !.type = site.real]
    /\ display' = IF site.real = "TOKENS"
                  THEN [display EXCEPT !.recharge = FALSE, !.currency = "USD"]
                  ELSE [display EXCEPT !.currency = site.real]
    /\ UNCHANGED <<config, data, loading, filter, group, paging, sheet, view>>

Ready == loading \in {"loaded", "refused"}
Click == view.clicks < MaxSteps /\ view' = [view EXCEPT !.clicks = @ + 1]

-----------------------------------------------------------------------------
(* The filters. *)

Passes(m, k, v) ==
    \/ v = "all"
    \/ k = "group" /\ v \in m.groups
    \/ k = "quota" /\ v = m.quota
    \/ k = "ends" /\ v \in m.ends
    \/ k = "vendor" /\ IF v = "unknown" THEN m.vendor = "" ELSE m.vendor = v
    \/ k = "tag" /\ v \in m.tags
    \/ k = "search" /\ m.found # ""

filteredModels(f) == {m \in data.models : \A k \in Kinds : Passes(m, k, f[k])}

\* The models the buttons of one kind count among.
matchesFilters(m, ignore) == \A k \in Kinds \ {ignore} : Passes(m, k, filter[k])
CountModels(k) == {m \in data.models : matchesFilters(m, k)}

getVendorCount(v) ==
    Cardinality(IF v = "all" THEN CountModels("vendor")
                ELSE IF v = "unknown" THEN {m \in CountModels("vendor") : m.vendor = ""}
                ELSE {m \in CountModels("vendor") : m.vendor = v})
getTagCount(v) == Cardinality({m \in CountModels("tag") : v = "all" \/ v \in m.tags})
qtyCount(v) == Cardinality({m \in CountModels("quota") : v = "all" \/ m.quota = v})
getEndpointTypeCount(v) == Cardinality({m \in CountModels("ends") : v = "all" \/ v \in m.ends})

getAllVendors ==
    {m.vendor : m \in {x \in data.models : x.vendor # ""}}
        \union IF \E m \in data.models : m.vendor = "" THEN {"unknown"} ELSE {}
getAllTags == UNION {m.tags : m \in data.models}
getAllEndpointTypes == UNION {m.ends : m \in data.models}

Buttons(k) ==
    {"all"} \union CASE k = "group" -> data.usableGroup
                     [] k = "quota" -> QuotaTypes
                     [] k = "ends" -> getAllEndpointTypes
                     [] k = "vendor" -> getAllVendors
                     [] OTHER -> getAllTags

\* The first page again, when a filter has changed.
Filtered(f) ==
    /\ filter' = f /\ paging' = IF f = filter THEN paging ELSE [paging EXCEPT !.page = 1]

\* The sidebar, or on a narrow screen the modal: there the price's group stays.
Shown == Ready /\ ~sheet.visible /\ (view.mobile <=> sheet.filters)
handleGroupClick(g) == Filtered([filter EXCEPT !["group"] = g]) /\ group' = g

FilterClick ==
    /\ Shown /\ Click
    /\ \E k \in Kinds \ {"search"} : \E v \in Buttons(k) :
          IF k = "group" /\ ~view.mobile THEN handleGroupClick(v)
          ELSE Filtered([filter EXCEPT ![k] = v]) /\ UNCHANGED group
    /\ UNCHANGED <<config, data, loading, site, display, sheet>>

\* The field is there while the page of a narrow screen loads.
handleChange ==
    /\ ~sheet.visible /\ ~sheet.filters /\ (Ready \/ view.mobile) /\ Click
    /\ \E w \in {"all", WORD} : Filtered([filter EXCEPT !["search"] = w])
    /\ UNCHANGED <<config, data, loading, site, group, display, sheet>>

\* The price's group stays here too; the view becomes the cards.
resetPricingFilters ==
    /\ Shown /\ Click
    /\ filter' = NoFilter /\ display' = DefaultDisplay("card") /\ paging' = [paging EXCEPT !.page = 1]
    /\ UNCHANGED <<config, data, loading, site, group, sheet>>

PricingFilterModal ==
    /\ view.mobile /\ ~sheet.visible /\ sheet' = [sheet EXCEPT !.filters = ~@]
    /\ UNCHANGED <<config, data, loading, site, filter, group, display, paging, view>>

-----------------------------------------------------------------------------
(* The display settings, which only the modal has. *)

supportsCurrencyDisplay == site.type # "TOKENS"

DisplayChange ==
    /\ Shown /\ view.mobile /\ Click
    /\ \/ supportsCurrencyDisplay /\ display' = [display EXCEPT !.recharge = ~@]
       \/ display' = [display EXCEPT !.mode = "grouped"]
       \/ display' = [display EXCEPT !.mode = IF @ = "table" THEN "card" ELSE "table"]
       \/ /\ supportsCurrencyDisplay /\ display.recharge
          /\ \E c \in {"USD", "CNY"} : display' = [display EXCEPT !.currency = c]
    /\ UNCHANGED <<config, data, loading, site, filter, group, paging, sheet>>

-----------------------------------------------------------------------------
(* The views. *)

\* In USD times UsdRate, so that it is whole.
displayPrice(usd) ==
    LET inUSD == usd * (IF display.recharge THEN PriceRate ELSE UsdRate)
    IN  IF display.currency = "CNY" THEN inUSD * UsdRate ELSE inUSD

HasRatio(g) == g \in DOMAIN data.groupRatio

UsedRatio(m, g) ==
    LET enabled == {data.groupRatio[h] : h \in {x \in m.groups : HasRatio(x)}}
    IN  IF g # "all" /\ HasRatio(g) THEN data.groupRatio[g]
        ELSE IF enabled = {} THEN 1 ELSE Min(enabled)

\* Input, output, and the price of one call.
PriceItems(m, r) ==
    IF m.quota = "call" THEN [fixed |-> displayPrice(m.base * r)]
    ELSE IF site.type = "TOKENS" THEN [inputRatio |-> m.base, outputRatio |-> CompletionRatio]
    ELSE [input |-> displayPrice(m.base * 2 * r),
          output |-> displayPrice(m.base * 2 * r * CompletionRatio)]

calculateModelPrice(m, g) == PriceItems(m, UsedRatio(m, g))

paginatedModels ==   \* how many
    LET start == (paging.page - 1) * paging.size
        rest  == Cardinality(filteredModels(filter)) - start
    IN  IF rest <= 0 THEN 0 ELSE Min({rest, paging.size})

\* The groups' blocks, each with the models it has.
groupsToRender == DOMAIN data.groupRatio
blocks ==
    {b \in {[group |-> g, models |-> {m \in filteredModels(filter) : g \in m.groups}] :
                g \in groupsToRender} : b.models # {}}

\* The price compared with the official one.
discountColumn(m, g) ==
    IF Official(m) = 0 \/ m.quota = "call" \/ site.type = "TOKENS" \/ ~HasRatio(g) THEN "none"
    ELSE IF m.base * 2 * data.groupRatio[g] < Official(m) THEN "saves" ELSE "over"

\* The groups whose prices the details list.
availableGroups(m) == data.usableGroup \intersect m.groups

vendorInfo == getAllVendors
HeaderShown == view.mobile \/ filter["vendor"] = "all" \/ filter["vendor"] \in vendorInfo

PageChange ==
    /\ Ready /\ ~sheet.visible /\ ~sheet.filters
    /\ display.mode = "card" /\ filteredModels(filter) # {} /\ Click
    /\ \/ \E p \in 1..3 :
             /\ (p - 1) * paging.size < Cardinality(filteredModels(filter))
             /\ paging' = [paging EXCEPT !.page = p]
       \/ \E s \in PageSizes : paging' = [page |-> 1, size |-> s]
    /\ UNCHANGED <<config, data, loading, site, filter, group, display, sheet>>

\* The table counts its own pages; the cards' page stays.
TableSizeChange ==
    /\ Ready /\ ~sheet.visible /\ ~sheet.filters
    /\ display.mode = "table" /\ view.clicks < MaxSteps
    /\ \E s \in PageSizes : paging' = [paging EXCEPT !.size = s]
    /\ view' = [view EXCEPT !.resized = TRUE, !.clicks = @ + 1]
    /\ UNCHANGED <<config, data, loading, site, filter, group, display, sheet>>

-----------------------------------------------------------------------------
(* The details. *)

openModelDetail ==
    /\ Ready /\ ~sheet.visible /\ ~sheet.filters
    /\ display.mode # "grouped" /\ view.clicks < MaxSteps
    /\ \E m \in filteredModels(filter) :
          /\ sheet' = [sheet EXCEPT !.visible = TRUE, !.model = m.name]
          /\ view' = [view EXCEPT !.opened = m.name, !.late = sheet.timers > 0, !.clicks = @ + 1]
    /\ UNCHANGED <<config, data, loading, site, filter, group, display, paging>>

closeModelDetail ==
    /\ sheet.visible /\ sheet' = [sheet EXCEPT !.visible = FALSE, !.timers = @ + 1]
    /\ UNCHANGED <<config, data, loading, site, filter, group, display, paging, view>>

Emptied ==
    /\ sheet.timers > 0 /\ sheet' = [sheet EXCEPT !.model = "", !.timers = @ - 1]
    /\ UNCHANGED <<config, data, loading, site, filter, group, display, paging, view>>

Next ==
    \/ loadPricing \/ StatusLoaded
    \/ FilterClick \/ handleChange \/ resetPricingFilters \/ PricingFilterModal
    \/ DisplayChange \/ PageChange \/ TableSizeChange
    \/ openModelDetail \/ closeModelDetail \/ Emptied

Spec == Init /\ [][Next]_vars

-----------------------------------------------------------------------------
(* Properties *)

TypeOK ==
    /\ config \in Configs /\ data.models \subseteq ModelsListed
    /\ DOMAIN data.groupRatio \subseteq data.usableGroup /\ data.usableGroup \subseteq GroupNames
    /\ loading \in {"asked", "loaded", "refused", "broken"}
    /\ {site.type, site.real} \subseteq {"USD", "CNY", "TOKENS"}
    /\ \A k \in Kinds \ {"search"} : loading = "loaded" => filter[k] \in Buttons(k)
    /\ filter["search"] \in {"all", WORD} /\ group \in GroupNames \union {"all"}
    /\ display \in [recharge : BOOLEAN, currency : {"USD", "CNY"},
                    mode : {"grouped", "card", "table"}]
    /\ paging \in [page : 1..3, size : PageSizes]
    /\ sheet.visible \in BOOLEAN /\ sheet.filters \in BOOLEAN /\ sheet.timers \in 0..MaxSteps
    /\ {sheet.model, view.opened} \subseteq {m.name : m \in ModelsListed} \union {""}

\* The number on each button is how many models a click on it would leave.
CountsAreTrue ==
    LET left(k, v) == Cardinality(filteredModels([filter EXCEPT ![k] = v]))
    IN  /\ \A v \in Buttons("vendor") : getVendorCount(v) = left("vendor", v)
        /\ \A v \in Buttons("tag") : getTagCount(v) = left("tag", v)
        /\ \A v \in Buttons("quota") : qtyCount(v) = left("quota", v)
        /\ \A v \in Buttons("ends") : getEndpointTypeCount(v) = left("ends", v)

\* The cards show a page that has models, while there are any, unless the table
\* has changed the size of the page; the header with the search field stays.
NothingVanishes ==
    /\ (filteredModels(filter) # {} /\ ~view.resized) => paginatedModels > 0
    /\ HeaderShown

\* What a request in group g is charged (relay/helper/price.go).
HandleGroupRatio(g) ==
    IF g \in DOMAIN config.special THEN config.special[g]
    ELSE IF g \in DOMAIN config.ratios THEN config.ratios[g] ELSE 1

\* In the blocks and in the details a model has the price a request in that group
\* is charged, where the group has a ratio; on the cards and in the table it has
\* that of the filter's group, or the lowest it can be had for, as long as the
\* group of the price is that of the filter.
PriceIsCharged ==
    LET Charged(m, g) == PriceItems(m, HandleGroupRatio(g))
    IN  /\ \A b \in blocks : \A m \in b.models : calculateModelPrice(m, b.group) = Charged(m, b.group)
        /\ \A m \in data.models : \A g \in availableGroups(m) :
              HasRatio(g) => calculateModelPrice(m, g) = Charged(m, g)
        /\ group = filter["group"] =>
              \A m \in filteredModels(filter) :
                 LET g == IF group = "all" THEN {x \in m.groups : HasRatio(x)} ELSE {group}
                 IN  (g # {} /\ \A x \in g : HasRatio(x)) =>
                        \E x \in g : /\ calculateModelPrice(m, group) = Charged(m, x)
                                     /\ \A y \in g : HandleGroupRatio(x) <= HandleGroupRatio(y)

\* A model is said to save where its price is below the official one, both as shown.
DiscountAgrees ==
    \A b \in blocks : \A m \in b.models :
        discountColumn(m, b.group) # "none" =>
            (discountColumn(m, b.group) = "saves"
                <=> calculateModelPrice(m, b.group).input < displayPrice(Official(m)))

\* A site that shows tokens has no price in another currency, whenever that is known.
TokensHaveNoCurrency ==
    ~supportsCurrencyDisplay => ~display.recharge /\ display.currency = "USD"

\* The details are those of the model that was clicked, unless a timer of an
\* earlier close was running.
DetailIsItsOwn == (sheet.visible /\ ~view.late) => sheet.model = view.opened
=============================================================================
