------------------------------ MODULE Dashboard -------------------------------
(***************************************************************************)
(* The dashboard of an administrator (useDashboardData.js,                 *)
(* useDashboardCharts.jsx, components/dashboard): the figures and charts   *)
(* of the range that was searched for, and the analysis of the channels    *)
(* with its window, its length and the model and channel selected.         *)
(***************************************************************************)
EXTENDS FiniteSets, FiniteSetsExt, Integers

CONSTANT MaxTries   \* bound: clicks on the page

VARIABLES
    server,   \* the rows of quota_data, by range: which of the sets below
    inputs,   \* [range, gran]: what the search modal edits
    charted,  \* [range, gran, data]: what the figures and charts were made from
    modal,    \* searchModalVisible
    loading,
    channel,  \* [window, top, model, channel]: what is chosen for the analysis,
              \* with "" and 0 for none
    items,    \* the window whose channels are listed, or "none"
    drawn,    \* what the channels' charts were drawn from: channel with items
    jobs,     \* handlers that wait: what for, and what their closures hold
    view      \* history: edited since the last search; calm, nothing was asked for
              \* or chosen over a handler that waits; kept, no answer failed; clicks

vars == <<server, inputs, charted, modal, loading, channel, items, drawn, jobs, view>>

Row(at, model, count, quota) == [at |-> at, model |-> model, count |-> count, quota |-> quota]
\* Seven hours, with pauses, and the last of them busy; seven days; the turn of a year,
\* with a gap; nothing.
Busy == {Row(3600 + 2 * i, "a", 1, i) : i \in 0 .. 6} \union {Row(3612, "b", 2, 5)}
Days == {Row(3600 + 24 * i, "a", 1, 2) : i \in 0 .. 6} \union {Row(3610, "b", 1, 1)}
Turn == {Row(2390, "a", 1, 3), Row(2402, "b", 2, 1)}
Placeholder == Row(4000, "none", 0, 0)   \* of the present hour
Data == {"busy", "days", "turn", "nothing"}
RowsOf(d) == CASE d = "busy" -> Busy [] d = "days" -> Days [] d = "turn" -> Turn
               [] d = "nothing" -> {Placeholder}   \* loadQuotaData puts it there
Ranges == {"short", "long"}
Servers == {[short |-> "busy", long |-> "nothing"], [short |-> "turn", long |-> "days"]}

Grans == {"hour", "day", "week"}
Windows == {"24h", "today", "week"}
Tops == {1, 2}
Item(c, m, count, quota) == [channel |-> c, model |-> m, count |-> count, quota |-> quota]
ItemsOf(w) == CASE w = "24h" -> {Item(1, "a", 3, 7), Item(2, "b", 4, 2)}
                [] w = "today" -> {Item(2, "a", 1, 1)}
                [] w = "week" -> {Item(1, "a", 3, 8), Item(2, "a", 1, 1), Item(2, "b", 9, 6)}
                [] OTHER -> {}

Job(kind, n, window) ==
    [kind |-> kind, n |-> n, stage |-> IF kind = "window" THEN "channel" ELSE "quota",
     of |-> inputs, data |-> "none", window |-> window, chosen |-> channel, got |-> "none"]

Init ==
    /\ server \in Servers
    /\ inputs = [range |-> "short", gran |-> "hour"]
    /\ charted = [range |-> "none", gran |-> "hour", data |-> "none"]
    /\ modal = FALSE /\ loading = TRUE
    /\ channel = [window |-> "24h", top |-> 2, model |-> "", channel |-> 0]
    /\ items = "none" /\ drawn = [by |-> channel, items |-> "none"]
    /\ jobs = {Job("init", 0, "24h")}
    /\ view = [edited |-> FALSE, calm |-> TRUE, kept |-> TRUE, clicks |-> 0]

-----------------------------------------------------------------------------
(* The figures and charts, computed from the rows in hand. *)

YEAR == 2400   \* a year of a hundred days, in hours
MAX_TREND_POINTS == 7
isDataCrossYear(times) == Cardinality({t \div YEAR : t \in times}) > 1
Interval(gran) == CASE gran = "hour" -> 1 [] gran = "day" -> 24 [] OTHER -> 168

\* The text of a time: a week is named by the day it begins on, which is any day.
timestamp2string1(t, gran, showYear) ==
    <<IF showYear THEN t \div YEAR ELSE 0,
      (t % YEAR) \div (IF gran = "hour" THEN 1 ELSE 24)>>
Times(rows) == {r.at : r \in rows}
Sum(rows) ==
    [count |-> MapThenSumSet(LAMBDA r : r.count, rows),
     quota |-> MapThenSumSet(LAMBDA r : r.quota, rows)]

\* aggregateDataByTimeAndModel and processRawData: the rows under each text.
Grouped(rows, gran) ==
    LET showYear == isDataCrossYear(Times(rows))
        Key(r) == timestamp2string1(r.at, gran, showYear)
    IN  [k \in {Key(r) : r \in rows} |-> {r \in rows : Key(r) = k}]

\* The trends behind the figures, and the pie and the ranking of the models.
calculateTrendData(rows, gran) ==
    LET by == Grouped(rows, gran) IN [k \in DOMAIN by |-> Sum(by[k])]
modelTotals(rows) ==
    [m \in {r.model : r \in rows} |-> Sum({r \in rows : r.model = m}).count]

\* Fewer points than seven are replaced by the last seven intervals.
generateChartTimePoints(rows, gran) ==
    LET keys == DOMAIN Grouped(rows, gran)
        generated == {Max(Times(rows)) - i * Interval(gran) : i \in 0 .. MAX_TREND_POINTS - 1}
        showYear == isDataCrossYear(generated)
    IN  IF Cardinality(keys) >= MAX_TREND_POINTS THEN keys
        ELSE {timestamp2string1(t, gran, showYear) : t \in generated}

\* The bars of the trend: what the models of each point consumed.
Bars(rows, gran) ==
    LET by == Grouped(rows, gran)
    IN  [p \in generateChartTimePoints(rows, gran) |->
            IF p \in DOMAIN by THEN Sum(by[p]).quota ELSE 0]

updateChartData(j) ==
    charted' = IF j.data = "none" THEN charted
               ELSE [range |-> j.of.range, gran |-> j.of.gran, data |-> j.data]

-----------------------------------------------------------------------------
(* The analysis of the channels. *)

Top(S, n) == {i \in S : Cardinality({k \in S : k.quota > i.quota}) < n}
channelItems(w) ==
    {Item(c, "", MapThenSumSet(LAMBDA i : i.count, {i \in ItemsOf(w) : i.channel = c}),
                 MapThenSumSet(LAMBDA i : i.quota, {i \in ItemsOf(w) : i.channel = c})) :
        c \in {i.channel : i \in ItemsOf(w)}}
channelQuotaData(d) == Top(channelItems(d.items), d.by.top)
channelRequestData(d) ==
    LET all == channelItems(d.items)
    IN  {i \in all : Cardinality({k \in all : k.count > i.count}) < d.by.top}
channelModelData(d) ==
    Top({i \in ItemsOf(d.items) : d.by.channel \in {0, i.channel}}, d.by.top)
modelChannelData(d) ==
    Top({i \in ItemsOf(d.items) : d.by.model \in {"", i.model}}, d.by.top)
detailRows(d) ==
    IF d.by.channel = 0 /\ d.by.model # "" THEN modelChannelData(d) ELSE channelModelData(d)

First(S) == CHOOSE i \in S : \A k \in S : i.quota >= k.quota

\* The selection after an answer: what the closure holds, if the answer has it.
Selected(j, w) ==
    [model |-> IF j.chosen.model \in {i.model : i \in ItemsOf(w)} THEN j.chosen.model
               ELSE IF ItemsOf(w) = {} THEN "" ELSE First(ItemsOf(w)).model,
     channel |-> IF j.chosen.channel \in {i.channel : i \in ItemsOf(w)} THEN j.chosen.channel
                 ELSE IF ItemsOf(w) = {} THEN 0 ELSE First(channelItems(w)).channel]

\* The effect that draws the charts whenever what they show has changed.
Redrawn == drawn' = [by |-> channel', items |-> items']

\* refresh and search draw once more, from their answers and their closure.
updateChannelChartData(j) ==
    LET s == IF ItemsOf(j.got) = {} THEN j.chosen ELSE Selected(j, j.got)
    IN  drawn' = [by |-> [j.chosen EXCEPT !.model = s.model, !.channel = s.channel],
                  items |-> j.got]

-----------------------------------------------------------------------------
(* The user. *)

Ask(kind, window) ==
    /\ view.clicks < MaxTries
    /\ jobs' = jobs \union {Job(kind, view.clicks + 1, window)}
    /\ view' = [view EXCEPT !.clicks = @ + 1, !.calm = @ /\ jobs = {},
                            !.edited = @ /\ kind = "window"]

\* The refresh button waits for the figures, no longer.
handleRefresh ==
    /\ ~modal /\ ~loading /\ loading' = TRUE /\ Ask("refresh", channel.window)
    /\ UNCHANGED <<server, inputs, charted, modal, channel, items, drawn>>

showSearchModal ==
    /\ ~modal /\ modal' = TRUE
    /\ UNCHANGED <<server, inputs, charted, loading, channel, items, drawn, jobs, view>>
handleCloseModal ==
    /\ modal /\ modal' = FALSE
    /\ UNCHANGED <<server, inputs, charted, loading, channel, items, drawn, jobs, view>>

handleInputChange ==
    /\ modal /\ view.clicks < MaxTries
    /\ \/ \E r \in Ranges \ {inputs.range} : inputs' = [inputs EXCEPT !.range = r]
       \/ \E g \in Grans \ {inputs.gran} : inputs' = [inputs EXCEPT !.gran = g]
    /\ view' = [view EXCEPT !.clicks = @ + 1, !.edited = TRUE]
    /\ UNCHANGED <<server, charted, modal, loading, channel, items, drawn, jobs>>

\* Its button waits for nothing.
handleSearchConfirm ==
    /\ modal /\ loading' = TRUE /\ Ask("search", channel.window)
    /\ UNCHANGED <<server, inputs, charted, modal, channel, items, drawn>>

\* The window is named at once, its channels come with the answer.
handleChannelUsageWindowChange ==
    /\ ~modal
    /\ \E w \in Windows \ {channel.window} :
          channel' = [channel EXCEPT !.window = w] /\ Ask("window", w)
    /\ UNCHANGED <<server, inputs, charted, modal, loading, items>> /\ Redrawn

\* A length, a model or a channel: from the lists, or a bar of what is drawn.
Choose ==
    /\ ~modal /\ view.clicks < MaxTries
    /\ \/ \E n \in Tops : channel' = [channel EXCEPT !.top = n]
       \/ \E m \in {i.model : i \in ItemsOf(items) \union channelModelData(drawn)} :
             channel' = [channel EXCEPT !.model = m]
       \/ \E c \in {i.channel : i \in channelItems(items) \union channelQuotaData(drawn)
                                       \union modelChannelData(drawn)} :
             channel' = [channel EXCEPT !.channel = c]
    /\ channel' # channel
    /\ view' = [view EXCEPT !.clicks = @ + 1, !.calm = @ /\ jobs = {}]
    /\ UNCHANGED <<server, inputs, charted, modal, loading, items, jobs>> /\ Redrawn

-----------------------------------------------------------------------------
(* The answers. *)

Replace(j, k) == jobs' = (jobs \ {j}) \union k
Failed == view' = [view EXCEPT !.kept = FALSE]

\* loadQuotaData.
QuotaAnswered(j, r) ==
    /\ j.stage = "quota" /\ loading' = FALSE
    /\ LET answered == [j EXCEPT !.data = IF r = "ok" THEN server[j.of.range] ELSE "none"]
           next == IF j.kind = "init" THEN "channel" ELSE "both"
       IN  /\ Replace(j, IF r = "broken" THEN {} ELSE {[answered EXCEPT !.stage = next]})
           /\ IF j.kind = "init" THEN updateChartData(answered) ELSE charted' = charted
    /\ IF r = "ok" THEN view' = view ELSE Failed
    /\ UNCHANGED <<server, inputs, modal, channel, items, drawn>>

\* What refresh and search do in the end: an empty answer leaves the figures.
Finish(j) ==
    /\ updateChartData(j)
    /\ modal' = (modal /\ j.kind # "search")

\* loadChannelUsageData: a refusal empties the lists.  The effect comes after
\* what the handler itself draws.
ChannelAnswered(j, r) ==
    /\ j.stage \in {"channel", "both", "last"} /\ r # "broken"
    /\ LET got == IF r = "ok" THEN j.window ELSE "none"
           s   == Selected(j, got)
       IN  /\ items' = got
           /\ channel' = [channel EXCEPT !.model = s.model, !.channel = s.channel]
           /\ Replace(j, IF j.stage = "both" THEN {[j EXCEPT !.stage = "others", !.got = got]}
                         ELSE {})
    /\ Redrawn
    /\ IF j.stage = "last" THEN Finish(j) ELSE UNCHANGED <<charted, modal>>
    /\ IF r = "ok" THEN view' = view ELSE Failed
    /\ UNCHANGED <<server, inputs, loading>>

\* loadBusinessStats; the other two catch what happens to them.
OthersAnswered(j) ==
    /\ j.stage \in {"both", "others"}
    /\ IF j.stage = "both"
       THEN Replace(j, {[j EXCEPT !.stage = "last"]}) /\ UNCHANGED <<charted, modal, drawn>>
       ELSE Replace(j, {}) /\ Finish(j) /\ updateChannelChartData(j)
    /\ UNCHANGED <<server, inputs, loading, channel, items, view>>

\* A broken request ends its handler, whatever else it waits for.
Broken(j) ==
    /\ j.stage # "quota" /\ Replace(j, {}) /\ Failed
    /\ UNCHANGED <<server, inputs, charted, modal, loading, channel, items, drawn>>

Next ==
    \/ handleRefresh \/ showSearchModal \/ handleCloseModal \/ handleInputChange
    \/ handleSearchConfirm \/ handleChannelUsageWindowChange \/ Choose
    \/ \E j \in jobs : \/ \E r \in {"ok", "refused", "broken"} : QuotaAnswered(j, r)
                       \/ \E r \in {"ok", "refused"} : ChannelAnswered(j, r)
                       \/ OthersAnswered(j) \/ Broken(j)

Spec == Init /\ [][Next]_vars

-----------------------------------------------------------------------------
(* Types and properties. *)

TypeOK ==
    /\ server \in Servers /\ inputs \in [range : Ranges, gran : Grans]
    /\ charted.gran \in Grans /\ charted.data \in Data \union {"none"}
    /\ {modal, loading} \subseteq BOOLEAN
    /\ channel \in [window : Windows, top : Tops, model : {"", "a", "b"}, channel : 0..2]
    /\ {items, drawn.items} \subseteq Windows \union {"none"}
    /\ \A j \in jobs : j.kind \in {"init", "refresh", "search", "window"}
    /\ view.clicks \in 0..MaxTries

\* Of which rows, and with which interval, the charts add up.
AddsUp ==
    [d \in Data, gran \in Grans |->
       LET rows  == RowsOf(d)
           all   == Sum(rows)
           trend == calculateTrendData(rows, gran)
           models == modelTotals(rows)
           bars  == Bars(rows, gran)
           drawnSum == MapThenSumSet(LAMBDA p : bars[p], DOMAIN bars)
           by    == Grouped(rows, gran)
           end   == Max(Times(rows))
           last  == {k \in DOMAIN by : \E r \in by[k] : r.at = end}
           reach == Times(rows) \union {end - (MAX_TREND_POINTS - 1) * Interval(gran)}
       IN  /\ MapThenSumSet(LAMBDA k : trend[k].quota, DOMAIN trend) = all.quota
           /\ MapThenSumSet(LAMBDA m : models[m], DOMAIN models) = all.count
           /\ drawnSum <= all.quota
           /\ Cardinality(DOMAIN trend) >= MAX_TREND_POINTS => drawnSum = all.quota
           /\ ~isDataCrossYear(reach) => last \subseteq DOMAIN bars
           /\ \A k \in last \intersect DOMAIN bars : bars[k] = trend[k].quota]

\* The charts are of the rows the totals are of: the trends and the models add
\* up to them, and so do the bars, unless there were fewer points than seven:
\* the bars then leave out what lies before the last seven intervals, but draw
\* the last one, where no year turns and both name times alike.
ChartsAddUp == charted.data # "none" => AddsUp[charted.data, charted.gran]

AtRest == jobs = {} /\ view.calm /\ view.kept

\* At rest the figures are of the range and the interval the search shows,
\* unless these were edited since.
FiguresAreSearched ==
    (AtRest /\ ~view.edited) =>
        /\ [range |-> charted.range, gran |-> charted.gran] = inputs
        /\ charted.data = server[inputs.range]

\* At rest the channels listed are those of the window that is named, the model
\* and the channel selected are among them, and the charts and the table below
\* are drawn from them.
DrawnIsSelected ==
    LET now == [by |-> channel, items |-> items]
    IN  AtRest =>
           /\ items = channel.window
           /\ channel.model \in {i.model : i \in ItemsOf(items)}
           /\ channel.channel \in {i.channel : i \in ItemsOf(items)}
           /\ drawn.by.window = channel.window
           /\ channelQuotaData(drawn) = channelQuotaData(now)
           /\ channelRequestData(drawn) = channelRequestData(now)
           /\ detailRows(drawn) = detailRows(now)
           /\ modelChannelData(drawn) = modelChannelData(now)
=============================================================================
