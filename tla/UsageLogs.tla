----------------------------- MODULE UsageLogs ------------------------------
(***************************************************************************)
(* What a request costs, three times: what the server charges              *)
(* (service/text_quota.go, service/quota.go), what it writes to the usage  *)
(* log, and what the log page makes of that (hooks/usage-logs,             *)
(* helpers/render.jsx), which computes the price anew from the ratios in   *)
(* the row, along one path for amounts and along another for tokens.       *)
(*                                                                         *)
(* A model ratio of one is one unit of quota per token, so with whole      *)
(* ratios every amount is a whole number of units.                         *)
(***************************************************************************)
EXTENDS Integers, FiniteSetsExt

CONSTANTS MaxTokens  \* bound: tokens of each sort

VARIABLES
    usage,    \* the request: its kind, tokens, calls and ratios, the others multiplied
    row,      \* the log row, with the quota that was charged
    total,    \* the total the page shows, -1 before it has the row
    mode,     \* billingDisplayMode
    tokens    \* quota_display_type is TOKENS

vars == <<usage, row, total, mode, tokens>>

Tokens == 0..MaxTokens
NoPrice == -1
Prices == [web |-> 11, file |-> 13, call |-> 17, audio |-> 19, fixed |-> 23]

NoTokens == [prompt |-> 0, out |-> 0, cached |-> 0, written |-> 0, w5 |-> 0, w1 |-> 0,
             image |-> 0, audio |-> 0, audioOut |-> 0]
NoTools == [web |-> 0, file |-> 0, call |-> 0]
Ratios(cache, group, special) ==
    [model |-> 3, completion |-> 2, cache |-> cache, creation |-> 5, creation5 |-> 5,
     creation1 |-> 8, image |-> 7, audio |-> 4, audioOut |-> 6,
     group |-> IF special = -1 THEN group ELSE special, special |-> special]

\* Prompt tokens of an OpenAI usage include the special ones.
OpenAITokens ==
    {[NoTokens EXCEPT !.prompt = c + w + i + a + p, !.out = 1, !.cached = c, !.written = w,
                      !.image = i, !.audio = a] : c, w, i, a, p \in Tokens}
ClaudeTokens ==
    {[NoTokens EXCEPT !.prompt = p, !.out = 1, !.cached = c, !.written = w5 + w1 + w,
                      !.w5 = w5, !.w1 = w1] : p, c, w, w5, w1 \in Tokens}
AudioTokens ==
    {[NoTokens EXCEPT !.prompt = p, !.out = o, !.audio = a, !.audioOut = b] :
        p, o, a, b \in Tokens}
Tools == {NoTools, [NoTools EXCEPT !.web = 2], [NoTools EXCEPT !.file = 2],
          [NoTools EXCEPT !.call = 1]}

\* Images of a channel that multiplies (ali): two of them, or one whose prompt is
\* extended, of a model with a ratio or with a price.
ImageUsages ==
    [kind : {"openai"}, tokens : {[NoTokens EXCEPT !.prompt = p] : p \in {1, 2}},
     tools : {NoTools}, ratios : {Ratios(2, 2, s) : s \in {-1, 3}},
     price : {NoPrice, Prices.fixed}, others : {2, 4}]

TextUsages ==
    [kind : {"openai"}, tokens : OpenAITokens, tools : Tools,
     ratios : {Ratios(c, 2, s) : c \in {0, 2}, s \in {-1, 0}}, price : {NoPrice}, others : {1}]
    \union
    [kind : {"claude"}, tokens : ClaudeTokens, tools : {NoTools, [NoTools EXCEPT !.web = 2]},
     ratios : {Ratios(c, 2, s) : c \in {0, 2}, s \in {-1, 3}}, price : {NoPrice}, others : {1}]
    \union
    [kind : {"legacy"}, tokens : {t \in ClaudeTokens : t.w5 + t.w1 > 0}, tools : {NoTools},
     ratios : {Ratios(c, 2, s) : c \in {0, 2}, s \in {-1, 3}}, price : {NoPrice}, others : {1}]
    \union
    [kind : {"audio"}, tokens : AudioTokens, tools : {NoTools},
     ratios : {Ratios(2, 0, -1), Ratios(2, 2, -1)}, price : {NoPrice, Prices.fixed}, others : {1}]
    \union
    [kind : {"openai"}, tokens : {[NoTokens EXCEPT !.prompt = 1]}, tools : Tools,
     ratios : {Ratios(2, 2, -1)}, price : {Prices.fixed}, others : {1}]

Usages == TextUsages \union ImageUsages

NoRow == [quota |-> -1]

Init ==
    /\ usage \in Usages
    /\ row = NoRow /\ total = -1
    /\ mode \in {"price", "ratio"}
    /\ tokens \in BOOLEAN

-----------------------------------------------------------------------------
(* The server. *)

Calls(u) == (u.tools.web * Prices.web + u.tools.file * Prices.file
             + u.tools.call * Prices.call) * u.ratios.group

\* calculateTextQuotaSummary: tokens of a Claude usage are counted apart, those
\* of an OpenAI usage are part of the prompt and taken out of it; OtherRatios multiply
\* the whole.
calculateTextQuotaSummary(u) ==
    LET t == u.tokens
        r == u.ratios
        apart == u.kind \in {"claude", "legacy"}
        base == t.prompt - (IF apart THEN 0 ELSE t.cached + t.written) - t.image - t.audio
        remaining == Max({0, t.written - t.w5 - t.w1})
        written == IF apart THEN remaining * r.creation + t.w5 * r.creation5 + t.w1 * r.creation1
                   ELSE t.written * r.creation
        prompt == base + t.cached * r.cache + t.image * r.image + written
        q == (IF u.price # NoPrice THEN u.price * r.group + Calls(u)
              ELSE (prompt + t.out * r.completion) * r.model * r.group
                   + t.audio * Prices.audio * r.group + Calls(u)) * u.others
    IN  IF t.prompt + t.out = 0 THEN 0
        ELSE IF r.group # 0 /\ q <= 0 THEN 1 ELSE q

\* calculateAudioQuota.
calculateAudioQuota(u) ==
    LET t == u.tokens
        r == u.ratios
        q == (t.prompt + t.out * r.completion + t.audio * r.audio
              + t.audioOut * r.audio * r.audioOut) * r.model * r.group
    IN  IF t.prompt + t.out + t.audio + t.audioOut = 0 THEN 0
        ELSE IF u.price # NoPrice THEN u.price * r.group
        ELSE IF r.group # 0 /\ q <= 0 THEN 1 ELSE q

\* GenerateTextOtherInfo and what PostTextConsumeQuota adds: a field that does
\* not apply is not written, here 0.
OtherInfo(u) ==
    LET t == u.tokens
        r == u.ratios
        claude == u.kind = "claude"
        If(p, x) == IF p THEN x ELSE 0
    IN  [claude |-> claude, audioLog |-> u.kind = "audio", price |-> u.price,
         prompt |-> t.prompt, out |-> t.out, model |-> r.model, completion |-> r.completion,
         group |-> r.group, special |-> r.special,
         cached |-> t.cached, cache |-> If(u.kind # "audio", r.cache),
         written |-> t.written, creation |-> If(claude \/ t.written > 0, r.creation),
         w5 |-> t.w5, creation5 |-> If(t.w5 > 0, r.creation5),
         w1 |-> t.w1, creation1 |-> If(t.w1 > 0, r.creation1),
         image |-> t.image, imageRatio |-> If(t.image > 0, r.image),
         audio |-> t.audio, audioRatio |-> r.audio, audioOut |-> t.audioOut,
         audioOutRatio |-> r.audioOut,
         audioPrice |-> If(t.audio > 0, Prices.audio),
         web |-> u.tools.web, file |-> u.tools.file, call |-> u.tools.call]

-----------------------------------------------------------------------------
(* The page. *)

\* JavaScript's  x || default: a ratio of zero counts as absent.
Or(x, default) == IF x = 0 THEN default ELSE x

\* setLogsFormat hands these to the functions that compute the price.
PriceArguments(l) ==
    [l EXCEPT !.cache = Or(@, 1), !.creation = Or(l.creation, 1),
              !.creation5 = Or(@, Or(l.creation, 1)),
              !.creation1 = Or(@, Or(l.creation, 1))]

\* getEffectiveRatio: the user's own ratio, if there is one.
getEffectiveRatio(a) == IF a.special # -1 THEN a.special ELSE a.group

PerCall(a) == a.web * Prices.web + a.file * Prices.file + a.call * Prices.call

\* renderModelPrice along the path of amounts: the total.
ModelPriced(a) ==
    LET input == IF a.image > 0 THEN a.prompt - a.image + a.image * a.imageRatio
                 ELSE a.prompt - a.cached + a.cached * a.cache
    IN  ((input - a.audio + a.out * a.completion) * a.model
         + a.audio * a.audioPrice + PerCall(a)) * getEffectiveRatio(a)

\* The formula it prints, which describes one special sort of input at most.
ModelFormula(a) ==
    LET input ==
            IF a.image > 0 THEN a.prompt * a.model
            ELSE IF a.cached > 0
                 THEN (a.prompt - a.cached) * a.model + a.cached * a.model * a.cache
            ELSE IF a.audio > 0 THEN (a.prompt - a.audio) * a.model + a.audio * a.audioPrice
            ELSE a.prompt * a.model
    IN  (input + a.out * a.model * a.completion + PerCall(a)) * getEffectiveRatio(a)

\* Along the path of tokens every sort of input has an amount of its own ...
ModelAmounts(a) ==
    LET text == Max({a.prompt - a.cached - a.audio, 0})
    IN  [input |-> text * a.model, cached |-> a.cached * a.model * a.cache,
         image |-> a.image * a.model * a.imageRatio, audio |-> a.audio * a.audioPrice,
         output |-> a.out * a.model * a.completion, web |-> a.web * Prices.web,
         file |-> a.file * Prices.file, call |-> a.call * Prices.call]

\* ... and a line, unless there is none of it.
ModelLines(a) ==
    (IF a.prompt - a.cached - a.audio > 0 THEN {"input"} ELSE {})
    \union {n \in {"cached", "image", "web", "file", "call"} : a[n] > 0}
    \union (IF a.audio > 0 /\ a.audioPrice > 0 THEN {"audio"} ELSE {})
    \union {"output"}

Split(a) == a.w5 > 0 \/ a.w1 > 0

\* renderClaudeModelPrice: the same sum on both paths.
ClaudePriced(a) ==
    LET written == (IF Split(a) THEN 0 ELSE a.written) * a.creation
                   + a.w5 * a.creation5 + a.w1 * a.creation1
    IN  (a.prompt + a.cached * a.cache + written + a.out * a.completion)
        * a.model * getEffectiveRatio(a)

\* A mutant of ClaudeAmounts: tokens written for an hour at the price of five minutes.
ClaudeAmountsFlat(a) ==
    [input |-> a.prompt * a.model, cached |-> a.cached * a.model * a.cache,
     written |-> IF Split(a) THEN 0 ELSE a.written * a.model * a.creation,
     w5 |-> a.w5 * a.model * a.creation5, w1 |-> a.w1 * a.model * a.creation5,
     output |-> a.out * a.model * a.completion]

ClaudeAmounts(a) ==
    [input |-> a.prompt * a.model, cached |-> a.cached * a.model * a.cache,
     written |-> IF Split(a) THEN 0 ELSE a.written * a.model * a.creation,
     w5 |-> a.w5 * a.model * a.creation5, w1 |-> a.w1 * a.model * a.creation1,
     output |-> a.out * a.model * a.completion]

ClaudeLines(a) ==
    {"input", "output"} \union {n \in {"cached", "w5", "w1"} : a[n] > 0}
    \union (IF ~Split(a) /\ a.written > 0 THEN {"written"} ELSE {})

\* renderAudioModelPrice.
AudioPriced(a) ==
    (a.prompt - a.cached + a.cached * a.cache + a.out * a.completion
     + a.audio * a.audioRatio + a.audioOut * a.audioRatio * a.audioOutRatio)
    * a.model * getEffectiveRatio(a)

AudioAmounts(a) ==
    [input |-> Max({a.prompt - a.cached, 0}) * a.model,
     cached |-> a.cached * a.model * a.cache, output |-> a.out * a.model * a.completion,
     audio |-> a.audio * a.model * a.audioRatio,
     audioOut |-> a.audioOut * a.model * a.audioRatio * a.audioOutRatio]

AudioLines(a) ==
    {"input", "output", "audio", "audioOut"} \union (IF a.cached > 0 THEN {"cached"} ELSE {})

Priced(l) ==
    LET a == PriceArguments(l)
    IN  IF l.price # NoPrice THEN l.price * getEffectiveRatio(a)
        ELSE IF l.audioLog THEN AudioPriced(a)
        ELSE IF l.claude THEN ClaudePriced(a) ELSE ModelPriced(a)

Amounts(l) ==
    LET a == PriceArguments(l)
    IN  IF l.audioLog THEN AudioAmounts(a)
        ELSE IF l.claude THEN ClaudeAmounts(a) ELSE ModelAmounts(a)
Lines(l) ==
    LET a == PriceArguments(l)
    IN  IF l.audioLog THEN AudioLines(a)
        ELSE IF l.claude THEN ClaudeLines(a) ELSE ModelLines(a)
Counted(l) ==
    MapThenSumSet(LAMBDA n : Amounts(l)[n], DOMAIN Amounts(l)) * getEffectiveRatio(l)

\* resolveBillingDisplayMode: a fixed price is shown as one, tokens as ratios.
resolveBillingDisplayMode(l) ==
    IF l.price # NoPrice THEN "price" ELSE IF tokens THEN "ratio" ELSE mode

\* getUsageLogDetailSummary and the segments of renderPriceSimpleCore: the
\* sorts of input the row names.  For other than Claude rows it is handed no
\* cache writes.
SummarySegments(l) ==
    LET a == IF l.claude THEN l ELSE [l EXCEPT !.written = 0, !.w5 = 0, !.w1 = 0]
    IN  IF l.price # NoPrice THEN {"price"}
        ELSE {"input"} \union {n \in {"cached", "w5", "w1"} : a[n] > 0}
             \union (IF ~Split(a) /\ a.written # 0 THEN {"written"} ELSE {})

\* renderClaudeLogContent: the prices, or ratios, in the details of a row.
ClaudeContent(l, shown) ==
    IF l.price # NoPrice THEN {"price"}
    ELSE {"input", "output", "cached"} \union {n \in {"w5", "w1"} : l[n] > 0}
         \union (IF Split(l) THEN {} ELSE {"written"})

\* renderLogContent: it is never told of an image.
ModelContent(l, shown) ==
    IF l.price # NoPrice THEN {"price"}
    ELSE IF shown = "price"
         THEN {"input", "output"} \union (IF Or(l.cache, 1) # 1 THEN {"cached"} ELSE {})
              \union {n \in {"web", "file"} : l[n] > 0}
    ELSE {"input", "output", "cached"} \union (IF l.web > 0 THEN {"web"} ELSE {})

Content(l) == IF l.claude THEN ClaudeContent(l, resolveBillingDisplayMode(l))
              ELSE ModelContent(l, resolveBillingDisplayMode(l))

-----------------------------------------------------------------------------

\* The request is charged and logged.
Charge ==
    /\ row = NoRow
    /\ row' = [quota |-> IF usage.kind = "audio" THEN calculateAudioQuota(usage)
                         ELSE calculateTextQuotaSummary(usage),
               other |-> OtherInfo(usage)]
    /\ UNCHANGED <<usage, total, mode, tokens>>

\* The page loads the row and writes its explanation, once: choosing another
\* mode later does not write it again.
setLogsFormat ==
    /\ row # NoRow
    /\ total' = IF tokens /\ row.other.price = NoPrice THEN Counted(row.other)
                ELSE Priced(row.other)
    /\ UNCHANGED <<usage, row, mode, tokens>>

setBillingDisplayMode ==
    /\ mode' \in {"price", "ratio"} \ {mode}
    /\ UNCHANGED <<usage, row, total, tokens>>

Next == Charge \/ setLogsFormat \/ setBillingDisplayMode
Spec == Init /\ [][Next]_vars

-----------------------------------------------------------------------------
(* Properties. *)

\* Type correctness.
TypeOK ==
    /\ total \in Nat \union {-1}
    /\ row = NoRow \/ row.quota \in Nat
    /\ mode \in {"price", "ratio"} /\ tokens \in BOOLEAN

\* The sorts of usage the page prices otherwise than the server, which is why
\* it says that the actual deduction prevails.
PricedOtherwise(u) ==
    \/ u.tokens.cached > 0 /\ u.ratios.cache = 0   \* shown as a ratio of one
    \/ u.kind = "openai" /\ u.tokens.written > 0   \* not shown
    \/ u.kind = "openai" /\ u.tokens.image > 0 /\ (tokens \/ u.tokens.cached > 0)
    \/ u.kind = "claude" /\ u.tools # NoTools
    \/ /\ u.kind = "claude" /\ (u.tokens.w5 > 0 \/ u.tokens.w1 > 0)
       /\ u.tokens.written > u.tokens.w5 + u.tokens.w1
    \/ u.kind = "legacy" /\ (u.tokens.cached > 0 \/ u.tokens.written > 0 )
    \/ u.price # NoPrice /\ u.tools # NoTools
    \/ u.kind = "audio" /\ u.tokens = NoTokens    \* nothing is charged then

\* Apart from those, the page arrives at what was charged, on either path, but for the
\* other ratios: the row does not name them, so of two images it shows the price of one
\* (renderModelPrice, renderClaudeModelPrice and renderAudioModelPrice against
\* calculateTextQuotaSummary and calculateAudioQuota).
ShownIsCharged ==
    (total # -1 /\ ~PricedOtherwise(usage)) => total * usage.others = row.quota

\* On the path of tokens what has no line costs nothing, so the lines add up
\* to the total under them.
LinesAddUp ==
    row # NoRow => \A n \in DOMAIN Amounts(row.other) \ Lines(row.other) :
                      Amounts(row.other)[n] = 0

\* On the path of amounts the formula gives its total, unless there is an
\* image, or audio next to cached tokens.
FormulaAddsUp ==
    LET a == PriceArguments(row.other)
    IN  (/\ row # NoRow /\ row.other.price = NoPrice /\ ~row.other.claude
         /\ ~row.other.audioLog /\ a.image = 0 /\ (a.cached = 0 \/ a.audio = 0))
        => ModelFormula(a) = ModelPriced(a)

\* Whatever sort of input a row's summary names, the details behind it give
\* its price, unless that is the price of any input (SummarySegments against
\* renderLogContent and renderClaudeLogContent, in whichever mode).
DetailsNameIt ==
    row # NoRow => SummarySegments(row.other) \subseteq
                       Content(row.other) \union
                       (IF Or(row.other.cache, 1) = 1 THEN {"cached"} ELSE {})
=============================================================================
