------------------------------ MODULE ModelTests ------------------------------
(***************************************************************************)
(* The tests of a channel's models (useChannelsData.jsx, testChannel and   *)
(* batchTestModels; ModelTestModal.jsx).  A batch tests a few models at a  *)
(* time and looks at a flag between them; the flag is one for all batches, *)
(* and so are the set of models that are shown as being tested and the     *)
(* sign that a batch is running.                                           *)
(***************************************************************************)
EXTENDS FiniteSets, Naturals

CONSTANTS
    MaxItems,   \* bound: models of a channel
    MaxClicks   \* bound: what the user does

VARIABLES
    channel,   \* currentTestChannel
    visible,   \* showModelTestModal
    testing,   \* testingModels
    batching,  \* isBatchTesting
    stop,      \* shouldStopBatchTestingRef
    results,   \* modelTestResults: a set of <<channel, model>>
    loops,     \* the batches that have not returned: a set of records
    tests,     \* the requests on their way
    view,      \* history: again, a batch was begun before another had returned; over, a
               \* test was begun before another of its model had returned
    count      \* bound

vars == <<channel, visible, testing, batching, stop, results, loops, tests, view, count>>

Channels == 1..2
Models == 1..MaxItems
Limit == 2     \* concurrencyLimit, 5 in the code
Single == 0    \* a test that belongs to no batch

Init ==
    /\ channel = 1 /\ visible = FALSE /\ testing = {} /\ batching = FALSE /\ stop = FALSE
    /\ results = {} /\ loops = {} /\ tests = {}
    /\ view = [again |-> FALSE, over |-> FALSE] /\ count = 0

Clicked == count < MaxClicks /\ count' = count + 1

\* The triangle beside a channel's test button.
Open ==
    /\ Clicked /\ ~visible /\ visible' = TRUE /\ channel' \in Channels
    /\ UNCHANGED <<testing, batching, stop, results, loops, tests, view>>

\* testChannel of some models: they are asked for at once.
Asked(by, c, models) == {[by |-> by, channel |-> c, model |-> m] : m \in models}
Begun(models) == testing \union models
Over(models) == view.over \/ \E t \in tests : t.model \in models

testChannel ==
    /\ Clicked /\ visible
    /\ \E m \in Models \ testing :
        /\ tests' = tests \union Asked(Single, channel, {m})
        /\ testing' = Begun({m})
        /\ view' = [view EXCEPT !.over = Over({m})]
    /\ UNCHANGED <<channel, visible, batching, stop, results, loops>>

\* The first models are asked for before anything else can happen.
Chunk(todo) == {m \in todo : Cardinality({n \in todo : n < m}) < Limit}
batchTestModels ==
    /\ Clicked /\ visible /\ ~batching
    /\ batching' = TRUE /\ stop' = FALSE
    /\ results' = {r \in results : r[1] # channel}
    /\ LET first == Chunk(Models) IN
        /\ loops' = loops \union
                {[by |-> count', channel |-> channel, todo |-> Models \ first, ended |-> FALSE]}
        /\ tests' = tests \union Asked(count', channel, first)
        /\ testing' = Begun(first)
        /\ view' = [again |-> view.again \/ loops # {}, over |-> Over(first)]
    /\ UNCHANGED <<channel, visible>>

\* An answer, good or bad: that isBatchTesting was seen false when the batch
\* began keeps the answers of a batch that was stopped.
Tested ==
    /\ \E t \in tests :
        /\ tests' = tests \ {t}
        /\ results' = results \union {<<t.channel, t.model>>}
        /\ testing' = testing \ {t.model}
    /\ UNCHANGED <<channel, visible, batching, stop, loops, view, count>>

Settled(l) == \A t \in tests : t.by # l.by

GoesOn(l) == l.todo # {} /\ ~stop

\* All answers of the chunk are there, and a tenth of a second later the next
\* one is begun.
Continued ==
    /\ \E l \in loops :
        /\ ~l.ended /\ Settled(l) /\ GoesOn(l)
        /\ LET next == Chunk(l.todo) IN
            /\ loops' = (loops \ {l}) \union {[l EXCEPT !.todo = @ \ next]}
            /\ tests' = tests \union Asked(l.by, l.channel, next)
            /\ testing' = Begun(next)
            /\ view' = [view EXCEPT !.over = Over(next)]
    /\ UNCHANGED <<channel, visible, batching, stop, results, count>>

\* The chunk was the last one, or the batch was stopped; a batch that was not
\* waits a moment before it says so.
Finished ==
    /\ \E l \in loops :
        /\ Settled(l) /\ ~GoesOn(l)
        /\ IF stop \/ l.ended
           THEN loops' = loops \ {l} /\ batching' = FALSE
           ELSE loops' = (loops \ {l}) \union {[l EXCEPT !.ended = TRUE]} /\ batching' = batching
    /\ UNCHANGED <<channel, visible, testing, stop, results, tests, view, count>>

\* Also the button that stops a batch.
handleCloseModal ==
    /\ visible /\ visible' = FALSE
    /\ stop' = (stop \/ batching)
    /\ batching' = FALSE /\ testing' = {}
    /\ UNCHANGED <<channel, results, loops, tests, view, count>>

Next == Open \/ testChannel \/ batchTestModels \/ Tested \/ Continued \/ Finished
        \/ handleCloseModal
Spec == Init /\ [][Next]_vars

-----------------------------------------------------------------------------
(* Properties. *)

\* Type correctness.
TypeOK ==
    /\ channel \in Channels /\ testing \subseteq Models
    /\ results \subseteq Channels \X Models
    /\ \A t \in tests : t.model \in Models /\ t.channel \in Channels
    /\ \A k, l \in loops : k.by = l.by => k = l

\* A batch that is shown as running runs, and nothing shown as tested is left
\* over; unless the user has begun the same again meanwhile.
RunningIsRunning ==
    /\ batching /\ ~view.again => loops # {} /\ ~stop
    /\ ~view.again /\ ~view.over /\ visible =>
        \A m \in testing : \E t \in tests : t.model = m /\ t.channel = channel

\* A batch that runs and was not stopped is shown, so that it can be stopped.
RunningIsShown == ~view.again /\ ~stop /\ loops # {} => batching /\ visible

\* A batch that says it is done has tested every model.
AllAreTested ==
    ~view.again => \A l \in loops : l.ended => \A m \in Models : <<l.channel, m>> \in results
=============================================================================
