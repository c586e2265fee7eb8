----------------------------- MODULE TaskBilling -----------------------------
(***************************************************************************)
(* The life of an asynchronous task (video, music) and of the money held   *)
(* for it.  A request is charged, forwarded, settled and written as a row  *)
(* of the tasks table; afterwards three parties move the row and the money *)
(* without talking to each other: the sweeper and the poller of every      *)
(* master process (service/task_polling.go) and the fetch handler of every *)
(* web process (tryRealtimeFetch in relay/relay_task.go).                  *)
(*                                                                         *)
(* Money is a ledger: fund[t] is what the wallet or the subscription has   *)
(* paid for task t so far, tok[t] what the API token has been debited.     *)
(***************************************************************************)
EXTENDS Integers, FiniteSets

CONSTANTS
    Tasks,          \* task ids: a finite set of naturals, in insertion order
    Channels,       \* upstream channels
    Deletable,      \* those an administrator may delete
    ChannelOf,      \* the channel each task was accepted on
    Masters,        \* processes running TaskPollingLoop (NODE_TYPE /= slave)
    Readers,        \* concurrent GET handlers of a task
    SunoTasks,      \* tasks of the platform polled by updateSunoTasks
    RealtimeTasks,  \* tasks on Gemini / Vertex channels
    SubTasks,       \* tasks paid from a subscription (BillingSource)
    LegacyTasks,    \* tasks submitted before legacyTaskCutoff
    Quotas,         \* the prices a task can have
    Actual,         \* the price the final usage report gives, 0: no adjustment
    SweepLimit,     \* page size of GetTimedOutUnfinishedTasks (100)
    QueryLimit,     \* page size of GetAllUnFinishSyncTasks
    TimeoutEnabled, \* TaskTimeoutMinutes > 0
    MaxFaults,      \* bound: database errors and crashes in one behaviour
    MaxFetches      \* bound: realtime fetches in one behaviour

ASSUME TasksAssumption == Tasks \subseteq Nat /\ IsFiniteSet(Tasks)
ASSUME QuotasAssumption == Quotas \subseteq Nat
ASSUME ActualAssumption == Actual \in [Tasks -> Nat]
ASSUME ChannelAssumption ==
    ChannelOf \in [Tasks -> Channels] /\ Deletable \subseteq Channels
ASSUME LimitsAssumption ==
    /\ SweepLimit \in Nat \ {0} /\ QueryLimit \in Nat \ {0} 
    /\ MaxFaults \in Nat /\ MaxFetches \in Nat
ASSUME KindsAssumption ==
    /\ SunoTasks \subseteq Tasks
    /\ RealtimeTasks \subseteq Tasks
    /\ SubTasks \subseteq Tasks
    /\ LegacyTasks \subseteq Tasks
    /\ TimeoutEnabled \in BOOLEAN

VARIABLES
    submit,    \* where the request handler of each task is
    pre,       \* BillingSession.preConsumedQuota of the request
    quote,     \* TaskSubmitResult.Quota
    row,       \* the row of the tasks table, NoRow before Insert
    fund,      \* net charge of the funding source
    tok,       \* net charge of the token
    upstream,  \* what the provider would answer
    gone,      \* channels an administrator has deleted
    aged,      \* tasks whose submit_time is before the cutoff
    phase,     \* sweep or poll half of the round a master is in
    view,      \* rows the master read at the start of the phase and has yet to do
    answer,    \* upstream answer the master holds for one task
    job,       \* billing (and Suno save) the master is in the middle of
    fetch,     \* what a reader is about to write
    fetches,   \* realtime fetches so far
    faults,    \* database errors and crashes so far
    bills,     \* history: how many refunds or adjustments were started per task
    unsettled, \* history: tasks whose SettleBilling failed or half failed
    tainted    \* history: tasks that lost billing work to a fault

request == <<submit, pre, quote>>
ledger  == <<fund, tok>>
outside == <<upstream, gone, aged>>
master  == <<phase, view, answer, job>>
reader  == <<fetch, fetches>>
history == <<bills, unsettled, tainted>>
vars == <<request, row, ledger, outside, master, reader, faults, history>>

-----------------------------------------------------------------------------
(* The tasks table *)

Running  == {"NOT_START", "QUEUED", "IN_PROGRESS"}
Terminal == {"SUCCESS", "FAILURE"}
Status   == Running \union Terminal

\* progress is "100%" or anything else; every query tells only that apart.
Row   == [status : Status, full : BOOLEAN, quota : Nat]
NoRow == [status |-> "none"]

Exists(t)   == row[t] # NoRow
Finished(r) == r.status \in Terminal

\* The WHERE clause of GetTimedOutUnfinishedTasks and GetAllUnFinishSyncTasks.
Unfinished == {t \in Tasks : Exists(t) /\ ~row[t].full /\ ~Finished(row[t])}

\* ORDER BY id LIMIT n
Page(S, n) == {t \in S : Cardinality({u \in S : u < t}) < n}

Copies(S) == [t \in Tasks |-> IF t \in S THEN row[t] ELSE NoRow]
NoView    == [t \in Tasks |-> NoRow]
Listed(m) == {t \in Tasks : view[m][t] # NoRow}
Done(m, S) == [view EXCEPT ![m] = [t \in Tasks |->
                                      IF t \in S THEN NoRow ELSE view[m][t]]]

\* UpdateWithStatus: the row still has the status the master read.
WonAlways(m, t) == TRUE
Won(m, t) == row[t].status = view[m][t].status

\* A row with a status whose progress follows from it.  The adaptors of Gemini and
\* Vertex, the only ones tryRealtimeFetch asks, report progress that way too.
WithStatus(r, s) == [r EXCEPT !.status = s, !.full = (s \in Terminal)]

\* A row as the poller fills it in from an answer: the progress the provider
\* reports overwrites the one derived from the status, except for a failure.
ReportedByStatus(r, a) == WithStatus(r, a.status)
Reported(r, a) == [r EXCEPT !.status = a.status, !.full = (a.full \/ a.status = "FAILURE")]

Fault == faults < MaxFaults /\ faults' = faults + 1

-----------------------------------------------------------------------------
(* Jobs: RefundTaskQuota and RecalculateTaskQuota, statement by statement *)

NoJob == [step |-> "none"]
Job   == {j \in [task : Tasks, delta : Int, step : {"fund", "token", "save"},
                save : Row \union {NoRow}] : j.step = "save" => j.save # NoRow}

Refund(t, r)   == [task |-> t, delta |-> -r.quota, step |-> "fund", save |-> NoRow]
AdjustEstimate(t, r) == [task |-> t, delta |-> Actual[t] - pre[t], step |-> "fund",
                         save |-> NoRow]
Adjust(t, r)   == [task |-> t, delta |-> Actual[t] - r.quota, step |-> "fund",
                   save |-> NoRow]
NeedsAdjust(t, r) == Actual[t] > 0 /\ Actual[t] # r.quota

Working(t) == \E m \in Masters : job[m] # NoJob /\ job[m].task = t

\* What follows the billing part of a job: the Save of a Suno task, or nothing.
AfterBilling(j) == IF j.save = NoRow THEN NoJob ELSE [j EXCEPT !.step = "save"]

NoAnswer == [status |-> "none"]
Answer   == [task : Tasks, status : Status, reason : BOOLEAN, full : BOOLEAN]

NoFetch == [status |-> "none"]
Fetch   == [task : Tasks, from : Status, to : Status, copy : Row]

-----------------------------------------------------------------------------
Init ==
    /\ submit = [t \in Tasks |-> "new"]
    /\ pre = [t \in Tasks |-> 0]
    /\ quote = [t \in Tasks |-> 0]
    /\ row = [t \in Tasks |-> NoRow]
    /\ fund = [t \in Tasks |-> 0]
    /\ tok = [t \in Tasks |-> 0]
    /\ upstream = [t \in Tasks |-> "none"]
    /\ gone = {}
    /\ aged = {}
    /\ phase = [m \in Masters |-> "poll"]
    /\ view = [m \in Masters |-> NoView]
    /\ answer = [m \in Masters |-> NoAnswer]
    /\ job = [m \in Masters |-> NoJob]
    /\ fetch = [r \in Readers |-> NoFetch]
    /\ fetches = 0
    /\ faults = 0
    /\ bills = [t \in Tasks |-> 0]
    /\ unsettled = {}
    /\ tainted = {}

Become(t, s) == submit' = [submit EXCEPT ![t] = s]

Charge(t, df, dt) == /\ fund' = [fund EXCEPT ![t] = @ + df]
                     /\ tok' = [tok EXCEPT ![t] = @ + dt]

-----------------------------------------------------------------------------
(* The request: RelayTask and RelayTaskSubmit *)

\* First attempt: ForcePreConsume, so the whole estimate is held.
PreConsume(t, q) ==
    /\ submit[t] = "new"
    /\ Become(t, "held")
    /\ pre' = [pre EXCEPT ![t] = q]
    /\ Charge(t, q, q)
    /\ UNCHANGED <<quote, row, outside, master, reader, faults, history>>

Insufficient(t) ==
    /\ submit[t] = "new"
    /\ Become(t, "closed")
    /\ UNCHANGED <<pre, quote, row, ledger, outside, master, reader, faults, history>>

\* The attempt that succeeds may be a retry on another channel and group, which
\* prices the task again; only the first attempt held money.
Accept(t, q) ==
    /\ submit[t] = "held"
    /\ Become(t, "accepted")
    /\ quote' = [quote EXCEPT ![t] = q]
    /\ upstream' = [upstream EXCEPT ![t] = "QUEUED"]
    /\ UNCHANGED <<pre, row, ledger, gone, aged, master, reader, faults, history>>

\* taskErr # nil after the last attempt: the deferred Refund.
GiveUp(t) ==
    /\ submit[t] = "held"
    /\ Become(t, "releasing")
    /\ UNCHANGED <<pre, quote, row, ledger, outside, master, reader, faults, history>>

\* How often the funding source has given the hold back when the refund failed in
\* fails attempts.  A wallet has one attempt.  refundWithRetry gives a subscription
\* three, and each pays in a transaction of its own before the record is marked
\* "refunded": an attempt whose marking failed may have paid all the same.
Attempts(t) == IF t \in SubTasks THEN 3 ELSE 1
Given(t, fails) == IF t \notin SubTasks THEN {1 - fails}
                   ELSE IF fails < 3 THEN 1..(fails + 1) ELSE 0..3
GivenOnce(t, fails) == IF fails < Attempts(t) THEN {1} ELSE {0}

\* The goroutine of BillingSession.Refund: the funding source, then the token.
Release(t) ==
    /\ submit[t] = "releasing"
    /\ Become(t, "closed")
    /\ \E fails \in 0..Attempts(t), lost \in 0..1 :
          /\ faults + fails + lost <= MaxFaults
          /\ faults' = faults + fails + lost
          /\ tainted' = IF fails + lost > 0 THEN tainted \union {t} ELSE tainted
          /\ \E given \in Given(t, fails) : Charge(t, -(given * pre[t]), -((1 - lost) * pre[t]))
    /\ UNCHANGED <<pre, quote, row, outside, master, reader, bills, unsettled>>

\* The funding side of a settlement can be refused without any fault: a
\* subscription does not go over its total.
Refusable(t, delta) == t \in SubTasks /\ delta > 0

\* SettleBilling; its error is logged and the handler goes on.
Settle(t) ==
    LET delta == quote[t] - pre[t]
    IN  /\ submit[t] = "accepted"
        /\ Become(t, "settled")
        /\ \/ Charge(t, delta, delta) /\ UNCHANGED <<faults, unsettled>>
           \/ /\ delta # 0
              /\ \/ Refusable(t, delta) /\ UNCHANGED faults
                 \/ Fault
              /\ UNCHANGED ledger
              /\ unsettled' = unsettled \union {t}
           \/ /\ delta # 0
              /\ Fault
              /\ Charge(t, delta, 0)
              /\ unsettled' = unsettled \union {t}
        /\ UNCHANGED <<pre, quote, row, outside, master, reader, bills, tainted>>

\* InitTask, then task.Quota = result.Quota.
NewRowDifference(t) ==
    [status |-> "NOT_START", full |-> FALSE, quota |-> quote[t] - pre[t]]
NewRow(t) == [status |-> "NOT_START", full |-> FALSE, quota |-> quote[t]]

\* task.Insert; a failed insert is only logged.
Insert(t) ==
    /\ submit[t] = "settled"
    /\ Become(t, "closed")
    /\ \/ /\ row' = [row EXCEPT ![t] = NewRow(t)]
          /\ UNCHANGED <<faults, tainted>>
       \/ /\ Fault
          /\ tainted' = tainted \union {t}
          /\ UNCHANGED row
    /\ UNCHANGED <<pre, quote, ledger, outside, master, reader, bills, unsettled>>

\* The web process dies with the request in flight.
CrashRequest(t) ==
    /\ submit[t] \in {"held", "accepted", "releasing", "settled"}
    /\ Fault
    /\ Become(t, "closed")
    /\ tainted' = tainted \union {t}
    /\ UNCHANGED <<pre, quote, row, ledger, outside, master, reader, bills, unsettled>>

-----------------------------------------------------------------------------
(* The outside *)

Later(u) == CASE u = "QUEUED"      -> {"IN_PROGRESS"} \union Terminal
              [] u = "IN_PROGRESS" -> Terminal
              [] OTHER             -> {}

\* The provider works on the task; it never goes back.
UpstreamStep(t, s) ==
    /\ s \in Later(upstream[t])
    /\ upstream' = [upstream EXCEPT ![t] = s]
    /\ UNCHANGED <<request, row, ledger, gone, aged, master, reader, faults, history>>

\* An administrator deletes a channel; CacheGetChannel fails from then on.
DeleteChannel(c) ==
    /\ c \in Deletable \ gone
    /\ gone' = gone \union {c}
    /\ UNCHANGED <<request, row, ledger, upstream, aged, master, reader, faults, history>>

\* TaskTimeoutMinutes pass since the task was submitted.
Age(t) ==
    /\ t \notin aged
    /\ Exists(t)
    /\ aged' = aged \union {t}
    /\ UNCHANGED <<request, row, ledger, upstream, gone, master, reader, faults, history>>

-----------------------------------------------------------------------------
(* TaskPollingLoop: the sweep *)

Quiet(m) == answer[m] = NoAnswer /\ job[m] = NoJob

StartJob(m, j) == /\ job' = [job EXCEPT ![m] = j]
                  /\ bills' = [bills EXCEPT ![j.task] = @ + 1]

\* A new round begins with the list of sweepTimedOutTasks (nil on an error).
BeginSweep(m) ==
    /\ phase[m] = "poll" /\ Quiet(m) /\ Listed(m) = {}
    /\ phase' = [phase EXCEPT ![m] = "sweep"]
    /\ \/ /\ view' = [view EXCEPT ![m] =
                         IF TimeoutEnabled
                         THEN Copies(Page(Unfinished \cap aged, SweepLimit))
                         ELSE NoView]
          /\ UNCHANGED faults
       \/ Fault /\ UNCHANGED view
    /\ UNCHANGED <<request, row, ledger, outside, answer, job, reader, history>>

\* Rows from before billing contexts existed are failed without a refund.
SweepRefundsLegacy(t, r) == t \in LegacyTasks /\ r.quota # 0
SweepRefunds(t, r) == t \notin LegacyTasks /\ r.quota # 0

\* One iteration of the loop of sweepTimedOutTasks: the compare-and-swap on the
\* status that was read, and a refund only for the process that won it.
SweepOne(m, t) ==
    LET seen == view[m][t]
    IN  /\ phase[m] = "sweep" /\ Quiet(m)
        /\ t \in Listed(m)
        /\ view' = Done(m, {t})
        /\ \/ /\ row' = IF Won(m, t) THEN [row EXCEPT ![t] = WithStatus(seen, "FAILURE")] ELSE row
              /\ IF Won(m, t) /\ SweepRefunds(t, seen)
                 THEN StartJob(m, Refund(t, seen))
                 ELSE UNCHANGED <<job, bills>>
              /\ UNCHANGED faults
           \/ Fault /\ UNCHANGED <<row, job, bills>>
        /\ UNCHANGED <<request, ledger, outside, phase, answer, reader, unsettled, tainted>>

-----------------------------------------------------------------------------
(* TaskPollingLoop: the poll *)

BeginPoll(m) ==
    /\ phase[m] = "sweep" /\ Quiet(m) /\ Listed(m) = {}
    /\ phase' = [phase EXCEPT ![m] = "poll"]
    /\ \/ /\ view' = [view EXCEPT ![m] = Copies(Page(Unfinished, QueryLimit))]
          /\ UNCHANGED faults
       \/ Fault /\ UNCHANGED view
    /\ UNCHANGED <<request, row, ledger, outside, answer, job, reader, history>>

\* The channel of some listed tasks no longer exists: TaskBulkUpdateByID fails
\* them all, whatever their rows hold now, and nobody is refunded.
BulkFail(m, c) ==
    LET group == {t \in Listed(m) : ChannelOf[t] = c}
    IN  /\ phase[m] = "poll" /\ Quiet(m)
        /\ c \in gone /\ group # {}
        /\ view' = Done(m, group)
        /\ \/ /\ row' = [t \in Tasks |-> IF t \in group THEN WithStatus(row[t], "FAILURE")
                                                        ELSE row[t]]
              /\ UNCHANGED faults
           \/ Fault /\ UNCHANGED row
        /\ UNCHANGED <<request, ledger, outside, phase, answer, job, reader, history>>

\* FetchTask and ParseTaskResult, or the new-API format, whose progress is anybody's.
\* An answer without a status is taken as a failure of a video task, a Suno answer
\* may carry a fail reason of its own.
Answers(t) ==
    IF t \in SunoTasks
    THEN [task : {t}, status : {upstream[t]}, reason : BOOLEAN, full : {FALSE}]
    ELSE [task : {t}, status : {upstream[t], "FAILURE"}, reason : {FALSE}, full : BOOLEAN]
Ask(m, t, a) ==
    /\ phase[m] = "poll" /\ Quiet(m)
    /\ t \in Listed(m) /\ ChannelOf[t] \notin gone
    /\ a \in Answers(t)
    /\ answer' = [answer EXCEPT ![m] = a]
    /\ UNCHANGED <<request, row, ledger, outside, phase, view, job, reader, faults, history>>

\* The provider does not answer, answers 429, or answers something unknown.
AskFails(m, t) ==
    /\ phase[m] = "poll" /\ Quiet(m)
    /\ t \in Listed(m) /\ ChannelOf[t] \notin gone
    /\ view' = Done(m, {t})
    /\ UNCHANGED <<request, row, ledger, outside, phase, answer, job, reader, faults, history>>

\* updateVideoSingleTask from the snapshot on: the compare-and-swap, then the
\* settlement or the refund if the task has just finished and the swap was won.  An
\* answer that brings nothing new is not written.
ApplyVideo(m) ==
    LET t    == answer[m].task
        s    == answer[m].status
        seen == view[m][t]
    IN  /\ answer[m] # NoAnswer
        /\ t \notin SunoTasks
        /\ answer' = [answer EXCEPT ![m] = NoAnswer]
        /\ view' = Done(m, {t})
        /\ \/ /\ row' = IF Won(m, t) THEN [row EXCEPT ![t] = Reported(seen, answer[m])] ELSE row
              /\ IF Won(m, t) /\ s = "SUCCESS" /\ NeedsAdjust(t, seen)
                 THEN StartJob(m, Adjust(t, seen))
                 ELSE IF Won(m, t) /\ s = "FAILURE" /\ seen.quota # 0
                      THEN StartJob(m, Refund(t, seen))
                      ELSE UNCHANGED <<job, bills>>
              /\ UNCHANGED faults
           \/ /\ Fault \/ (Reported(seen, answer[m]) = seen /\ UNCHANGED faults)
              /\ UNCHANGED <<row, job, bills>>
        /\ UNCHANGED <<request, ledger, outside, phase, reader, unsettled, tainted>>

\* A fail reason alone counts as a failure and completes the progress, but the
\* status is whatever the provider said.
SunoFailsByReason(a) == a.reason
SunoFails(a) == a.reason \/ a.status = "FAILURE"
SunoRow(r, a) == [r EXCEPT !.status = a.status,
                           !.full = (SunoFails(a) \/ a.status \in Terminal)]

\* updateSunoTasks: the refund comes first, then Save, which does not look at
\* the row it overwrites.  Without a change (taskNeedsUpdate) nothing happens.
ApplySuno(m) ==
    LET t      == answer[m].task
        seen   == view[m][t]
        fails  == SunoFails(answer[m])
        new    == SunoRow(seen, answer[m])
    IN  /\ answer[m] # NoAnswer
        /\ t \in SunoTasks
        /\ answer' = [answer EXCEPT ![m] = NoAnswer]
        /\ view' = Done(m, {t})
        /\ \/ /\ ~answer[m].reason /\ answer[m].status = seen.status
              /\ UNCHANGED <<job, bills>>
           \/ /\ fails /\ seen.quota # 0
              /\ StartJob(m, [Refund(t, seen) EXCEPT !.save = new])
           \/ /\ ~(fails /\ seen.quota # 0)
              /\ job' = [job EXCEPT ![m] = [task |-> t, delta |-> 0, step |-> "save",
                                            save |-> new]]
              /\ UNCHANGED bills
        /\ UNCHANGED <<request, row, ledger, outside, phase, reader, faults,
                       unsettled, tainted>>

\* task.Update() at the end of updateSunoTasks; an error is only logged.
SaveSuno(m) ==
    /\ job[m] # NoJob /\ job[m].step = "save"
    /\ job' = [job EXCEPT ![m] = NoJob]
    /\ \/ row' = [row EXCEPT ![job[m].task] = job[m].save] /\ UNCHANGED faults
       \/ Fault /\ UNCHANGED row
    /\ UNCHANGED <<request, ledger, outside, phase, view, answer, reader, history>>

-----------------------------------------------------------------------------
(* RefundTaskQuota and RecalculateTaskQuota *)

\* taskAdjustFunding; after an error the token is left alone too.
JobFunding(m) ==
    LET j == job[m]
    IN  /\ j # NoJob /\ j.step = "fund"
        /\ \/ /\ Charge(j.task, j.delta, 0)
              /\ job' = [job EXCEPT ![m].step = "token"]
              /\ UNCHANGED <<faults, tainted>>
           \/ /\ \/ Refusable(j.task, j.delta) /\ UNCHANGED faults
                 \/ Fault
              /\ job' = [job EXCEPT ![m] = AfterBilling(j)]
              /\ tainted' = tainted \union {j.task}
              /\ UNCHANGED ledger
        /\ UNCHANGED <<request, row, outside, phase, view, answer, reader, bills, unsettled>>

\* taskAdjustTokenQuota; skipped when the token is deleted or cannot be read.
JobToken(m) ==
    LET j == job[m]
    IN  /\ j # NoJob /\ j.step = "token"
        /\ job' = [job EXCEPT ![m] = AfterBilling(j)]
        /\ \/ Charge(j.task, 0, j.delta) /\ UNCHANGED <<faults, tainted>>
           \/ Fault /\ tainted' = tainted \union {j.task} /\ UNCHANGED ledger
        /\ UNCHANGED <<request, row, outside, phase, view, answer, reader, bills, unsettled>>

\* The master dies and comes back: everything it held in memory is gone.
CrashMaster(m) ==
    /\ Fault
    /\ phase' = [phase EXCEPT ![m] = "poll"]
    /\ view' = [view EXCEPT ![m] = NoView]
    /\ answer' = [answer EXCEPT ![m] = NoAnswer]
    /\ job' = [job EXCEPT ![m] = NoJob]
    /\ tainted' = tainted \union (IF job[m] = NoJob THEN {} ELSE {job[m].task})
    /\ UNCHANGED <<request, row, ledger, outside, reader, bills, unsettled>>

-----------------------------------------------------------------------------
(* tryRealtimeFetch, in the handler of a user's GET *)

RealtimeFetch(r, t) ==
    /\ fetch[r] = NoFetch
    /\ fetches < MaxFetches /\ fetches' = fetches + 1
    /\ t \in RealtimeTasks /\ Exists(t) /\ ChannelOf[t] \notin gone
    /\ \E s \in {upstream[t], "FAILURE"} :
          /\ s # row[t].status
          /\ fetch' = [fetch EXCEPT ![r] =
                          [task |-> t, from |-> row[t].status, to |-> s, copy |-> row[t]]]
    /\ UNCHANGED <<request, row, ledger, outside, master, faults, history>>

\* UpdateWithStatus(snap.Status): no refund, no settlement, and the status read
\* may itself be final.
RealtimeApply(r) ==
    LET f == fetch[r]
    IN  /\ f # NoFetch
        /\ fetch' = [fetch EXCEPT ![r] = NoFetch] /\ UNCHANGED fetches
        /\ \/ /\ row' = IF row[f.task].status = f.from
                        THEN [row EXCEPT ![f.task] = WithStatus(f.copy, f.to)]
                        ELSE row
              /\ UNCHANGED faults
           \/ Fault /\ UNCHANGED row
        /\ UNCHANGED <<request, ledger, outside, master, history>>

-----------------------------------------------------------------------------
RequestStep(t) ==
    \/ \E q \in Quotas : PreConsume(t, q) \/ Accept(t, q)
    \/ Insufficient(t)
    \/ GiveUp(t)
    \/ Release(t)
    \/ Settle(t)
    \/ Insert(t)

MasterStep(m) ==
    \/ BeginSweep(m)
    \/ BeginPoll(m)
    \/ \E t \in Tasks : \/ SweepOne(m, t)
                        \/ AskFails(m, t)
                        \/ \E a \in Answer : Ask(m, t, a)
    \/ \E c \in Channels : BulkFail(m, c)
    \/ ApplyVideo(m)
    \/ ApplySuno(m)
    \/ SaveSuno(m)
    \/ JobFunding(m)
    \/ JobToken(m)

Next ==
    \/ \E t \in Tasks : RequestStep(t) \/ CrashRequest(t) \/ Age(t)
    \/ \E t \in Tasks, s \in Status : UpstreamStep(t, s)
    \/ \E c \in Channels : DeleteChannel(c)
    \/ \E m \in Masters : MasterStep(m) \/ CrashMaster(m)
    \/ \E r \in Readers : RealtimeApply(r) \/ \E t \in Tasks : RealtimeFetch(r, t)

Spec == Init /\ [][Next]_vars

\* The polling goroutine of every master keeps running, a handler that was
\* started ends, and time passes.  Nothing is asked of providers or users.
Fairness ==
    /\ \A t \in Tasks : WF_vars(RequestStep(t)) /\ WF_vars(Age(t))
    /\ \A m \in Masters : WF_vars(MasterStep(m))
    /\ \A r \in Readers : WF_vars(RealtimeApply(r))

FairSpec == Spec /\ Fairness
-----------------------------------------------------------------------------
(* Properties *)

\* Every variable holds what its Go or database type allows.
TypeOK ==
    /\ submit \in [Tasks -> {"new", "held", "accepted", "releasing", "settled", "closed"}]
    /\ pre \in [Tasks -> Nat]
    /\ quote \in [Tasks -> Nat]
    /\ row \in [Tasks -> Row \union {NoRow}]
    /\ fund \in [Tasks -> Int]
    /\ tok \in [Tasks -> Int]
    /\ upstream \in [Tasks -> Status \union {"none"}]
    /\ gone \subseteq Deletable
    /\ aged \subseteq Tasks
    /\ phase \in [Masters -> {"sweep", "poll"}]
    /\ view \in [Masters -> [Tasks -> Row \union {NoRow}]]
    /\ answer \in [Masters -> Answer \union {NoAnswer}]
    /\ job \in [Masters -> Job \union {NoJob}]
    /\ fetch \in [Readers -> Fetch \union {NoFetch}]
    /\ fetches \in 0..MaxFetches
    /\ faults \in 0..MaxFaults
    /\ bills \in [Tasks -> Nat]
    /\ unsettled \subseteq Tasks
    /\ tainted \subseteq Tasks

\* The tasks whose rows are only ever moved by UpdateWithStatus on a status that
\* is not final: no Suno Save, no realtime fetch, no bulk update.
CasTasks == {t \in Tasks : /\ t \notin SunoTasks /\ t \notin RealtimeTasks
                           /\ ChannelOf[t] \notin Deletable}

\* However the sweepers and pollers of several masters interleave, crash and
\* restart, at most one of them ever refunds or re-prices a task.
BilledAtMostOnce == \A t \in CasTasks : bills[t] <= 1

\* A subscription that was given the hold of a rejected request back more than once,
\* because the marking of a refund failed: twice too often and no more.
RefundedAgain(t) == /\ t \in SubTasks \cap tainted
                    /\ submit[t] = "closed" /\ ~Exists(t)
                    /\ fund[t] >= -2 * pre[t]

\* Nobody gets back more than was taken, whatever fails on the way, as long as
\* the settlement the row was written from went through.  The token never does,
\* the funding source only when refundWithRetry repeats the refund of a request
\* that never became a task.
NeverOverRefunded ==
    \A t \in CasTasks \ unsettled : tok[t] >= 0 /\ (fund[t] >= 0 \/ RefundedAgain(t))

\* What a finished task should have cost in the end.
FinalPrice(t) == IF row[t].status = "FAILURE" THEN 0
                 ELSE IF Actual[t] > 0 THEN Actual[t] ELSE row[t].quota

\* The billing of t is over and no fault touched it.
Closed(t) == /\ Exists(t) /\ Finished(row[t]) /\ ~Working(t)
             /\ t \notin tainted \union unsettled \union LegacyTasks

\* Once nobody is working on a finished task, the wallet or subscription and the
\* token have both paid its final price: nothing for a failure, the re-priced
\* amount for a success.
BooksBalance == \A t \in CasTasks : Closed(t) => fund[t] = FinalPrice(t) /\ tok[t] = FinalPrice(t)

\* A request that ended without a task has cost nothing.
RejectedCostsNothing ==
    \A t \in Tasks : submit[t] = "closed" /\ ~Exists(t) /\ t \notin tainted
                        => fund[t] = 0 /\ tok[t] = 0

\* All three: what a task costs is what was taken for it, at every moment.
BooksKept == NeverOverRefunded /\ BooksBalance /\ RejectedCostsNothing

\* The row of a finished task is never written again.
FinishedStays ==
    [][\A t \in CasTasks : Exists(t) /\ Finished(row[t]) => row'[t] = row[t]]_vars

\* A row that says "100%" of a task that has not finished: no query lists it.
LeftBehind(t) == Exists(t) /\ row[t].full /\ ~Finished(row[t])

\* With a timeout configured every task ends, even if the provider never
\* answers and a page holds fewer tasks than there are, unless a provider reported
\* the whole progress of a task it had not finished.
EveryTaskEnds ==
    \A t \in CasTasks : Exists(t) ~> ((Exists(t) /\ Finished(row[t])) \/ LeftBehind(t))

\* A failed task is eventually refunded, unless a fault took the refund away.
FailureIsRefunded ==
    \A t \in CasTasks \ LegacyTasks :
        (Exists(t) /\ row[t].status = "FAILURE")
            ~> (fund[t] = 0 \/ t \in tainted \union unsettled)

\* Both: no task and no refund of a failed one is forgotten.
TasksEnd == EveryTaskEnds /\ FailureIsRefunded

\* The comment of RefundTaskQuota (service/task_billing.go:143): when an
\* asynchronous task fails, the held quota is returned to the user ...
FailedIsRefunded(S) ==
    \A t \in S : Closed(t) /\ row[t].status = "FAILURE" => fund[t] <= 0
\* ... here for Suno tasks, as long as one healthy master polls them.
SunoFailureRefunded == FailedIsRefunded(SunoTasks)

\* The same comment: what is returned to a task updateSunoTasks polls is the quota
\* that was held, not more.
SunoReturnsWhatWasHeld == \A t \in SunoTasks : fund[t] >= 0

\* Both: a failed Suno task is given back exactly what was held for it.
SunoRefundsExactly == SunoReturnsWhatWasHeld /\ SunoFailureRefunded

\* The promise of TaskPromise, kept for the tasks of CasTasks.
Outcome(t) == IF ~Exists(t) THEN "new"
              ELSE IF Finished(row[t]) THEN row[t].status ELSE "running"
Due(t) == \E m \in Masters : job[m] # NoJob /\ job[m].task = t /\ job[m].step = "fund"

Promise == INSTANCE TaskPromise WITH
    Billed  <- CasTasks,
    Prices  <- Quotas,
    Final   <- Actual,
    outcome <- [t \in CasTasks |-> Outcome(t)],
    price   <- [t \in CasTasks |-> IF Exists(t) THEN row[t].quota ELSE 0],
    paid    <- [t \in CasTasks |-> fund[t]],
    due     <- [t \in CasTasks |-> Due(t)]

\* Sweepers, pollers, crashes and pages together do to a task's money only what
\* the promise allows.
KeepsPromise == Promise!PSpec
=============================================================================
