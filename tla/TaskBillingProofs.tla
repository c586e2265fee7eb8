-------------------------- MODULE TaskBillingProofs --------------------------
(***************************************************************************)
(* Theorems about TaskBilling for every number of tasks, masters, readers, *)
(* faults and every page size; those about Suno tasks, at the end, for one *)
(* master that never fails.                                                *)
(***************************************************************************)
EXTENDS TaskBilling, TLAPS

\* How the tables of one state fit together: a row appears when its request
\* ends, and only tasks that have a row are listed, asked about, billed or
\* fetched.
RowsClosed   == \A t \in Tasks : Exists(t) => submit[t] = "closed"
AcceptedSeen == \A t \in Tasks :
                    Exists(t) \/ submit[t] \in {"accepted", "settled"}
                        => upstream[t] \in Status /\ quote[t] \in Quotas
ViewsExist   == \A m \in Masters, t \in Tasks : view[m][t] # NoRow => Exists(t)
AnswersListed == \A m \in Masters : answer[m] # NoAnswer =>
                    view[m][answer[m].task] # NoRow /\ job[m] = NoJob
JobsExist    == \A m \in Masters : job[m] # NoJob => Exists(job[m].task)
FetchesExist == \A r \in Readers : fetch[r] # NoFetch =>
                    Exists(fetch[r].task) /\ fetch[r].task \in RealtimeTasks

Consistent == /\ RowsClosed /\ AcceptedSeen /\ ViewsExist
              /\ AnswersListed /\ JobsExist /\ FetchesExist

TInv == TypeOK /\ Consistent

-----------------------------------------------------------------------------
(* Lemmas about the operators *)

\* A reported status keeps a row a row.
LEMMA WithStatusType ==
    ASSUME NEW r \in Row, NEW s \in Status
    PROVE  /\ WithStatus(r, s) \in Row
           /\ WithStatus(r, s).status = s
           /\ WithStatus(r, s).quota = r.quota
           /\ WithStatus(r, s) # NoRow
  <1>1. (s \in Terminal) \in BOOLEAN
    OBVIOUS
  <1>2. \A b \in BOOLEAN : LET n == [r EXCEPT !.status = s, !.full = b]
                           IN  n \in Row /\ n.status = s /\ n.quota = r.quota
    BY DEF Row
  <1>3. WithStatus(r, s) \in Row /\ WithStatus(r, s).status = s
        /\ WithStatus(r, s).quota = r.quota
    BY <1>1, <1>2, Zenon DEF WithStatus
  <1>4. QED
    BY <1>3 DEF Row, NoRow, Status, Running, Terminal

\* So does an answer.
LEMMA ReportedType ==
    ASSUME NEW r \in Row, NEW a \in Answer
    PROVE  /\ Reported(r, a) \in Row
           /\ Reported(r, a).status = a.status
           /\ Reported(r, a).quota = r.quota
           /\ Reported(r, a) # NoRow
  <1>1. (a.full \/ a.status = "FAILURE") \in BOOLEAN /\ a.status \in Status
    BY DEF Answer
  <1>2. \A b \in BOOLEAN, s \in Status :
            LET n == [r EXCEPT !.status = s, !.full = b]
            IN  n \in Row /\ n.status = s /\ n.quota = r.quota
    BY DEF Row
  <1>3. Reported(r, a) \in Row /\ Reported(r, a).status = a.status
        /\ Reported(r, a).quota = r.quota
    BY <1>1, <1>2, Zenon DEF Reported
  <1>4. QED
    BY <1>3 DEF Row, NoRow, Status, Running, Terminal

\* A row that exists is a full row.
LEMMA RowType ==
    ASSUME NEW r \in Row \union {NoRow}
    PROVE  r # NoRow <=> r \in Row
  BY DEF Row, NoRow, Status, Running, Terminal

\* Refunds and adjustments of a row are jobs.
LEMMA JobType ==
    ASSUME NEW t \in Tasks, NEW r \in Row
    PROVE  /\ Refund(t, r) \in Job /\ Refund(t, r) # NoJob
           /\ Adjust(t, r) \in Job /\ Adjust(t, r) # NoJob
           /\ \A n \in Row : LET j == [Refund(t, r) EXCEPT !.save = n]
                             IN  j \in Job /\ j # NoJob /\ j.task = t
  BY QuotasAssumption, ActualAssumption
     DEF Refund, Adjust, Job, NoJob, Row, NoRow

\* What is left of a job after its billing part.
LEMMA AfterBillingType ==
    ASSUME NEW j \in Job
    PROVE  /\ AfterBilling(j) \in Job \union {NoJob}
           /\ AfterBilling(j) # NoJob => AfterBilling(j).task = j.task
  BY DEF AfterBilling, Job, NoJob, Row, NoRow

\* Taking tasks out of a view only empties places.
LEMMA DoneType ==
    ASSUME view \in [Masters -> [Tasks -> Row \union {NoRow}]],
           NEW m \in Masters, NEW S
    PROVE  /\ Done(m, S) \in [Masters -> [Tasks -> Row \union {NoRow}]]
           /\ \A n \in Masters, t \in Tasks :
                 Done(m, S)[n][t] = IF n = m /\ t \in S THEN NoRow ELSE view[n][t]
  BY DEF Done

\* A page of rows.
LEMMA CopiesType ==
    ASSUME row \in [Tasks -> Row \union {NoRow}], NEW S
    PROVE  /\ Copies(S) \in [Tasks -> Row \union {NoRow}]
           /\ \A t \in Tasks : Copies(S)[t] = IF t \in S THEN row[t] ELSE NoRow
  BY DEF Copies

\* The ledger stays a ledger.
LEMMA ChargeType ==
    ASSUME fund \in [Tasks -> Int], tok \in [Tasks -> Int],
           NEW t \in Tasks, NEW df \in Int, NEW dt \in Int, Charge(t, df, dt)
    PROVE  fund' \in [Tasks -> Int] /\ tok' \in [Tasks -> Int]
  BY DEF Charge

\* A fault stays within its bound.
LEMMA FaultType ==
    ASSUME faults \in 0..MaxFaults, Fault \/ UNCHANGED faults
    PROVE  faults' \in 0..MaxFaults
  BY LimitsAssumption DEF Fault

\* What a release does to the ledger: the funding source gives the hold back at
\* most three times, more than once only a subscription that a fault has touched.
Back(t, given, kept) ==
    /\ given \in 0..3 /\ kept \in 0..1
    /\ fund' = [fund EXCEPT ![t] = @ + -(given * pre[t])]
    /\ tok' = [tok EXCEPT ![t] = @ + -((1 - kept) * pre[t])]
    /\ t \in tainted' \/ (given = 1 /\ kept = 0)
    /\ given > 1 => t \in SubTasks \cap tainted'

LEMMA ReleaseLedger ==
    ASSUME NEW t \in Tasks, Release(t), faults \in Nat
    PROVE  /\ \E given \in 0..3, kept \in 0..1 : Back(t, given, kept)
           /\ faults' \in 0..MaxFaults
           /\ tainted' \in {tainted, tainted \union {t}}
  <1>1. PICK fails \in 0..Attempts(t), lost \in 0..1 :
          /\ faults + fails + lost <= MaxFaults
          /\ faults' = faults + fails + lost
          /\ tainted' = IF fails + lost > 0 THEN tainted \union {t} ELSE tainted
          /\ \E given \in Given(t, fails) : Charge(t, -(given * pre[t]), -((1 - lost) * pre[t]))
    BY DEF Release
  <1>2. PICK given \in Given(t, fails) : Charge(t, -(given * pre[t]), -((1 - lost) * pre[t]))
    BY <1>1
  <1>3. given \in 0..3 /\ (given > 1 => t \in SubTasks /\ fails > 0)
        /\ (fails = 0 => given = 1)
    BY <1>1, <1>2 DEF Given, Attempts
  <1>4. fails \in Nat /\ (fails + lost > 0 => t \in tainted') /\ faults' \in 0..MaxFaults
    BY <1>1, LimitsAssumption DEF Attempts
  <1>5. t \in tainted' \/ (given = 1 /\ lost = 0)
    BY <1>3, <1>4
  <1>6. given > 1 => t \in SubTasks \cap tainted'
    BY <1>3, <1>4
  <1>7. Back(t, given, lost)
    BY <1>2, <1>3, <1>5, <1>6 DEF Charge, Back
  <1>8. QED
    BY <1>1, <1>3, <1>4, <1>7

-----------------------------------------------------------------------------
(* Type correctness *)

LEMMA TInvInit == Init => TInv
  BY LimitsAssumption DEF Init, TInv, TypeOK, Consistent, RowsClosed, AcceptedSeen, ViewsExist,
         AnswersListed, JobsExist, FetchesExist, NoView, Exists

\* The request of one task.
LEMMA TInvRequest ==
    ASSUME TInv, NEW t \in Tasks, RequestStep(t) \/ CrashRequest(t)
    PROVE  TInv'
  <1>1. CASE \E q \in Quotas : PreConsume(t, q)
    BY <1>1, QuotasAssumption DEF TInv, TypeOK, Consistent, RowsClosed, AcceptedSeen, ViewsExist,
         AnswersListed, JobsExist, FetchesExist, PreConsume, Become, Charge, Exists,
                outside, master, reader, history
  <1>2. CASE \E q \in Quotas : Accept(t, q)
    BY <1>2, QuotasAssumption DEF TInv, TypeOK, Consistent, RowsClosed, AcceptedSeen, ViewsExist,
         AnswersListed, JobsExist, FetchesExist, Accept, Become, Exists, Status, Running,
                ledger, master, reader, history
  <1>3. CASE Insufficient(t) \/ GiveUp(t)
    <2>1. /\ submit[t] \in {"new", "held"}
          /\ \E q \in {"closed", "releasing"} : submit' = [submit EXCEPT ![t] = q]
          /\ UNCHANGED <<pre, quote, row, ledger, outside, master, reader, faults, history>>
      BY <1>3 DEF Insufficient, GiveUp, Become
    <2>2. TypeOK'
      BY <2>1 DEF TInv, TypeOK, ledger, outside, master, reader, history
    <2>3. Consistent'
      BY <2>1 DEF TInv, TypeOK, Consistent, RowsClosed, AcceptedSeen, ViewsExist,
                  AnswersListed, JobsExist, FetchesExist, Exists, outside, master, reader
    <2>4. QED
      BY <2>2, <2>3 DEF TInv
  <1>4. CASE Release(t)
    <2>1. fund' \in [Tasks -> Int] /\ tok' \in [Tasks -> Int]
      <3>1. PICK given \in 0..3, kept \in 0..1 : Back(t, given, kept)
        BY <1>4, ReleaseLedger DEF TInv, TypeOK
      <3>2. given * pre[t] \in Int /\ (1 - kept) * pre[t] \in Int
        BY <3>1 DEF TInv, TypeOK
      <3>3. QED
        BY <3>1, <3>2 DEF TInv, TypeOK, Back
    <2>2. faults' \in 0..MaxFaults /\ tainted' \subseteq Tasks
      BY <1>4, ReleaseLedger DEF TInv, TypeOK
    <2>3. TypeOK'
      BY <1>4, <2>1, <2>2 DEF TInv, TypeOK, Release, Become, outside, master, reader
    <2>4. Consistent'
      BY <1>4 DEF TInv, TypeOK, Consistent, RowsClosed, AcceptedSeen, ViewsExist,
         AnswersListed, JobsExist, FetchesExist, Release, Become, Exists,
                  outside, master, reader
    <2>5. QED
      BY <2>3, <2>4 DEF TInv
  <1>5. CASE Settle(t)
    <2>1. fund' \in [Tasks -> Int] /\ tok' \in [Tasks -> Int]
      <3>1. quote[t] - pre[t] \in Int
        BY DEF TInv, TypeOK
      <3>2. \/ Charge(t, quote[t] - pre[t], quote[t] - pre[t])
            \/ Charge(t, quote[t] - pre[t], 0) \/ UNCHANGED ledger
        BY <1>5 DEF Settle
      <3>3. QED
        BY <3>1, <3>2, ChargeType DEF TInv, TypeOK, ledger
    <2>2. faults' \in 0..MaxFaults /\ unsettled' \subseteq Tasks
      BY <1>5, FaultType DEF TInv, TypeOK, Settle
    <2>3. TypeOK'
      BY <1>5, <2>1, <2>2 DEF TInv, TypeOK, Settle, Become, outside, master, reader
    <2>4. Consistent'
      BY <1>5 DEF TInv, TypeOK, Consistent, RowsClosed, AcceptedSeen, ViewsExist,
         AnswersListed, JobsExist, FetchesExist, Settle, Become, Exists,
                  outside, master, reader
    <2>5. QED
      BY <2>3, <2>4 DEF TInv
  <1>6. CASE Insert(t)
    <2> DEFINE new == NewRow(t)
    <2>1. new \in Row /\ new # NoRow
      BY DEF TInv, TypeOK, Row, NoRow, Status, Running, NewRow
    <2>2. faults' \in 0..MaxFaults /\ tainted' \subseteq Tasks
      BY <1>6, FaultType DEF TInv, TypeOK, Insert
    <2>3. row' = [row EXCEPT ![t] = new] \/ row' = row
      BY <1>6 DEF Insert
    <2>4. TypeOK'
      BY <1>6, <2>1, <2>2, <2>3
         DEF TInv, TypeOK, Insert, Become, ledger, outside, master, reader
    <2>5. \A u \in Tasks : Exists(u) => Exists(u)'
      BY <2>1, <2>3 DEF Exists, TInv, TypeOK
    <2>6. Consistent'
      <3>1. UNCHANGED <<upstream, quote, view, answer, job, fetch>>
        BY <1>6 DEF Insert, outside, master, reader
      <3>2. \A u \in Tasks : u # t => (Exists(u)' <=> Exists(u))
        BY <2>3 DEF Exists, TInv, TypeOK
      <3>3. submit[t] = "settled" /\ submit' = [submit EXCEPT ![t] = "closed"]
        BY <1>6 DEF Insert, Become
      <3>4. /\ \A u \in Tasks : Exists(u)' => submit'[u] = "closed"
            /\ \A u \in Tasks : Exists(u)' \/ submit'[u] \in {"accepted", "settled"}
                                   => upstream'[u] \in Status /\ quote'[u] \in Quotas
        BY <3>1, <3>2, <3>3 DEF TInv, TypeOK, Consistent, RowsClosed, AcceptedSeen, ViewsExist,
         AnswersListed, JobsExist, FetchesExist
      <3>5. QED
        BY <3>1, <3>4, <2>5 DEF TInv, TypeOK, Consistent, RowsClosed, AcceptedSeen, ViewsExist,
         AnswersListed, JobsExist, FetchesExist, Job, Fetch, Exists
    <2>7. QED
      BY <2>4, <2>6 DEF TInv
  <1>7. CASE CrashRequest(t)
    BY <1>7, LimitsAssumption DEF TInv, TypeOK, Consistent, RowsClosed, AcceptedSeen, ViewsExist,
         AnswersListed, JobsExist, FetchesExist, CrashRequest, Become, Fault, Exists,
                ledger, outside, master, reader
  <1>8. QED
    BY <1>1, <1>2, <1>3, <1>4, <1>5, <1>6, <1>7 DEF RequestStep

\* The provider, the administrator, the clock and the readers.
LEMMA TInvOutside ==
    ASSUME TInv,
           \/ \E t \in Tasks : Age(t) \/ \E s \in Status : UpstreamStep(t, s)
           \/ \E c \in Channels : DeleteChannel(c)
    PROVE  TInv'
  <1>1. CASE \E t \in Tasks : Age(t)
    BY <1>1 DEF TInv, TypeOK, Consistent, RowsClosed, AcceptedSeen, ViewsExist,
         AnswersListed, JobsExist, FetchesExist, Age, Exists, request, ledger, master, reader,
                history
  <1>2. CASE \E t \in Tasks, s \in Status : UpstreamStep(t, s)
    BY <1>2 DEF TInv, TypeOK, Consistent, RowsClosed, AcceptedSeen, ViewsExist,
         AnswersListed, JobsExist, FetchesExist, UpstreamStep, Exists, request, ledger,
                master, reader, history
  <1>3. CASE \E c \in Channels : DeleteChannel(c)
    BY <1>3 DEF TInv, TypeOK, Consistent, RowsClosed, AcceptedSeen, ViewsExist,
         AnswersListed, JobsExist, FetchesExist, DeleteChannel, Exists, request, ledger,
                master, reader, history
  <1>4. QED
    BY <1>1, <1>2, <1>3

LEMMA TInvReader ==
    ASSUME TInv, NEW r \in Readers,
           RealtimeApply(r) \/ \E t \in Tasks : RealtimeFetch(r, t)
    PROVE  TInv'
  <1>1. CASE \E t \in Tasks : RealtimeFetch(r, t)
    <2>1. PICK t \in Tasks : RealtimeFetch(r, t)
      BY <1>1
    <2>2. PICK s \in {upstream[t], "FAILURE"} :
             fetch' = [fetch EXCEPT ![r] = [task |-> t, from |-> row[t].status,
                                           to |-> s, copy |-> row[t]]]
      BY <2>1 DEF RealtimeFetch
    <2> DEFINE new == [task |-> t, from |-> row[t].status, to |-> s, copy |-> row[t]]
    <2>3. s \in Status /\ row[t] \in Row /\ t \in RealtimeTasks /\ Exists(t)
      BY <2>1, RowType
         DEF RealtimeFetch, TInv, TypeOK, Consistent, RowsClosed, AcceptedSeen, ViewsExist,
         AnswersListed, JobsExist, FetchesExist, Exists, Status, Terminal
    <2>4. new \in Fetch
      BY <2>3 DEF Fetch, Row
    <2>5. /\ fetch' \in [Readers -> Fetch \union {NoFetch}]
          /\ \A q \in Readers : fetch'[q] = IF q = r THEN new ELSE fetch[q]
      BY <2>2, <2>4 DEF TInv, TypeOK
    <2>6. fetches' \in 0..MaxFetches
      BY <2>1, LimitsAssumption DEF RealtimeFetch, TInv, TypeOK
    <2>7. UNCHANGED <<request, row, ledger, outside, master, faults, history>>
      BY <2>1 DEF RealtimeFetch
    <2>8. TypeOK'
      BY <2>5, <2>6, <2>7 DEF TInv, TypeOK, request, ledger, outside, master, history
    <2>9. Consistent'
      BY <2>3, <2>5, <2>7
         DEF TInv, Consistent, RowsClosed, AcceptedSeen, ViewsExist,
         AnswersListed, JobsExist, FetchesExist, Exists, request, ledger, outside, master, history
    <2>10. QED
      BY <2>8, <2>9 DEF TInv
  <1>2. CASE RealtimeApply(r)
    <2> DEFINE f == fetch[r]
               new == WithStatus(f.copy, f.to)
    <2>1. f \in Fetch
      BY <1>2 DEF RealtimeApply, TInv, TypeOK
    <2>2. new \in Row /\ new # NoRow /\ f.task \in Tasks
      BY <2>1, WithStatusType DEF Fetch
    <2>3. row' = [row EXCEPT ![f.task] = new] \/ row' = row
      BY <1>2 DEF RealtimeApply
    <2>4. Exists(f.task)
      BY <1>2, <2>1 DEF RealtimeApply, TInv, Consistent, RowsClosed, AcceptedSeen, ViewsExist,
         AnswersListed, JobsExist, FetchesExist
    <2>5. faults' \in 0..MaxFaults
      BY <1>2, FaultType DEF RealtimeApply, TInv, TypeOK
    <2>6. \A u \in Tasks : Exists(u)' <=> Exists(u)
      BY <2>2, <2>3, <2>4 DEF Exists, TInv, TypeOK
    <2>7. fetch' = [fetch EXCEPT ![r] = NoFetch] /\ UNCHANGED fetches
      BY <1>2 DEF RealtimeApply
    <2>8. UNCHANGED <<request, ledger, outside, master, history>>
      BY <1>2 DEF RealtimeApply
    <2>9. TypeOK'
      BY <2>2, <2>3, <2>5, <2>7, <2>8
         DEF TInv, TypeOK, request, ledger, outside, master, history
    <2>10. Consistent'
      BY <2>6, <2>7, <2>8
         DEF TInv, TypeOK, Consistent, RowsClosed, AcceptedSeen, ViewsExist,
         AnswersListed, JobsExist, FetchesExist, Job, Fetch, request, outside, master
    <2>11. QED
      BY <2>9, <2>10 DEF TInv
  <1>3. QED
    BY <1>1, <1>2

\* Lists: a page holds only tasks that have a row.
LEMMA TInvList ==
    ASSUME TInv, NEW m \in Masters, BeginSweep(m) \/ BeginPoll(m)
    PROVE  TInv'
  <1>1. PICK S \in SUBSET Unfinished :
           view' = [view EXCEPT ![m] = Copies(S)] \/ view' = [view EXCEPT ![m] = NoView]
           \/ view' = view
    BY DEF BeginSweep, BeginPoll, Page
  <1>2. /\ Copies(S) \in [Tasks -> Row \union {NoRow}]
        /\ \A t \in Tasks : Copies(S)[t] # NoRow => Exists(t)
    BY CopiesType DEF TInv, TypeOK, Unfinished
  <1>3. NoView \in [Tasks -> Row \union {NoRow}] /\ \A t \in Tasks : NoView[t] = NoRow
    BY DEF NoView
  <1>4. /\ view' \in [Masters -> [Tasks -> Row \union {NoRow}]]
        /\ \A n \in Masters, t \in Tasks : view'[n][t] # NoRow => Exists(t)
        /\ \A n \in Masters : n # m => view'[n] = view[n]
    <2>1. PICK V \in [Tasks -> Row \union {NoRow}] :
             /\ \A t \in Tasks : V[t] # NoRow => Exists(t)
             /\ view' = [view EXCEPT ![m] = V]
      <3>1. CASE view' = view
        BY <3>1 DEF TInv, TypeOK, Consistent, ViewsExist
      <3>2. CASE view' # view
        BY <1>1, <1>2, <1>3, <3>2
      <3>3. QED
        BY <3>1, <3>2
    <2>2. QED
      BY <2>1 DEF TInv, TypeOK, Consistent, ViewsExist
  <1>5. faults' \in 0..MaxFaults
    BY FaultType DEF BeginSweep, BeginPoll, TInv, TypeOK
  <1>6. phase' \in [Masters -> {"sweep", "poll"}]
    BY DEF BeginSweep, BeginPoll, TInv, TypeOK
  <1>7. answer[m] = NoAnswer
    BY DEF BeginSweep, BeginPoll, Quiet
  <1>8. UNCHANGED <<request, row, ledger, outside, answer, job, reader, history>>
    BY DEF BeginSweep, BeginPoll
  <1>9. TypeOK'
    BY <1>4, <1>5, <1>6, <1>8
       DEF TInv, TypeOK, request, ledger, outside, reader, history
  <1>10. Consistent'
    BY <1>4, <1>7, <1>8
       DEF TInv, TypeOK, Consistent, RowsClosed, AcceptedSeen, ViewsExist,
         AnswersListed, JobsExist, FetchesExist, Exists, request, outside, reader
  <1>11. QED
    BY <1>9, <1>10 DEF TInv

\* A step of a master that finishes with some listed tasks: rows stay rows, the
\* view shrinks by tasks the master holds no answer for afterwards.
LEMMA TInvHandled ==
    ASSUME TInv, NEW m \in Masters, NEW S,
           row' \in [Tasks -> Row \union {NoRow}],
           \A t \in Tasks : row'[t] # NoRow <=> row[t] # NoRow,
           view' = Done(m, S),
           \/ answer[m] = NoAnswer /\ answer' = answer
           \/ answer' = [answer EXCEPT ![m] = NoAnswer],
           job' \in [Masters -> Job \union {NoJob}],
           \A n \in Masters : job'[n] # NoJob => row[job'[n].task] # NoRow,
           \A n \in Masters : n # m => job'[n] = job[n],
           bills' \in [Tasks -> Nat],
           faults' \in 0..MaxFaults,
           UNCHANGED <<request, ledger, outside, phase, reader, unsettled, tainted>>
    PROVE  TInv'
  <1>1. /\ view' \in [Masters -> [Tasks -> Row \union {NoRow}]]
        /\ \A n \in Masters, t \in Tasks :
              view'[n][t] = IF n = m /\ t \in S THEN NoRow ELSE view[n][t]
    BY DoneType DEF TInv, TypeOK
  <1>2. /\ answer' \in [Masters -> Answer \union {NoAnswer}]
        /\ answer'[m] = NoAnswer
        /\ \A n \in Masters : n # m => answer'[n] = answer[n]
    BY DEF TInv, TypeOK
  <1>3. TypeOK'
    BY <1>1, <1>2 DEF TInv, TypeOK, request, ledger, outside, reader
  <1>4. AnswersListed'
    BY <1>1, <1>2 DEF TInv, TypeOK, Consistent, AnswersListed, Answer
  <1>5. RowsClosed' /\ AcceptedSeen'
    BY DEF TInv, Consistent, RowsClosed, AcceptedSeen, Exists, request, outside
  <1>6. ViewsExist'
    BY <1>1 DEF TInv, Consistent, ViewsExist, Exists
  <1>7. FetchesExist'
    BY DEF TInv, TypeOK, Consistent, FetchesExist, Exists, reader, Fetch
  <1>8. JobsExist'
    BY DEF JobsExist, Exists, Job
  <1>9. QED
    BY <1>3, <1>4, <1>5, <1>6, <1>7, <1>8 DEF TInv, Consistent

\* A master keeps its job or takes a new one on a task that has a row.
LEMMA JobStep ==
    ASSUME TInv, NEW m \in Masters, NEW j \in Job, row[j.task] # NoRow,
           \/ job' = job /\ bills' = bills
           \/ /\ job' = [job EXCEPT ![m] = j]
              /\ bills' = bills \/ bills' = [bills EXCEPT ![j.task] = @ + 1]
    PROVE  /\ job' \in [Masters -> Job \union {NoJob}]
           /\ \A n \in Masters : job'[n] # NoJob => row[job'[n].task] # NoRow
           /\ \A n \in Masters : n # m => job'[n] = job[n]
           /\ bills' \in [Tasks -> Nat]
  <1>1. j.task \in Tasks
    BY DEF Job
  <1>2. bills' \in [Tasks -> Nat]
    BY <1>1 DEF TInv, TypeOK
  <1>3. /\ job' \in [Masters -> Job \union {NoJob}]
        /\ \A n \in Masters : job'[n] = job[n] \/ job'[n] = j
        /\ \A n \in Masters : n # m => job'[n] = job[n]
    BY DEF TInv, TypeOK
  <1>4. QED
    BY <1>2, <1>3 DEF TInv, Consistent, JobsExist, Exists

\* The steps that finish with listed tasks.
LEMMA TInvSweep ==
    ASSUME TInv, NEW m \in Masters, NEW t \in Tasks, SweepOne(m, t)
    PROVE  TInv'
  <1> DEFINE seen == view[m][t]
             new  == WithStatus(seen, "FAILURE")
  <1>1. seen \in Row /\ Exists(t)
    BY RowType DEF SweepOne, Listed, TInv, TypeOK, Consistent, ViewsExist
  <1>2. new \in Row /\ new # NoRow
    BY <1>1, WithStatusType DEF Status, Terminal
  <1>3. row' = [row EXCEPT ![t] = new] \/ row' = row
    BY DEF SweepOne
  <1>4. Refund(t, seen) \in Job /\ Refund(t, seen).task = t
    BY <1>1, JobType DEF Refund
  <1>5. \/ job' = job /\ bills' = bills
        \/ job' = [job EXCEPT ![m] = Refund(t, seen)] /\ bills' = [bills EXCEPT ![t] = @ + 1]
    BY <1>4 DEF SweepOne, StartJob
  <1>6. /\ job' \in [Masters -> Job \union {NoJob}]
        /\ \A n \in Masters : job'[n] # NoJob => row[job'[n].task] # NoRow
        /\ \A n \in Masters : n # m => job'[n] = job[n]
        /\ bills' \in [Tasks -> Nat]
    BY <1>1, <1>4, <1>5, JobStep DEF Exists
  <1>7. /\ row' \in [Tasks -> Row \union {NoRow}]
        /\ \A u \in Tasks : row'[u] # NoRow <=> row[u] # NoRow
    BY <1>1, <1>2, <1>3 DEF TInv, TypeOK, Exists
  <1>8. faults' \in 0..MaxFaults
    BY FaultType DEF SweepOne, TInv, TypeOK
  <1>9. /\ view' = Done(m, {t}) /\ answer[m] = NoAnswer /\ answer' = answer
        /\ UNCHANGED <<request, ledger, outside, phase, reader, unsettled, tainted>>
    BY DEF SweepOne, Quiet
  <1>10. QED
    BY <1>6, <1>7, <1>8, <1>9, TInvHandled

LEMMA TInvBulk ==
    ASSUME TInv, NEW m \in Masters, NEW c \in Channels, BulkFail(m, c)
    PROVE  TInv'
  <1> DEFINE group == {t \in Listed(m) : ChannelOf[t] = c}
  <1>1. \A t \in group : t \in Tasks /\ row[t] \in Row /\ row[t] # NoRow
    BY RowType DEF Listed, TInv, TypeOK, Consistent, ViewsExist, Exists
  <1>2. \A t \in group : WithStatus(row[t], "FAILURE") \in Row
                        /\ WithStatus(row[t], "FAILURE") # NoRow
    BY <1>1, WithStatusType DEF Status, Terminal
  <1>3. \/ row' = [t \in Tasks |-> IF t \in group THEN WithStatus(row[t], "FAILURE")
                                                  ELSE row[t]]
        \/ row' = row
    BY DEF BulkFail
  <1>4. /\ row' \in [Tasks -> Row \union {NoRow}]
        /\ \A u \in Tasks : row'[u] # NoRow <=> row[u] # NoRow
    BY <1>1, <1>2, <1>3 DEF TInv, TypeOK
  <1>5. faults' \in 0..MaxFaults
    BY FaultType DEF BulkFail, TInv, TypeOK
  <1>6. /\ view' = Done(m, group) /\ answer[m] = NoAnswer /\ answer' = answer
        /\ UNCHANGED <<request, ledger, outside, phase, job, reader, history>>
    BY DEF BulkFail, Quiet
  <1>7. /\ job' \in [Masters -> Job \union {NoJob}]
        /\ \A n \in Masters : job'[n] # NoJob => row[job'[n].task] # NoRow
        /\ \A n \in Masters : n # m => job'[n] = job[n]
        /\ bills' \in [Tasks -> Nat]
    BY <1>6 DEF TInv, TypeOK, Consistent, JobsExist, Exists, history
  <1>8. QED
    BY <1>4, <1>5, <1>6, <1>7, TInvHandled DEF history

LEMMA TInvAsk ==
    ASSUME TInv, NEW m \in Masters, NEW t \in Tasks,
           AskFails(m, t) \/ \E a \in Answer : Ask(m, t, a)
    PROVE  TInv'
  <1>1. CASE AskFails(m, t)
    <2>1. /\ view' = Done(m, {t}) /\ answer[m] = NoAnswer /\ answer' = answer
          /\ UNCHANGED <<request, row, ledger, outside, phase, job, reader, faults, history>>
      BY <1>1 DEF AskFails, Quiet
    <2>2. QED
      BY <2>1, TInvHandled
         DEF TInv, TypeOK, Consistent, JobsExist, Exists, history
  <1>2. CASE \E a \in Answer : Ask(m, t, a)
    <2>1. PICK a \in Answer : Ask(m, t, a)
      BY <1>2
    <2>2. a.task = t /\ t \in Listed(m) /\ job[m] = NoJob
      BY <2>1 DEF Ask, Answers, Quiet
    <2>3. answer' = [answer EXCEPT ![m] = a]
          /\ UNCHANGED <<request, row, ledger, outside, phase, view, job, reader, faults,
                         history>>
      BY <2>1 DEF Ask
    <2>4. TypeOK'
      BY <2>3 DEF TInv, TypeOK, request, ledger, outside, reader, history
    <2>5. AnswersListed'
      BY <2>2, <2>3 DEF TInv, TypeOK, Consistent, AnswersListed, Listed
    <2>6. RowsClosed' /\ AcceptedSeen' /\ ViewsExist' /\ JobsExist' /\ FetchesExist'
      BY <2>3 DEF TInv, Consistent, RowsClosed, AcceptedSeen, ViewsExist, JobsExist,
                  FetchesExist, Exists, request, outside, reader
    <2>7. QED
      BY <2>4, <2>5, <2>6 DEF TInv, Consistent
  <1>3. QED
    BY <1>1, <1>2

LEMMA TInvVideo ==
    ASSUME TInv, NEW m \in Masters, ApplyVideo(m)
    PROVE  TInv'
  <1> DEFINE t    == answer[m].task
             seen == view[m][t]
             new  == Reported(seen, answer[m])
  <1>1. answer[m] \in Answer /\ t \in Tasks /\ answer[m].status \in Status
    BY DEF ApplyVideo, TInv, TypeOK, Answer
  <1>2. seen \in Row /\ Exists(t)
    BY <1>1, RowType
       DEF ApplyVideo, TInv, TypeOK, Consistent, AnswersListed, ViewsExist
  <1>3. new \in Row /\ new # NoRow
    BY <1>1, <1>2, ReportedType
  <1>4. row' = [row EXCEPT ![t] = new] \/ row' = row
    BY DEF ApplyVideo
  <1>5. PICK j \in Job : /\ j.task = t
                         /\ \/ job' = job /\ bills' = bills
                            \/ /\ job' = [job EXCEPT ![m] = j]
                               /\ bills' = [bills EXCEPT ![t] = @ + 1]
    <2>1. /\ Refund(t, seen) \in Job /\ Refund(t, seen).task = t
          /\ Adjust(t, seen) \in Job /\ Adjust(t, seen).task = t
      BY <1>1, <1>2, JobType DEF Refund, Adjust
    <2>2. \/ job' = job /\ bills' = bills
          \/ StartJob(m, Refund(t, seen)) \/ StartJob(m, Adjust(t, seen))
      BY DEF ApplyVideo
    <2>3. QED
      BY <2>1, <2>2 DEF StartJob
  <1>6. /\ job' \in [Masters -> Job \union {NoJob}]
        /\ \A n \in Masters : job'[n] # NoJob => row[job'[n].task] # NoRow
        /\ \A n \in Masters : n # m => job'[n] = job[n]
        /\ bills' \in [Tasks -> Nat]
    BY <1>2, <1>5, JobStep DEF Exists
  <1>7. /\ row' \in [Tasks -> Row \union {NoRow}]
        /\ \A u \in Tasks : row'[u] # NoRow <=> row[u] # NoRow
    BY <1>1, <1>2, <1>3, <1>4 DEF TInv, TypeOK, Exists
  <1>8. faults' \in 0..MaxFaults
    BY FaultType DEF ApplyVideo, TInv, TypeOK
  <1>9. /\ view' = Done(m, {t}) /\ answer' = [answer EXCEPT ![m] = NoAnswer]
        /\ UNCHANGED <<request, ledger, outside, phase, reader, unsettled, tainted>>
    BY DEF ApplyVideo
  <1>10. QED
    BY <1>6, <1>7, <1>8, <1>9, TInvHandled

LEMMA TInvSuno ==
    ASSUME TInv, NEW m \in Masters, ApplySuno(m)
    PROVE  TInv'
  <1> DEFINE t     == answer[m].task
             s     == answer[m].status
             seen  == view[m][t]
             new   == SunoRow(seen, answer[m])
             plain == [task |-> t, delta |-> 0, step |-> "save", save |-> new]
             paid  == [Refund(t, seen) EXCEPT !.save = new]
  <1>1. answer[m] \in Answer /\ t \in Tasks /\ s \in Status
    BY DEF ApplySuno, TInv, TypeOK, Answer
  <1>2. seen \in Row /\ Exists(t)
    BY <1>1, RowType
       DEF ApplySuno, TInv, TypeOK, Consistent, AnswersListed, ViewsExist
  <1>3. new \in Row
    <2>1. (SunoFails(answer[m]) \/ s \in Terminal) \in BOOLEAN
      OBVIOUS
    <2>2. \A b \in BOOLEAN : [seen EXCEPT !.status = s, !.full = b] \in Row
      BY <1>1, <1>2 DEF Row
    <2>3. QED
      BY <2>1, <2>2, Zenon DEF SunoRow
  <1>4. plain \in Job /\ plain.task = t
    BY <1>1, <1>3, RowType DEF Job
  <1>5. paid \in Job /\ paid.task = t
    BY <1>1, <1>2, <1>3, JobType
  <1>6. PICK j \in Job : /\ j.task = t
                         /\ \/ job' = job /\ bills' = bills
                            \/ /\ job' = [job EXCEPT ![m] = j]
                               /\ bills' = bills \/ bills' = [bills EXCEPT ![j.task] = @ + 1]
    <2>1. \/ job' = job /\ bills' = bills
          \/ StartJob(m, paid)
          \/ job' = [job EXCEPT ![m] = plain] /\ bills' = bills
      BY DEF ApplySuno
    <2>2. QED
      BY <1>4, <1>5, <2>1 DEF StartJob
  <1>7. /\ job' \in [Masters -> Job \union {NoJob}]
        /\ \A n \in Masters : job'[n] # NoJob => row[job'[n].task] # NoRow
        /\ \A n \in Masters : n # m => job'[n] = job[n]
        /\ bills' \in [Tasks -> Nat]
    BY <1>2, <1>6, JobStep DEF Exists
  <1>8. /\ view' = Done(m, {t}) /\ answer' = [answer EXCEPT ![m] = NoAnswer]
        /\ UNCHANGED <<request, row, ledger, outside, phase, reader, faults,
                       unsettled, tainted>>
    BY DEF ApplySuno
  <1>9. QED
    BY <1>7, <1>8, TInvHandled DEF TInv, TypeOK

\* The steps of a job, and a crash.
LEMMA TInvJob ==
    ASSUME TInv, NEW m \in Masters, JobFunding(m) \/ JobToken(m) \/ SaveSuno(m)
    PROVE  TInv'
  <1> DEFINE j == job[m]
  <1>1. j \in Job /\ j.task \in Tasks /\ j.delta \in Int /\ row[j.task] # NoRow
    BY DEF JobFunding, JobToken, SaveSuno, TInv, TypeOK, Consistent, JobsExist, Exists, Job
  <1>2. PICK k \in Job \union {NoJob} :
           job' = [job EXCEPT ![m] = k] /\ (k # NoJob => k.task = j.task)
    <2>1. [j EXCEPT !.step = "token"] \in Job /\ [j EXCEPT !.step = "token"].task = j.task
      BY <1>1 DEF Job
    <2>2. \/ job' = [job EXCEPT ![m] = [j EXCEPT !.step = "token"]]
          \/ job' = [job EXCEPT ![m] = AfterBilling(j)]
          \/ job' = [job EXCEPT ![m] = NoJob]
      BY DEF JobFunding, JobToken, SaveSuno
    <2>3. QED
      BY <1>1, <2>1, <2>2, AfterBillingType
  <1>3. fund' \in [Tasks -> Int] /\ tok' \in [Tasks -> Int]
    <2>1. Charge(j.task, j.delta, 0) \/ Charge(j.task, 0, j.delta) \/ UNCHANGED ledger
      BY DEF JobFunding, JobToken, SaveSuno
    <2>2. QED
      BY <1>1, <2>1, ChargeType DEF TInv, TypeOK, ledger
  <1>4. /\ row' \in [Tasks -> Row \union {NoRow}]
        /\ \A u \in Tasks : row'[u] # NoRow <=> row[u] # NoRow
    <2>1. CASE SaveSuno(m) /\ row' = [row EXCEPT ![j.task] = j.save] /\ j.save # NoRow
      BY <1>1, <2>1 DEF TInv, TypeOK, Job
    <2>2. CASE row' = row
      BY <2>2 DEF TInv, TypeOK
    <2>3. SaveSuno(m) => j.save # NoRow
      BY <1>1 DEF SaveSuno, Job
    <2>4. QED
      BY <2>1, <2>2, <2>3 DEF JobFunding, JobToken, SaveSuno
  <1>5. faults' \in 0..MaxFaults /\ tainted' \subseteq Tasks
    BY <1>1, FaultType DEF JobFunding, JobToken, SaveSuno, history, TInv, TypeOK
  <1>6. UNCHANGED <<request, outside, phase, view, answer, reader, bills, unsettled>>
    BY DEF JobFunding, JobToken, SaveSuno, history
  <1>7. TypeOK'
    BY <1>2, <1>3, <1>4, <1>5, <1>6 DEF TInv, TypeOK, request, outside, reader
  <1>8. JobsExist'
    BY <1>1, <1>2, <1>4 DEF TInv, TypeOK, Consistent, JobsExist, Exists, Job
  <1>9. RowsClosed' /\ AcceptedSeen' /\ ViewsExist'
    BY <1>4, <1>6 DEF TInv, Consistent, RowsClosed, AcceptedSeen, ViewsExist,
                      Exists, request, outside
  <1>10. AnswersListed'
    <2>1. answer[m] = NoAnswer
      BY DEF JobFunding, JobToken, SaveSuno, TInv, Consistent, AnswersListed
    <2>2. QED
      BY <1>2, <1>6, <2>1 DEF TInv, TypeOK, Consistent, AnswersListed
  <1>11. FetchesExist'
    BY <1>4, <1>6 DEF TInv, TypeOK, Consistent, FetchesExist, Exists, Fetch, reader
  <1>12. QED
    BY <1>7, <1>8, <1>9, <1>10, <1>11 DEF TInv, Consistent

LEMMA TInvCrash ==
    ASSUME TInv, NEW m \in Masters, CrashMaster(m)
    PROVE  TInv'
  <1>1. /\ view' \in [Masters -> [Tasks -> Row \union {NoRow}]]
        /\ \A n \in Masters, t \in Tasks : view'[n][t] # NoRow => view[n][t] # NoRow
        /\ \A n \in Masters : n # m => view'[n] = view[n]
    BY DEF CrashMaster, NoView, TInv, TypeOK
  <1>2. /\ answer' = [answer EXCEPT ![m] = NoAnswer]
        /\ job' = [job EXCEPT ![m] = NoJob]
        /\ phase' = [phase EXCEPT ![m] = "poll"]
        /\ UNCHANGED <<request, row, ledger, outside, reader, bills, unsettled>>
    BY DEF CrashMaster
  <1>3. faults' \in 0..MaxFaults
    BY FaultType DEF CrashMaster, TInv, TypeOK
  <1>4. tainted' \subseteq Tasks
    <2>1. job[m] # NoJob => job[m].task \in Tasks
      BY DEF TInv, TypeOK, Job
    <2>2. QED
      BY <2>1 DEF CrashMaster, TInv, TypeOK
  <1>5. TypeOK'
    BY <1>1, <1>2, <1>3, <1>4 DEF TInv, TypeOK, request, ledger, outside, reader
  <1>6. AnswersListed' /\ JobsExist'
    BY <1>1, <1>2 DEF TInv, TypeOK, Consistent, AnswersListed, JobsExist, Exists
  <1>7. RowsClosed' /\ AcceptedSeen' /\ ViewsExist' /\ FetchesExist'
    BY <1>1, <1>2 DEF TInv, Consistent, RowsClosed, AcceptedSeen, ViewsExist,
                      FetchesExist, Exists, request, outside, reader
  <1>8. QED
    BY <1>5, <1>6, <1>7 DEF TInv, Consistent

LEMMA TInvMaster ==
    ASSUME TInv, NEW m \in Masters, MasterStep(m) \/ CrashMaster(m)
    PROVE  TInv'
  BY TInvList, TInvSweep, TInvBulk, TInvAsk, TInvVideo, TInvSuno, TInvJob, TInvCrash
     DEF MasterStep

LEMMA TInvNext == TInv /\ [Next]_vars => TInv'
  <1> SUFFICES ASSUME TInv, [Next]_vars PROVE TInv'
    OBVIOUS
  <1>1. CASE UNCHANGED vars
    BY <1>1 DEF TInv, TypeOK, Consistent, RowsClosed, AcceptedSeen, ViewsExist,
                AnswersListed, JobsExist, FetchesExist, Exists, vars, request, ledger,
                outside, master, reader, history
  <1>2. CASE Next
    BY <1>2, TInvRequest, TInvOutside, TInvReader, TInvMaster DEF Next
  <1>3. QED
    BY <1>1, <1>2

\* Every variable keeps its type, and rows, views, answers, jobs and fetches keep
\* fitting together, for any number of tasks, masters, readers and faults.
THEOREM TypeCorrect == Spec => []TInv
  BY TInvInit, TInvNext, PTL DEF Spec

\* The type invariant of the runs.
THEOREM Typing == Spec => []TypeOK
  BY TypeCorrect, PTL DEF TInv

-----------------------------------------------------------------------------
(* Why a task whose row is moved only by compare-and-swap is billed at     *)
(* most once: the swap succeeds from a running status only, the master     *)
(* that wins it is the only one with a job on the task, and a finished row *)
(* is never written again.                                                 *)

\* What a master has listed and not yet handled was running, at today's price.
ViewsRunning ==
    \A m \in Masters, t \in CasTasks : view[m][t] # NoRow =>
        view[m][t].status \in Running /\ view[m][t].quota = row[t].quota

\* The amount a job books: the price back, or the difference to the final one.
DeltaOf(t) == IF row[t].status = "FAILURE" THEN -row[t].quota
              ELSE Actual[t] - row[t].quota

\* A job on a task means its row is final, and the job does not write the row.
JobsFinal ==
    \A m \in Masters : job[m] # NoJob /\ job[m].task \in CasTasks =>
        /\ row[job[m].task].status \in Terminal
        /\ job[m].step \in {"fund", "token"}
        /\ job[m].save = NoRow
        /\ job[m].delta = DeltaOf(job[m].task)

\* Two masters never have a job on the same task.
OneWorker ==
    \A m, n \in Masters :
        /\ job[m] # NoJob /\ job[m].task \in CasTasks
        /\ job[n] # NoJob /\ job[n].task = job[m].task
        => m = n

\* Billing starts together with the final status.
BilledFinal ==
    \A t \in CasTasks : bills[t] = 0 \/ (bills[t] = 1 /\ row[t].status \in Terminal)

OnceInv == ViewsRunning /\ JobsFinal /\ OneWorker /\ BilledFinal

-----------------------------------------------------------------------------
(* What a step can be, seen from the tasks of CasTasks *)

\* The job of n goes on, ends, or concerns another kind of task.
JobGoesOn(n) ==
    \/ job'[n] = job[n]
    \/ job'[n] = NoJob
    \/ job'[n] \in Job /\ job'[n].task \notin CasTasks
    \/ /\ job[n] # NoJob /\ job[n] \in Job
       /\ job[n].step = "fund"
       /\ job'[n] = [job[n] EXCEPT !.step = "token"]

\* A job that concerns a task of CasTasks.
OnCas(j) == j # NoJob /\ j.task \in CasTasks

\* The request handlers and the ledger do nothing.
MoneyStays == UNCHANGED <<request, ledger, unsettled, tainted>>

\* No step towards the money of any task, or the row or job of one of CasTasks.
Untouched ==
    /\ MoneyStays
    /\ \A t \in Tasks : row'[t] # NoRow <=> row[t] # NoRow
    /\ \A t \in CasTasks : row'[t] = row[t] /\ bills'[t] = bills[t]
    /\ \A n \in Masters : job'[n] = job[n] \/ (~OnCas(job[n]) /\ ~OnCas(job'[n]))

\* Nor does anybody list one of them.
Stays ==
    /\ Untouched
    /\ \A n \in Masters, t \in CasTasks : view'[n][t] = view[n][t] \/ view'[n][t] = NoRow

\* Rows stay and jobs go on.
Frame ==
    /\ \A t \in CasTasks : row'[t] = row[t] /\ bills'[t] = bills[t]
    /\ \A n \in Masters, t \in CasTasks : view'[n][t] = view[n][t] \/ view'[n][t] = NoRow
    /\ \A n \in Masters : JobGoesOn(n)

\* A master lists running rows.
Lists(m) ==
    /\ row' = row /\ bills' = bills /\ job' = job
    /\ \A n \in Masters, t \in CasTasks :
          \/ view'[n][t] = view[n][t] \/ view'[n][t] = NoRow
          \/ view'[n][t] = row[t] /\ row[t].status \in Running

\* A task gets its row.
Birth(t) ==
    /\ row[t] = NoRow
    /\ \E r \in Row : r.status = "NOT_START" /\ row' = [row EXCEPT ![t] = r]
    /\ bills' = bills /\ job' = job /\ view' = view

\* Nothing is to be booked for t when it ends with status s.
NothingDue(t, s) == IF s = "FAILURE" THEN t \in LegacyTasks \/ row[t].quota = 0
                    ELSE Actual[t] = 0 \/ Actual[t] = row[t].quota

\* m wins the swap of t to status s, and starts the job that goes with it, if
\* there is something to be booked.
Win(m, t, s) ==
    /\ MoneyStays
    /\ row[t].status \in Running
    /\ \E r \in Row : /\ r.status = s /\ r.quota = row[t].quota
                      /\ row' = [row EXCEPT ![t] = r]
    /\ \A n \in Masters, u \in CasTasks : view'[n][u] = view[n][u] \/ view'[n][u] = NoRow
    /\ job[m] = NoJob
    /\ \/ job' = job /\ bills' = bills /\ (s \in Terminal => NothingDue(t, s))
       \/ /\ s \in Terminal
          /\ bills' = [bills EXCEPT ![t] = @ + 1]
          /\ \E j \in Job : /\ j.task = t /\ j.step = "fund" /\ j.save = NoRow
                            /\ j.delta = IF s = "FAILURE" THEN -row[t].quota
                                         ELSE Actual[t] - row[t].quota
                            /\ s # "FAILURE" => Actual[t] > 0
                            /\ job' = [job EXCEPT ![m] = j]

CasStep ==
    \/ Frame
    \/ \E m \in Masters : Lists(m)
    \/ \E t \in Tasks : Birth(t)
    \/ \E m \in Masters, t \in CasTasks, s \in Status : Win(m, t, s)

\* A row never has a status outside its life, and none has that of no row.
LEMMA StatusType ==
    ASSUME TypeOK, NEW t \in Tasks
    PROVE  /\ row[t] # NoRow => row[t] \in Row /\ row[t].status \in Status
                                /\ row[t].quota \in Nat
           /\ row[t] = NoRow => row[t].status = "none"
  BY RowType DEF TypeOK, Row, NoRow

\* Each kind of step keeps the invariant.
LEMMA OnceStep == TInv /\ TInv' /\ OnceInv /\ CasStep => OnceInv'
  <1> SUFFICES ASSUME TInv, TInv', OnceInv, CasStep PROVE OnceInv'
    OBVIOUS
  <1>1. CASE Frame
    <2>1. ViewsRunning'
      BY <1>1 DEF Frame, OnceInv, ViewsRunning
    <2>2. \A n \in Masters : job'[n] # NoJob /\ job'[n].task \in CasTasks =>
             /\ job[n] # NoJob /\ job'[n].task = job[n].task
             /\ job'[n].step \in {"fund", "token"}
             /\ job'[n].save = job[n].save /\ job'[n].delta = job[n].delta
      <3>1. SUFFICES ASSUME NEW n \in Masters, job'[n] # NoJob, job'[n].task \in CasTasks
                     PROVE  /\ job[n] # NoJob /\ job'[n].task = job[n].task
                            /\ job'[n].step \in {"fund", "token"}
                            /\ job'[n].save = job[n].save /\ job'[n].delta = job[n].delta
        OBVIOUS
      <3>2. JobGoesOn(n)
        BY <1>1 DEF Frame
      <3>3. CASE job'[n] = job[n]
        BY <3>1, <3>3 DEF OnceInv, JobsFinal
      <3>4. CASE job'[n] # job[n]
        BY <3>1, <3>2, <3>4 DEF JobGoesOn, OnceInv, JobsFinal, Job
      <3> QED BY <3>3, <3>4
    <2>3. JobsFinal'
      BY <1>1, <2>2 DEF Frame, OnceInv, JobsFinal, DeltaOf
    <2>4. OneWorker'
      BY <2>2 DEF OnceInv, OneWorker
    <2>5. BilledFinal'
      BY <1>1 DEF Frame, OnceInv, BilledFinal
    <2>6. QED
      BY <2>1, <2>3, <2>4, <2>5 DEF OnceInv
  <1>2. CASE \E m \in Masters : Lists(m)
    BY <1>2 DEF Lists, OnceInv, ViewsRunning, JobsFinal, OneWorker, BilledFinal, DeltaOf
  <1>3. ASSUME NEW t \in Tasks, Birth(t) PROVE OnceInv'
    <2>1. PICK r \in Row : r.status = "NOT_START" /\ row' = [row EXCEPT ![t] = r]
      BY <1>3 DEF Birth
    <2>2. \A u \in Tasks : u # t => row'[u] = row[u]
      BY <2>1 DEF TInv, TypeOK
    <2>3. /\ \A n \in Masters : view[n][t] = NoRow
          /\ \A n \in Masters : job[n] # NoJob => job[n].task # t
      BY <1>3 DEF Birth, TInv, Consistent, ViewsExist, JobsExist, Exists
    <2>4. \A n \in Masters : job[n] # NoJob => job[n].task \in Tasks
      BY DEF TInv, TypeOK, Job
    <2>5. ViewsRunning'
      BY <1>3, <2>2, <2>3 DEF Birth, OnceInv, ViewsRunning, CasTasks
    <2>6. JobsFinal'
      BY <1>3, <2>2, <2>3, <2>4 DEF Birth, OnceInv, JobsFinal, DeltaOf
    <2>7. OneWorker'
      BY <1>3 DEF Birth, OnceInv, OneWorker
    <2>8. row[t].status \notin Terminal
      BY <1>3 DEF Birth, NoRow, Terminal
    <2>9. BilledFinal'
      BY <1>3, <2>2, <2>8 DEF Birth, OnceInv, BilledFinal, CasTasks
    <2>10. QED
      BY <2>5, <2>6, <2>7, <2>9 DEF OnceInv
  <1>4. ASSUME NEW m \in Masters, NEW t \in CasTasks, NEW s \in Status, Win(m, t, s)
        PROVE  OnceInv'
    <2>1. PICK r \in Row : r.status = s /\ r.quota = row[t].quota
                           /\ row' = [row EXCEPT ![t] = r]
      BY <1>4 DEF Win
    <2>2. t \in Tasks /\ row'[t] = r /\ \A u \in Tasks : u # t => row'[u] = row[u]
      BY <2>1 DEF TInv, TypeOK, CasTasks
    <2>3. row[t].status \notin Terminal
      BY <1>4 DEF Win, Running, Terminal
    <2>4. \A n \in Masters : job[n] # NoJob => job[n].task # t
      BY <2>3 DEF OnceInv, JobsFinal
    <2>5. bills[t] = 0
      BY <2>3 DEF OnceInv, BilledFinal
    <2>6. \A n \in Masters : job[n] # NoJob => job[n].task \in Tasks
      BY DEF TInv, TypeOK, Job
    <2>7. ViewsRunning'
      BY <1>4, <2>1, <2>2 DEF Win, OnceInv, ViewsRunning, CasTasks
    <2>8. CASE job' = job /\ bills' = bills
      <3>1. JobsFinal'
        BY <2>2, <2>4, <2>6, <2>8 DEF OnceInv, JobsFinal, DeltaOf
      <3>2. OneWorker'
        BY <2>8 DEF OnceInv, OneWorker
      <3>3. BilledFinal'
        <4>1. bills'[t] = 0
          BY <2>5, <2>8
        <4>2. \A u \in CasTasks : u # t => bills'[u] = bills[u] /\ row'[u] = row[u]
          BY <2>2, <2>8 DEF CasTasks
        <4>3. QED
          BY <4>1, <4>2 DEF OnceInv, BilledFinal
      <3>4. QED
        BY <2>7, <3>1, <3>2, <3>3 DEF OnceInv
    <2>9. CASE ~(job' = job /\ bills' = bills)
      <3>1. /\ s \in Terminal
            /\ bills' = [bills EXCEPT ![t] = @ + 1]
        BY <1>4, <2>9 DEF Win
      <3>2. PICK j \in Job : /\ j.task = t /\ j.step = "fund" /\ j.save = NoRow
                             /\ j.delta = IF s = "FAILURE" THEN -row[t].quota
                                          ELSE Actual[t] - row[t].quota
                             /\ job' = [job EXCEPT ![m] = j]
        BY <1>4, <2>9 DEF Win
      <3>3. /\ job'[m] = j
            /\ \A n \in Masters : n # m => job'[n] = job[n]
        BY <3>2 DEF TInv, TypeOK
      <3>4. JobsFinal'
        BY <2>1, <2>2, <2>4, <2>6, <3>1, <3>2, <3>3 DEF OnceInv, JobsFinal, DeltaOf
      <3>5. OneWorker'
        BY <2>4, <3>2, <3>3 DEF OnceInv, OneWorker
      <3>6. BilledFinal'
        BY <2>1, <2>2, <2>5, <3>1 DEF OnceInv, BilledFinal, TInv, TypeOK, CasTasks
      <3>7. QED
        BY <2>7, <3>4, <3>5, <3>6 DEF OnceInv
    <2>10. QED
      BY <2>8, <2>9
  <1>5. QED
    BY <1>1, <1>2, <1>3, <1>4 DEF CasStep

-----------------------------------------------------------------------------
(* Every step is one of those kinds *)

\* Handling listed tasks only empties places of the views.
LEMMA DoneShrinks ==
    ASSUME TInv, NEW m \in Masters, NEW S, view' = Done(m, S)
    PROVE  \A n \in Masters, t \in CasTasks : view'[n][t] = view[n][t] \/ view'[n][t] = NoRow
  BY DoneType DEF TInv, TypeOK, CasTasks

LEMMA RequestKind ==
    ASSUME TInv, NEW t \in Tasks, RequestStep(t) \/ CrashRequest(t)
    PROVE  CasStep
  <1>1. CASE Insert(t) /\ row' # row
    <2>1. row[t] = NoRow
      BY <1>1 DEF Insert, TInv, Consistent, RowsClosed, Exists
    <2>2. NewRow(t) \in Row /\ NewRow(t).status = "NOT_START"
      BY DEF TInv, TypeOK, Row, Status, Running, NewRow
    <2>3. Birth(t)
      BY <1>1, <2>1, <2>2 DEF Insert, Birth, master
    <2>4. QED
      BY <2>3 DEF CasStep
  <1>2. CASE row' = row
    <2>1. UNCHANGED <<view, job, bills>>
      BY DEF RequestStep, PreConsume, Accept, Insufficient, GiveUp, Release, Settle,
             Insert, CrashRequest, master, history
    <2>2. Frame
      BY <1>2, <2>1 DEF Frame, JobGoesOn
    <2>3. QED
      BY <2>2 DEF CasStep
  <1>3. QED
    BY <1>1, <1>2 DEF RequestStep, PreConsume, Accept, Insufficient, GiveUp, Release,
                      Settle, CrashRequest

LEMMA OutsideKind ==
    ASSUME \/ \E t \in Tasks : Age(t) \/ \E s \in Status : UpstreamStep(t, s)
           \/ \E c \in Channels : DeleteChannel(c)
           \/ UNCHANGED vars
    PROVE  CasStep
  <1>1. UNCHANGED <<row, view, job, bills>>
    BY DEF Age, UpstreamStep, DeleteChannel, vars, master, history
  <1>2. QED
    BY <1>1 DEF CasStep, Frame, JobGoesOn

\* A reader writes only rows of RealtimeTasks.
LEMMA ReaderKind ==
    ASSUME TInv, NEW r \in Readers,
           RealtimeApply(r) \/ \E t \in Tasks : RealtimeFetch(r, t)
    PROVE  CasStep
  <1>1. UNCHANGED <<view, job, bills>>
    BY DEF RealtimeApply, RealtimeFetch, master, history
  <1>2. \A t \in CasTasks : row'[t] = row[t]
    <2>1. CASE row' = row
      BY <2>1
    <2>2. CASE RealtimeApply(r)
      <3>1. fetch[r].task \in RealtimeTasks
        BY <2>2 DEF RealtimeApply, TInv, Consistent, FetchesExist
      <3>2. QED
        BY <2>2, <3>1 DEF RealtimeApply, CasTasks, TInv, TypeOK
    <2>3. QED
      BY <2>1, <2>2 DEF RealtimeFetch
  <1>3. QED
    BY <1>1, <1>2 DEF CasStep, Frame, JobGoesOn

LEMMA ListKind ==
    ASSUME TInv, NEW m \in Masters, BeginSweep(m) \/ BeginPoll(m)
    PROVE  CasStep
  <1>1. PICK S \in SUBSET Unfinished :
           view' = [view EXCEPT ![m] = Copies(S)] \/ view' = [view EXCEPT ![m] = NoView]
           \/ view' = view
    BY DEF BeginSweep, BeginPoll, Page
  <1>2. \A t \in Tasks :
           \/ Copies(S)[t] = NoRow
           \/ Copies(S)[t] = row[t] /\ row[t].status \in Running
    BY CopiesType, StatusType
       DEF TInv, TypeOK, Unfinished, Exists, Finished, Status
  <1>3. \A t \in Tasks : NoView[t] = NoRow
    BY DEF NoView
  <1>4. \A n \in Masters, t \in CasTasks :
          \/ view'[n][t] = view[n][t] \/ view'[n][t] = NoRow
          \/ view'[n][t] = row[t] /\ row[t].status \in Running
    BY <1>1, <1>2, <1>3 DEF TInv, TypeOK, CasTasks
  <1>5. UNCHANGED <<row, bills, job>>
    BY DEF BeginSweep, BeginPoll, history
  <1>6. QED
    BY <1>4, <1>5 DEF CasStep, Lists

LEMMA SweepKind ==
    ASSUME TInv, OnceInv, NEW m \in Masters, NEW t \in Tasks, SweepOne(m, t)
    PROVE  Stays \/ \E u \in CasTasks, s \in Status : Win(m, u, s)
  <1> DEFINE seen == view[m][t]
             won  == Won(m, t)
             new  == WithStatus(seen, "FAILURE")
             pays == SweepRefunds(t, seen)
  <1>1. seen \in Row /\ Exists(t) /\ job[m] = NoJob
    BY RowType
       DEF SweepOne, Quiet, Listed, TInv, TypeOK, Consistent, ViewsExist
  <1>2. \A n \in Masters, u \in CasTasks : view'[n][u] = view[n][u] \/ view'[n][u] = NoRow
    BY DoneShrinks DEF SweepOne
  <1>3. /\ new \in Row /\ new # NoRow /\ new.status = "FAILURE" /\ new.quota = seen.quota
        /\ "FAILURE" \in Status /\ "FAILURE" \in Terminal
    BY <1>1, WithStatusType DEF Status, Terminal
  <1>4. /\ Refund(t, seen) \in Job /\ Refund(t, seen).task = t
        /\ Refund(t, seen).step = "fund" /\ Refund(t, seen).save = NoRow
        /\ Refund(t, seen).delta = -seen.quota
    BY <1>1, JobType DEF Refund
  <1>5. \/ won /\ row' = [row EXCEPT ![t] = new]
           /\ \/ ~pays /\ job' = job /\ bills' = bills
              \/ job' = [job EXCEPT ![m] = Refund(t, seen)]
                 /\ bills' = [bills EXCEPT ![t] = @ + 1]
        \/ row' = row /\ job' = job /\ bills' = bills
    BY <1>4 DEF SweepOne, StartJob
  <1>6. MoneyStays
    BY DEF SweepOne, MoneyStays
  <1>7. CASE t \in CasTasks /\ won /\ row' = [row EXCEPT ![t] = new]
             /\ \/ ~pays /\ job' = job /\ bills' = bills
                \/ job' = [job EXCEPT ![m] = Refund(t, seen)]
                   /\ bills' = [bills EXCEPT ![t] = @ + 1]
    <2>1. seen.quota = row[t].quota /\ row[t].status \in Running
      BY <1>1, <1>7, RowType DEF OnceInv, ViewsRunning, Won
    <2>2. ~pays => NothingDue(t, "FAILURE")
      BY <2>1 DEF SweepRefunds, NothingDue
    <2>3. Win(m, t, "FAILURE")
      BY <1>1, <1>2, <1>3, <1>4, <1>6, <1>7, <2>1, <2>2 DEF Win
    <2>4. QED
      BY <1>3, <1>7, <2>3
  <1>8. CASE row' = row /\ job' = job /\ bills' = bills
    BY <1>2, <1>6, <1>8 DEF Stays, Untouched
  <1>9. CASE t \notin CasTasks
    <2>1. /\ \A u \in CasTasks : row'[u] = row[u] /\ bills'[u] = bills[u]
          /\ \A u \in Tasks : row'[u] # NoRow <=> row[u] # NoRow
      BY <1>1, <1>3, <1>5, <1>9 DEF TInv, TypeOK, CasTasks, Exists
    <2>2. \A n \in Masters : job'[n] = job[n] \/ (~OnCas(job[n]) /\ ~OnCas(job'[n]))
      BY <1>1, <1>4, <1>5, <1>9 DEF OnCas, TInv, TypeOK
    <2>3. QED
      BY <1>2, <1>6, <2>1, <2>2 DEF Stays, Untouched
  <1>10. QED
    BY <1>5, <1>7, <1>8, <1>9

\* Only channels that may be deleted are ever missing.
LEMMA BulkKind ==
    ASSUME TInv, NEW m \in Masters, NEW c \in Channels, BulkFail(m, c)
    PROVE  CasStep
  <1>1. c \in Deletable
    BY DEF BulkFail, TInv, TypeOK
  <1>2. \A t \in CasTasks : row'[t] = row[t]
    BY <1>1 DEF BulkFail, CasTasks
  <1>3. \A n \in Masters, u \in CasTasks : view'[n][u] = view[n][u] \/ view'[n][u] = NoRow
    BY DoneShrinks DEF BulkFail
  <1>4. UNCHANGED <<job, bills>>
    BY DEF BulkFail, history
  <1>5. QED
    BY <1>2, <1>3, <1>4 DEF CasStep, Frame, JobGoesOn

LEMMA AskKind ==
    ASSUME TInv, NEW m \in Masters, NEW t \in Tasks,
           AskFails(m, t) \/ \E a \in Answer : Ask(m, t, a)
    PROVE  CasStep
  <1>1. \A n \in Masters, u \in CasTasks : view'[n][u] = view[n][u] \/ view'[n][u] = NoRow
    BY DoneShrinks DEF AskFails, Ask
  <1>2. UNCHANGED <<row, job, bills>>
    BY DEF AskFails, Ask, history
  <1>3. QED
    BY <1>1, <1>2 DEF CasStep, Frame, JobGoesOn

LEMMA VideoKind ==
    ASSUME TInv, OnceInv, NEW m \in Masters, ApplyVideo(m)
    PROVE  Stays \/ \E u \in CasTasks, s \in Status : Win(m, u, s)
  <1> DEFINE t    == answer[m].task
             s    == answer[m].status
             seen == view[m][t]
             won  == Won(m, t)
             new  == Reported(seen, answer[m])
             none == /\ s = "SUCCESS" => ~NeedsAdjust(t, seen)
                     /\ s = "FAILURE" => seen.quota = 0
  <1>1. answer[m] \in Answer /\ t \in Tasks /\ s \in Status
    BY DEF ApplyVideo, TInv, TypeOK, Answer
  <1>2. seen \in Row /\ Exists(t)
    BY <1>1, RowType
       DEF ApplyVideo, TInv, TypeOK, Consistent, AnswersListed, ViewsExist
  <1>3. \A n \in Masters, u \in CasTasks : view'[n][u] = view[n][u] \/ view'[n][u] = NoRow
    BY DoneShrinks DEF ApplyVideo
  <1>4. new \in Row /\ new # NoRow /\ new.status = s /\ new.quota = seen.quota
    BY <1>1, <1>2, ReportedType
  <1>5. /\ Refund(t, seen) \in Job /\ Refund(t, seen).task = t
        /\ Refund(t, seen).step = "fund" /\ Refund(t, seen).save = NoRow
        /\ Refund(t, seen).delta = -seen.quota
        /\ Adjust(t, seen) \in Job /\ Adjust(t, seen).task = t
        /\ Adjust(t, seen).step = "fund" /\ Adjust(t, seen).save = NoRow
        /\ Adjust(t, seen).delta = Actual[t] - seen.quota
    BY <1>1, <1>2, JobType DEF Refund, Adjust
  <1>6. PICK j \in {Refund(t, seen), Adjust(t, seen)} :
          \/ /\ won /\ row' = [row EXCEPT ![t] = new]
             /\ \/ none /\ job' = job /\ bills' = bills
                \/ /\ s = "FAILURE" => j = Refund(t, seen)
                   /\ s # "FAILURE" => j = Adjust(t, seen) /\ Actual[t] > 0
                   /\ s \in Terminal /\ job' = [job EXCEPT ![m] = j]
                   /\ bills' = [bills EXCEPT ![t] = @ + 1]
          \/ row' = row /\ job' = job /\ bills' = bills
    BY <1>5 DEF ApplyVideo, StartJob, Terminal, NeedsAdjust
  <1>7. job[m] = NoJob
    BY DEF ApplyVideo, TInv, Consistent, AnswersListed
  <1>8. MoneyStays
    BY DEF ApplyVideo, MoneyStays
  <1>9. CASE t \in CasTasks /\ ~(row' = row /\ job' = job /\ bills' = bills)
    <2>1. seen.quota = row[t].quota /\ row[t].status \in Running
      BY <1>2, <1>6, <1>9, RowType DEF OnceInv, ViewsRunning, Won
    <2>2. seen.quota \in Nat /\ Actual[t] \in Nat
      BY <1>1, <1>2, ActualAssumption DEF Row
    <2>3. none /\ s \in Terminal => NothingDue(t, s)
      BY <2>1, <2>2 DEF NeedsAdjust, NothingDue, Terminal
    <2>4. Win(m, t, s)
      BY <1>3, <1>4, <1>5, <1>6, <1>7, <1>8, <1>9, <2>1, <2>3 DEF Win
    <2>5. QED
      BY <1>1, <1>9, <2>4
  <1>10. CASE row' = row /\ job' = job /\ bills' = bills
    BY <1>3, <1>8, <1>10 DEF Stays, Untouched
  <1>11. CASE t \notin CasTasks
    <2>1. /\ \A u \in CasTasks : row'[u] = row[u] /\ bills'[u] = bills[u]
          /\ \A u \in Tasks : row'[u] # NoRow <=> row[u] # NoRow
      BY <1>1, <1>2, <1>4, <1>6, <1>11 DEF TInv, TypeOK, CasTasks, Exists
    <2>2. \A n \in Masters : job'[n] = job[n] \/ (~OnCas(job[n]) /\ ~OnCas(job'[n]))
      BY <1>5, <1>6, <1>7, <1>11 DEF OnCas, TInv, TypeOK
    <2>3. QED
      BY <1>3, <1>8, <2>1, <2>2 DEF Stays, Untouched
  <1>12. QED
    BY <1>6, <1>9, <1>10, <1>11

\* A Suno task is not one of CasTasks, whatever happens to it.
LEMMA SunoKind ==
    ASSUME TInv, TInv', NEW m \in Masters, ApplySuno(m)
    PROVE  CasStep
  <1> DEFINE t == answer[m].task
  <1>1. t \in Tasks /\ t \notin CasTasks
    BY DEF ApplySuno, TInv, TypeOK, Answer, CasTasks
  <1>2. \A n \in Masters, u \in CasTasks : view'[n][u] = view[n][u] \/ view'[n][u] = NoRow
    BY DoneShrinks DEF ApplySuno
  <1>3. row' = row /\ \A u \in CasTasks : bills'[u] = bills[u]
    BY <1>1 DEF ApplySuno, StartJob, Refund, TInv, TypeOK, CasTasks
  <1>4. \E j : j.task = t /\ (job' = job \/ job' = [job EXCEPT ![m] = j])
    BY DEF ApplySuno, StartJob, Refund
  <1>5. \A n \in Masters : JobGoesOn(n)
    BY <1>1, <1>4 DEF JobGoesOn, TInv, TypeOK
  <1>6. QED
    BY <1>2, <1>3, <1>5 DEF CasStep, Frame

\* A job books its amount and ends; Save belongs to Suno tasks.
LEMMA JobKind ==
    ASSUME TInv, TInv', OnceInv, NEW m \in Masters,
           JobFunding(m) \/ JobToken(m) \/ SaveSuno(m)
    PROVE  CasStep
  <1> DEFINE j == job[m]
  <1>1. j \in Job /\ j # NoJob /\ j.task \in Tasks
    BY DEF JobFunding, JobToken, SaveSuno, TInv, TypeOK, Job
  <1>2. j.task \in CasTasks => AfterBilling(j) = NoJob /\ ~SaveSuno(m)
    BY <1>1 DEF OnceInv, JobsFinal, AfterBilling, SaveSuno
  <1>3. \/ job' = [job EXCEPT ![m] = [j EXCEPT !.step = "token"]] /\ j.step = "fund"
        \/ job' = [job EXCEPT ![m] = AfterBilling(j)]
        \/ job' = [job EXCEPT ![m] = NoJob]
    BY DEF JobFunding, JobToken, SaveSuno
  <1>4. AfterBilling(j) \in Job \union {NoJob}
        /\ (AfterBilling(j) # NoJob => AfterBilling(j).task = j.task)
    BY <1>1, AfterBillingType
  <1>5. \A n \in Masters : JobGoesOn(n)
    BY <1>1, <1>2, <1>3, <1>4 DEF JobGoesOn, TInv, TypeOK
  <1>6. \A t \in CasTasks : row'[t] = row[t]
    <2>1. CASE SaveSuno(m)
      BY <1>1, <1>2, <2>1 DEF SaveSuno, TInv, TypeOK, CasTasks
    <2>2. CASE JobFunding(m) \/ JobToken(m)
      BY <2>2 DEF JobFunding, JobToken
    <2>3. QED
      BY <2>1, <2>2
  <1>7. UNCHANGED <<view, bills>>
    BY DEF JobFunding, JobToken, SaveSuno, history
  <1>8. QED
    BY <1>5, <1>6, <1>7 DEF CasStep, Frame

LEMMA CrashKind ==
    ASSUME TInv, NEW m \in Masters, CrashMaster(m)
    PROVE  CasStep
  <1>1. \A n \in Masters, u \in CasTasks : view'[n][u] = view[n][u] \/ view'[n][u] = NoRow
    BY DEF CrashMaster, NoView, TInv, TypeOK, CasTasks
  <1>2. \A n \in Masters : job'[n] = job[n] \/ job'[n] = NoJob
    BY DEF CrashMaster, TInv, TypeOK
  <1>3. UNCHANGED <<row, bills>>
    BY DEF CrashMaster
  <1>4. QED
    BY <1>1, <1>2, <1>3 DEF CasStep, Frame, JobGoesOn

\* A step away from CasTasks is a frame for them.
LEMMA StaysFrame == TInv' /\ Stays => CasStep
  BY DEF Stays, Untouched, OnCas, CasStep, Frame, JobGoesOn, TInv, TypeOK

\* A step of a master is one of the four kinds.
LEMMA MasterKind ==
    ASSUME TInv, TInv', OnceInv, NEW m \in Masters, MasterStep(m)
    PROVE  CasStep
  <1>1. ASSUME Stays \/ \E u \in CasTasks, s \in Status : Win(m, u, s) PROVE CasStep
    BY <1>1, StaysFrame DEF CasStep
  <1>2. QED
    BY <1>1, ListKind, SweepKind, BulkKind, AskKind, VideoKind, SunoKind, JobKind
       DEF MasterStep

LEMMA NextKind == TInv /\ TInv' /\ OnceInv /\ [Next]_vars => CasStep
  BY RequestKind, OutsideKind, ReaderKind, MasterKind, CrashKind DEF Next

-----------------------------------------------------------------------------
(* The results *)

LEMMA OnceInit == Init => OnceInv
  BY DEF Init, OnceInv, ViewsRunning, JobsFinal, OneWorker, BilledFinal, NoView, CasTasks

\* The inductive invariant of the argument.
THEOREM OnceInvariant == Spec => []OnceInv
  <1>1. TInv /\ TInv' /\ OnceInv /\ [Next]_vars => OnceInv'
    BY NextKind, OnceStep
  <1>2. QED
    BY <1>1, OnceInit, TypeCorrect, PTL DEF Spec

\* However many masters sweep and poll, crash and restart, a task is refunded or
\* re-priced at most once.
THEOREM AtMostOnce == Spec => []BilledAtMostOnce
  <1>1. OnceInv => BilledAtMostOnce
    BY DEF OnceInv, BilledFinal, BilledAtMostOnce
  <1>2. QED
    BY <1>1, OnceInvariant, PTL

\* The row of a finished task is never written again.
THEOREM FinishedForever == Spec => FinishedStays
  <1> DEFINE Kept == \A t \in CasTasks :
                       Exists(t) /\ Finished(row[t]) => row'[t] = row[t]
  <1>1. TInv /\ TInv' /\ OnceInv /\ [Next]_vars => Kept
    <2> SUFFICES ASSUME TInv, TInv', OnceInv, [Next]_vars, NEW t \in CasTasks,
                        Exists(t), Finished(row[t])
                 PROVE  row'[t] = row[t]
      OBVIOUS
    <2>1. CasStep
      BY NextKind
    <2>2. row[t].status \notin Running /\ row[t] # NoRow
      BY DEF Finished, Running, Terminal, Exists
    <2>3. CASE \E u \in Tasks : Birth(u)
      BY <2>2, <2>3 DEF Birth, TInv, TypeOK, CasTasks
    <2>4. CASE \E m \in Masters, u \in CasTasks, s \in Status : Win(m, u, s)
      BY <2>2, <2>4 DEF Win, TInv, TypeOK, CasTasks
    <2>5. QED
      BY <2>1, <2>3, <2>4 DEF CasStep, Frame, Lists
  <1>2. TInv /\ TInv' /\ OnceInv /\ [Next]_vars => [Kept]_vars
    BY <1>1
  <1>3. QED
    BY <1>2, TypeCorrect, OnceInvariant, PTL DEF Spec, FinishedStays

-----------------------------------------------------------------------------
(* What the money of a task does: it keeps the promise of TaskPromise, and *)
(* once the task is finished it has paid its final price.  Both follow     *)
(* from the part above: a finished row has one job at most, and that job   *)
(* books exactly the difference to the final price.                        *)

\* Until a task has its row, wallet and token have paid the estimate, then the
\* price; a settlement or a release that failed leaves something behind.
LedgerBefore(t) ==
    /\ submit[t] = "new" => t \notin unsettled /\ fund[t] = 0 /\ tok[t] = 0
    /\ submit[t] \in {"held", "releasing", "accepted"} =>
           t \notin unsettled /\ fund[t] = pre[t] /\ tok[t] = pre[t]
    /\ submit[t] = "settled" /\ t \notin unsettled => fund[t] = quote[t] /\ tok[t] = quote[t]
    /\ submit[t] = "closed" /\ t \notin tainted => fund[t] = 0 /\ tok[t] = 0
    /\ tok[t] >= 0 /\ (fund[t] >= 0 \/ RefundedAgain(t))

BeforeRow == \A t \in Tasks : ~Exists(t) => LedgerBefore(t)

JobAt(t, step) == \E m \in Masters : job[m] # NoJob /\ job[m].task = t /\ job[m].step = step

\* The price of t once it is finished and everything is booked.
FullyBooked(t) == row[t].quota + DeltaOf(t)

\* With its row, a task has paid its price; the one job it may get moves the
\* wallet, then the token, by the difference; a fault may end the job anywhere.
LedgerAfter(t) ==
    /\ bills[t] = 0 => fund[t] = row[t].quota /\ tok[t] = row[t].quota
    /\ JobAt(t, "fund")  => fund[t] = row[t].quota /\ tok[t] = row[t].quota
    /\ JobAt(t, "token") => fund[t] = FullyBooked(t) /\ tok[t] = row[t].quota
    /\ bills[t] # 0 => /\ fund[t] \in {row[t].quota, FullyBooked(t)}
                       /\ tok[t] \in {row[t].quota, FullyBooked(t)}
    /\ (bills[t] # 0 /\ ~Working(t) /\ t \notin tainted) =>
           fund[t] = FullyBooked(t) /\ tok[t] = FullyBooked(t)

AfterRow == \A t \in CasTasks \ unsettled : Exists(t) => LedgerAfter(t)

\* Whoever works on a task was billing it; a finished task that was never billed
\* has nothing to be booked, and a job after a success books a reported price.
JobsNeeded == \A t \in CasTasks :
    /\ Working(t) => bills[t] # 0
    /\ row[t].status \in Terminal =>
           /\ bills[t] = 0 => NothingDue(t, row[t].status)
           /\ bills[t] # 0 /\ row[t].status # "FAILURE" => Actual[t] > 0

BooksInv == BeforeRow /\ AfterRow /\ JobsNeeded

-----------------------------------------------------------------------------
(* Lemmas *)

\* The amounts are integers.
LEMMA Amounts ==
    ASSUME TInv, NEW t \in Tasks
    PROVE  /\ fund[t] \in Int /\ tok[t] \in Int /\ pre[t] \in Nat /\ quote[t] \in Nat
           /\ Actual[t] \in Nat
           /\ Exists(t) => row[t].quota \in Nat /\ DeltaOf(t) \in Int /\ FullyBooked(t) \in Nat
  <1>1. Exists(t) => row[t].quota \in Nat
    BY StatusType DEF TInv, Exists
  <1>2. QED
    BY <1>1, ActualAssumption DEF TInv, TypeOK, DeltaOf, FullyBooked

\* A new row is a row.
LEMMA NewRowExists ==
    ASSUME NEW t \in Tasks
    PROVE  NewRow(t) # NoRow
  BY DEF NewRow, NoRow

LEMMA BooksInit == Init => BooksInv
  BY DEF Init, BooksInv, BeforeRow, AfterRow, LedgerBefore, JobsNeeded, Exists, NoRow, Terminal, CasTasks,
              Working

LEMMA BooksUntouched ==
    ASSUME TInv, TInv', BooksInv, Untouched
    PROVE  BooksInv'
  <1>1. BeforeRow'
    BY DEF BooksInv, BeforeRow, LedgerBefore, RefundedAgain, Untouched, MoneyStays, request,
           ledger, Exists
  <1>2. \A t \in CasTasks : /\ Working(t)' <=> Working(t)
                            /\ \A step : JobAt(t, step)' <=> JobAt(t, step)
    BY DEF Untouched, OnCas, Working, JobAt
  <1>3. \A t \in CasTasks : FullyBooked(t)' = FullyBooked(t) /\ (Exists(t)' <=> Exists(t))
    BY DEF Untouched, FullyBooked, DeltaOf, CasTasks, Exists
  <1>4. AfterRow'
    BY <1>2, <1>3 DEF BooksInv, AfterRow, LedgerAfter, Untouched, MoneyStays, ledger
  <1>5. JobsNeeded'
    BY <1>2 DEF BooksInv, JobsNeeded, NothingDue, Untouched
  <1>6. QED
    BY <1>1, <1>4, <1>5 DEF BooksInv

LEMMA BooksWin ==
    ASSUME TInv, TInv', OnceInv, OnceInv', BooksInv,
           NEW m \in Masters, NEW t \in CasTasks, NEW s \in Status, Win(m, t, s)
    PROVE  BooksInv'
  <1>1. PICK r \in Row : r.status = s /\ r.quota = row[t].quota
                         /\ row' = [row EXCEPT ![t] = r]
    BY DEF Win
  <1>2. /\ t \in Tasks /\ row'[t] = r /\ \A u \in Tasks : u # t => row'[u] = row[u]
        /\ Exists(t) /\ Exists(t)'
    BY <1>1, RowType, StatusType DEF TInv, TypeOK, CasTasks, Exists, Win, Running, NoRow
  <1>3. MoneyStays
    BY DEF Win
  <1>4. /\ row[t].status \notin Terminal /\ bills[t] = 0
        /\ \A n \in Masters : job[n] # NoJob => job[n].task # t
    BY DEF Win, Running, Terminal, OnceInv, BilledFinal, JobsFinal
  <1>5. BeforeRow'
    BY <1>2, <1>3 DEF BooksInv, BeforeRow, LedgerBefore, RefundedAgain, MoneyStays, request,
                      ledger, Exists
  <1>6. /\ t \in unsettled \/ (fund[t] = row[t].quota /\ tok[t] = row[t].quota)
        /\ UNCHANGED <<fund, tok, unsettled, tainted>>
    BY <1>2, <1>3, <1>4 DEF BooksInv, AfterRow, LedgerAfter, MoneyStays, ledger
  <1>7. \A u \in CasTasks : u # t => Exists(u)' = Exists(u) /\ FullyBooked(u)' = FullyBooked(u)
    BY <1>2 DEF Exists, FullyBooked, DeltaOf, CasTasks
  <1>8. CASE job' = job /\ bills' = bills /\ (s \in Terminal => NothingDue(t, s))
    <2>1. AfterRow'
      BY <1>1, <1>2, <1>4, <1>6, <1>7, <1>8 DEF BooksInv, AfterRow, LedgerAfter, JobAt, Working, CasTasks
    <2>2. JobsNeeded'
      BY <1>1, <1>2, <1>4, <1>8 DEF BooksInv, JobsNeeded, NothingDue, Working, CasTasks
    <2>3. QED
      BY <1>5, <2>1, <2>2 DEF BooksInv
  <1>9. ASSUME s \in Terminal, bills' = [bills EXCEPT ![t] = @ + 1],
               NEW j \in Job, j.task = t, j.step = "fund",
               s # "FAILURE" => Actual[t] > 0,
               job' = [job EXCEPT ![m] = j]
        PROVE  BooksInv'
    <2>1. /\ job[m] = NoJob /\ job'[m] = j /\ j # NoJob
          /\ \A n \in Masters : n # m => job'[n] = job[n]
      BY <1>9 DEF Win, TInv, TypeOK, Job, NoJob
    <2>2. bills'[t] = 1 /\ \A u \in CasTasks : u # t => bills'[u] = bills[u]
      BY <1>2, <1>4, <1>9 DEF TInv, TypeOK, CasTasks
    <2>3. \A u \in CasTasks : u # t =>
             /\ Working(u)' <=> Working(u)
             /\ \A step : JobAt(u, step)' <=> JobAt(u, step)
      BY <1>9, <2>1 DEF Working, JobAt
    <2>4. Working(t)' /\ ~JobAt(t, "token")'
      BY <1>4, <1>9, <2>1 DEF Working, JobAt
    <2>5. row'[t].quota = row[t].quota
      BY <1>1, <1>2
    <2>6. AfterRow'
      <3> SUFFICES ASSUME NEW u \in CasTasks \ unsettled', Exists(u)'
                   PROVE  LedgerAfter(u)'
        BY DEF AfterRow
      <3>1. CASE u = t
        BY <3>1, <1>6, <2>2, <2>4, <2>5 DEF LedgerAfter
      <3>2. CASE u # t
        BY <3>2, <1>2, <1>6, <1>7, <2>2, <2>3 DEF BooksInv, AfterRow, LedgerAfter, CasTasks
      <3>3. QED
        BY <3>1, <3>2
    <2>7. JobsNeeded'
      BY <1>1, <1>2, <1>9, <2>2, <2>3 DEF BooksInv, JobsNeeded, NothingDue, CasTasks
    <2>8. QED
      BY <1>5, <2>6, <2>7 DEF BooksInv
  <1>10. QED
    BY <1>8, <1>9 DEF Win

\* The request moves the money of its own task, which has no row before it.
OnlyRequest(t) ==
    /\ \A u \in Tasks : u # t =>
           /\ submit'[u] = submit[u] /\ pre'[u] = pre[u] /\ quote'[u] = quote[u]
           /\ row'[u] = row[u] /\ fund'[u] = fund[u] /\ tok'[u] = tok[u]
           /\ u \in unsettled' <=> u \in unsettled
           /\ u \in tainted' <=> u \in tainted
    /\ UNCHANGED <<job, bills>>

LEMMA RequestAlone ==
    ASSUME TInv, NEW t \in Tasks, RequestStep(t) \/ CrashRequest(t)
    PROVE  OnlyRequest(t) /\ submit[t] # "closed" /\ ~Exists(t)
  <1>1. submit[t] # "closed" /\ ~Exists(t)
    BY DEF RequestStep, PreConsume, Insufficient, Accept, GiveUp, Release, Settle,
           Insert, CrashRequest, TInv, Consistent, RowsClosed
  <1>2. CASE (\E q \in Quotas : PreConsume(t, q)) \/ Release(t) \/ Settle(t)
    BY <1>1, <1>2 DEF PreConsume, Release, Settle, OnlyRequest, Become, Charge, ledger, master,
                history, TInv, TypeOK
  <1>3. CASE (\E q \in Quotas : Accept(t, q)) \/ Insufficient(t) \/ GiveUp(t)
    BY <1>1, <1>3 DEF Accept, Insufficient, GiveUp, OnlyRequest, Become, ledger, master, history,
                TInv, TypeOK
  <1>4. CASE Insert(t) \/ CrashRequest(t)
    BY <1>1, <1>4 DEF Insert, CrashRequest, OnlyRequest, Become, ledger, master, TInv, TypeOK
  <1>5. QED
    BY <1>1, <1>2, <1>3, <1>4 DEF RequestStep

LEMMA BooksRequest ==
    ASSUME TInv, TInv', OnceInv, BooksInv, NEW t \in Tasks, RequestStep(t) \/ CrashRequest(t)
    PROVE  BooksInv'
  <1>1. OnlyRequest(t) /\ submit[t] # "closed" /\ ~Exists(t)
    BY RequestAlone
  <1>2. LedgerBefore(t)
    BY <1>1 DEF BooksInv, BeforeRow
  <1>3. \A u \in Tasks : u # t => Exists(u)' = Exists(u)
    BY <1>1 DEF OnlyRequest, Exists
  <1>4. ASSUME ~Exists(t)' PROVE LedgerBefore(t)'
    <2>1. CASE \E q \in Quotas : PreConsume(t, q)
      BY <1>2, <2>1, QuotasAssumption
         DEF PreConsume, Become, Charge, LedgerBefore, TInv, TypeOK, history
    <2>2. CASE (\E q \in Quotas : Accept(t, q)) \/ Insufficient(t) \/ GiveUp(t)
      BY <1>2, <2>2 DEF Accept, Insufficient, GiveUp, Become, LedgerBefore, TInv, TypeOK,
                        history, ledger
    <2>3. CASE Release(t)
      <3>1. PICK given \in 0..3, kept \in 0..1 : Back(t, given, kept)
        BY <2>3, ReleaseLedger DEF TInv, TypeOK
      <3>2. /\ submit[t] = "releasing" /\ submit'[t] = "closed"
            /\ UNCHANGED <<pre, unsettled>>
        BY <2>3 DEF Release, Become, TInv, TypeOK
      <3>3. fund[t] = pre[t] /\ tok[t] = pre[t] /\ pre[t] \in Nat
        BY <1>2, <3>2 DEF LedgerBefore, TInv, TypeOK
      <3>4. /\ fund'[t] = pre[t] - given * pre[t]
            /\ tok'[t] = pre[t] - (1 - kept) * pre[t]
        BY <3>1, <3>3 DEF Back, TInv, TypeOK
      <3>5. /\ tok'[t] >= 0 /\ fund'[t] >= -2 * pre[t]
            /\ given <= 1 => fund'[t] >= 0
            /\ given = 1 => fund'[t] = 0
            /\ kept = 0 => tok'[t] = 0
        BY <3>1, <3>3, <3>4
      <3>6. QED
        BY <1>4, <3>1, <3>2, <3>5 DEF Back, LedgerBefore, RefundedAgain, Exists
    <2>4. CASE Settle(t)
      BY <1>2, <2>4 DEF Settle, Become, Charge, LedgerBefore, TInv, TypeOK, ledger
    <2>5. CASE Insert(t) \/ CrashRequest(t)
      <3>1. t \in tainted'
        BY <1>4, <2>5, NewRowExists DEF Insert, CrashRequest, Exists, TInv, TypeOK
      <3>2. submit'[t] = "closed" /\ UNCHANGED ledger
        BY <2>5 DEF Insert, CrashRequest, Become, TInv, TypeOK
      <3>3. QED
        BY <1>1, <1>2, <3>1, <3>2 DEF LedgerBefore, RefundedAgain, ledger
    <2>6. QED
      BY <2>1, <2>2, <2>3, <2>4, <2>5 DEF RequestStep
  <1>5. BeforeRow'
    <2>1. ASSUME NEW u \in Tasks, u # t, ~Exists(u)' PROVE LedgerBefore(u)'
      BY <1>1, <1>3, <2>1 DEF OnlyRequest, BooksInv, BeforeRow, LedgerBefore, RefundedAgain
    <2>2. QED
      BY <1>4, <2>1 DEF BeforeRow
  <1>6. ASSUME t \in CasTasks \ unsettled', Exists(t)' PROVE LedgerAfter(t)'
    <2>1. Insert(t) /\ row' = [row EXCEPT ![t] = NewRow(t)]
      BY <1>1, <1>6 DEF RequestStep, PreConsume, Insufficient, Accept, GiveUp, Release,
                        Settle, Insert, CrashRequest, Exists
    <2>2. row'[t] = NewRow(t) /\ UNCHANGED <<fund, tok, quote, bills, job, unsettled>>
      BY <2>1 DEF Insert, TInv, TypeOK, ledger, master
    <2>3. fund'[t] = row'[t].quota /\ tok'[t] = row'[t].quota
      BY <1>2, <1>6, <2>1, <2>2 DEF Insert, LedgerBefore, NewRow
    <2>4. \A n \in Masters : job'[n] # NoJob => job'[n].task # t
      BY <1>1, <2>2 DEF TInv, Consistent, JobsExist
    <2>5. bills'[t] = 0
      <3>1. row[t].status \notin Terminal
        BY <1>1 DEF Exists, NoRow, Terminal
      <3>2. QED
        BY <1>6, <2>2, <3>1 DEF OnceInv, BilledFinal
    <2>6. QED
      BY <2>3, <2>4, <2>5 DEF LedgerAfter, JobAt
  <1>7. AfterRow'
    <2>1. ASSUME NEW u \in CasTasks \ unsettled', u # t, Exists(u)' PROVE LedgerAfter(u)'
      <3>1. LedgerAfter(u) /\ u \in Tasks
        BY <1>1, <1>3, <2>1 DEF OnlyRequest, BooksInv, AfterRow, CasTasks
      <3>2. /\ FullyBooked(u)' = FullyBooked(u)
            /\ Working(u)' <=> Working(u)
            /\ \A step : JobAt(u, step)' <=> JobAt(u, step)
        BY <1>1, <2>1, <3>1 DEF OnlyRequest, FullyBooked, DeltaOf, Working, JobAt
      <3>3. QED
        BY <1>1, <2>1, <3>1, <3>2 DEF OnlyRequest, LedgerAfter
    <2>2. QED
      BY <1>6, <2>1 DEF AfterRow
  <1>8. JobsNeeded'
    <2>1. row'[t].status \notin Terminal
      <3>1. row' = row \/ row' = [row EXCEPT ![t] = NewRow(t)]
        BY DEF RequestStep, PreConsume, Insufficient, Accept, GiveUp, Release,
               Settle, Insert, CrashRequest
      <3>2. QED
        BY <1>1, <3>1 DEF Exists, NoRow, NewRow, Terminal, TInv, TypeOK
    <2>2. QED
      <3>1. \A u \in Tasks : /\ Working(u)' => Working(u)
                             /\ u = t => ~Working(u)
        BY <1>1 DEF OnlyRequest, Working, TInv, Consistent, JobsExist
      <3>2. QED
        BY <1>1, <2>1, <3>1 DEF OnlyRequest, BooksInv, JobsNeeded, NothingDue, CasTasks
  <1>9. QED
    BY <1>5, <1>7, <1>8 DEF BooksInv

\* The holder of a job moves the money of its task, and only that.
OnlyJob(m, t) ==
    /\ job[m] # NoJob /\ job[m].task = t
    /\ \A u \in Tasks : u # t =>
           /\ fund'[u] = fund[u] /\ tok'[u] = tok[u]
           /\ u \in tainted' <=> u \in tainted
    /\ job'[m] = NoJob \/ job'[m].task = t
    /\ \A n \in Masters : n # m => job'[n] = job[n]
    /\ UNCHANGED <<request, row, bills, unsettled>>

LEMMA BooksElsewhere ==
    ASSUME TInv, TInv', OnceInv, BooksInv, NEW m \in Masters, NEW t \in Tasks, OnlyJob(m, t),
           t \in CasTasks \ unsettled => LedgerAfter(t)'
    PROVE  BooksInv'
  <1>1. t \in Tasks /\ Exists(t)
    BY DEF OnlyJob, TInv, TypeOK, Consistent, JobsExist, Job
  <1>2. BeforeRow'
    BY <1>1 DEF OnlyJob, BooksInv, BeforeRow, LedgerBefore, RefundedAgain, request, Exists
  <1>3. \A u \in Tasks : Working(u)' => Working(u)
    BY DEF OnlyJob, Working
  <1>4. \A u \in Tasks : u # t => /\ Working(u)' <=> Working(u)
                                 /\ \A step : JobAt(u, step)' <=> JobAt(u, step)
    BY DEF OnlyJob, Working, JobAt
  <1>5. \A u \in CasTasks : FullyBooked(u)' = FullyBooked(u) /\ (Exists(u)' <=> Exists(u))
    BY DEF OnlyJob, FullyBooked, DeltaOf, Exists
  <1>6. AfterRow'
    <2>1. ASSUME NEW u \in CasTasks \ unsettled', u # t, Exists(u)' PROVE LedgerAfter(u)'
      <3>1. LedgerAfter(u) /\ u \in Tasks
        BY <1>5, <2>1 DEF OnlyJob, BooksInv, AfterRow, CasTasks
      <3>2. QED
        BY <1>4, <1>5, <2>1, <3>1 DEF OnlyJob, LedgerAfter
    <2>2. QED
      BY <2>1 DEF AfterRow, OnlyJob
  <1>7. JobsNeeded'
    BY <1>3 DEF OnlyJob, BooksInv, JobsNeeded, NothingDue, CasTasks
  <1>8. QED
    BY <1>2, <1>6, <1>7 DEF BooksInv

LEMMA JobAlone ==
    ASSUME TInv, NEW m \in Masters, NEW t \in Tasks, job[m] # NoJob, job[m].task = t,
           JobFunding(m) \/ JobToken(m) \/ CrashMaster(m)
    PROVE  OnlyJob(m, t)
  <1> DEFINE j == job[m]
  <1>1. j \in Job /\ j.delta \in Int
    BY DEF TInv, TypeOK, Job
  <1>2. /\ AfterBilling(j) \in Job \union {NoJob}
        /\ AfterBilling(j) # NoJob => AfterBilling(j).task = t
    BY <1>1, AfterBillingType
  <1>3. CASE JobFunding(m) \/ JobToken(m)
    BY <1>1, <1>2, <1>3
       DEF JobFunding, JobToken, OnlyJob, Charge, ledger, TInv, TypeOK, Job
  <1>4. CASE CrashMaster(m)
    BY <1>1, <1>4 DEF CrashMaster, OnlyJob, ledger, TInv, TypeOK
  <1>5. QED
    BY <1>3, <1>4

\* A job books its amount on the wallet, then on the token, or a fault ends it.
LEMMA BooksJob ==
    ASSUME TInv, TInv', OnceInv, BooksInv, NEW m \in Masters,
           JobFunding(m) \/ JobToken(m) \/ (CrashMaster(m) /\ job[m] # NoJob)
    PROVE  BooksInv'
  <1> DEFINE j == job[m]
  <1>1. PICK t \in Tasks : /\ j # NoJob /\ j \in Job /\ j.task = t /\ Exists(t)
                           /\ j.delta \in Int
    BY DEF JobFunding, JobToken, TInv, TypeOK, Consistent, JobsExist, Job
  <1>2. AfterBilling(j) \in Job \union {NoJob}
    BY <1>1, AfterBillingType
  <1>3. OnlyJob(m, t)
    BY <1>1, JobAlone
  <1>4. ASSUME t \in CasTasks, t \notin unsettled PROVE LedgerAfter(t)'
    <2>1. /\ row[t].status \in Terminal /\ j.step \in {"fund", "token"}
          /\ AfterBilling(j) = NoJob /\ j.delta = DeltaOf(t)
          /\ \A n \in Masters : n # m /\ job[n] # NoJob => job[n].task # t
      BY <1>1, <1>4 DEF OnceInv, JobsFinal, OneWorker, AfterBilling
    <2>2. bills[t] # 0 /\ LedgerAfter(t)
      BY <1>1, <1>4 DEF BooksInv, JobsNeeded, AfterRow, Working
    <2>3. bills' = bills /\ row' = row /\ FullyBooked(t)' = FullyBooked(t)
      BY <1>3 DEF OnlyJob, FullyBooked, DeltaOf
    <2>4. /\ fund[t] \in Int /\ tok[t] \in Int /\ row[t].quota \in Nat /\ DeltaOf(t) \in Int
          /\ FullyBooked(t) = row[t].quota + DeltaOf(t)
      BY <1>1, Amounts DEF FullyBooked
    <2>5. CASE JobFunding(m) /\ job' = [job EXCEPT ![m].step = "token"]
      <3>1. fund'[t] = fund[t] + j.delta /\ tok'[t] = tok[t]
        BY <1>1, <2>1, <2>5 DEF JobFunding, Charge, AfterBilling, TInv, TypeOK, Job, NoJob
      <3>2. JobAt(t, "fund") /\ Working(t)' /\ ~JobAt(t, "fund")'
        BY <1>1, <1>3, <2>1, <2>5
           DEF JobFunding, JobAt, Working, OnlyJob, TInv, TypeOK, Job, NoJob
      <3>3. QED
        BY <2>1, <2>2, <2>3, <2>4, <3>1, <3>2 DEF LedgerAfter
    <2>6. CASE JobToken(m) /\ Charge(t, 0, j.delta)
      <3>1. fund'[t] = fund[t] /\ tok'[t] = tok[t] + j.delta
        BY <1>1, <2>6 DEF Charge, TInv, TypeOK
      <3>2. JobAt(t, "token") /\ job'[m] = NoJob
        BY <1>1, <2>1, <2>6 DEF JobToken, JobAt, TInv, TypeOK
      <3>3. \A step : ~JobAt(t, step)'
        BY <1>3, <2>1, <3>2 DEF JobAt, OnlyJob
      <3>4. QED
        BY <2>1, <2>2, <2>3, <2>4, <3>1, <3>2, <3>3 DEF LedgerAfter
    <2>7. CASE job'[m] = NoJob /\ t \in tainted' /\ UNCHANGED ledger
      <3>1. \A step : ~JobAt(t, step)'
        BY <1>3, <2>1, <2>7 DEF JobAt, OnlyJob
      <3>2. QED
        BY <2>2, <2>3, <2>7, <3>1 DEF LedgerAfter, ledger
    <2>8. QED
      <3>1. CASE CrashMaster(m)
        BY <1>1, <2>7, <3>1 DEF CrashMaster, TInv, TypeOK
      <3>2. CASE JobFunding(m)
        BY <1>1, <2>1, <2>5, <2>7, <3>2 DEF JobFunding, TInv, TypeOK
      <3>3. CASE JobToken(m)
        BY <1>1, <2>1, <2>6, <2>7, <3>3 DEF JobToken, TInv, TypeOK
      <3>4. QED
        BY <3>1, <3>2, <3>3
  <1>5. QED
    BY <1>3, <1>4, BooksElsewhere

\* Everything else leaves the money of CasTasks alone.
LEMMA OtherUntouched ==
    ASSUME TInv, TInv', OnceInv,
           \/ \E t \in Tasks : Age(t) \/ \E s \in Status : UpstreamStep(t, s)
           \/ \E c \in Channels : DeleteChannel(c)
           \/ \E r \in Readers : RealtimeApply(r) \/ \E t \in Tasks : RealtimeFetch(r, t)
           \/ \E m \in Masters :
                 \/ BeginSweep(m) \/ BeginPoll(m) \/ ApplySuno(m) \/ SaveSuno(m)
                 \/ \E c \in Channels : BulkFail(m, c)
                 \/ \E t \in Tasks : AskFails(m, t) \/ \E a \in Answer : Ask(m, t, a)
                 \/ CrashMaster(m) /\ job[m] = NoJob
           \/ UNCHANGED vars
    PROVE  Untouched
  <1>1. CASE \/ \E t \in Tasks : Age(t) \/ \E s \in Status : UpstreamStep(t, s)
             \/ \E c \in Channels : DeleteChannel(c)
             \/ UNCHANGED vars
    BY <1>1 DEF Age, UpstreamStep, DeleteChannel, vars, Untouched, MoneyStays, master, history
  <1>2. CASE \E m \in Masters :
                \/ BeginSweep(m) \/ BeginPoll(m)
                \/ \E t \in Tasks : AskFails(m, t) \/ \E a \in Answer : Ask(m, t, a)
    BY <1>2 DEF BeginSweep, BeginPoll, AskFails, Ask, Untouched, MoneyStays, history
  <1>3. CASE \E r \in Readers : RealtimeApply(r) \/ \E t \in Tasks : RealtimeFetch(r, t)
    <2>1. PICK r \in Readers : RealtimeApply(r) \/ \E t \in Tasks : RealtimeFetch(r, t)
      BY <1>3
    <2>2. MoneyStays /\ UNCHANGED <<job, bills>>
      BY <2>1 DEF RealtimeApply, RealtimeFetch, MoneyStays, master, history
    <2>3. \A t \in CasTasks : row'[t] = row[t]
      BY <2>1 DEF RealtimeApply, RealtimeFetch, TInv, TypeOK, Consistent, FetchesExist, CasTasks
    <2>4. \A t \in Tasks : row'[t] # NoRow <=> row[t] # NoRow
      <3>1. CASE RealtimeApply(r)
        <4>1. fetch[r] \in Fetch /\ Exists(fetch[r].task)
          BY <3>1 DEF RealtimeApply, TInv, TypeOK, Consistent, FetchesExist
        <4>2. WithStatus(fetch[r].copy, fetch[r].to) # NoRow
          BY <4>1, WithStatusType DEF Fetch
        <4>3. QED
          BY <3>1, <4>1, <4>2 DEF RealtimeApply, Exists, TInv, TypeOK
      <3>2. QED
        BY <2>1, <3>1 DEF RealtimeFetch
    <2>5. QED
      BY <2>2, <2>3, <2>4 DEF Untouched
  <1>4. ASSUME NEW m \in Masters, NEW c \in Channels, BulkFail(m, c) PROVE Untouched
    <2>1. c \in Deletable /\ MoneyStays /\ UNCHANGED <<job, bills>>
      BY <1>4 DEF BulkFail, MoneyStays, history, TInv, TypeOK
    <2>2. \A t \in CasTasks : row'[t] = row[t]
      BY <1>4, <2>1 DEF BulkFail, CasTasks
    <2>3. \A t \in Tasks : row'[t] # NoRow <=> row[t] # NoRow
      <3>1. \A t \in Tasks : t \in Listed(m) => row[t] # NoRow
        BY DEF Listed, TInv, Consistent, ViewsExist, Exists
      <3>2. \A t \in Tasks : row[t] # NoRow => WithStatus(row[t], "FAILURE") # NoRow
        BY RowType, WithStatusType DEF TInv, TypeOK, Status, Terminal
      <3>3. QED
        BY <1>4, <3>1, <3>2 DEF BulkFail
    <2>4. QED
      BY <2>1, <2>2, <2>3 DEF Untouched
  <1>5. ASSUME NEW m \in Masters, ApplySuno(m) PROVE Untouched
    <2> DEFINE t == answer[m].task
    <2>1. t \in Tasks /\ t \notin CasTasks /\ job[m] = NoJob
      BY <1>5 DEF ApplySuno, TInv, TypeOK, Consistent, AnswersListed, Answer, CasTasks
    <2>2. row' = row /\ MoneyStays
      BY <1>5 DEF ApplySuno, MoneyStays
    <2>3. \A u \in CasTasks : bills'[u] = bills[u]
      <3>1. \E j : j.task = t /\ (bills' = bills \/ bills' = [bills EXCEPT ![j.task] = @ + 1])
        BY <1>5 DEF ApplySuno, StartJob, Refund
      <3>2. QED
        BY <2>1, <3>1 DEF TInv, TypeOK, CasTasks
    <2>4. \E j : j.task = t /\ (job' = job \/ job' = [job EXCEPT ![m] = j])
      BY <1>5 DEF ApplySuno, StartJob, Refund
    <2>5. QED
      BY <2>1, <2>2, <2>3, <2>4 DEF Untouched, OnCas, TInv, TypeOK
  <1>6. ASSUME NEW m \in Masters, SaveSuno(m) PROVE Untouched
    <2> DEFINE t == job[m].task
    <2>1. job[m] \in Job /\ t \in Tasks /\ t \notin CasTasks /\ Exists(t)
          /\ job[m].save # NoRow
      BY <1>6 DEF SaveSuno, TInv, TypeOK, Consistent, JobsExist, Job, OnceInv, JobsFinal
    <2>2. MoneyStays /\ bills' = bills
      BY <1>6 DEF SaveSuno, MoneyStays, history
    <2>3. /\ \A u \in CasTasks : row'[u] = row[u]
          /\ \A u \in Tasks : row'[u] # NoRow <=> row[u] # NoRow
      BY <1>6, <2>1 DEF SaveSuno, TInv, TypeOK, Exists, CasTasks
    <2>4. \A n \in Masters : job'[n] = job[n] \/ (~OnCas(job[n]) /\ ~OnCas(job'[n]))
      BY <1>6, <2>1 DEF SaveSuno, OnCas, TInv, TypeOK
    <2>5. QED
      BY <2>2, <2>3, <2>4 DEF Untouched
  <1>7. ASSUME NEW m \in Masters, CrashMaster(m), job[m] = NoJob PROVE Untouched
    BY <1>7 DEF CrashMaster, Untouched, MoneyStays, TInv, TypeOK
  <1>8. QED
    BY <1>1, <1>2, <1>3, <1>4, <1>5, <1>6, <1>7

\* A step is a step of one request, of one job or of one swap, or it leaves the
\* money of CasTasks alone.
LEMMA StepKind ==
    ASSUME TInv, TInv', OnceInv, [Next]_vars
    PROVE  \/ \E t \in Tasks : RequestStep(t) \/ CrashRequest(t)
           \/ \E m \in Masters :
                 \/ \E t \in CasTasks, s \in Status : Win(m, t, s)
                 \/ JobFunding(m) \/ JobToken(m) \/ (CrashMaster(m) /\ job[m] # NoJob)
           \/ Untouched
  <1>1. ASSUME NEW m \in Masters, MasterStep(m)
        PROVE  \/ \E t \in CasTasks, s \in Status : Win(m, t, s)
               \/ JobFunding(m) \/ JobToken(m)
               \/ Untouched
    <2>1. CASE ApplyVideo(m) \/ \E t \in Tasks : SweepOne(m, t)
      BY <2>1, VideoKind, SweepKind DEF Stays
    <2>2. QED
      BY <1>1, <2>1, OtherUntouched DEF MasterStep
  <1>2. QED
    BY <1>1, OtherUntouched DEF Next

LEMMA BooksNext == TInv /\ TInv' /\ OnceInv /\ OnceInv' /\ BooksInv /\ [Next]_vars => BooksInv'
  BY StepKind, BooksRequest, BooksWin, BooksJob, BooksUntouched

-----------------------------------------------------------------------------
(* The results *)

\* The inductive invariant of the argument.
THEOREM BooksInvariant == Spec => []BooksInv
  <1>1. QED
    BY BooksInit, BooksNext, TypeCorrect, OnceInvariant, PTL DEF Spec

\* Whatever the masters do at once and wherever they crash, nobody gets back
\* more than was taken, a finished task has cost its final price, and a request
\* that ended without a task has cost nothing.
THEOREM BooksAreKept == Spec => []BooksKept
  <1>1. TInv /\ OnceInv /\ BooksInv => BooksKept
    <2> SUFFICES ASSUME TInv, OnceInv, BooksInv PROVE BooksKept
      OBVIOUS
    <2>1. NeverOverRefunded
      <3> SUFFICES ASSUME NEW t \in CasTasks \ unsettled
                   PROVE  tok[t] >= 0 /\ (fund[t] >= 0 \/ RefundedAgain(t))
        BY DEF NeverOverRefunded
      <3>1. t \in Tasks
        BY DEF CasTasks
      <3>2. CASE ~Exists(t)
        BY <3>1, <3>2 DEF BooksInv, BeforeRow, LedgerBefore
      <3>3. CASE Exists(t)
        BY <3>1, <3>3, Amounts DEF BooksInv, AfterRow, LedgerAfter
      <3>4. QED
        BY <3>2, <3>3
    <2>2. BooksBalance
      <3> SUFFICES ASSUME NEW t \in CasTasks, Closed(t)
                   PROVE  fund[t] = FinalPrice(t) /\ tok[t] = FinalPrice(t)
        BY DEF BooksBalance
      <3>1. /\ t \in Tasks /\ Exists(t) /\ row[t].status \in Terminal /\ ~Working(t)
            /\ t \notin tainted /\ t \notin unsettled /\ t \notin LegacyTasks
        BY DEF Closed, Finished, CasTasks
      <3>2. LedgerAfter(t) /\ row[t].quota \in Nat /\ Actual[t] \in Nat
        BY <3>1, Amounts DEF BooksInv, AfterRow
      <3>3. CASE bills[t] = 0
        BY <3>1, <3>2, <3>3 DEF BooksInv, JobsNeeded, NothingDue, LedgerAfter, FinalPrice
      <3>4. CASE bills[t] # 0
        BY <3>1, <3>2, <3>4
           DEF BooksInv, JobsNeeded, LedgerAfter, FullyBooked, DeltaOf, FinalPrice
      <3>5. QED
        BY <3>3, <3>4
    <2>3. RejectedCostsNothing
      BY DEF RejectedCostsNothing, BooksInv, BeforeRow, LedgerBefore
    <2>4. QED
      BY <2>1, <2>2, <2>3 DEF BooksKept
  <1>2. QED
    BY <1>1, BooksInvariant, OnceInvariant, TypeCorrect, PTL

-----------------------------------------------------------------------------
(* The promise of TaskPromise *)

LEMMA PromiseInit == Init => Promise!Init
  <1> SUFFICES ASSUME Init PROVE Promise!Init
    OBVIOUS
  <1>1. \A t \in CasTasks : /\ Outcome(t) = "new" /\ ~Exists(t) /\ fund[t] = 0
                            /\ Due(t) = FALSE
    BY DEF Init, Outcome, Exists, Due, CasTasks
  <1>2. QED
    BY <1>1 DEF Promise!Init

\* What the promise sees of a task.
PriceOf(t) == IF Exists(t) THEN row[t].quota ELSE 0
SeenSame(t) == /\ Outcome(t)' = Outcome(t)
               /\ PriceOf(t)' = PriceOf(t)
               /\ fund'[t] = fund[t]
               /\ Due(t)' = Due(t)

LEMMA SeenStays ==
    ASSUME \A t \in CasTasks : SeenSame(t)
    PROVE  UNCHANGED Promise!pvars
  <1>1. [t \in CasTasks |-> Due(t)]' = [t \in CasTasks |-> Due(t)]
    BY DEF SeenSame
  <1>2. [t \in CasTasks |-> Outcome(t)]' = [t \in CasTasks |-> Outcome(t)]
    BY DEF SeenSame
  <1>3. [t \in CasTasks |-> fund[t]]' = [t \in CasTasks |-> fund[t]]
    BY DEF SeenSame
  <1>4. [t \in CasTasks |-> PriceOf(t)]' = [t \in CasTasks |-> PriceOf(t)]
    BY DEF SeenSame
  <1>5. QED
    BY <1>1, <1>2, <1>3, <1>4 DEF Promise!pvars, PriceOf

LEMMA RowSame ==
    ASSUME NEW t \in Tasks, row'[t] = row[t]
    PROVE  Outcome(t)' = Outcome(t) /\ PriceOf(t)' = PriceOf(t)
  BY DEF Outcome, PriceOf, Exists, Finished

\* Each action of the promise, in terms of what is seen of the tasks.
LEMMA HoldSeen ==
    ASSUME NEW t \in CasTasks, Outcome(t) = "new",
           \A u \in CasTasks : Outcome(u)' = Outcome(u),
           \A u \in CasTasks : PriceOf(u)' = PriceOf(u),
           \A u \in CasTasks : Due(u)' = Due(u),
           \A u \in CasTasks : fund'[u] \in Int,
           \A u \in CasTasks : u # t => fund'[u] = fund[u]
    PROVE  Promise!Hold(t)
  <1>1. /\ [u \in CasTasks |-> Due(u)]' = [u \in CasTasks |-> Due(u)]
        /\ [u \in CasTasks |-> Outcome(u)]' = [u \in CasTasks |-> Outcome(u)]
        /\ [u \in CasTasks |-> PriceOf(u)]' = [u \in CasTasks |-> PriceOf(u)]
    OBVIOUS
  <1>2. QED
    BY <1>1 DEF Promise!Hold, PriceOf

LEMMA StartSeen ==
    ASSUME NEW t \in CasTasks, Outcome(t) = "new", Outcome(t)' = "running",
           PriceOf(t)' \in Quotas,
           \A u \in CasTasks : u # t => Outcome(u)' = Outcome(u),
           \A u \in CasTasks : u # t => PriceOf(u)' = PriceOf(u),
           \A u \in CasTasks : Due(u)' = Due(u),
           \A u \in CasTasks : fund'[u] = fund[u]
    PROVE  Promise!Start(t)
  <1>1. /\ [u \in CasTasks |-> Due(u)]' = [u \in CasTasks |-> Due(u)]
        /\ [u \in CasTasks |-> fund[u]]' = [u \in CasTasks |-> fund[u]]
    OBVIOUS
  <1>2. [u \in CasTasks |-> Outcome(u)]'
           = [[u \in CasTasks |-> Outcome(u)] EXCEPT ![t] = "running"]
    OBVIOUS
  <1>3. [u \in CasTasks |-> PriceOf(u)]'
           = [[u \in CasTasks |-> PriceOf(u)] EXCEPT ![t] = PriceOf(t)']
    OBVIOUS
  <1>4. QED
    BY <1>1, <1>2, <1>3 DEF Promise!Start, PriceOf

LEMMA EndSeen ==
    ASSUME NEW t \in CasTasks, Outcome(t) = "running",
           Outcome(t)' \in {"SUCCESS", "FAILURE"},
           \A u \in CasTasks : PriceOf(u)' = PriceOf(u),
           \A u \in CasTasks : fund'[u] = fund[u],
           \A u \in CasTasks : u # t => Outcome(u)' = Outcome(u),
           \A u \in CasTasks : u # t => Due(u)' = Due(u)
    PROVE  Promise!End(t)
  <1>1. /\ [u \in CasTasks |-> PriceOf(u)]' = [u \in CasTasks |-> PriceOf(u)]
        /\ [u \in CasTasks |-> fund[u]]' = [u \in CasTasks |-> fund[u]]
    OBVIOUS
  <1>2. [u \in CasTasks |-> Outcome(u)]'
           = [[u \in CasTasks |-> Outcome(u)] EXCEPT ![t] = Outcome(t)']
    OBVIOUS
  <1>3. Due(t)' \in BOOLEAN
    BY DEF Due
  <1>4. [u \in CasTasks |-> Due(u)]'
           = [[u \in CasTasks |-> Due(u)] EXCEPT ![t] = Due(t)']
    OBVIOUS
  <1>5. QED
    BY <1>1, <1>2, <1>3, <1>4 DEF Promise!End, PriceOf

\* Both ends of what is due: booked, or forgotten.
LEMMA DueSeen ==
    ASSUME NEW t \in CasTasks, Exists(t), Due(t) = TRUE, Due(t)' = FALSE,
           row[t].status \in Terminal, fund[t] \in Int, fund' \in [Tasks -> Int],
           fund'[t] = fund[t] + DeltaOf(t) \/ fund'[t] = fund[t],
           \A u \in CasTasks : Outcome(u)' = Outcome(u),
           \A u \in CasTasks : PriceOf(u)' = PriceOf(u),
           \A u \in CasTasks : u # t => fund'[u] = fund[u],
           \A u \in CasTasks : u # t => Due(u)' = Due(u)
    PROVE  Promise!Book(t) \/ Promise!Forget(t)
  <1>1. /\ [u \in CasTasks |-> PriceOf(u)]' = [u \in CasTasks |-> PriceOf(u)]
        /\ [u \in CasTasks |-> Outcome(u)]' = [u \in CasTasks |-> Outcome(u)]
    OBVIOUS
  <1>2. [u \in CasTasks |-> Due(u)]' = [[u \in CasTasks |-> Due(u)] EXCEPT ![t] = FALSE]
    OBVIOUS
  <1>3. [u \in CasTasks |-> fund[u]]'
           = [[u \in CasTasks |-> fund[u]] EXCEPT ![t] = fund'[t]]
    OBVIOUS
  <1>4. Promise!Difference(t) = DeltaOf(t)
    BY DEF Promise!Difference, DeltaOf, Outcome, Finished
  <1>5. CASE fund'[t] = fund[t] + DeltaOf(t)
    BY <1>1, <1>2, <1>3, <1>4, <1>5 DEF Promise!Book, PriceOf
  <1>6. CASE fund'[t] = fund[t]
    <2>1. [u \in CasTasks |-> fund[u]]' = [u \in CasTasks |-> fund[u]]
      BY <1>6
    <2>2. QED
      BY <1>1, <1>2, <2>1 DEF Promise!Forget, PriceOf
  <1>7. QED
    BY <1>5, <1>6

\* What is due only depends on who holds which job.
LEMMA DueSame ==
    ASSUME NEW t \in CasTasks,
           \A m \in Masters : job'[m] = job[m] \/ (~OnCas(job[m]) /\ ~OnCas(job'[m]))
    PROVE  Due(t)' = Due(t)
  BY DEF Due, OnCas

LEMMA PromiseUntouched ==
    ASSUME Untouched
    PROVE  UNCHANGED Promise!pvars
  <1>1. ASSUME NEW t \in CasTasks PROVE SeenSame(t)
    BY <1>1, RowSame, DueSame DEF Untouched, MoneyStays, ledger, SeenSame, CasTasks
  <1>2. QED
    BY <1>1, SeenStays

\* The request holds, corrects and returns money, and starts the task.
LEMMA PromiseRequest ==
    ASSUME TInv, TInv', NEW t \in Tasks, RequestStep(t) \/ CrashRequest(t)
    PROVE  [Promise!PNext]_(Promise!pvars)
  <1>1. OnlyRequest(t) /\ ~Exists(t)
    BY RequestAlone
  <1>2. \A u \in CasTasks : Due(u)' = Due(u)
    BY <1>1, DueSame DEF OnlyRequest
  <1>3. \A u \in CasTasks : u # t => Outcome(u)' = Outcome(u)
    BY <1>1, RowSame DEF OnlyRequest, CasTasks
  <1>4. \A u \in CasTasks : u # t => PriceOf(u)' = PriceOf(u)
    BY <1>1, RowSame DEF OnlyRequest, CasTasks
  <1>5. \A u \in CasTasks : u # t => fund'[u] = fund[u]
    BY <1>1 DEF OnlyRequest, CasTasks
  <1>6. Outcome(t) = "new"
    BY <1>1 DEF Outcome
  <1>7. CASE t \notin CasTasks
    BY <1>2, <1>3, <1>4, <1>5, <1>7, SeenStays DEF SeenSame
  <1>8. CASE t \in CasTasks /\ row'[t] = row[t]
    <2>1. /\ \A u \in CasTasks : Outcome(u)' = Outcome(u)
          /\ \A u \in CasTasks : PriceOf(u)' = PriceOf(u)
      BY <1>3, <1>4, <1>8, RowSame
    <2>2. \A u \in CasTasks : fund'[u] \in Int
      BY DEF TInv, TypeOK, CasTasks
    <2>3. Promise!Hold(t)
      BY <1>2, <1>5, <1>6, <1>8, <2>1, <2>2, HoldSeen
    <2>4. QED
      BY <1>8, <2>3 DEF Promise!PNext
  <1>9. CASE t \in CasTasks /\ row'[t] # row[t]
    <2>1. Insert(t) /\ row'[t] = NewRow(t)
      BY <1>9 DEF RequestStep, PreConsume, Insufficient, Accept, GiveUp, Release, Settle,
                  Insert, CrashRequest, TInv, TypeOK
    <2>2. quote[t] \in Quotas /\ fund' = fund
      BY <2>1 DEF Insert, TInv, Consistent, AcceptedSeen, ledger
    <2>3. Outcome(t)' = "running" /\ PriceOf(t)' \in Quotas
      BY <2>1, <2>2, NewRowExists
         DEF Outcome, PriceOf, Exists, Finished, NewRow, Terminal
    <2>4. Promise!Start(t)
      BY <1>2, <1>3, <1>4, <1>6, <1>9, <2>2, <2>3, StartSeen
    <2>5. QED
      BY <1>9, <2>4 DEF Promise!PNext
  <1>10. QED
    BY <1>7, <1>8, <1>9

\* The swap that ends a task is the end the promise speaks of.
LEMMA PromiseWin ==
    ASSUME TInv, TInv', NEW m \in Masters, NEW t \in CasTasks, NEW s \in Status, Win(m, t, s)
    PROVE  [Promise!PNext]_(Promise!pvars)
  <1>1. PICK r \in Row : r.status = s /\ r.quota = row[t].quota
                         /\ row' = [row EXCEPT ![t] = r]
    BY DEF Win
  <1>2. /\ t \in Tasks /\ row'[t] = r /\ r # NoRow
        /\ \A u \in Tasks : u # t => row'[u] = row[u]
    BY <1>1, RowType DEF TInv, TypeOK, CasTasks
  <1>3. Exists(t) /\ row[t].status \notin Terminal
    BY DEF Win, Exists, Running, Terminal, NoRow
  <1>4. Outcome(t) = "running" /\ Outcome(t)' = IF s \in Terminal THEN s ELSE "running"
    BY <1>1, <1>2, <1>3 DEF Outcome, Exists, Finished
  <1>5. \A u \in CasTasks : PriceOf(u)' = PriceOf(u)
    <2>1. PriceOf(t)' = PriceOf(t)
      BY <1>1, <1>2, <1>3 DEF PriceOf, Exists
    <2>2. QED
      BY <1>2, <2>1, RowSame DEF CasTasks
  <1>6. \A u \in CasTasks : u # t => Outcome(u)' = Outcome(u)
    BY <1>2, RowSame DEF CasTasks
  <1>7. \A u \in CasTasks : fund'[u] = fund[u]
    BY DEF Win, MoneyStays, ledger
  <1>8. \A u \in CasTasks : u # t => Due(u)' = Due(u)
    <2>1. \A n \in Masters : job'[n] = job[n] \/ (job[n] = NoJob /\ job'[n].task = t)
      BY DEF Win, TInv, TypeOK
    <2>2. QED
      BY <2>1 DEF Due
  <1>9. CASE s \in Terminal
    <2>1. Outcome(t)' \in {"SUCCESS", "FAILURE"}
      BY <1>4, <1>9 DEF Terminal
    <2>2. Promise!End(t)
      BY <1>4, <1>5, <1>6, <1>7, <1>8, <2>1, EndSeen
    <2>3. QED
      BY <2>2 DEF Promise!PNext
  <1>10. CASE s \notin Terminal
    <2>1. job' = job
      BY <1>10 DEF Win
    <2>2. Due(t)' = Due(t)
      BY <2>1, DueSame
    <2>3. Outcome(t)' = Outcome(t)
      BY <1>4, <1>10
    <2>4. QED
      BY <1>5, <1>6, <1>7, <1>8, <2>2, <2>3, SeenStays DEF SeenSame
  <1>11. QED
    BY <1>9, <1>10

\* A job books what is due or forgets it; its token half is not the promise's.
LEMMA PromiseJob ==
    ASSUME TInv, TInv', OnceInv, NEW m \in Masters,
           JobFunding(m) \/ JobToken(m) \/ (CrashMaster(m) /\ job[m] # NoJob)
    PROVE  [Promise!PNext]_(Promise!pvars)
  <1> DEFINE j == job[m]
  <1>1. PICK t \in Tasks : /\ j # NoJob /\ j \in Job /\ j.task = t /\ Exists(t)
                           /\ j.delta \in Int
    BY DEF JobFunding, JobToken, TInv, TypeOK, Consistent, JobsExist, Job
  <1>2. OnlyJob(m, t)
    BY <1>1, JobAlone
  <1>3. /\ \A u \in CasTasks : Outcome(u)' = Outcome(u)
        /\ \A u \in CasTasks : PriceOf(u)' = PriceOf(u)
    BY <1>2, RowSame DEF OnlyJob, CasTasks
  <1>4. \A u \in CasTasks : u # t => fund'[u] = fund[u]
    BY <1>2 DEF OnlyJob, CasTasks
  <1>5. \A u \in CasTasks : u # t => Due(u)' = Due(u)
    BY <1>2 DEF OnlyJob, Due
  <1>6. CASE t \notin CasTasks
    BY <1>3, <1>4, <1>5, <1>6, SeenStays DEF SeenSame
  <1>7. CASE t \in CasTasks
    <2>1. /\ row[t].status \in Terminal /\ j.step \in {"fund", "token"}
          /\ AfterBilling(j) = NoJob /\ j.delta = DeltaOf(t)
          /\ \A n \in Masters : n # m /\ job[n] # NoJob => job[n].task # t
      BY <1>1, <1>7 DEF OnceInv, JobsFinal, OneWorker, AfterBilling
    <2>2. fund \in [Tasks -> Int] /\ fund' \in [Tasks -> Int]
      BY DEF TInv, TypeOK
    <2>3. fund'[t] = fund[t] \/ (j.step = "fund" /\ fund'[t] = fund[t] + DeltaOf(t))
      BY <1>1, <2>1, <2>2 DEF JobFunding, JobToken, CrashMaster, Charge, ledger
    <2>4. job'[m] = NoJob \/ job'[m].step = "token"
      <3>1. job'[m] = NoJob \/ job'[m] = [j EXCEPT !.step = "token"]
        BY <1>1, <2>1 DEF JobFunding, JobToken, CrashMaster, TInv, TypeOK
      <3>2. QED
        BY <1>1, <3>1 DEF Job
    <2>5. Due(t)' = FALSE
      BY <1>2, <2>1, <2>4 DEF Due, OnlyJob
    <2>6. CASE j.step = "fund"
      <3>1. Due(t) = TRUE
        BY <1>1, <2>6 DEF Due
      <3>2. Promise!Book(t) \/ Promise!Forget(t)
        BY <1>1, <1>3, <1>4, <1>5, <1>7, <2>1, <2>2, <2>3, <2>5, <3>1, DueSeen
      <3>3. QED
        BY <1>7, <3>2 DEF Promise!PNext
    <2>7. CASE j.step = "token"
      <3>1. Due(t) = FALSE
        BY <1>1, <2>1, <2>7 DEF Due
      <3>2. fund'[t] = fund[t]
        BY <2>3, <2>7
      <3>3. QED
        BY <1>3, <1>4, <1>5, <2>5, <3>1, <3>2, SeenStays DEF SeenSame
    <2>8. QED
      BY <2>1, <2>6, <2>7
  <1>8. QED
    BY <1>6, <1>7

LEMMA PromiseStep ==
    TInv /\ TInv' /\ OnceInv /\ [Next]_vars => [Promise!PNext]_(Promise!pvars)
  BY StepKind, PromiseRequest, PromiseWin, PromiseJob, PromiseUntouched

\* Refinement: seen task by task, sweepers, pollers, crashes, faults and requests
\* do to the money only what TaskPromise allows.
THEOREM PromiseKept == Spec => KeepsPromise
  <1>1. QED
    BY PromiseInit, PromiseStep, TypeCorrect, OnceInvariant, PTL
       DEF Spec, KeepsPromise, Promise!PSpec

-----------------------------------------------------------------------------
(* Why a failed Suno task is given back exactly what was held for it.      *)
(* updateSunoTasks refunds before it saves and compares nothing, so this   *)
(* needs what the compare-and-swap gives the others: one master, which     *)
(* does not fail between the two.  Nor may anybody else write the row.     *)

\* One master polls, and neither the database nor a process ever fails.
OneHealthyMaster == MaxFaults = 0 /\ \A m, n \in Masters : m = n

\* A Suno task is on a channel of its own kind that is not deleted, and is paid from
\* a wallet, which never refuses the settlement of the request.
SunoAlone ==
    \A t \in SunoTasks : /\ t \notin RealtimeTasks /\ t \notin SubTasks
                         /\ ChannelOf[t] \notin Deletable

\* The job of m is on t.
On(m, t) == job[m] # NoJob /\ job[m].task = t

\* What a master has listed and not yet handled is as the table has it: running,
\* paid for, and nobody's work.
SunoListed(t) ==
    \A m \in Masters : view[m][t] # NoRow =>
        /\ view[m][t] = row[t] /\ row[t].status \in Running /\ ~row[t].full
        /\ fund[t] = row[t].quota
        /\ ~On(m, t)

\* A refund gives back the price once: after the sweep the row has failed already,
\* in the poll the Save that ends the job takes the task off the lists.
SunoJob(j, t) ==
    /\ j.step = "fund" => fund[t] = row[t].quota /\ j.delta = -row[t].quota
    /\ j.step = "token" => fund[t] = 0
    /\ j.save = NoRow => row[t].status = "FAILURE"
    /\ j.save # NoRow =>
           /\ j.save.quota = row[t].quota
           /\ j.step # "save" => j.save.full
           /\ j.step = "save" => /\ ~j.save.full => fund[t] = row[t].quota
                                 /\ j.save.status = "FAILURE" => fund[t] = 0
SunoWork(t) == \A m \in Masters : On(m, t) => SunoJob(job[m], t)

\* A task nobody works on is on the lists with its price paid, or has failed and
\* has nothing left to give back.
SunoRest(t) ==
    ~Working(t) =>
        /\ row[t].status = "FAILURE" /\ t \notin LegacyTasks => fund[t] = 0
        /\ row[t].status \in Running /\ ~row[t].full => fund[t] = row[t].quota

SunoBooks(t) == /\ fund[t] = 0 \/ fund[t] = row[t].quota
                /\ SunoListed(t) /\ SunoWork(t) /\ SunoRest(t)
SunoOK(t) == t \notin unsettled /\ (Exists(t) => SunoBooks(t))
SunoInv == \A t \in SunoTasks : SunoOK(t)

-----------------------------------------------------------------------------
(* Lemmas *)

LEMMA SunoInit == Init => SunoInv
  BY KindsAssumption DEF Init, SunoInv, SunoOK, Exists

\* Without faults nothing of the model fails.
LEMMA NoFaults ==
    ASSUME TInv, MaxFaults = 0
    PROVE  ~Fault
  BY DEF TInv, TypeOK, Fault

\* A step that leaves the row, the money and the work of t alone.
Aside(t) ==
    /\ row'[t] = row[t] /\ fund'[t] = fund[t]
    /\ t \in unsettled' => t \in unsettled
    /\ \A m \in Masters : view'[m][t] = view[m][t] \/ view'[m][t] = NoRow
    /\ \A m \in Masters : job'[m] = job[m] \/ (~On(m, t) /\ ~On(m, t)')

LEMMA SunoAside ==
    ASSUME NEW t \in Tasks, SunoOK(t), Aside(t)
    PROVE  SunoOK(t)'
  <1>1. \A m \in Masters : /\ On(m, t)' <=> On(m, t)
                           /\ On(m, t) => job'[m] = job[m]
    BY DEF Aside, On
  <1>2. Working(t)' <=> Working(t)
    BY <1>1 DEF Working, On
  <1>3. SUFFICES ASSUME Exists(t)' PROVE SunoBooks(t)'
    BY DEF SunoOK, Aside
  <1>4. SunoBooks(t)
    BY <1>3 DEF SunoOK, Aside, Exists
  <1>5. SunoListed(t)'
    BY <1>1, <1>4 DEF SunoBooks, SunoListed, Aside
  <1>6. SunoWork(t)'
    BY <1>1, <1>4 DEF SunoBooks, SunoWork, SunoJob, Aside
  <1>7. SunoRest(t)'
    BY <1>2, <1>4 DEF SunoBooks, SunoRest, Aside
  <1>8. QED
    BY <1>4, <1>5, <1>6, <1>7 DEF SunoBooks, Aside

\* A task that has no row yet is listed and worked on by nobody.
LEMMA NobodyYet ==
    ASSUME TInv, NEW t \in Tasks, ~Exists(t)
    PROVE  /\ \A m \in Masters : view[m][t] = NoRow /\ ~On(m, t)
           /\ ~Working(t)
  BY DEF TInv, Consistent, ViewsExist, JobsExist, On, Working

\* Done handles the tasks of S and no others.
LEMMA DoneHandles ==
    ASSUME TInv, NEW m \in Masters, NEW S, view' = Done(m, S)
    PROVE  \A n \in Masters, t \in Tasks : view'[n][t] = view[n][t] \/ view'[n][t] = NoRow
  BY DoneType DEF TInv, TypeOK

-----------------------------------------------------------------------------
(* The steps *)

\* The request: a Suno task gets its row with its price paid.
LEMMA SunoRequest ==
    ASSUME TInv, BooksInv, MaxFaults = 0, SunoAlone, NEW t \in SunoTasks, SunoOK(t),
           NEW u \in Tasks, RequestStep(u) \/ CrashRequest(u)
    PROVE  SunoOK(t)'
  <1>1. OnlyRequest(u) /\ submit[u] # "closed" /\ ~Exists(u)
    BY RequestAlone
  <1>2. t \in Tasks
    BY KindsAssumption
  <1>3. UNCHANGED <<view, job>>
    BY DEF RequestStep, PreConsume, Accept, Insufficient, GiveUp, Release, Settle,
           Insert, CrashRequest, master
  <1>4. CASE t # u
    <2>1. Aside(t)
      BY <1>1, <1>2, <1>3, <1>4 DEF Aside, OnlyRequest, On
    <2> QED
      BY <1>2, <2>1, SunoAside
  <1>5. CASE t = u
    <2>1. ~Fault
      BY NoFaults
    <2>2. t \notin unsettled'
      <3>1. CASE Settle(t)
        BY <1>5, <2>1, <3>1 DEF Settle, Refusable, SunoAlone, SunoOK
      <3>2. CASE ~Settle(t)
        BY <1>5, <3>2 DEF RequestStep, PreConsume, Accept, Insufficient, GiveUp, Release,
           Insert, CrashRequest, SunoOK, history
      <3> QED
        BY <3>1, <3>2
    <2>3. SUFFICES ASSUME Exists(t)' PROVE SunoBooks(t)'
      BY <2>2 DEF SunoOK
    <2>4. Insert(t) /\ row' = [row EXCEPT ![t] = NewRow(t)]
      BY <1>1, <1>5, <2>3 DEF RequestStep, PreConsume, Insufficient, Accept, GiveUp, Release,
                        Settle, Insert, CrashRequest, Exists
    <2>5. row'[t] = NewRow(t) /\ fund'[t] = quote[t]
      BY <1>1, <1>2, <1>5, <2>4 DEF Insert, TInv, TypeOK, ledger, BooksInv, BeforeRow,
            LedgerBefore, SunoOK
    <2>6. fund'[t] = row'[t].quota /\ row'[t].status = "NOT_START"
      BY <2>5 DEF NewRow
    <2>7. /\ \A m \in Masters : view'[m][t] = NoRow /\ ~On(m, t)'
          /\ ~Working(t)'
      BY <1>1, <1>2, <1>3, <1>5, NobodyYet DEF On, Working
    <2> QED
      BY <2>6, <2>7 DEF SunoBooks, SunoListed, SunoWork, SunoRest
  <1> QED
    BY <1>4, <1>5

\* The clock, the provider, the administrator and the readers.
LEMMA SunoOutside ==
    ASSUME TInv, SunoAlone, NEW t \in SunoTasks, SunoOK(t),
           \/ \E u \in Tasks : Age(u) \/ \E s \in Status : UpstreamStep(u, s)
           \/ \E c \in Channels : DeleteChannel(c)
           \/ \E r \in Readers : RealtimeApply(r) \/ \E u \in Tasks : RealtimeFetch(r, u)
           \/ UNCHANGED vars
    PROVE  SunoOK(t)'
  <1>1. t \in Tasks /\ t \notin RealtimeTasks
    BY KindsAssumption DEF SunoAlone
  <1>2. UNCHANGED <<fund, view, job, unsettled>>
    BY DEF Age, UpstreamStep, DeleteChannel, RealtimeApply, RealtimeFetch, vars, ledger,
           master, history
  <1>3. row'[t] = row[t]
    <2>1. CASE row' = row
      BY <2>1
    <2>2. ASSUME NEW r \in Readers, RealtimeApply(r) PROVE row'[t] = row[t]
      BY <1>1, <2>2 DEF RealtimeApply, TInv, TypeOK, Consistent, FetchesExist
    <2> QED
      BY <2>1, <2>2 DEF Age, UpstreamStep, DeleteChannel, RealtimeFetch, vars
  <1>4. Aside(t)
    BY <1>2, <1>3 DEF Aside, On
  <1> QED
    BY <1>1, <1>4, SunoAside

\* The one master has nothing to do when it makes a list.
LEMMA SunoList ==
    ASSUME TInv, OneHealthyMaster, NEW t \in SunoTasks, SunoOK(t),
           NEW m \in Masters, BeginSweep(m) \/ BeginPoll(m)
    PROVE  SunoOK(t)'
  <1>1. t \in Tasks
    BY KindsAssumption
  <1>2. PICK S \in SUBSET Unfinished :
           view' = [view EXCEPT ![m] = Copies(S)] \/ view' = [view EXCEPT ![m] = NoView]
           \/ view' = view
    BY DEF BeginSweep, BeginPoll, Page
  <1>3. UNCHANGED <<row, fund, job, unsettled>> /\ Listed(m) = {} /\ job[m] = NoJob
    BY DEF BeginSweep, BeginPoll, ledger, history, Quiet
  <1>4. \A n \in Masters : job[n] = NoJob
    BY <1>3 DEF OneHealthyMaster
  <1>5. ~Working(t) /\ \A n \in Masters : ~On(n, t) /\ ~On(n, t)'
    BY <1>3, <1>4 DEF Working, On
  <1>6. \A n \in Masters :
          \/ view'[n][t] = view[n][t] \/ view'[n][t] = NoRow
          \/ t \in Unfinished /\ view'[n][t] = row[t]
    BY <1>1, <1>2, CopiesType DEF TInv, TypeOK, NoView
  <1>7. SUFFICES ASSUME Exists(t) PROVE SunoBooks(t)'
    BY <1>3 DEF SunoOK, Exists
  <1>8. SunoBooks(t)
    BY <1>7 DEF SunoOK
  <1>9. t \in Unfinished => row[t].status \in Running /\ ~row[t].full /\ fund[t] = row[t].quota
    <2>1. t \in Unfinished => row[t].status \in Running /\ ~row[t].full
      BY <1>1, StatusType DEF Unfinished, Finished, Status, Exists, TInv
    <2> QED
      BY <1>5, <1>8, <2>1 DEF SunoBooks, SunoRest
  <1>10. SunoListed(t)'
    BY <1>3, <1>5, <1>6, <1>8, <1>9 DEF SunoBooks, SunoListed
  <1>11. SunoWork(t)' /\ SunoRest(t)'
    BY <1>3, <1>5, <1>8 DEF SunoBooks, SunoWork, SunoRest, Working
  <1> QED
    BY <1>3, <1>8, <1>10, <1>11 DEF SunoBooks

\* What is left of the views when one task of one master is done.
LEMMA DoneOne ==
    ASSUME TInv, NEW m \in Masters, NEW t \in Tasks, view' = Done(m, {t})
    PROVE  \A n \in Masters, u \in Tasks :
              view'[n][u] = IF n = m /\ u = t THEN NoRow ELSE view[n][u]
  BY DoneType DEF TInv, TypeOK

\* The refund that follows the one master's sweep.
LEMMA SunoSweep ==
    ASSUME TInv, OneHealthyMaster, NEW t \in SunoTasks, SunoOK(t),
           NEW m \in Masters, NEW u \in Tasks, SweepOne(m, u)
    PROVE  SunoOK(t)'
  <1> DEFINE seen == view[m][u]
             won  == Won(m, u)
             new  == WithStatus(seen, "FAILURE")
             pays == SweepRefunds(u, seen)
             j    == Refund(u, seen)
  <1>1. t \in Tasks
    BY KindsAssumption
  <1>2. seen \in Row /\ Exists(u) /\ job[m] = NoJob /\ seen # NoRow
    BY RowType DEF SweepOne, Quiet, Listed, TInv, TypeOK, Consistent, ViewsExist
  <1>3. /\ new \in Row /\ new # NoRow /\ new.status = "FAILURE" /\ new.quota = seen.quota
    BY <1>2, WithStatusType DEF Status, Terminal
  <1>4. /\ j \in Job /\ j # NoJob /\ j.task = u
        /\ j.step = "fund" /\ j.save = NoRow /\ j.delta = -seen.quota
    BY <1>2, JobType DEF Refund
  <1>5. \A n \in Masters, x \in Tasks :
            view'[n][x] = IF n = m /\ x = u THEN NoRow ELSE view[n][x]
    BY DoneOne DEF SweepOne
  <1>6. ~Fault
    BY NoFaults DEF OneHealthyMaster
  <1>7. UNCHANGED <<fund, unsettled>>
    BY DEF SweepOne, ledger
  <1>8. \/ won /\ row' = [row EXCEPT ![u] = new]
           /\ \/ ~pays /\ job' = job
              \/ pays /\ job' = [job EXCEPT ![m] = j]
        \/ row' = row /\ job' = job
    BY <1>6 DEF SweepOne, StartJob
  <1>9. CASE t # u \/ (row' = row /\ job' = job)
    <2>1. \A n \in Masters : job'[n] = job[n] \/ (~On(n, t) /\ ~On(n, t)')
      BY <1>2, <1>4, <1>8, <1>9 DEF On, TInv, TypeOK
    <2>2. row'[t] = row[t]
      BY <1>1, <1>8, <1>9 DEF TInv, TypeOK
    <2>3. Aside(t)
      BY <1>1, <1>5, <1>7, <2>1, <2>2 DEF Aside
    <2> QED
      BY <1>1, <2>3, SunoAside
  <1>10. CASE t = u /\ ~(row' = row /\ job' = job)
    <2>0. /\ row' = [row EXCEPT ![u] = new]
          /\ \/ ~pays /\ job' = job
             \/ pays /\ job' = [job EXCEPT ![m] = j]
      BY <1>8, <1>10
    <2>1. SunoBooks(t)
      BY <1>2, <1>10 DEF SunoOK
    <2>2. row[t] = seen /\ fund[t] = seen.quota /\ seen.quota \in Nat
      BY <1>2, <1>10, <2>1 DEF SunoBooks, SunoListed, Row
    <2>3. row'[t] = new /\ fund'[t] = fund[t]
      BY <1>1, <1>7, <1>10, <2>0 DEF TInv, TypeOK
    <2>4. \A n \in Masters : n = m
      BY DEF OneHealthyMaster
    <2>5. SunoListed(t)'
      BY <1>5, <1>10, <2>4 DEF SunoListed
    <2>6. SunoWork(t)'
      <3>1. CASE job' = job
        BY <1>2, <2>4, <3>1 DEF SunoWork, On
      <3>2. CASE job' = [job EXCEPT ![m] = j]
        <4>1. job'[m] = j
          BY <3>2 DEF TInv, TypeOK
        <4>2. PICK k : k = j
          OBVIOUS
        <4>3. SunoJob(k, t)'
          BY <1>3, <1>4, <2>2, <2>3, <4>2 DEF SunoJob
        <4>4. \A n \in Masters : job'[n] = k
          BY <2>4, <4>1, <4>2
        <4> QED
          BY <4>3, <4>4 DEF SunoWork, SunoJob
      <3> QED
        BY <2>0, <3>1, <3>2
    <2>7. SunoRest(t)'
      <3>1. CASE ~pays
        <4>1. t \in LegacyTasks \/ fund'[t] = 0
          BY <1>10, <2>0, <2>2, <2>3, <3>1 DEF SweepRefunds
        <4> QED
          BY <1>3, <2>3, <4>1 DEF SunoRest, Running
      <3>2. CASE pays
        <4>1. job'[m] = j
          BY <2>0, <3>2 DEF TInv, TypeOK
        <4>2. Working(t)'
          BY <1>4, <1>10, <4>1 DEF Working
        <4> QED
          BY <4>2 DEF SunoRest
      <3> QED
        BY <3>1, <3>2
    <2>8. fund'[t] = row'[t].quota /\ t \notin unsettled'
      BY <1>3, <1>7, <2>2, <2>3 DEF SunoOK
    <2>9. SunoBooks(t)'
      BY <2>5, <2>6, <2>7, <2>8, Zenon DEF SunoBooks
    <2> QED
      BY <2>8, <2>9, Zenon DEF SunoOK
  <1> QED
    BY <1>9, <1>10

\* The poll of a task that stays as it is, or of another kind of task.
SunoPolls(m) ==
    \/ \E c \in Channels : BulkFail(m, c)
    \/ ApplyVideo(m)
    \/ \E u \in Tasks : AskFails(m, u) \/ \E a \in Answer : Ask(m, u, a)

LEMMA SunoPoll ==
    ASSUME TInv, SunoAlone, NEW t \in SunoTasks, SunoOK(t),
           NEW m \in Masters, SunoPolls(m)
    PROVE  SunoOK(t)'
  <1>1. t \in Tasks /\ ChannelOf[t] \notin Deletable
    BY KindsAssumption DEF SunoAlone
  <1>2. UNCHANGED <<fund, unsettled>>
    BY DEF SunoPolls, BulkFail, ApplyVideo, AskFails, Ask, ledger, history
  <1>3. \A n \in Masters : view'[n][t] = view[n][t] \/ view'[n][t] = NoRow
    BY <1>1, DoneHandles DEF SunoPolls, BulkFail, ApplyVideo, AskFails, Ask
  <1>4. row'[t] = row[t] /\ \A n \in Masters : job'[n] = job[n] \/ (~On(n, t) /\ ~On(n, t)')
    <2>1. ASSUME NEW c \in Channels, BulkFail(m, c)
          PROVE  row'[t] = row[t] /\ job' = job
      BY <1>1, <2>1 DEF BulkFail, TInv, TypeOK
    <2>2. CASE ApplyVideo(m)
      <3> DEFINE u == answer[m].task
                 seen == view[m][u]
      <3>1. u \in Tasks /\ u # t /\ job[m] = NoJob /\ seen \in Row
        BY <2>2, RowType DEF ApplyVideo, TInv, TypeOK, Consistent, AnswersListed, Answer
      <3>2. row'[t] = row[t]
        BY <1>1, <2>2, <3>1 DEF ApplyVideo, TInv, TypeOK
      <3>3. Refund(u, seen).task = u /\ Adjust(u, seen).task = u
        BY DEF Refund, Adjust
      <3>4. \/ job' = job
            \/ \E k \in {Refund(u, seen), Adjust(u, seen)} : job' = [job EXCEPT ![m] = k]
        BY <2>2 DEF ApplyVideo, StartJob
      <3>5. \A n \in Masters : job'[n] = job[n] \/ (~On(n, t) /\ ~On(n, t)')
        BY <3>1, <3>3, <3>4 DEF On, TInv, TypeOK
      <3> QED
        BY <3>2, <3>5
    <2>3. CASE \E u \in Tasks : AskFails(m, u) \/ \E a \in Answer : Ask(m, u, a)
      BY <2>3 DEF AskFails, Ask
    <2> QED
      BY <2>1, <2>2, <2>3 DEF SunoPolls
  <1>5. Aside(t)
    BY <1>2, <1>3, <1>4 DEF Aside
  <1> QED
    BY <1>1, <1>5, SunoAside

\* The row updateSunoTasks writes has the price of the one it read, and is off the
\* lists whenever a refund was due.
LEMMA SunoRowType ==
    ASSUME NEW r \in Row, NEW a \in Answer
    PROVE  /\ SunoRow(r, a) \in Row /\ SunoRow(r, a) # NoRow
           /\ SunoRow(r, a).quota = r.quota /\ SunoRow(r, a).status = a.status
           /\ SunoRow(r, a).full <=> SunoFails(a) \/ a.status \in Terminal
           /\ a.status = "FAILURE" => SunoFails(a)
  <1>1. a.status \in Status /\ (SunoFails(a) \/ a.status \in Terminal) \in BOOLEAN
    BY DEF Answer
  <1>2. \A s \in Status, b \in BOOLEAN :
            LET n == [r EXCEPT !.status = s, !.full = b]
            IN  n \in Row /\ n.quota = r.quota /\ n.status = s /\ n.full = b
    BY DEF Row
  <1>3. /\ SunoRow(r, a) \in Row /\ SunoRow(r, a).quota = r.quota
        /\ SunoRow(r, a).status = a.status
        /\ SunoRow(r, a).full = (SunoFails(a) \/ a.status \in Terminal)
    BY <1>1, <1>2, Zenon DEF SunoRow
  <1> QED
    BY <1>3, RowType DEF SunoFails

\* updateSunoTasks: what it decides on is what the table has.
LEMMA SunoApply ==
    ASSUME TInv, OneHealthyMaster, NEW t \in SunoTasks, SunoOK(t),
           NEW m \in Masters, ApplySuno(m)
    PROVE  SunoOK(t)'
  <1> DEFINE u    == answer[m].task
             seen == view[m][u]
             a    == answer[m]
             new  == SunoRow(seen, a)
             pay  == [Refund(u, seen) EXCEPT !.save = new]
             write == [task |-> u, delta |-> 0, step |-> "save", save |-> new]
  <1>1. t \in Tasks
    BY KindsAssumption
  <1>2. u \in Tasks /\ a \in Answer /\ seen \in Row /\ seen # NoRow /\ job[m] = NoJob /\ Exists(u)
    BY RowType DEF ApplySuno, TInv, TypeOK, Consistent, AnswersListed, Answer, ViewsExist
  <1>3. /\ new \in Row /\ new # NoRow /\ new.quota = seen.quota
        /\ new.full <=> SunoFails(a) \/ new.status \in Terminal
        /\ new.status = "FAILURE" => SunoFails(a)
    BY <1>2, SunoRowType
  <1>4. /\ pay # NoJob /\ pay.task = u /\ pay.step = "fund" /\ pay.delta = -seen.quota
        /\ pay.save = new
    <2>1. \A n \in Row : LET k == [Refund(u, seen) EXCEPT !.save = n]
                         IN  /\ k # NoJob /\ k.task = u /\ k.step = "fund"
                             /\ k.delta = -seen.quota /\ k.save = n
      BY <1>2, JobType DEF Refund
    <2> QED
      BY <1>3, <2>1, Zenon
  <1>5. write # NoJob /\ write.task = u
    BY DEF NoJob
  <1>6. UNCHANGED <<row, fund, unsettled>>
    BY DEF ApplySuno, ledger
  <1>7. \A n \in Masters, x \in Tasks :
            view'[n][x] = IF n = m /\ x = u THEN NoRow ELSE view[n][x]
    BY <1>2, DoneOne DEF ApplySuno
  <1>8. \/ job' = job
        \/ SunoFails(a) /\ seen.quota # 0 /\ job' = [job EXCEPT ![m] = pay]
        \/ ~(SunoFails(a) /\ seen.quota # 0) /\ job' = [job EXCEPT ![m] = write]
    BY DEF ApplySuno, StartJob
  <1>9. CASE t # u \/ job' = job
    <2>1. \A n \in Masters : job'[n] = job[n] \/ (~On(n, t) /\ ~On(n, t)')
      BY <1>2, <1>4, <1>5, <1>8, <1>9 DEF On, TInv, TypeOK
    <2>2. Aside(t)
      BY <1>1, <1>6, <1>7, <2>1 DEF Aside
    <2> QED
      BY <1>1, <2>2, SunoAside
  <1>10. CASE t = u /\ job' # job
    <2>1. SunoBooks(t)
      BY <1>2, <1>10 DEF SunoOK
    <2>2. row[t] = seen /\ fund[t] = seen.quota /\ seen.quota \in Nat
      BY <1>2, <1>10, <2>1 DEF SunoBooks, SunoListed, Row
    <2>3. \A n \in Masters : n = m
      BY DEF OneHealthyMaster
    <2>4. SunoListed(t)'
      <3>1. \A n \in Masters : view'[n][t] = NoRow
        BY <1>1, <1>7, <1>10, <2>3
      <3> QED
        BY <3>1 DEF SunoListed
    <2>5. PICK k : /\ job' = [job EXCEPT ![m] = k]
                   /\ \/ k = pay /\ SunoFails(a)
                      \/ k = write /\ ~(SunoFails(a) /\ seen.quota # 0)
      BY <1>8, <1>10
    <2>6. SunoJob(k, t)'
      <3>1. CASE k = pay /\ SunoFails(a)
        BY <1>3, <1>4, <1>6, <2>2, <3>1 DEF SunoJob
      <3>2. CASE k = write /\ ~(SunoFails(a) /\ seen.quota # 0)
        BY <1>3, <1>6, <2>2, <3>2 DEF SunoJob
      <3> QED
        BY <2>5, <3>1, <3>2
    <2>7. job'[m] = k /\ k # NoJob /\ k.task = t
      BY <1>4, <1>5, <1>10, <2>5 DEF TInv, TypeOK
    <2>8. \A n \in Masters : job'[n] = k
      BY <2>3, <2>7
    <2>9. SunoWork(t)'
      BY <2>6, <2>8 DEF SunoWork, SunoJob
    <2>10. SunoRest(t)'
      BY <2>7 DEF SunoRest, Working
    <2> QED
      BY <1>6, <2>1, <2>4, <2>9, <2>10 DEF SunoBooks, SunoOK
  <1> QED
    BY <1>9, <1>10

\* A job on another task.
LEMMA SunoOther ==
    ASSUME TInv, NEW t \in SunoTasks, SunoOK(t), NEW m \in Masters, ~On(m, t),
           JobFunding(m) \/ JobToken(m) \/ SaveSuno(m)
    PROVE  SunoOK(t)'
  <1> DEFINE j == job[m]
  <1>1. t \in Tasks
    BY KindsAssumption
  <1>2. j # NoJob /\ j \in Job /\ j.task \in Tasks /\ j.task # t /\ j.delta \in Int
    BY DEF On, JobFunding, JobToken, SaveSuno, TInv, TypeOK, Job
  <1>3. AfterBilling(j) # NoJob => AfterBilling(j).task = j.task
    BY <1>2, AfterBillingType
  <1>4. \/ job' = [job EXCEPT ![m] = [j EXCEPT !.step = "token"]]
        \/ job' = [job EXCEPT ![m] = AfterBilling(j)]
        \/ job' = [job EXCEPT ![m] = NoJob]
    BY DEF JobFunding, JobToken, SaveSuno
  <1>5. \A n \in Masters : job'[n] = job[n] \/ (~On(n, t) /\ ~On(n, t)')
    BY <1>2, <1>3, <1>4 DEF On, TInv, TypeOK, Job
  <1>6. row'[t] = row[t] /\ fund'[t] = fund[t] /\ UNCHANGED <<view, unsettled>>
    BY <1>1, <1>2 DEF JobFunding, JobToken, SaveSuno, Charge, ledger, history, TInv, TypeOK
  <1>7. Aside(t)
    BY <1>5, <1>6 DEF Aside
  <1> QED
    BY <1>1, <1>7, SunoAside

\* The job on a Suno task: the price is given back, then the row is saved.
LEMMA SunoJobs ==
    ASSUME TInv, OneHealthyMaster, NEW t \in SunoTasks, SunoOK(t),
           NEW m \in Masters, On(m, t), JobFunding(m) \/ JobToken(m) \/ SaveSuno(m)
    PROVE  SunoOK(t)'
  <1> DEFINE j == job[m]
  <1>1. t \in Tasks
    BY KindsAssumption
  <1>2. j # NoJob /\ j \in Job /\ j.task = t /\ j.delta \in Int /\ Exists(t)
    BY DEF On, TInv, TypeOK, Consistent, JobsExist, Job
  <1>3. SunoBooks(t) /\ SunoJob(j, t) /\ t \notin unsettled
    BY <1>2 DEF SunoOK, SunoBooks, SunoWork
  <1>4. row[t].quota \in Nat /\ fund[t] \in Int
    BY <1>1, <1>2, Amounts
  <1>5. ~Fault /\ \A n \in Masters : n = m
    BY NoFaults DEF OneHealthyMaster
  <1>6. UNCHANGED <<view, unsettled>>
    BY DEF JobFunding, JobToken, SaveSuno, history
  <1>7. SunoListed(t)'
    <2>1. \A n \in Masters : view[n][t] = NoRow
      BY <1>3, <1>5 DEF SunoBooks, SunoListed
    <2> QED
      BY <1>6, <2>1 DEF SunoListed
  <1>8. ASSUME NEW k, job' = [job EXCEPT ![m] = k],
               k # NoJob => k.task = t /\ SunoJob(k, t)',
               k = NoJob => /\ row'[t].status = "FAILURE" => fund'[t] = 0
                            /\ ~row'[t].full => fund'[t] = row'[t].quota,
               fund'[t] = 0 \/ fund'[t] = row'[t].quota
        PROVE  SunoOK(t)'
    <2>1. \A n \in Masters : job'[n] = k
      BY <1>5, <1>8 DEF TInv, TypeOK
    <2>2. SunoWork(t)'
      BY <1>8, <2>1 DEF SunoWork, SunoJob, On
    <2>3. SunoRest(t)'
      BY <1>8, <2>1 DEF SunoRest, Working
    <2> QED
      BY <1>3, <1>6, <1>7, <1>8, <2>2, <2>3 DEF SunoBooks, SunoOK
  <1>9. CASE JobFunding(m)
    <2>1. ~Refusable(t, j.delta)
      BY <1>2, <1>3, <1>4, <1>9 DEF JobFunding, Refusable, SunoJob
    <2>2. /\ j.step = "fund" /\ Charge(t, j.delta, 0) /\ row' = row
          /\ job' = [job EXCEPT ![m] = [j EXCEPT !.step = "token"]]
      BY <1>2, <1>5, <1>9, <2>1 DEF JobFunding
    <2>3. fund'[t] = 0
      BY <1>1, <1>2, <1>3, <1>4, <2>2 DEF SunoJob, Charge, TInv, TypeOK
    <2>4. PICK k : /\ k = [j EXCEPT !.step = "token"]
      OBVIOUS
    <2>5. k # NoJob /\ k.task = t /\ k.step = "token" /\ k.save = j.save
      BY <1>2, <2>4 DEF Job, NoJob
    <2>6. SunoJob(k, t)'
      BY <1>3, <2>2, <2>3, <2>5 DEF SunoJob
    <2> QED
      BY <1>8, <2>2, <2>3, <2>4, <2>5, <2>6
  <1>10. CASE JobToken(m)
    <2>1. /\ j.step = "token" /\ Charge(t, 0, j.delta) /\ row' = row
          /\ job' = [job EXCEPT ![m] = AfterBilling(j)]
      BY <1>2, <1>5, <1>10 DEF JobToken
    <2>2. fund'[t] = 0
      BY <1>1, <1>3, <1>4, <2>1 DEF SunoJob, Charge, TInv, TypeOK
    <2>3. CASE j.save = NoRow
      <3>1. job' = [job EXCEPT ![m] = NoJob] /\ row'[t].status = "FAILURE"
        BY <1>3, <2>1, <2>3 DEF AfterBilling, SunoJob
      <3>2. SunoWork(t)' /\ \A n \in Masters : job'[n] = NoJob
        BY <1>5, <3>1 DEF SunoWork, On, TInv, TypeOK
      <3>3. SunoRest(t)'
        BY <2>2, <3>1 DEF SunoRest, Running
      <3> QED
        BY <1>3, <1>6, <1>7, <2>2, <3>2, <3>3 DEF SunoBooks, SunoOK
    <2>4. CASE j.save # NoRow
      <3>1. PICK k : k = [j EXCEPT !.step = "save"]
        OBVIOUS
      <3>2. job' = [job EXCEPT ![m] = k]
        BY <2>1, <2>4, <3>1 DEF AfterBilling
      <3>3. k # NoJob /\ k.task = t /\ k.step = "save" /\ k.save = j.save
        BY <1>2, <3>1 DEF Job, NoJob
      <3>4. SunoJob(k, t)'
        BY <1>3, <2>1, <2>2, <2>4, <3>3 DEF SunoJob
      <3> QED
        BY <1>8, <2>2, <3>2, <3>3, <3>4
    <2> QED
      BY <2>3, <2>4
  <1>11. CASE SaveSuno(m)
    <2>1. /\ j.step = "save" /\ row' = [row EXCEPT ![t] = j.save] /\ UNCHANGED ledger
          /\ job' = [job EXCEPT ![m] = NoJob]
      BY <1>2, <1>5, <1>11 DEF SaveSuno
    <2>2. j.save # NoRow
      BY <1>2, <2>1 DEF Job
    <2>3. row'[t] = j.save /\ fund'[t] = fund[t]
      BY <1>1, <2>1 DEF ledger, TInv, TypeOK
    <2> QED
      BY <1>3, <1>8, <2>1, <2>2, <2>3 DEF SunoBooks, SunoJob
  <1> QED
    BY <1>9, <1>10, <1>11

LEMMA SunoNext ==
    ASSUME OneHealthyMaster, SunoAlone, TInv, BooksInv, SunoInv, [Next]_vars
    PROVE  SunoInv'
  <1> SUFFICES ASSUME NEW t \in SunoTasks PROVE SunoOK(t)'
    BY DEF SunoInv
  <1>1. SunoOK(t) /\ MaxFaults = 0
    BY DEF SunoInv, OneHealthyMaster
  <1>2. ASSUME NEW m \in Masters, CrashMaster(m) PROVE FALSE
    BY <1>1, <1>2, NoFaults DEF CrashMaster
  <1>3. ASSUME NEW m \in Masters, MasterStep(m) PROVE SunoOK(t)'
    <2>1. CASE SunoPolls(m)
      BY <1>1, <1>3, <2>1, SunoPoll
    <2>2. CASE BeginSweep(m) \/ BeginPoll(m)
      BY <1>1, <2>2, SunoList
    <2>3. CASE \E u \in Tasks : SweepOne(m, u)
      BY <1>1, <2>3, SunoSweep
    <2>4. CASE ApplySuno(m)
      BY <1>1, <2>4, SunoApply
    <2>5. CASE JobFunding(m) \/ JobToken(m) \/ SaveSuno(m)
      BY <1>1, <2>5, SunoJobs, SunoOther
    <2> QED
      BY <1>3, <2>1, <2>2, <2>3, <2>4, <2>5 DEF MasterStep, SunoPolls
  <1> QED
    BY <1>1, <1>2, <1>3, SunoRequest, SunoOutside DEF Next

-----------------------------------------------------------------------------
(* The results *)

\* The inductive invariant of the argument.
THEOREM SunoInvariant ==
    ASSUME OneHealthyMaster, SunoAlone
    PROVE  Spec => []SunoInv
  <1>1. TInv /\ BooksInv /\ SunoInv /\ [Next]_vars => SunoInv'
    BY SunoNext
  <1> QED
    BY <1>1, SunoInit, TypeCorrect, BooksInvariant, PTL DEF Spec

\* As long as one healthy master polls them, failed Suno tasks are given back what
\* was held for them, and no Suno task is ever given back more.
THEOREM SunoRefunded ==
    ASSUME OneHealthyMaster, SunoAlone
    PROVE  Spec => []SunoRefundsExactly
  <1>1. TInv /\ BooksInv /\ SunoInv => SunoRefundsExactly
    <2> SUFFICES ASSUME TInv, BooksInv, SunoInv PROVE SunoRefundsExactly
      OBVIOUS
    <2>1. ASSUME NEW t \in SunoTasks PROVE fund[t] >= 0
      <3>1. t \in Tasks
        BY KindsAssumption
      <3>2. CASE Exists(t)
        BY <3>1, <3>2, Amounts DEF SunoInv, SunoOK, SunoBooks
      <3>3. CASE ~Exists(t)
        BY <3>1, <3>3 DEF BooksInv, BeforeRow, LedgerBefore, RefundedAgain, SunoAlone
      <3> QED
        BY <3>2, <3>3
    <2>2. SunoFailureRefunded
      BY DEF SunoFailureRefunded, FailedIsRefunded, Closed, SunoInv, SunoOK, SunoBooks, SunoRest
    <2> QED
      BY <2>1, <2>2 DEF SunoRefundsExactly, SunoReturnsWhatWasHeld
  <1> QED
    BY <1>1, SunoInvariant, TypeCorrect, BooksInvariant, PTL
=============================================================================
