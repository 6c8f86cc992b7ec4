--------------------------- MODULE ProviderQueue ---------------------------
(***************************************************************************)
(* How attempts reach the queue: enqueueProviderJob (admission, outbox,    *)
(* BullMQ add, outbox mark), run by API requests and by the recovery pass, *)
(* and requeuePendingProviderJobs, the pass each worker process runs at    *)
(* start and every 30 seconds, one autocommitted statement at a time.      *)
(***************************************************************************)
EXTENDS ProviderStore

ProcPc == {"idle",
           "requeue", "cancel", "remove",
           "admit", "ensure", "add", "mark",
           "unknown", "unknown_jobs", "expired", "expired_jobs", "return",
           "reconcile", "select", "rows", "probe", "retire", "clear"}

\* A row of the recovery pass's snapshot of the queued jobs.
SnapshotRow == [job: Job, cur: Attempt \cup {None}, waiting: BOOLEAN, published: BOOLEAN]

Process == [pc: ProcPc, job: Job \cup {None}, att: Attempt \cup {None},
            seen: JobStatus, rows: SUBSET SnapshotRow]

NoProcess == [pc |-> "idle", job |-> None, att |-> None, seen |-> "absent", rows |-> {}]

Step(p, pc) == proc' = [proc EXCEPT ![p] = [@ EXCEPT !.pc = pc]]

\* A request is answered; a recovery pass goes on with its next row.
Done(p) == proc' = [proc EXCEPT ![p] =
  IF p \in Scanner THEN [NoProcess EXCEPT !.pc = "rows", !.rows = proc[p].rows] ELSE NoProcess]

(***************************************************************************)
(* admitProviderJobAttempt, one transaction under the user's advisory      *)
(* lock.  The minute and day budgets are clocks the model leaves out: a    *)
(* full window is an environment event.                                    *)
(***************************************************************************)
Current(j) == job[j].status = "queued" /\ job[j].cur # None /\ att[job[j].cur].status \in Active

Open(j) == job[j].status = "queued" /\ job[j].cur = None

\* Mutant: off by one at the limit.
Bug_FullLate == MaxActive > 0 /\ Cardinality(ActiveAttempts) > MaxActive

Full == MaxActive > 0 /\ Cardinality(ActiveAttempts) >= MaxActive

AdmitReused(p) ==
  LET j == proc[p].job IN
  /\ proc[p].pc = "admit" /\ Current(j)
  /\ proc' = [proc EXCEPT ![p] = [@ EXCEPT !.pc = "ensure", !.att = job[j].cur]]
  /\ UNCHANGED <<job, att, outbox, queue, work, asked, landed, upsets, restructures>>

AdmitNew(p, a) ==
  LET j == proc[p].job IN
  /\ proc[p].pc = "admit" /\ Open(j) /\ ~Full
  /\ att[a].job = None
  /\ att' = [att EXCEPT ![a] = NewAttempt(j, asked[j])]
  /\ job' = [job EXCEPT ![j] = [@ EXCEPT !.cur = a, !.err = "none"]]
  /\ outbox' = [outbox EXCEPT ![a] = "pending"]
  /\ proc' = [proc EXCEPT ![p] = [@ EXCEPT !.pc = "ensure", !.att = a]]
  /\ UNCHANGED <<queue, work, asked, landed, upsets, restructures>>

Reject(p) ==
  LET j == proc[p].job IN
  /\ job' = [job EXCEPT ![j] = JobBecomes(@, "failed", "admission_rejected")]
  /\ Done(p)
  /\ UNCHANGED <<att, outbox, queue, work, asked, landed, restructures>>

AdmitRejected(p) ==
  /\ proc[p].pc = "admit" /\ Open(proc[p].job) /\ Full
  /\ Reject(p)
  /\ UNCHANGED upsets

AdmitRateLimited(p) ==
  /\ proc[p].pc = "admit" /\ Open(proc[p].job) /\ ~Full
  /\ upsets < MaxUpsets
  /\ Reject(p)
  /\ upsets' = upsets + 1

AdmitNotQueued(p) ==
  LET j == proc[p].job IN
  /\ proc[p].pc = "admit" /\ ~Current(j) /\ ~Open(j)
  /\ Done(p)
  /\ UNCHANGED <<job, att, outbox, queue, work, asked, landed, upsets, restructures>>

(***************************************************************************)
(* ensureProviderAttemptOutbox and publishProviderAttempt.                 *)
(***************************************************************************)
EnsureOutbox(p) ==
  LET a == proc[p].att IN
  /\ proc[p].pc = "ensure"
  /\ outbox' = IF outbox[a] = "none" THEN [outbox EXCEPT ![a] = "pending"] ELSE outbox
  /\ Step(p, "add")
  /\ UNCHANGED <<job, att, queue, work, asked, landed, upsets, restructures>>

AddToQueue(p) ==
  LET a == proc[p].att IN
  /\ proc[p].pc = "add"
  /\ queue' = IF queue[a] = "missing" THEN [queue EXCEPT ![a] = "waiting"] ELSE queue
  /\ Step(p, "mark")
  /\ UNCHANGED <<job, att, outbox, work, asked, landed, upsets, restructures>>

MarkPublished(p) ==
  LET a == proc[p].att IN
  /\ proc[p].pc = "mark"
  /\ outbox' = [outbox EXCEPT ![a] = "published"]
  /\ Done(p)
  /\ UNCHANGED <<job, att, queue, work, asked, landed, upsets, restructures>>

PublishStep(p) ==
  \/ AdmitReused(p) \/ \E a \in Attempt : AdmitNew(p, a)
  \/ AdmitRejected(p) \/ AdmitNotQueued(p)
  \/ EnsureOutbox(p) \/ AddToQueue(p) \/ MarkPublished(p)

(***************************************************************************)
(* recoverStaleRunningProviderJobs: five statements.  The first two settle *)
(* attempts whose lease expired with a request in flight, the next two     *)
(* those that never reached the provider, the last returns their jobs to   *)
(* the queue.                                                              *)
(***************************************************************************)
ScanBegin(s) ==
  /\ proc[s].pc = "idle"
  /\ Step(s, "unknown")
  /\ UNCHANGED <<job, att, outbox, queue, work, asked, landed, upsets, restructures>>

\* The attempt is current, both rows run, and its lease has expired (or it has
\* none and is old: the legacy branch of both statements).
LeaseLost(a) ==
  /\ att[a].job # None /\ job[att[a].job].cur = a /\ job[att[a].job].status = "running"
  /\ att[a].status = "running" /\ att[a].lease # "live"

UnknownRow(row) ==
  [row EXCEPT !.status = "failed", !.outcome = "outcome_unknown", !.billing = "billed_possible",
              !.lease = "none", !.code = "other", !.err = "outcome_unknown"]

FailUnknownAttempts(s) ==
  /\ proc[s].pc = "unknown"
  /\ att' = [a \in Attempt |->
       IF LeaseLost(a) /\ att[a].outcome \in {"in_flight", "outcome_unknown"}
       THEN UnknownRow(att[a]) ELSE att[a]]
  /\ Step(s, "unknown_jobs")
  /\ UNCHANGED <<job, outbox, queue, work, asked, landed, upsets, restructures>>

\* A running job whose current attempt the second statement matches.
OutcomeUnknown(j) ==
  /\ job[j].status = "running" /\ job[j].cur # None
  /\ att[job[j].cur].outcome = "outcome_unknown" /\ att[job[j].cur].err = "outcome_unknown"

FailUnknownJobs(s) ==
  /\ proc[s].pc = "unknown_jobs"
  /\ job' = [j \in Job |-> IF OutcomeUnknown(j)
                           THEN JobBecomes(job[j], "failed", "outcome_unknown") ELSE job[j]]
  /\ Step(s, "expired")
  /\ UNCHANGED <<att, outbox, queue, work, asked, landed, upsets, restructures>>

\* Mutant: an attempt in flight counts as not sent.
Bug_UndispatchedInFlight(a) == att[a].outcome \in {"not_dispatched", "claimed", "in_flight"}

Undispatched(a) == att[a].outcome \in {"not_dispatched", "claimed"}

ExpiredRow(row) ==
  [row EXCEPT !.status = "failed", !.outcome = "failed", !.billing = "not_billable",
              !.lease = "none", !.code = "expired_before_dispatch", !.err = "expired_before_dispatch"]

FailExpiredAttempts(s) ==
  /\ proc[s].pc = "expired"
  /\ att' = [a \in Attempt |->
       IF LeaseLost(a) /\ Undispatched(a) THEN ExpiredRow(att[a]) ELSE att[a]]
  /\ Step(s, "expired_jobs")
  /\ UNCHANGED <<job, outbox, queue, work, asked, landed, upsets, restructures>>

\* Mutant: the statement looks for an attempt that still runs.
Bug_ExpiredStillRunning(j) ==
  /\ job[j].status = "running" /\ job[j].cur # None
  /\ att[job[j].cur].status = "running" /\ att[job[j].cur].code = "expired_before_dispatch"

\* A running job whose current attempt the fourth statement matches.
ExpiredUndispatched(j) ==
  /\ job[j].status = "running" /\ job[j].cur # None
  /\ att[job[j].cur].code = "expired_before_dispatch"

FailExpiredJobs(s) ==
  /\ proc[s].pc = "expired_jobs"
  /\ job' = [j \in Job |-> IF ExpiredUndispatched(j)
                           THEN JobBecomes(job[j], "failed", "expired_before_dispatch") ELSE job[j]]
  /\ Step(s, "return")
  /\ UNCHANGED <<att, outbox, queue, work, asked, landed, upsets, restructures>>

\* Mutant: a request whose outcome is unknown is retried as well.
Bug_ReturnsUnknown(j) ==
  job[j].status = "failed" /\ job[j].err \in {"expired_before_dispatch", "outcome_unknown"}

Returnable(j) == job[j].status = "failed" /\ job[j].err = "expired_before_dispatch"

\* The transition guard (migration 0002) clears current_attempt_id as well.
QueuedAgain == [status |-> "queued", cur |-> None, err |-> "none"]

ReturnExpiredJobs(s) ==
  /\ proc[s].pc = "return"
  /\ job' = [j \in Job |->
       IF Returnable(j) THEN QueuedAgain ELSE job[j]]
  /\ Step(s, "reconcile")
  /\ UNCHANGED <<att, outbox, queue, work, asked, landed, upsets, restructures>>

(***************************************************************************)
(* reconcileTerminalProviderJobAttempts: an attempt left active by a job   *)
(* that is settled takes the job's status; outcome, billing and lease stay.*)
(***************************************************************************)
StatusOf(row, jobRow) == [row EXCEPT !.status = jobRow.status, !.err = jobRow.err]

ReconcileAttempts(s) ==
  /\ proc[s].pc = "reconcile"
  /\ att' = [a \in Attempt |->
       IF att[a].job # None /\ job[att[a].job].cur = a
          /\ job[att[a].job].status \in Settled /\ att[a].status \in Active
       THEN StatusOf(att[a], job[att[a].job]) ELSE att[a]]
  /\ Step(s, "select")
  /\ UNCHANGED <<job, outbox, queue, work, asked, landed, upsets, restructures>>

(***************************************************************************)
(* requeuePendingProviderJobs: one snapshot of the queued jobs, then one   *)
(* row at a time, on what the snapshot said.                               *)
(***************************************************************************)
RowOf(j) ==
  LET a == job[j].cur IN
  [job |-> j, cur |-> a,
   waiting   |-> a # None /\ att[a].status = "queued",
   published |-> a # None /\ outbox[a] = "published"]

SelectQueued(s) ==
  /\ proc[s].pc = "select"
  /\ proc' = [proc EXCEPT ![s] =
       [@ EXCEPT !.pc = "rows", !.rows = {RowOf(j) : j \in {k \in Job : job[k].status = "queued"}}]]
  /\ UNCHANGED <<job, att, outbox, queue, work, asked, landed, upsets, restructures>>

NextRow(s, row) ==
  /\ proc[s].pc = "rows" /\ row \in proc[s].rows
  /\ proc' = [proc EXCEPT ![s] =
       [@ EXCEPT !.job = row.job, !.att = row.cur, !.rows = proc[s].rows \ {row},
                 !.pc = IF row.cur = None THEN "admit"
                        ELSE IF ~row.waiting THEN "clear"
                        ELSE IF row.published THEN "probe" ELSE "ensure"]]
  /\ UNCHANGED <<job, att, outbox, queue, work, asked, landed, upsets, restructures>>

ScanEnd(s) ==
  /\ proc[s].pc = "rows" /\ proc[s].rows = {}
  /\ proc' = [proc EXCEPT ![s] = NoProcess]
  /\ UNCHANGED <<job, att, outbox, queue, work, asked, landed, upsets, restructures>>

\* providerQueueJobState on an attempt that was published: retired, left to
\* its delivery, or published again.
\* Mutant: a retained failed delivery is published again.
Bug_RetainedCompleted(a) == queue[a] = "completed"

Retained(a)   == queue[a] \in {"completed", "failed"}
Delivering(a) == queue[a] \in {"waiting", "active"}

ProbeQueue(s) ==
  LET a == proc[s].att IN
  /\ proc[s].pc = "probe"
  /\ \/ Retained(a) /\ Step(s, "retire")
     \/ Delivering(a) /\ Done(s)
     \/ ~Retained(a) /\ ~Delivering(a) /\ Step(s, "add")
  /\ UNCHANGED <<job, att, outbox, queue, work, asked, landed, upsets, restructures>>

\* markRetainedProviderAttemptTerminal
RetiredRow(row) ==
  [row EXCEPT !.status = "failed", !.outcome = "failed", !.billing = "not_billable",
              !.code = "other", !.err = "other"]

RetireAttempt(s) ==
  LET a == proc[s].att IN
  /\ proc[s].pc = "retire"
  /\ att' = IF att[a].status = "queued" THEN [att EXCEPT ![a] = RetiredRow(@)] ELSE att
  /\ Step(s, "clear")
  /\ UNCHANGED <<job, outbox, queue, work, asked, landed, upsets, restructures>>

\* clearCurrentProviderAttempt, then enqueueProviderJob if it applied.
MayClear(j, a) == job[j].status = "queued" /\ job[j].cur = a

ClearAttempt(s) ==
  LET j == proc[s].job IN
  /\ proc[s].pc = "clear" /\ MayClear(j, proc[s].att)
  /\ job' = [job EXCEPT ![j] = [@ EXCEPT !.cur = None]]
  /\ Step(s, "admit")
  /\ UNCHANGED <<att, outbox, queue, work, asked, landed, upsets, restructures>>

ClearRefused(s) ==
  /\ proc[s].pc = "clear" /\ ~MayClear(proc[s].job, proc[s].att)
  /\ Done(s)
  /\ UNCHANGED <<job, att, outbox, queue, work, asked, landed, upsets, restructures>>

ScannerStep(s) ==
  \/ ScanBegin(s)
  \/ FailUnknownAttempts(s) \/ FailUnknownJobs(s)
  \/ FailExpiredAttempts(s) \/ FailExpiredJobs(s) \/ ReturnExpiredJobs(s)
  \/ ReconcileAttempts(s) \/ SelectQueued(s)
  \/ \E row \in proc[s].rows : NextRow(s, row)
  \/ ScanEnd(s) \/ ProbeQueue(s) \/ RetireAttempt(s) \/ ClearAttempt(s) \/ ClearRefused(s)
  \/ PublishStep(s)

(***************************************************************************)
(* The process dies, or queue.add or a statement throws, between any two   *)
(* steps; BullMQ forgets a finished job (removeOnComplete, removeOnFail)   *)
(* or Redis loses one that was not, and with it any lock on it.            *)
(***************************************************************************)
Abandon(p) ==
  /\ proc[p].pc # "idle" /\ upsets < MaxUpsets
  /\ proc' = [proc EXCEPT ![p] = NoProcess]
  /\ upsets' = upsets + 1
  /\ UNCHANGED <<job, att, outbox, queue, work, asked, landed, restructures>>

QueueForgets(a) ==
  /\ queue[a] \in {"completed", "failed"}
  /\ queue' = [queue EXCEPT ![a] = "missing"]
  /\ UNCHANGED <<job, att, outbox, work, proc, asked, landed, upsets, restructures>>

RedisLoses(a) ==
  /\ queue[a] \in {"waiting", "active"} /\ upsets < MaxUpsets
  /\ queue' = [queue EXCEPT ![a] = "missing"]
  /\ work' = [w \in Worker |-> IF work[w].att = a THEN [work[w] EXCEPT !.lock = FALSE] ELSE work[w]]
  /\ upsets' = upsets + 1
  /\ UNCHANGED <<job, att, outbox, proc, asked, landed, restructures>>

=============================================================================
