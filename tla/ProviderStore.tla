--------------------------- MODULE ProviderStore ---------------------------
(***************************************************************************)
(* What every actor of the hosted provider-job subsystem shares: the       *)
(* PostgreSQL tables provider_jobs, provider_job_attempts and              *)
(* provider_job_outbox, the BullMQ queue, and the two guards that fence    *)
(* every write: the lease predicate and the compare-and-set on             *)
(* (status, current_attempt_id).  The actors are in ProviderWorker,        *)
(* ProviderQueue and ProviderRequests; ProviderJobs composes them.         *)
(*                                                                         *)
(* One SQL statement, or one transaction that holds its row locks to the   *)
(* commit, is one step.  Time is abstracted to a lease that is live until  *)
(* a step makes it expire.                                                 *)
(***************************************************************************)
EXTENDS Naturals, FiniteSets

CONSTANTS
  Job,        \* provider_jobs ids: the logical jobs of one user on one book
  Attempt,    \* provider_job_attempts ids, which are also the BullMQ job ids
  Worker,     \* executions of processProviderJob that can run at once
  Request,    \* API requests that can run at once
  Scanner,    \* recovery passes that can run at once (one per worker process)
  None,
  MaxActive,  \* PROVIDER_MAX_ACTIVE_ATTEMPTS; 0 is unlimited
  MaxAsked,   \* bound: explicit user requests per job
  MaxUpsets,  \* bound: crashes, losses, early expiries, replacements
  MaxRestructures \* bound: manual chapter-structure changes

ASSUME ConstantsAssumption ==
  /\ None \notin Attempt \cup Job
  /\ Request \cap Scanner = {}
  /\ MaxActive \in Nat /\ MaxAsked \in Nat
  /\ MaxUpsets \in Nat /\ MaxRestructures \in Nat

VARIABLES
  job,     \* provider_jobs rows
  att,     \* provider_job_attempts rows
  outbox,  \* provider_job_outbox.status per attempt
  queue,   \* BullMQ job state per attempt
  work,    \* executions of processProviderJob
  proc,    \* API requests and recovery passes
  asked,   \* history: explicit requests made for each job
  landed,  \* history: attempts whose result reached canonical storage
  upsets, restructures   \* environment events so far

vars == <<job, att, outbox, queue, work, proc, asked, landed, upsets, restructures>>

Proc == Request \cup Scanner

JobStatus     == {"absent", "queued", "running", "succeeded", "failed", "cancelled"}
AttemptStatus == JobStatus
Settled == {"succeeded", "failed", "cancelled"}
Active  == {"queued", "running"}

\* error_code and normalized_error_code, as far as a guard reads them.
ErrorCode == {"none", "admission_rejected", "outcome_unknown", "expired_before_dispatch", "other"}
Outcome   == {"not_dispatched", "claimed", "in_flight", "succeeded", "failed",
              "cancelled", "outcome_unknown", "quarantined"}
Billing   == {"not_started", "not_billable", "estimated", "billed_possible"}
Lease     == {"none", "live", "expired"}

JobRow == [status: JobStatus, cur: Attempt \cup {None}, err: ErrorCode]

\* `sent` is dispatch_started_at is not null; `round` is history: which
\* explicit request of the job the attempt serves.
AttemptRow == [job: Job \cup {None}, status: AttemptStatus, outcome: Outcome,
               billing: Billing, lease: Lease, gen: Nat, sent: BOOLEAN,
               code: ErrorCode, err: ErrorCode, round: Nat]

NoJob == [status |-> "absent", cur |-> None, err |-> "none"]

\* Mutant: the attempt starts with the outbox's status word.
Bug_PendingAttempt(j, n) ==
  [job |-> j, status |-> "pending", outcome |-> "not_dispatched",
   billing |-> "not_started", lease |-> "none", gen |-> 0, sent |-> FALSE,
   code |-> "none", err |-> "none", round |-> n]

NewAttempt(j, n) ==
  [job |-> j, status |-> "queued", outcome |-> "not_dispatched",
   billing |-> "not_started", lease |-> "none", gen |-> 0, sent |-> FALSE,
   code |-> "none", err |-> "none", round |-> n]

NoAttempt == [NewAttempt(None, 0) EXCEPT !.status = "absent"]

AttemptsOf(j)  == {a \in Attempt : att[a].job = j}
ActiveAttempts == {a \in Attempt : att[a].status \in Active}

(***************************************************************************)
(* The fence shared by the persistence lock, the progress patch and the    *)
(* renewal: the attempt is the job's current one, both rows are running,   *)
(* and the generation, owner and token of the execution match an unexpired *)
(* lease.                                                                  *)
(***************************************************************************)
LeaseHeld(w) ==
  LET a == work[w].att IN
  /\ a # None
  /\ att[a].gen = work[w].gen /\ att[a].lease = "live" /\ att[a].status = "running"
  /\ att[a].job # None
  /\ job[att[a].job].status = "running" /\ job[att[a].job].cur = a

\* Mutant: only completed requests are billed.
Bug_BilledOnSuccess(row) == IF row.outcome = "succeeded" THEN "billed_possible" ELSE "not_billable"

\* Money may have been spent once the provider was called.
BillingAtEnd(row) == IF row.sent THEN "billed_possible" ELSE "not_billable"

\* The columns of a job that change with its status.
JobBecomes(row, status, error) == [row EXCEPT !.status = status, !.err = error]

\* Mutant: the outcome is recorded and the status forgotten.
Bug_EndAttemptKeepsStatus(row, status, error) ==
  [row EXCEPT !.outcome = status, !.billing = BillingAtEnd(row), !.lease = "none", !.err = error]

\* The columns a terminal progress patch or a cancellation sets on an attempt.
EndAttempt(row, status, error) ==
  [row EXCEPT !.status = status, !.outcome = status, !.billing = BillingAtEnd(row),
              !.lease = "none", !.err = error,
              !.code = IF status = "succeeded" THEN "none"
                       ELSE IF status = "failed" THEN error ELSE @]

=============================================================================
