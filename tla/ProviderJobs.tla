---------------------------- MODULE ProviderJobs ----------------------------
(***************************************************************************)
(* The hosted provider-job subsystem: requests, queue, workers, recovery   *)
(* and the faults of their environment, over the store they share, with    *)
(* the properties that make it correct.                                    *)
(***************************************************************************)
EXTENDS ProviderWorker, ProviderRequests

Init ==
  /\ job = [j \in Job |-> NoJob]
  /\ att = [a \in Attempt |-> NoAttempt]
  /\ outbox = [a \in Attempt |-> "none"]
  /\ queue = [a \in Attempt |-> "missing"]
  /\ work = [w \in Worker |-> NoExecution]
  /\ proc = [p \in Proc |-> NoProcess]
  /\ asked = [j \in Job |-> 0]
  /\ landed = {}
  /\ upsets = 0 /\ restructures = 0

Environment ==
  \/ \E w \in Worker : WorkerCrash(w) \/ StallUnderWorker(w)
  \/ \E a \in Attempt : LeaseExpires(a) \/ StallRecovered(a) \/ QueueForgets(a) \/ RedisLoses(a)
  \/ \E p \in Proc : Abandon(p) \/ AdmitRateLimited(p)
  \/ BookReplaced \/ ChaptersRestructured

Next ==
  \/ \E w \in Worker : WorkerStep(w)
  \/ \E s \in Scanner : ScannerStep(s)
  \/ \E r \in Request : RequestArrives(r) \/ RequestStep(r)
  \/ Environment

Spec == Init /\ [][Next]_vars

(***************************************************************************)
(* Fairness: a worker process takes the steps it can, the recovery pass is *)
(* run by a timer, a request that has arrived is served, wall-clock time   *)
(* passes for a lease nobody renews, and BullMQ notices stalled jobs.      *)
(* Nothing makes a user ask, or a fault happen.                            *)
(***************************************************************************)
Fairness ==
  /\ \A w \in Worker : WF_vars(WorkerStep(w))
  /\ \A s \in Scanner : WF_vars(ScannerStep(s))
  /\ \A r \in Request : WF_vars(RequestStep(r))
  /\ \A a \in Attempt : WF_vars(LeaseExpires(a)) /\ WF_vars(StallRecovered(a))

FairSpec == Spec /\ Fairness

-----------------------------------------------------------------------------
(* Types *)

\* Every table, queue and program counter keeps its type.
TypeOK ==
  /\ job \in [Job -> JobRow]
  /\ att \in [Attempt -> AttemptRow]
  /\ outbox \in [Attempt -> {"none", "pending", "published"}]
  /\ queue \in [Attempt -> {"missing", "waiting", "active", "completed", "failed"}]
  /\ work \in [Worker -> Execution]
  /\ proc \in [Proc -> Process]
  /\ asked \in [Job -> Nat]
  /\ landed \subseteq Attempt
  /\ upsets \in Nat /\ restructures \in Nat

-----------------------------------------------------------------------------
(* Safety *)

\* An explicit request is sent to the provider by at most one attempt, however
\* often workers crash, leases expire, deliveries repeat and recovery passes
\* interleave: what may have been sent is never sent again without the user.
AtMostOneDispatchPerRequest ==
  \A a, b \in Attempt :
    att[a].sent /\ att[b].sent /\ att[a].job = att[b].job /\ att[a].round = att[b].round => a = b

\* A result that reached canonical storage for the job's standing request came
\* from the attempt the job still points at, and the job says it succeeded: no
\* late, cancelled or superseded execution has written.
LandedResultStands ==
  \A a \in landed :
    att[a].round = asked[att[a].job] =>
      job[att[a].job].status = "succeeded" /\ job[att[a].job].cur = a

\* An attempt that may have reached the provider is never booked as free, by
\* any of the statements that settle attempts without asking the worker.
DispatchedNeverFree ==
  \A a \in Attempt : att[a].sent => att[a].billing \in {"estimated", "billed_possible"}

\* However many requests and recovery passes admit at once, at most
\* PROVIDER_MAX_ACTIVE_ATTEMPTS attempts are queued or running.
ActiveWithinLimit == MaxActive > 0 => Cardinality(ActiveAttempts) <= MaxActive

\* While no chapter-structure change stopped the book's jobs, an attempt that
\* counts against the limit is the current one of its job, so that some worker,
\* request or recovery pass can still end it.
ActiveAttemptIsCurrentUnlessRestructured ==
  restructures = 0 => \A a \in ActiveAttempts : att[a].job # None /\ job[att[a].job].cur = a

-----------------------------------------------------------------------------
(* What a step may never do *)

\* No statement asks the database for a status change that the transition guard
\* of migrations 0002 and 0003 would refuse by raising an exception.
GuardAccepts(x, y) ==
  \/ y.status = x.status
  \/ x.status = "absent" /\ y.status = "queued"
  \/ x.status \in Settled /\ y.status = "queued" /\ y.cur = None
  \/ x.status = "queued" /\ y.status = "running" /\ y.cur # None
  \/ x.status = "queued" /\ y.status = "failed" /\ y.err = "admission_rejected" /\ y.cur = None
  \/ x.status = "running" /\ y.status \in {"succeeded", "failed"}
  \/ x.status \in Active /\ y.status = "cancelled"

GuardNeverRaises == [][\A j \in Job : GuardAccepts(job[j], job'[j])]_vars

\* An execution that lost its lease never holds it again: whatever other
\* actors do, a paused worker that wakes up stays fenced out.
LeaseLossIsFinal ==
  [][\A w \in Worker :
       work[w].gen > 0 /\ ~LeaseHeld(w) /\ work'[w].gen > 0 => ~LeaseHeld(w)']_vars

-----------------------------------------------------------------------------
(* Liveness *)

\* A job whose current execution quarantined its own attempt while the job
\* still ran: no recovery statement matches it.
Stranded(j) == job[j].status = "running" /\ att[job[j].cur].outcome = "quarantined"

\* A queued job is started, refused or cancelled: no lost publish, delivery or
\* worker leaves it queued for ever.
QueuedJobLeaves == \A j \in Job : job[j].status = "queued" ~> job[j].status # "queued"

\* A running job ends or goes back to the queue, unless it was stranded.
RunningJobEnds == \A j \in Job : job[j].status = "running" ~> (job[j].status # "running" \/ Stranded(j))

-----------------------------------------------------------------------------
(* The ledger this implements *)

SentFor(j)   == \E a \in AttemptsOf(j) : att[a].sent /\ att[a].round = asked[j]
StoredFor(j) == \E a \in landed : att[a].job = j /\ att[a].round = asked[j]

Ledger == INSTANCE ProviderLedger WITH
  ledger <- [j \in Job |-> [status |-> job[j].status, sent |-> SentFor(j), stored |-> StoredFor(j)]]

\* Attempts, leases, outbox and queue implement the ledger.
ImplementsLedger == Ledger!Spec

=============================================================================
