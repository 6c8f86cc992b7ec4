------------------------ MODULE ProviderSteps_proofs ------------------------
(***************************************************************************)
(* What no step of ProviderJobs does: ask the database for a status change *)
(* its guard refuses, give a lost lease back, or make one attempt more     *)
(* active than an account may have.                                        *)
(***************************************************************************)
EXTENDS ProviderJobs_proofs, FiniteSetTheorems

-----------------------------------------------------------------------------
(***************************************************************************)
(* The transition guard.                                                   *)
(***************************************************************************)
\* The job row changes to one of given status and error, and keeps its attempt.
LEMMA AcceptsBecomes ==
  ASSUME NEW x \in JobRow, NEW s, NEW e,
         \/ x.status = "queued" /\ s = "running" /\ x.cur # None
         \/ x.status = "queued" /\ s = "failed" /\ e = "admission_rejected" /\ x.cur = None
         \/ x.status = "running" /\ s \in {"succeeded", "failed"}
         \/ x.status \in Active /\ s = "cancelled"
  PROVE  GuardAccepts(x, JobBecomes(x, s, e))
BY BecomesFields DEF GuardAccepts

LEMMA AcceptsQueued ==
  ASSUME NEW x \in JobRow, x.status \in Settled \cup {"absent"}
  PROVE  GuardAccepts(x, QueuedAgain)
BY DEF GuardAccepts, QueuedAgain

LEMMA EndAccepted ==
  ASSUME TypeOK, NEW w \in Worker, NEW s \in Settled, NEW e, EndExecution(w, s, e), NEW j \in Job
  PROVE  GuardAccepts(job[j], job'[j])
<1> DEFINE a == work[w].att
<1>1. CASE LeaseHeld(w)
  <2>1. a \in Attempt /\ att[a].job \in Job /\ job[att[a].job].status = "running"
    BY <1>1, TypeFacts DEF LeaseHeld, TypeOK, Execution
  <2>2. job'[j] = job[j] \/ (job'[j] = JobBecomes(job[j], s, e) /\ job[j].status = "running")
    BY <1>1, <2>1 DEF EndExecution, TypeOK
  <2>3. job[j] \in JobRow
    BY TypeFacts
  <2>4. job[j].status = "running" => GuardAccepts(job[j], JobBecomes(job[j], s, e))
    BY <2>3, AcceptsBecomes DEF Settled, Active
  <2> QED BY <2>2, <2>4 DEF GuardAccepts
<1>2. CASE ~LeaseHeld(w)
  BY <1>2 DEF EndExecution, GuardAccepts
<1> QED BY <1>1, <1>2

LEMMA GuardStep ==
  ASSUME TypeInv, Next, NEW j \in Job
  PROVE  GuardAccepts(job[j], job'[j])
<1>0. TypeOK /\ job[j] \in JobRow /\ (job' = job => GuardAccepts(job[j], job'[j]))
  BY TypeFacts DEF TypeInv, GuardAccepts
<1>1. ASSUME NEW w \in Worker, WorkerStep(w) PROVE GuardAccepts(job[j], job'[j])
  <2>1. CASE Persist(w) \/ SettleCancelled(w) \/ SettleStale(w) \/ SettleFailed(w)
    <3>1. \E s \in Settled, e \in ErrorCode : EndExecution(w, s, e)
      BY <2>1, Words DEF Persist, SettleCancelled, SettleStale, SettleFailed, Settled
    <3> QED BY <1>0, <3>1, EndAccepted
  <2>2. CASE Claim(w)
    <3>1. work[w].att \in Attempt /\ att[work[w].att].job \in Job
      BY <1>0, <2>2, TypeFacts DEF Claim, Claimable, TypeInv, WiredWork
    <3>2. \/ job'[j] = job[j]
          \/ /\ job'[j] = JobBecomes(job[j], "running", "none")
             /\ job[j].status = "queued" /\ job[j].cur # None
      BY <1>0, <2>2, <3>1, TypeFacts DEF Claim, Claimable, TypeOK
    <3> QED BY <1>0, <3>2, AcceptsBecomes DEF GuardAccepts
  <2>3. ~(Persist(w) \/ SettleCancelled(w) \/ SettleStale(w) \/ SettleFailed(w) \/ Claim(w)) => job' = job
    BY <1>1 DEF WorkerStep, Deliver, RenewLease, ClaimRefused, ClaimConflict, Check, Dispatch,
         DispatchRefused, HandlerSkipsProvider, ProviderReturns, PersistRefused, Quarantine, CheckFailure
  <2> QED BY <1>0, <2>1, <2>2, <2>3
<1>2. ASSUME NEW p \in Proc, PublishStep(p) \/ AdmitRateLimited(p) PROVE GuardAccepts(job[j], job'[j])
  <2>1. CASE AdmitRejected(p) \/ AdmitRateLimited(p)
    <3>1. Open(proc[p].job) /\ job' = [job EXCEPT ![proc[p].job] =
                                 JobBecomes(job[proc[p].job], "failed", "admission_rejected")]
      BY <2>1 DEF AdmitRejected, AdmitRateLimited, Reject
    <3>2. \/ job'[j] = job[j]
          \/ /\ job'[j] = JobBecomes(job[j], "failed", "admission_rejected")
             /\ job[j].status = "queued" /\ job[j].cur = None
      BY <1>0, <3>1 DEF Open, TypeOK
    <3> QED BY <1>0, <3>2, AcceptsBecomes DEF GuardAccepts
  <2>2. ASSUME NEW a \in Attempt, AdmitNew(p, a) PROVE GuardAccepts(job[j], job'[j])
    BY <1>0, <2>2 DEF AdmitNew, GuardAccepts, TypeOK, JobRow
  <2> QED BY <1>0, <1>2, <2>1, <2>2
          DEF PublishStep, AdmitReused, AdmitNotQueued, EnsureOutbox, AddToQueue, MarkPublished
<1>3. ASSUME NEW s \in Scanner, ScannerStep(s) PROVE GuardAccepts(job[j], job'[j])
  <2>1. CASE FailUnknownJobs(s) \/ FailExpiredJobs(s)
    <3>1. job'[j] = job[j] \/ \E e \in ErrorCode :
            job[j].status = "running" /\ job'[j] = JobBecomes(job[j], "failed", e)
      BY <2>1, Words DEF FailUnknownJobs, FailExpiredJobs, OutcomeUnknown, ExpiredUndispatched
    <3> QED BY <1>0, <3>1, AcceptsBecomes DEF GuardAccepts
  <2>2. CASE ReturnExpiredJobs(s)
    <3>1. job'[j] = job[j] \/ (job[j].status = "failed" /\ job'[j] = QueuedAgain)
      BY <2>2 DEF ReturnExpiredJobs, Returnable
    <3> QED BY <1>0, <3>1, AcceptsQueued DEF GuardAccepts, Settled
  <2>3. CASE ClearAttempt(s)
    BY <1>0, <2>3 DEF ClearAttempt, GuardAccepts, TypeOK, JobRow
  <2>4. s \in Proc
    BY DEF Proc
  <2> QED BY <1>0, <1>2, <1>3, <2>1, <2>2, <2>3, <2>4
          DEF ScannerStep, ScanBegin, FailUnknownAttempts, FailExpiredAttempts, ReconcileAttempts,
              SelectQueued, NextRow, ScanEnd, ProbeQueue, RetireAttempt, ClearRefused
<1>4. ASSUME NEW r \in Request, RequestArrives(r) \/ RequestStep(r) PROVE GuardAccepts(job[j], job'[j])
  <2>0. r \in Proc /\ WiredProcess(proc[r])
    BY DEF Proc, TypeInv, WiredProc
  <2>1. CASE Requeue(r)
    <3>1. job'[j] = job[j] \/ (job[j].status \in Settled /\ job'[j] = QueuedAgain)
      BY <1>0, <2>0, <2>1 DEF Requeue, Matches, WiredProcess, TypeOK
    <3> QED BY <1>0, <3>1, AcceptsQueued DEF GuardAccepts
  <2>2. CASE CancelJob(r)
    <3>1. \/ job'[j] = job[j]
          \/ job[j].status \in Active /\ job'[j] = JobBecomes(job[j], "cancelled", "other")
      BY <1>0, <2>0, <2>2 DEF CancelJob, Matches, WiredProcess, TypeOK
    <3> QED BY <1>0, <3>1, AcceptsBecomes DEF GuardAccepts
  <2>3. ASSUME NEW k \in Job, Submit(r, k) PROVE GuardAccepts(job[j], job'[j])
    <3>1. job'[j] = job[j] \/ (job[j].status = "absent" /\ job'[j] = QueuedAgain)
      BY <1>0, <2>3 DEF Submit, TypeOK
    <3> QED BY <1>0, <3>1, AcceptsQueued DEF GuardAccepts
  <2> QED BY <1>0, <1>2, <1>4, <2>0, <2>1, <2>2, <2>3
          DEF RequestArrives, RequestStep, PostLoads, CancelLoads, RequeueRefused, CancelRefused,
              RemoveFromQueue
<1>5. CASE Environment
  <2>1. CASE BookReplaced \/ ChaptersRestructured
    <3>1. \/ job'[j] = job[j]
          \/ job[j].status \in Active /\ job'[j] = JobBecomes(job[j], "cancelled", "other")
      BY <2>1 DEF BookReplaced, ChaptersRestructured, StopAll
    <3> QED BY <1>0, <3>1, AcceptsBecomes DEF GuardAccepts
  <2> QED BY <1>0, <1>2, <1>5, <2>1
          DEF Environment, WorkerCrash, StallUnderWorker, LeaseExpires, StallRecovered,
              QueueForgets, RedisLoses, Abandon
<1> QED BY <1>1, <1>3, <1>4, <1>5 DEF Next

\* The transition guard of migrations 0002 and 0003 never has to raise.
THEOREM GuardHolds == Spec => GuardNeverRaises
<1>1. TypeInv /\ [Next]_vars => [\A j \in Job : GuardAccepts(job[j], job'[j])]_vars
  BY GuardStep
<1> QED BY <1>1, InitType, TypeStep, PTL DEF Spec, GuardNeverRaises

-----------------------------------------------------------------------------
(***************************************************************************)
(* Leases.  Only a claim raises a generation or starts an attempt; every   *)
(* other step leaves both, and makes a lease live only where it is held.   *)
(***************************************************************************)
LeaseInv ==
  \A w \in Worker :
    /\ work[w].gen > 0 => /\ work[w].att \in Attempt /\ att[work[w].att].job # None
                          /\ work[w].gen <= att[work[w].att].gen
    /\ work[w].pc \in {"idle", "claim"} => work[w].gen = 0

Goes(x, y) ==
  \/ y.gen = 0
  \/ /\ y.gen = x.gen /\ y.att = x.att
     /\ y.pc \in {"idle", "claim"} => x.pc \in {"idle", "claim"}

\* y is no more held than x.
Fades(x, y) ==
  /\ y.job = x.job /\ y.gen = x.gen
  /\ y.status = "running" /\ y.lease = "live" => x.status = "running" /\ x.lease = "live"

Slows(j) ==
  job'[j].status = "running" => job[j].status = "running" /\ job'[j].cur = job[j].cur

Unclaiming ==
  /\ \A w \in Worker : Goes(work[w], work'[w])
  /\ \A a \in Attempt : att[a].job # None => Fades(att[a], att'[a])
  /\ \A j \in Job : Slows(j)

LeaseFinal(w) == work[w].gen > 0 /\ ~LeaseHeld(w) /\ work'[w].gen > 0 => ~LeaseHeld(w)'

LEMMA UnclaimingKeeps ==
  ASSUME TypeInv, LeaseInv, Unclaiming
  PROVE  LeaseInv' /\ \A w \in Worker : LeaseFinal(w)
<1>0. TypeOK /\ \A w \in Worker : work[w].gen \in Nat /\ work[w].att \in Attempt \cup {None}
  BY DEF TypeInv, TypeOK, Execution
<1>1. LeaseInv'
  BY <1>0, TypeFacts DEF LeaseInv, Unclaiming, Goes, Fades
<1>2. ASSUME NEW w \in Worker, work[w].gen > 0, work'[w].gen > 0, LeaseHeld(w)'
      PROVE  LeaseHeld(w)
  <2> DEFINE a == work[w].att
  <2>1. work'[w].att = a /\ work'[w].gen = work[w].gen
    BY <1>0, <1>2 DEF Unclaiming, Goes
  <2>2. a \in Attempt /\ att[a].job \in Job
    BY <1>0, <1>2, TypeFacts DEF LeaseInv
  <2>3. Fades(att[a], att'[a]) /\ Slows(att[a].job)
    BY <2>2, TypeFacts, <1>0 DEF Unclaiming
  <2> QED BY <1>0, <1>2, <2>1, <2>2, <2>3, TypeFacts DEF LeaseHeld, Fades, Slows
<1> QED BY <1>1, <1>2 DEF LeaseFinal

LEMMA ClaimKeeps ==
  ASSUME TypeInv, LeaseInv, NEW v \in Worker, Claim(v)
  PROVE  LeaseInv' /\ \A w \in Worker : LeaseFinal(w)
<1> DEFINE b == work[v].att
           j == att[b].job
<1>0. /\ TypeOK /\ \A w \in Worker : work[w].gen \in Nat
      /\ b \in Attempt /\ j \in Job /\ att[b].gen \in Nat /\ work[v].gen = 0
      /\ job[j].cur = b /\ work[v].pc = "claim"
  <2>1. TypeOK /\ work[v] \in Execution /\ \A w \in Worker : work[w].gen \in Nat
    BY DEF TypeInv, TypeOK, Execution
  <2>2. b \in Attempt /\ j \in Job /\ job[j].cur = b /\ work[v].pc = "claim"
    BY <2>1, TypeFacts DEF TypeInv, WiredWork, Claim, Claimable
  <2> QED BY <2>1, <2>2, TypeFacts DEF LeaseInv, AttemptRow
<1>1. /\ work'[v].gen = att[b].gen + 1 /\ work'[v].att = b /\ work'[v].pc = "check"
      /\ \A w \in Worker : w # v => work'[w] = work[w]
  BY <1>0 DEF Claim, TypeOK, Execution
<1>2. /\ att'[b].gen = att[b].gen + 1 /\ att'[b].job = j
      /\ \A c \in Attempt : c # b => att'[c] = att[c]
  BY <1>0, TypeFacts DEF Claim, ClaimedRow, TypeOK, AttemptRow
<1>3. \A k \in Job : job'[k].cur = job[k].cur /\ (k # j => job'[k] = job[k])
  BY <1>0, TypeFacts, BecomesFields DEF Claim, TypeOK
<1>4. LeaseInv'
  BY <1>0, <1>1, <1>2, TypeFacts DEF LeaseInv
<1>5. ASSUME NEW w \in Worker, work[w].gen > 0, LeaseHeld(w)' PROVE LeaseHeld(w)
  <2> DEFINE a == work[w].att
  <2>1. w # v /\ work'[w] = work[w] /\ a \in Attempt /\ work[w].gen <= att[a].gen
        /\ att[a].gen \in Nat /\ att[a].job \in Job
    BY <1>0, <1>1, <1>5, TypeFacts DEF LeaseInv, AttemptRow
  <2>2. a # b
    BY <1>0, <1>2, <1>5, <2>1 DEF LeaseHeld
  <2>3. att'[a] = att[a] /\ job'[att[a].job].cur = a
    BY <1>2, <1>5, <2>1, <2>2 DEF LeaseHeld
  <2>4. job'[att[a].job] = job[att[a].job]
    BY <1>0, <1>3, <2>1, <2>2, <2>3
  <2> QED BY <1>5, <2>1, <2>3, <2>4 DEF LeaseHeld
<1> QED BY <1>4, <1>5 DEF LeaseFinal

LEMMA RowsFade ==
  ASSUME NEW r \in AttemptRow
  PROVE  /\ Fades(r, r)
         /\ r.lease = "live" => Fades(r, [r EXCEPT !.lease = "live"])
         /\ Fades(r, [r EXCEPT !.lease = "expired"])
         /\ Fades(r, DispatchedRow(r)) /\ Fades(r, QuarantinedRow(r))
         /\ Fades(r, UnknownRow(r)) /\ Fades(r, ExpiredRow(r)) /\ Fades(r, RetiredRow(r))
         /\ Fades(r, CancelledRow(r)) /\ Fades(r, StoppedRow(r))
         /\ \A k : k.status \in Settled => Fades(r, StatusOf(r, k))
         /\ \A s, e : Fades(r, EndAttempt(r, s, e))
<1>1. /\ Fades(r, r)
      /\ r.lease = "live" => Fades(r, [r EXCEPT !.lease = "live"])
      /\ Fades(r, [r EXCEPT !.lease = "expired"])
  BY DEF Fades, AttemptRow
<1>2. Fades(r, DispatchedRow(r)) /\ Fades(r, QuarantinedRow(r))
  BY DEF Fades, AttemptRow, DispatchedRow, QuarantinedRow
<1>3. Fades(r, UnknownRow(r)) /\ Fades(r, ExpiredRow(r)) /\ Fades(r, RetiredRow(r))
  BY DEF Fades, AttemptRow, UnknownRow, ExpiredRow, RetiredRow
<1>4. Fades(r, CancelledRow(r)) /\ Fades(r, StoppedRow(r))
  BY DEF Fades, AttemptRow, CancelledRow, EndAttempt, StoppedRow
<1>5. \A k : k.status \in Settled => Fades(r, StatusOf(r, k))
  BY DEF Fades, AttemptRow, StatusOf, Settled
<1>6. \A s, e : Fades(r, EndAttempt(r, s, e))
  BY DEF Fades, AttemptRow, EndAttempt
<1> QED BY <1>1, <1>2, <1>3, <1>4, <1>5, <1>6

\* Steps that leave some of executions, attempts and jobs alone.
LEMMA Still ==
  ASSUME TypeOK
  PROVE  /\ work' = work => \A w \in Worker : Goes(work[w], work'[w])
         /\ att' = att => \A a \in Attempt : Fades(att[a], att'[a])
         /\ job' = job => \A j \in Job : Slows(j)
BY TypeFacts, RowsFade DEF Goes, Slows

LEMMA SlowsBecomes ==
  ASSUME NEW j \in Job, job[j] \in JobRow, NEW s, NEW e, s # "running",
         job'[j] = job[j] \/ job'[j] = JobBecomes(job[j], s, e) \/ job'[j].status = "queued"
  PROVE  Slows(j)
BY BecomesFields DEF Slows

\* The processor's moves.
LEMMA Moves ==
  ASSUME TypeInv, NEW w \in Worker,
         \/ work' = work
         \/ \E b \in Attempt : Deliver(w, b)
         \/ \E pc \in WorkerPc \ {"idle", "claim"} : Goto(w, pc)
         \/ \E q : Finish(w, q)
  PROVE  \A v \in Worker : Goes(work[v], work'[v])
<1>0. work \in [Worker -> Execution]
  BY DEF TypeInv, TypeOK
<1>1. CASE work' = work
  BY <1>1 DEF Goes
<1>2. ASSUME NEW b \in Attempt, Deliver(w, b) PROVE \A v \in Worker : Goes(work[v], work'[v])
  BY <1>0, <1>2 DEF Deliver, Goes
<1>3. ASSUME NEW pc \in WorkerPc \ {"idle", "claim"}, Goto(w, pc)
      PROVE  \A v \in Worker : Goes(work[v], work'[v])
  BY <1>0, <1>3 DEF Goto, Goes, Execution
<1>4. ASSUME NEW q, Finish(w, q) PROVE \A v \in Worker : Goes(work[v], work'[v])
  BY <1>0, <1>4 DEF Finish, Goes, NoExecution
<1> QED BY <1>1, <1>2, <1>3, <1>4

LEMMA WorkerUnclaiming ==
  ASSUME TypeInv, NEW w \in Worker, WorkerStep(w), ~Claim(w)
  PROVE  Unclaiming
<1> DEFINE a == work[w].att
<1>0. /\ TypeOK
      /\ \A b \in Attempt : att[b] \in AttemptRow /\ Fades(att[b], att[b])
      /\ \A j \in Job : job[j] \in JobRow
  BY TypeFacts, RowsFade DEF TypeInv
<1>1. \A v \in Worker : Goes(work[v], work'[v])
  <2>1. \A pc \in {"ready", "late", "calling", "answered", "stale", "error", "settle", "fail"} :
          pc \in WorkerPc \ {"idle", "claim"}
    BY DEF WorkerPc
  <2>2. CASE RenewLease(w)
    BY <2>2, Moves DEF RenewLease
  <2>3. CASE \/ \E b \in Attempt : Deliver(w, b)
             \/ ClaimRefused(w) \/ ClaimConflict(w) \/ Persist(w)
             \/ SettleCancelled(w) \/ SettleStale(w) \/ SettleFailed(w)
    BY <2>3, Moves DEF ClaimRefused, ClaimConflict, Persist, SettleCancelled, SettleStale, SettleFailed
  <2>4. CASE \/ Check(w) \/ CheckFailure(w) \/ Dispatch(w) \/ DispatchRefused(w)
             \/ HandlerSkipsProvider(w) \/ ProviderReturns(w) \/ PersistRefused(w) \/ Quarantine(w)
    <3>1. \E pc \in {"ready", "late", "calling", "answered", "stale", "error", "settle", "fail"} : Goto(w, pc)
      BY <2>4 DEF Check, CheckFailure, AssertNotCancelled, Dispatch, DispatchRefused,
           HandlerSkipsProvider, ProviderReturns, PersistRefused, Quarantine
    <3> QED BY <2>1, <3>1, Moves
  <2> QED BY <2>2, <2>3, <2>4 DEF WorkerStep
<1>2. \A b \in Attempt : Fades(att[b], att'[b])
  <2>1. ASSUME NEW r, att' = [att EXCEPT ![a] = r], a \in Attempt => Fades(att[a], r)
        PROVE  \A b \in Attempt : Fades(att[b], att'[b])
    BY <1>0, <2>1 DEF TypeOK
  <2>2. CASE att' = att
    BY <1>0, <2>2
  <2>3. CASE RenewLease(w) \/ ((Check(w) \/ CheckFailure(w)) /\ att' # att)
    <3>1. att[a].lease = "live" /\ att' = [att EXCEPT ![a] = [att[a] EXCEPT !.lease = "live"]]
      BY <2>3 DEF RenewLease, Check, CheckFailure, AssertNotCancelled, Renewable, Renewed, LeaseHeld
    <3> QED BY <1>0, <2>1, <3>1, RowsFade
  <2>4. CASE Dispatch(w)
    BY <1>0, <2>1, <2>4, RowsFade DEF Dispatch
  <2>5. CASE Quarantine(w) /\ att' # att
    BY <1>0, <2>1, <2>5, RowsFade DEF Quarantine
  <2>6. CASE (Persist(w) \/ SettleCancelled(w) \/ SettleStale(w) \/ SettleFailed(w)) /\ att' # att
    <3>1. \E s, e : att' = [att EXCEPT ![a] = EndAttempt(att[a], s, e)]
      BY <2>6 DEF Persist, SettleCancelled, SettleStale, SettleFailed, EndExecution
    <3> QED BY <1>0, <2>1, <3>1, RowsFade
  <2> QED BY <2>2, <2>3, <2>4, <2>5, <2>6
          DEF WorkerStep, Deliver, ClaimRefused, ClaimConflict, DispatchRefused,
              HandlerSkipsProvider, ProviderReturns, PersistRefused
<1>3. \A j \in Job : Slows(j)
  <2>1. CASE job' = job
    BY <1>0, <2>1, Still
  <2>2. CASE Persist(w) \/ SettleCancelled(w) \/ SettleStale(w) \/ SettleFailed(w)
    <3>1. \E s \in Settled : \E e : EndExecution(w, s, e)
      BY <2>2 DEF Persist, SettleCancelled, SettleStale, SettleFailed, Settled
    <3>2. \A j \in Job : \E s \in Settled : \E e : job'[j] = job[j] \/ job'[j] = JobBecomes(job[j], s, e)
      BY <1>0, <3>1 DEF EndExecution, TypeOK
    <3> QED BY <1>0, <3>2, SlowsBecomes DEF Settled
  <2> QED BY <2>1, <2>2
          DEF WorkerStep, Deliver, RenewLease, ClaimRefused, ClaimConflict, Check, Dispatch,
              DispatchRefused, HandlerSkipsProvider, ProviderReturns, PersistRefused, Quarantine,
              CheckFailure
<1> QED BY <1>1, <1>2, <1>3 DEF Unclaiming

LEMMA PublishUnclaiming ==
  ASSUME TypeInv, NEW p \in Proc, PublishStep(p) \/ AdmitRateLimited(p)
  PROVE  Unclaiming
<1>0. /\ TypeOK /\ work' = work /\ \A j \in Job : job[j] \in JobRow
      /\ \A b \in Attempt : att[b] \in AttemptRow /\ Fades(att[b], att[b])
  BY TypeFacts, RowsFade DEF TypeInv, PublishStep, AdmitReused, AdmitNew, AdmitRejected,
     AdmitRateLimited, Reject, AdmitNotQueued, EnsureOutbox, AddToQueue, MarkPublished
<1>1. \A v \in Worker : Goes(work[v], work'[v])
  BY <1>0, Still
<1>2. \A b \in Attempt : att[b].job # None => Fades(att[b], att'[b])
  <2>1. att' = att \/ \E a \in Attempt : \E r : att[a].job = None /\ att' = [att EXCEPT ![a] = r]
    BY DEF PublishStep, AdmitReused, AdmitNew, AdmitRejected, AdmitRateLimited, Reject,
       AdmitNotQueued, EnsureOutbox, AddToQueue, MarkPublished
  <2> QED BY <1>0, <2>1 DEF TypeOK
<1>3. \A j \in Job : Slows(j)
  <2>1. CASE job' = job
    BY <1>0, <2>1, Still
  <2>2. CASE AdmitRejected(p) \/ AdmitRateLimited(p)
    <3>1. \A j \in Job : job'[j] = job[j] \/ job'[j] = JobBecomes(job[j], "failed", "admission_rejected")
      BY <1>0, <2>2 DEF AdmitRejected, AdmitRateLimited, Reject, TypeOK
    <3> QED BY <1>0, <3>1, SlowsBecomes
  <2>3. ASSUME NEW a \in Attempt, AdmitNew(p, a) PROVE \A j \in Job : Slows(j)
    <3>1. \A j \in Job : job'[j] = job[j] \/ job'[j].status = "queued"
      BY <1>0, <2>3 DEF AdmitNew, Open, TypeOK, JobRow
    <3> QED BY <3>1 DEF Slows
  <2> QED BY <2>1, <2>2, <2>3
          DEF PublishStep, AdmitReused, AdmitNotQueued, EnsureOutbox, AddToQueue, MarkPublished
<1> QED BY <1>1, <1>2, <1>3 DEF Unclaiming

LEMMA ScannerUnclaiming ==
  ASSUME TypeInv, NEW s \in Scanner, ScannerStep(s)
  PROVE  Unclaiming
<1>0. /\ TypeOK /\ s \in Proc /\ \A j \in Job : job[j] \in JobRow
      /\ \A b \in Attempt : att[b] \in AttemptRow /\ Fades(att[b], att[b])
  BY TypeFacts, RowsFade DEF TypeInv, Proc
<1>1. CASE PublishStep(s)
  BY <1>0, <1>1, PublishUnclaiming
<1>2. CASE ~PublishStep(s)
  <2>1. \A v \in Worker : Goes(work[v], work'[v])
    BY <1>0, <1>2, Still
       DEF ScannerStep, ScanBegin, FailUnknownAttempts, FailUnknownJobs, FailExpiredAttempts,
           FailExpiredJobs, ReturnExpiredJobs, ReconcileAttempts, SelectQueued, NextRow, ScanEnd,
           ProbeQueue, RetireAttempt, ClearAttempt, ClearRefused
  <2>2. \A b \in Attempt : Fades(att[b], att'[b])
    <3>1. CASE att' = att
      BY <1>0, <3>1
    <3>2. CASE FailUnknownAttempts(s)
      BY <1>0, <3>2, RowsFade DEF FailUnknownAttempts
    <3>3. CASE FailExpiredAttempts(s)
      BY <1>0, <3>3, RowsFade DEF FailExpiredAttempts
    <3>4. CASE ReconcileAttempts(s)
      BY <1>0, <3>4, RowsFade DEF ReconcileAttempts
    <3>5. CASE RetireAttempt(s)
      BY <1>0, <3>5, RowsFade DEF RetireAttempt, TypeOK
    <3> QED BY <1>2, <3>1, <3>2, <3>3, <3>4, <3>5
            DEF ScannerStep, ScanBegin, FailUnknownJobs, FailExpiredJobs, ReturnExpiredJobs,
                SelectQueued, NextRow, ScanEnd, ProbeQueue, ClearAttempt, ClearRefused
  <2>3. \A j \in Job : Slows(j)
    <3>1. CASE job' = job
      BY <1>0, <3>1, Still
    <3>2. CASE FailUnknownJobs(s) \/ FailExpiredJobs(s)
      <4>1. \A j \in Job : \/ job'[j] = job[j]
                            \/ job'[j] = JobBecomes(job[j], "failed", "outcome_unknown")
                            \/ job'[j] = JobBecomes(job[j], "failed", "expired_before_dispatch")
        BY <3>2 DEF FailUnknownJobs, FailExpiredJobs
      <4>2. \A j \in Job : job'[j] = job[j] \/ job'[j].status = "failed"
        BY <1>0, <4>1, BecomesFields
      <4> QED BY <4>2 DEF Slows
    <3>3. CASE ReturnExpiredJobs(s)
      BY <3>3 DEF ReturnExpiredJobs, QueuedAgain, Slows
    <3>4. CASE ClearAttempt(s)
      <4>1. \A j \in Job : job'[j] = job[j] \/ job'[j].status = "queued"
        BY <1>0, <3>4 DEF ClearAttempt, MayClear, TypeOK, JobRow
      <4> QED BY <4>1 DEF Slows
    <3> QED BY <1>2, <3>1, <3>2, <3>3, <3>4
            DEF ScannerStep, ScanBegin, FailUnknownAttempts, FailExpiredAttempts,
                ReconcileAttempts, SelectQueued, NextRow, ScanEnd, ProbeQueue, RetireAttempt, ClearRefused
  <2> QED BY <2>1, <2>2, <2>3 DEF Unclaiming
<1> QED BY <1>1, <1>2

LEMMA RequestUnclaiming ==
  ASSUME TypeInv, NEW r \in Request, RequestArrives(r) \/ RequestStep(r)
  PROVE  Unclaiming
<1>0. /\ TypeOK /\ r \in Proc /\ \A j \in Job : job[j] \in JobRow
      /\ \A b \in Attempt : att[b] \in AttemptRow /\ Fades(att[b], att[b])
  BY TypeFacts, RowsFade DEF TypeInv, Proc
<1>1. CASE PublishStep(r)
  BY <1>0, <1>1, PublishUnclaiming
<1>2. CASE ~PublishStep(r)
  <2>1. \A v \in Worker : Goes(work[v], work'[v])
    BY <1>0, <1>2, Still
       DEF RequestArrives, RequestStep, Submit, PostLoads, CancelLoads, Requeue, RequeueRefused,
           CancelJob, CancelRefused, RemoveFromQueue
  <2>2. \A b \in Attempt : Fades(att[b], att'[b])
    <3>1. CASE att' = att
      BY <1>0, <3>1
    <3>2. CASE CancelJob(r)
      BY <1>0, <3>2, RowsFade DEF CancelJob, TypeOK
    <3> QED BY <1>2, <3>1, <3>2
            DEF RequestArrives, RequestStep, Submit, PostLoads, CancelLoads, Requeue,
                RequeueRefused, CancelRefused, RemoveFromQueue
  <2>3. \A j \in Job : Slows(j)
    <3>1. CASE job' = job
      BY <1>0, <3>1, Still
    <3>2. ASSUME job' = [job EXCEPT ![proc[r].job] = QueuedAgain]
                 \/ \E k \in Job : job' = [job EXCEPT ![k] = QueuedAgain]
          PROVE  \A j \in Job : Slows(j)
      BY <1>0, <3>2 DEF TypeOK, QueuedAgain, Slows
    <3>3. CASE CancelJob(r)
      <4>1. \A j \in Job : job'[j] = job[j] \/ job'[j] = JobBecomes(job[j], "cancelled", "other")
        BY <1>0, <3>3 DEF CancelJob, TypeOK
      <4> QED BY <1>0, <4>1, SlowsBecomes, SMTT(30)
    <3> QED BY <1>2, <3>1, <3>2, <3>3
            DEF RequestArrives, RequestStep, Submit, PostLoads, CancelLoads, Requeue,
                RequeueRefused, CancelRefused, RemoveFromQueue
  <2> QED BY <2>1, <2>2, <2>3 DEF Unclaiming
<1> QED BY <1>1, <1>2

LEMMA EnvironmentUnclaiming ==
  ASSUME TypeInv, Environment
  PROVE  Unclaiming
<1>0. /\ TypeOK /\ \A j \in Job : job[j] \in JobRow
      /\ \A b \in Attempt : att[b] \in AttemptRow /\ Fades(att[b], att[b])
  BY TypeFacts, RowsFade DEF TypeInv
<1>1. ASSUME NEW p \in Proc, AdmitRateLimited(p) PROVE Unclaiming
  BY <1>1, PublishUnclaiming
<1>2. ASSUME NEW w \in Worker, WorkerCrash(w) \/ StallUnderWorker(w) PROVE Unclaiming
  <2>1. \A v \in Worker : Goes(work[v], work'[v])
    BY <1>0, <1>2 DEF WorkerCrash, StallUnderWorker, Goes, NoExecution, TypeOK, Execution
  <2> QED BY <1>0, <1>2, <2>1, Still DEF WorkerCrash, StallUnderWorker, Unclaiming
<1>3. ASSUME NEW a \in Attempt, RedisLoses(a) PROVE Unclaiming
  <2>1. \A v \in Worker : Goes(work[v], work'[v])
    BY <1>0, <1>3 DEF RedisLoses, Goes, TypeOK, Execution
  <2> QED BY <1>0, <1>3, <2>1, Still DEF RedisLoses, Unclaiming
<1>4. ASSUME NEW a \in Attempt, LeaseExpires(a) PROVE Unclaiming
  <2>1. \A b \in Attempt : Fades(att[b], att'[b])
    BY <1>0, <1>4, RowsFade DEF LeaseExpires, TypeOK
  <2> QED BY <1>0, <1>4, <2>1, Still DEF LeaseExpires, Unclaiming
<1>5. CASE \/ \E a \in Attempt : StallRecovered(a) \/ QueueForgets(a)
           \/ \E p \in Proc : Abandon(p)
  BY <1>0, <1>5, Still DEF StallRecovered, QueueForgets, Abandon, Unclaiming
<1>6. CASE BookReplaced \/ ChaptersRestructured
  <2>1. \A b \in Attempt : Fades(att[b], att'[b])
    BY <1>0, <1>6, RowsFade DEF BookReplaced, ChaptersRestructured
  <2>2. \A j \in Job : job'[j] = job[j] \/ job'[j] = JobBecomes(job[j], "cancelled", "other")
    BY <1>6 DEF BookReplaced, ChaptersRestructured, StopAll
  <2>3. \A j \in Job : Slows(j)
    BY <1>0, <2>2, SlowsBecomes
  <2> QED BY <1>0, <1>6, <2>1, <2>3, Still DEF BookReplaced, ChaptersRestructured, Unclaiming
<1> QED BY <1>1, <1>2, <1>3, <1>4, <1>5, <1>6 DEF Environment

LEMMA LeaseStep ==
  ASSUME TypeInv, LeaseInv, [Next]_vars
  PROVE  LeaseInv' /\ \A w \in Worker : LeaseFinal(w)
<1>1. CASE UNCHANGED vars
  BY <1>1, Still, UnclaimingKeeps DEF vars, Unclaiming, TypeInv
<1>2. ASSUME NEW w \in Worker, WorkerStep(w) PROVE LeaseInv' /\ \A v \in Worker : LeaseFinal(v)
  BY <1>2, ClaimKeeps, WorkerUnclaiming, UnclaimingKeeps
<1>3. CASE ~ \E w \in Worker : WorkerStep(w)
  BY <1>1, <1>3, ScannerUnclaiming, RequestUnclaiming, EnvironmentUnclaiming, UnclaimingKeeps DEF Next
<1> QED BY <1>2, <1>3

\* A paused execution that wakes up after its lease was lost stays fenced out.
THEOREM LostStaysLost == Spec => LeaseLossIsFinal
<1>1. Init => LeaseInv
  BY DEF Init, LeaseInv, NoExecution
<1>2. TypeInv /\ LeaseInv /\ [Next]_vars => LeaseInv'
  BY LeaseStep
<1>3. TypeInv /\ LeaseInv /\ [Next]_vars =>
        [\A w \in Worker : work[w].gen > 0 /\ ~LeaseHeld(w) /\ work'[w].gen > 0 => ~LeaseHeld(w)']_vars
  BY LeaseStep DEF LeaseFinal
<1> QED BY <1>1, <1>2, <1>3, InitType, TypeStep, PTL DEF Spec, LeaseLossIsFinal

-----------------------------------------------------------------------------
(***************************************************************************)
(* The limit on active attempts, and that each attempt it counts can still *)
(* be ended, for any number of jobs, requests, workers and recovery passes. *)
(* Only an admission makes an attempt active, one at a time and under the  *)
(* user's lock; every other step leaves the active attempts or takes some  *)
(* away (Calm).                                                            *)
(***************************************************************************)
\* The row keeps its job, and stays as active as it was or stops being active;
\* a request whose outcome is unknown does not become active again.
Calm(x, y) ==
  /\ y.job = x.job
  /\ y.status = x.status \/ y.status \notin Active
  /\ y.outcome = "outcome_unknown" => y.status \notin Active \/ x.outcome = "outcome_unknown"

AllCalm == \A a \in Attempt : Calm(att[a], att'[a])

LEMMA RowsCalm ==
  ASSUME NEW r \in AttemptRow
  PROVE  /\ Calm(r, r)
         /\ \A l : Calm(r, [r EXCEPT !.lease = l])
         /\ Calm(r, DispatchedRow(r)) /\ Calm(r, QuarantinedRow(r))
         /\ Calm(r, UnknownRow(r)) /\ Calm(r, ExpiredRow(r)) /\ Calm(r, RetiredRow(r))
         /\ Calm(r, CancelledRow(r)) /\ Calm(r, StoppedRow(r))
         /\ \A k : k.status \in Settled => Calm(r, StatusOf(r, k))
         /\ \A s \in Settled : \A e : Calm(r, EndAttempt(r, s, e))
<1>1. /\ Calm(r, r) /\ \A l : Calm(r, [r EXCEPT !.lease = l])
  BY DEF Calm, AttemptRow
<1>2. Calm(r, DispatchedRow(r)) /\ Calm(r, QuarantinedRow(r))
  BY DEF Calm, AttemptRow, DispatchedRow, QuarantinedRow
<1>3. Calm(r, UnknownRow(r)) /\ Calm(r, ExpiredRow(r)) /\ Calm(r, RetiredRow(r))
  BY DEF Calm, AttemptRow, UnknownRow, ExpiredRow, RetiredRow, Active
<1>4. Calm(r, CancelledRow(r)) /\ Calm(r, StoppedRow(r))
  BY DEF Calm, AttemptRow, CancelledRow, EndAttempt, StoppedRow, Active
<1>5. \A k : k.status \in Settled => Calm(r, StatusOf(r, k))
  BY DEF Calm, AttemptRow, StatusOf, Settled, Active
<1>6. \A s \in Settled : \A e : Calm(r, EndAttempt(r, s, e))
  BY DEF Calm, AttemptRow, EndAttempt, Settled, Active
<1> QED BY <1>1, <1>2, <1>3, <1>4, <1>5, <1>6

\* One attempt changes, and calmly.
LEMMA OneCalm ==
  ASSUME TypeOK, NEW a, NEW r, att' = [att EXCEPT ![a] = r], a \in Attempt => Calm(att[a], r)
  PROVE  AllCalm
BY TypeFacts, RowsCalm DEF TypeOK, AllCalm

LEMMA WorkerCalm ==
  ASSUME TypeInv, NEW w \in Worker, WorkerStep(w), ~Claim(w)
  PROVE  AllCalm
<1> DEFINE a == work[w].att
<1>0. TypeOK /\ \A b \in Attempt : att[b] \in AttemptRow /\ Calm(att[b], att[b])
  BY TypeFacts, RowsCalm DEF TypeInv
<1>1. CASE att' = att
  BY <1>0, <1>1 DEF AllCalm
<1>2. CASE RenewLease(w) \/ ((Check(w) \/ CheckFailure(w)) /\ att' # att)
  <2>1. att' = [att EXCEPT ![a] = [att[a] EXCEPT !.lease = "live"]]
    BY <1>2 DEF RenewLease, Check, CheckFailure, AssertNotCancelled, Renewed
  <2> QED BY <1>0, <2>1, RowsCalm, OneCalm
<1>3. CASE Dispatch(w)
  BY <1>0, <1>3, RowsCalm, OneCalm DEF Dispatch
<1>4. CASE Quarantine(w) /\ att' # att
  BY <1>0, <1>4, RowsCalm, OneCalm DEF Quarantine
<1>5. CASE (Persist(w) \/ SettleCancelled(w) \/ SettleStale(w) \/ SettleFailed(w)) /\ att' # att
  <2>1. \E s \in Settled : \E e : att' = [att EXCEPT ![a] = EndAttempt(att[a], s, e)]
    BY <1>5 DEF Persist, SettleCancelled, SettleStale, SettleFailed, EndExecution, Settled
  <2> QED BY <1>0, <2>1, RowsCalm, OneCalm
<1> QED BY <1>1, <1>2, <1>3, <1>4, <1>5
        DEF WorkerStep, Deliver, ClaimRefused, ClaimConflict, DispatchRefused,
            HandlerSkipsProvider, ProviderReturns, PersistRefused

LEMMA ScannerCalm ==
  ASSUME TypeInv, NEW s \in Scanner, ScannerStep(s),
         ~ \E a \in Attempt : AdmitNew(s, a)
  PROVE  AllCalm
<1>0. TypeOK /\ \A b \in Attempt : att[b] \in AttemptRow /\ Calm(att[b], att[b])
  BY TypeFacts, RowsCalm DEF TypeInv
<1>1. CASE att' = att
  BY <1>0, <1>1 DEF AllCalm
<1>2. CASE FailUnknownAttempts(s)
  BY <1>0, <1>2, RowsCalm DEF FailUnknownAttempts, AllCalm
<1>3. CASE FailExpiredAttempts(s)
  BY <1>0, <1>3, RowsCalm DEF FailExpiredAttempts, AllCalm
<1>4. CASE ReconcileAttempts(s)
  BY <1>0, <1>4, RowsCalm DEF ReconcileAttempts, AllCalm
<1>5. CASE RetireAttempt(s) /\ att' # att
  BY <1>0, <1>5, RowsCalm, OneCalm DEF RetireAttempt
<1> QED BY <1>1, <1>2, <1>3, <1>4, <1>5
        DEF ScannerStep, ScanBegin, FailUnknownJobs, FailExpiredJobs, ReturnExpiredJobs,
            SelectQueued, NextRow, ScanEnd, ProbeQueue, RetireAttempt, ClearAttempt, ClearRefused,
            PublishStep, AdmitReused, AdmitRejected, Reject, AdmitNotQueued, EnsureOutbox,
            AddToQueue, MarkPublished

LEMMA RequestCalm ==
  ASSUME TypeInv, NEW r \in Request, RequestArrives(r) \/ RequestStep(r),
         ~ \E a \in Attempt : AdmitNew(r, a)
  PROVE  AllCalm
<1>0. TypeOK /\ \A b \in Attempt : att[b] \in AttemptRow /\ Calm(att[b], att[b])
  BY TypeFacts, RowsCalm DEF TypeInv
<1>1. CASE att' = att
  BY <1>0, <1>1 DEF AllCalm
<1>2. CASE CancelJob(r) /\ att' # att
  <2> DEFINE a == job[proc[r].job].cur
  <2>1. att' = [att EXCEPT ![a] = CancelledRow(att[a])]
    BY <1>2 DEF CancelJob
  <2> QED BY <1>0, <2>1, RowsCalm, OneCalm
<1> QED BY <1>1, <1>2
        DEF RequestArrives, RequestStep, Submit, PostLoads, CancelLoads, Requeue,
            RequeueRefused, CancelRefused, RemoveFromQueue,
            PublishStep, AdmitReused, AdmitRejected, Reject, AdmitNotQueued, EnsureOutbox,
            AddToQueue, MarkPublished

LEMMA EnvironmentCalm ==
  ASSUME TypeInv, Environment
  PROVE  AllCalm
<1>0. TypeOK /\ \A b \in Attempt : att[b] \in AttemptRow /\ Calm(att[b], att[b])
  BY TypeFacts, RowsCalm DEF TypeInv
<1>1. CASE att' = att
  BY <1>0, <1>1 DEF AllCalm
<1>2. ASSUME NEW a \in Attempt, LeaseExpires(a) PROVE AllCalm
  BY <1>0, <1>2, RowsCalm, OneCalm DEF LeaseExpires
<1>3. CASE BookReplaced
  BY <1>0, <1>3, RowsCalm DEF BookReplaced, AllCalm
<1> QED BY <1>1, <1>2, <1>3
        DEF Environment, WorkerCrash, StallUnderWorker, StallRecovered, QueueForgets, RedisLoses,
            Abandon, AdmitRateLimited, Reject, ChaptersRestructured

\* Every step but an admission and a claim is calm.
LEMMA NextCalm ==
  ASSUME TypeInv, [Next]_vars
  PROVE  \/ \E p \in Proc, a \in Attempt : AdmitNew(p, a)
         \/ \E w \in Worker : Claim(w)
         \/ AllCalm
<1>1. CASE UNCHANGED vars
  BY <1>1 DEF vars, AllCalm, Calm
<1>2. \A r \in Request : r \in Proc
  BY DEF Proc
<1>3. \A s \in Scanner : s \in Proc
  BY DEF Proc
<1> QED BY <1>1, <1>2, <1>3, WorkerCalm, ScannerCalm, RequestCalm, EnvironmentCalm DEF Next

-----------------------------------------------------------------------------
(***************************************************************************)
(* The limit.                                                              *)
(***************************************************************************)
\* Only finitely many attempts are active, so that they can be counted.
LimitInv == IsFiniteSet(ActiveAttempts) /\ ActiveWithinLimit

Waning == \A a \in Attempt : att'[a].status \in Active => att[a].status \in Active

\* Attempts that only stop being active stay within the limit.
LEMMA WaningKeeps ==
  ASSUME LimitInv, Waning
  PROVE  LimitInv'
<1> DEFINE A == ActiveAttempts
           B == {a \in Attempt : att'[a].status \in Active}
<1>1. ActiveAttempts' = B
  BY DEF ActiveAttempts
<1>2. B \in SUBSET A
  BY DEF Waning, ActiveAttempts
<1>3. IsFiniteSet(A) /\ (MaxActive > 0 => Cardinality(A) <= MaxActive)
  BY DEF LimitInv, ActiveWithinLimit
<1> HIDE DEF A, B
<1>4. IsFiniteSet(B) /\ Cardinality(B) <= Cardinality(A)
  BY <1>2, <1>3, FS_Subset
<1>5. Cardinality(A) \in Nat /\ Cardinality(B) \in Nat
  BY <1>3, <1>4, FS_CardinalityType
<1>6. MaxActive > 0 => Cardinality(B) <= MaxActive
  BY <1>3, <1>4, <1>5, ConstantsAssumption
<1> QED BY <1>1, <1>4, <1>6 DEF LimitInv, ActiveWithinLimit

\* An admission is counted against the limit it was checked against.
LEMMA AdmitKeeps ==
  ASSUME TypeInv, LimitInv, NEW p \in Proc, NEW a \in Attempt, AdmitNew(p, a)
  PROVE  LimitInv'
<1> DEFINE A == ActiveAttempts
           B == {b \in Attempt : att'[b].status \in Active}
<1>1. ActiveAttempts' = B
  BY DEF ActiveAttempts
<1>2. \A b \in Attempt : b # a => att'[b] = att[b]
  BY DEF AdmitNew, TypeInv, TypeOK
<1>3. B \in SUBSET (A \cup {a})
  BY <1>2 DEF ActiveAttempts
<1>4. IsFiniteSet(A) /\ (MaxActive > 0 => ~(Cardinality(A) >= MaxActive))
  BY DEF LimitInv, AdmitNew, Full
<1> HIDE DEF A, B
<1>5. /\ IsFiniteSet(A \cup {a})
      /\ Cardinality(A \cup {a}) = IF a \in A THEN Cardinality(A) ELSE Cardinality(A) + 1
  BY <1>4, FS_AddElement
<1>6. IsFiniteSet(B) /\ Cardinality(B) <= Cardinality(A \cup {a})
  BY <1>3, <1>5, FS_Subset
<1>7. Cardinality(A) \in Nat /\ Cardinality(B) \in Nat
  BY <1>4, <1>6, FS_CardinalityType
<1>8. MaxActive > 0 => Cardinality(B) <= MaxActive
  BY <1>4, <1>5, <1>6, <1>7, ConstantsAssumption
<1> QED BY <1>1, <1>6, <1>8 DEF LimitInv, ActiveWithinLimit

LEMMA LimitStep == TypeInv /\ LimitInv /\ [Next]_vars => LimitInv'
<1> SUFFICES ASSUME TypeInv, LimitInv, [Next]_vars PROVE LimitInv'
  OBVIOUS
<1>1. ASSUME NEW p \in Proc, NEW a \in Attempt, AdmitNew(p, a) PROVE LimitInv'
  BY <1>1, AdmitKeeps
<1>2. ASSUME NEW w \in Worker, Claim(w) PROVE LimitInv'
  <2>1. \A b \in Attempt : att'[b] = att[b] \/ att[b].status = "queued"
    BY <1>2 DEF Claim, TypeInv, TypeOK
  <2> QED BY <2>1, WaningKeeps DEF Waning, Active
<1>3. CASE AllCalm
  <2>1. Waning
    BY <1>3 DEF AllCalm, Calm, Waning
  <2> QED BY <2>1, WaningKeeps
<1> QED BY <1>1, <1>2, <1>3, NextCalm

LEMMA InitLimit == Init => LimitInv
<1> SUFFICES ASSUME Init PROVE LimitInv
  OBVIOUS
<1>1. ActiveAttempts = {}
  BY DEF Init, ActiveAttempts, NoAttempt, NewAttempt, Active
<1>2. IsFiniteSet({}) /\ Cardinality({}) = 0
  BY FS_EmptySet
<1> QED BY <1>1, <1>2, ConstantsAssumption DEF LimitInv, ActiveWithinLimit

\* However many requests and recovery passes admit at once, no more than
\* PROVIDER_MAX_ACTIVE_ATTEMPTS attempts are queued or running.
THEOREM LimitHolds == Spec => []ActiveWithinLimit
<1>1. LimitInv => ActiveWithinLimit
  BY DEF LimitInv
<1> QED BY <1>1, InitType, InitLimit, TypeStep, LimitStep, PTL DEF Spec

-----------------------------------------------------------------------------
(***************************************************************************)
(* Every attempt that counts against the limit is the current one of its   *)
(* job, and is as far as its job: what ends the job ends the attempt.      *)
(***************************************************************************)
Counted(a) ==
  att[a].status \in Active =>
    /\ att[a].job # None /\ job[att[a].job].cur = a
    /\ job[att[a].job].status = att[a].status

\* What a recovery pass remembers of attempts stays true: they were admitted,
\* and one it will clear has left the queue.
Watching(x, table) ==
  /\ x.pc \in {"probe", "retire", "clear"} => table[x.att].job # None
  /\ x.pc = "clear" => table[x.att].status # "queued"
  /\ \A row \in x.rows : row.cur # None =>
       table[row.cur].job # None /\ (~row.waiting => table[row.cur].status # "queued")

Ended == \A a \in Attempt : att[a].outcome = "outcome_unknown" => att[a].status \notin Active

Watched == \A p \in Proc : Watching(proc[p], att)

CurrentInv == Ended /\ Watched /\ (restructures = 0 => \A a \in Attempt : Counted(a))

(***************************************************************************)
(* What the recovery passes watch.                                         *)
(***************************************************************************)
\* An admitted attempt keeps its job and does not go back to the queue.
Lasting ==
  \A a \in Attempt : att[a].job # None =>
    att'[a].job = att[a].job /\ (att'[a].status = "queued" => att[a].status = "queued")

LEMMA WatchLasts ==
  ASSUME Lasting, NEW x \in Process, WiredProcess(x), Watching(x, att)
  PROVE  Watching(x, att')
BY DEF Lasting, WiredProcess, Watching, Process, SnapshotRow

\* A process forgets rows, and does not begin to probe, retire or clear.
Forgets(x, y) == y.rows \subseteq x.rows /\ y.pc \notin {"probe", "retire", "clear"}

LEMMA WatchForgets ==
  ASSUME NEW x, NEW y, Forgets(x, y), NEW table, Watching(x, table)
  PROVE  Watching(y, table)
BY DEF Forgets, Watching

\* One process moves.
LEMMA WatchMoves ==
  ASSUME TypeInv, Watched, Lasting, NEW p \in Proc, NEW y, proc' = [proc EXCEPT ![p] = y],
         Watching(y, att')
  PROVE  Watched'
<1>1. proc \in [Proc -> Process] /\ WiredProc
  BY DEF TypeInv, TypeOK
<1>2. \A q \in Proc : Watching(proc[q], att')
  BY <1>1, WatchLasts DEF Watched, WiredProc
<1>3. \A q \in Proc : Watching(proc'[q], att')
  BY <1>1, <1>2
<1> QED BY <1>3 DEF Watched

LEMMA WatchStill ==
  ASSUME TypeInv, Watched, Lasting, proc' = proc \/ \E p \in Proc : proc' = [proc EXCEPT ![p] = NoProcess]
  PROVE  Watched'
<1>1. CASE proc' = proc
  <2>1. proc \in [Proc -> Process] /\ WiredProc
    BY DEF TypeInv, TypeOK
  <2>2. \A q \in Proc : Watching(proc[q], att')
    BY <2>1, WatchLasts DEF Watched, WiredProc
  <2> QED BY <1>1, <2>2 DEF Watched
<1>2. ASSUME NEW p \in Proc, proc' = [proc EXCEPT ![p] = NoProcess] PROVE Watched'
  <2>1. Watching(NoProcess, att')
    BY DEF Watching, NoProcess
  <2> QED BY <1>2, <2>1, WatchMoves
<1> QED BY <1>1, <1>2

LEMMA WatchStep ==
  ASSUME TypeInv, Watched, Lasting, NEW p \in Proc,
         \/ Done(p)
         \/ \E pc \in ProcPc \ {"probe", "retire", "clear"} : Step(p, pc)
         \/ \E a : proc' = [proc EXCEPT ![p] = [proc[p] EXCEPT !.pc = "ensure", !.att = a]]
  PROVE  Watched'
<1>1. proc[p] \in Process /\ WiredProcess(proc[p]) /\ Watching(proc[p], att)
  BY DEF TypeInv, TypeOK, WiredProc, Watched
<1>2. Watching(proc[p], att')
  BY <1>1, WatchLasts
<1>3. ASSUME NEW y, Forgets(proc[p], y), proc' = [proc EXCEPT ![p] = y] PROVE Watched'
  BY <1>2, <1>3, WatchForgets, WatchMoves
<1>4. CASE Done(p)
  <2>1. Forgets(proc[p], NoProcess) /\ Forgets(proc[p], [NoProcess EXCEPT !.pc = "rows", !.rows = proc[p].rows])
    BY DEF Forgets, NoProcess
  <2> QED BY <1>3, <1>4, <2>1 DEF Done
<1>5. ASSUME NEW pc \in ProcPc \ {"probe", "retire", "clear"}, Step(p, pc) PROVE Watched'
  <2>1. Forgets(proc[p], [proc[p] EXCEPT !.pc = pc])
    BY <1>1 DEF Forgets, Process
  <2> QED BY <1>3, <1>5, <2>1 DEF Step
<1>6. ASSUME NEW a, proc' = [proc EXCEPT ![p] = [proc[p] EXCEPT !.pc = "ensure", !.att = a]] PROVE Watched'
  <2>1. Forgets(proc[p], [proc[p] EXCEPT !.pc = "ensure", !.att = a])
    BY <1>1 DEF Forgets, Process
  <2> QED BY <1>3, <1>6, <2>1
<1> QED BY <1>4, <1>5, <1>6

LEMMA PublishWatched ==
  ASSUME TypeInv, Watched, Lasting, NEW p \in Proc, PublishStep(p) \/ AdmitRateLimited(p)
  PROVE  Watched'
<1>1. {"ensure", "add", "mark"} \subseteq ProcPc \ {"probe", "retire", "clear"}
  BY DEF ProcPc
<1>2. CASE AdmitReused(p)
  BY <1>2, WatchStep DEF AdmitReused
<1>3. ASSUME NEW a \in Attempt, AdmitNew(p, a) PROVE Watched'
  BY <1>3, WatchStep DEF AdmitNew
<1>4. CASE AdmitRejected(p) \/ AdmitRateLimited(p) \/ AdmitNotQueued(p) \/ MarkPublished(p)
  BY <1>4, WatchStep DEF AdmitRejected, AdmitRateLimited, Reject, AdmitNotQueued, MarkPublished
<1>5. CASE EnsureOutbox(p) \/ AddToQueue(p)
  BY <1>1, <1>5, WatchStep DEF EnsureOutbox, AddToQueue
<1> QED BY <1>2, <1>3, <1>4, <1>5 DEF PublishStep

LEMMA ScannerWatched ==
  ASSUME TypeInv, SafetyInv, Watched, Lasting, NEW s \in Scanner, ScannerStep(s)
  PROVE  Watched'
<1>0. /\ TypeOK /\ s \in Proc /\ proc[s] \in Process /\ WiredProcess(proc[s])
      /\ Watching(proc[s], att) /\ Watching(proc[s], att')
  <2>1. TypeOK /\ s \in Proc
    BY DEF TypeInv, Proc
  <2>2. proc[s] \in Process /\ WiredProcess(proc[s]) /\ Watching(proc[s], att)
    BY <2>1 DEF TypeInv, TypeOK, WiredProc, Watched
  <2> QED BY <2>1, <2>2, WatchLasts
<1>1. CASE PublishStep(s)
  BY <1>0, <1>1, PublishWatched
<1>2. CASE \/ ScanBegin(s) \/ FailUnknownAttempts(s) \/ FailUnknownJobs(s) \/ FailExpiredAttempts(s)
           \/ FailExpiredJobs(s) \/ ReturnExpiredJobs(s) \/ ReconcileAttempts(s) \/ ClearAttempt(s)
  <2>1. {"unknown", "unknown_jobs", "expired", "expired_jobs", "return", "reconcile", "select", "admit"}
          \subseteq ProcPc \ {"probe", "retire", "clear"}
    BY DEF ProcPc
  <2> QED BY <1>0, <1>2, <2>1, WatchStep
          DEF ScanBegin, FailUnknownAttempts, FailUnknownJobs, FailExpiredAttempts, FailExpiredJobs,
              ReturnExpiredJobs, ReconcileAttempts, ClearAttempt
<1>3. CASE ScanEnd(s) \/ ClearRefused(s)
  BY <1>0, <1>3, WatchStill, WatchStep DEF ScanEnd, ClearRefused
<1>4. CASE SelectQueued(s)
  <2> DEFINE rows == {RowOf(j) : j \in {k \in Job : job[k].status = "queued"}}
             y == [proc[s] EXCEPT !.pc = "rows", !.rows = rows]
  <2>1. proc' = [proc EXCEPT ![s] = y] /\ att' = att
    BY <1>4 DEF SelectQueued
  <2>2. \A j \in Job : job[j].cur # None => att[job[j].cur].job # None
    BY <1>0, TypeFacts DEF SafetyInv, Linked
  <2>3. ASSUME NEW row \in rows, row.cur # None
        PROVE  att[row.cur].job # None /\ (~row.waiting => att[row.cur].status # "queued")
    <3>1. PICK j \in Job : row = RowOf(j)
      OBVIOUS
    <3>2. row.cur = job[j].cur
      BY <3>1 DEF RowOf
    <3>3. row.waiting = (job[j].cur # None /\ att[job[j].cur].status = "queued")
      BY <3>1, Zenon DEF RowOf
    <3> QED BY <2>2, <2>3, <3>2, <3>3
  <2>4. y.pc = "rows" /\ y.rows = rows
    BY <1>0 DEF Process
  <2>5. Watching(y, att')
    <3> HIDE DEF rows, y
    <3> QED BY <2>1, <2>3, <2>4 DEF Watching
  <2> QED BY <1>0, <2>1, <2>5, WatchMoves
<1>5. ASSUME NEW row \in proc[s].rows, NextRow(s, row) PROVE Watched'
  <2> DEFINE pc == IF row.cur = None THEN "admit" ELSE IF ~row.waiting THEN "clear"
                   ELSE IF row.published THEN "probe" ELSE "ensure"
             y == [proc[s] EXCEPT !.job = row.job, !.att = row.cur, !.rows = proc[s].rows \ {row},
                                  !.pc = pc]
  <2>1. proc' = [proc EXCEPT ![s] = y] /\ att' = att
    BY <1>5 DEF NextRow
  <2>2. y.pc = pc /\ y.att = row.cur /\ y.rows = proc[s].rows \ {row}
    BY <1>0 DEF Process
  <2>3. Watching(y, att')
    <3> HIDE DEF y
    <3> QED BY <1>0, <2>1, <2>2 DEF Watching
  <2> QED BY <1>0, <2>1, <2>3, WatchMoves
<1>6. CASE ProbeQueue(s)
  <2>1. CASE Step(s, "retire")
    <3>1. Watching([proc[s] EXCEPT !.pc = "retire"], att')
      BY <1>0, <1>6 DEF Watching, Process, ProbeQueue
    <3> QED BY <1>0, <2>1, <3>1, WatchMoves DEF Step
  <2>2. "add" \in ProcPc \ {"probe", "retire", "clear"}
    BY DEF ProcPc
  <2> QED BY <1>0, <1>6, <2>1, <2>2, WatchStep DEF ProbeQueue
<1>7. CASE RetireAttempt(s)
  <2> DEFINE a == proc[s].att
  <2>1. a \in Attempt /\ Step(s, "clear") /\ proc[s].pc = "retire"
    BY <1>0, <1>7 DEF RetireAttempt, WiredProcess
  <2>2. att'[a].status # "queued"
    BY <1>0, <1>7, <2>1, TypeFacts DEF RetireAttempt, RetiredRow, AttemptRow, TypeOK
  <2>3. Watching([proc[s] EXCEPT !.pc = "clear"], att')
    BY <1>0, <2>1, <2>2 DEF Watching, Process
  <2> QED BY <1>0, <2>1, <2>3, WatchMoves DEF Step
<1> QED BY <1>1, <1>2, <1>3, <1>4, <1>5, <1>6, <1>7 DEF ScannerStep

LEMMA RequestWatched ==
  ASSUME TypeInv, Watched, Lasting, NEW r \in Request, RequestArrives(r) \/ RequestStep(r)
  PROVE  Watched'
<1>0. r \in Proc
  BY DEF Proc
<1>1. CASE PublishStep(r)
  BY <1>0, <1>1, PublishWatched
<1>2. CASE RequeueRefused(r) \/ CancelRefused(r) \/ RemoveFromQueue(r)
  BY <1>0, <1>2, WatchStep DEF RequeueRefused, CancelRefused, RemoveFromQueue
<1>3. CASE CancelJob(r)
  <2>1. "remove" \in ProcPc \ {"probe", "retire", "clear"}
    BY DEF ProcPc
  <2> QED BY <1>0, <1>3, <2>1, WatchStep DEF CancelJob
<1>4. ASSUME NEW y, y.rows = {}, y.pc \in {"admit", "requeue", "cancel"}, proc' = [proc EXCEPT ![r] = y]
      PROVE  Watched'
  <2>1. Watching(y, att')
    BY <1>4 DEF Watching
  <2> QED BY <1>0, <1>4, <2>1, WatchMoves
<1>5. CASE Requeue(r)
  <2> DEFINE y == [NoProcess EXCEPT !.pc = "admit", !.job = proc[r].job]
  <2>1. y.rows = {} /\ y.pc = "admit" /\ proc' = [proc EXCEPT ![r] = y]
    BY <1>5 DEF Requeue, NoProcess
  <2> QED BY <1>4, <2>1
<1>6. ASSUME NEW j \in Job, Submit(r, j) \/ PostLoads(r, j) \/ CancelLoads(r, j) PROVE Watched'
  <2> DEFINE x == [NoProcess EXCEPT !.pc = "admit", !.job = j]
             y(pc) == [NoProcess EXCEPT !.pc = pc, !.job = j, !.att = job[j].cur, !.seen = job[j].status]
  <2>1. x.rows = {} /\ x.pc = "admit" /\ \A pc : y(pc).rows = {} /\ y(pc).pc = pc
    BY DEF NoProcess
  <2>2. \/ proc' = [proc EXCEPT ![r] = x]
        \/ proc' = [proc EXCEPT ![r] = y("requeue")]
        \/ proc' = [proc EXCEPT ![r] = y("cancel")]
    BY <1>6 DEF Submit, PostLoads, CancelLoads, Saw
  <2> QED BY <1>4, <2>1, <2>2
<1> QED BY <1>1, <1>2, <1>3, <1>5, <1>6 DEF RequestArrives, RequestStep

(***************************************************************************)
(* What is counted.                                                        *)
(***************************************************************************)
\* Unless a chapter-structure change stops them, a job that changes had no
\* active attempt, or has none any more.
JobsFollow ==
  restructures = 0 => \A j \in Job :
    \/ job'[j] = job[j]
    \/ job[j].status \notin Active \/ job[j].cur = None
    \/ att'[job[j].cur].status \notin Active

LEMMA CalmEnded == ASSUME Ended, AllCalm PROVE Ended'
BY DEF Ended, AllCalm, Calm

LEMMA CalmLasts == ASSUME AllCalm PROVE Lasting
BY DEF AllCalm, Calm, Lasting, Active

LEMMA CountedFollow ==
  ASSUME TypeInv, CurrentInv, AllCalm, JobsFollow, restructures = 0, NEW a \in Attempt
  PROVE  Counted(a)'
<1> DEFINE j == att[a].job
<1>1. SUFFICES ASSUME att'[a].status \in Active
               PROVE  att'[a].job # None /\ job'[att'[a].job].cur = a
                      /\ job'[att'[a].job].status = att'[a].status
  BY DEF Counted
<1>2. att'[a].job = j /\ att'[a].status = att[a].status
  BY <1>1 DEF AllCalm, Calm
<1>3. j # None /\ job[j].cur = a /\ job[j].status = att[a].status
  BY <1>1, <1>2 DEF CurrentInv, Counted
<1>4. j \in Job
  BY <1>3, TypeFacts DEF TypeInv
<1>5. a # None
  BY ConstantsAssumption
<1>6. job'[j] = job[j]
  BY <1>1, <1>2, <1>3, <1>4, <1>5 DEF JobsFollow
<1> QED BY <1>2, <1>3, <1>6

LEMMA CalmCurrent ==
  ASSUME TypeInv, CurrentInv, AllCalm, JobsFollow, Watched', restructures' = restructures
  PROVE  CurrentInv'
BY CalmEnded, CountedFollow DEF CurrentInv

LEMMA SameJobs == job' = job => JobsFollow
BY DEF JobsFollow

LEMMA WorkerCurrent ==
  ASSUME TypeInv, CurrentInv, NEW w \in Worker, WorkerStep(w), ~Claim(w)
  PROVE  CurrentInv'
<1> DEFINE a == work[w].att
<1>0. TypeOK /\ AllCalm /\ Lasting /\ Watched
  BY WorkerCalm, CalmLasts DEF TypeInv, CurrentInv
<1>1. proc' = proc /\ restructures' = restructures
  BY DEF WorkerStep, Deliver, RenewLease, ClaimRefused, ClaimConflict, Check, CheckFailure,
         Dispatch, DispatchRefused, HandlerSkipsProvider, ProviderReturns, Persist, PersistRefused,
         Quarantine, SettleCancelled, SettleStale, SettleFailed
<1>2. Watched'
  BY <1>0, <1>1, WatchStill
<1>3. JobsFollow
  <2>1. CASE job' = job
    BY <2>1, SameJobs
  <2>2. CASE (Persist(w) \/ SettleCancelled(w) \/ SettleStale(w) \/ SettleFailed(w)) /\ job' # job
    <3>1. PICK s \in Settled : \E e :
            /\ LeaseHeld(w)
            /\ job' = [job EXCEPT ![att[a].job] = JobBecomes(job[att[a].job], s, e)]
            /\ att' = [att EXCEPT ![a] = EndAttempt(att[a], s, e)]
      BY <2>2 DEF Persist, SettleCancelled, SettleStale, SettleFailed, EndExecution, Settled
    <3>2. a \in Attempt /\ job[att[a].job].cur = a
      BY <1>0, <3>1, TypeFacts DEF LeaseHeld, TypeOK, Execution
    <3>3. att'[a].status = s
      BY <1>0, <3>1, <3>2, TypeFacts DEF TypeOK, AttemptRow, EndAttempt
    <3>4. \A j \in Job : j # att[a].job => job'[j] = job[j]
      BY <1>0, <3>1 DEF TypeOK
    <3>5. s \notin Active
      BY DEF Settled, Active
    <3> QED BY <3>2, <3>3, <3>4, <3>5 DEF JobsFollow
  <2> QED BY <2>1, <2>2
          DEF WorkerStep, Deliver, RenewLease, ClaimRefused, ClaimConflict, Check, CheckFailure,
              Dispatch, DispatchRefused, HandlerSkipsProvider, ProviderReturns, PersistRefused,
              Quarantine
<1> QED BY <1>0, <1>1, <1>2, <1>3, CalmCurrent

LEMMA ClaimCurrent ==
  ASSUME TypeInv, CurrentInv, NEW w \in Worker, Claim(w)
  PROVE  CurrentInv'
<1> DEFINE b == work[w].att
           k == att[b].job
<1>0. /\ TypeOK /\ b \in Attempt /\ k \in Job /\ k # None /\ Watched
      /\ att[b].status = "queued" /\ job[k].status = "queued" /\ job[k].cur = b
      /\ proc' = proc /\ restructures' = restructures
  BY TypeFacts DEF TypeInv, WiredWork, Claim, Claimable, CurrentInv
<1>1. /\ att'[b].status = "running" /\ att'[b].job = k /\ att'[b].outcome = "claimed"
      /\ \A c \in Attempt : c # b => att'[c] = att[c]
  BY <1>0, TypeFacts DEF Claim, ClaimedRow, TypeOK, AttemptRow
<1>2. /\ job'[k].status = "running" /\ job'[k].cur = b
      /\ \A j \in Job : j # k => job'[j] = job[j]
  BY <1>0, TypeFacts, BecomesFields DEF Claim, TypeOK
<1>3. Lasting
  BY <1>0, <1>1 DEF Lasting
<1>4. Watched'
  BY <1>0, <1>3, WatchStill
<1>5. Ended'
  BY <1>1 DEF CurrentInv, Ended
<1>6. ASSUME restructures = 0, NEW c \in Attempt PROVE Counted(c)'
  <2>1. CASE c = b
    BY <1>0, <1>1, <1>2, <2>1 DEF Counted
  <2>2. CASE c # b
    <3>1. att'[c] = att[c] /\ Counted(c)
      BY <1>1, <1>6, <2>2 DEF CurrentInv
    <3>2. att[c].status \in Active => att[c].job \in Job /\ att[c].job # k
      BY <1>0, <2>2, <3>1, TypeFacts DEF Counted
    <3> QED BY <1>2, <3>1, <3>2 DEF Counted
  <2> QED BY <2>1, <2>2
<1> QED BY <1>0, <1>4, <1>5, <1>6 DEF CurrentInv

LEMMA AdmitCurrent ==
  ASSUME TypeInv, CurrentInv, NEW p \in Proc, NEW a \in Attempt, AdmitNew(p, a)
  PROVE  CurrentInv'
<1> DEFINE k == proc[p].job
<1>0. /\ TypeOK /\ k \in Job /\ k # None /\ Watched
      /\ att[a].job = None /\ job[k].status = "queued" /\ job[k].cur = None
      /\ restructures' = restructures
  BY ConstantsAssumption DEF TypeInv, WiredProc, WiredProcess, AdmitNew, Open, CurrentInv
<1>1. /\ att'[a].status = "queued" /\ att'[a].job = k /\ att'[a].outcome = "not_dispatched"
      /\ \A c \in Attempt : c # a => att'[c] = att[c]
  BY <1>0, TypeFacts DEF AdmitNew, NewAttempt, TypeOK
<1>2. /\ job'[k].status = "queued" /\ job'[k].cur = a
      /\ \A j \in Job : j # k => job'[j] = job[j]
  BY <1>0, TypeFacts DEF AdmitNew, TypeOK, JobRow
<1>3. Lasting
  BY <1>0, <1>1 DEF Lasting
<1>4. Watched'
  BY <1>0, <1>3, PublishWatched DEF PublishStep
<1>5. Ended'
  BY <1>1 DEF CurrentInv, Ended
<1>6. ASSUME restructures = 0, NEW c \in Attempt PROVE Counted(c)'
  <2>1. CASE c = a
    BY <1>0, <1>1, <1>2, <2>1 DEF Counted
  <2>2. CASE c # a
    <3>1. att'[c] = att[c] /\ Counted(c)
      BY <1>1, <1>6, <2>2 DEF CurrentInv
    <3>2. att[c].status \in Active => att[c].job \in Job /\ att[c].job # k
      BY <1>0, <3>1, TypeFacts, ConstantsAssumption DEF Counted
    <3> QED BY <1>2, <3>1, <3>2 DEF Counted
  <2> QED BY <2>1, <2>2
<1> QED BY <1>0, <1>4, <1>5, <1>6 DEF CurrentInv

LEMMA RejectFollows ==
  ASSUME TypeOK, NEW p \in Proc, AdmitRejected(p) \/ AdmitRateLimited(p)
  PROVE  JobsFollow
<1>1. Open(proc[p].job) /\ \E r : job' = [job EXCEPT ![proc[p].job] = r]
  BY DEF AdmitRejected, AdmitRateLimited, Reject
<1>2. \A j \in Job : job'[j] = job[j] \/ job[j].cur = None
  BY <1>1 DEF Open, TypeOK
<1> QED BY <1>2 DEF JobsFollow

LEMMA PublishFollows ==
  ASSUME TypeOK, NEW p \in Proc, PublishStep(p), ~ \E a \in Attempt : AdmitNew(p, a)
  PROVE  JobsFollow
BY RejectFollows, SameJobs
   DEF PublishStep, AdmitReused, AdmitNotQueued, EnsureOutbox, AddToQueue, MarkPublished

LEMMA ScannerCurrent ==
  ASSUME TypeInv, SafetyInv, CurrentInv, NEW s \in Scanner, ScannerStep(s),
         ~ \E a \in Attempt : AdmitNew(s, a)
  PROVE  CurrentInv'
<1>0. /\ TypeOK /\ s \in Proc /\ AllCalm /\ Lasting /\ Watched
      /\ \A j \in Job : job[j].cur \in Attempt \cup {None}
  BY ScannerCalm, CalmLasts, TypeFacts DEF TypeInv, CurrentInv, Proc
<1>1. Watched'
  BY <1>0, ScannerWatched
<1>2. restructures' = restructures
  BY DEF ScannerStep, ScanBegin, FailUnknownAttempts, FailUnknownJobs, FailExpiredAttempts,
         FailExpiredJobs, ReturnExpiredJobs, ReconcileAttempts, SelectQueued, NextRow, ScanEnd,
         ProbeQueue, RetireAttempt, ClearAttempt, ClearRefused, PublishStep, AdmitReused, AdmitNew,
         AdmitRejected, Reject, AdmitNotQueued, EnsureOutbox, AddToQueue, MarkPublished
<1>3. JobsFollow
  <2>1. CASE job' = job
    BY <2>1, SameJobs
  <2>2. CASE FailUnknownJobs(s)
    <3>1. \A j \in Job : job'[j] = job[j] \/ OutcomeUnknown(j)
      BY <2>2 DEF FailUnknownJobs
    <3>2. \A j \in Job : OutcomeUnknown(j) => att[job[j].cur].status \notin Active
      BY <1>0 DEF OutcomeUnknown, CurrentInv, Ended
    <3> QED BY <2>2, <3>1, <3>2 DEF FailUnknownJobs, JobsFollow
  <2>3. CASE FailExpiredJobs(s)
    <3>1. \A j \in Job : job'[j] = job[j] \/ ExpiredUndispatched(j)
      BY <2>3 DEF FailExpiredJobs
    <3>2. \A j \in Job : ExpiredUndispatched(j) => att[job[j].cur].status \notin Active
      BY <1>0 DEF ExpiredUndispatched, SafetyInv, Rows, RowInv, Active
    <3> QED BY <2>3, <3>1, <3>2 DEF FailExpiredJobs, JobsFollow
  <2>4. CASE ReturnExpiredJobs(s)
    BY <2>4 DEF ReturnExpiredJobs, Returnable, JobsFollow, Active
  <2>5. CASE ClearAttempt(s)
    <3> DEFINE a == proc[s].att
               k == proc[s].job
    <3>1. /\ job[k].status = "queued" /\ job[k].cur = a /\ att' = att
          /\ a \in Attempt /\ proc[s].pc = "clear"
          /\ \A j \in Job : j # k => job'[j] = job[j]
      BY <1>0, <2>5 DEF ClearAttempt, MayClear, TypeInv, WiredProc, WiredProcess, TypeOK
    <3>2. att[a].job # None /\ att[a].status # "queued"
      BY <1>0, <3>1 DEF Watched, Watching
    <3>3. k \in Job
      BY <1>0, <3>1 DEF TypeInv, WiredProc, WiredProcess
    <3>4. att[a].job = k
      BY <3>1, <3>2, <3>3, ConstantsAssumption DEF SafetyInv, Linked
    <3>5. restructures = 0 => att[a].status \notin Active
      BY <3>1, <3>2, <3>4 DEF CurrentInv, Counted
    <3> QED BY <3>1, <3>5 DEF JobsFollow
  <2>6. CASE PublishStep(s)
    BY <1>0, <2>6, PublishFollows
  <2> QED BY <2>1, <2>2, <2>3, <2>4, <2>5, <2>6
          DEF ScannerStep, ScanBegin, FailUnknownAttempts, FailExpiredAttempts, ReconcileAttempts,
              SelectQueued, NextRow, ScanEnd, ProbeQueue, RetireAttempt, ClearRefused
<1> QED BY <1>0, <1>1, <1>2, <1>3, CalmCurrent

LEMMA RequestCurrent ==
  ASSUME TypeInv, CurrentInv, NEW r \in Request, RequestArrives(r) \/ RequestStep(r),
         ~ \E a \in Attempt : AdmitNew(r, a)
  PROVE  CurrentInv'
<1>0. TypeOK /\ r \in Proc /\ AllCalm /\ Lasting /\ Watched
  BY RequestCalm, CalmLasts DEF TypeInv, CurrentInv, Proc
<1>1. Watched'
  BY <1>0, RequestWatched
<1>2. restructures' = restructures
  BY DEF RequestArrives, RequestStep, Submit, PostLoads, CancelLoads, Requeue, RequeueRefused,
         CancelJob, CancelRefused, RemoveFromQueue, PublishStep, AdmitReused, AdmitNew,
         AdmitRejected, Reject, AdmitNotQueued, EnsureOutbox, AddToQueue, MarkPublished
<1>3. JobsFollow
  <2>1. CASE job' = job
    BY <2>1, SameJobs
  <2>2. CASE Requeue(r)
    <3>1. job[proc[r].job].status \in Settled
      BY <1>0, <2>2 DEF Requeue, Matches, TypeInv, WiredProc, WiredProcess
    <3>2. \A j \in Job : job'[j] = job[j] \/ job[j].status \in Settled
      BY <1>0, <2>2, <3>1 DEF Requeue, TypeOK
    <3> QED BY <3>2 DEF JobsFollow, Settled, Active
  <2>3. ASSUME NEW k \in Job, Submit(r, k) PROVE JobsFollow
    <3>1. \A j \in Job : job'[j] = job[j] \/ job[j].status = "absent"
      BY <1>0, <2>3 DEF Submit, TypeOK
    <3> QED BY <3>1 DEF JobsFollow, Active
  <2>4. CASE CancelJob(r)
    <3> DEFINE k == proc[r].job
               a == job[k].cur
    <3>1. \A j \in Job : job'[j] = job[j] \/ j = k
      BY <1>0, <2>4 DEF CancelJob, TypeOK
    <3>2. k \in Job
      BY <1>0, <2>4 DEF CancelJob, TypeInv, WiredProc, WiredProcess
    <3>3. a # None => a \in Attempt
      BY <1>0, <3>2, TypeFacts
    <3>4. a # None => att'[a].status \notin Active
      BY <1>0, <2>4, <3>3, TypeFacts, ZenonT(40) DEF CancelJob, CancelledRow, EndAttempt, AttemptRow, TypeOK, Active
    <3> QED BY <3>1, <3>4 DEF JobsFollow
  <2>5. CASE PublishStep(r)
    BY <1>0, <2>5, PublishFollows
  <2> QED BY <2>1, <2>2, <2>3, <2>4, <2>5
          DEF RequestArrives, RequestStep, PostLoads, CancelLoads, RequeueRefused, CancelRefused,
              RemoveFromQueue
<1> QED BY <1>0, <1>1, <1>2, <1>3, CalmCurrent

LEMMA EnvironmentCurrent ==
  ASSUME TypeInv, SafetyInv, CurrentInv, Environment
  PROVE  CurrentInv'
<1>0. TypeOK /\ AllCalm /\ Lasting /\ Watched
  BY EnvironmentCalm, CalmLasts DEF TypeInv, CurrentInv
<1>1. Watched'
  <2>1. CASE proc' = proc \/ \E p \in Proc : proc' = [proc EXCEPT ![p] = NoProcess]
    BY <1>0, <2>1, WatchStill
  <2>2. ASSUME NEW p \in Proc, AdmitRateLimited(p) PROVE Watched'
    BY <1>0, <2>2, PublishWatched
  <2> QED BY <2>1, <2>2
          DEF Environment, WorkerCrash, StallUnderWorker, LeaseExpires, StallRecovered, QueueForgets,
              RedisLoses, Abandon, BookReplaced, ChaptersRestructured
<1>2. CASE ChaptersRestructured
  <2>1. restructures' # 0
    BY <1>0, <1>2 DEF ChaptersRestructured, TypeOK
  <2> QED BY <1>0, <1>1, <2>1, CalmEnded DEF CurrentInv
<1>3. CASE ~ChaptersRestructured
  <2>1. restructures' = restructures
    BY <1>3 DEF Environment, WorkerCrash, StallUnderWorker, LeaseExpires, StallRecovered,
       QueueForgets, RedisLoses, Abandon, AdmitRateLimited, Reject, BookReplaced
  <2>2. JobsFollow
    <3>1. CASE job' = job
      BY <3>1, SameJobs
    <3>2. ASSUME NEW p \in Proc, AdmitRateLimited(p) PROVE JobsFollow
      BY <1>0, <3>2, RejectFollows
    <3>3. CASE BookReplaced
      <4>1. ASSUME NEW j \in Job, job[j].status \in Active, job[j].cur # None
            PROVE  att'[job[j].cur].status \notin Active
        <5> DEFINE a == job[j].cur
        <5>1. a \in Attempt /\ att[a].job = j /\ j # None
          BY <1>0, <4>1, TypeFacts, ConstantsAssumption DEF SafetyInv, Linked
        <5>2. att'[a] = IF att[a].status \in Active THEN StoppedRow(att[a]) ELSE att[a]
          BY <3>3, <4>1, <5>1 DEF BookReplaced
        <5> QED BY <1>0, <5>1, <5>2, TypeFacts DEF StoppedRow, AttemptRow, Active
      <4> QED BY <4>1 DEF JobsFollow
    <3> QED BY <1>3, <3>1, <3>2, <3>3
            DEF Environment, WorkerCrash, StallUnderWorker, LeaseExpires, StallRecovered,
                QueueForgets, RedisLoses, Abandon
  <2> QED BY <1>0, <1>1, <2>1, <2>2, CalmCurrent
<1> QED BY <1>2, <1>3

LEMMA CurrentStep == TypeInv /\ SafetyInv /\ CurrentInv /\ [Next]_vars => CurrentInv'
<1> SUFFICES ASSUME TypeInv, SafetyInv, CurrentInv, [Next]_vars PROVE CurrentInv'
  OBVIOUS
<1>1. CASE UNCHANGED vars
  <2>1. AllCalm /\ JobsFollow /\ Watched /\ proc' = proc /\ restructures' = restructures
    BY <1>1 DEF vars, AllCalm, Calm, JobsFollow, CurrentInv
  <2> QED BY <2>1, CalmLasts, WatchStill, CalmCurrent
<1>2. ASSUME NEW p \in Proc, NEW a \in Attempt, AdmitNew(p, a) PROVE CurrentInv'
  BY <1>2, AdmitCurrent
<1>3. ASSUME NEW w \in Worker, Claim(w) PROVE CurrentInv'
  BY <1>3, ClaimCurrent
<1>4. (\A r \in Request : r \in Proc) /\ (\A s \in Scanner : s \in Proc)
  BY DEF Proc
<1> QED BY <1>1, <1>2, <1>3, <1>4, WorkerCurrent, ScannerCurrent, RequestCurrent, EnvironmentCurrent
        DEF Next

LEMMA InitCurrent == Init => CurrentInv
<1> SUFFICES ASSUME Init PROVE CurrentInv
  OBVIOUS
<1>1. \A a \in Attempt : att[a].status = "absent" /\ att[a].outcome = "not_dispatched"
  BY DEF Init, NoAttempt, NewAttempt
<1>2. \A p \in Proc : proc[p].pc = "idle" /\ proc[p].rows = {}
  BY DEF Init, NoProcess
<1>3. Ended /\ \A a \in Attempt : Counted(a)
  BY <1>1 DEF Ended, Counted, Active
<1>4. Watched
  BY <1>2 DEF Watched, Watching
<1> QED BY <1>3, <1>4 DEF CurrentInv

\* While no chapter-structure change stopped the book's jobs, an attempt that
\* counts against the limit is the current one of its job.
THEOREM CountedIsCurrent == Spec => []ActiveAttemptIsCurrentUnlessRestructured
<1>1. CurrentInv => ActiveAttemptIsCurrentUnlessRestructured
  BY DEF CurrentInv, Counted, ActiveAttemptIsCurrentUnlessRestructured, ActiveAttempts
<1> QED BY <1>1, InitCurrent, CurrentStep, Invariance, PTL DEF Spec

=============================================================================
