------------------------- MODULE ProviderJobs_proofs ------------------------
(***************************************************************************)
(* Theorems about ProviderJobs for every set of jobs, attempts, workers,   *)
(* requests and recovery passes, and every value of the bounds: its types, *)
(* and its safety properties.                                              *)
(***************************************************************************)
EXTENDS ProviderJobs, TLAPS

(***************************************************************************)
(* Every string a row is written with belongs to its column.               *)
(***************************************************************************)
LEMMA Words ==
  /\ \A s \in {"queued", "running", "succeeded", "failed", "cancelled", "absent"} :
       s \in JobStatus /\ s \in AttemptStatus
  /\ \A s \in {"claimed", "in_flight", "succeeded", "failed", "cancelled",
               "outcome_unknown", "quarantined", "not_dispatched"} : s \in Outcome
  /\ \A s \in {"not_started", "not_billable", "estimated", "billed_possible"} : s \in Billing
  /\ \A s \in {"none", "live", "expired"} : s \in Lease
  /\ \A s \in {"none", "admission_rejected", "outcome_unknown",
               "expired_before_dispatch", "other"} : s \in ErrorCode
BY DEF JobStatus, AttemptStatus, Outcome, Billing, Lease, ErrorCode

(***************************************************************************)
(* The rows each statement writes are rows.                                *)
(***************************************************************************)
LEMMA NewRows ==
  /\ NoJob \in JobRow /\ QueuedAgain \in JobRow
  /\ NoAttempt \in AttemptRow
  /\ NoExecution \in Execution
  /\ NoProcess \in Process
<1>1. NoJob \in JobRow /\ QueuedAgain \in JobRow
  BY Words DEF NoJob, QueuedAgain, JobRow
<1>2. NoAttempt \in AttemptRow
  BY Words DEF NoAttempt, NewAttempt, AttemptRow
<1>3. NoExecution \in Execution
  BY DEF NoExecution, Execution, WorkerPc
<1>4. NoProcess \in Process
  BY Words DEF NoProcess, Process, ProcPc
<1> QED BY <1>1, <1>2, <1>3, <1>4

LEMMA NewAttemptRow ==
  ASSUME NEW j \in Job, NEW n \in Nat PROVE NewAttempt(j, n) \in AttemptRow
BY Words DEF NewAttempt, AttemptRow

LEMMA JobRows ==
  ASSUME NEW r \in JobRow, NEW s \in JobStatus, NEW e \in ErrorCode, NEW c \in Attempt \cup {None}
  PROVE  /\ JobBecomes(r, s, e) \in JobRow
         /\ [r EXCEPT !.cur = c, !.err = e] \in JobRow
         /\ [r EXCEPT !.cur = c] \in JobRow
BY DEF JobBecomes, JobRow

LEMMA BillingType == ASSUME NEW r \in AttemptRow PROVE BillingAtEnd(r) \in Billing
BY Words DEF BillingAtEnd

LEMMA WorkerRows ==
  ASSUME NEW r \in AttemptRow
  PROVE  /\ ClaimedRow(r) \in AttemptRow
         /\ DispatchedRow(r) \in AttemptRow
         /\ QuarantinedRow(r) \in AttemptRow
         /\ \A l \in Lease : [r EXCEPT !.lease = l] \in AttemptRow
<1>1. r.gen + 1 \in Nat
  BY DEF AttemptRow
<1>2. ClaimedRow(r) \in AttemptRow
  BY <1>1, Words DEF ClaimedRow, AttemptRow
<1>3. DispatchedRow(r) \in AttemptRow
  BY Words DEF DispatchedRow, AttemptRow
<1>4. QuarantinedRow(r) \in AttemptRow
  BY BillingType, Words DEF QuarantinedRow, AttemptRow
<1>5. \A l \in Lease : [r EXCEPT !.lease = l] \in AttemptRow
  BY DEF AttemptRow
<1> QED BY <1>2, <1>3, <1>4, <1>5

LEMMA EndRows ==
  ASSUME NEW r \in AttemptRow, NEW e \in ErrorCode, NEW s \in {"succeeded", "failed", "cancelled"}
  PROVE  EndAttempt(r, s, e) \in AttemptRow
<1>1. s \in AttemptStatus /\ s \in Outcome /\ "none" \in Lease /\ "none" \in ErrorCode
  BY Words
<1> QED BY <1>1, BillingType DEF EndAttempt, AttemptRow

LEMMA QueueRows ==
  ASSUME NEW r \in AttemptRow, NEW k \in JobRow
  PROVE  /\ UnknownRow(r) \in AttemptRow
         /\ ExpiredRow(r) \in AttemptRow
         /\ RetiredRow(r) \in AttemptRow
         /\ StatusOf(r, k) \in AttemptRow
         /\ CancelledRow(r) \in AttemptRow
         /\ StoppedRow(r) \in AttemptRow
<1>1. UnknownRow(r) \in AttemptRow
  BY Words DEF UnknownRow, AttemptRow
<1>2. ExpiredRow(r) \in AttemptRow
  BY Words DEF ExpiredRow, AttemptRow
<1>3. RetiredRow(r) \in AttemptRow
  BY Words DEF RetiredRow, AttemptRow
<1>4. k.status \in AttemptStatus /\ k.err \in ErrorCode
  BY DEF JobRow, AttemptStatus
<1>5. StatusOf(r, k) \in AttemptRow
  BY <1>4 DEF StatusOf, AttemptRow
<1>6. EndAttempt(r, "cancelled", "other") \in AttemptRow
  BY EndRows, Words
<1>7. CancelledRow(r) \in AttemptRow
  BY <1>6, Words DEF CancelledRow, AttemptRow
<1>8. StoppedRow(r) \in AttemptRow
  BY Words DEF StoppedRow, AttemptRow
<1> QED BY <1>1, <1>2, <1>3, <1>5, <1>7, <1>8

LEMMA ExecutionRows ==
  ASSUME NEW x \in Execution, NEW pc \in WorkerPc, NEW n \in Nat, NEW b \in BOOLEAN
  PROVE  /\ [x EXCEPT !.pc = pc] \in Execution
         /\ [x EXCEPT !.pc = pc, !.gen = n] \in Execution
         /\ [x EXCEPT !.lock = b] \in Execution
BY DEF Execution

LEMMA ProcessRows ==
  ASSUME NEW x \in Process, NEW pc \in ProcPc, NEW a \in Attempt \cup {None},
         NEW rows \in SUBSET SnapshotRow
  PROVE  /\ [x EXCEPT !.pc = pc] \in Process
         /\ [x EXCEPT !.pc = pc, !.att = a] \in Process
         /\ [x EXCEPT !.pc = pc, !.rows = rows] \in Process
BY DEF Process

-----------------------------------------------------------------------------
(***************************************************************************)
(* Type correctness.  An execution knows its attempt; a process about to   *)
(* admit, retire or clear knows its job, one about to publish its attempt, *)
(* and a request that will write compares against the status it asked for. *)
(***************************************************************************)
WiredProcess(x) ==
  /\ x.pc \in {"requeue", "cancel", "admit", "probe", "retire", "clear"} => x.job \in Job
  /\ x.pc \in {"ensure", "add", "mark", "probe", "retire", "clear"} => x.att \in Attempt
  /\ x.pc = "requeue" => x.seen \in Settled
  /\ x.pc = "cancel" => x.seen \in Active

WiredWork == \A w \in Worker : work[w].pc # "idle" => work[w].att \in Attempt
WiredProc == \A p \in Proc : WiredProcess(proc[p])

TypeInv == TypeOK /\ WiredWork /\ WiredProc

LEMMA InitType == Init => TypeInv
<1> SUFFICES ASSUME Init PROVE TypeInv
  OBVIOUS
<1>1. TypeOK
  BY NewRows, ConstantsAssumption DEF Init, TypeOK
<1>2. WiredWork
  BY DEF Init, WiredWork, NoExecution
<1>3. WiredProc
  BY DEF Init, WiredProc, WiredProcess, NoProcess
<1> QED BY <1>1, <1>2, <1>3 DEF TypeInv

LEMMA WorkerType ==
  ASSUME TypeInv, NEW w \in Worker, WorkerStep(w)
  PROVE  TypeOK' /\ proc' = proc
<1> DEFINE a == work[w].att
           states == {"missing", "waiting", "active", "completed", "failed"}
<1> USE DEF TypeInv
<1>0. /\ work[w] \in Execution /\ a \in Attempt \cup {None} /\ work[w].gen \in Nat
      /\ a \in Attempt => att[a] \in AttemptRow /\ att[a].job \in Job \cup {None}
                          /\ att[a].gen + 1 \in Nat
      /\ \A j \in Job : job[j] \in JobRow
      /\ \A pc \in WorkerPc : Goto(w, pc) => work' \in [Worker -> Execution]
  <2>1. work[w] \in Execution /\ \A j \in Job : job[j] \in JobRow
    BY DEF TypeOK
  <2>2. a \in Attempt \cup {None} /\ work[w].gen \in Nat
    BY <2>1 DEF Execution
  <2>3. a \in Attempt => att[a] \in AttemptRow
    BY DEF TypeOK
  <2>4. a \in Attempt => att[a].job \in Job \cup {None} /\ att[a].gen + 1 \in Nat
    BY <2>3 DEF AttemptRow
  <2>5. ASSUME NEW pc \in WorkerPc, Goto(w, pc) PROVE work' \in [Worker -> Execution]
    <3>1. [work[w] EXCEPT !.pc = pc] \in Execution
      BY <2>1 DEF Execution
    <3> QED BY <2>5, <3>1 DEF TypeOK, Goto
  <2> QED BY <2>1, <2>2, <2>3, <2>4, <2>5
<1>1. ASSUME NEW q \in states, Finish(w, q)
      PROVE  work' \in [Worker -> Execution] /\ queue' \in [Attempt -> states]
  BY <1>1, NewRows DEF TypeOK, Finish
<1>2. ASSUME NEW s \in {"succeeded", "failed", "cancelled"}, NEW e \in ErrorCode,
             EndExecution(w, s, e)
      PROVE  job' \in [Job -> JobRow] /\ att' \in [Attempt -> AttemptRow]
  <2>1. \A j \in Job : JobBecomes(job[j], s, e) \in JobRow
    <3>1. \A j \in Job : job[j].cur \in Attempt \cup {None}
      BY <1>0 DEF JobRow
    <3> QED BY <1>0, <3>1, JobRows, Words
  <2>2. a \in Attempt => EndAttempt(att[a], s, e) \in AttemptRow
    BY <1>0, EndRows
  <2> QED BY <1>2, <2>1, <2>2 DEF TypeOK, EndExecution
<1>3. ASSUME NEW pc \in WorkerPc, AssertNotCancelled(w, pc)
      PROVE  work' \in [Worker -> Execution] /\ att' \in [Attempt -> AttemptRow]
  <2>1. "late" \in WorkerPc BY DEF WorkerPc
  <2>2. a \in Attempt => [att[a] EXCEPT !.lease = "live"] \in AttemptRow
    BY <1>0, WorkerRows, Words
  <2> QED BY <1>0, <1>3, <2>1, <2>2 DEF TypeOK, AssertNotCancelled, Renewed
<1>4. ASSUME NEW b \in Attempt, Deliver(w, b) PROVE TypeOK' /\ proc' = proc
  <2>1. [pc |-> "claim", att |-> b, gen |-> 0, lock |-> TRUE] \in Execution
    BY DEF Execution, WorkerPc
  <2> QED BY <1>4, <2>1 DEF Deliver, TypeOK
<1>5. CASE RenewLease(w)
  <2>1. a \in Attempt => [att[a] EXCEPT !.lease = "live"] \in AttemptRow
    BY <1>0, WorkerRows, Words
  <2> QED BY <1>5, <2>1 DEF RenewLease, Renewed, TypeOK
<1>6. CASE ClaimRefused(w)
  BY <1>1, <1>6 DEF ClaimRefused, TypeOK
<1>7. CASE ClaimConflict(w)
  BY <1>1, <1>7 DEF ClaimConflict, TypeOK
<1>8. CASE Claim(w)
  <2>0. a \in Attempt
    BY <1>8 DEF Claim, WiredWork
  <2>1. a \in Attempt => ClaimedRow(att[a]) \in AttemptRow
    BY <1>0, WorkerRows
  <2>2. \A j \in Job : JobBecomes(job[j], "running", "none") \in JobRow
    <3>1. \A j \in Job : job[j].cur \in Attempt \cup {None}
      BY <1>0 DEF JobRow
    <3> QED BY <1>0, <3>1, JobRows, Words
  <2>3. att' \in [Attempt -> AttemptRow] /\ job' \in [Job -> JobRow]
    BY <1>8, <2>1, <2>2 DEF Claim, TypeOK
  <2>4. work' \in [Worker -> Execution]
    <3>1. "check" \in WorkerPc BY DEF WorkerPc
    <3>2. [work[w] EXCEPT !.pc = "check", !.gen = att[a].gen + 1] \in Execution
      BY <1>0, <2>0, <3>1, ExecutionRows
    <3> QED BY <1>8, <3>2 DEF Claim, TypeOK
  <2>5. outbox' \in [Attempt -> {"none", "pending", "published"}]
    BY <1>8 DEF Claim, TypeOK
  <2> QED BY <1>8, <2>3, <2>4, <2>5 DEF Claim, TypeOK
<1>9. CASE Check(w)
  <2>1. "ready" \in WorkerPc BY DEF WorkerPc
  <2> QED BY <1>3, <1>9, <2>1 DEF Check, TypeOK
<1>10. CASE Dispatch(w)
  <2>1. a \in Attempt => DispatchedRow(att[a]) \in AttemptRow
    BY <1>0, WorkerRows
  <2>2. "calling" \in WorkerPc BY DEF WorkerPc
  <2> QED BY <1>0, <1>10, <2>1, <2>2 DEF Dispatch, TypeOK
<1>11. CASE DispatchRefused(w) \/ HandlerSkipsProvider(w) \/ ProviderReturns(w) \/ PersistRefused(w)
  <2>1. \A pc \in {"late", "answered", "stale", "error"} : pc \in WorkerPc
    BY DEF WorkerPc
  <2>2. work' \in [Worker -> Execution]
    BY <1>0, <1>11, <2>1 DEF DispatchRefused, HandlerSkipsProvider, ProviderReturns, PersistRefused
  <2> QED BY <1>11, <2>2 DEF DispatchRefused, HandlerSkipsProvider, ProviderReturns, PersistRefused, TypeOK
<1>12. CASE Persist(w)
  <2>1. EndExecution(w, "succeeded", "none") /\ Finish(w, "completed")
    BY <1>12 DEF Persist
  <2>2. job' \in [Job -> JobRow] /\ att' \in [Attempt -> AttemptRow]
    BY <1>2, <2>1, Words
  <2>3. a \in Attempt
    BY <1>0, <1>12 DEF Persist, LeaseHeld
  <2> QED BY <1>1, <1>12, <2>1, <2>2, <2>3 DEF Persist, TypeOK
<1>13. CASE Quarantine(w)
  <2>1. a \in Attempt => QuarantinedRow(att[a]) \in AttemptRow
    BY <1>0, WorkerRows
  <2>2. "settle" \in WorkerPc BY DEF WorkerPc
  <2>3. att' \in [Attempt -> AttemptRow]
    BY <1>0, <1>13, <2>1 DEF Quarantine, TypeOK
  <2> QED BY <1>0, <1>13, <2>2, <2>3 DEF Quarantine, TypeOK
<1>14. CASE SettleCancelled(w) \/ SettleStale(w) \/ SettleFailed(w)
  <2>1. \E s \in {"succeeded", "failed", "cancelled"}, q \in states :
          EndExecution(w, s, "other") /\ Finish(w, q)
    BY <1>14 DEF SettleCancelled, SettleStale, SettleFailed
  <2>2. job' \in [Job -> JobRow] /\ att' \in [Attempt -> AttemptRow]
    BY <1>2, <2>1, Words
  <2>3. work' \in [Worker -> Execution] /\ queue' \in [Attempt -> states]
    BY <1>1, <2>1
  <2> QED BY <1>14, <2>2, <2>3 DEF SettleCancelled, SettleStale, SettleFailed, TypeOK
<1>15. CASE CheckFailure(w)
  <2>1. "fail" \in WorkerPc BY DEF WorkerPc
  <2> QED BY <1>3, <1>15, <2>1 DEF CheckFailure, TypeOK
<1> QED
  BY <1>4, <1>5, <1>6, <1>7, <1>8, <1>9, <1>10, <1>11, <1>12, <1>13, <1>14, <1>15 DEF WorkerStep

\* An execution knows its attempt from its delivery to its end.
LEMMA WorkerWired ==
  ASSUME TypeInv, NEW w \in Worker, WorkerStep(w)
  PROVE  WiredWork'
<1> USE DEF TypeInv
<1>0. work \in [Worker -> Execution]
  BY DEF TypeOK
<1>1. ASSUME NEW pc, Goto(w, pc), work[w].pc # "idle" PROVE WiredWork'
  BY <1>0, <1>1 DEF Goto, WiredWork, Execution
<1>2. ASSUME NEW q, Finish(w, q) PROVE WiredWork'
  BY <1>0, <1>2 DEF Finish, WiredWork, NoExecution
<1>3. ASSUME NEW b \in Attempt, Deliver(w, b) PROVE WiredWork'
  BY <1>0, <1>3 DEF Deliver, WiredWork
<1>4. CASE RenewLease(w)
  BY <1>4 DEF RenewLease, WiredWork
<1>5. CASE ClaimRefused(w) \/ ClaimConflict(w)
  BY <1>2, <1>5 DEF ClaimRefused, ClaimConflict
<1>6. CASE Claim(w)
  BY <1>0, <1>6 DEF Claim, WiredWork, Execution
<1>7. CASE Check(w) \/ CheckFailure(w)
  BY <1>1, <1>7 DEF Check, CheckFailure, AssertNotCancelled
<1>8. CASE Dispatch(w) \/ DispatchRefused(w) \/ HandlerSkipsProvider(w) \/ ProviderReturns(w)
  BY <1>1, <1>8 DEF Dispatch, DispatchRefused, HandlerSkipsProvider, ProviderReturns
<1>9. CASE PersistRefused(w) \/ Quarantine(w)
  BY <1>1, <1>9 DEF PersistRefused, Quarantine
<1>10. CASE Persist(w) \/ SettleCancelled(w) \/ SettleStale(w) \/ SettleFailed(w)
  BY <1>2, <1>10 DEF Persist, SettleCancelled, SettleStale, SettleFailed
<1> QED
  BY <1>3, <1>4, <1>5, <1>6, <1>7, <1>8, <1>9, <1>10 DEF WorkerStep

-----------------------------------------------------------------------------
(***************************************************************************)
(* The steps of requests and recovery passes.                              *)
(***************************************************************************)
LEMMA ProcUpdate ==
  ASSUME TypeInv, NEW p \in Proc, NEW x \in Process, WiredProcess(x),
         proc' = [proc EXCEPT ![p] = x]
  PROVE  proc' \in [Proc -> Process] /\ WiredProc'
<1>1. proc \in [Proc -> Process]
  BY DEF TypeInv, TypeOK
<1>2. \A q \in Proc : proc'[q] = IF q = p THEN x ELSE proc[q]
  BY <1>1
<1>3. \A q \in Proc : WiredProcess(proc[q])
  BY DEF TypeInv, WiredProc
<1>4. \A q \in Proc : WiredProcess(proc'[q])
  BY <1>2, <1>3
<1>5. WiredProc'
  BY <1>4 DEF WiredProc
<1> QED BY <1>1, <1>5

LEMMA DoneType ==
  ASSUME TypeInv, NEW p \in Proc, Done(p)
  PROVE  proc' \in [Proc -> Process] /\ WiredProc'
<1> DEFINE next == [NoProcess EXCEPT !.pc = "rows", !.rows = proc[p].rows]
<1>1. next \in Process /\ WiredProcess(next)
  <2>1. proc[p].rows \in SUBSET SnapshotRow
    BY DEF TypeInv, TypeOK, Process
  <2>2. "rows" \in ProcPc
    BY DEF ProcPc
  <2>3. next \in Process
    BY <2>1, <2>2, NewRows, ProcessRows
  <2> QED BY <2>3 DEF WiredProcess, NoProcess
<1>2. NoProcess \in Process /\ WiredProcess(NoProcess)
  BY NewRows DEF WiredProcess, NoProcess
<1> QED BY <1>1, <1>2, ProcUpdate DEF Done

LEMMA StepType ==
  ASSUME TypeInv, NEW p \in Proc, NEW pc \in ProcPc, Step(p, pc),
         pc \in {"admit", "probe", "retire", "clear"} => proc[p].job \in Job,
         pc \in {"ensure", "add", "mark", "probe", "retire", "clear"} => proc[p].att \in Attempt,
         pc \notin {"requeue", "cancel"}
  PROVE  proc' \in [Proc -> Process] /\ WiredProc'
<1>1. proc[p] \in Process
  BY DEF TypeInv, TypeOK
<1>2. [proc[p] EXCEPT !.pc = pc] \in Process
  BY <1>1 DEF Process
<1>3. WiredProcess([proc[p] EXCEPT !.pc = pc])
  BY <1>1 DEF WiredProcess, Process
<1> QED BY <1>2, <1>3, ProcUpdate DEF Step

LEMMA PublishType ==
  ASSUME TypeInv, NEW p \in Proc, PublishStep(p) \/ AdmitRateLimited(p)
  PROVE  TypeInv'
<1> USE DEF TypeInv
<1> DEFINE j == proc[p].job
           procs == proc' \in [Proc -> Process] /\ WiredProc'
<1>0. /\ proc[p] \in Process
      /\ proc[p].pc = "admit" => j \in Job
      /\ proc[p].pc \in {"ensure", "add", "mark"} => proc[p].att \in Attempt
      /\ {"ensure", "add", "mark", "admit"} \subseteq ProcPc
  BY DEF TypeOK, WiredProc, WiredProcess, ProcPc
<1>1. CASE AdmitReused(p)
  <2>1. j \in Job /\ job[j].cur \in Attempt
    BY <1>0, <1>1 DEF AdmitReused, Current, TypeOK, JobRow
  <2>2. [proc[p] EXCEPT !.pc = "ensure", !.att = job[j].cur] \in Process
    BY <1>0, <2>1, ProcessRows
  <2>3. WiredProcess([proc[p] EXCEPT !.pc = "ensure", !.att = job[j].cur])
    BY <1>0, <2>1 DEF WiredProcess, Process
  <2>4. procs
    BY <1>1, <2>2, <2>3, ProcUpdate DEF AdmitReused
  <2> QED BY <1>1, <2>4 DEF AdmitReused, TypeOK, WiredWork
<1>2. ASSUME NEW a \in Attempt, AdmitNew(p, a) PROVE TypeInv'
  <2>1. j \in Job /\ NewAttempt(j, asked[j]) \in AttemptRow
    BY <1>0, <1>2, NewAttemptRow DEF AdmitNew, TypeOK
  <2>2. [job[j] EXCEPT !.cur = a, !.err = "none"] \in JobRow
    <3>1. job[j] \in JobRow /\ job[j].status \in JobStatus
      BY <2>1 DEF TypeOK, JobRow
    <3> QED BY <3>1, JobRows, Words
  <2>3. [proc[p] EXCEPT !.pc = "ensure", !.att = a] \in Process
    BY <1>0, ProcessRows
  <2>4. WiredProcess([proc[p] EXCEPT !.pc = "ensure", !.att = a])
    BY <1>0 DEF WiredProcess, Process
  <2>5. procs
    BY <1>2, <2>3, <2>4, ProcUpdate DEF AdmitNew
  <2> QED BY <1>2, <2>1, <2>2, <2>5 DEF AdmitNew, TypeOK, WiredWork
<1>3. CASE AdmitRejected(p) \/ AdmitRateLimited(p)
  <2>1. Reject(p) /\ upsets' \in Nat /\ j \in Job
    BY <1>0, <1>3 DEF AdmitRejected, AdmitRateLimited, TypeOK
  <2>2. JobBecomes(job[j], "failed", "admission_rejected") \in JobRow
    <3>1. job[j] \in JobRow /\ job[j].cur \in Attempt \cup {None}
      BY <2>1 DEF TypeOK, JobRow
    <3> QED BY <3>1, JobRows, Words
  <2>3. procs
    BY <2>1, DoneType DEF Reject
  <2> QED BY <2>1, <2>2, <2>3 DEF Reject, TypeOK, WiredWork
<1>4. CASE AdmitNotQueued(p)
  <2>1. procs
    BY <1>4, DoneType DEF AdmitNotQueued
  <2> QED BY <1>4, <2>1 DEF AdmitNotQueued, TypeOK, WiredWork
<1>5. CASE EnsureOutbox(p)
  <2>1. procs
    BY <1>0, <1>5, StepType DEF EnsureOutbox
  <2> QED BY <1>5, <2>1 DEF EnsureOutbox, TypeOK, WiredWork
<1>6. CASE AddToQueue(p)
  <2>1. procs
    BY <1>0, <1>6, StepType DEF AddToQueue
  <2> QED BY <1>6, <2>1 DEF AddToQueue, TypeOK, WiredWork
<1>7. CASE MarkPublished(p)
  <2>1. procs
    BY <1>7, DoneType DEF MarkPublished
  <2> QED BY <1>7, <2>1 DEF MarkPublished, TypeOK, WiredWork
<1> QED BY <1>1, <1>2, <1>3, <1>4, <1>5, <1>6, <1>7 DEF PublishStep

LEMMA SnapshotRows ==
  ASSUME TypeOK, NEW j \in Job PROVE RowOf(j) \in SnapshotRow
<1>1. job[j].cur \in Attempt \cup {None}
  BY DEF TypeOK, JobRow
<1> QED BY <1>1 DEF RowOf, SnapshotRow

LEMMA ScannerType ==
  ASSUME TypeInv, NEW s \in Scanner, ScannerStep(s)
  PROVE  TypeInv'
<1> USE DEF TypeInv
<1> DEFINE a == proc[s].att
           procs == proc' \in [Proc -> Process] /\ WiredProc'
<1>0. /\ s \in Proc /\ proc[s] \in Process
      /\ \A b \in Attempt : att[b] \in AttemptRow
      /\ \A j \in Job : job[j] \in JobRow /\ job[j].cur \in Attempt \cup {None}
      /\ proc[s].pc \in {"probe", "retire", "clear"} => a \in Attempt /\ proc[s].job \in Job
  BY DEF Proc, TypeOK, JobRow, WiredProc, WiredProcess
<1>1. ASSUME NEW pc \in ProcPc \ {"requeue", "cancel", "admit", "probe", "retire", "clear",
                                  "ensure", "add", "mark"}, Step(s, pc)
      PROVE  procs
  BY <1>0, <1>1, StepType
<1>2. CASE ScanBegin(s)
  <2>1. procs BY <1>1, <1>2 DEF ScanBegin, ProcPc
  <2> QED BY <1>2, <2>1 DEF ScanBegin, TypeOK, WiredWork
<1>3. CASE FailUnknownAttempts(s) \/ FailExpiredAttempts(s) \/ ReconcileAttempts(s)
  <2>1. procs BY <1>1, <1>3 DEF FailUnknownAttempts, FailExpiredAttempts, ReconcileAttempts, ProcPc
  <2>2. \A b \in Attempt : UnknownRow(att[b]) \in AttemptRow /\ ExpiredRow(att[b]) \in AttemptRow
    <3>1. \A b \in Attempt, k \in JobRow : UnknownRow(att[b]) \in AttemptRow /\ ExpiredRow(att[b]) \in AttemptRow
      BY <1>0, QueueRows
    <3> QED BY <3>1, NewRows
  <2>3. \A b \in Attempt : att[b].job \in Job => StatusOf(att[b], job[att[b].job]) \in AttemptRow
    BY <1>0, QueueRows
  <2>4. \A b \in Attempt : att[b].job # None => att[b].job \in Job
    BY <1>0 DEF AttemptRow
  <2>5. att' \in [Attempt -> AttemptRow]
    <3>1. CASE FailUnknownAttempts(s)
      BY <1>0, <2>2, <3>1 DEF FailUnknownAttempts
    <3>2. CASE FailExpiredAttempts(s)
      BY <1>0, <2>2, <3>2 DEF FailExpiredAttempts
    <3>3. CASE ReconcileAttempts(s)
      BY <1>0, <2>3, <2>4, <3>3 DEF ReconcileAttempts
    <3> QED BY <1>3, <3>1, <3>2, <3>3
  <2> QED BY <1>3, <2>1, <2>5
          DEF FailUnknownAttempts, FailExpiredAttempts, ReconcileAttempts, TypeOK, WiredWork
<1>4. CASE FailUnknownJobs(s) \/ FailExpiredJobs(s) \/ ReturnExpiredJobs(s)
  <2>1. procs BY <1>1, <1>4 DEF FailUnknownJobs, FailExpiredJobs, ReturnExpiredJobs, ProcPc
  <2>2. \A j \in Job : /\ JobBecomes(job[j], "failed", "outcome_unknown") \in JobRow
                       /\ JobBecomes(job[j], "failed", "expired_before_dispatch") \in JobRow
    BY <1>0, JobRows, Words
  <2>3. job' \in [Job -> JobRow]
    BY <1>0, <1>4, <2>2, NewRows DEF FailUnknownJobs, FailExpiredJobs, ReturnExpiredJobs
  <2> QED BY <1>4, <2>1, <2>3
          DEF FailUnknownJobs, FailExpiredJobs, ReturnExpiredJobs, TypeOK, WiredWork
<1>5. CASE SelectQueued(s)
  <2> DEFINE rows == {RowOf(j) : j \in {k \in Job : job[k].status = "queued"}}
             next == [proc[s] EXCEPT !.pc = "rows", !.rows = rows]
  <2>1. rows \in SUBSET SnapshotRow
    BY SnapshotRows
  <2>2. "rows" \in ProcPc
    BY DEF ProcPc
  <2> HIDE DEF rows
  <2>3. next \in Process
    BY <1>0, <2>1, <2>2, ProcessRows, ConstantsAssumption DEF Process
  <2>4. WiredProcess(next)
    BY <1>0 DEF WiredProcess, Process
  <2>5. procs
    BY <1>0, <1>5, <2>3, <2>4, ProcUpdate DEF SelectQueued, rows
  <2> QED BY <1>5, <2>5 DEF SelectQueued, TypeOK, WiredWork
<1>6. ASSUME NEW row \in proc[s].rows, NextRow(s, row) PROVE TypeInv'
  <2> DEFINE pc == IF row.cur = None THEN "admit" ELSE IF ~row.waiting THEN "clear"
                   ELSE IF row.published THEN "probe" ELSE "ensure"
             next == [proc[s] EXCEPT !.job = row.job, !.att = row.cur,
                              !.rows = proc[s].rows \ {row}, !.pc = pc]
  <2>1. row.job \in Job /\ row.cur \in Attempt \cup {None} /\ proc[s].rows \ {row} \in SUBSET SnapshotRow
    BY <1>0 DEF Process, SnapshotRow
  <2>2. pc \in ProcPc /\ pc \in {"admit", "clear", "probe", "ensure"} /\ (pc # "admit" => row.cur # None)
    BY DEF ProcPc
  <2> HIDE DEF pc
  <2>3. next \in Process
    BY <1>0, <2>1, <2>2 DEF Process
  <2>4. WiredProcess(next)
    BY <1>0, <2>1, <2>2 DEF WiredProcess, Process
  <2>5. procs
    BY <1>0, <1>6, <2>3, <2>4, ProcUpdate DEF NextRow, pc
  <2> QED BY <1>6, <2>5 DEF NextRow, TypeOK, WiredWork
<1>7. CASE ScanEnd(s)
  <2>1. NoProcess \in Process /\ WiredProcess(NoProcess)
    BY NewRows DEF NoProcess, WiredProcess
  <2>2. procs BY <1>0, <1>7, <2>1, ProcUpdate DEF ScanEnd
  <2> QED BY <1>7, <2>2 DEF ScanEnd, TypeOK, WiredWork
<1>8. CASE ProbeQueue(s)
  <2>1. "retire" \in ProcPc /\ "add" \in ProcPc
    BY DEF ProcPc
  <2>2. procs BY <1>0, <1>8, <2>1, StepType, DoneType DEF ProbeQueue
  <2> QED BY <1>8, <2>2 DEF ProbeQueue, TypeOK, WiredWork
<1>9. CASE RetireAttempt(s)
  <2>1. "clear" \in ProcPc BY DEF ProcPc
  <2>2. procs BY <1>0, <1>9, <2>1, StepType DEF RetireAttempt
  <2>3. RetiredRow(att[a]) \in AttemptRow
    BY <1>0, <1>9, QueueRows, NewRows DEF RetireAttempt
  <2> QED BY <1>9, <2>2, <2>3 DEF RetireAttempt, TypeOK, WiredWork
<1>10. CASE ClearAttempt(s)
  <2>1. "admit" \in ProcPc BY DEF ProcPc
  <2>2. procs BY <1>0, <1>10, <2>1, StepType DEF ClearAttempt
  <2>3. \A j \in Job : [job[j] EXCEPT !.cur = None] \in JobRow
    BY <1>0 DEF JobRow
  <2> QED BY <1>10, <2>2, <2>3 DEF ClearAttempt, TypeOK, WiredWork
<1>11. CASE ClearRefused(s)
  <2>1. procs BY <1>0, <1>11, DoneType DEF ClearRefused
  <2> QED BY <1>11, <2>1 DEF ClearRefused, TypeOK, WiredWork
<1>12. CASE PublishStep(s)
  BY <1>0, <1>12, PublishType
<1> QED BY <1>2, <1>3, <1>4, <1>5, <1>6, <1>7, <1>8, <1>9, <1>10, <1>11, <1>12 DEF ScannerStep

LEMMA SawType ==
  ASSUME TypeInv, NEW r \in Request, NEW j \in Job, NEW pc \in {"requeue", "cancel"},
         Saw(r, j, pc), job[j].status \in (IF pc = "requeue" THEN Settled ELSE Active)
  PROVE  proc' \in [Proc -> Process] /\ WiredProc'
<1> DEFINE next == [NoProcess EXCEPT !.pc = pc, !.job = j, !.att = job[j].cur, !.seen = job[j].status]
<1>1. job[j].cur \in Attempt \cup {None} /\ job[j].status \in JobStatus
  BY DEF TypeInv, TypeOK, JobRow
<1>2. next \in Process
  BY <1>1, NewRows DEF Process, ProcPc
<1>3. WiredProcess(next)
  BY <1>1 DEF WiredProcess, NoProcess
<1>4. r \in Proc
  BY DEF Proc
<1> QED BY <1>2, <1>3, <1>4, ProcUpdate DEF Saw

LEMMA RequestType ==
  ASSUME TypeInv, NEW r \in Request, RequestArrives(r) \/ RequestStep(r)
  PROVE  TypeInv'
<1> USE DEF TypeInv
<1> DEFINE j == proc[r].job
           procs == proc' \in [Proc -> Process] /\ WiredProc'
           admitting(k) == [NoProcess EXCEPT !.pc = "admit", !.job = k]
<1>0. /\ r \in Proc /\ proc[r] \in Process
      /\ \A k \in Job : job[k] \in JobRow /\ job[k].cur \in Attempt \cup {None}
      /\ proc[r].pc \in {"requeue", "cancel"} => j \in Job
  BY DEF Proc, TypeOK, JobRow, WiredProc, WiredProcess
<1>1. ASSUME NEW k \in Job, proc' = [proc EXCEPT ![r] = admitting(k)] PROVE procs
  <2>1. admitting(k) \in Process
    BY NewRows DEF Process, ProcPc
  <2>2. WiredProcess(admitting(k))
    BY DEF WiredProcess, NoProcess
  <2> QED BY <1>0, <1>1, <2>1, <2>2, ProcUpdate
<1>2. ASSUME NEW k \in Job, Submit(r, k) PROVE TypeInv'
  <2>1. procs
    BY <1>1, <1>2 DEF Submit
  <2> QED BY <1>2, <2>1, NewRows DEF Submit, TypeOK, WiredWork
<1>3. ASSUME NEW k \in Job, PostLoads(r, k) PROVE TypeInv'
  <2>1. procs
    BY <1>1, <1>3, SawType DEF PostLoads
  <2> QED BY <1>3, <2>1 DEF PostLoads, TypeOK, WiredWork
<1>4. ASSUME NEW k \in Job, CancelLoads(r, k) PROVE TypeInv'
  <2>1. procs
    BY <1>4, SawType DEF CancelLoads
  <2> QED BY <1>4, <2>1 DEF CancelLoads, TypeOK, WiredWork
<1>5. CASE Requeue(r)
  <2>1. procs
    BY <1>0, <1>1, <1>5 DEF Requeue
  <2>2. j \in Job /\ asked[j] + 1 \in Nat
    BY <1>0, <1>5 DEF Requeue, TypeOK
  <2> QED BY <1>5, <2>1, <2>2, NewRows DEF Requeue, TypeOK, WiredWork
<1>6. CASE RequeueRefused(r) \/ CancelRefused(r)
  <2>1. procs
    BY <1>0, <1>6, DoneType DEF RequeueRefused, CancelRefused
  <2> QED BY <1>6, <2>1 DEF RequeueRefused, CancelRefused, TypeOK, WiredWork
<1>7. CASE CancelJob(r)
  <2>1. "remove" \in ProcPc BY DEF ProcPc
  <2>2. procs
    BY <1>0, <1>7, <2>1, StepType DEF CancelJob
  <2>3. JobBecomes(job[j], "cancelled", "other") \in JobRow
    BY <1>0, <1>7, JobRows, Words DEF CancelJob
  <2>4. \A a \in Attempt : CancelledRow(att[a]) \in AttemptRow
    <3>1. \A a \in Attempt, k \in JobRow : CancelledRow(att[a]) \in AttemptRow
      BY QueueRows DEF TypeOK
    <3> QED BY <3>1, NewRows
  <2> QED BY <1>0, <1>7, <2>2, <2>3, <2>4 DEF CancelJob, TypeOK, WiredWork
<1>8. CASE RemoveFromQueue(r)
  <2>1. procs
    BY <1>0, <1>8, DoneType DEF RemoveFromQueue
  <2> QED BY <1>8, <2>1 DEF RemoveFromQueue, TypeOK, WiredWork
<1>9. CASE PublishStep(r)
  BY <1>0, <1>9, PublishType
<1> QED
  BY <1>2, <1>3, <1>4, <1>5, <1>6, <1>7, <1>8, <1>9 DEF RequestArrives, RequestStep

-----------------------------------------------------------------------------
(***************************************************************************)
(* Faults, the passing of time, and edits of the book.                     *)
(***************************************************************************)
LEMMA EnvironmentType ==
  ASSUME TypeInv, Environment
  PROVE  TypeInv'
<1> USE DEF TypeInv
<1>1. ASSUME NEW w \in Worker, WorkerCrash(w) \/ StallUnderWorker(w) PROVE TypeInv'
  <2>1. NoExecution \in Execution /\ [work[w] EXCEPT !.lock = FALSE] \in Execution
    BY NewRows DEF TypeOK, Execution
  <2>2. work' \in [Worker -> Execution]
    BY <1>1, <2>1 DEF WorkerCrash, StallUnderWorker, TypeOK
  <2>3. WiredWork'
    BY <1>1 DEF WorkerCrash, StallUnderWorker, TypeOK, WiredWork, NoExecution, Execution
  <2> QED BY <1>1, <2>2, <2>3 DEF WorkerCrash, StallUnderWorker, TypeOK, WiredProc
<1>2. ASSUME NEW a \in Attempt, LeaseExpires(a) PROVE TypeInv'
  <2>1. [att[a] EXCEPT !.lease = "expired"] \in AttemptRow
    BY WorkerRows, Words DEF TypeOK
  <2> QED BY <1>2, <2>1 DEF LeaseExpires, TypeOK, WiredWork, WiredProc
<1>3. ASSUME NEW a \in Attempt, StallRecovered(a) \/ QueueForgets(a) PROVE TypeInv'
  BY <1>3 DEF StallRecovered, QueueForgets, TypeOK, WiredWork, WiredProc
<1>4. ASSUME NEW a \in Attempt, RedisLoses(a) PROVE TypeInv'
  <2>1. \A w \in Worker : [work[w] EXCEPT !.lock = FALSE] \in Execution
    BY DEF TypeOK, Execution
  <2>2. work' \in [Worker -> Execution]
    BY <1>4, <2>1 DEF RedisLoses, TypeOK
  <2>3. WiredWork'
    BY <1>4 DEF RedisLoses, TypeOK, WiredWork, Execution
  <2> QED BY <1>4, <2>2, <2>3 DEF RedisLoses, TypeOK, WiredProc
<1>5. ASSUME NEW p \in Proc, Abandon(p) PROVE TypeInv'
  <2>1. WiredProcess(NoProcess)
    BY DEF WiredProcess, NoProcess
  <2>2. proc' \in [Proc -> Process] /\ WiredProc'
    BY <1>5, <2>1, NewRows, ProcUpdate DEF Abandon
  <2> QED BY <1>5, <2>2 DEF Abandon, TypeOK, WiredWork
<1>6. ASSUME NEW p \in Proc, AdmitRateLimited(p) PROVE TypeInv'
  BY <1>6, PublishType
<1>7. CASE BookReplaced \/ ChaptersRestructured
  <2>1. \A j \in Job : JobBecomes(job[j], "cancelled", "other") \in JobRow
    <3>1. \A j \in Job : job[j] \in JobRow /\ job[j].cur \in Attempt \cup {None}
      BY DEF TypeOK, JobRow
    <3> QED BY <3>1, JobRows, Words
  <2>2. \A a \in Attempt : StoppedRow(att[a]) \in AttemptRow
    <3>1. \A a \in Attempt, k \in JobRow : StoppedRow(att[a]) \in AttemptRow
      BY QueueRows DEF TypeOK
    <3> QED BY <3>1, NewRows
  <2>3. StopAll("other") /\ upsets' \in Nat /\ restructures' \in Nat
    BY <1>7 DEF BookReplaced, ChaptersRestructured, TypeOK
  <2>4. job' \in [Job -> JobRow]
    BY <2>1, <2>3 DEF StopAll, TypeOK
  <2>5. att' \in [Attempt -> AttemptRow]
    BY <1>7, <2>2 DEF BookReplaced, ChaptersRestructured, TypeOK
  <2> QED BY <1>7, <2>3, <2>4, <2>5 DEF BookReplaced, ChaptersRestructured, TypeOK, WiredWork, WiredProc
<1> QED BY <1>1, <1>2, <1>3, <1>4, <1>5, <1>6, <1>7 DEF Environment

LEMMA TypeStep == TypeInv /\ [Next]_vars => TypeInv'
<1> SUFFICES ASSUME TypeInv, [Next]_vars PROVE TypeInv'
  OBVIOUS
<1>1. ASSUME NEW w \in Worker, WorkerStep(w) PROVE TypeInv'
  BY <1>1, WorkerType, WorkerWired DEF TypeInv, WiredProc
<1>2. ASSUME NEW s \in Scanner, ScannerStep(s) PROVE TypeInv'
  BY <1>2, ScannerType
<1>3. ASSUME NEW r \in Request, RequestArrives(r) \/ RequestStep(r) PROVE TypeInv'
  BY <1>3, RequestType
<1>4. CASE Environment
  BY <1>4, EnvironmentType
<1>5. CASE UNCHANGED vars
  BY <1>5 DEF vars, TypeInv, TypeOK, WiredWork, WiredProc
<1> QED BY <1>1, <1>2, <1>3, <1>4, <1>5 DEF Next

THEOREM TypeCorrect == Spec => []TypeOK
<1>1. TypeInv => TypeOK
  BY DEF TypeInv
<1> QED BY InitType, TypeStep, <1>1, PTL DEF Spec

-----------------------------------------------------------------------------
(***************************************************************************)
(* Safety.  Each statement of the code changes a row in one of a few ways  *)
(* (Evolves, Settles); the inductive invariant is shown to survive those,  *)
(* and each action to be made of them.                                     *)
(***************************************************************************)
(***************************************************************************)
(* The inductive invariant.                                                *)
(***************************************************************************)
\* What an attempt row says is consistent: a row without a job is blank, one
\* that was sent says so in every column, one that expired before its dispatch
\* failed and was not sent.
RowInv(r) ==
  /\ r.job = None => r.status = "absent"
  /\ r.sent => /\ r.billing \in {"estimated", "billed_possible"}
               /\ r.status \notin {"absent", "queued"}
               /\ r.outcome \notin {"not_dispatched", "claimed"}
               /\ r.code # "expired_before_dispatch"
  /\ r.code = "expired_before_dispatch" => r.status = "failed" /\ r.outcome = "failed"

Rows == \A a \in Attempt : RowInv(att[a])

\* The current attempt of a job was admitted for it and for its standing
\* request; no attempt was admitted for a request yet to come.
Linked ==
  /\ \A j \in Job : job[j].cur # None =>
       att[job[j].cur].job = j /\ att[job[j].cur].round = asked[j]
  /\ \A a \in Attempt : att[a].job # None => att[a].round <= asked[att[a].job]

\* Once the standing request was sent, the job points at the attempt that sent
\* it and is not queued again.
SentStands ==
  \A a \in Attempt : \A j \in Job :
    att[a].sent /\ att[a].job = j /\ att[a].round = asked[j] =>
      job[j].cur = a /\ job[j].status # "queued"

\* A job that goes back to the queue by itself points at an attempt that
\* expired before its dispatch.
ReturnsUnsent ==
  \A j \in Job : Returnable(j) =>
    job[j].cur # None /\ att[job[j].cur].code = "expired_before_dispatch"

LandedHasJob == \A a \in landed : att[a].job # None

SafetyInv ==
  /\ Rows /\ Linked /\ SentStands /\ ReturnsUnsent
  /\ LandedHasJob /\ LandedResultStands /\ AtMostOneDispatchPerRequest

-----------------------------------------------------------------------------
(***************************************************************************)
(* How one row changes in every step but an admission and a dispatch.      *)
(***************************************************************************)
Evolves(x, y) ==
  /\ y.job = x.job /\ y.round = x.round /\ y.sent = x.sent
  /\ x.code = "expired_before_dispatch" => y.code = "expired_before_dispatch"
  /\ RowInv(y)

LEMMA WorkerRowsEvolve ==
  ASSUME NEW r \in AttemptRow, RowInv(r)
  PROVE  /\ Evolves(r, r)
         /\ r.status = "queued" => Evolves(r, ClaimedRow(r))
         /\ \A l : Evolves(r, [r EXCEPT !.lease = l])
         /\ r.outcome \in {"in_flight", "outcome_unknown", "cancelled"} =>
              Evolves(r, QuarantinedRow(r))
<1>1. Evolves(r, r)
  BY DEF Evolves
<1>2. r.status = "queued" => Evolves(r, ClaimedRow(r))
  BY DEF Evolves, RowInv, ClaimedRow, AttemptRow
<1>3. \A l : Evolves(r, [r EXCEPT !.lease = l])
  BY DEF Evolves, RowInv, AttemptRow
<1>4. r.outcome \in {"in_flight", "outcome_unknown", "cancelled"} => Evolves(r, QuarantinedRow(r))
  BY DEF Evolves, RowInv, QuarantinedRow, BillingAtEnd, AttemptRow
<1> QED BY <1>1, <1>2, <1>3, <1>4

LEMMA EndRowsEvolve ==
  ASSUME NEW r \in AttemptRow, RowInv(r), r.status \in Active,
         NEW s \in Settled, NEW e \in ErrorCode \ {"expired_before_dispatch"}
  PROVE  Evolves(r, EndAttempt(r, s, e)) /\ Evolves(r, CancelledRow(r)) /\ Evolves(r, StoppedRow(r))
<1>1. Evolves(r, EndAttempt(r, s, e))
  BY DEF Evolves, RowInv, EndAttempt, BillingAtEnd, AttemptRow, Settled, Active
<1>2. Evolves(r, CancelledRow(r))
  BY DEF Evolves, RowInv, CancelledRow, EndAttempt, BillingAtEnd, AttemptRow, Active
<1>3. Evolves(r, StoppedRow(r))
  BY DEF Evolves, RowInv, StoppedRow, AttemptRow, Active
<1> QED BY <1>1, <1>2, <1>3

LEMMA QueueRowsEvolve ==
  ASSUME NEW r \in AttemptRow, RowInv(r)
  PROVE  /\ r.status = "running" /\ r.outcome \in {"in_flight", "outcome_unknown"} =>
              Evolves(r, UnknownRow(r))
         /\ r.status = "running" /\ r.outcome \in {"not_dispatched", "claimed"} =>
              Evolves(r, ExpiredRow(r))
         /\ r.status = "queued" => Evolves(r, RetiredRow(r))
         /\ \A k \in JobRow : r.status \in Active /\ k.status \in Settled => Evolves(r, StatusOf(r, k))
<1>1. r.status = "running" /\ r.outcome \in {"in_flight", "outcome_unknown"} => Evolves(r, UnknownRow(r))
  BY DEF Evolves, RowInv, UnknownRow, AttemptRow
<1>2. r.status = "running" /\ r.outcome \in {"not_dispatched", "claimed"} => Evolves(r, ExpiredRow(r))
  BY DEF Evolves, RowInv, ExpiredRow, AttemptRow
<1>3. r.status = "queued" => Evolves(r, RetiredRow(r))
  BY DEF Evolves, RowInv, RetiredRow, AttemptRow
<1>4. ASSUME NEW k \in JobRow, r.status \in Active, k.status \in Settled PROVE Evolves(r, StatusOf(r, k))
  BY <1>4 DEF Evolves, RowInv, StatusOf, AttemptRow, Active, Settled
<1> QED BY <1>1, <1>2, <1>3, <1>4

(***************************************************************************)
(* How one job changes in every step but an admission, a new request and   *)
(* the steps that clear its current attempt: it starts or ends, and ends   *)
(* as expired before dispatch only if its current attempt did.             *)
(***************************************************************************)
Settles(j) ==
  /\ job[j].status \in Active
  /\ job'[j].cur = job[j].cur /\ job'[j].status \in Settled \cup {"running"}
  /\ job'[j].status = "failed" /\ job'[j].err = "expired_before_dispatch" =>
       job[j].cur # None /\ att'[job[j].cur].code = "expired_before_dispatch"

Quiet ==
  /\ asked' = asked
  /\ \A a \in Attempt : Evolves(att[a], att'[a])
  /\ \A j \in Job : job'[j] = job[j] \/ Settles(j)

LEMMA TypeFacts ==
  ASSUME TypeOK
  PROVE  /\ \A j \in Job : job[j].cur \in Attempt \cup {None} /\ asked[j] \in Nat
         /\ \A a \in Attempt : att[a].job \in Job \cup {None} /\ att[a].round \in Nat
         /\ \A a \in Attempt : att[a].job # None => att[a].job \in Job
         /\ \A a \in Attempt : att[a] \in AttemptRow
         /\ \A j \in Job : job[j] \in JobRow
         /\ None \notin Attempt /\ None \notin Job
         /\ landed \subseteq Attempt
<1>1. \A j \in Job : job[j] \in JobRow /\ asked[j] \in Nat
  BY DEF TypeOK
<1>2. \A a \in Attempt : att[a] \in AttemptRow
  BY DEF TypeOK
<1>3. \A j \in Job : job[j].cur \in Attempt \cup {None}
  BY <1>1 DEF JobRow
<1>4. \A a \in Attempt : att[a].job \in Job \cup {None} /\ att[a].round \in Nat
  BY <1>2 DEF AttemptRow
<1> QED BY <1>1, <1>2, <1>3, <1>4, ConstantsAssumption DEF TypeOK

LEMMA QuietKeeps ==
  ASSUME TypeOK, SafetyInv, Quiet
  PROVE  /\ Rows' /\ Linked' /\ SentStands' /\ ReturnsUnsent' /\ AtMostOneDispatchPerRequest'
         /\ landed' = landed => LandedHasJob' /\ LandedResultStands'
<1> USE DEF SafetyInv
<1>1. \A a \in Attempt : /\ att'[a].job = att[a].job /\ att'[a].round = att[a].round
                         /\ att'[a].sent = att[a].sent /\ RowInv(att'[a])
                         /\ att[a].code = "expired_before_dispatch" =>
                              att'[a].code = "expired_before_dispatch"
  BY DEF Quiet, Evolves
<1>2. \A j \in Job : job'[j] = job[j] \/ Settles(j)
  BY DEF Quiet
<1>3. \A j \in Job : job'[j].cur = job[j].cur
  BY <1>2 DEF Settles
<1>4. asked' = asked
  BY DEF Quiet
<1>5. Rows'
  BY <1>1 DEF Rows
<1>6. Linked'
  BY <1>1, <1>3, <1>4, TypeFacts DEF Linked
<1>7. SentStands'
  <2> SUFFICES ASSUME NEW a \in Attempt, NEW j \in Job,
                      att[a].sent, att[a].job = j, att[a].round = asked[j]
               PROVE  job'[j].cur = a /\ job'[j].status # "queued"
    BY <1>1, <1>4 DEF SentStands
  <2>1. job[j].cur = a /\ job[j].status # "queued"
    BY DEF SentStands
  <2> QED BY <1>2, <1>3, <2>1 DEF Settles, Settled
<1>8. ReturnsUnsent'
  <2> SUFFICES ASSUME NEW j \in Job, Returnable(j)'
               PROVE  job'[j].cur # None /\ att'[job'[j].cur].code = "expired_before_dispatch"
    BY DEF ReturnsUnsent
  <2>1. CASE job'[j] = job[j]
    <3>1. Returnable(j)
      BY <2>1 DEF Returnable
    <3> QED BY <1>1, <1>3, <3>1, TypeFacts DEF ReturnsUnsent
  <2>2. CASE Settles(j)
    BY <1>3, <2>2 DEF Settles, Returnable
  <2> QED BY <1>2, <2>1, <2>2
<1>9. AtMostOneDispatchPerRequest'
  BY <1>1 DEF AtMostOneDispatchPerRequest
<1>10. ASSUME landed' = landed PROVE LandedHasJob' /\ LandedResultStands'
  <2>1. LandedHasJob'
    BY <1>1, <1>10, TypeFacts DEF LandedHasJob
  <2>2. ASSUME NEW a \in landed, att[a].round = asked[att[a].job]
        PROVE  job'[att[a].job].status = "succeeded" /\ job'[att[a].job].cur = a
    <3>1. att[a].job \in Job
      BY TypeFacts DEF LandedHasJob
    <3>2. job[att[a].job].status = "succeeded" /\ job[att[a].job].cur = a
      BY <2>2 DEF LandedResultStands
    <3> QED BY <1>2, <1>3, <3>1, <3>2 DEF Settles, Active, Settled
  <2>3. LandedResultStands'
    BY <1>1, <1>4, <1>10, <2>2, TypeFacts DEF LandedResultStands
  <2> QED BY <2>1, <2>3
<1> QED BY <1>5, <1>6, <1>7, <1>8, <1>9, <1>10

LEMMA BecomesFields ==
  ASSUME NEW r \in JobRow, NEW s, NEW e
  PROVE  /\ JobBecomes(r, s, e).cur = r.cur
         /\ JobBecomes(r, s, e).status = s /\ JobBecomes(r, s, e).err = e
BY DEF JobBecomes, JobRow

(***************************************************************************)
(* The ledger's view of a job, and what a step may do to it.               *)
(***************************************************************************)
Entry(j) == [status |-> job[j].status, sent |-> SentFor(j), stored |-> StoredFor(j)]

LedgerStep == \A j \in Job : Entry(j)' = Entry(j) \/ Ledger!Entails(Entry(j), Entry(j)')

LEMMA EntryMoves ==
  ASSUME NEW sent \in BOOLEAN, NEW stored \in BOOLEAN,
         NEW x \in Active, NEW y \in {"running", "failed", "cancelled"}, x = y \/ y # "running" \/ ~sent
  PROVE  LET e == [status |-> x, sent |-> sent, stored |-> stored]
             f == [status |-> y, sent |-> sent, stored |-> stored]
         IN  f = e \/ Ledger!Entails(e, f)
BY DEF Active, Ledger!Entails, Ledger!Start, Ledger!Fail, Ledger!Cancel

LEMMA EntryMarked ==
  ASSUME NEW sent \in BOOLEAN, NEW stored \in BOOLEAN
  PROVE  /\ Ledger!Entails([status |-> "running", sent |-> sent, stored |-> FALSE],
                            [status |-> "succeeded", sent |-> sent, stored |-> TRUE])
         /\ LET e == [status |-> "running", sent |-> sent, stored |-> stored]
                f == [status |-> "running", sent |-> TRUE, stored |-> stored]
            IN  f = e \/ Ledger!Entails(e, f)
<1>1. Ledger!Deliver([status |-> "running", sent |-> sent, stored |-> FALSE],
                     [status |-> "succeeded", sent |-> sent, stored |-> TRUE])
  BY DEF Ledger!Deliver
<1>2. ~sent => Ledger!Send([status |-> "running", sent |-> sent, stored |-> stored],
                           [status |-> "running", sent |-> TRUE, stored |-> stored])
  BY DEF Ledger!Send
<1> QED BY <1>1, <1>2 DEF Ledger!Entails

\* The marks of an entry stay while no attempt is sent, admitted or stored.
LEMMA MarksStay ==
  ASSUME TypeOK, NEW j \in Job, asked'[j] = asked[j],
         \A a \in Attempt : att'[a].job = att[a].job /\ att'[a].round = att[a].round
                            /\ att'[a].sent = att[a].sent
  PROVE  /\ SentFor(j)' = SentFor(j)
         /\ landed' = landed => StoredFor(j)' = StoredFor(j)
<1>1. SentFor(j)' <=> SentFor(j)
  BY DEF SentFor, AttemptsOf
<1>2. landed' = landed => (StoredFor(j)' <=> StoredFor(j))
  BY TypeFacts DEF StoredFor
<1> QED BY <1>1, <1>2 DEF SentFor, StoredFor

\* A queued job's standing request has not been sent; an unfinished one's
\* result has not been stored.
LEMMA MarksClear ==
  ASSUME TypeOK, SafetyInv, NEW j \in Job
  PROVE  /\ job[j].status = "queued" \/ Returnable(j) => ~SentFor(j)
         /\ job[j].status # "succeeded" => ~StoredFor(j)
<1>1. job[j].status = "queued" => ~SentFor(j)
  BY DEF SafetyInv, SentStands, SentFor, AttemptsOf
<1>2. Returnable(j) => ~SentFor(j)
  BY DEF SafetyInv, SentStands, ReturnsUnsent, Rows, RowInv, SentFor, AttemptsOf
<1>3. job[j].status # "succeeded" => ~StoredFor(j)
  BY DEF SafetyInv, LandedResultStands, StoredFor
<1> QED BY <1>1, <1>2, <1>3

LEMMA QuietStep ==
  ASSUME TypeOK, SafetyInv, Quiet, landed' = landed,
         \A j \in Job : job'[j].status = "succeeded" => job[j].status = "succeeded"
  PROVE  SafetyInv' /\ LedgerStep
<1>1. SafetyInv'
  BY QuietKeeps DEF SafetyInv
<1>2. ASSUME NEW j \in Job PROVE Entry(j)' = Entry(j) \/ Ledger!Entails(Entry(j), Entry(j)')
  <2>1. SentFor(j)' = SentFor(j) /\ StoredFor(j)' = StoredFor(j)
    BY MarksStay DEF Quiet, Evolves
  <2>2. CASE job'[j] = job[j]
    BY <2>1, <2>2 DEF Entry
  <2>3. CASE Settles(j)
    <3>1. job[j].status \in Active /\ job'[j].status \in {"running", "failed", "cancelled"}
      BY <2>3 DEF Settles, Settled, Active
    <3>2. job[j].status = job'[j].status \/ job'[j].status # "running" \/ ~SentFor(j)
      BY <3>1, MarksClear DEF Active
    <3>3. SentFor(j) \in BOOLEAN /\ StoredFor(j) \in BOOLEAN
      BY DEF SentFor, StoredFor
    <3> QED BY <2>1, <3>1, <3>2, <3>3, EntryMoves DEF Entry
  <2> QED BY <2>2, <2>3 DEF Quiet
<1> QED BY <1>1, <1>2 DEF LedgerStep

LEMMA StillStep ==
  ASSUME TypeOK, SafetyInv, UNCHANGED <<job, att, asked, landed>>
  PROVE  SafetyInv' /\ LedgerStep
<1>1. Quiet
  BY TypeFacts, WorkerRowsEvolve DEF Quiet, SafetyInv, Rows
<1> QED BY <1>1, QuietStep

\* A step that changes at most one attempt, and no job.
LEMMA RowStep ==
  ASSUME TypeOK, SafetyInv, NEW a, NEW r, UNCHANGED <<job, asked, landed>>,
         att' = [att EXCEPT ![a] = r], a \in Attempt => Evolves(att[a], r)
  PROVE  SafetyInv' /\ LedgerStep
<1>1. \A b \in Attempt : Evolves(att[b], att[b])
  BY TypeFacts, WorkerRowsEvolve DEF SafetyInv, Rows
<1>2. \A b \in Attempt : att'[b] = IF b = a THEN r ELSE att[b]
  BY DEF TypeOK
<1>3. Quiet
  BY <1>1, <1>2 DEF Quiet
<1> QED BY <1>3, QuietStep

-----------------------------------------------------------------------------
(***************************************************************************)
(* The steps of an execution.                                              *)
(***************************************************************************)
LEMMA EndIsQuiet ==
  ASSUME TypeOK, SafetyInv, NEW w \in Worker,
         NEW s \in Settled, NEW e \in ErrorCode \ {"expired_before_dispatch"},
         EndExecution(w, s, e), asked' = asked
  PROVE  /\ Quiet
         /\ s # "succeeded" =>
              \A j \in Job : job'[j].status = "succeeded" => job[j].status = "succeeded"
<1> DEFINE a == work[w].att
           j == att[a].job
<1>0. \A b \in Attempt : att[b] \in AttemptRow /\ RowInv(att[b]) /\ Evolves(att[b], att[b])
  BY TypeFacts, WorkerRowsEvolve DEF SafetyInv, Rows
<1>1. CASE ~LeaseHeld(w)
  BY <1>0, <1>1 DEF EndExecution, Quiet
<1>2. CASE LeaseHeld(w)
  <2>1. /\ a \in Attempt /\ att[a].status = "running" /\ j \in Job
        /\ job[j].status = "running" /\ job[j].cur = a
    BY <1>2, TypeFacts DEF LeaseHeld, TypeOK, Execution
  <2>2. Evolves(att[a], EndAttempt(att[a], s, e))
    BY <1>0, <2>1, EndRowsEvolve DEF Active
  <2>3. \A b \in Attempt : Evolves(att[b], att'[b])
    BY <1>0, <1>2, <2>1, <2>2 DEF EndExecution, TypeOK
  <2>4. Settles(j)
    <3>1. job'[j] = JobBecomes(job[j], s, e)
      BY <1>2, <2>1 DEF EndExecution, TypeOK
    <3>2. job[j] \in JobRow
      BY <2>1, TypeFacts
    <3>3. job'[j].cur = job[j].cur /\ job'[j].status = s /\ job'[j].err = e
      BY <3>1, <3>2 DEF JobBecomes, JobRow
    <3> QED BY <2>1, <3>3 DEF Settles, Settled, Active
  <2>5. \A k \in Job : k # j => job'[k] = job[k]
    BY <1>2 DEF EndExecution, TypeOK
  <2>6. job'[j].status = s
    BY <1>2, <2>1, TypeFacts, BecomesFields DEF EndExecution, TypeOK
  <2> QED BY <2>3, <2>4, <2>5, <2>6 DEF Quiet
<1> QED BY <1>1, <1>2

LEMMA WorkerSafety ==
  ASSUME TypeInv, SafetyInv, NEW w \in Worker, WorkerStep(w)
  PROVE  SafetyInv' /\ LedgerStep
<1> DEFINE a == work[w].att
<1>0. /\ TypeOK
      /\ a \in Attempt => att[a] \in AttemptRow /\ RowInv(att[a]) /\ Evolves(att[a], att[a])
      /\ work[w].pc # "idle" => a \in Attempt
  BY TypeFacts, WorkerRowsEvolve DEF TypeInv, WiredWork, SafetyInv, Rows
<1>1. CASE \/ \E b \in Attempt : Deliver(w, b)
           \/ ClaimRefused(w) \/ ClaimConflict(w) \/ DispatchRefused(w)
           \/ HandlerSkipsProvider(w) \/ ProviderReturns(w) \/ PersistRefused(w)
  BY <1>0, <1>1, StillStep
     DEF Deliver, ClaimRefused, ClaimConflict, DispatchRefused, HandlerSkipsProvider,
         ProviderReturns, PersistRefused
<1>2. CASE RenewLease(w) \/ Check(w) \/ CheckFailure(w)
  <2>1. CASE att' = att
    BY <1>0, <1>2, <2>1, StillStep DEF RenewLease, Check, CheckFailure
  <2>2. CASE att' = Renewed(w)
    <3>1. a \in Attempt => Evolves(att[a], [att[a] EXCEPT !.lease = "live"])
      BY <1>0, WorkerRowsEvolve
    <3> QED BY <1>0, <1>2, <2>2, <3>1, RowStep DEF RenewLease, Check, CheckFailure, Renewed
  <2> QED BY <1>2, <2>1, <2>2 DEF RenewLease, Check, CheckFailure, AssertNotCancelled
<1>3. CASE Claim(w)
  <2> DEFINE j == att[a].job
  <2>1. /\ a \in Attempt /\ j \in Job /\ job[j].status = "queued" /\ job[j].cur = a
        /\ att[a].status = "queued"
    BY <1>0, <1>3, TypeFacts DEF Claim, Claimable
  <2>2. Evolves(att[a], ClaimedRow(att[a]))
    BY <1>0, <2>1, WorkerRowsEvolve
  <2>3. \A b \in Attempt : Evolves(att[b], att[b])
    BY <1>0, TypeFacts, WorkerRowsEvolve DEF SafetyInv, Rows
  <2>4. \A b \in Attempt : Evolves(att[b], att'[b])
    BY <1>0, <1>3, <2>1, <2>2, <2>3 DEF Claim, TypeOK
  <2>5. job'[j] = JobBecomes(job[j], "running", "none") /\ job[j] \in JobRow
    BY <1>0, <1>3, <2>1 DEF Claim, TypeOK
  <2>6. Settles(j)
    BY <2>1, <2>5 DEF Settles, JobBecomes, JobRow, Active, Settled
  <2>7. \A k \in Job : k # j => job'[k] = job[k]
    BY <1>0, <1>3, <2>1 DEF Claim, TypeOK
  <2>8. Quiet
    BY <1>3, <2>4, <2>6, <2>7 DEF Claim, Quiet
  <2>9. \A k \in Job : job'[k].status = "succeeded" => job[k].status = "succeeded"
    BY <2>5, <2>7, BecomesFields
  <2> QED BY <1>0, <1>3, <2>8, <2>9, QuietStep DEF Claim
<1>4. CASE Quarantine(w)
  <2>1. CASE att' = att
    BY <1>0, <1>4, <2>1, StillStep DEF Quarantine
  <2>2. CASE att' # att
    <3>1. att' = [att EXCEPT ![a] = QuarantinedRow(att[a])]
          /\ att[a].outcome \in {"in_flight", "outcome_unknown", "cancelled"}
      BY <1>4, <2>2 DEF Quarantine
    <3>2. a \in Attempt => Evolves(att[a], QuarantinedRow(att[a]))
      BY <1>0, <3>1, WorkerRowsEvolve
    <3> QED BY <1>0, <1>4, <3>1, <3>2, RowStep DEF Quarantine
  <2> QED BY <2>1, <2>2
<1>5. CASE SettleCancelled(w) \/ SettleStale(w) \/ SettleFailed(w)
  <2>1. \E s \in Settled : s # "succeeded" /\ EndExecution(w, s, "other")
    BY <1>5 DEF SettleCancelled, SettleStale, SettleFailed, Settled
  <2>2. asked' = asked /\ landed' = landed
    BY <1>5 DEF SettleCancelled, SettleStale, SettleFailed
  <2>3. Quiet /\ \A j \in Job : job'[j].status = "succeeded" => job[j].status = "succeeded"
    BY <1>0, <2>1, <2>2, EndIsQuiet, Words
  <2> QED BY <1>0, <2>2, <2>3, QuietStep
<1>6. CASE Persist(w)
  <2> DEFINE j == att[a].job
  <2>1. LeaseHeld(w) /\ EndExecution(w, "succeeded", "none") /\ asked' = asked
        /\ landed' = landed \cup {a}
    BY <1>6 DEF Persist
  <2>2. a \in Attempt /\ j \in Job /\ job[j].status = "running" /\ job[j].cur = a
    BY <1>0, <2>1, TypeFacts DEF LeaseHeld, TypeOK, Execution
  <2>3. Quiet
    BY <1>0, <2>1, EndIsQuiet, Words DEF Settled
  <2>4. /\ Rows' /\ Linked' /\ SentStands' /\ ReturnsUnsent' /\ AtMostOneDispatchPerRequest'
    BY <1>0, <2>3, QuietKeeps
  <2>5. job'[j].status = "succeeded" /\ job'[j].cur = a /\ \A k \in Job : k # j => job'[k] = job[k]
    <3>1. job' = [job EXCEPT ![j] = JobBecomes(job[j], "succeeded", "none")]
      BY <2>1 DEF EndExecution
    <3>2. job'[j] = JobBecomes(job[j], "succeeded", "none") /\ job[j] \in JobRow
      BY <1>0, <2>2, <3>1 DEF TypeOK
    <3>3. job'[j].status = "succeeded" /\ job'[j].cur = job[j].cur
      BY <3>2 DEF JobBecomes, JobRow
    <3> QED BY <1>0, <2>2, <3>1, <3>3 DEF TypeOK
  <2>6. \A b \in Attempt : att'[b].job = att[b].job /\ att'[b].round = att[b].round
    BY <2>3 DEF Quiet, Evolves
  <2>7. LandedHasJob'
    BY <1>0, <2>1, <2>2, <2>6, TypeFacts DEF SafetyInv, LandedHasJob
  <2>8. ASSUME NEW b \in landed, att[b].round = asked[att[b].job]
        PROVE  job'[att[b].job].status = "succeeded" /\ job'[att[b].job].cur = b
    <3>1. att[b].job \in Job /\ job[att[b].job].status = "succeeded" /\ job[att[b].job].cur = b
      BY <1>0, <2>8, TypeFacts DEF SafetyInv, LandedHasJob, LandedResultStands
    <3> QED BY <2>2, <2>5, <3>1
  <2>9. LandedResultStands'
    BY <1>0, <2>1, <2>2, <2>5, <2>6, <2>8, TypeFacts, SMTT(20) DEF LandedResultStands
  <2>10. ASSUME NEW k \in Job PROVE Entry(k)' = Entry(k) \/ Ledger!Entails(Entry(k), Entry(k)')
    <3>1. SentFor(k)' = SentFor(k)
      BY <1>0, <2>1, <2>3, MarksStay DEF Quiet, Evolves
    <3>2. CASE k # j
      <4>1. StoredFor(k)' = StoredFor(k)
        BY <1>0, <2>1, <2>2, <2>6, <3>2, TypeFacts DEF StoredFor
      <4> QED BY <2>5, <3>1, <3>2, <4>1 DEF Entry
    <3>3. CASE k = j
      <4>1. ~StoredFor(k)
        BY <1>0, <2>2, <3>3, MarksClear
      <4>2. StoredFor(k)'
        <5>1. att[a].round = asked[j]
          BY <1>0, <2>2, TypeFacts DEF SafetyInv, Linked
        <5> QED BY <2>1, <2>2, <2>6, <3>3, <5>1 DEF StoredFor
      <4>3. StoredFor(k)' = TRUE /\ StoredFor(k) = FALSE /\ SentFor(k) \in BOOLEAN
        BY <4>1, <4>2 DEF StoredFor, SentFor
      <4> QED BY <2>2, <2>5, <3>1, <3>3, <4>3, EntryMarked DEF Entry
    <3> QED BY <3>2, <3>3
  <2> QED BY <2>4, <2>7, <2>9, <2>10 DEF SafetyInv, LedgerStep
<1>7. CASE Dispatch(w)
  <2> DEFINE j == att[a].job
  <2>1. /\ a \in Attempt /\ j \in Job /\ job[j].status = "running" /\ job[j].cur = a
        /\ att[a].status = "running" /\ att[a] \in AttemptRow /\ RowInv(att[a])
    BY <1>0, <1>7, TypeFacts DEF Dispatch, MayDispatch, LeaseHeld
  <2>2. att' = [att EXCEPT ![a] = DispatchedRow(att[a])] /\ UNCHANGED <<job, asked, landed>>
    BY <1>7 DEF Dispatch
  <2>3. att[a].code # "expired_before_dispatch"
    BY <2>1 DEF RowInv
  <2>4. /\ att'[a].job = j /\ att'[a].round = att[a].round /\ att'[a].sent
        /\ att'[a].code = att[a].code /\ RowInv(att'[a])
    BY <1>0, <2>1, <2>2, <2>3 DEF DispatchedRow, RowInv, TypeOK, AttemptRow
  <2>5. \A b \in Attempt : b # a => att'[b] = att[b]
    BY <1>0, <2>2 DEF TypeOK
  <2>6. Rows'
    BY <2>4, <2>5 DEF SafetyInv, Rows
  <2>7. Linked'
    BY <1>0, <2>2, <2>4, <2>5, TypeFacts, SMTT(20) DEF SafetyInv, Linked
  <2>8. SentStands'
    BY <2>1, <2>2, <2>4, <2>5 DEF SafetyInv, SentStands
  <2>9. ReturnsUnsent'
    BY <1>0, <2>2, <2>4, <2>5, TypeFacts DEF SafetyInv, ReturnsUnsent, Returnable
  <2>10. LandedHasJob' /\ LandedResultStands'
    <3>1. \A b \in Attempt : att'[b].job = att[b].job /\ att'[b].round = att[b].round
      BY <2>4, <2>5
    <3>2. landed \subseteq Attempt /\ job' = job /\ asked' = asked /\ landed' = landed
      BY <1>0, <2>2, TypeFacts
    <3> QED BY <3>1, <3>2 DEF SafetyInv, LandedHasJob, LandedResultStands
  <2>11. ASSUME NEW b \in Attempt, att[b].sent, att[b].job = j, att[b].round = att[a].round
         PROVE  b = a
    <3>1. att[a].round = asked[j]
      BY <1>0, <2>1, TypeFacts DEF SafetyInv, Linked
    <3> QED BY <2>1, <2>11, <3>1 DEF SafetyInv, SentStands
  <2>12. AtMostOneDispatchPerRequest'
    BY <2>4, <2>5, <2>11 DEF SafetyInv, AtMostOneDispatchPerRequest
  <2>13. ASSUME NEW k \in Job PROVE Entry(k)' = Entry(k) \/ Ledger!Entails(Entry(k), Entry(k)')
    <3>1. StoredFor(k)' = StoredFor(k)
      BY <1>0, <2>2, <2>4, <2>5, TypeFacts DEF StoredFor
    <3>2. CASE k # j
      <4>1. SentFor(k)' = SentFor(k)
        BY <2>2, <2>4, <2>5, <3>2 DEF SentFor, AttemptsOf
      <4> QED BY <2>2, <3>1, <4>1 DEF Entry
    <3>3. CASE k = j
      <4>1. SentFor(k)'
        <5>1. att[a].round = asked[j]
          BY <1>0, <2>1, TypeFacts DEF SafetyInv, Linked
        <5> QED BY <2>1, <2>2, <2>4, <3>3, <5>1 DEF SentFor, AttemptsOf
      <4>2. SentFor(k)' = TRUE /\ SentFor(k) \in BOOLEAN /\ StoredFor(k) \in BOOLEAN
        BY <4>1 DEF SentFor, StoredFor
      <4> QED BY <2>1, <2>2, <3>1, <3>3, <4>2, EntryMarked DEF Entry
    <3> QED BY <3>2, <3>3
  <2> QED BY <2>6, <2>7, <2>8, <2>9, <2>10, <2>12, <2>13 DEF SafetyInv, LedgerStep
<1> QED BY <1>1, <1>2, <1>3, <1>4, <1>5, <1>6, <1>7 DEF WorkerStep

-----------------------------------------------------------------------------
(***************************************************************************)
(* The steps of requests and recovery passes.                              *)
(***************************************************************************)
\* A step that starts or ends jobs, and changes no attempt.
LEMMA JobStep ==
  ASSUME TypeOK, SafetyInv, UNCHANGED <<att, asked, landed>>,
         \A j \in Job : job'[j] = job[j] \/ (Settles(j) /\ job'[j].status # "succeeded")
  PROVE  SafetyInv' /\ LedgerStep
<1>1. Quiet
  BY TypeFacts, WorkerRowsEvolve DEF Quiet, SafetyInv, Rows
<1> QED BY <1>1, QuietStep

\* A step that changes attempts, and no job.
LEMMA RowsStep ==
  ASSUME TypeOK, SafetyInv, UNCHANGED <<job, asked, landed>>,
         \A a \in Attempt : Evolves(att[a], att'[a])
  PROVE  SafetyInv' /\ LedgerStep
BY QuietStep DEF Quiet

\* A step that takes the current attempt from jobs that are queued, or that it
\* returns to the queue.
LEMMA ClearStep ==
  ASSUME TypeOK, SafetyInv, UNCHANGED <<att, asked, landed>>,
         \A j \in Job : \/ job'[j] = job[j]
                        \/ /\ job'[j].cur = None /\ job'[j].status = "queued"
                           /\ job[j].status = "queued" \/ Returnable(j)
  PROVE  SafetyInv' /\ LedgerStep
<1> USE DEF SafetyInv
<1>1. Rows' /\ LandedHasJob' /\ AtMostOneDispatchPerRequest'
  BY TypeFacts DEF Rows, LandedHasJob, AtMostOneDispatchPerRequest
<1>2. Linked'
  BY TypeFacts DEF Linked
<1>3. SentStands'
  <2> SUFFICES ASSUME NEW a \in Attempt, NEW j \in Job,
                      att[a].sent, att[a].job = j, att[a].round = asked[j]
               PROVE  job'[j] = job[j]
    BY DEF SentStands
  <2>1. job[j].cur = a /\ job[j].status # "queued"
    BY DEF SentStands
  <2>2. ~Returnable(j)
    BY <2>1 DEF ReturnsUnsent, Rows, RowInv
  <2> QED BY <2>1, <2>2
<1>4. ReturnsUnsent'
  BY DEF ReturnsUnsent, Returnable
<1>5. LandedResultStands'
  <2> SUFFICES ASSUME NEW a \in landed, att[a].round = asked[att[a].job]
               PROVE  job'[att[a].job] = job[att[a].job]
    BY DEF LandedResultStands
  <2>1. att[a].job \in Job /\ job[att[a].job].status = "succeeded"
    BY TypeFacts DEF LandedHasJob, LandedResultStands
  <2> QED BY <2>1 DEF Returnable
<1>6. ASSUME NEW j \in Job PROVE Entry(j)' = Entry(j) \/ Ledger!Entails(Entry(j), Entry(j)')
  <2>1. SentFor(j)' = SentFor(j) /\ StoredFor(j)' = StoredFor(j)
    BY MarksStay
  <2>2. CASE job'[j].status = job[j].status
    BY <2>1, <2>2 DEF Entry
  <2>3. CASE job'[j].status # job[j].status
    <3>1. Returnable(j) /\ job[j].status = "failed" /\ job'[j].status = "queued"
      BY <2>3 DEF Returnable
    <3>2. ~SentFor(j) /\ ~StoredFor(j)
      BY <3>1, MarksClear
    <3>3. SentFor(j) = FALSE /\ StoredFor(j) = FALSE
      BY <3>2 DEF SentFor, StoredFor
    <3> QED BY <2>1, <3>1, <3>3 DEF Entry, Ledger!Entails, Ledger!Retry, Ledger!Fresh
  <2> QED BY <2>2, <2>3
<1> QED BY <1>1, <1>2, <1>3, <1>4, <1>5, <1>6 DEF LedgerStep

\* A new request for a job.
LEMMA AskStep ==
  ASSUME TypeOK, SafetyInv, NEW j \in Job, UNCHANGED <<att, landed>>,
         job[j].status \in Settled \cup {"absent"},
         job' = [job EXCEPT ![j] = QueuedAgain], asked' = [asked EXCEPT ![j] = asked[j] + 1]
  PROVE  SafetyInv' /\ LedgerStep
<1> USE DEF SafetyInv
<1>1. /\ job'[j].cur = None /\ job'[j].status = "queued" /\ asked'[j] = asked[j] + 1
      /\ \A k \in Job : k # j => job'[k] = job[k] /\ asked'[k] = asked[k]
  BY DEF TypeOK, QueuedAgain
<1>2. \A a \in Attempt : att[a].job = j => att[a].round # asked'[j] /\ att[a].round <= asked'[j]
  BY <1>1, TypeFacts DEF Linked
<1>3. Rows' /\ LandedHasJob' /\ AtMostOneDispatchPerRequest'
  BY TypeFacts DEF Rows, LandedHasJob, AtMostOneDispatchPerRequest
<1>4. Linked'
  BY <1>1, <1>2, TypeFacts DEF Linked
<1>5. SentStands'
  BY <1>1, <1>2 DEF SentStands
<1>6. ReturnsUnsent'
  BY <1>1 DEF ReturnsUnsent, Returnable
<1>7. LandedResultStands'
  BY <1>1, <1>2, TypeFacts DEF LandedResultStands, LandedHasJob
<1>8. ASSUME NEW k \in Job PROVE Entry(k)' = Entry(k) \/ Ledger!Entails(Entry(k), Entry(k)')
  <2>1. CASE k # j
    <3>1. SentFor(k)' = SentFor(k) /\ StoredFor(k)' = StoredFor(k)
      BY <1>1, <2>1, MarksStay
    <3> QED BY <1>1, <2>1, <3>1 DEF Entry
  <2>2. CASE k = j
    <3>1. ~SentFor(j)' /\ ~StoredFor(j)'
      BY <1>2, TypeFacts DEF SentFor, AttemptsOf, StoredFor
    <3>2. SentFor(j)' = FALSE /\ StoredFor(j)' = FALSE
      BY <3>1 DEF SentFor, StoredFor
    <3> QED BY <1>1, <2>2, <3>2 DEF Entry, Ledger!Entails, Ledger!Ask, Ledger!Fresh, Settled
  <2> QED BY <2>1, <2>2
<1> QED BY <1>3, <1>4, <1>5, <1>6, <1>7, <1>8 DEF LedgerStep

LEMMA AdmitNewSafety ==
  ASSUME TypeInv, SafetyInv, NEW p \in Proc, NEW a \in Attempt, AdmitNew(p, a)
  PROVE  SafetyInv' /\ LedgerStep
<1> USE DEF SafetyInv
<1> DEFINE j == proc[p].job
<1>1. /\ TypeOK /\ j \in Job /\ job[j].status = "queued" /\ job[j].cur = None /\ att[a].job = None
      /\ att' = [att EXCEPT ![a] = NewAttempt(j, asked[j])]
      /\ job' = [job EXCEPT ![j] = [job[j] EXCEPT !.cur = a, !.err = "none"]]
      /\ UNCHANGED <<asked, landed>>
  BY DEF TypeInv, WiredProc, WiredProcess, AdmitNew, Open
<1>2. /\ att'[a].job = j /\ att'[a].round = asked[j] /\ ~att'[a].sent /\ RowInv(att'[a])
      /\ \A b \in Attempt : b # a => att'[b] = att[b]
  BY <1>1, TypeFacts DEF TypeOK, NewAttempt, RowInv
<1>3. /\ job'[j].status = "queued" /\ job'[j].cur = a
      /\ \A k \in Job : k # j => job'[k] = job[k]
  BY <1>1, TypeFacts DEF TypeOK, JobRow
<1>4. \A k \in Job : job[k].cur # a
  BY <1>1, TypeFacts DEF Linked
<1>5. a \notin landed
  BY <1>1 DEF LandedHasJob
<1>6. Rows'
  BY <1>2 DEF Rows
<1>7. Linked'
  BY <1>1, <1>2, <1>3, <1>4, TypeFacts, SMTT(20) DEF Linked
<1>8. SentStands'
  BY <1>1, <1>2, <1>3 DEF SentStands
<1>9. ReturnsUnsent'
  BY <1>1, <1>2, <1>3, <1>4, TypeFacts DEF ReturnsUnsent, Returnable
<1>10. LandedHasJob'
  BY <1>1, <1>2, <1>5, TypeFacts DEF LandedHasJob
<1>11. LandedResultStands'
  <2> SUFFICES ASSUME NEW b \in landed, att[b].round = asked[att[b].job]
               PROVE  job'[att[b].job] = job[att[b].job]
    BY <1>1, <1>2, <1>5, TypeFacts, SMTT(20) DEF LandedResultStands
  <2>1. att[b].job \in Job /\ job[att[b].job].status = "succeeded"
    BY <1>1, TypeFacts DEF LandedHasJob, LandedResultStands
  <2> QED BY <1>1, <1>3, <2>1
<1>12. AtMostOneDispatchPerRequest'
  BY <1>2 DEF AtMostOneDispatchPerRequest
<1>13. ASSUME NEW k \in Job PROVE Entry(k)' = Entry(k)
  <2>1. SentFor(k)' <=> SentFor(k)
    BY <1>1, <1>2, TypeFacts, ZenonT(40) DEF SentFor, AttemptsOf
  <2>2. StoredFor(k)' <=> StoredFor(k)
    BY <1>1, <1>2, <1>5, TypeFacts DEF StoredFor
  <2>3. SentFor(k)' = SentFor(k) /\ StoredFor(k)' = StoredFor(k)
    BY <2>1, <2>2 DEF SentFor, StoredFor
  <2> QED BY <1>1, <1>3, <2>3 DEF Entry
<1> QED BY <1>6, <1>7, <1>8, <1>9, <1>10, <1>11, <1>12, <1>13 DEF LedgerStep

LEMMA PublishSafety ==
  ASSUME TypeInv, SafetyInv, NEW p \in Proc, PublishStep(p) \/ AdmitRateLimited(p)
  PROVE  SafetyInv' /\ LedgerStep
<1>0. TypeOK
  BY DEF TypeInv
<1>1. CASE \E a \in Attempt : AdmitNew(p, a)
  BY <1>1, AdmitNewSafety
<1>2. CASE AdmitReused(p) \/ AdmitNotQueued(p) \/ EnsureOutbox(p) \/ AddToQueue(p) \/ MarkPublished(p)
  BY <1>0, <1>2, StillStep
     DEF AdmitReused, AdmitNotQueued, EnsureOutbox, AddToQueue, MarkPublished
<1>3. CASE AdmitRejected(p) \/ AdmitRateLimited(p)
  <2> DEFINE j == proc[p].job
  <2>1. /\ j \in Job /\ job[j].status = "queued" /\ UNCHANGED <<att, asked, landed>>
        /\ job' = [job EXCEPT ![j] = JobBecomes(job[j], "failed", "admission_rejected")]
    BY <1>3 DEF AdmitRejected, AdmitRateLimited, Reject, Open, TypeInv, WiredProc, WiredProcess
  <2>2. job[j] \in JobRow /\ job'[j] = JobBecomes(job[j], "failed", "admission_rejected")
    BY <1>0, <2>1 DEF TypeOK
  <2>3. Settles(j) /\ job'[j].status # "succeeded"
    BY <2>1, <2>2, BecomesFields DEF Settles, Active, Settled
  <2>4. \A k \in Job : k # j => job'[k] = job[k]
    BY <1>0, <2>1 DEF TypeOK
  <2> QED BY <1>0, <2>1, <2>3, <2>4, JobStep
<1> QED BY <1>1, <1>2, <1>3 DEF PublishStep

LEMMA ScannerSafety ==
  ASSUME TypeInv, SafetyInv, NEW s \in Scanner, ScannerStep(s)
  PROVE  SafetyInv' /\ LedgerStep
<1>0. /\ TypeOK /\ s \in Proc
      /\ \A a \in Attempt : att[a] \in AttemptRow /\ RowInv(att[a]) /\ Evolves(att[a], att[a])
      /\ \A j \in Job : job[j] \in JobRow
  BY TypeFacts, WorkerRowsEvolve DEF TypeInv, SafetyInv, Rows, Proc
<1>1. CASE \/ ScanBegin(s) \/ SelectQueued(s) \/ \E row \in proc[s].rows : NextRow(s, row)
           \/ ScanEnd(s) \/ ProbeQueue(s) \/ ClearRefused(s)
  BY <1>0, <1>1, StillStep
     DEF ScanBegin, SelectQueued, NextRow, ScanEnd, ProbeQueue, ClearRefused
<1>2. CASE FailUnknownAttempts(s)
  <2>1. \A a \in Attempt :
          LeaseLost(a) /\ att[a].outcome \in {"in_flight", "outcome_unknown"} =>
            Evolves(att[a], UnknownRow(att[a]))
    BY <1>0, QueueRowsEvolve DEF LeaseLost
  <2>2. \A a \in Attempt : Evolves(att[a], att'[a])
    BY <1>0, <1>2, <2>1 DEF FailUnknownAttempts
  <2> QED BY <1>0, <1>2, <2>2, RowsStep DEF FailUnknownAttempts
<1>3. CASE FailExpiredAttempts(s)
  <2>1. \A a \in Attempt : LeaseLost(a) /\ Undispatched(a) => Evolves(att[a], ExpiredRow(att[a]))
    BY <1>0, QueueRowsEvolve DEF LeaseLost, Undispatched
  <2>2. \A a \in Attempt : Evolves(att[a], att'[a])
    BY <1>0, <1>3, <2>1 DEF FailExpiredAttempts
  <2> QED BY <1>0, <1>3, <2>2, RowsStep DEF FailExpiredAttempts
<1>4. CASE ReconcileAttempts(s)
  <2>1. \A a \in Attempt :
          att[a].job # None /\ att[a].status \in Active /\ job[att[a].job].status \in Settled =>
            Evolves(att[a], StatusOf(att[a], job[att[a].job]))
    BY <1>0, TypeFacts, QueueRowsEvolve
  <2>2. \A a \in Attempt : Evolves(att[a], att'[a])
    BY <1>0, <1>4, <2>1 DEF ReconcileAttempts
  <2> QED BY <1>0, <1>4, <2>2, RowsStep DEF ReconcileAttempts
<1>5. CASE FailUnknownJobs(s)
  <2>1. \A j \in Job : job'[j] = job[j] \/
          (OutcomeUnknown(j) /\ job'[j] = JobBecomes(job[j], "failed", "outcome_unknown"))
    BY <1>5 DEF FailUnknownJobs
  <2>2. \A j \in Job : job'[j] = job[j] \/ (Settles(j) /\ job'[j].status # "succeeded")
    BY <1>0, <2>1, BecomesFields DEF Settles, OutcomeUnknown, Active, Settled
  <2> QED BY <1>0, <1>5, <2>2, JobStep DEF FailUnknownJobs
<1>6. CASE FailExpiredJobs(s)
  <2>1. \A j \in Job : job'[j] = job[j] \/
          (ExpiredUndispatched(j) /\ job'[j] = JobBecomes(job[j], "failed", "expired_before_dispatch"))
    BY <1>6 DEF FailExpiredJobs
  <2>2. att' = att
    BY <1>6 DEF FailExpiredJobs
  <2>3. \A j \in Job : job'[j] = job[j] \/ (Settles(j) /\ job'[j].status # "succeeded")
    BY <1>0, <2>1, <2>2, BecomesFields DEF Settles, ExpiredUndispatched, Active, Settled
  <2> QED BY <1>0, <1>6, <2>3, JobStep DEF FailExpiredJobs
<1>7. CASE ReturnExpiredJobs(s)
  <2>1. \A j \in Job : job'[j] = job[j] \/
          (job'[j].cur = None /\ job'[j].status = "queued" /\ Returnable(j))
    BY <1>7 DEF ReturnExpiredJobs, QueuedAgain
  <2> QED BY <1>0, <1>7, <2>1, ClearStep DEF ReturnExpiredJobs
<1>8. CASE RetireAttempt(s)
  <2> DEFINE a == proc[s].att
  <2>1. CASE att' = att
    BY <1>0, <1>8, <2>1, StillStep DEF RetireAttempt
  <2>2. CASE att' # att
    <3>1. att' = [att EXCEPT ![a] = RetiredRow(att[a])] /\ att[a].status = "queued"
      BY <1>8, <2>2 DEF RetireAttempt
    <3>2. a \in Attempt => Evolves(att[a], RetiredRow(att[a]))
      BY <1>0, <3>1, QueueRowsEvolve
    <3> QED BY <1>0, <1>8, <3>1, <3>2, RowStep DEF RetireAttempt
  <2> QED BY <2>1, <2>2
<1>9. CASE ClearAttempt(s)
  <2> DEFINE j == proc[s].job
  <2>1. /\ j \in Job /\ job[j].status = "queued" /\ UNCHANGED <<att, asked, landed>>
        /\ job' = [job EXCEPT ![j] = [job[j] EXCEPT !.cur = None]]
    BY <1>0, <1>9 DEF ClearAttempt, MayClear, TypeInv, WiredProc, WiredProcess
  <2>2. job'[j].cur = None /\ job'[j].status = "queued"
    BY <1>0, <2>1 DEF TypeOK, JobRow
  <2>3. \A k \in Job : k # j => job'[k] = job[k]
    BY <1>0, <2>1 DEF TypeOK
  <2> QED BY <1>0, <2>1, <2>2, <2>3, ClearStep
<1>10. CASE PublishStep(s)
  BY <1>0, <1>10, PublishSafety
<1> QED BY <1>1, <1>2, <1>3, <1>4, <1>5, <1>6, <1>7, <1>8, <1>9, <1>10 DEF ScannerStep

LEMMA RequestSafety ==
  ASSUME TypeInv, SafetyInv, NEW r \in Request, RequestArrives(r) \/ RequestStep(r)
  PROVE  SafetyInv' /\ LedgerStep
<1>0. /\ TypeOK /\ r \in Proc
      /\ \A a \in Attempt : att[a] \in AttemptRow /\ RowInv(att[a]) /\ Evolves(att[a], att[a])
  BY TypeFacts, WorkerRowsEvolve DEF TypeInv, SafetyInv, Rows, Proc
<1>1. ASSUME NEW j \in Job, PostLoads(r, j) \/ CancelLoads(r, j) PROVE SafetyInv' /\ LedgerStep
  BY <1>0, <1>1, StillStep DEF PostLoads, CancelLoads
<1>2. ASSUME NEW j \in Job, Submit(r, j) PROVE SafetyInv' /\ LedgerStep
  BY <1>0, <1>2, AskStep DEF Submit
<1>3. CASE Requeue(r)
  <2>1. proc[r].job \in Job /\ job[proc[r].job].status \in Settled
    BY <1>0, <1>3 DEF Requeue, Matches, TypeInv, WiredProc, WiredProcess
  <2> QED BY <1>0, <1>3, <2>1, AskStep DEF Requeue
<1>4. CASE RequeueRefused(r) \/ CancelRefused(r) \/ RemoveFromQueue(r)
  BY <1>0, <1>4, StillStep DEF RequeueRefused, CancelRefused, RemoveFromQueue
<1>5. CASE CancelJob(r)
  <2> DEFINE j == proc[r].job
             a == job[j].cur
  <2>1. j \in Job /\ job[j] \in JobRow /\ job[j].status \in Active
    BY <1>0, <1>5, TypeFacts DEF CancelJob, Matches, TypeInv, WiredProc, WiredProcess
  <2>2. job'[j] = JobBecomes(job[j], "cancelled", "other") /\ \A k \in Job : k # j => job'[k] = job[k]
    BY <1>0, <1>5, <2>1 DEF CancelJob, TypeOK
  <2>3. Settles(j)
    BY <2>1, <2>2, BecomesFields DEF Settles, Settled
  <2>4. a \in Attempt /\ att[a].status \in Active => Evolves(att[a], CancelledRow(att[a]))
    BY <1>0, EndRowsEvolve, Words DEF Settled
  <2>5. \A b \in Attempt : Evolves(att[b], att'[b])
    BY <1>0, <1>5, <2>4, TypeFacts DEF CancelJob, TypeOK
  <2>6. asked' = asked /\ landed' = landed
    BY <1>5 DEF CancelJob
  <2>7. Quiet
    BY <2>2, <2>3, <2>5, <2>6 DEF Quiet
  <2>8. \A k \in Job : job'[k].status = "succeeded" => job[k].status = "succeeded"
    BY <2>1, <2>2, BecomesFields
  <2> QED BY <1>0, <2>6, <2>7, <2>8, QuietStep
<1>6. CASE PublishStep(r)
  BY <1>0, <1>6, PublishSafety
<1> QED BY <1>1, <1>2, <1>3, <1>4, <1>5, <1>6 DEF RequestArrives, RequestStep

LEMMA EnvironmentSafety ==
  ASSUME TypeInv, SafetyInv, Environment
  PROVE  SafetyInv' /\ LedgerStep
<1>0. /\ TypeOK
      /\ \A a \in Attempt : att[a] \in AttemptRow /\ RowInv(att[a]) /\ Evolves(att[a], att[a])
  BY TypeFacts, WorkerRowsEvolve DEF TypeInv, SafetyInv, Rows
<1>1. CASE \/ \E w \in Worker : WorkerCrash(w) \/ StallUnderWorker(w)
           \/ \E a \in Attempt : StallRecovered(a) \/ QueueForgets(a) \/ RedisLoses(a)
           \/ \E p \in Proc : Abandon(p)
  BY <1>0, <1>1, StillStep
     DEF WorkerCrash, StallUnderWorker, StallRecovered, QueueForgets, RedisLoses, Abandon
<1>2. ASSUME NEW a \in Attempt, LeaseExpires(a) PROVE SafetyInv' /\ LedgerStep
  <2>1. Evolves(att[a], [att[a] EXCEPT !.lease = "expired"])
    BY <1>0, WorkerRowsEvolve
  <2> QED BY <1>0, <1>2, <2>1, RowStep DEF LeaseExpires
<1>3. ASSUME NEW p \in Proc, AdmitRateLimited(p) PROVE SafetyInv' /\ LedgerStep
  BY <1>3, PublishSafety
<1>4. CASE BookReplaced \/ ChaptersRestructured
  <2>1. StopAll("other") /\ asked' = asked /\ landed' = landed
    BY <1>4 DEF BookReplaced, ChaptersRestructured
  <2>2. \A j \in Job : job'[j] = job[j] \/
          (job[j].status \in Active /\ job'[j] = JobBecomes(job[j], "cancelled", "other"))
    BY <2>1 DEF StopAll
  <2>3. \A j \in Job : job'[j] = job[j] \/ Settles(j)
    BY <2>2, <1>0, TypeFacts, BecomesFields DEF Settles, Settled
  <2>4. \A a \in Attempt : att[a].status \in Active => Evolves(att[a], StoppedRow(att[a]))
    BY <1>0, EndRowsEvolve, Words DEF Settled
  <2>5. \A a \in Attempt : Evolves(att[a], att'[a])
    BY <1>0, <1>4, <2>4 DEF BookReplaced, ChaptersRestructured
  <2>6. Quiet
    BY <2>1, <2>3, <2>5 DEF Quiet
  <2>7. \A k \in Job : job'[k].status = "succeeded" => job[k].status = "succeeded"
    BY <1>0, <2>2, TypeFacts, BecomesFields
  <2> QED BY <1>0, <2>1, <2>6, <2>7, QuietStep
<1> QED BY <1>1, <1>2, <1>3, <1>4 DEF Environment

-----------------------------------------------------------------------------
(***************************************************************************)
(* The theorems.                                                           *)
(***************************************************************************)
LEMMA InitSafety == Init => SafetyInv
<1> SUFFICES ASSUME Init PROVE SafetyInv
  OBVIOUS
<1>1. /\ \A j \in Job : job[j].cur = None /\ job[j].status = "absent"
      /\ \A a \in Attempt : att[a].job = None /\ att[a].status = "absent" /\ ~att[a].sent
                            /\ att[a].code = "none"
      /\ landed = {}
  BY DEF Init, NoJob, NoAttempt, NewAttempt
<1>2. Rows
  BY <1>1 DEF Rows, RowInv
<1>3. Linked /\ SentStands /\ ReturnsUnsent
  BY <1>1 DEF Linked, SentStands, ReturnsUnsent, Returnable
<1>4. LandedHasJob /\ LandedResultStands /\ AtMostOneDispatchPerRequest
  BY <1>1 DEF LandedHasJob, LandedResultStands, AtMostOneDispatchPerRequest
<1> QED BY <1>2, <1>3, <1>4 DEF SafetyInv

LEMMA SafetyStep == TypeInv /\ SafetyInv /\ [Next]_vars => SafetyInv' /\ LedgerStep
<1> SUFFICES ASSUME TypeInv, SafetyInv, [Next]_vars PROVE SafetyInv' /\ LedgerStep
  OBVIOUS
<1>1. CASE UNCHANGED vars
  BY <1>1, StillStep DEF vars, TypeInv
<1> QED BY <1>1, WorkerSafety, ScannerSafety, RequestSafety, EnvironmentSafety DEF Next

LEMMA Invariance == Spec => [](TypeInv /\ SafetyInv)
BY InitType, InitSafety, TypeStep, SafetyStep, PTL DEF Spec

\* An explicit request reaches the provider through at most one attempt.
THEOREM DispatchedOnce == Spec => []AtMostOneDispatchPerRequest
<1>1. SafetyInv => AtMostOneDispatchPerRequest
  BY DEF SafetyInv
<1> QED BY <1>1, Invariance, PTL

\* A stored result is the one its job stands for.
THEOREM ResultStands == Spec => []LandedResultStands
<1>1. SafetyInv => LandedResultStands
  BY DEF SafetyInv
<1> QED BY <1>1, Invariance, PTL

\* An attempt that may have reached the provider is never booked as free.
THEOREM NeverFree == Spec => []DispatchedNeverFree
<1>1. SafetyInv => DispatchedNeverFree
  BY DEF SafetyInv, Rows, RowInv, DispatchedNeverFree
<1> QED BY <1>1, Invariance, PTL

\* Attempts, leases, outbox and queue implement the ledger.
THEOREM LedgerImplemented == Spec => ImplementsLedger
<1>1. Init => Ledger!Init
  <2> SUFFICES ASSUME Init PROVE \A j \in Job : job[j].status = "absent" /\ ~SentFor(j) /\ ~StoredFor(j)
    BY DEF Ledger!Init, SentFor, StoredFor
  <2> QED BY DEF Init, NoJob, NoAttempt, NewAttempt, SentFor, AttemptsOf, StoredFor
<1>2. TypeInv /\ SafetyInv /\ TypeInv' /\ [Next]_vars =>
        [Ledger!Next]_([j \in Job |-> [status |-> job[j].status, sent |-> SentFor(j), stored |-> StoredFor(j)]])
  <2> SUFFICES ASSUME LedgerStep, TypeOK' PROVE Ledger!Next
    BY SafetyStep DEF TypeInv
  <2> QED BY DEF LedgerStep, Ledger!Next, Entry, TypeOK, JobRow, Ledger!Entry, Ledger!Status,
                 JobStatus, SentFor, StoredFor
<1> QED BY <1>1, <1>2, Invariance, PTL DEF Spec, ImplementsLedger, Ledger!Spec

=============================================================================
