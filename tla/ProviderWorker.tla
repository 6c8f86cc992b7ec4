--------------------------- MODULE ProviderWorker ---------------------------
(***************************************************************************)
(* One execution of processProviderJob: BullMQ delivers an attempt, the    *)
(* execution claims it under a lease, calls the provider, and either       *)
(* persists the result or ends the attempt, all of it fenced by the lease. *)
(***************************************************************************)
EXTENDS ProviderStore

WorkerPc == {"idle", "claim", "check", "ready", "calling", "answered",
             "late", "settle", "stale", "error", "fail"}

\* `lock`: the execution still owns the BullMQ job lock of its attempt.
Execution == [pc: WorkerPc, att: Attempt \cup {None}, gen: Nat, lock: BOOLEAN]

NoExecution == [pc |-> "idle", att |-> None, gen |-> 0, lock |-> FALSE]

Goto(w, pc) == work' = [work EXCEPT ![w] = [@ EXCEPT !.pc = pc]]

\* The BullMQ processor returns or throws: the job is moved unless the lock
\* went to another delivery.
Finish(w, queueState) ==
  /\ work' = [work EXCEPT ![w] = NoExecution]
  /\ queue' = IF work[w].lock THEN [queue EXCEPT ![work[w].att] = queueState] ELSE queue

(***************************************************************************)
(* BullMQ hands a waiting job to a free worker.                            *)
(***************************************************************************)
Deliver(w, a) ==
  /\ work[w].pc = "idle" /\ queue[a] = "waiting"
  /\ queue' = [queue EXCEPT ![a] = "active"]
  /\ work' = [work EXCEPT ![w] = [pc |-> "claim", att |-> a, gen |-> 0, lock |-> TRUE]]
  /\ UNCHANGED <<job, att, outbox, proc, asked, landed, upsets, restructures>>

(***************************************************************************)
(* claimProviderJobAttempt: under the job's row lock, a delivery that is   *)
(* no longer the job's queued current attempt is dropped, an attempt that  *)
(* is not queued is an identity conflict, and otherwise both rows start    *)
(* running under a new lease.                                              *)
(***************************************************************************)
\* The delivered attempt exists and is the queued job's current one.
Claimable(a) ==
  LET j == att[a].job IN j # None /\ job[j].status = "queued" /\ job[j].cur = a

ClaimRefused(w) ==
  /\ work[w].pc = "claim" /\ ~Claimable(work[w].att)
  /\ Finish(w, "completed")
  /\ UNCHANGED <<job, att, outbox, proc, asked, landed, upsets, restructures>>

ClaimConflict(w) ==
  /\ work[w].pc = "claim" /\ Claimable(work[w].att)
  /\ att[work[w].att].status # "queued"
  /\ Finish(w, "failed")
  /\ UNCHANGED <<job, att, outbox, proc, asked, landed, upsets, restructures>>

ClaimedRow(row) ==
  [row EXCEPT !.status = "running", !.gen = @ + 1, !.lease = "live",
              !.outcome = "claimed", !.billing = "not_started", !.code = "none", !.err = "none"]

Claim(w) ==
  LET a == work[w].att  j == att[a].job IN
  /\ work[w].pc = "claim" /\ Claimable(a)
  /\ att[a].status = "queued"
  /\ job' = [job EXCEPT ![j] = JobBecomes(@, "running", "none")]
  /\ att' = [att EXCEPT ![a] = ClaimedRow(@)]
  /\ outbox' = [outbox EXCEPT ![a] = "published"]
  /\ work' = [work EXCEPT ![w] = [@ EXCEPT !.pc = "check", !.gen = att[a].gen + 1]]
  /\ UNCHANGED <<queue, proc, asked, landed, upsets, restructures>>

(***************************************************************************)
(* renewProviderJobLease: a lease that is still held is extended.  The     *)
(* abort monitor renews while the execution is in progress.                *)
(***************************************************************************)
\* Mutant: the renewal does not ask whether the lease has expired.
Bug_RenewsExpired(w) ==
  LET a == work[w].att IN
  /\ a # None /\ att[a].gen = work[w].gen /\ att[a].status = "running"
  /\ job[att[a].job].status = "running" /\ job[att[a].job].cur = a

Renewable(w) == LeaseHeld(w)

Renewed(w) == [att EXCEPT ![work[w].att] = [@ EXCEPT !.lease = "live"]]

RenewLease(w) ==
  /\ work[w].pc \notin {"idle", "claim"} /\ Renewable(w)
  /\ att' = Renewed(w)
  /\ UNCHANGED <<job, outbox, queue, work, proc, asked, landed, upsets, restructures>>

(***************************************************************************)
(* assertProviderJobNotCancelled: the execution goes on only if the lease  *)
(* could be renewed.                                                       *)
(***************************************************************************)
AssertNotCancelled(w, held) ==
  IF Renewable(w) THEN att' = Renewed(w) /\ Goto(w, held)
                  ELSE att' = att /\ Goto(w, "late")

Check(w) ==
  /\ work[w].pc = "check"
  /\ AssertNotCancelled(w, "ready")
  /\ UNCHANGED <<job, outbox, queue, proc, asked, landed, upsets, restructures>>

(***************************************************************************)
(* markProviderJobDispatchStarted, called before every provider request.   *)
(* A lost lease is a cancellation.                                         *)
(***************************************************************************)
MayDispatch(w) == LeaseHeld(w) /\ att[work[w].att].outcome \in {"claimed", "in_flight"}

DispatchedRow(row) == [row EXCEPT !.outcome = "in_flight", !.billing = "estimated", !.sent = TRUE]

Dispatch(w) ==
  LET a == work[w].att IN
  /\ work[w].pc = "ready" /\ MayDispatch(w)
  /\ att' = [att EXCEPT ![a] = DispatchedRow(@)]
  /\ Goto(w, "calling")
  /\ UNCHANGED <<job, outbox, queue, proc, asked, landed, upsets, restructures>>

DispatchRefused(w) ==
  /\ work[w].pc = "ready" /\ ~MayDispatch(w)
  /\ Goto(w, "late")
  /\ UNCHANGED <<job, att, outbox, queue, proc, asked, landed, upsets, restructures>>

(***************************************************************************)
(* The handler needs no provider request (everything is cached), finds its *)
(* pinned input stale, or throws.                                          *)
(***************************************************************************)
HandlerSkipsProvider(w) ==
  /\ work[w].pc = "ready"
  /\ \E next \in {"answered", "stale", "error"} : Goto(w, next)
  /\ UNCHANGED <<job, att, outbox, queue, proc, asked, landed, upsets, restructures>>

(***************************************************************************)
(* The last provider request of the handler ends, or the abort monitor     *)
(* (createProviderJobAbortMonitor) notices that the lease is gone.  Later  *)
(* requests of the same handler re-mark an attempt that is already in      *)
(* flight and change nothing.                                              *)
(***************************************************************************)
ProviderReturns(w) ==
  /\ work[w].pc = "calling"
  /\ \/ \E next \in {"answered", "stale", "error"} : Goto(w, next)
     \/ ~Renewable(w) /\ Goto(w, "late")
  /\ UNCHANGED <<job, att, outbox, queue, proc, asked, landed, upsets, restructures>>

(***************************************************************************)
(* updateProviderJobProgress with a terminal status: job and attempt end   *)
(* together, or neither changes.                                           *)
(***************************************************************************)
EndExecution(w, status, error) ==
  LET a == work[w].att  j == att[a].job IN
  IF LeaseHeld(w)
  THEN /\ job' = [job EXCEPT ![j] = JobBecomes(@, status, error)]
       /\ att' = [att EXCEPT ![a] = EndAttempt(@, status, error)]
  ELSE UNCHANGED <<job, att>>

(***************************************************************************)
(* The persistence transaction: lockProviderJobForPersistence, the         *)
(* canonical writes and the terminal progress patch commit together.       *)
(***************************************************************************)
\* Mutant: the canonical writes do not take the persistence lock first.
Bug_PersistUnfenced(w) ==
  /\ work[w].pc = "answered"
  /\ EndExecution(w, "succeeded", "none")
  /\ landed' = landed \cup {work[w].att}
  /\ Finish(w, "completed")
  /\ UNCHANGED <<outbox, proc, asked, upsets, restructures>>

Persist(w) ==
  /\ work[w].pc = "answered" /\ LeaseHeld(w)
  /\ EndExecution(w, "succeeded", "none")
  /\ landed' = landed \cup {work[w].att}
  /\ Finish(w, "completed")
  /\ UNCHANGED <<outbox, proc, asked, upsets, restructures>>

PersistRefused(w) ==
  /\ work[w].pc = "answered"
  /\ \/ ~LeaseHeld(w) /\ Goto(w, "late")
     \/ \E next \in {"stale", "error"} : Goto(w, next)
  /\ UNCHANGED <<job, att, outbox, queue, proc, asked, landed, upsets, restructures>>

(***************************************************************************)
(* The dispatcher's error paths.  A cancelled execution first quarantines  *)
(* its late result, then asks for the job to be cancelled.                 *)
(***************************************************************************)
QuarantinedRow(row) ==
  [row EXCEPT !.outcome = "quarantined", !.billing = BillingAtEnd(row),
              !.code = "other", !.lease = "none"]

Quarantine(w) ==
  LET a == work[w].att IN
  /\ work[w].pc = "late"
  /\ att' = IF /\ a # None /\ att[a].gen = work[w].gen
               /\ att[a].outcome \in {"in_flight", "outcome_unknown", "cancelled"}
            THEN [att EXCEPT ![a] = QuarantinedRow(@)]
            ELSE att
  /\ Goto(w, "settle")
  /\ UNCHANGED <<job, outbox, queue, proc, asked, landed, upsets, restructures>>

SettleCancelled(w) ==
  /\ work[w].pc = "settle"
  /\ EndExecution(w, "cancelled", "other")
  /\ Finish(w, "completed")
  /\ UNCHANGED <<outbox, proc, asked, landed, upsets, restructures>>

SettleStale(w) ==
  /\ work[w].pc = "stale"
  /\ EndExecution(w, "cancelled", "other")
  /\ Finish(w, "completed")
  /\ UNCHANGED <<outbox, proc, asked, landed, upsets, restructures>>

CheckFailure(w) ==
  /\ work[w].pc = "error"
  /\ AssertNotCancelled(w, "fail")
  /\ UNCHANGED <<job, outbox, queue, proc, asked, landed, upsets, restructures>>

SettleFailed(w) ==
  /\ work[w].pc = "fail"
  /\ EndExecution(w, "failed", "other")
  /\ Finish(w, "failed")
  /\ UNCHANGED <<outbox, proc, asked, landed, upsets, restructures>>

WorkerStep(w) ==
  \/ \E a \in Attempt : Deliver(w, a)
  \/ RenewLease(w)
  \/ ClaimRefused(w) \/ ClaimConflict(w) \/ Claim(w) \/ Check(w)
  \/ Dispatch(w) \/ DispatchRefused(w) \/ HandlerSkipsProvider(w) \/ ProviderReturns(w)
  \/ Persist(w) \/ PersistRefused(w)
  \/ Quarantine(w) \/ SettleCancelled(w) \/ SettleStale(w)
  \/ CheckFailure(w) \/ SettleFailed(w)

(***************************************************************************)
(* The environment of a worker: it crashes, its event loop or its database *)
(* connection stalls past the lease, or BullMQ takes the job away.         *)
(***************************************************************************)
Executing(a) == \E w \in Worker : work[w].att = a /\ work[w].gen = att[a].gen

WorkerCrash(w) ==
  /\ work[w].pc # "idle" /\ upsets < MaxUpsets
  /\ work' = [work EXCEPT ![w] = NoExecution]
  /\ upsets' = upsets + 1
  /\ UNCHANGED <<job, att, outbox, queue, proc, asked, landed, restructures>>

LeaseExpires(a) ==
  /\ att[a].lease = "live"
  /\ IF Executing(a) THEN upsets < MaxUpsets /\ upsets' = upsets + 1 ELSE UNCHANGED upsets
  /\ att' = [att EXCEPT ![a] = [@ EXCEPT !.lease = "expired"]]
  /\ UNCHANGED <<job, outbox, queue, work, proc, asked, landed, restructures>>

StallRecovered(a) ==
  /\ queue[a] = "active"
  /\ ~ \E w \in Worker : work[w].att = a /\ work[w].lock
  /\ \E state \in {"waiting", "failed"} : queue' = [queue EXCEPT ![a] = state]
  /\ UNCHANGED <<job, att, outbox, work, proc, asked, landed, upsets, restructures>>

StallUnderWorker(w) ==
  /\ work[w].lock /\ upsets < MaxUpsets
  /\ work' = [work EXCEPT ![w] = [@ EXCEPT !.lock = FALSE]]
  /\ upsets' = upsets + 1
  /\ UNCHANGED <<job, att, outbox, queue, proc, asked, landed, restructures>>

=============================================================================
