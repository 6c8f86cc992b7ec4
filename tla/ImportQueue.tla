---------------------------- MODULE ImportQueue ----------------------------
(***************************************************************************)
(* How an import reaches the queue: enqueueImportJob, run by the request   *)
(* that completes an upload, by every status poll, and by the two passes   *)
(* of a worker process (requeuePendingImportJobs at its start and          *)
(* recoverStaleImportJobs every minute).  All race on the row's active     *)
(* execution.                                                              *)
(***************************************************************************)
EXTENDS ImportStore

Step(p, pc) == proc' = [proc EXCEPT ![p] = [@ EXCEPT !.pc = pc]]

\* A pass goes on with the next of its rows.
NextOf(p, rows) ==
  \/ rows = {} /\ proc' = [proc EXCEPT ![p] = NoProcess]
  \/ \E u \in rows : proc' = [proc EXCEPT ![p] =
       [NoProcess EXCEPT !.pc = "look", !.booting = proc[p].booting, !.upload = u, !.rows = rows \ {u}]]

\* A request is answered, and holds no rows; a pass goes on.
Enqueued(p) == NextOf(p, proc[p].rows)

Open(u) == job[u].status = "queued" /\ ~job[u].cancel

(***************************************************************************)
(* enqueueImportJob, one autocommitted statement or queue call at a time.  *)
(***************************************************************************)
Look(p) ==
  LET u == proc[p].upload
      seen == IF Open(u) THEN job[u].active ELSE None IN
  /\ proc[p].pc = "look"
  /\ proc' = [proc EXCEPT ![p] = [@ EXCEPT !.seen = seen,
                                           !.pc = IF seen = None THEN "enqueue" ELSE "probe"]]
  /\ UNCHANGED <<session, chunks, files, job, bull, work, objectVars, landed, upsets, pauses>>

\* Mutant: an execution that a row names counts as under way.
Bug_DeliverableNamed(x) == TRUE

Deliverable(x) == bull[x].state \in {"waiting", "active"}

Probe(p) ==
  /\ proc[p].pc = "probe"
  /\ IF Deliverable(proc[p].seen) THEN Enqueued(p) ELSE Step(p, "clear")
  /\ UNCHANGED <<session, chunks, files, job, bull, work, objectVars, landed, upsets, pauses>>

Clear(p) ==
  LET u == proc[p].upload IN
  /\ proc[p].pc = "clear"
  /\ job' = IF job[u].status = "queued" /\ job[u].active = proc[p].seen
            THEN [job EXCEPT ![u] = Touched([@ EXCEPT !.active = None])] ELSE job
  /\ proc' = [proc EXCEPT ![p] = [@ EXCEPT !.pc = "enqueue", !.seen = None]]
  /\ UNCHANGED <<session, chunks, files, bull, work, objectVars, landed, upsets, pauses>>

ClaimableBy(u) == Open(u) /\ job[u].active = None

ClaimExecution(p, x) ==
  LET u == proc[p].upload IN
  /\ proc[p].pc = "enqueue" /\ ClaimableBy(u) /\ Fresh(x)
  /\ job' = [job EXCEPT ![u] = Touched([@ EXCEPT !.active = x])]
  /\ bull' = [bull EXCEPT ![x] = NoEntry]
  /\ proc' = [proc EXCEPT ![p] = [@ EXCEPT !.pc = "add", !.new = x]]
  /\ UNCHANGED <<session, chunks, files, work, objectVars, landed, upsets, pauses>>

ClaimLost(p) ==
  /\ proc[p].pc = "enqueue" /\ ~ClaimableBy(proc[p].upload)
  /\ Enqueued(p)
  /\ UNCHANGED <<session, chunks, files, job, bull, work, objectVars, landed, upsets, pauses>>

AddToQueue(p) ==
  /\ proc[p].pc = "add"
  /\ bull' = [bull EXCEPT ![proc[p].new] = [NoEntry EXCEPT !.state = "waiting", !.upload = proc[p].upload]]
  /\ Enqueued(p)
  /\ UNCHANGED <<session, chunks, files, job, work, objectVars, landed, upsets, pauses>>

\* queue.add throws, added or not: the claim is undone if it still stands and the
\* caller fails.  A worker process that fails at its start exits and is restarted.
AddFails(p) ==
  LET u == proc[p].upload IN
  /\ proc[p].pc = "add" /\ UpsetLeft
  /\ job' = IF job[u].status = "queued" /\ job[u].active = proc[p].new
            THEN [job EXCEPT ![u] = Touched([@ EXCEPT !.active = None])] ELSE job
  /\ proc' = [proc EXCEPT ![p] = IF proc[p].booting THEN Started ELSE NoProcess]
  /\ \/ UNCHANGED bull
     \/ bull' = [bull EXCEPT ![proc[p].new] = [NoEntry EXCEPT !.state = "waiting", !.upload = u]]
  /\ upsets' = upsets + 1
  /\ UNCHANGED <<session, chunks, files, work, objectVars, landed, pauses>>

EnqueueStep(p) ==
  \/ Look(p) \/ Probe(p) \/ Clear(p)
  \/ \E x \in Exec : ClaimExecution(p, x)
  \/ ClaimLost(p) \/ AddToQueue(p)

(***************************************************************************)
(* The two passes of a worker process.                                     *)
(***************************************************************************)
RequeuePending(w) ==
  /\ proc[w].pc = "boot"
  /\ NextOf(w, {u \in Upload : job[u].status = "queued" /\ session[u] = "queued"})
  /\ UNCHANGED <<session, chunks, files, job, bull, work, objectVars, landed, upsets, pauses>>

\* Mutant: the recovery pass does not look at the heartbeat.
Bug_InterruptedAlways(u) == job[u].status = "processing" /\ session[u] = "queued"

\* Mutant: the recovery pass skips a job that names an execution.
Bug_InterruptedIdle(u) == job[u].status = "processing" /\ job[u].active = None

Interrupted(u) == job[u].status = "processing" /\ session[u] = "queued" /\ job[u].stale

RecoverStale(w) ==
  LET rows == {u \in Upload : Interrupted(u)} IN
  /\ proc[w].pc = "idle" /\ rows # {}
  /\ job' = [u \in Upload |->
       IF u \in rows THEN Touched([job[u] EXCEPT !.status = "queued", !.active = None]) ELSE job[u]]
  /\ NextOf(w, rows)
  /\ UNCHANGED <<session, chunks, files, bull, work, objectVars, landed, upsets, pauses>>

RecoveryStep(w) == RequeuePending(w) \/ RecoverStale(w) \/ EnqueueStep(w)

-----------------------------------------------------------------------------
(* BullMQ and Redis *)

\* A lock is not extended in time: the first stall makes the job wait again,
\* the second fails it.
StallRecovered(x) ==
  /\ bull[x].state = "active" /\ ~ \E w \in Worker : work[w].exec = x /\ work[w].lock
  /\ bull' = [bull EXCEPT ![x] = [@ EXCEPT !.state = IF bull[x].stalled THEN "ended" ELSE "waiting",
                                           !.stalled = TRUE]]
  /\ UNCHANGED <<session, chunks, files, job, work, proc, objectVars, landed, upsets, pauses>>

RedisLoses(x) ==
  /\ bull[x].state = "waiting" /\ UpsetLeft
  /\ bull' = [bull EXCEPT ![x] = NoEntry]
  /\ upsets' = upsets + 1
  /\ UNCHANGED <<session, chunks, files, job, work, proc, objectVars, landed, pauses>>

\* The heartbeat of an import falls more than IMPORT_RUNNING_STALE_MS behind:
\* nobody runs it, or the process that does is paused or cut off.
GrowsStale(u) ==
  /\ job[u].status = "processing" /\ ~job[u].stale
  /\ \/ ~Alive(u) /\ UNCHANGED pauses
     \/ Alive(u) /\ UpsetLeft /\ pauses < MaxPauses /\ pauses' = pauses + 1
  /\ job' = [job EXCEPT ![u] = [@ EXCEPT !.stale = TRUE]]
  /\ UNCHANGED <<session, chunks, files, bull, work, proc, objectVars, landed, upsets>>

=============================================================================
