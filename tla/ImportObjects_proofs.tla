------------------------ MODULE ImportObjects_proofs ------------------------
(***************************************************************************)
(* The objects of imports, for every value of the constants: the object a  *)
(* book refers to is not deleted, and no object is left behind that the    *)
(* outbox does not know.                                                   *)
(*                                                                         *)
(* An execution that may write its objects, or has written them and has    *)
(* not handed them over, finds its key reserved, and is the only one that  *)
(* writes under it.  A drain pass holds rows that are "processing", so it  *)
(* never holds the key of such an execution.  A book refers to the object  *)
(* of the execution its upload's row still names.                          *)
(***************************************************************************)
EXTENDS ImportJobs_proofs

\* An execution that a row names is for that upload, wherever it appears.
NamedFor(u, x) ==
  /\ \A w \in Worker : work[w].exec = x => work[w].upload = u
  /\ (bull[x].state # "missing" => bull[x].upload = u)
  /\ \A p \in Proc : proc[p].pc = "add" /\ proc[p].new = x => proc[p].upload = u
  /\ \A v \in Upload : job[v].active = x => v = u

Named == \A u \in Upload : job[u].active # None => NamedFor(u, job[u].active)

-----------------------------------------------------------------------------
(***************************************************************************)
(* What a step may do to the names, whoever takes it.                      *)
(***************************************************************************)
\* A row keeps the execution it names, loses it, or is claimed for a new one; and
\* a row that is done does not change.
RowMoves(u) ==
  /\ \/ job'[u].active = job[u].active \/ job'[u].active = None
     \/ \E p \in Proc, x \in Exec : ClaimExecution(p, x) /\ proc[p].upload = u /\ job'[u].active = x
  /\ job[u].status = "done" => job'[u].status = "done" /\ job'[u].active = job[u].active

LEMMA RunRowMoves ==
  ASSUME FenceInv, NEW w \in Worker, RunStep(w), NEW u \in Upload
  PROVE  RowMoves(u)
<1>0. /\ TypeInv /\ Uploaded(w) = work[w].upload /\ Uploaded(w) \in Upload
      /\ (work[w].pc # "claim" => Inner(work[w]))
  BY RunFacts DEF FenceInv
<1>1. CASE job' = job
  BY <1>1 DEF RowMoves
<1>2. ASSUME NEW s \in JobStatus, Writes(w, s), job[Uploaded(w)].status # "done" \/ s = "done"
      PROVE  RowMoves(u)
  BY <1>2 DEF Writes, RowMoves
<1>3. CASE ClaimImport(w)
  <2>1. SetJob(w, [job[Uploaded(w)] EXCEPT !.status = "processing"]) /\ job[Uploaded(w)].status = "queued"
    BY <1>3 DEF ClaimImport, Claimable
  <2> QED BY <1>0, <1>2, <2>1, SetJobWrites, Words
<1>4. CASE Owns(w) /\ (ReadUpload(w) \/ FailJob(w) \/ Retry(w))
  <2>1. work[w].pc \in Working /\ work[w].pc # "claim"
    BY <1>4 DEF ReadUpload, FailJob, Retry, Working
  <2>2. job[Uploaded(w)].status = "processing"
    BY <1>0, <1>4, <2>1, OwnerFacts
  <2>3. \E s \in {"processing", "failed", "queued"} : SetJob(w, [job[Uploaded(w)] EXCEPT !.status = s])
    BY <1>4 DEF ReadUpload, FailJob, Retry, RequeueJob, Progressed
  <2>4. \A s \in {"processing", "failed", "queued"} : s \in JobStatus
    BY Words
  <2> QED BY <1>0, <1>2, <2>2, <2>3, <2>4, SetJobWrites
<1>5. CASE Publish(w)
  <2>1. SetJob(w, [job[Uploaded(w)] EXCEPT !.status = "done"])
    BY <1>5 DEF Publish
  <2> QED BY <1>0, <1>2, <2>1, SetJobWrites, Words
<1>6. job' = job \/ ClaimImport(w) \/ Publish(w) \/ (Owns(w) /\ (ReadUpload(w) \/ FailJob(w) \/ Retry(w)))
  <2>1. CASE ReadUpload(w) \/ FailJob(w) \/ Retry(w)
    BY <2>1 DEF ReadUpload, FailJob, Retry, RequeueJob
  <2>2. CASE FailSession(w) \/ ClaimRefused(w) \/ Check(w) \/ UploadUnreadable(w) \/ ReserveObjects(w) \/ PutObjects(w)
    BY <2>2 DEF FailSession, ClaimRefused, Check, UploadUnreadable, ReserveObjects, PutObjects
  <2>3. CASE \/ PublishRefused(w) \/ RemoveDirectory(w) \/ AbandonObjects(w) \/ Judge(w) \/ DropChunks(w)
             \/ ImportFails(w) \/ PutAnswerLost(w) \/ HeartbeatAborts(w)
    BY <2>3 DEF PublishRefused, RemoveDirectory, AbandonObjects, Judge, DropChunks, ImportFails,
       PutAnswerLost, HeartbeatAborts
  <2> QED BY <2>1, <2>2, <2>3 DEF RunStep
<1> QED BY <1>1, <1>3, <1>4, <1>5, <1>6

LEMMA QueueRowMoves ==
  ASSUME TypeInv, NEW p \in Proc, EnqueueStep(p) \/ AddFails(p), NEW u \in Upload
  PROVE  RowMoves(u)
<1>0. KnowsUpload(proc[p])
  BY DEF TypeInv, Wired
<1>1. CASE job' = job
  BY <1>1 DEF RowMoves
<1>2. ASSUME NEW v \in Upload, NEW x \in Exec \cup {None},
             job' = [job EXCEPT ![v] = Touched([@ EXCEPT !.active = x])],
             job[v].status = "queued",
             x = None \/ (ClaimExecution(p, x) /\ proc[p].upload = v /\ x \in Exec)
      PROVE  RowMoves(u)
  <2> DEFINE r == Touched([job[v] EXCEPT !.active = x])
  <2>1. r \in JobRow /\ r.active = x
    BY <1>2, ClearedRow
  <2>2. job' = [job EXCEPT ![v] = r]
    BY <1>2
  <2> HIDE DEF r
  <2>3. job'[u] = IF u = v THEN r ELSE job[u]
    BY <2>1, <2>2, JobSet
  <2> QED BY <1>2, <2>1, <2>3 DEF RowMoves
<1>3. CASE Clear(p) \/ AddFails(p)
  <2>1. proc[p].upload \in Upload
    <3>1. proc[p].pc \in {"clear", "add"}
      BY <1>3 DEF Clear, AddFails
    <3> QED BY <1>0, <3>1 DEF KnowsUpload
  <2>2. \/ job' = job
        \/ /\ job' = [job EXCEPT ![proc[p].upload] = Touched([@ EXCEPT !.active = None])]
           /\ job[proc[p].upload].status = "queued"
    BY <1>3 DEF Clear, AddFails
  <2> QED BY <1>1, <1>2, <2>1, <2>2
<1>4. ASSUME NEW x \in Exec, ClaimExecution(p, x) PROVE RowMoves(u)
  <2>1. proc[p].upload \in Upload
    <3>1. proc[p].pc = "enqueue"
      BY <1>4 DEF ClaimExecution
    <3> QED BY <1>0, <3>1 DEF KnowsUpload
  <2>2. /\ job' = [job EXCEPT ![proc[p].upload] = Touched([@ EXCEPT !.active = x])]
        /\ job[proc[p].upload].status = "queued"
    BY <1>4 DEF ClaimExecution, ClaimableBy, Open
  <2> QED BY <1>2, <1>4, <2>1, <2>2
<1>5. CASE Look(p) \/ Probe(p) \/ ClaimLost(p) \/ AddToQueue(p)
  BY <1>1, <1>5 DEF Look, Probe, ClaimLost, AddToQueue
<1> QED BY <1>3, <1>4, <1>5 DEF EnqueueStep

LEMMA EveryRowMoves ==
  ASSUME FenceInv, Next, NEW u \in Upload
  PROVE  RowMoves(u)
<1>0. TypeInv /\ job \in [Upload -> JobRow]
  BY DEF FenceInv, TypeInv, TypeOK
<1>1. CASE job' = job
  BY <1>1 DEF RowMoves
<1>2. CASE \E w \in Worker : RunStep(w) \/ Finish(w) \/ \E x \in Exec : Deliver(w, x)
  BY <1>1, <1>2, RunRowMoves DEF Finish, Deliver
<1>3. CASE \E w \in Worker : WorkerCrash(w) \/ LockLost(w) \/ Heartbeat(w)
  <2>1. ASSUME NEW w \in Worker, Heartbeat(w) PROVE RowMoves(u)
    <3>1. Uploaded(w) \in Upload /\ job' = [job EXCEPT ![Uploaded(w)] = Touched(job[Uploaded(w)])]
      BY <1>0, <2>1 DEF Heartbeat, SetJob, TypeInv, Wired, KnowsDelivery, Uploaded
    <3>2. \A r \in JobRow : Touched(r) \in JobRow /\ Touched(r).status = r.status /\ Touched(r).active = r.active
      BY DEF Touched, JobRow
    <3>3. job[Uploaded(w)] \in JobRow
      BY <1>0, <3>1
    <3>4. job'[u] = IF u = Uploaded(w) THEN Touched(job[Uploaded(w)]) ELSE job[u]
      BY <1>0, <3>1
    <3> QED BY <3>2, <3>3, <3>4 DEF RowMoves
  <2> QED BY <1>1, <1>3, <2>1 DEF WorkerCrash, LockLost
<1>4. CASE \E p \in Proc : EnqueueStep(p) \/ AddFails(p)
  BY <1>0, <1>4, QueueRowMoves
<1>5. ASSUME NEW w \in Worker, RequeuePending(w) \/ RecoverStale(w) PROVE RowMoves(u)
  <2>1. CASE RecoverStale(w)
    BY <1>0, <2>1, RecoveredRows DEF Interrupted, RowMoves
  <2> QED BY <1>1, <1>5, <2>1 DEF RequeuePending
<1>6. ASSUME NEW v \in Upload, GrowsStale(v) PROVE RowMoves(u)
  <2>1. \A r \in JobRow : [r EXCEPT !.stale = TRUE].status = r.status /\ [r EXCEPT !.stale = TRUE].active = r.active
    BY DEF JobRow
  <2>2. job[v] \in JobRow /\ job' = [job EXCEPT ![v] = [job[v] EXCEPT !.stale = TRUE]]
    BY <1>0, <1>6 DEF GrowsStale
  <2>3. job'[u] = IF u = v THEN [job[v] EXCEPT !.stale = TRUE] ELSE job[u]
    BY <1>0, <2>2
  <2> QED BY <2>1, <2>2, <2>3 DEF RowMoves
<1>7. ASSUME NEW r \in Request, RequestArrives(r) \/ RemoveCancelled(r) \/ RequestCrash(r) PROVE RowMoves(u)
  <2>1. ASSUME NEW v \in Upload, CompleteUpload(r, v) PROVE RowMoves(u)
    <3>1. session[v] = "uploading" /\ job' = [job EXCEPT ![v] = [NoJob EXCEPT !.status = "queued"]]
      BY <2>1 DEF CompleteUpload
    <3>2. job[v].status = "absent"
      BY <3>1 DEF FenceInv, RowsOK, RowFacts
    <3>3. [NoJob EXCEPT !.status = "queued"].active = None
      BY DEF NoJob
    <3>4. job'[u] = IF u = v THEN [NoJob EXCEPT !.status = "queued"] ELSE job[u]
      BY <1>0, <3>1
    <3> QED BY <3>2, <3>3, <3>4 DEF RowMoves
  <2>2. ASSUME NEW v \in Upload, CancelUpload(r, v) PROVE RowMoves(u)
    <3>1. CancelledRow(job[v]).active = None
      BY <1>0, StoppedRows
    <3>2. \/ job' = job
          \/ job' = [job EXCEPT ![v] = CancelledRow(job[v])] /\ job[v].status \in {"queued", "processing"}
      BY <2>2 DEF CancelUpload
    <3>3. job'[u] = job[u] \/ (u = v /\ job[u].status # "done" /\ job'[u] = CancelledRow(job[u]))
      BY <1>0, <3>2
    <3> QED BY <3>1, <3>3 DEF RowMoves
  <2> QED BY <1>1, <1>7, <2>1, <2>2 DEF RequestArrives, Poll, RemoveCancelled, RequestCrash
<1>8. CASE \/ \E x \in Exec : StallRecovered(x) \/ RedisLoses(x)
           \/ \E v \in Upload : PruneUpload(v) \/ \E c \in Chunk : PutChunk(v, c)
           \/ ObjectStep
  <2>1. job' = job
    BY <1>8 DEF StallRecovered, RedisLoses, PruneUpload, PutChunk, ObjectStep, DrainStep,
         OutboxRowsClaimed, DrainNext, LookForReferences, RemoveObject, ForgetRow, RemoveFails, DrainCrash,
         ClaimTimesOut, ReservationDue
  <2> QED BY <1>1, <2>1
<1> QED BY <1>2, <1>3, <1>4, <1>5, <1>6, <1>7, <1>8, NextCases

\* An execution keeps its delivery, ends, or is delivered.
LEMMA ExecMoves ==
  ASSUME TypeInv, Next, NEW w \in Worker
  PROVE  \/ work'[w].exec = work[w].exec /\ work'[w].upload = work[w].upload
         \/ work'[w].exec = None
         \/ \E x \in Exec : /\ bull[x].state = "waiting" /\ work'[w].exec = x
                            /\ work'[w].upload = bull[x].upload
<1> DEFINE goal(v) ==
         \/ work'[v].exec = work[v].exec /\ work'[v].upload = work[v].upload
         \/ work'[v].exec = None
         \/ \E x \in Exec : /\ bull[x].state = "waiting" /\ work'[v].exec = x
                            /\ work'[v].upload = bull[x].upload
<1>0. work \in [Worker -> Execution]
  BY DEF TypeInv, TypeOK
<1>1. CASE work' = work
  BY <1>1
<1>2. ASSUME NEW v \in Worker, NEW y, work' = [work EXCEPT ![v] = y]
      PROVE  work'[v] = y /\ (w # v => work'[w] = work[w])
  BY <1>0, <1>2
<1>3. ASSUME NEW v \in Worker, RunStep(v) PROVE goal(w)
  <2>1. PICK pc \in WorkPc \ {"idle"} : Moves(v, pc)
    BY <1>3, RunMoves
  <2>2. work[v].pc # "idle"
    BY <1>3, RunMoves
  <2> QED BY <2>1, <2>2, MovesType
<1>4. ASSUME NEW v \in Worker, Finish(v) \/ WorkerCrash(v) PROVE goal(w)
  <2>1. NoExecution.exec = None /\ work' = [work EXCEPT ![v] = NoExecution]
    BY <1>4 DEF Finish, WorkerCrash, NoExecution
  <2> QED BY <1>2, <2>1
<1>5. ASSUME NEW v \in Worker, NEW x \in Exec, Deliver(v, x) PROVE goal(w)
  <2> DEFINE y == [NoExecution EXCEPT
       !.exec = x, !.upload = bull[x].upload, !.try = bull[x].made + 1, !.pc = "claim", !.lock = TRUE]
  <2>1. y.exec = x /\ y.upload = bull[x].upload /\ work' = [work EXCEPT ![v] = y] /\ bull[x].state = "waiting"
    BY <1>5 DEF Deliver, NoExecution
  <2> HIDE DEF y
  <2>2. work'[v] = y /\ (w # v => work'[w] = work[w])
    BY <1>2, <2>1
  <2> QED BY <2>1, <2>2
<1>6. ASSUME NEW v \in Worker, LockLost(v) PROVE goal(w)
  <2>1. \A e \in Execution : [e EXCEPT !.lock = FALSE].exec = e.exec /\ [e EXCEPT !.lock = FALSE].upload = e.upload
    BY DEF Execution
  <2>2. work[v] \in Execution /\ work' = [work EXCEPT ![v] = [work[v] EXCEPT !.lock = FALSE]]
    BY <1>0, <1>6 DEF LockLost
  <2> QED BY <1>2, <2>1, <2>2
<1>7. CASE \/ \E v \in Worker : Heartbeat(v) \/ RequeuePending(v) \/ RecoverStale(v)
           \/ \E p \in Proc : EnqueueStep(p) \/ AddFails(p)
           \/ \E x \in Exec : StallRecovered(x) \/ RedisLoses(x)
           \/ \E u \in Upload : GrowsStale(u)
  <2>1. work' = work
    BY <1>7 DEF Heartbeat, RequeuePending, RecoverStale, EnqueueStep, Look, Probe, Clear, ClaimExecution,
         ClaimLost, AddToQueue, AddFails, StallRecovered, RedisLoses, GrowsStale
  <2> QED BY <1>1, <2>1
<1>8. CASE \/ \E r \in Request : RequestArrives(r) \/ RemoveCancelled(r) \/ RequestCrash(r)
           \/ \E u \in Upload : PruneUpload(u) \/ \E c \in Chunk : PutChunk(u, c)
           \/ ObjectStep
  <2>1. work' = work
    BY <1>8 DEF RequestArrives, CompleteUpload, Poll, CancelUpload, RemoveCancelled, RequestCrash,
         PruneUpload, PutChunk, ObjectStep, DrainStep,
         OutboxRowsClaimed, DrainNext, LookForReferences, RemoveObject, ForgetRow, RemoveFails, DrainCrash,
         ClaimTimesOut, ReservationDue
  <2> QED BY <1>1, <2>1
<1> HIDE DEF goal
<1>9. goal(w)
  BY <1>3, <1>4, <1>5, <1>6, <1>7, <1>8, NextCases DEF goal
<1> QED BY <1>9 DEF goal

\* An entry of the queue keeps its upload, is forgotten, or is added.
LEMMA EntryMoves ==
  ASSUME TypeInv, Next, NEW x \in Exec, bull'[x].state # "missing"
  PROVE  \/ bull[x].state # "missing" /\ bull'[x].upload = bull[x].upload
         \/ \E p \in Proc : proc[p].pc = "add" /\ proc[p].new = x /\ bull'[x].upload = proc[p].upload
<1> DEFINE goal ==
         \/ bull[x].state # "missing" /\ bull'[x].upload = bull[x].upload
         \/ \E p \in Proc : proc[p].pc = "add" /\ proc[p].new = x /\ bull'[x].upload = proc[p].upload
<1>0. bull \in [Exec -> QueueEntry] /\ \A e \in Exec : bull[e] \in QueueEntry
  BY DEF TypeInv, TypeOK
<1>1. CASE bull' = bull
  BY <1>1
<1>2. ASSUME NEW z \in Exec, NEW e, bull' = [bull EXCEPT ![z] = e],
             \/ e.state = "missing"
             \/ bull[z].state # "missing" /\ e.upload = bull[z].upload
             \/ \E p \in Proc : proc[p].pc = "add" /\ proc[p].new = z /\ e.upload = proc[p].upload
      PROVE  goal
  <2>1. bull'[x] = IF x = z THEN e ELSE bull[x]
    BY <1>0, <1>2
  <2> QED BY <1>2, <2>1
<1> HIDE DEF goal
<1>3. ASSUME NEW w \in Worker, RunStep(w) \/ WorkerCrash(w) \/ LockLost(w) \/ Heartbeat(w)
      PROVE  bull' = bull
  BY <1>3, RunMoves DEF WorkerCrash, LockLost, Heartbeat
<1>4. ASSUME NEW w \in Worker, Finish(w) PROVE goal
  <2>1. CASE ~work[w].lock
    BY <1>1, <1>4, <2>1 DEF Finish, goal
  <2>2. CASE work[w].lock
    <3> DEFINE e == [bull[work[w].exec] EXCEPT !.state = EndState(w), !.made = work[w].try]
    <3>1. work[w].exec \in Exec /\ bull[work[w].exec].state = "active"
      BY <2>2 DEF TypeInv, Wired, KnowsDelivery, Delivered
    <3>2. \A b \in QueueEntry : \A s, n : [b EXCEPT !.state = s, !.made = n].upload = b.upload
      BY DEF QueueEntry
    <3>3. e.upload = bull[work[w].exec].upload
      BY <1>0, <3>1, <3>2
    <3>4. bull' = [bull EXCEPT ![work[w].exec] = e]
      BY <1>4, <2>2 DEF Finish
    <3> HIDE DEF e
    <3> QED BY <1>2, <3>1, <3>3, <3>4
  <2> QED BY <2>1, <2>2
<1>5. ASSUME NEW w \in Worker, NEW z \in Exec, Deliver(w, z) PROVE goal
  <2> DEFINE e == [bull[z] EXCEPT !.state = "active"]
  <2>1. \A b \in QueueEntry : [b EXCEPT !.state = "active"].upload = b.upload
    BY DEF QueueEntry
  <2>2. e.upload = bull[z].upload /\ bull' = [bull EXCEPT ![z] = e] /\ bull[z].state = "waiting"
    BY <1>0, <1>5, <2>1 DEF Deliver
  <2> HIDE DEF e
  <2> QED BY <1>2, <2>2
<1>6. ASSUME NEW z \in Exec, StallRecovered(z) PROVE goal
  <2> DEFINE e == [bull[z] EXCEPT !.state = IF bull[z].stalled THEN "ended" ELSE "waiting", !.stalled = TRUE]
  <2>1. \A b \in QueueEntry : \A s : [b EXCEPT !.state = s, !.stalled = TRUE].upload = b.upload
    BY DEF QueueEntry
  <2>2. e.upload = bull[z].upload /\ bull' = [bull EXCEPT ![z] = e] /\ bull[z].state = "active"
    BY <1>0, <1>6, <2>1 DEF StallRecovered
  <2> HIDE DEF e
  <2> QED BY <1>2, <2>2
<1>7. ASSUME NEW z \in Exec, bull' = [bull EXCEPT ![z] = NoEntry] PROVE goal
  BY <1>2, <1>7 DEF NoEntry
<1>8. ASSUME NEW p \in Proc, EnqueueStep(p) \/ AddFails(p) PROVE goal
  <2>1. CASE AddToQueue(p) \/ AddFails(p)
    <3> DEFINE e == [NoEntry EXCEPT !.state = "waiting", !.upload = proc[p].upload]
    <3>1. e.upload = proc[p].upload /\ proc[p].pc = "add" /\ proc[p].new \in Exec
      BY <2>1 DEF AddToQueue, AddFails, NoEntry, TypeInv, Wired, KnowsUpload
    <3>2. bull' = bull \/ bull' = [bull EXCEPT ![proc[p].new] = e]
      BY <2>1 DEF AddToQueue, AddFails
    <3> HIDE DEF e
    <3> QED BY <1>1, <1>2, <3>1, <3>2 DEF goal
  <2>2. CASE Look(p) \/ Probe(p) \/ Clear(p) \/ ClaimLost(p)
    BY <1>1, <2>2 DEF Look, Probe, Clear, ClaimLost, goal
  <2>3. CASE \E z \in Exec : ClaimExecution(p, z)
    BY <1>7, <2>3 DEF ClaimExecution
  <2> QED BY <1>8, <2>1, <2>2, <2>3 DEF EnqueueStep
<1>9. CASE \/ \E w \in Worker : RequeuePending(w) \/ RecoverStale(w)
           \/ \E u \in Upload : GrowsStale(u)
           \/ \E r \in Request : RequestArrives(r) \/ RemoveCancelled(r) \/ RequestCrash(r)
           \/ \E u \in Upload : PruneUpload(u) \/ \E c \in Chunk : PutChunk(u, c)
           \/ ObjectStep
  <2>1. bull' = bull
    BY <1>9 DEF RequeuePending, RecoverStale, GrowsStale, RequestArrives, CompleteUpload, Poll, CancelUpload,
         RemoveCancelled, RequestCrash, PruneUpload, PutChunk, ObjectStep, DrainStep,
         OutboxRowsClaimed, DrainNext, LookForReferences, RemoveObject, ForgetRow, RemoveFails, DrainCrash,
         ClaimTimesOut, ReservationDue
  <2> QED BY <1>1, <2>1 DEF goal
<1>10. \A z \in Exec : RedisLoses(z) => bull' = [bull EXCEPT ![z] = NoEntry]
  BY DEF RedisLoses
<1>11. goal
  BY <1>1, <1>3, <1>4, <1>5, <1>6, <1>7, <1>8, <1>9, <1>10, NextCases DEF goal
<1> QED BY <1>11 DEF goal

\* Whoever adds to the queue claimed the execution for its upload.
LEMMA AddMoves ==
  ASSUME TypeInv, Next, NEW q \in Proc, proc'[q].pc = "add"
  PROVE  \/ proc[q].pc = "add" /\ proc'[q].new = proc[q].new /\ proc'[q].upload = proc[q].upload
         \/ \E x \in Exec : ClaimExecution(q, x) /\ proc'[q].new = x /\ proc'[q].upload = proc[q].upload
<1> DEFINE goal ==
         \/ proc[q].pc = "add" /\ proc'[q].new = proc[q].new /\ proc'[q].upload = proc[q].upload
         \/ \E x \in Exec : ClaimExecution(q, x) /\ proc'[q].new = x /\ proc'[q].upload = proc[q].upload
<1>0. /\ proc \in [Proc -> Process] /\ NoProcess \in Process /\ Started \in Process
      /\ NoProcess.pc # "add" /\ Started.pc # "add"
      /\ Worker \subseteq Proc /\ Request \subseteq Proc
  BY NewRows DEF TypeInv, TypeOK, NoProcess, Started, Proc
<1>1. CASE proc' = proc
  BY <1>1
<1>2. ASSUME NEW p \in Proc, NEW y \in Process, proc' = [proc EXCEPT ![p] = y],
             y.pc # "add" \/ \E x \in Exec : ClaimExecution(p, x) /\ y.new = x /\ y.upload = proc[p].upload
      PROVE  goal
  <2>1. proc'[q] = IF q = p THEN y ELSE proc[q]
    BY <1>0, <1>2
  <2> QED BY <1>2, <2>1
<1> HIDE DEF goal
<1>3. CASE \E w \in Worker : RunStep(w) \/ Finish(w) \/ \E x \in Exec : Deliver(w, x)
  BY <1>1, <1>3, RunMoves DEF Finish, Deliver, goal
<1>4. CASE \E w \in Worker : WorkerCrash(w) \/ LockLost(w) \/ Heartbeat(w)
  BY <1>0, <1>1, <1>2, <1>4 DEF WorkerCrash, LockLost, Heartbeat, goal
<1>5. ASSUME NEW p \in Proc, EnqueueStep(p) \/ AddFails(p) PROVE goal
  <2>1. /\ proc[p] \in Process /\ proc[p].rows \in SUBSET Upload /\ KnowsUpload(proc[p])
        /\ proc[p].upload \in Upload \cup {None} /\ proc[p].seen \in Exec \cup {None}
        /\ \A pc \in {"probe", "clear", "enqueue", "add"} : pc \in ProcPc
    BY TypeFacts, Words DEF TypeInv, Wired
  <2>2. CASE Enqueued(p)
    <3>1. PICK y \in Process : y.pc # "add" /\ proc' = [proc EXCEPT ![p] = y]
      BY <2>1, <2>2, NextOfType DEF Enqueued
    <3> QED BY <1>2, <3>1
  <2>3. ASSUME NEW s \in Exec \cup {None}, NEW pc \in ProcPc, pc # "add",
               \/ proc' = [proc EXCEPT ![p] = [@ EXCEPT !.seen = s, !.pc = pc]]
               \/ proc' = [proc EXCEPT ![p] = [@ EXCEPT !.pc = pc, !.seen = s]]
        PROVE  goal
    <3> DEFINE y == [proc[p] EXCEPT !.seen = s, !.pc = pc]
               z == [proc[p] EXCEPT !.pc = pc, !.seen = s]
    <3>1. Fields(y, pc, proc[p].upload, s, proc[p].new) /\ Fields(z, pc, proc[p].upload, s, proc[p].new)
      BY <2>1, ProcessSees
    <3>2. proc' = [proc EXCEPT ![p] = y] \/ proc' = [proc EXCEPT ![p] = z]
      BY <2>3
    <3> HIDE DEF y, z
    <3>3. y \in Process /\ y.pc # "add" /\ z \in Process /\ z.pc # "add"
      BY <2>3, <3>1 DEF Fields
    <3> QED BY <1>2, <3>2, <3>3
  <2>4. CASE Look(p)
    <3> DEFINE s == IF Open(proc[p].upload) THEN job[proc[p].upload].active ELSE None
               pc == IF s = None THEN "enqueue" ELSE "probe"
    <3>1. proc[p].upload \in Upload
      BY <2>1, <2>4 DEF Look, KnowsUpload
    <3>2. s \in Exec \cup {None} /\ pc \in ProcPc /\ pc # "add"
      BY <2>1, <3>1, TypeFacts DEF TypeInv
    <3>3. proc' = [proc EXCEPT ![p] = [@ EXCEPT !.seen = s, !.pc = pc]]
      BY <2>4 DEF Look
    <3> HIDE DEF s, pc
    <3> QED BY <2>3, <3>2, <3>3
  <2>5. CASE Step(p, "clear")
    <3> DEFINE y == [proc[p] EXCEPT !.pc = "clear"]
    <3>1. y \in Process /\ y.pc = "clear"
      BY <2>1, ProcessGoes DEF Fields
    <3>2. proc' = [proc EXCEPT ![p] = y]
      BY <2>5 DEF Step
    <3> HIDE DEF y
    <3> QED BY <1>2, <3>1, <3>2
  <2>6. CASE Clear(p)
    <3>1. proc' = [proc EXCEPT ![p] = [@ EXCEPT !.pc = "enqueue", !.seen = None]]
      BY <2>6 DEF Clear
    <3>2. "enqueue" \in ProcPc /\ None \in Exec \cup {None}
      BY <2>1
    <3> QED BY <2>3, <3>1, <3>2
  <2>7. ASSUME NEW x \in Exec, ClaimExecution(p, x) PROVE goal
    <3> DEFINE y == [proc[p] EXCEPT !.pc = "add", !.new = x]
    <3>1. Fields(y, "add", proc[p].upload, proc[p].seen, x)
      BY <2>1, ProcessAdds
    <3>2. proc' = [proc EXCEPT ![p] = y]
      BY <2>7 DEF ClaimExecution
    <3> HIDE DEF y
    <3> QED BY <1>2, <2>7, <3>1, <3>2 DEF Fields
  <2>8. CASE AddFails(p)
    BY <1>0, <1>2, <2>8 DEF AddFails
  <2>9. \/ Enqueued(p) \/ Look(p) \/ Step(p, "clear") \/ Clear(p)
        \/ (\E x \in Exec : ClaimExecution(p, x)) \/ AddFails(p)
    BY <1>5 DEF EnqueueStep, Probe, ClaimLost, AddToQueue
  <2> QED BY <2>2, <2>4, <2>5, <2>6, <2>7, <2>8, <2>9
<1>6. ASSUME NEW w \in Worker, RequeuePending(w) \/ RecoverStale(w) PROVE goal
  <2>1. PICK rows \in SUBSET Upload : NextOf(w, rows)
    <3>1. CASE RequeuePending(w)
      <4>1. NextOf(w, {u \in Upload : job[u].status = "queued" /\ session[u] = "queued"})
        BY <3>1 DEF RequeuePending
      <4> QED BY <4>1
    <3>2. CASE RecoverStale(w)
      <4>1. NextOf(w, {u \in Upload : Interrupted(u)})
        BY <3>2 DEF RecoverStale
      <4> QED BY <4>1
    <3> QED BY <1>6, <3>1, <3>2
  <2>2. PICK y \in Process : y.pc # "add" /\ proc' = [proc EXCEPT ![w] = y]
    BY <1>0, <2>1, NextOfType
  <2> QED BY <1>0, <1>2, <2>2
<1>7. ASSUME NEW r \in Request, RequestArrives(r) \/ RemoveCancelled(r) \/ RequestCrash(r) PROVE goal
  <2>1. ASSUME NEW u \in Upload, NEW pc \in {"look", "rmdir"}, Enters(r, u, pc) PROVE goal
    <3>1. PICK y \in Process : y.pc # "add" /\ proc' = [proc EXCEPT ![r] = y]
      BY <2>1, EntersType
    <3> QED BY <1>0, <1>2, <3>1
  <2>2. \/ proc' = proc \/ proc' = [proc EXCEPT ![r] = NoProcess]
        \/ \E u \in Upload : Enters(r, u, "look") \/ Enters(r, u, "rmdir")
    BY <1>7 DEF RequestArrives, CompleteUpload, Poll, CancelUpload, RemoveCancelled, RequestCrash
  <2> QED BY <1>0, <1>1, <1>2, <2>1, <2>2 DEF goal
<1>8. CASE \/ \E x \in Exec : StallRecovered(x) \/ RedisLoses(x)
           \/ \E u \in Upload : GrowsStale(u)
           \/ \E u \in Upload : PruneUpload(u) \/ \E c \in Chunk : PutChunk(u, c)
           \/ ObjectStep
  <2>1. proc' = proc
    BY <1>8 DEF StallRecovered, RedisLoses, GrowsStale, PruneUpload, PutChunk, ObjectStep, DrainStep,
         OutboxRowsClaimed, DrainNext, LookForReferences, RemoveObject, ForgetRow, RemoveFails, DrainCrash,
         ClaimTimesOut, ReservationDue
  <2> QED BY <1>1, <2>1 DEF goal
<1>9. goal
  BY <1>3, <1>4, <1>5, <1>6, <1>7, <1>8, NextCases DEF goal
<1> QED BY <1>9 DEF goal

\* What a claim for a new execution does.
LEMMA ClaimFacts ==
  ASSUME TypeInv, NEW p \in Proc, NEW x \in Exec, ClaimExecution(p, x)
  PROVE  /\ work' = work /\ Fresh(x) /\ bull'[x].state = "missing"
         /\ \A q \in Proc : q # p => proc'[q] = proc[q]
         /\ \A v \in Upload : v # proc[p].upload => job'[v] = job[v]
<1>1. work' = work /\ Fresh(x) /\ NoEntry.state = "missing"
  BY DEF ClaimExecution, NoEntry
<1>2. bull'[x] = NoEntry
  BY DEF ClaimExecution, TypeInv, TypeOK
<1>3. \A q \in Proc : q # p => proc'[q] = proc[q]
  BY DEF ClaimExecution, TypeInv, TypeOK
<1>4. \A v \in Upload : v # proc[p].upload => job'[v] = job[v]
  BY DEF ClaimExecution, TypeInv, TypeOK
<1> QED BY <1>1, <1>2, <1>3, <1>4

LEMMA NamedStep ==
  ASSUME FenceInv, Named, Next
  PROVE  Named'
<1>0. TypeInv /\ \A u \in Upload : job[u].active \in Exec \cup {None}
  BY TypeFacts DEF FenceInv, TypeInv
<1>1. \A u \in Upload : RowMoves(u)
  BY EveryRowMoves
<1>2. ASSUME NEW u \in Upload, NEW x \in Exec, job[u].active = x, job'[u].active = x
      PROVE  NamedFor(u, x)'
  <2>0. NamedFor(u, x) /\ x # None
    BY <1>2, ImportAssumption DEF Named
  <2>1. \A p \in Proc : ~ClaimExecution(p, x)
    BY <1>2 DEF ClaimExecution, Fresh
  <2>2. \A w \in Worker : work'[w].exec = x => work'[w].upload = u
    BY <1>0, <2>0, ExecMoves DEF NamedFor
  <2>3. bull'[x].state # "missing" => bull'[x].upload = u
    BY <1>0, <2>0, EntryMoves DEF NamedFor
  <2>4. \A p \in Proc : proc'[p].pc = "add" /\ proc'[p].new = x => proc'[p].upload = u
    BY <1>0, <2>0, <2>1, AddMoves DEF NamedFor
  <2>5. \A v \in Upload : job'[v].active = x => v = u
    BY <1>1, <2>0, <2>1 DEF NamedFor, RowMoves
  <2> QED BY <2>2, <2>3, <2>4, <2>5 DEF NamedFor
<1>3. ASSUME NEW p \in Proc, NEW x \in Exec, ClaimExecution(p, x), NEW u \in Upload, proc[p].upload = u
      PROVE  NamedFor(u, x)'
  <2>1. /\ work' = work /\ Fresh(x) /\ bull'[x].state = "missing"
        /\ \A q \in Proc : q # p => proc'[q] = proc[q]
        /\ \A v \in Upload : v # u => job'[v] = job[v]
    BY <1>0, <1>3, ClaimFacts
  <2>2. /\ \A w \in Worker : work[w].exec # x
        /\ \A q \in Proc : proc[q].new # x
        /\ \A v \in Upload : job[v].active # x
    BY <2>1 DEF Fresh
  <2>3. proc'[p].pc = "add" => proc'[p].upload = u
    BY <1>0, <1>3, AddMoves
  <2> QED BY <2>1, <2>2, <2>3 DEF NamedFor
<1>4. ASSUME NEW u \in Upload, job'[u].active # None PROVE NamedFor(u, job[u].active)'
  <2>1. CASE job'[u].active = job[u].active
    <3>1. job[u].active \in Exec
      BY <1>0, <1>4, <2>1
    <3>2. PICK x \in Exec : job[u].active = x
      BY <3>1
    <3>3. NamedFor(u, x)'
      BY <1>2, <2>1, <3>2
    <3> QED BY <2>1, <3>2, <3>3 DEF NamedFor
  <2>2. CASE \E p \in Proc, x \in Exec : ClaimExecution(p, x) /\ proc[p].upload = u /\ job'[u].active = x
    <3>1. PICK p \in Proc, x \in Exec : ClaimExecution(p, x) /\ proc[p].upload = u /\ job'[u].active = x
      BY <2>2
    <3>2. NamedFor(u, x)'
      BY <1>3, <3>1
    <3> QED BY <3>1, <3>2 DEF NamedFor
  <2> QED BY <1>1, <1>4, <2>1, <2>2 DEF RowMoves
<1> QED BY <1>4 DEF Named

-----------------------------------------------------------------------------
(***************************************************************************)
(* An execution between its reservation and the hand-over of its objects:  *)
(* to the book, or to the outbox.                                          *)
(***************************************************************************)
Early == {"claim", "check", "read", "admit", "reserve", "put"}

Pending(x) == x.pc \in {"put", "recheck", "publish"} \/ (x.pc = "abandon" /\ x.wrote)

WroteLate == \A w \in Worker : work[w].pc \in Early => ~work[w].wrote

\* How an execution moves, as far as its objects tell.
Handles(w) ==
  \/ PutObjects(w) /\ work[w].pc = "put" /\ work'[w].pc = "recheck" /\ work'[w].wrote
  \/ /\ work'[w].wrote = work[w].wrote
     /\ \/ work'[w].pc \notin Early \cup {"recheck", "publish", "abandon"}
        \/ work[w].pc \in Early /\ work'[w].pc \in Early \ {"put"}
        \/ ReserveObjects(w) /\ work[w].pc = "reserve" /\ work'[w].pc = "put"
        \/ work[w].pc = "recheck" /\ work'[w].pc = "publish"
        \/ work[w].pc \in Early \cup {"recheck", "publish"} /\ work'[w].pc = "abandon"

\* To and Throw leave what the execution wrote.
LEMMA WrittenTo ==
  ASSUME TypeInv, NEW w \in Worker, NEW pc
  PROVE  /\ To(w, pc) => work'[w].pc = pc /\ work'[w].wrote = work[w].wrote
         /\ \A why : Throw(w, why) => work'[w].pc = "abandon" /\ work'[w].wrote = work[w].wrote
         /\ work' = [work EXCEPT ![w] = [@ EXCEPT !.pc = pc, !.wrote = TRUE]] => work'[w].pc = pc /\ work'[w].wrote
<1>0. work \in [Worker -> Execution] /\ work[w] \in Execution
  BY DEF TypeInv, TypeOK
<1>1. ASSUME NEW y, work' = [work EXCEPT ![w] = y] PROVE work'[w] = y
  BY <1>0, <1>1
<1>2. ASSUME NEW x \in Execution, NEW why
      PROVE  /\ [x EXCEPT !.pc = pc].pc = pc /\ [x EXCEPT !.pc = pc].wrote = x.wrote
             /\ [x EXCEPT !.pc = "abandon", !.why = why].pc = "abandon"
             /\ [x EXCEPT !.pc = "abandon", !.why = why].wrote = x.wrote
             /\ [x EXCEPT !.pc = pc, !.wrote = TRUE].pc = pc /\ [x EXCEPT !.pc = pc, !.wrote = TRUE].wrote
  BY DEF Execution
<1>3. ASSUME To(w, pc) PROVE work'[w].pc = pc /\ work'[w].wrote = work[w].wrote
  <2>1. work'[w] = [work[w] EXCEPT !.pc = pc]
    BY <1>1, <1>3 DEF To
  <2> QED BY <1>0, <1>2, <2>1
<1>4. ASSUME NEW why, Throw(w, why) PROVE work'[w].pc = "abandon" /\ work'[w].wrote = work[w].wrote
  <2>1. work'[w] = [work[w] EXCEPT !.pc = "abandon", !.why = why]
    BY <1>1, <1>4 DEF Throw
  <2> QED BY <1>0, <1>2, <2>1
<1>5. ASSUME work' = [work EXCEPT ![w] = [@ EXCEPT !.pc = pc, !.wrote = TRUE]] PROVE work'[w].pc = pc /\ work'[w].wrote
  <2>1. work'[w] = [work[w] EXCEPT !.pc = pc, !.wrote = TRUE]
    BY <1>1, <1>5
  <2> QED BY <1>0, <1>2, <2>1
<1> QED BY <1>3, <1>4, <1>5

LEMMA RunHandles ==
  ASSUME TypeInv, NEW w \in Worker, RunStep(w)
  PROVE  Handles(w)
<1>1. \A pc : To(w, pc) => work'[w].pc = pc /\ work'[w].wrote = work[w].wrote
  BY WrittenTo
<1>2. \A why : Throw(w, why) => work'[w].pc = "abandon" /\ work'[w].wrote = work[w].wrote
  BY WrittenTo
<1>3. CASE ReserveObjects(w)
  BY <1>1, <1>3 DEF ReserveObjects, Handles
<1>4. CASE PutObjects(w)
  <2>1. work'[w].pc = "recheck" /\ work'[w].wrote
    BY <1>4, WrittenTo DEF PutObjects
  <2> QED BY <1>4, <2>1 DEF PutObjects, Handles
<1>5. CASE Check(w)
  <2>1. CASE Stopped(w) = "none"
    <3>1. /\ To(w, AfterCheck[work[w].pc]) /\ work[w].pc \in {"check", "admit", "recheck"}
          /\ AfterCheck["check"] = "read" /\ AfterCheck["admit"] = "reserve" /\ AfterCheck["recheck"] = "publish"
      BY <1>5, <2>1 DEF Check, AfterCheck
    <3>2. \/ work[w].pc = "check" /\ To(w, "read")
          \/ work[w].pc = "admit" /\ To(w, "reserve")
          \/ work[w].pc = "recheck" /\ To(w, "publish")
      BY <3>1
    <3> QED BY <1>1, <3>2 DEF Handles, Early
  <2>2. CASE Stopped(w) # "none"
    <3>1. Throw(w, Stopped(w)) /\ work[w].pc \in {"check", "admit", "recheck"}
      BY <1>5, <2>2 DEF Check, AfterCheck
    <3> QED BY <1>2, <3>1 DEF Handles, Early
  <2> QED BY <2>1, <2>2
<1>6. CASE ClaimImport(w) \/ ReadUpload(w)
  <2>1. \/ work[w].pc = "claim" /\ To(w, "check")
        \/ work[w].pc = "read" /\ (To(w, "admit") \/ Throw(w, "cancelled"))
    BY <1>6 DEF ClaimImport, ReadUpload
  <2> QED BY <1>1, <1>2, <2>1 DEF Handles, Early
<1>7. CASE \/ UploadUnreadable(w) \/ ImportFails(w) \/ HeartbeatAborts(w) \/ PutAnswerLost(w) \/ PublishRefused(w)
  <2>1. /\ work[w].pc \in {"read", "put", "publish"}
        /\ Throw(w, "error") \/ Throw(w, "cancelled")
    BY <1>7 DEF UploadUnreadable, ImportFails, HeartbeatAborts, PutAnswerLost, PublishRefused
  <2> QED BY <1>2, <2>1 DEF Handles, Early
<1>8. CASE Publish(w)
  <2>1. /\ work[w].pc = "publish"
        /\ Throw(w, "error") \/ To(w, "cleanup")
    BY <1>8 DEF Publish
  <2> QED BY <1>1, <1>2, <2>1 DEF Handles, Early
<1>9. CASE \/ ClaimRefused(w) \/ RemoveDirectory(w) \/ AbandonObjects(w) \/ Judge(w) \/ DropChunks(w)
           \/ FailSession(w) \/ FailJob(w) \/ Retry(w)
  <2>1. \E pc \in {"return", "judge", "drop_rows", "drop_files", "fail", "retry", "fail_job", "throw"} : To(w, pc)
    BY <1>9 DEF ClaimRefused, RemoveDirectory, AbandonObjects, AfterAbandon, Judge, DropChunks,
         FailSession, FailJob, Retry
  <2> QED BY <1>1, <2>1 DEF Handles, Early
<1> QED BY <1>3, <1>4, <1>5, <1>6, <1>7, <1>8, <1>9 DEF RunStep

\* An execution keeps its delivery, and what it wrote, or is not pending.
LEMMA EveryHandles ==
  ASSUME TypeInv, Next, NEW w \in Worker
  PROVE  \/ /\ work'[w].exec = work[w].exec /\ work'[w].upload = work[w].upload /\ work'[w].try = work[w].try
            /\ \/ Handles(w)
               \/ work'[w].pc = work[w].pc /\ work'[w].wrote = work[w].wrote
         \/ work'[w].pc \in {"idle", "claim"} /\ ~work'[w].wrote
<1> DEFINE goal ==
         \/ /\ work'[w].exec = work[w].exec /\ work'[w].upload = work[w].upload /\ work'[w].try = work[w].try
            /\ \/ Handles(w)
               \/ work'[w].pc = work[w].pc /\ work'[w].wrote = work[w].wrote
         \/ work'[w].pc \in {"idle", "claim"} /\ ~work'[w].wrote
<1>0. work \in [Worker -> Execution]
  BY DEF TypeInv, TypeOK
<1>1. ASSUME work'[w] = work[w] PROVE goal
  BY <1>1
<1>2. ASSUME NEW v \in Worker, NEW y, work' = [work EXCEPT ![v] = y]
      PROVE  work'[v] = y /\ (w # v => work'[w] = work[w])
  BY <1>0, <1>2
<1>3. ASSUME RunStep(w) PROVE goal
  <2>1. PICK pc \in WorkPc \ {"idle"} : Moves(w, pc)
    BY <1>3, RunMoves
  <2>2. work[w].pc # "idle"
    BY <1>3, RunMoves
  <2>3. work'[w].exec = work[w].exec /\ work'[w].upload = work[w].upload /\ work'[w].try = work[w].try
    BY <2>1, <2>2, MovesType
  <2> QED BY <1>3, <2>3, RunHandles
<1>4. ASSUME NEW v \in Worker, v # w, RunStep(v) PROVE goal
  <2>1. PICK pc \in WorkPc \ {"idle"} : Moves(v, pc)
    BY <1>4, RunMoves
  <2>2. work'[w] = work[w]
    BY <1>2, <1>4, <2>1 DEF Moves
  <2> QED BY <1>1, <2>2
<1>5. ASSUME NEW v \in Worker, Finish(v) \/ WorkerCrash(v) PROVE goal
  <2>1. /\ NoExecution.pc = "idle" /\ ~NoExecution.wrote
        /\ work' = [work EXCEPT ![v] = NoExecution]
    BY <1>5 DEF Finish, WorkerCrash, NoExecution
  <2> QED BY <1>1, <1>2, <2>1
<1>6. ASSUME NEW v \in Worker, NEW x \in Exec, Deliver(v, x) PROVE goal
  <2> DEFINE y == [NoExecution EXCEPT
       !.exec = x, !.upload = bull[x].upload, !.try = bull[x].made + 1, !.pc = "claim", !.lock = TRUE]
  <2>1. y.pc = "claim" /\ ~y.wrote /\ work' = [work EXCEPT ![v] = y]
    BY <1>6 DEF Deliver, NoExecution
  <2> HIDE DEF y
  <2>2. work'[v] = y /\ (w # v => work'[w] = work[w])
    BY <1>2, <2>1
  <2> QED BY <1>1, <2>1, <2>2
<1>7. ASSUME NEW v \in Worker, LockLost(v) PROVE goal
  <2>1. \A e \in Execution : /\ [e EXCEPT !.lock = FALSE].exec = e.exec /\ [e EXCEPT !.lock = FALSE].upload = e.upload
                             /\ [e EXCEPT !.lock = FALSE].try = e.try /\ [e EXCEPT !.lock = FALSE].pc = e.pc
                             /\ [e EXCEPT !.lock = FALSE].wrote = e.wrote
    BY DEF Execution
  <2>2. work[v] \in Execution /\ work' = [work EXCEPT ![v] = [work[v] EXCEPT !.lock = FALSE]]
    BY <1>0, <1>7 DEF LockLost
  <2>3. work'[v] = [work[v] EXCEPT !.lock = FALSE] /\ (w # v => work'[w] = work[w])
    BY <1>2, <2>2
  <2>4. CASE w = v
    BY <2>1, <2>2, <2>3, <2>4
  <2> QED BY <1>1, <2>3, <2>4
<1> HIDE DEF goal
<1>8. CASE \/ \E v \in Worker : Heartbeat(v) \/ RequeuePending(v) \/ RecoverStale(v)
           \/ \E p \in Proc : EnqueueStep(p) \/ AddFails(p)
           \/ \E x \in Exec : StallRecovered(x) \/ RedisLoses(x)
           \/ \E u \in Upload : GrowsStale(u)
  <2>1. work' = work
    BY <1>8 DEF Heartbeat, RequeuePending, RecoverStale, EnqueueStep, Look, Probe, Clear, ClaimExecution,
         ClaimLost, AddToQueue, AddFails, StallRecovered, RedisLoses, GrowsStale
  <2> QED BY <1>1, <2>1 DEF goal
<1>9. CASE \/ \E r \in Request : RequestArrives(r) \/ RemoveCancelled(r) \/ RequestCrash(r)
           \/ \E u \in Upload : PruneUpload(u) \/ \E c \in Chunk : PutChunk(u, c)
           \/ ObjectStep
  <2>1. work' = work
    BY <1>9 DEF RequestArrives, CompleteUpload, Poll, CancelUpload, RemoveCancelled, RequestCrash,
         PruneUpload, PutChunk, ObjectStep, DrainStep,
         OutboxRowsClaimed, DrainNext, LookForReferences, RemoveObject, ForgetRow, RemoveFails, DrainCrash,
         ClaimTimesOut, ReservationDue
  <2> QED BY <1>1, <2>1 DEF goal
<1>10. goal
  BY <1>3, <1>4, <1>5, <1>6, <1>7, <1>8, <1>9, NextCases DEF goal
<1> QED BY <1>10 DEF goal

LEMMA WroteLateStep ==
  ASSUME TypeInv, WroteLate, Next
  PROVE  WroteLate'
<1>1. ASSUME NEW w \in Worker, work'[w].pc \in Early PROVE ~work'[w].wrote
  BY <1>1, EveryHandles DEF WroteLate, Handles, Early
<1> QED BY <1>1 DEF WroteLate

\* How an execution comes to be pending, and stays so.
LEMMA PendingMoves ==
  ASSUME TypeInv, WroteLate, Next, NEW w \in Worker, Pending(work'[w])
  PROVE  /\ work'[w].exec = work[w].exec /\ work'[w].upload = work[w].upload /\ work'[w].try = work[w].try
         /\ \/ ReserveObjects(w) /\ work[w].pc = "reserve" /\ work'[w].pc = "put"
            \/ Pending(work[w]) /\ (work[w].pc = "abandon" => work'[w].pc = "abandon")
         /\ work'[w].pc = "put" => work[w].pc = "put" \/ ReserveObjects(w)
         /\ work'[w].pc \in {"recheck", "publish"} => PutObjects(w) \/ work[w].pc \in {"recheck", "publish"}
BY EveryHandles DEF WroteLate, Handles, Early, Pending

-----------------------------------------------------------------------------
(***************************************************************************)
(* What a step may do to the tables of objects.                            *)
(***************************************************************************)
LEMMA TableCases ==
  ASSUME TypeInv, Next
  PROVE  \/ UNCHANGED <<outbox, store, ref, drain, reused, landed>>
         \/ \E w \in Worker : \/ ReserveObjects(w) \/ PutObjects(w) \/ PutAnswerLost(w)
                              \/ Publish(w) \/ AbandonObjects(w)
         \/ ObjectStep
<1>1. ASSUME NEW w \in Worker, RunStep(w),
             ~(ReserveObjects(w) \/ PutObjects(w) \/ PutAnswerLost(w) \/ Publish(w) \/ AbandonObjects(w))
      PROVE  UNCHANGED <<outbox, store, ref, drain, reused, landed>>
  BY <1>1 DEF RunStep, ClaimImport, ClaimRefused, Check, ReadUpload, UploadUnreadable, PublishRefused,
     RemoveDirectory, Judge, DropChunks, FailSession, FailJob, Retry, ImportFails, HeartbeatAborts, objectVars
<1>2. ASSUME \/ \E w \in Worker : Finish(w) \/ \E x \in Exec : Deliver(w, x)
             \/ \E w \in Worker : WorkerCrash(w) \/ LockLost(w) \/ Heartbeat(w)
             \/ \E w \in Worker : RequeuePending(w) \/ RecoverStale(w)
             \/ \E x \in Exec : StallRecovered(x) \/ RedisLoses(x)
             \/ \E u \in Upload : GrowsStale(u)
      PROVE  UNCHANGED <<outbox, store, ref, drain, reused, landed>>
  BY <1>2 DEF Finish, Deliver, WorkerCrash, LockLost, Heartbeat, RequeuePending, RecoverStale, StallRecovered,
     RedisLoses, GrowsStale, objectVars
<1>3. ASSUME \/ \E p \in Proc : EnqueueStep(p) \/ AddFails(p)
             \/ \E r \in Request : RequestArrives(r) \/ RemoveCancelled(r) \/ RequestCrash(r)
             \/ \E u \in Upload : PruneUpload(u) \/ \E c \in Chunk : PutChunk(u, c)
      PROVE  UNCHANGED <<outbox, store, ref, drain, reused, landed>>
  BY <1>3 DEF EnqueueStep, Look, Probe, Clear, ClaimExecution, ClaimLost, AddToQueue, AddFails, RequestArrives,
     CompleteUpload, Poll, CancelUpload, RemoveCancelled, RequestCrash, PruneUpload, PutChunk, objectVars
<1> QED BY <1>1, <1>2, <1>3, NextCases

LEMMA KeyFacts ==
  ASSUME TypeInv, NEW w \in Worker, work[w].pc # "idle"
  PROVE  KeyOf(w) \in Key /\ KeyOf(w)[1] = work[w].exec /\ work[w].exec \in Exec /\ work[w].exec # None
         /\ work[w].upload \in Upload
BY ImportAssumption DEF TypeInv, Wired, KnowsDelivery, Key, KeyOf

LEMMA ReserveFacts ==
  ASSUME TypeInv, NEW w \in Worker, ReserveObjects(w)
  PROVE  /\ KeyOf(w) \in Key /\ UNCHANGED <<store, ref, drain, landed, job>>
         /\ outbox'[KeyOf(w)] = IF outbox[KeyOf(w)] = "none" THEN "reserved" ELSE outbox[KeyOf(w)]
         /\ \A j \in Key : j # KeyOf(w) => outbox'[j] = outbox[j]
         /\ reused' = IF outbox[KeyOf(w)] = "none" THEN reused ELSE reused \cup {KeyOf(w)}
<1>1. KeyOf(w) \in Key
  BY KeyFacts DEF ReserveObjects
<1> QED BY <1>1 DEF ReserveObjects, Reserve

LEMMA PutFacts ==
  ASSUME TypeInv, NEW w \in Worker, PutObjects(w) \/ PutAnswerLost(w)
  PROVE  /\ KeyOf(w) \in Key /\ UNCHANGED <<outbox, ref, drain, reused, landed>>
         /\ store' = store \cup {KeyOf(w)} /\ work[w].pc = "put"
<1>1. KeyOf(w) \in Key
  BY KeyFacts DEF PutObjects, PutAnswerLost
<1> QED BY <1>1 DEF PutObjects, PutAnswerLost

LEMMA AbandonFacts ==
  ASSUME TypeInv, NEW w \in Worker, AbandonObjects(w)
  PROVE  /\ KeyOf(w) \in Key /\ UNCHANGED <<store, ref, drain, reused, landed>>
         /\ work[w].pc = "abandon" /\ ~Pending(work'[w])
         /\ ~work[w].wrote => outbox' = outbox
         /\ \A j \in Key : j # KeyOf(w) => outbox'[j] = outbox[j]
         /\ \A j \in Key : outbox'[j] # outbox[j] => outbox'[j] = "due" /\ outbox[j] # "processing"
<1>1. KeyOf(w) \in Key
  BY KeyFacts DEF AbandonObjects
<1>2. To(w, AfterAbandon(work[w].why)) /\ AfterAbandon(work[w].why) \in {"drop_rows", "return", "judge"}
  BY DEF AbandonObjects, AfterAbandon
<1>3. work'[w].pc \in {"drop_rows", "return", "judge"}
  BY <1>2, WrittenTo
<1> QED BY <1>1, <1>3 DEF AbandonObjects, Enqueue, Pending

LEMMA PublishFacts ==
  ASSUME FenceInv, NEW w \in Worker, Publish(w)
  PROVE  LET u == work[w].upload  b == BookOf[u]  k == KeyOf(w) IN
         /\ work[w].pc = "publish" /\ u \in Upload /\ b \in Book /\ k \in Key /\ k[1] = work[w].exec
         /\ UNCHANGED <<store, drain, reused>>
         /\ ref'[b] = k /\ \A c \in Book : c # b => ref'[c] = ref[c]
         /\ outbox'[k] = IF outbox[k] = "processing" THEN "processing" ELSE "none"
         /\ \A j \in Key : j # k => outbox'[j] = IF j = ref[b] /\ outbox[j] # "processing" THEN "due" ELSE outbox[j]
         /\ landed'[u] = landed[u] + 1 /\ \A v \in Upload : v # u => landed'[v] = landed[v]
         /\ job[u].status = "processing" /\ job'[u].status = "done" /\ job'[u].active = work[w].exec
<1> DEFINE u == work[w].upload
           b == BookOf[u]
           k == KeyOf(w)
<1>0. /\ TypeInv /\ ref \in [Book -> Key \cup {None}] /\ landed \in [Upload -> Nat]
      /\ outbox \in [Key -> RowState]
  BY DEF FenceInv, TypeInv, TypeOK
<1>1. work[w].pc = "publish" /\ Uploaded(w) = u /\ u \in Upload /\ b \in Book /\ k \in Key /\ k[1] = work[w].exec
  <2>1. work[w].pc = "publish"
    BY DEF Publish
  <2> QED BY <1>0, <2>1, KeyFacts, ImportAssumption DEF Uploaded
<1>2. UNCHANGED <<store, drain, reused>>
  BY DEF Publish
<1>3. ref' = [ref EXCEPT ![b] = k] /\ landed' = [landed EXCEPT ![u] = @ + 1]
  BY <1>1 DEF Publish
<1>4. ref'[b] = k /\ \A c \in Book : c # b => ref'[c] = ref[c]
  BY <1>0, <1>1, <1>3
<1>5. landed'[u] = landed[u] + 1 /\ \A v \in Upload : v # u => landed'[v] = landed[v]
  BY <1>0, <1>1, <1>3
<1>6. outbox' = Enqueue(Release(outbox, {k}), {ref[b]} \ {None, k})
  BY <1>1 DEF Publish
<1>7. outbox'[k] = IF outbox[k] = "processing" THEN "processing" ELSE "none"
  BY <1>1, <1>6 DEF Enqueue, Release
<1>8. None \notin Key
  BY ImportAssumption DEF Key
<1>9. \A j \in Key : j # k => outbox'[j] = IF j = ref[b] /\ outbox[j] # "processing" THEN "due" ELSE outbox[j]
  BY <1>1, <1>6, <1>8 DEF Enqueue, Release
<1>10. Writes(w, "done") /\ job[u].status = "processing" /\ job[u].active = work[w].exec
  BY <1>0, <1>1, SetJobWrites, Words DEF Publish, Publishable, Owns
<1> QED BY <1>1, <1>2, <1>4, <1>5, <1>7, <1>9, <1>10 DEF Writes

\* Keys are only ever added to those that a second run wrote to, and imports to
\* those that landed.
LEMMA HistoryGrows ==
  ASSUME FenceInv, Next
  PROVE  /\ reused \subseteq reused'
         /\ \A u \in Upload : landed[u] > 0 => landed'[u] > 0
         /\ SomethingReplaced => SomethingReplaced'
<1>0. TypeInv /\ \A u \in Upload : landed[u] \in Nat
  BY DEF FenceInv, TypeInv, TypeOK
<1>1. reused \subseteq reused' /\ \A u \in Upload : landed'[u] = landed[u] \/ landed'[u] = landed[u] + 1
  <2>1. CASE ObjectStep
    <3>1. UNCHANGED <<reused, landed>>
      BY <2>1 DEF ObjectStep, DrainStep, OutboxRowsClaimed, DrainNext, LookForReferences, RemoveObject,
         ForgetRow, RemoveFails, DrainCrash, ClaimTimesOut, ReservationDue
    <3> QED BY <3>1
  <2>2. ASSUME NEW w \in Worker, Publish(w)
        PROVE  reused \subseteq reused' /\ \A u \in Upload : landed'[u] = landed[u] \/ landed'[u] = landed[u] + 1
    BY <2>2, PublishFacts
  <2>3. ASSUME NEW w \in Worker, ReserveObjects(w) \/ PutObjects(w) \/ PutAnswerLost(w) \/ AbandonObjects(w)
        PROVE  reused \subseteq reused' /\ landed' = landed
    BY <1>0, <2>3, ReserveFacts, PutFacts, AbandonFacts
  <2> QED BY <1>0, <2>1, <2>2, <2>3, TableCases
<1>2. \A u \in Upload : landed[u] > 0 => landed'[u] > 0
  BY <1>0, <1>1
<1> QED BY <1>1, <1>2 DEF SomethingReplaced

(***************************************************************************)
(* The rows a drain pass holds are "processing", and nobody else holds     *)
(* them.                                                                   *)
(***************************************************************************)
Handling(x) == x.pc \in {"refs", "remove", "forget"}

Holds(x, k) == k \in x.rows \/ (Handling(x) /\ x.key = k)

HoldsProcessing ==
  \A d \in Drainer : /\ drain[d].pc = "idle" => drain[d].rows = {}
                     /\ \A k \in Key : Holds(drain[d], k) => outbox[k] = "processing"
                     /\ Handling(drain[d]) => drain[d].key \notin drain[d].rows

HoldsAlone ==
  \A d, e \in Drainer, k \in Key : d # e => ~(Holds(drain[d], k) /\ Holds(drain[e], k))

HoldInv == HoldsProcessing /\ HoldsAlone

\* What a drain pass does.
DrainMove(d) ==
  LET x == drain[d]  y == drain'[d]  k == drain[d].key IN
  \/ /\ OutboxRowsClaimed(d) /\ x.pc = "idle" /\ y.pc = "next"
     /\ y.rows = {j \in Key : outbox[j] = "due"}
     /\ \A j \in Key : outbox'[j] = IF outbox[j] = "due" THEN "processing" ELSE outbox[j]
  \/ /\ UNCHANGED outbox /\ (y.pc = "next" \/ (y.pc = "idle" /\ y.rows = {})) /\ y.rows \subseteq x.rows
  \/ /\ UNCHANGED outbox /\ y.pc = "refs" /\ y.key \in x.rows /\ y.rows = x.rows \ {y.key}
  \/ /\ UNCHANGED outbox /\ Handling(x) /\ Handling(y) /\ y.key = k /\ y.rows = x.rows
     /\ \/ LookForReferences(d) /\ y.pc = AfterLook(d)
        \/ RemoveObject(d) /\ x.pc = "remove" /\ y.pc = "forget"
  \/ /\ (RemoveFails(d) \/ (ForgetRow(d) /\ x.pc = "forget"))
     /\ Handling(x) /\ y.pc = "next" /\ y.rows = x.rows /\ k \in Key
     /\ \A j \in Key : j # k => outbox'[j] = outbox[j]
     /\ RemoveFails(d) => outbox'[k] = IF outbox[k] = "processing" THEN "due" ELSE outbox[k]

LEMMA DrainMoveFacts ==
  ASSUME TypeInv, NEW d \in Drainer, DrainStep(d) \/ RemoveFails(d) \/ DrainCrash(d)
  PROVE  /\ DrainMove(d) /\ \A e \in Drainer : e # d => drain'[e] = drain[e]
         /\ UNCHANGED <<ref, reused, landed>> /\ (~RemoveObject(d) => store' = store)
<1>0. /\ drain \in [Drainer -> DrainPass] /\ outbox \in [Key -> RowState]
      /\ drain[d].rows \subseteq Key /\ (Handling(drain[d]) => drain[d].key \in Key)
  BY DEF TypeInv, TypeOK, Wired, Handling, DrainPass
<1>1. ASSUME NEW y, drain' = [drain EXCEPT ![d] = y] PROVE drain'[d] = y
  BY <1>0, <1>1
<1>2. \A e \in Drainer : e # d => drain'[e] = drain[e]
  <2>1. \E y \in DrainPass : drain' = [drain EXCEPT ![d] = y]
    BY DrainMoves
  <2> QED BY <1>0, <2>1
<1>3. ASSUME NEW pc \in DrainPcs, DrainTo(d, pc), Handling(drain[d])
      PROVE  drain'[d].pc = pc /\ drain'[d].rows = drain[d].rows /\ drain'[d].key = drain[d].key
  <2>1. PICK y \in DrainPass : /\ y.pc = pc /\ y.key = drain[d].key /\ y.rows = drain[d].rows
                               /\ drain' = [drain EXCEPT ![d] = y]
    BY <1>0, <1>3, DrainToFacts DEF Handling
  <2> QED BY <1>1, <2>1
<1>4. CASE OutboxRowsClaimed(d)
  <2>1. drain'[d] = [pc |-> "next", rows |-> {j \in Key : outbox[j] = "due"}, key |-> None]
    BY <1>1, <1>4 DEF OutboxRowsClaimed
  <2>2. drain'[d].pc = "next" /\ drain'[d].rows = {j \in Key : outbox[j] = "due"} /\ drain[d].pc = "idle"
    BY <1>4, <2>1 DEF OutboxRowsClaimed
  <2>3. \A j \in Key : outbox'[j] = IF outbox[j] = "due" THEN "processing" ELSE outbox[j]
    BY <1>4 DEF OutboxRowsClaimed
  <2> QED BY <1>2, <1>4, <2>2, <2>3 DEF DrainMove, OutboxRowsClaimed, RemoveObject
<1>5. CASE DrainNext(d)
  <2>1. CASE drain' = [drain EXCEPT ![d] = NoDrain]
    <3>1. drain'[d].pc = "idle" /\ drain'[d].rows = {}
      BY <1>1, <2>1 DEF NoDrain
    <3> QED BY <1>2, <1>5, <3>1 DEF DrainMove, DrainNext
  <2>2. ASSUME NEW k \in drain[d].rows,
               drain' = [drain EXCEPT ![d] = [pc |-> "refs", rows |-> @.rows \ {k}, key |-> k]]
        PROVE  DrainMove(d)
    <3> DEFINE y == [pc |-> "refs", rows |-> drain[d].rows \ {k}, key |-> k]
    <3>1. drain' = [drain EXCEPT ![d] = y] /\ y.pc = "refs" /\ y.key = k /\ y.rows = drain[d].rows \ {k}
      BY <2>2
    <3> HIDE DEF y
    <3>2. drain'[d].pc = "refs" /\ drain'[d].key = k /\ drain'[d].rows = drain[d].rows \ {k}
      BY <1>1, <3>1
    <3> QED BY <1>5, <2>2, <3>2 DEF DrainMove, DrainNext
  <2> QED BY <1>2, <1>5, <2>1, <2>2 DEF DrainNext
<1>6. CASE LookForReferences(d)
  <2>1. AfterLook(d) \in {"forget", "remove"} /\ DrainTo(d, AfterLook(d)) /\ drain[d].pc = "refs"
    BY <1>6 DEF LookForReferences, AfterLook
  <2> HIDE DEF AfterLook
  <2>2. AfterLook(d) \in DrainPcs /\ Handling(drain[d])
    BY <2>1 DEF DrainPcs, Handling
  <2>3. drain'[d].pc = AfterLook(d) /\ drain'[d].rows = drain[d].rows /\ drain'[d].key = drain[d].key
    BY <1>3, <2>1, <2>2
  <2>4. DrainMove(d)
    BY <1>6, <2>1, <2>2, <2>3 DEF DrainMove, LookForReferences, Handling
  <2> QED BY <1>2, <1>6, <2>4 DEF LookForReferences
<1>7. CASE RemoveObject(d)
  <2>1. DrainTo(d, "forget") /\ drain[d].pc = "remove" /\ "forget" \in DrainPcs /\ Handling(drain[d])
    BY <1>7 DEF RemoveObject, DrainPcs, Handling
  <2>2. drain'[d].pc = "forget" /\ drain'[d].rows = drain[d].rows /\ drain'[d].key = drain[d].key
    BY <1>3, <2>1
  <2>3. DrainMove(d)
    BY <1>7, <2>1, <2>2 DEF DrainMove, RemoveObject, Handling
  <2> QED BY <1>2, <1>7, <2>3 DEF RemoveObject
<1>8. CASE RemoveFails(d) \/ ForgetRow(d)
  <2>1. DrainTo(d, "next") /\ "next" \in DrainPcs /\ Handling(drain[d]) /\ drain[d].key \in Key
    BY <1>0, <1>8 DEF RemoveFails, ForgetRow, DrainPcs, Handling
  <2>2. drain'[d].pc = "next" /\ drain'[d].rows = drain[d].rows
    BY <1>3, <2>1
  <2>3. \A j \in Key : j # drain[d].key => outbox'[j] = outbox[j]
    BY <1>0, <1>8 DEF RemoveFails, ForgetRow
  <2>4. RemoveFails(d) => outbox'[drain[d].key] = IF outbox[drain[d].key] = "processing" THEN "due" ELSE outbox[drain[d].key]
    BY <1>0, <2>1 DEF RemoveFails
  <2>5. ForgetRow(d) => drain[d].pc = "forget"
    BY DEF ForgetRow
  <2>6. DrainMove(d)
    BY <1>8, <2>1, <2>2, <2>3, <2>4, <2>5 DEF DrainMove
  <2> QED BY <1>2, <1>8, <2>6 DEF RemoveFails, ForgetRow
<1>9. CASE DrainCrash(d)
  <2>1. drain'[d].pc = "idle" /\ drain'[d].rows = {}
    BY <1>1, <1>9 DEF DrainCrash, NoDrain
  <2> QED BY <1>2, <1>9, <2>1 DEF DrainMove, DrainCrash
<1> QED BY <1>4, <1>5, <1>6, <1>7, <1>8, <1>9 DEF DrainStep

LEMMA HoldStep ==
  ASSUME FenceInv, HoldInv, Next
  PROVE  HoldInv'
<1>0. TypeInv
  BY DEF FenceInv
<1>1. ASSUME drain' = drain,
             \A k \in Key : outbox[k] = "processing" /\ outbox'[k] # "processing" =>
               \A d \in Drainer : ~Holds(drain[d], k)
      PROVE  HoldInv'
  BY <1>1 DEF HoldInv, HoldsProcessing, HoldsAlone
<1>2. ASSUME NEW d \in Drainer, DrainMove(d), \A e \in Drainer : e # d => drain'[e] = drain[e] PROVE HoldInv'
  <2>1. /\ drain[d].rows \subseteq Key /\ (Handling(drain[d]) => drain[d].key \in Key)
    BY <1>0 DEF TypeInv, TypeOK, Wired, Handling, DrainPass
  <2>2. /\ drain'[d].pc = "idle" => drain'[d].rows = {}
        /\ Handling(drain'[d]) => drain'[d].key \notin drain'[d].rows
    BY <1>2 DEF HoldInv, HoldsProcessing, DrainMove, Handling
  <2>3. ASSUME NEW k \in Key, Holds(drain'[d], k)
        PROVE  outbox'[k] = "processing" /\ (outbox[k] = "due" \/ Holds(drain[d], k))
    BY <1>2, <2>1, <2>3 DEF HoldInv, HoldsProcessing, DrainMove, Handling, Holds
  <2>4. ASSUME NEW e \in Drainer, e # d, NEW k \in Key, Holds(drain[e], k)
        PROVE  outbox'[k] = "processing" /\ ~Holds(drain'[d], k)
    <3>1. outbox[k] = "processing" /\ ~Holds(drain[d], k)
      BY <2>4 DEF HoldInv, HoldsProcessing, HoldsAlone
    <3>2. outbox'[k] = "processing"
      BY <1>2, <3>1 DEF DrainMove, Holds
    <3> QED BY <2>3, <3>1, <3>2
  <2>5. HoldsProcessing'
    BY <1>2, <2>2, <2>3, <2>4 DEF HoldInv, HoldsProcessing
  <2>6. HoldsAlone'
    BY <1>2, <2>4 DEF HoldInv, HoldsAlone
  <2> QED BY <2>5, <2>6 DEF HoldInv
<1>3. CASE UNCHANGED <<outbox, store, ref, drain, reused, landed>>
  BY <1>1, <1>3
<1>4. ASSUME NEW w \in Worker, ReserveObjects(w) \/ PutObjects(w) \/ PutAnswerLost(w) PROVE HoldInv'
  BY <1>0, <1>1, <1>4, ReserveFacts, PutFacts
<1>5. ASSUME NEW w \in Worker, Publish(w) \/ AbandonObjects(w) PROVE HoldInv'
  <2>1. drain' = drain /\ \A k \in Key : outbox[k] = "processing" => outbox'[k] = "processing"
    <3>1. CASE Publish(w)
      BY <3>1, PublishFacts
    <3>2. CASE AbandonObjects(w)
      BY <1>0, <3>2, AbandonFacts
    <3> QED BY <1>5, <3>1, <3>2
  <2> QED BY <1>1, <2>1
<1>6. ASSUME NEW k \in Key, ClaimTimesOut(k) \/ ReservationDue(k) PROVE HoldInv'
  <2>1. /\ drain' = drain /\ \A j \in Key : j # k => outbox'[j] = outbox[j]
        /\ \/ outbox[k] # "processing"
           \/ \A d \in Drainer : ~Holds(drain[d], k)
    BY <1>0, <1>6 DEF ClaimTimesOut, ReservationDue, Holds, TypeInv, TypeOK
  <2> QED BY <1>1, <2>1
<1>7. CASE \E d \in Drainer : DrainStep(d) \/ RemoveFails(d) \/ DrainCrash(d)
  BY <1>0, <1>2, <1>7, DrainMoveFacts
<1> QED BY <1>0, <1>3, <1>4, <1>5, <1>6, <1>7, TableCases DEF ObjectStep

-----------------------------------------------------------------------------
(***************************************************************************)
(* The reservation of a pending execution holds: nobody else writes under  *)
(* its key, and no drain pass takes the row.                               *)
(***************************************************************************)
Published(w) == job[work[w].upload].status = "done" /\ job[work[w].upload].active = work[w].exec

\* A commit whose reply was lost has already released the reservation.
Reserved ==
  \A w \in Worker : Pending(work[w]) /\ KeyOf(w) \notin reused =>
    outbox[KeyOf(w)] = "reserved" \/ (work[w].pc = "abandon" /\ Published(w))

OneWriter ==
  \A w, v \in Worker : w # v /\ Pending(work[w]) /\ Pending(work[v]) /\ KeyOf(w) = KeyOf(v) =>
    KeyOf(w) \in reused

\* A book refers to an object of the execution that its upload's row names.
RefLanded ==
  \A b \in Book : ref[b] # None =>
    \E u \in Upload : job[u].status = "done" /\ job[u].active = ref[b][1] /\ BookOf[u] = b

\* An execution that its row names and that the row shows as done has left the block.
LEMMA DoneIsAbandon ==
  ASSUME FenceInv, Named, NEW w \in Worker, Pending(work[w]),
         NEW u \in Upload, job[u].status = "done", job[u].active = work[w].exec
  PROVE  work[w].pc = "abandon" /\ Published(w)
<1>1. work[w].pc \in {"put", "recheck", "publish", "abandon"} /\ work[w].pc # "idle"
  BY DEF Pending
<1>2. work[w].exec # None /\ work[w].upload \in Upload
  BY <1>1, KeyFacts DEF FenceInv
<1>3. work[w].upload = u
  BY <1>2 DEF Named, NamedFor
<1>4. work[w].pc \notin Working
  BY <1>3, InsideWords DEF FenceInv, Fenced, HolderFacts, Inner
<1>5. {"put", "recheck", "publish"} \subseteq Working
  BY InsideWords
<1> QED BY <1>1, <1>3, <1>4, <1>5 DEF Published

LEMMA RefPending ==
  ASSUME FenceInv, Named, RefLanded, NEW w \in Worker, Pending(work[w]), NEW b \in Book, ref[b] = KeyOf(w)
  PROVE  work[w].pc = "abandon" /\ Published(w)
<1>1. work[w].pc # "idle"
  BY DEF Pending
<1>2. KeyOf(w) \in Key /\ KeyOf(w)[1] = work[w].exec /\ None \notin Key
  BY <1>1, KeyFacts, ImportAssumption DEF FenceInv, Key
<1>3. PICK u \in Upload : job[u].status = "done" /\ job[u].active = ref[b][1]
  BY <1>2 DEF RefLanded
<1> QED BY <1>2, <1>3, DoneIsAbandon

\* A commit leaves the try block.
LEMMA PublishLeaves ==
  ASSUME TypeInv, NEW w \in Worker, Publish(w)
  PROVE  work'[w].pc \in {"cleanup", "abandon"}
<1>1. To(w, "cleanup") \/ Throw(w, "error")
  BY DEF Publish
<1> QED BY <1>1, WrittenTo

LEMMA PublishedStays ==
  ASSUME FenceInv, WroteLate, Next, NEW w \in Worker, Pending(work'[w]), Published(w)
  PROVE  Published(w)'
<1>1. work[w].pc # "idle" /\ work'[w].exec = work[w].exec /\ work'[w].upload = work[w].upload
  BY PendingMoves DEF Pending, FenceInv
<1>2. work[w].upload \in Upload
  BY <1>1, KeyFacts DEF FenceInv
<1> QED BY <1>1, <1>2, EveryRowMoves DEF RowMoves, Published

\* Who is pending after a step is pending before, or has just reserved its key.
LEMMA KeyStays ==
  ASSUME TypeInv, WroteLate, Next, NEW w \in Worker, Pending(work'[w])
  PROVE  /\ KeyOf(w)' = KeyOf(w) /\ KeyOf(w) \in Key /\ KeyOf(w)[1] = work[w].exec
         /\ Pending(work[w]) \/ (ReserveObjects(w) /\ work[w].pc = "reserve" /\ work'[w].pc = "put")
<1>1. work[w].pc # "idle"
  BY PendingMoves DEF Pending
<1> QED BY <1>1, KeyFacts, PendingMoves DEF KeyOf

LEMMA ReservedStep ==
  ASSUME FenceInv, Named, WroteLate, Reserved, OneWriter, RefLanded, HoldInv, Next
  PROVE  Reserved'
<1>0. TypeInv /\ reused \subseteq reused'
  BY HistoryGrows DEF FenceInv
<1> SUFFICES ASSUME NEW w \in Worker, Pending(work'[w]), KeyOf(w) \notin reused'
             PROVE  outbox'[KeyOf(w)] = "reserved" \/ (work'[w].pc = "abandon" /\ Published(w)')
  BY <1>0, KeyStays DEF Reserved
<1> DEFINE k == KeyOf(w)
           goal == outbox'[k] = "reserved" \/ (work'[w].pc = "abandon" /\ Published(w)')
<1>1. /\ k \in Key /\ k[1] = work[w].exec /\ k \notin reused
      /\ Pending(work[w]) \/ (ReserveObjects(w) /\ work[w].pc = "reserve" /\ work'[w].pc = "put")
  BY <1>0, KeyStays
<1>2. CASE ReserveObjects(w)
  BY <1>0, <1>2, ReserveFacts
<1>3. ASSUME Pending(work[w]), work[w].pc = "abandon", Published(w) PROVE goal
  BY <1>0, <1>3, PublishedStays, PendingMoves
<1>4. ASSUME Pending(work[w]), outbox[k] = "reserved" PROVE goal
  <2>1. CASE UNCHANGED <<outbox, store, ref, drain, reused, landed>>
    BY <1>4, <2>1
  <2>2. ASSUME NEW v \in Worker, ReserveObjects(v) \/ PutObjects(v) \/ PutAnswerLost(v) PROVE goal
    <3>1. outbox'[k] = outbox[k]
      BY <1>0, <1>1, <1>4, <2>2, ReserveFacts, PutFacts
    <3> QED BY <1>4, <3>1
  <2>3. CASE Publish(w)
    <3>1. work'[w].pc = "abandon"
      BY <1>0, <2>3, PublishLeaves DEF Pending
    <3>2. work[w].upload \in Upload /\ work'[w].upload = work[w].upload /\ work'[w].exec = work[w].exec
      BY <1>0, <1>4, PendingMoves, PublishFacts, <2>3
    <3>3. Published(w)'
      BY <2>3, <3>2, PublishFacts DEF Published
    <3> QED BY <3>1, <3>3
  <2>4. ASSUME NEW v \in Worker, v # w, Publish(v) PROVE goal
    <3>1. Pending(work[v]) /\ BookOf[work[v].upload] \in Book
      BY <2>4, PublishFacts DEF Pending
    <3>2. KeyOf(v) # k
      BY <1>1, <1>4, <2>4, <3>1 DEF OneWriter
    <3>3. outbox'[k] = IF k = ref[BookOf[work[v].upload]] /\ outbox[k] # "processing" THEN "due" ELSE outbox[k]
      BY <1>1, <2>4, <3>2, PublishFacts
    <3>4. CASE ref[BookOf[work[v].upload]] = k
      BY <1>3, <1>4, <3>1, <3>4, RefPending
    <3> QED BY <1>4, <3>3, <3>4
  <2>5. ASSUME NEW v \in Worker, AbandonObjects(v) PROVE goal
    <3>1. /\ work[v].pc = "abandon" /\ ~Pending(work'[v]) /\ (~work[v].wrote => outbox' = outbox)
          /\ k # KeyOf(v) => outbox'[k] = outbox[k]
      BY <1>0, <1>1, <2>5, AbandonFacts
    <3>2. CASE work[v].wrote /\ k = KeyOf(v)
      BY <1>1, <1>4, <3>1, <3>2 DEF OneWriter, Pending
    <3> QED BY <1>4, <3>1, <3>2
  <2>6. ASSUME NEW d \in Drainer, DrainStep(d) \/ RemoveFails(d) \/ DrainCrash(d) PROVE goal
    <3>1. DrainMove(d) /\ (Handling(drain[d]) => drain[d].key # k)
      BY <1>0, <1>1, <1>4, <2>6, DrainMoveFacts DEF HoldInv, HoldsProcessing, Holds
    <3> QED BY <1>1, <1>4, <3>1 DEF DrainMove
  <2>7. ASSUME NEW j \in Key, ClaimTimesOut(j) \/ ReservationDue(j) PROVE goal
    <3>1. j # k /\ outbox'[k] = outbox[k]
      BY <1>0, <1>1, <1>4, <2>7 DEF ClaimTimesOut, ReservationDue, TypeInv, TypeOK
    <3> QED BY <1>4, <3>1
  <2> QED BY <1>0, <2>1, <2>2, <2>3, <2>4, <2>5, <2>6, <2>7, TableCases DEF ObjectStep
<1> QED BY <1>1, <1>2, <1>3, <1>4 DEF Reserved

LEMMA OneWriterStep ==
  ASSUME FenceInv, Named, WroteLate, Reserved, OneWriter, Next
  PROVE  OneWriter'
<1>0. TypeInv /\ reused \subseteq reused'
  BY HistoryGrows DEF FenceInv
<1>1. ASSUME NEW w \in Worker, NEW v \in Worker, w # v, ReserveObjects(w), work[w].pc = "reserve", Pending(work'[v]),
             KeyOf(w) = KeyOf(v)
      PROVE  KeyOf(w) \in reused'
  <2>1. Pending(work[v])
    <3>1. work'[v] = work[v]
      BY <1>0, <1>1 DEF ReserveObjects, To, TypeInv, TypeOK
    <3> QED BY <1>1, <3>1
  <2>2. CASE outbox[KeyOf(w)] # "none"
    BY <1>0, <1>1, <2>2, ReserveFacts
  <2>3. CASE outbox[KeyOf(w)] = "none" /\ KeyOf(w) \notin reused
    <3>1. Published(v)
      BY <1>1, <2>1, <2>3 DEF Reserved
    <3>2. work[w].exec = work[v].exec /\ work[w].exec # None /\ work[w].upload \in Upload /\ work[v].upload \in Upload
      BY <1>0, <1>1, <2>1, KeyFacts DEF Pending
    <3>3. work[w].upload = work[v].upload
      BY <3>1, <3>2 DEF Published, Named, NamedFor
    <3>4. work[w].pc \in Working
      BY <1>1, InsideWords
    <3>5. job[work[w].upload].status = "processing"
      BY <3>1, <3>2, <3>3, <3>4, InsideWords DEF FenceInv, Fenced, HolderFacts, Inner, Published
    <3> QED BY <3>1, <3>3, <3>5 DEF Published
  <2> QED BY <1>0, <2>2, <2>3
<1>2. ASSUME NEW w \in Worker, NEW v \in Worker, w # v, Pending(work'[w]), Pending(work'[v]), KeyOf(w)' = KeyOf(v)'
      PROVE  KeyOf(w)' \in reused'
  <2>1. KeyOf(w)' = KeyOf(w) /\ KeyOf(v)' = KeyOf(v)
    BY <1>0, <1>2, KeyStays
  <2>2. CASE Pending(work[w]) /\ Pending(work[v])
    BY <1>0, <1>2, <2>1, <2>2 DEF OneWriter
  <2>3. \/ Pending(work[w]) /\ Pending(work[v])
        \/ ReserveObjects(w) /\ work[w].pc = "reserve"
        \/ ReserveObjects(v) /\ work[v].pc = "reserve"
    BY <1>0, <1>2, KeyStays
  <2> QED BY <1>1, <1>2, <2>1, <2>2, <2>3
<1> QED BY <1>2 DEF OneWriter

\* The store loses what a drain pass removes, and a book's reference changes by a commit.
LEMMA StoreMoves ==
  ASSUME FenceInv, Next
  PROVE  /\ \/ store \subseteq store'
            \/ \E d \in Drainer : drain[d].pc = "remove" /\ store' = store \ {drain[d].key} /\ ref' = ref
         /\ ref' = ref \/ \E w \in Worker : Publish(w)
<1>0. TypeInv
  BY DEF FenceInv
<1>1. CASE ObjectStep
  <2>1. ref' = ref
    BY <1>1 DEF ObjectStep, DrainStep, OutboxRowsClaimed, DrainNext, LookForReferences, RemoveObject,
       ForgetRow, RemoveFails, DrainCrash, ClaimTimesOut, ReservationDue
  <2>2. store' = store \/ \E d \in Drainer : RemoveObject(d)
    BY <1>1 DEF ObjectStep, DrainStep, OutboxRowsClaimed, DrainNext, LookForReferences,
       ForgetRow, RemoveFails, DrainCrash, ClaimTimesOut, ReservationDue
  <2> QED BY <2>1, <2>2 DEF RemoveObject
<1>2. ASSUME NEW w \in Worker, ReserveObjects(w) \/ PutObjects(w) \/ PutAnswerLost(w) \/ AbandonObjects(w)
      PROVE  store \subseteq store' /\ ref' = ref
  BY <1>0, <1>2, ReserveFacts, PutFacts, AbandonFacts
<1>3. ASSUME NEW w \in Worker, Publish(w) PROVE store' = store
  BY <1>3, PublishFacts
<1> QED BY <1>0, <1>1, <1>2, <1>3, TableCases

\* What an execution is about to publish is in the store.
Written ==
  \A w \in Worker : work[w].pc \in {"recheck", "publish"} /\ KeyOf(w) \notin reused => KeyOf(w) \in store

\* A drain pass does not hold the row of an execution that has not committed.
LEMMA HeldByNone ==
  ASSUME TypeInv, Reserved, HoldInv, NEW w \in Worker, work[w].pc \in {"put", "recheck", "publish"},
         KeyOf(w) \notin reused
  PROVE  /\ outbox[KeyOf(w)] = "reserved" /\ KeyOf(w) \in Key
         /\ \A d \in Drainer : Handling(drain[d]) => drain[d].key # KeyOf(w)
<1>1. KeyOf(w) \in Key /\ outbox[KeyOf(w)] = "reserved"
  BY KeyFacts DEF Reserved, Pending
<1> QED BY <1>1 DEF HoldInv, HoldsProcessing, Holds

LEMMA WrittenStep ==
  ASSUME FenceInv, WroteLate, Reserved, HoldInv, Written, Next
  PROVE  Written'
<1>0. TypeInv /\ reused \subseteq reused'
  BY HistoryGrows DEF FenceInv
<1>1. ASSUME NEW w \in Worker, work'[w].pc \in {"recheck", "publish"}, KeyOf(w)' \notin reused'
      PROVE  KeyOf(w)' \in store'
  <2>1. /\ KeyOf(w)' = KeyOf(w) /\ KeyOf(w) \notin reused
        /\ PutObjects(w) \/ work[w].pc \in {"recheck", "publish"}
    BY <1>0, <1>1, KeyStays, PendingMoves DEF Pending
  <2>2. CASE PutObjects(w)
    BY <1>0, <2>1, <2>2, PutFacts
  <2>3. CASE work[w].pc \in {"recheck", "publish"}
    <3>1. KeyOf(w) \in store
      BY <2>1, <2>3 DEF Written
    <3>2. \A d \in Drainer : Handling(drain[d]) => drain[d].key # KeyOf(w)
      BY <1>0, <2>1, <2>3, HeldByNone
    <3> QED BY <2>1, <3>1, <3>2, StoreMoves DEF Handling
  <2> QED BY <2>1, <2>2, <2>3
<1> QED BY <1>1 DEF Written

LEMMA RefLandedStep ==
  ASSUME FenceInv, RefLanded, Next
  PROVE  RefLanded'
<1>1. \A u \in Upload : job[u].status = "done" => job'[u].status = "done" /\ job'[u].active = job[u].active
  BY EveryRowMoves DEF RowMoves
<1>2. ASSUME NEW b \in Book, ref'[b] = ref[b], ref[b] # None
      PROVE  \E u \in Upload : job'[u].status = "done" /\ job'[u].active = ref'[b][1] /\ BookOf[u] = b
  BY <1>1, <1>2 DEF RefLanded
<1>3. ASSUME NEW w \in Worker, Publish(w), NEW b \in Book, ref'[b] # ref[b]
      PROVE  \E u \in Upload : job'[u].status = "done" /\ job'[u].active = ref'[b][1] /\ BookOf[u] = b
  BY <1>3, PublishFacts
<1> QED BY <1>2, <1>3, StoreMoves DEF RefLanded

-----------------------------------------------------------------------------
(***************************************************************************)
(* What a drain pass saw of the books still tells what it needs: nothing   *)
(* comes to refer to the object it is about to delete, and the object whose*)
(* row it is about to drop is gone, or referred to, or was replaced.       *)
(***************************************************************************)
Unreferenced ==
  \A d \in Drainer : drain[d].pc = "remove" => drain[d].key \in reused \/ ~Referenced(drain[d].key)

Settled ==
  \A d \in Drainer : drain[d].pc = "forget" =>
    \/ drain[d].key \notin store \/ Referenced(drain[d].key)
    \/ drain[d].key \in reused \/ SomethingReplaced

\* A pass is where it was, or its own step took it there.
LEMMA PassStays ==
  ASSUME TypeInv, Next, NEW d \in Drainer
  PROVE  \/ drain'[d] = drain[d]
         \/ DrainMove(d) /\ UNCHANGED <<ref, reused, landed>> /\ (~RemoveObject(d) => store' = store)
<1>1. CASE \E k \in Key : ClaimTimesOut(k) \/ ReservationDue(k)
  BY <1>1 DEF ClaimTimesOut, ReservationDue
<1>2. CASE \E w \in Worker : \/ ReserveObjects(w) \/ PutObjects(w) \/ PutAnswerLost(w)
                             \/ Publish(w) \/ AbandonObjects(w)
  BY <1>2 DEF ReserveObjects, PutObjects, PutAnswerLost, Publish, AbandonObjects
<1>3. CASE \E e \in Drainer : DrainStep(e) \/ RemoveFails(e) \/ DrainCrash(e)
  BY <1>3, DrainMoveFacts
<1> QED BY <1>1, <1>2, <1>3, TableCases DEF ObjectStep

LEMMA UnreferencedStep ==
  ASSUME FenceInv, Reserved, HoldInv, Unreferenced, Next
  PROVE  Unreferenced'
<1>0. TypeInv /\ reused \subseteq reused'
  BY HistoryGrows DEF FenceInv
<1> SUFFICES ASSUME NEW d \in Drainer, drain'[d].pc = "remove"
             PROVE  drain'[d].key \in reused' \/ \A b \in Book : ref'[b] # drain'[d].key
  BY DEF Unreferenced, Referenced
<1>1. CASE drain'[d] = drain[d]
  <2>1. drain[d].key \in reused \/ \A b \in Book : ref[b] # drain[d].key
    BY <1>1 DEF Unreferenced, Referenced
  <2>2. ASSUME NEW w \in Worker, Publish(w), drain[d].key \notin reused PROVE KeyOf(w) # drain[d].key
    <3>1. work[w].pc = "publish" /\ Handling(drain[d])
      BY <1>1, <2>2, PublishFacts DEF Handling
    <3> QED BY <1>0, <2>2, <3>1, HeldByNone
  <2>3. ASSUME NEW w \in Worker, Publish(w), NEW b \in Book PROVE ref'[b] = ref[b] \/ ref'[b] = KeyOf(w)
    BY <2>3, PublishFacts
  <2> QED BY <1>0, <1>1, <2>1, <2>2, <2>3, StoreMoves
<1>2. CASE DrainMove(d) /\ UNCHANGED <<ref, reused, landed>> /\ drain'[d] # drain[d]
  <2>1. LookForReferences(d) /\ drain'[d].pc = AfterLook(d) /\ drain'[d].key = drain[d].key
    BY <1>2 DEF DrainMove
  <2>2. ~Referenced(drain[d].key)
    BY <2>1 DEF AfterLook
  <2> QED BY <1>2, <2>1, <2>2 DEF Referenced
<1> QED BY <1>0, <1>1, <1>2, PassStays

\* A commit that takes a book from another object comes after the one it replaces.
LEMMA ReplacedLanded ==
  ASSUME FenceInv, RefLanded, Next, NEW w \in Worker, Publish(w), NEW b \in Book, ref[b] # None, ref'[b] # ref[b]
  PROVE  SomethingReplaced'
<1> DEFINE v == work[w].upload
<1>1. /\ v \in Upload /\ BookOf[v] = b /\ job[v].status = "processing"
      /\ landed'[v] = landed[v] + 1
  BY PublishFacts
<1>2. PICK u \in Upload : job[u].status = "done" /\ BookOf[u] = b
  BY DEF RefLanded
<1>3. u # v /\ landed[u] = 1 /\ landed[v] \in Nat
  BY <1>1, <1>2 DEF FenceInv, RowsOK, RowFacts
<1>4. landed'[u] > 0 /\ landed'[v] > 0
  BY <1>1, <1>3, HistoryGrows
<1> QED BY <1>1, <1>2, <1>3, <1>4 DEF SomethingReplaced

LEMMA SettledStep ==
  ASSUME FenceInv, RefLanded, Reserved, HoldInv, Settled, Next
  PROVE  Settled'
<1>0. TypeInv /\ reused \subseteq reused' /\ (SomethingReplaced => SomethingReplaced')
  BY HistoryGrows DEF FenceInv
<1> SUFFICES ASSUME NEW d \in Drainer, drain'[d].pc = "forget",
                    drain'[d].key \in store', drain'[d].key \notin reused', ~SomethingReplaced'
             PROVE  \E b \in Book : ref'[b] = drain'[d].key
  BY DEF Settled, Referenced
<1>1. CASE drain'[d] = drain[d]
  <2> DEFINE k == drain[d].key
  <2>1. k \notin reused /\ ~SomethingReplaced /\ Handling(drain[d])
    BY <1>0, <1>1 DEF Handling
  <2>2. k \in store
    <3>1. ASSUME NEW w \in Worker, PutObjects(w) \/ PutAnswerLost(w) PROVE k \in store
      <4>1. work[w].pc = "put" /\ store' = store \cup {KeyOf(w)}
        BY <1>0, <3>1, PutFacts
      <4>2. KeyOf(w) # k
        BY <1>0, <2>1, <4>1, HeldByNone
      <4> QED BY <1>1, <4>1, <4>2
    <3>2. ASSUME NEW w \in Worker, ReserveObjects(w) \/ Publish(w) \/ AbandonObjects(w) PROVE store' = store
      BY <3>2 DEF ReserveObjects, Publish, AbandonObjects
    <3>3. ASSUME ObjectStep PROVE store' \subseteq store
      BY <3>3 DEF ObjectStep, DrainStep, OutboxRowsClaimed, DrainNext, LookForReferences, RemoveObject,
         ForgetRow, RemoveFails, DrainCrash, ClaimTimesOut, ReservationDue
    <3> QED BY <1>0, <1>1, <3>1, <3>2, <3>3, TableCases
  <2>3. PICK b \in Book : ref[b] = k
    BY <1>1, <2>1, <2>2 DEF Settled, Referenced
  <2>4. k \in Key /\ k # None
    BY <1>0, <2>1, ImportAssumption DEF TypeInv, Wired, Handling, Key
  <2>5. ref'[b] = ref[b]
    BY <2>3, <2>4, StoreMoves, ReplacedLanded
  <2> QED BY <1>1, <2>3, <2>5
<1>2. CASE DrainMove(d) /\ UNCHANGED <<ref, reused, landed>> /\ drain'[d] # drain[d]
  <2>1. /\ drain'[d].key = drain[d].key
        /\ \/ LookForReferences(d) /\ drain'[d].pc = AfterLook(d)
           \/ RemoveObject(d)
    BY <1>2 DEF DrainMove
  <2>2. Referenced(drain[d].key)
    BY <2>1 DEF AfterLook, RemoveObject
  <2> QED BY <1>2, <2>1, <2>2 DEF Referenced
<1> QED BY <1>0, <1>1, <1>2, PassStays

-----------------------------------------------------------------------------
LEMMA ReferencedStep ==
  ASSUME FenceInv, Written, Unreferenced, ReferencedObjectStoredUnlessReused, Next
  PROVE  ReferencedObjectStoredUnlessReused'
<1>0. TypeInv /\ reused \subseteq reused'
  BY HistoryGrows DEF FenceInv
<1> SUFFICES ASSUME NEW b \in Book, ref'[b] \in Key, ref'[b] \notin reused' PROVE ref'[b] \in store'
  BY DEF ReferencedObjectStoredUnlessReused
<1>1. CASE ref'[b] = ref[b]
  <2>1. ref[b] \in store
    BY <1>0, <1>1 DEF ReferencedObjectStoredUnlessReused
  <2>2. ASSUME NEW d \in Drainer, drain[d].pc = "remove" PROVE drain[d].key # ref[b]
    BY <1>0, <1>1, <2>2 DEF Unreferenced, Referenced
  <2> QED BY <1>1, <2>1, <2>2, StoreMoves
<1>2. ASSUME NEW w \in Worker, Publish(w), ref'[b] # ref[b] PROVE ref'[b] \in store'
  <2>1. ref'[b] = KeyOf(w) /\ work[w].pc = "publish" /\ UNCHANGED <<store, reused>>
    BY <1>2, PublishFacts
  <2> QED BY <2>1 DEF Written
<1> QED BY <1>1, <1>2, StoreMoves

LEMMA AccountedStep ==
  ASSUME FenceInv, RefLanded, Reserved, HoldInv, Settled, StoredIsAccountedForUnlessReplaced, Next
  PROVE  StoredIsAccountedForUnlessReplaced'
<1>0. TypeInv /\ reused \subseteq reused' /\ (SomethingReplaced => SomethingReplaced')
  BY HistoryGrows DEF FenceInv
<1> SUFFICES ASSUME ~SomethingReplaced', NEW k \in store', k \notin reused'
             PROVE  (\E b \in Book : ref'[b] = k) \/ outbox'[k] # "none"
  BY DEF StoredIsAccountedForUnlessReplaced, Referenced
<1> DEFINE goal == (\E b \in Book : ref'[b] = k) \/ outbox'[k] # "none"
<1>1. k \in Key /\ k # None /\ k \notin reused /\ ~SomethingReplaced
  <2>1. k \in Key
    BY TypeStep, <1>0 DEF TypeInv, TypeOK
  <2> QED BY <1>0, <2>1, ImportAssumption DEF Key
<1>2. k \in store => (\E b \in Book : ref[b] = k) \/ outbox[k] # "none"
  BY <1>1 DEF StoredIsAccountedForUnlessReplaced, Referenced
<1>3. \A b \in Book : ref[b] = k => ref'[b] = k
  BY <1>1, StoreMoves, ReplacedLanded
<1>4. CASE UNCHANGED <<outbox, store, ref, drain, reused, landed>>
  BY <1>2, <1>4
<1>5. ASSUME NEW w \in Worker, ReserveObjects(w) PROVE goal
  <2>1. store' = store /\ (outbox[k] # "none" => outbox'[k] # "none")
    BY <1>0, <1>1, <1>5, ReserveFacts
  <2> QED BY <1>2, <1>3, <2>1
<1>6. ASSUME NEW w \in Worker, PutObjects(w) \/ PutAnswerLost(w) PROVE goal
  <2>1. store' = store \cup {KeyOf(w)} /\ work[w].pc = "put" /\ outbox' = outbox
    BY <1>0, <1>6, PutFacts
  <2>2. k = KeyOf(w) => outbox[k] = "reserved"
    BY <1>0, <1>1, <2>1, HeldByNone
  <2> QED BY <1>2, <1>3, <2>1, <2>2
<1>7. ASSUME NEW w \in Worker, Publish(w) PROVE goal
  <2>1. /\ store' = store /\ BookOf[work[w].upload] \in Book /\ ref'[BookOf[work[w].upload]] = KeyOf(w)
        /\ k # KeyOf(w) /\ outbox[k] # "none" => outbox'[k] # "none"
    BY <1>1, <1>7, PublishFacts
  <2> QED BY <1>2, <1>3, <2>1
<1>8. ASSUME NEW w \in Worker, AbandonObjects(w) PROVE goal
  <2>1. store' = store /\ (outbox[k] # "none" => outbox'[k] # "none")
    BY <1>0, <1>1, <1>8, AbandonFacts
  <2> QED BY <1>2, <1>3, <2>1
<1>9. ASSUME NEW d \in Drainer, DrainStep(d) \/ RemoveFails(d) \/ DrainCrash(d) PROVE goal
  <2>1. DrainMove(d) /\ k \in store
    BY <1>0, <1>9, DrainMoveFacts DEF RemoveObject
  <2>2. CASE ForgetRow(d) /\ drain[d].pc = "forget" /\ drain[d].key = k
    BY <1>1, <1>3, <2>1, <2>2 DEF Settled, Referenced
  <2>3. CASE ~(ForgetRow(d) /\ drain[d].pc = "forget" /\ drain[d].key = k)
    <3>1. outbox[k] # "none" => outbox'[k] # "none"
      BY <1>1, <2>1, <2>3 DEF DrainMove
    <3> QED BY <1>2, <1>3, <2>1, <3>1
  <2> QED BY <2>2, <2>3
<1>10. ASSUME NEW j \in Key, ClaimTimesOut(j) \/ ReservationDue(j) PROVE goal
  <2>1. store' = store /\ (outbox[k] # "none" => outbox'[k] # "none")
    BY <1>0, <1>1, <1>10 DEF ClaimTimesOut, ReservationDue, TypeInv, TypeOK
  <2> QED BY <1>2, <1>3, <2>1
<1> QED BY <1>0, <1>4, <1>5, <1>6, <1>7, <1>8, <1>9, <1>10, TableCases DEF ObjectStep

-----------------------------------------------------------------------------
ObjectInv ==
  /\ FenceInv /\ Removing /\ Named /\ WroteLate
  /\ HoldInv /\ RefLanded /\ Reserved /\ OneWriter /\ Written /\ Unreferenced /\ Settled
  /\ ReferencedObjectStoredUnlessReused /\ StoredIsAccountedForUnlessReplaced

LEMMA InitObject == Init => ObjectInv
<1> SUFFICES ASSUME Init PROVE ObjectInv
  OBVIOUS
<1>1. FenceInv /\ Removing
  BY InitFence DEF Init, Removing, NoProcess, Started
<1>2. Named
  BY DEF Init, Named, NoJob
<1>3. /\ \A w \in Worker : work[w].pc = "idle" /\ ~work[w].wrote
      /\ \A d \in Drainer : drain[d].pc = "idle" /\ drain[d].rows = {}
      /\ store = {} /\ \A b \in Book : ref[b] = None
  BY DEF Init, NoExecution, NoDrain
<1>4. WroteLate /\ Reserved /\ OneWriter /\ Written /\ RefLanded
  BY <1>3 DEF WroteLate, Reserved, OneWriter, Written, RefLanded, Pending
<1>5. HoldInv /\ Unreferenced /\ Settled
  BY <1>3 DEF HoldInv, HoldsProcessing, HoldsAlone, Holds, Handling, Unreferenced, Settled
<1>6. ReferencedObjectStoredUnlessReused /\ StoredIsAccountedForUnlessReplaced
  BY <1>3, ImportAssumption DEF ReferencedObjectStoredUnlessReused, StoredIsAccountedForUnlessReplaced, Key
<1> QED BY <1>1, <1>2, <1>4, <1>5, <1>6 DEF ObjectInv

LEMMA ObjectInvStep ==
  ASSUME ObjectInv, Next
  PROVE  ObjectInv'
<1>0. FenceInv /\ Removing /\ TypeInv
  BY DEF ObjectInv, FenceInv
<1>1. TypeInv'
  BY <1>0, TypeStep
<1>2. FenceInv' /\ Removing'
  BY <1>0, <1>1, FenceStep, RemovingStep
<1>3. Named' /\ WroteLate' /\ HoldInv' /\ RefLanded'
  BY <1>0, NamedStep, WroteLateStep, HoldStep, RefLandedStep DEF ObjectInv
<1>4. Reserved' /\ OneWriter' /\ Written'
  BY ReservedStep, OneWriterStep, WrittenStep DEF ObjectInv
<1>5. Unreferenced' /\ Settled'
  BY UnreferencedStep, SettledStep DEF ObjectInv
<1>6. ReferencedObjectStoredUnlessReused' /\ StoredIsAccountedForUnlessReplaced'
  BY ReferencedStep, AccountedStep DEF ObjectInv
<1> QED BY <1>2, <1>3, <1>4, <1>5, <1>6 DEF ObjectInv

LEMMA ObjectInvStutter ==
  ASSUME ObjectInv, UNCHANGED vars
  PROVE  ObjectInv'
<1>1. FenceInv' /\ Removing'
  BY FenceStutter DEF ObjectInv
<1>2. /\ UNCHANGED <<job, bull, work, proc>>
      /\ UNCHANGED <<outbox, store, ref, drain, reused, landed>>
  BY DEF vars
<1>3. Named' /\ WroteLate' /\ RefLanded' /\ HoldInv'
  BY <1>2 DEF ObjectInv, Named, NamedFor, WroteLate, RefLanded, HoldInv, HoldsProcessing, HoldsAlone
<1>4. Reserved' /\ OneWriter' /\ Written'
  BY <1>2 DEF ObjectInv, Reserved, OneWriter, Written, Published, KeyOf
<1>5. Unreferenced' /\ Settled'
  BY <1>2 DEF ObjectInv, Unreferenced, Settled, Referenced, SomethingReplaced
<1>6. ReferencedObjectStoredUnlessReused' /\ StoredIsAccountedForUnlessReplaced'
  BY <1>2 DEF ObjectInv, ReferencedObjectStoredUnlessReused, StoredIsAccountedForUnlessReplaced, Referenced,
     SomethingReplaced
<1> QED BY <1>1, <1>3, <1>4, <1>5, <1>6 DEF ObjectInv

LEMMA ObjectAlways == Spec => []ObjectInv
<1>1. Init => ObjectInv
  BY InitObject
<1>2. ObjectInv /\ [Next]_vars => ObjectInv'
  BY ObjectInvStep, ObjectInvStutter
<1> QED BY <1>1, <1>2, PTL DEF Spec

\* No cleanup deletes the object a book refers to, as long as no two runs wrote to
\* its key: a run that may still write or commit holds its reservation, so no drain
\* pass holds its row; and the one that could enqueue it is past its commit.
THEOREM ReferencedIsKept == Spec => []ReferencedObjectStoredUnlessReused
<1>1. ObjectInv => ReferencedObjectStoredUnlessReused
  BY DEF ObjectInv
<1> QED BY <1>1, ObjectAlways, PTL

\* Every object in the store is referred to or has a row in the outbox, unless an
\* object was replaced: no run that dies leaves one that no drain pass will find.
THEOREM StoredIsKnown == Spec => []StoredIsAccountedForUnlessReplaced
<1>1. ObjectInv => StoredIsAccountedForUnlessReplaced
  BY DEF ObjectInv
<1> QED BY <1>1, ObjectAlways, PTL

=============================================================================
