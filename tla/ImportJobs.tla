----------------------------- MODULE ImportJobs -----------------------------
(***************************************************************************)
(* Hosted imports: uploads and API requests, the import queue, the workers *)
(* and their recovery, and the deletion of objects, over the store they    *)
(* share, with the properties that make them correct.                      *)
(***************************************************************************)
EXTENDS ImportWorker, ImportRequests

Init ==
  /\ session = [u \in Upload |-> "uploading"]
  /\ chunks = [u \in Upload |-> {}]
  /\ files = [u \in Upload |-> TRUE]
  /\ job = [u \in Upload |-> NoJob]
  /\ bull = [x \in Exec |-> NoEntry]
  /\ work = [w \in Worker |-> NoExecution]
  /\ proc = [p \in Proc |-> IF p \in Worker THEN Started ELSE NoProcess]
  /\ outbox = [k \in Key |-> "none"]
  /\ store = {}
  /\ ref = [b \in Book |-> None]
  /\ drain = [d \in Drainer |-> NoDrain]
  /\ landed = [u \in Upload |-> 0]
  /\ reused = {}
  /\ upsets = 0 /\ pauses = 0

Faults ==
  \/ \E w \in Worker : WorkerCrash(w) \/ LockLost(w) \/ ImportFails(w) \/ PutAnswerLost(w)
  \/ \E p \in Proc : AddFails(p)
  \/ \E r \in Request : RequestCrash(r)
  \/ \E x \in Exec : RedisLoses(x)
  \/ \E d \in Drainer : RemoveFails(d) \/ DrainCrash(d)

Time ==
  \/ \E w \in Worker : Heartbeat(w) \/ HeartbeatAborts(w)
  \/ \E x \in Exec : StallRecovered(x)
  \/ \E u \in Upload : GrowsStale(u) \/ PruneUpload(u)
  \/ \E k \in Key : ClaimTimesOut(k) \/ ReservationDue(k)

Next ==
  \/ \E w \in Worker : ImportStep(w) \/ RecoveryStep(w)
  \/ \E r \in Request : RequestArrives(r) \/ RequestStep(r)
  \/ \E u \in Upload, c \in Chunk : PutChunk(u, c)
  \/ \E d \in Drainer : DrainStep(d)
  \/ Faults \/ Time

Spec == Init /\ [][Next]_vars

(***************************************************************************)
(* Fairness: worker processes and started requests take their steps, the   *)
(* recovery and drain timers run, time passes for what waits for it, and a *)
(* client polls an import it is waiting for, as the hosted web client does *)
(* until the import ends.  Nothing makes a fault happen.                   *)
(***************************************************************************)
Fairness ==
  /\ \A w \in Worker : WF_vars(ImportStep(w)) /\ WF_vars(RecoveryStep(w))
  /\ \A r \in Request : WF_vars(RequestStep(r)) /\ WF_vars(\E u \in Upload : Poll(r, u))
  /\ \A d \in Drainer : WF_vars(DrainStep(d))
  /\ \A x \in Exec : WF_vars(StallRecovered(x))
  /\ \A u \in Upload : WF_vars(~Alive(u) /\ GrowsStale(u))
  /\ \A k \in Key : WF_vars(ClaimTimesOut(k)) /\ WF_vars(ReservationDue(k))

FairSpec == Spec /\ Fairness

-----------------------------------------------------------------------------
(* Types *)

\* Every table, queue and program counter keeps its type.
TypeOK ==
  /\ session \in [Upload -> SessionStatus]
  /\ chunks \in [Upload -> SUBSET Chunk]
  /\ files \in [Upload -> BOOLEAN]
  /\ job \in [Upload -> JobRow]
  /\ bull \in [Exec -> QueueEntry]
  /\ work \in [Worker -> Execution]
  /\ proc \in [Proc -> Process]
  /\ outbox \in [Key -> RowState]
  /\ store \subseteq Key /\ reused \subseteq Key
  /\ ref \in [Book -> Key \cup {None}]
  /\ drain \in [Drainer -> DrainPass]
  /\ landed \in [Upload -> Nat]
  /\ upsets \in Nat /\ pauses \in Nat

-----------------------------------------------------------------------------
(* Safety *)

\* However often an import is retried, redelivered, superseded or cut off in the
\* middle of its commit, it replaces the book at most once, and never after its
\* cancellation was accepted.
LandsOnceUnlessCancelled ==
  \A u \in Upload : landed[u] <= (IF job[u].cancel THEN 0 ELSE 1)

\* The upload, its job and the book agree on how an import ended, although they
\* are written by several transactions of several processes: a late failure does
\* not hide an import that landed or was cancelled.
OutcomesAgree ==
  \A u \in Upload :
    /\ landed[u] = 1 <=> job[u].status = "done"
    /\ landed[u] = 1 => session[u] \notin {"uploading", "queued", "failed"}
    /\ session[u] = "imported" => landed[u] = 1
    /\ job[u].status = "cancelled" => session[u] \in {"cancelled", "expired"}
    /\ job[u].status = "failed" => session[u] \in {"failed", "cancelled", "expired"}

\* An import that waits or runs still has the chunks it is made of.
Underway(u) == session[u] = "queued" /\ job[u].status \in {"queued", "processing"}

\* No execution takes the chunks from under an import that is waiting or running,
\* unless the recovery pass took the job from an execution that was still alive.
ChunksKeptUnlessPaused == pauses = 0 => \A u \in Upload : Underway(u) => Readable(u)

\* No cleanup deletes the object of a book, whether it comes from a failed run, a
\* lost commit reply, a replaced object or a drain pass that was interrupted,
\* as long as no two runs wrote to the same key.
ReferencedObjectStoredUnlessReused ==
  \A b \in Book : ref[b] \in Key \ reused => ref[b] \in store

\* Some upload has replaced what another put into the same book.
SomethingReplaced ==
  \E u, v \in Upload : u # v /\ BookOf[u] = BookOf[v] /\ landed[u] > 0 /\ landed[v] > 0

\* Every object in the store is referred to or known to the outbox: a run that
\* dies anywhere leaves nothing behind that no drain pass will look at.  (A
\* replaced object may be forgotten: ForgetRow drops a row that was queued again
\* after the drain looked.)
StoredIsAccountedForUnlessReplaced ==
  ~SomethingReplaced => \A k \in store \ reused : Referenced(k) \/ outbox[k] # "none"

-----------------------------------------------------------------------------
(* Liveness *)

\* A queued import is started or ends: no lost queue entry, dead enqueuer or race
\* of enqueuers leaves it waiting while the client polls.
QueuedImportStarts == \A u \in Upload : job[u].status = "queued" ~> job[u].status # "queued"

\* An import that a dead worker was processing goes back to the queue or ends, or
\* its upload was marked as failed before the job could be.
ProcessingImportEndsUnlessFailed ==
  \A u \in Upload : job[u].status = "processing" ~> (job[u].status # "processing" \/ session[u] # "queued")

\* An object that runs left behind, and that no book refers to, is deleted in the
\* end, however the runs and the drain passes are cut off.
AbandonedObjectGoes ==
  \A k \in Key : k \in store /\ ~Referenced(k)
                 ~> (k \notin store \/ Referenced(k) \/ k \in reused \/ SomethingReplaced)

=============================================================================
