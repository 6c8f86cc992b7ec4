---------------------------- MODULE ImportStore ----------------------------
(***************************************************************************)
(* The state a hosted import shares: upload sessions and their chunks, the *)
(* import job of each upload, the BullMQ queue, the object store and the   *)
(* table of objects to delete, and the program counters of the worker      *)
(* processes and API requests that act on them.                            *)
(*                                                                         *)
(* An upload has at most one import job, so both are indexed by Upload.    *)
(* Execution ids are the random BullMQ job ids of enqueueImportJob.  The   *)
(* objects one run of one execution writes share a storage prefix; the     *)
(* prefix stands for them as a Key.                                        *)
(***************************************************************************)
EXTENDS Integers, FiniteSets

CONSTANTS Upload, Chunk, Exec, Worker, Request, Drainer, Book,
          None,        \* a database null
          BookOf,      \* the book an upload replaces
          MaxTries,    \* the BullMQ "attempts" of an import
          MaxUpsets,   \* bound: crashes, lost locks, replies and queue entries, and pauses
          MaxPauses    \* bound: those that are live executions whose heartbeat falls behind

ASSUME ImportAssumption ==
  /\ None \notin Upload \cup Exec \cup (Exec \X (1..MaxTries))
  /\ Request \cap Worker = {}
  /\ Chunk # {} /\ BookOf \in [Upload -> Book]
  /\ MaxTries \in Nat \ {0} /\ MaxUpsets \in Nat /\ MaxPauses \in Nat

VARIABLES
  session,  \* upload_sessions.status
  chunks,   \* upload_chunks rows
  files,    \* whether the upload's directory is on disk
  job,      \* import_jobs
  bull,     \* the import queue
  work,     \* the import a worker process runs
  proc,     \* an API request, or the recovery timer of a worker process
  outbox,   \* object_delete_outbox
  store,    \* the objects in object storage
  ref,      \* the object each book refers to
  drain,    \* drainObjectDeleteOutbox of each process that runs it
  landed,   \* history: how often an upload replaced its book
  reused,   \* history: keys that a second run wrote to
  upsets, pauses

vars == <<session, chunks, files, job, bull, work, proc, outbox, store, ref, drain,
          landed, reused, upsets, pauses>>

objectVars == <<outbox, store, ref, drain, reused>>

SessionStatus == {"uploading", "queued", "imported", "failed", "cancelled", "expired"}
JobStatus == {"absent", "queued", "processing", "done", "failed", "cancelled"}

JobRow == [status: JobStatus, active: Exec \cup {None}, cancel: BOOLEAN, stale: BOOLEAN]

NoJob == [status |-> "absent", active |-> None, cancel |-> FALSE, stale |-> FALSE]

\* A BullMQ job: its state, its data, attemptsMade, and whether it stalled before.
\* "ended" is completed or failed, as long as the queue retains it.
QueueEntry == [state: {"missing", "waiting", "active", "ended"},
               upload: Upload \cup {None}, made: 0..MaxTries, stalled: BOOLEAN]

NoEntry == [state |-> "missing", upload |-> None, made |-> 0, stalled |-> FALSE]

Key == Exec \X (1..MaxTries)

WorkPc == {"idle", "claim", "check", "read", "admit", "reserve", "put", "recheck", "publish",
           "cleanup", "abandon", "judge", "drop_rows", "drop_files", "fail", "fail_job",
           "retry", "return", "throw"}

\* "why" is the error an execution is handling.
Execution == [exec: Exec \cup {None}, upload: Upload \cup {None}, try: 0..MaxTries, pc: WorkPc,
              lock: BOOLEAN, wrote: BOOLEAN, why: {"none", "error", "cancelled", "superseded"}]

NoExecution == [exec |-> None, upload |-> None, try |-> 0, pc |-> "idle",
                lock |-> FALSE, wrote |-> FALSE, why |-> "none"]

ProcPc == {"idle", "boot", "look", "probe", "clear", "enqueue", "add", "rmdir"}

\* "booting" until a worker process has finished its startup pass.
Process == [pc: ProcPc, booting: BOOLEAN, upload: Upload \cup {None}, seen: Exec \cup {None},
            new: Exec \cup {None}, rows: SUBSET Upload]

NoProcess == [pc |-> "idle", booting |-> FALSE, upload |-> None, seen |-> None, new |-> None, rows |-> {}]

Started == [NoProcess EXCEPT !.pc = "boot", !.booting = TRUE]

Proc == Request \cup Worker

-----------------------------------------------------------------------------

KeyOf(w) == <<work[w].exec, work[w].try>>

Alive(u) == \E w \in Worker : work[w].pc # "idle" /\ work[w].upload = u

\* A new random UUID: an identifier nothing refers to.  An entry that still waits
\* under an identifier no row names would only be refused, and is forgotten.
Fresh(x) ==
  /\ bull[x].state # "active"
  /\ \A u \in Upload : job[u].active # x
  /\ \A w \in Worker : work[w].exec # x
  /\ \A p \in Proc : x \notin {proc[p].seen, proc[p].new}
  /\ \A k \in Key : k[1] = x => /\ outbox[k] = "none" /\ k \notin store \cup reused
                                /\ \A b \in Book : ref[b] # k

UpsetLeft == upsets + pauses < MaxUpsets

Touched(row) == [row EXCEPT !.stale = FALSE]

=============================================================================
