------------------------- MODULE ImportJobs_proofs -------------------------
(***************************************************************************)
(* ImportJobs for every set of uploads, chunks, executions, processes and  *)
(* books, and every value of the bounds: first its types; then the fence   *)
(* of an import's row, by which an import lands once, ends the same way in *)
(* every table, and keeps its chunks while it is under way.                *)
(***************************************************************************)
EXTENDS ImportJobs, TLAPS

(***************************************************************************)
(* Every word a row is written with belongs to its column.                 *)
(***************************************************************************)
LEMMA Words ==
  /\ \A s \in {"uploading", "queued", "imported", "failed", "cancelled", "expired"} : s \in SessionStatus
  /\ \A s \in {"absent", "queued", "processing", "done", "failed", "cancelled"} : s \in JobStatus
  /\ \A s \in {"claim", "check", "read", "admit", "reserve", "put", "recheck", "publish", "cleanup",
               "abandon", "judge", "drop_rows", "drop_files", "fail", "fail_job", "retry",
               "return", "throw", "idle"} : s \in WorkPc
  /\ \A s \in {"idle", "boot", "look", "probe", "clear", "enqueue", "add", "rmdir"} : s \in ProcPc
  /\ \A s \in {"none", "reserved", "due", "processing"} : s \in RowState
BY DEF SessionStatus, JobStatus, WorkPc, ProcPc, RowState

States == {"missing", "waiting", "active", "ended"}
Whys == {"none", "error", "cancelled", "superseded"}

LEMMA NewRows ==
  /\ NoJob \in JobRow /\ NoExecution \in Execution /\ NoEntry \in QueueEntry
  /\ NoProcess \in Process /\ Started \in Process /\ NoDrain \in DrainPass
<1>1. NoJob \in JobRow
  BY Words DEF NoJob, JobRow
<1>2. 0 \in 0..MaxTries
  BY ImportAssumption
<1>3. NoExecution \in Execution
  BY <1>2, Words DEF NoExecution, Execution
<1>4. NoEntry \in QueueEntry
  BY <1>2 DEF NoEntry, QueueEntry
<1>5. NoProcess \in Process
  BY Words DEF NoProcess, Process
<1>6. Started \in Process
  BY <1>5, Words DEF Started, Process
<1>7. NoDrain \in DrainPass
  BY DEF NoDrain, DrainPass
<1> QED BY <1>1, <1>3, <1>4, <1>5, <1>6, <1>7

LEMMA JobRows ==
  ASSUME NEW r \in JobRow, NEW s \in JobStatus, NEW x \in Exec \cup {None}, NEW b \in BOOLEAN
  PROVE  /\ Touched(r) \in JobRow /\ Touched(r).active = r.active
         /\ Touched(r).cancel = r.cancel /\ Touched(r).status = r.status /\ Touched(r).stale = FALSE
         /\ [r EXCEPT !.status = s] \in JobRow /\ [r EXCEPT !.status = s].active = r.active
         /\ [r EXCEPT !.status = s].cancel = r.cancel /\ [r EXCEPT !.status = s].status = s
         /\ [r EXCEPT !.active = x] \in JobRow /\ [r EXCEPT !.active = x].active = x
         /\ [r EXCEPT !.active = x].status = r.status /\ [r EXCEPT !.active = x].cancel = r.cancel
         /\ [r EXCEPT !.stale = b] \in JobRow /\ [r EXCEPT !.stale = b].active = r.active
         /\ [r EXCEPT !.stale = b].status = r.status /\ [r EXCEPT !.stale = b].cancel = r.cancel
BY DEF Touched, JobRow

\* The rows that a cancellation and a recovery pass write.
LEMMA StoppedRows ==
  ASSUME NEW r \in JobRow
  PROVE  /\ CancelledRow(r) \in JobRow /\ CancelledRow(r).active = None
         /\ CancelledRow(r).status = "cancelled" /\ CancelledRow(r).cancel = TRUE
         /\ Touched([r EXCEPT !.status = "queued", !.active = None]) \in JobRow
         /\ Touched([r EXCEPT !.status = "queued", !.active = None]).active = None
         /\ Touched([r EXCEPT !.status = "queued", !.active = None]).status = "queued"
         /\ Touched([r EXCEPT !.status = "queued", !.active = None]).cancel = r.cancel
<1>1. "cancelled" \in JobStatus /\ "queued" \in JobStatus
  BY Words
<1> QED BY <1>1 DEF CancelledRow, Touched, JobRow

-----------------------------------------------------------------------------
(***************************************************************************)
(* Types, with what a process must know to act: an execution its delivery, *)
(* an entry that may be delivered its upload, a process its upload.        *)
(***************************************************************************)
KnowsDelivery(x) ==
  /\ x.pc # "idle" => x.exec \in Exec /\ x.upload \in Upload /\ x.try \in 1..MaxTries
  /\ x.lock => x.pc # "idle"

KnowsUpload(x) ==
  /\ x.pc \notin {"idle", "boot"} => x.upload \in Upload
  /\ x.pc \in {"probe", "clear"} => x.seen \in Exec
  /\ x.pc = "add" => x.new \in Exec

Wired ==
  /\ \A w \in Worker : KnowsDelivery(work[w])
  /\ \A x \in Exec : bull[x].state \in {"waiting", "active"} =>
       bull[x].upload \in Upload /\ bull[x].made < MaxTries
  /\ \A p \in Proc : KnowsUpload(proc[p])
  /\ \A d \in Drainer : drain[d].pc \in {"refs", "remove", "forget"} => drain[d].key \in Key

(***************************************************************************)
(* One execution id is for one upload, wherever it appears, and at most    *)
(* one execution holds the lock of a delivery.                             *)
(***************************************************************************)
Delivered ==
  /\ \A w \in Worker : work[w].lock => bull[work[w].exec].state = "active"
  /\ \A w, v \in Worker : work[w].lock /\ work[v].lock /\ w # v => work[w].exec # work[v].exec
  /\ \A w \in Worker, x \in Exec :
       work[w].exec = x /\ bull[x].state # "missing" => work[w].upload = bull[x].upload
  /\ \A w, v \in Worker :
       work[w].exec \in Exec /\ work[w].exec = work[v].exec => work[w].upload = work[v].upload

Adding ==
  \A p \in Proc : proc[p].pc = "add" =>
    /\ bull[proc[p].new].state = "missing"
    /\ \A w \in Worker : work[w].exec # proc[p].new
    /\ \A q \in Proc : q # p => proc[q].new # proc[p].new

TypeInv == TypeOK /\ Wired /\ Delivered /\ Adding

LEMMA TypeFacts ==
  ASSUME TypeOK
  PROVE  /\ \A u \in Upload : /\ job[u] \in JobRow /\ job[u].status \in JobStatus
                              /\ job[u].active \in Exec \cup {None}
                              /\ job[u].cancel \in BOOLEAN /\ job[u].stale \in BOOLEAN
                              /\ landed[u] \in Nat
         /\ \A w \in Worker : /\ work[w] \in Execution /\ work[w].exec \in Exec \cup {None}
                              /\ work[w].upload \in Upload \cup {None} /\ work[w].pc \in WorkPc
                              /\ work[w].lock \in BOOLEAN /\ work[w].try \in 0..MaxTries
         /\ \A x \in Exec : /\ bull[x] \in QueueEntry /\ bull[x].made \in 0..MaxTries
                            /\ bull[x].upload \in Upload \cup {None}
         /\ \A p \in Proc : /\ proc[p] \in Process /\ proc[p].rows \subseteq Upload
                            /\ proc[p].upload \in Upload \cup {None}
                            /\ proc[p].seen \in Exec \cup {None} /\ proc[p].new \in Exec \cup {None}
                            /\ proc[p].booting \in BOOLEAN
         /\ \A d \in Drainer : drain[d] \in DrainPass
         /\ DOMAIN job = Upload /\ DOMAIN work = Worker /\ DOMAIN bull = Exec /\ DOMAIN proc = Proc
<1>1. \A u \in Upload : job[u] \in JobRow /\ landed[u] \in Nat
  BY DEF TypeOK
<1>2. \A w \in Worker : work[w] \in Execution
  BY DEF TypeOK
<1>3. \A x \in Exec : bull[x] \in QueueEntry
  BY DEF TypeOK
<1>4. \A p \in Proc : proc[p] \in Process
  BY DEF TypeOK
<1>5. \A d \in Drainer : drain[d] \in DrainPass
  BY DEF TypeOK
<1>6. DOMAIN job = Upload /\ DOMAIN work = Worker /\ DOMAIN bull = Exec /\ DOMAIN proc = Proc
  BY DEF TypeOK
<1>7. \A u \in Upload : /\ job[u].status \in JobStatus /\ job[u].active \in Exec \cup {None}
                        /\ job[u].cancel \in BOOLEAN /\ job[u].stale \in BOOLEAN
  BY <1>1 DEF JobRow
<1>8. \A w \in Worker : /\ work[w].exec \in Exec \cup {None} /\ work[w].upload \in Upload \cup {None}
                        /\ work[w].pc \in WorkPc /\ work[w].lock \in BOOLEAN /\ work[w].try \in 0..MaxTries
  BY <1>2 DEF Execution
<1>9. \A x \in Exec : bull[x].made \in 0..MaxTries /\ bull[x].upload \in Upload \cup {None}
  BY <1>3 DEF QueueEntry
<1>10. \A p \in Proc : /\ proc[p].rows \subseteq Upload /\ proc[p].upload \in Upload \cup {None}
                       /\ proc[p].seen \in Exec \cup {None} /\ proc[p].new \in Exec \cup {None}
                       /\ proc[p].booting \in BOOLEAN
  BY <1>4 DEF Process
<1> QED BY <1>1, <1>2, <1>3, <1>4, <1>5, <1>6, <1>7, <1>8, <1>9, <1>10

LEMMA InitType == Init => TypeInv
<1> SUFFICES ASSUME Init PROVE TypeInv
  OBVIOUS
<1>1. TypeOK
  BY NewRows, Words DEF Init, TypeOK
<1>2. Wired
  BY DEF Init, Wired, KnowsDelivery, KnowsUpload, NoExecution, NoEntry, NoProcess, Started, NoDrain
<1>3. Delivered
  BY ImportAssumption DEF Init, Delivered, NoExecution
<1>4. Adding
  BY DEF Init, Adding, NoProcess, Started
<1> QED BY <1>1, <1>2, <1>3, <1>4 DEF TypeInv

(***************************************************************************)
(* The run of an execution.  Every step from its claim to its last one     *)
(* keeps what was delivered, and the execution each row names.             *)
(***************************************************************************)
RunStep(w) ==
  \/ ClaimImport(w) \/ ClaimRefused(w) \/ Check(w)
  \/ ReadUpload(w) \/ UploadUnreadable(w)
  \/ ReserveObjects(w) \/ PutObjects(w) \/ Publish(w) \/ PublishRefused(w)
  \/ RemoveDirectory(w)
  \/ AbandonObjects(w) \/ Judge(w) \/ DropChunks(w)
  \/ FailSession(w) \/ FailJob(w) \/ Retry(w)
  \/ ImportFails(w) \/ PutAnswerLost(w) \/ HeartbeatAborts(w)

\* The execution goes to pc, and keeps its delivery.
Moves(w, pc) ==
  \E y \in Execution :
    /\ work' = [work EXCEPT ![w] = y]
    /\ y.exec = work[w].exec /\ y.upload = work[w].upload /\ y.try = work[w].try
    /\ y.lock = work[w].lock /\ y.pc = pc

\* A row changes, but not the execution it names.
KeepsNames == job' \in [Upload -> JobRow] /\ \A u \in Upload : job'[u].active = job[u].active

LEMMA MovesType ==
  ASSUME TypeInv, NEW w \in Worker, work[w].pc # "idle", NEW pc \in WorkPc \ {"idle"}, Moves(w, pc)
  PROVE  /\ work' \in [Worker -> Execution]
         /\ \A v \in Worker : /\ KnowsDelivery(work'[v]) /\ work'[v].exec = work[v].exec
                              /\ work'[v].upload = work[v].upload /\ work'[v].try = work[v].try
                              /\ work'[v].lock = work[v].lock
                              /\ work'[v].pc = IF v = w THEN pc ELSE work[v].pc
<1>0. work[w] \in Execution /\ work \in [Worker -> Execution] /\ KnowsDelivery(work[w])
  BY DEF TypeInv, TypeOK, Wired
<1>1. PICK y \in Execution :
        /\ work' = [work EXCEPT ![w] = y]
        /\ y.exec = work[w].exec /\ y.upload = work[w].upload /\ y.try = work[w].try
        /\ y.lock = work[w].lock /\ y.pc = pc
  BY DEF Moves
<1>3. KnowsDelivery(y)
  BY <1>0, <1>1 DEF KnowsDelivery
<1>4. \A v \in Worker : work'[v] = IF v = w THEN y ELSE work[v]
  BY <1>0, <1>1
<1>5. work' \in [Worker -> Execution]
  BY <1>0, <1>1
<1>6. \A v \in Worker : KnowsDelivery(work[v])
  BY DEF TypeInv, Wired
<1> QED BY <1>1, <1>3, <1>4, <1>5, <1>6

LEMMA MovesByTo ==
  ASSUME TypeInv, NEW w \in Worker, NEW pc \in WorkPc
  PROVE  /\ To(w, pc) => Moves(w, pc)
         /\ \A why \in Whys : Throw(w, why) => Moves(w, "abandon")
         /\ work' = [work EXCEPT ![w] = [@ EXCEPT !.pc = pc, !.wrote = TRUE]] => Moves(w, pc)
<1> DEFINE x == work[w]
<1>1. x \in Execution
  BY DEF TypeInv, TypeOK
<1>2. ASSUME To(w, pc) PROVE Moves(w, pc)
  <2> DEFINE y == [x EXCEPT !.pc = pc]
  <2>1. /\ y \in Execution /\ y.exec = x.exec /\ y.upload = x.upload
        /\ y.try = x.try /\ y.lock = x.lock /\ y.pc = pc
    BY <1>1 DEF Execution
  <2>2. work' = [work EXCEPT ![w] = y]
    BY <1>2 DEF To
  <2> HIDE DEF y
  <2> QED BY <2>1, <2>2 DEF Moves
<1>3. ASSUME NEW why \in Whys, Throw(w, why) PROVE Moves(w, "abandon")
  <2> DEFINE y == [x EXCEPT !.pc = "abandon", !.why = why]
  <2>1. "abandon" \in WorkPc
    BY Words
  <2>2. /\ y \in Execution /\ y.exec = x.exec /\ y.upload = x.upload
        /\ y.try = x.try /\ y.lock = x.lock /\ y.pc = "abandon"
    BY <1>1, <2>1 DEF Execution, Whys
  <2>3. work' = [work EXCEPT ![w] = y]
    BY <1>3 DEF Throw
  <2> HIDE DEF y
  <2> QED BY <2>2, <2>3 DEF Moves
<1>4. ASSUME work' = [work EXCEPT ![w] = [@ EXCEPT !.pc = pc, !.wrote = TRUE]] PROVE Moves(w, pc)
  <2> DEFINE y == [x EXCEPT !.pc = pc, !.wrote = TRUE]
  <2>1. /\ y \in Execution /\ y.exec = x.exec /\ y.upload = x.upload
        /\ y.try = x.try /\ y.lock = x.lock /\ y.pc = pc
    BY <1>1 DEF Execution
  <2>2. work' = [work EXCEPT ![w] = y]
    BY <1>4
  <2> HIDE DEF y
  <2> QED BY <2>1, <2>2 DEF Moves
<1> QED BY <1>2, <1>3, <1>4

LEMMA StoppedWords ==
  ASSUME NEW w PROVE /\ Stopped(w) \in Whys
                     /\ Stopped(w) = "none" => /\ job[Uploaded(w)].active = work[w].exec
                                               /\ job[Uploaded(w)].status = "processing"
                                               /\ ~job[Uploaded(w)].cancel
                     /\ Stopped(w) = "cancelled" => \/ job[Uploaded(w)].cancel
                                                    \/ job[Uploaded(w)].status = "cancelled"
BY DEF Stopped, Whys

LEMMA RunMoves ==
  ASSUME TypeInv, NEW w \in Worker, RunStep(w)
  PROVE  /\ work[w].pc # "idle" /\ \E pc \in WorkPc \ {"idle"} : Moves(w, pc)
         /\ UNCHANGED <<bull, proc, drain, pauses>>
<1> DEFINE goes == \E pc \in WorkPc \ {"idle"} : Moves(w, pc)
<1>0. \A pc \in {"claim", "check", "read", "admit", "reserve", "put", "recheck", "publish", "cleanup",
               "abandon", "judge", "drop_rows", "drop_files", "fail", "fail_job", "retry",
               "return", "throw"} : pc \in WorkPc \ {"idle"}
  BY Words
<1>1. /\ \A pc \in WorkPc \ {"idle"} : To(w, pc) => goes
      /\ \A why \in Whys : Throw(w, why) => goes
  <2>1. \A pc \in WorkPc : To(w, pc) => Moves(w, pc)
    BY MovesByTo
  <2>2. \A why \in Whys : Throw(w, why) => Moves(w, "abandon")
    BY <1>0, MovesByTo
  <2> QED BY <1>0, <2>1, <2>2
<1>2. \A why \in {"none", "error", "cancelled", "superseded"} : why \in Whys
  BY DEF Whys
<1> HIDE DEF goes
<1>3. CASE ClaimImport(w) \/ ClaimRefused(w) \/ RemoveDirectory(w) \/ DropChunks(w) \/ FailSession(w)
           \/ FailJob(w) \/ Retry(w) \/ ReserveObjects(w)
  <2>1. goes /\ work[w].pc # "idle"
    BY <1>0, <1>1, <1>3 DEF ClaimImport, ClaimRefused, RemoveDirectory, DropChunks, FailSession,
         FailJob, Retry, ReserveObjects
  <2> QED BY <1>3, <2>1 DEF ClaimImport, ClaimRefused, RemoveDirectory, DropChunks, FailSession,
         FailJob, Retry, ReserveObjects, objectVars, goes
<1>4. CASE ReadUpload(w) \/ UploadUnreadable(w) \/ ImportFails(w) \/ PutAnswerLost(w) \/ HeartbeatAborts(w)
           \/ PublishRefused(w)
  <2>1. goes /\ work[w].pc # "idle"
    BY <1>0, <1>1, <1>2, <1>4 DEF ReadUpload, UploadUnreadable, ImportFails, PutAnswerLost,
         HeartbeatAborts, PublishRefused
  <2> QED BY <1>4, <2>1 DEF ReadUpload, UploadUnreadable, ImportFails, PutAnswerLost,
         HeartbeatAborts, PublishRefused, objectVars, goes
<1>5. CASE PutObjects(w)
  <2>1. Moves(w, "recheck") /\ work[w].pc # "idle"
    BY <1>0, <1>5, MovesByTo DEF PutObjects
  <2> QED BY <1>0, <1>5, <2>1 DEF PutObjects
<1>6. CASE Publish(w)
  <2>1. goes /\ work[w].pc # "idle"
    BY <1>0, <1>1, <1>2, <1>6 DEF Publish
  <2> QED BY <1>6, <2>1 DEF Publish, goes
<1>7. CASE Check(w)
  <2>1. AfterCheck[work[w].pc] \in {"read", "reserve", "publish"} /\ work[w].pc # "idle"
    BY <1>7 DEF Check, AfterCheck
  <2>2. goes
    BY <1>0, <1>1, <1>7, <2>1, StoppedWords DEF Check
  <2> QED BY <1>7, <2>1, <2>2 DEF Check, goes, objectVars
<1>8. CASE AbandonObjects(w)
  <2>1. goes /\ work[w].pc # "idle"
    BY <1>0, <1>1, <1>8 DEF AbandonObjects, AfterAbandon
  <2> QED BY <1>8, <2>1 DEF AbandonObjects, goes
<1>9. CASE Judge(w)
  <2>1. goes /\ work[w].pc # "idle"
    BY <1>0, <1>1, <1>9 DEF Judge
  <2> QED BY <1>9, <2>1 DEF Judge, goes, objectVars
<1> QED
  BY <1>3, <1>4, <1>5, <1>6, <1>7, <1>8, <1>9 DEF RunStep

\* The rows that a run writes.
LEMMA RunRows ==
  ASSUME TypeInv, NEW w \in Worker, RunStep(w)
  PROVE  KeepsNames
<1> DEFINE u == Uploaded(w)
<1>0. /\ u \in Upload /\ job[u] \in JobRow /\ job \in [Upload -> JobRow]
      /\ \A s \in {"processing", "done", "failed", "queued"} :
           /\ Touched([job[u] EXCEPT !.status = s]) \in JobRow
           /\ Touched([job[u] EXCEPT !.status = s]).active = job[u].active
  <2>1. work[w].pc # "idle"
    BY RunMoves
  <2>2. u \in Upload
    BY <2>1 DEF TypeInv, Wired, KnowsDelivery, Uploaded
  <2>3. job[u] \in JobRow /\ job \in [Upload -> JobRow]
    BY <2>2 DEF TypeInv, TypeOK
  <2>4. ASSUME NEW s \in {"processing", "done", "failed", "queued"}
        PROVE  /\ Touched([job[u] EXCEPT !.status = s]) \in JobRow
               /\ Touched([job[u] EXCEPT !.status = s]).active = job[u].active
    <3>1. s \in JobStatus /\ None \in Exec \cup {None} /\ TRUE \in BOOLEAN
      BY Words
    <3>2. [job[u] EXCEPT !.status = s] \in JobRow /\ [job[u] EXCEPT !.status = s].active = job[u].active
      BY <2>3, <3>1, JobRows, ZenonT(40)
    <3> QED BY <3>1, <3>2, JobRows
  <2> QED BY <2>2, <2>3, <2>4
<1>1. ASSUME NEW r \in JobRow, r.active = job[u].active, job' = [job EXCEPT ![u] = r]
      PROVE  KeepsNames
  BY <1>0, <1>1 DEF KeepsNames
<1>2. CASE job' = job
  BY <1>0, <1>2 DEF KeepsNames
<1>3. CASE \E s \in {"processing", "done", "failed", "queued"} :
             job' = [job EXCEPT ![u] = Touched([job[u] EXCEPT !.status = s])]
  BY <1>0, <1>1, <1>3
<1>4. \/ job' = job
      \/ \E s \in {"processing", "done", "failed", "queued"} :
           job' = [job EXCEPT ![u] = Touched([job[u] EXCEPT !.status = s])]
  <2>1. CASE ClaimImport(w) \/ ReadUpload(w) \/ Publish(w) \/ FailJob(w) \/ Retry(w)
    BY <2>1 DEF ClaimImport, ReadUpload, Publish, FailJob, Retry, RequeueJob, SetJob, Progressed
  <2>2. CASE ~(ClaimImport(w) \/ ReadUpload(w) \/ Publish(w) \/ FailJob(w) \/ Retry(w))
    BY <2>2 DEF RunStep, ClaimRefused, Check, UploadUnreadable, ReserveObjects, PutObjects, PublishRefused,
         RemoveDirectory, AbandonObjects, Judge, DropChunks, FailSession, ImportFails, PutAnswerLost,
         HeartbeatAborts
  <2> QED BY <2>1, <2>2
<1> QED BY <1>2, <1>3, <1>4

\* The tables of the object store keep their types.
ObjectsOK ==
  /\ outbox \in [Key -> RowState] /\ store \subseteq Key /\ reused \subseteq Key
  /\ ref \in [Book -> Key \cup {None}]

UploadsOK ==
  /\ session \in [Upload -> SessionStatus] /\ chunks \in [Upload -> SUBSET Chunk]
  /\ files \in [Upload -> BOOLEAN] /\ landed \in [Upload -> Nat] /\ upsets \in Nat

LEMMA TableTypes ==
  ASSUME NEW table \in [Key -> RowState], NEW keys
  PROVE  Enqueue(table, keys) \in [Key -> RowState] /\ Release(table, keys) \in [Key -> RowState]
BY Words DEF Enqueue, Release

LEMMA RunTables ==
  ASSUME TypeInv, NEW w \in Worker, RunStep(w)
  PROVE  ObjectsOK' /\ UploadsOK'
<1> DEFINE u == Uploaded(w)
           k == KeyOf(w)
<1>0. /\ u \in Upload /\ k \in Key /\ ObjectsOK /\ UploadsOK
      /\ BookOf \in [Upload -> Book] /\ landed[u] + 1 \in Nat /\ upsets + 1 \in Nat
  <2>1. work[w].pc # "idle"
    BY RunMoves
  <2>2. u \in Upload /\ work[w].exec \in Exec /\ work[w].try \in 1..MaxTries
    BY <2>1 DEF TypeInv, Wired, KnowsDelivery, Uploaded
  <2>3. ObjectsOK /\ UploadsOK
    BY DEF TypeInv, TypeOK, ObjectsOK, UploadsOK
  <2>4. landed[u] + 1 \in Nat /\ upsets + 1 \in Nat
    BY <2>2, <2>3 DEF UploadsOK
  <2> QED BY <2>2, <2>3, <2>4, ImportAssumption DEF Key, KeyOf
<1>1. ObjectsOK'
  <2>1. CASE ReserveObjects(w)
    <3>1. Reserve({k}) \in [Key -> RowState]
      BY <1>0, Words DEF Reserve, ObjectsOK
    <3> QED BY <1>0, <2>1, <3>1 DEF ReserveObjects, ObjectsOK
  <2>2. CASE PutObjects(w) \/ PutAnswerLost(w)
    BY <1>0, <2>2 DEF PutObjects, PutAnswerLost, ObjectsOK
  <2>3. CASE Publish(w)
    <3>1. outbox' \in [Key -> RowState]
      BY <1>0, <2>3, TableTypes DEF Publish, ObjectsOK
    <3>2. ref' \in [Book -> Key \cup {None}]
      BY <1>0, <2>3 DEF Publish, ObjectsOK
    <3> QED BY <1>0, <2>3, <3>1, <3>2 DEF Publish, ObjectsOK
  <2>4. CASE AbandonObjects(w)
    <3>1. outbox' \in [Key -> RowState]
      BY <1>0, <2>4, TableTypes DEF AbandonObjects, ObjectsOK
    <3> QED BY <1>0, <2>4, <3>1 DEF AbandonObjects, ObjectsOK
  <2>5. CASE UNCHANGED <<outbox, store, ref, reused>>
    BY <1>0, <2>5 DEF ObjectsOK
  <2>6. \/ ReserveObjects(w) \/ PutObjects(w) \/ PutAnswerLost(w) \/ Publish(w) \/ AbandonObjects(w)
        \/ UNCHANGED <<outbox, store, ref, reused>>
    BY DEF RunStep, ClaimImport, ClaimRefused, Check, ReadUpload, UploadUnreadable, PublishRefused,
         RemoveDirectory, Judge, DropChunks, FailSession, FailJob, Retry, ImportFails,
         HeartbeatAborts, objectVars
  <2> QED BY <2>1, <2>2, <2>3, <2>4, <2>5, <2>6
<1>2. UploadsOK'
  <2>1. CASE Publish(w)
    <3>1. session' \in [Upload -> SessionStatus] /\ chunks' \in [Upload -> SUBSET Chunk]
      BY <1>0, <2>1, Words DEF Publish, UploadsOK
    <3>2. landed' \in [Upload -> Nat] /\ upsets' \in Nat /\ files' = files
      BY <1>0, <2>1 DEF Publish, UploadsOK
    <3> QED BY <1>0, <3>1, <3>2 DEF UploadsOK
  <2>2. CASE FailSession(w)
    <3>1. session' \in [Upload -> SessionStatus]
      BY <1>0, <2>2, Words DEF FailSession, UploadsOK
    <3> QED BY <1>0, <2>2, <3>1 DEF FailSession, UploadsOK
  <2>3. CASE RemoveDirectory(w) \/ DropChunks(w) \/ PutAnswerLost(w)
    <3>1. files' \in [Upload -> BOOLEAN] /\ chunks' \in [Upload -> SUBSET Chunk]
      BY <1>0, <2>3 DEF RemoveDirectory, DropChunks, PutAnswerLost, UploadsOK
    <3> QED BY <1>0, <2>3, <3>1 DEF RemoveDirectory, DropChunks, PutAnswerLost, UploadsOK
  <2>4. CASE UNCHANGED <<session, chunks, files, landed, upsets>>
    BY <1>0, <2>4 DEF UploadsOK
  <2>5. \/ Publish(w) \/ FailSession(w) \/ RemoveDirectory(w) \/ DropChunks(w) \/ PutAnswerLost(w)
        \/ UNCHANGED <<session, chunks, files, landed, upsets>>
    BY DEF RunStep, ClaimImport, ClaimRefused, Check, ReadUpload, UploadUnreadable, ReserveObjects,
         PutObjects, PublishRefused, AbandonObjects, Judge, FailJob, Retry, ImportFails, HeartbeatAborts
  <2> QED BY <2>1, <2>2, <2>3, <2>4, <2>5
<1> QED BY <1>1, <1>2

\* What the moving of one execution, with its delivery, leaves as it is.
LEMMA RunType ==
  ASSUME TypeInv, NEW w \in Worker, RunStep(w)
  PROVE  TypeInv'
<1>1. PICK pc \in WorkPc \ {"idle"} : Moves(w, pc)
  BY RunMoves
<1>2. /\ work[w].pc # "idle" /\ bull' = bull /\ proc' = proc /\ drain' = drain /\ pauses' = pauses
  BY RunMoves
<1>3. /\ work' \in [Worker -> Execution]
      /\ \A v \in Worker : /\ KnowsDelivery(work'[v]) /\ work'[v].exec = work[v].exec
                           /\ work'[v].upload = work[v].upload /\ work'[v].try = work[v].try
                           /\ work'[v].lock = work[v].lock
  BY <1>1, <1>2, MovesType
<1>4. TypeOK'
  BY <1>2, <1>3, RunRows, RunTables DEF TypeInv, TypeOK, KeepsNames, ObjectsOK, UploadsOK
<1>5. Wired'
  BY <1>2, <1>3 DEF TypeInv, Wired
<1>6. Delivered'
  BY <1>2, <1>3 DEF TypeInv, Delivered
<1>7. Adding'
  BY <1>2, <1>3 DEF TypeInv, Adding
<1> QED BY <1>4, <1>5, <1>6, <1>7 DEF TypeInv

(***************************************************************************)
(* The start and the end of a run.                                         *)
(***************************************************************************)
LEMMA DeliveredRow ==
  ASSUME NEW e \in Execution, NEW x \in Exec, NEW u \in Upload, NEW n \in 0..MaxTries
  PROVE  LET y == [e EXCEPT !.exec = x, !.upload = u, !.try = n, !.pc = "claim", !.lock = TRUE]
         IN /\ y \in Execution /\ y.exec = x /\ y.upload = u /\ y.pc = "claim"
            /\ y.try = n /\ y.lock = TRUE
<1>1. "claim" \in WorkPc
  BY Words
<1> QED BY <1>1 DEF Execution

LEMMA DeliverType ==
  ASSUME TypeInv, NEW w \in Worker, NEW x \in Exec, Deliver(w, x)
  PROVE  TypeInv'
<1> DEFINE y == [NoExecution EXCEPT
       !.exec = x, !.upload = bull[x].upload, !.try = bull[x].made + 1, !.pc = "claim", !.lock = TRUE]
           b == [bull[x] EXCEPT !.state = "active"]
<1>0. /\ bull[x] \in QueueEntry /\ bull[x].state = "waiting" /\ bull[x].upload \in Upload
      /\ bull[x].made \in 0..MaxTries /\ bull[x].made < MaxTries /\ MaxTries \in Nat
      /\ work' = [work EXCEPT ![w] = y] /\ bull' = [bull EXCEPT ![x] = b]
      /\ TypeOK /\ work \in [Worker -> Execution] /\ bull \in [Exec -> QueueEntry]
  BY TypeFacts, ImportAssumption DEF Deliver, TypeInv, TypeOK, Wired
<1>1. bull[x].made + 1 \in 1..MaxTries /\ bull[x].made + 1 \in 0..MaxTries
  BY <1>0
<1>2. /\ y \in Execution /\ y.exec = x /\ y.upload = bull[x].upload /\ y.pc = "claim"
      /\ y.try = bull[x].made + 1 /\ y.lock = TRUE
  <2>1. bull[x].upload \in Upload /\ bull[x].made + 1 \in 0..MaxTries /\ NoExecution \in Execution
    BY <1>0, <1>1, NewRows
  <2> QED BY <2>1, DeliveredRow
<1>3. b \in QueueEntry /\ b.state = "active" /\ b.upload = bull[x].upload /\ b.made = bull[x].made
  BY <1>0 DEF QueueEntry
<1> HIDE DEF y, b
<1>4. /\ \A v \in Worker : work'[v] = IF v = w THEN y ELSE work[v]
      /\ \A z \in Exec : bull'[z] = IF z = x THEN b ELSE bull[z]
      /\ work' \in [Worker -> Execution] /\ bull' \in [Exec -> QueueEntry]
  BY <1>0, <1>2, <1>3
<1>5. TypeOK'
  BY <1>0, <1>4 DEF Deliver, TypeOK, objectVars
<1>6. KnowsDelivery(y)
  BY <1>0, <1>1, <1>2 DEF KnowsDelivery
<1>7. Wired'
  BY <1>0, <1>3, <1>4, <1>6 DEF Deliver, TypeInv, Wired, objectVars
<1>8. Delivered'
  <2>1. \A v \in Worker : work[v].lock => work[v].exec # x
    BY <1>0 DEF TypeInv, Delivered
  <2>2. \A v \in Worker : work[v].exec = x => work[v].upload = bull[x].upload
    BY <1>0 DEF TypeInv, Delivered
  <2>3. \A v \in Worker : work[v].lock => work[v].exec \in Exec
    BY DEF TypeInv, Wired, KnowsDelivery
  <2>4. /\ \A v \in Worker : work'[v].lock => bull'[work'[v].exec].state = "active"
        /\ \A z, v \in Worker : work'[z].lock /\ work'[v].lock /\ z # v => work'[z].exec # work'[v].exec
    BY <1>2, <1>3, <1>4, <2>1, <2>3 DEF TypeInv, Delivered
  <2>5. \A v \in Worker, z \in Exec :
          work'[v].exec = z /\ bull'[z].state # "missing" => work'[v].upload = bull'[z].upload
    BY <1>0, <1>2, <1>3, <1>4, <2>2 DEF TypeInv, Delivered
  <2>6. \A z, v \in Worker :
          work'[z].exec \in Exec /\ work'[z].exec = work'[v].exec => work'[z].upload = work'[v].upload
    BY <1>2, <1>4, <2>2 DEF TypeInv, Delivered
  <2> QED BY <2>4, <2>5, <2>6 DEF Delivered
<1>9. Adding'
  <2>1. proc' = proc
    BY DEF Deliver
  <2>2. \A p \in Proc : proc[p].pc = "add" => proc[p].new # x /\ proc[p].new \in Exec
    BY <1>0 DEF TypeInv, Adding, Wired, KnowsUpload
  <2> QED BY <1>2, <1>4, <2>1, <2>2 DEF TypeInv, Adding
<1> QED BY <1>5, <1>7, <1>8, <1>9 DEF TypeInv

\* An execution that stops, or loses its lock, or dies.
LEMMA LeavesType ==
  ASSUME TypeInv, NEW w \in Worker, NEW y \in Execution, work' = [work EXCEPT ![w] = y],
         \/ y = NoExecution
         \/ y.exec = work[w].exec /\ y.upload = work[w].upload /\ y.try = work[w].try /\ y.pc = work[w].pc
            /\ y.lock = FALSE
  PROVE  /\ work' \in [Worker -> Execution] /\ \A v \in Worker : KnowsDelivery(work'[v])
         /\ \A v \in Worker : work'[v] = IF v = w THEN y ELSE work[v]
         /\ \A v \in Worker : work'[v].lock => work[v].lock /\ v # w
         /\ \A v \in Worker : \/ work'[v].exec = work[v].exec /\ work'[v].upload = work[v].upload
                              \/ work'[v].exec = None
         /\ bull' = bull => Delivered'
         /\ bull' = bull /\ proc' = proc => Adding'
<1>1. /\ work' \in [Worker -> Execution] /\ \A v \in Worker : work'[v] = IF v = w THEN y ELSE work[v]
      /\ \A v \in Worker : KnowsDelivery(work[v])
  BY DEF TypeInv, TypeOK, Wired
<1>2. KnowsDelivery(y) /\ ~y.lock
  BY <1>1 DEF KnowsDelivery, NoExecution
<1>3. \A v \in Worker : work'[v].lock => work[v].lock /\ v # w
  BY <1>1, <1>2
<1>4. \A v \in Worker : \/ work'[v].exec = work[v].exec /\ work'[v].upload = work[v].upload
                        \/ work'[v].exec = None
  BY <1>1 DEF NoExecution
<1>5. \A v \in Worker : work'[v].lock => work'[v].exec = work[v].exec
  BY <1>1, <1>2
<1>6. ASSUME bull' = bull PROVE Delivered'
  <2>1. /\ \A v \in Worker : work'[v].lock => bull'[work'[v].exec].state = "active"
        /\ \A z, v \in Worker : work'[z].lock /\ work'[v].lock /\ z # v => work'[z].exec # work'[v].exec
    BY <1>3, <1>5, <1>6 DEF TypeInv, Delivered
  <2>2. None \notin Exec
    BY ImportAssumption
  <2>3. \A v \in Worker, z \in Exec :
          work'[v].exec = z /\ bull'[z].state # "missing" => work'[v].upload = bull'[z].upload
    BY <1>4, <1>6, <2>2 DEF TypeInv, Delivered
  <2>4. \A z, v \in Worker :
          work'[z].exec \in Exec /\ work'[z].exec = work'[v].exec => work'[z].upload = work'[v].upload
    BY <1>4, <2>2 DEF TypeInv, Delivered
  <2> QED BY <2>1, <2>3, <2>4 DEF Delivered
<1>7. ASSUME bull' = bull, proc' = proc PROVE Adding'
  <2>1. \A p \in Proc : proc[p].pc = "add" => proc[p].new # None
    BY ImportAssumption DEF TypeInv, Wired, KnowsUpload
  <2> QED BY <1>4, <1>7, <2>1 DEF TypeInv, Adding
<1> QED BY <1>1, <1>2, <1>3, <1>4, <1>6, <1>7

LEMMA FinishType ==
  ASSUME TypeInv, NEW w \in Worker, Finish(w)
  PROVE  TypeInv'
<1> DEFINE x == work[w].exec
<1>0. /\ NoExecution \in Execution /\ work' = [work EXCEPT ![w] = NoExecution]
      /\ x \in Exec /\ work[w].try \in 1..MaxTries /\ MaxTries \in Nat /\ bull \in [Exec -> QueueEntry]
  BY NewRows, ImportAssumption DEF Finish, TypeInv, TypeOK, Wired, KnowsDelivery
<1>1. /\ work' \in [Worker -> Execution] /\ \A v \in Worker : KnowsDelivery(work'[v])
      /\ \A v \in Worker : work'[v].lock => work[v].lock /\ v # w
      /\ \A v \in Worker : \/ work'[v].exec = work[v].exec /\ work'[v].upload = work[v].upload
                           \/ work'[v].exec = None
      /\ bull' = bull => Delivered'
      /\ bull' = bull /\ proc' = proc => Adding'
      /\ \A v \in Worker : v # w => work'[v] = work[v]
  BY <1>0, LeavesType
<1>2. CASE ~work[w].lock
  <2>1. bull' = bull /\ proc' = proc
    BY <1>2 DEF Finish
  <2>2. TypeOK'
    BY <1>1, <2>1 DEF Finish, TypeInv, TypeOK, objectVars
  <2>3. Wired'
    BY <1>1, <2>1 DEF Finish, TypeInv, Wired, objectVars
  <2> QED BY <1>1, <2>1, <2>2, <2>3 DEF TypeInv
<1>3. CASE work[w].lock
  <2> DEFINE b == [bull[x] EXCEPT !.state = EndState(w), !.made = work[w].try]
  <2>0. bull[x] \in QueueEntry /\ bull[x].state = "active" /\ bull[x].upload \in Upload
    BY <1>0, <1>3 DEF TypeInv, Delivered, Wired
  <2>1. bull' = [bull EXCEPT ![x] = b] /\ proc' = proc
    BY <1>3 DEF Finish
  <2>2. /\ b \in QueueEntry /\ b.state = EndState(w) /\ b.upload = bull[x].upload /\ b.made = work[w].try
        /\ b.state \in {"waiting", "ended"} /\ (b.state = "waiting" => work[w].try < MaxTries)
    <3>1. work[w].try \in 0..MaxTries
      BY <1>0
    <3>2. EndState(w) \in {"waiting", "ended"} /\ (EndState(w) = "waiting" => work[w].try < MaxTries)
      BY <1>0 DEF EndState, FinalTry
    <3> QED BY <2>0, <3>1, <3>2 DEF QueueEntry
  <2> HIDE DEF b
  <2>3. bull' \in [Exec -> QueueEntry] /\ \A z \in Exec : bull'[z] = IF z = x THEN b ELSE bull[z]
    BY <1>0, <2>1, <2>2
  <2>4. TypeOK'
    BY <1>1, <2>3 DEF Finish, TypeInv, TypeOK, objectVars
  <2>5. Wired'
    BY <1>1, <2>0, <2>1, <2>2, <2>3 DEF Finish, TypeInv, Wired, objectVars
  <2>6. \A v \in Worker : work'[v].lock => work[v].exec # x /\ work'[v].exec = work[v].exec
    BY <1>1, <1>3 DEF TypeInv, Delivered
  <2>7. Delivered'
    <3>0. None \notin Exec /\ \A v \in Worker : work[v].lock => work[v].exec \in Exec
      BY ImportAssumption DEF TypeInv, Wired, KnowsDelivery
    <3>1. /\ \A v \in Worker : work'[v].lock => bull'[work'[v].exec].state = "active"
          /\ \A z, v \in Worker : work'[z].lock /\ work'[v].lock /\ z # v => work'[z].exec # work'[v].exec
      BY <1>1, <2>3, <2>6, <3>0 DEF TypeInv, Delivered
    <3>2. \A v \in Worker, z \in Exec :
            work'[v].exec = z /\ bull'[z].state # "missing" => work'[v].upload = bull'[z].upload
      BY <1>1, <2>0, <2>2, <2>3, <3>0 DEF TypeInv, Delivered
    <3>3. \A z, v \in Worker :
            work'[z].exec \in Exec /\ work'[z].exec = work'[v].exec => work'[z].upload = work'[v].upload
      BY <1>1, <3>0 DEF TypeInv, Delivered
    <3> QED BY <3>1, <3>2, <3>3 DEF Delivered
  <2>8. Adding'
    <3>1. \A p \in Proc : proc[p].pc = "add" => proc[p].new # x /\ proc[p].new \in Exec /\ proc[p].new # None
      BY ImportAssumption DEF TypeInv, Adding, Wired, KnowsUpload
    <3> QED BY <1>1, <2>1, <2>3, <3>1 DEF TypeInv, Adding
  <2> QED BY <2>4, <2>5, <2>7, <2>8 DEF TypeInv
<1> QED BY <1>2, <1>3

LEMMA WorkerFaultType ==
  ASSUME TypeInv, NEW w \in Worker, WorkerCrash(w) \/ LockLost(w) \/ Heartbeat(w)
  PROVE  TypeInv'
<1>1. CASE Heartbeat(w)
  <2>1. Uploaded(w) \in Upload /\ job[Uploaded(w)] \in JobRow
    BY <1>1 DEF Heartbeat, TypeInv, TypeOK, Wired, KnowsDelivery, Uploaded
  <2>2. Touched(job[Uploaded(w)]) \in JobRow
    BY <2>1 DEF Touched, JobRow
  <2>3. job' \in [Upload -> JobRow]
    BY <1>1, <2>1, <2>2 DEF Heartbeat, SetJob, TypeInv, TypeOK
  <2>4. TypeOK'
    BY <1>1, <2>3 DEF Heartbeat, TypeInv, TypeOK, objectVars
  <2> QED BY <1>1, <2>4 DEF Heartbeat, TypeInv, Wired, Delivered, Adding, objectVars
<1>2. CASE LockLost(w)
  <2> DEFINE y == [work[w] EXCEPT !.lock = FALSE]
  <2>0. work[w] \in Execution /\ work' = [work EXCEPT ![w] = y] /\ upsets' \in Nat
    BY <1>2 DEF LockLost, TypeInv, TypeOK
  <2>1. /\ y \in Execution /\ y.exec = work[w].exec /\ y.upload = work[w].upload /\ y.try = work[w].try
        /\ y.pc = work[w].pc /\ y.lock = FALSE
    BY <2>0 DEF Execution
  <2> HIDE DEF y
  <2>2. /\ work' \in [Worker -> Execution] /\ (\A v \in Worker : KnowsDelivery(work'[v]))
        /\ (bull' = bull => Delivered') /\ (bull' = bull /\ proc' = proc => Adding')
    BY <2>0, <2>1, LeavesType
  <2>3. TypeOK'
    BY <1>2, <2>0, <2>2 DEF LockLost, TypeInv, TypeOK, objectVars
  <2>4. Wired'
    BY <1>2, <2>2 DEF LockLost, TypeInv, Wired, objectVars
  <2> QED BY <1>2, <2>2, <2>3, <2>4 DEF LockLost, TypeInv
<1>3. CASE WorkerCrash(w)
  <2>0. /\ NoExecution \in Execution /\ Started \in Process /\ work' = [work EXCEPT ![w] = NoExecution]
        /\ proc' = [proc EXCEPT ![w] = Started] /\ bull' = bull /\ w \in Proc /\ upsets' \in Nat
    BY <1>3, NewRows DEF WorkerCrash, Proc, TypeInv, TypeOK
  <2>1. /\ work' \in [Worker -> Execution] /\ (\A v \in Worker : KnowsDelivery(work'[v]))
        /\ (\A v \in Worker : \/ work'[v].exec = work[v].exec /\ work'[v].upload = work[v].upload
                              \/ work'[v].exec = None)
        /\ Delivered'
    BY <2>0, LeavesType
  <2>2. /\ proc' \in [Proc -> Process] /\ \A p \in Proc : proc'[p] = IF p = w THEN Started ELSE proc[p]
        /\ Started.pc = "boot" /\ Started.new = None
    BY <2>0 DEF TypeInv, TypeOK, Started, NoProcess
  <2>3. TypeOK'
    BY <1>3, <2>0, <2>1, <2>2 DEF WorkerCrash, TypeInv, TypeOK, objectVars
  <2>4. KnowsUpload(Started)
    BY <2>2 DEF KnowsUpload
  <2>5. Wired'
    BY <1>3, <2>1, <2>2, <2>4 DEF WorkerCrash, TypeInv, Wired, objectVars
  <2>6. Adding'
    <3>1. \A p \in Proc : proc[p].pc = "add" => proc[p].new # None
      BY ImportAssumption DEF TypeInv, Wired, KnowsUpload
    <3> QED BY <2>0, <2>1, <2>2, <3>1 DEF TypeInv, Adding
  <2> QED BY <2>1, <2>3, <2>5, <2>6 DEF TypeInv
<1> QED BY <1>1, <1>2, <1>3

-----------------------------------------------------------------------------
(***************************************************************************)
(* The steps of whoever enqueues an import.                                *)
(***************************************************************************)
\* A process that is not adding to the queue names no new execution.
Fields(y, pc, u, s, n) == y \in Process /\ y.pc = pc /\ y.upload = u /\ y.seen = s /\ y.new = n

LEMMA ProcessGoes ==
  ASSUME NEW x \in Process, NEW pc \in ProcPc
  PROVE  Fields([x EXCEPT !.pc = pc], pc, x.upload, x.seen, x.new)
BY DEF Process, Fields

LEMMA ProcessSees ==
  ASSUME NEW x \in Process, NEW pc \in ProcPc, NEW s \in Exec \cup {None}
  PROVE  /\ Fields([x EXCEPT !.seen = s, !.pc = pc], pc, x.upload, s, x.new)
         /\ Fields([x EXCEPT !.pc = pc, !.seen = s], pc, x.upload, s, x.new)
<1>1. Fields([x EXCEPT !.seen = s, !.pc = pc], pc, x.upload, s, x.new)
  BY DEF Process, Fields
<1>2. Fields([x EXCEPT !.pc = pc, !.seen = s], pc, x.upload, s, x.new)
  BY DEF Process, Fields
<1> QED BY <1>1, <1>2

LEMMA ProcessAdds ==
  ASSUME NEW x \in Process, NEW pc \in ProcPc, NEW n \in Exec
  PROVE  Fields([x EXCEPT !.pc = pc, !.new = n], pc, x.upload, x.seen, n)
BY DEF Process, Fields

LEMMA ProcessEnters ==
  ASSUME NEW x \in Process, NEW pc \in ProcPc, NEW u \in Upload
  PROVE  Fields([x EXCEPT !.pc = pc, !.upload = u], pc, u, x.seen, x.new)
BY DEF Process, Fields

LEMMA ProcessPasses ==
  ASSUME NEW x \in Process, NEW pc \in ProcPc, NEW b \in BOOLEAN, NEW u \in Upload,
         NEW rows \in SUBSET Upload
  PROVE  Fields([x EXCEPT !.pc = pc, !.booting = b, !.upload = u, !.rows = rows], pc, u, x.seen, x.new)
BY DEF Process, Fields

LEMMA ProcSet ==
  ASSUME TypeInv, NEW p \in Proc, NEW y \in Process, KnowsUpload(y), proc' = [proc EXCEPT ![p] = y]
  PROVE  /\ proc' \in [Proc -> Process] /\ \A q \in Proc : KnowsUpload(proc'[q])
         /\ \A q \in Proc : proc'[q] = IF q = p THEN y ELSE proc[q]
BY DEF TypeInv, TypeOK, Wired

\* The process takes up another upload, or is done: it adds nothing.
LEMMA NextOfType ==
  ASSUME TypeInv, NEW p \in Proc, NEW rows \in SUBSET Upload, NextOf(p, rows)
  PROVE  \E y \in Process : /\ KnowsUpload(y) /\ y.new = None /\ y.pc # "add" /\ y.pc # "rmdir"
                            /\ proc' = [proc EXCEPT ![p] = y]
<1>0. NoProcess \in Process /\ NoProcess.pc = "idle" /\ NoProcess.new = None
  BY NewRows DEF NoProcess
<1>1. CASE rows = {} /\ proc' = [proc EXCEPT ![p] = NoProcess]
  BY <1>0, <1>1 DEF KnowsUpload
<1>2. CASE \E u \in rows : proc' = [proc EXCEPT ![p] =
       [NoProcess EXCEPT !.pc = "look", !.booting = proc[p].booting, !.upload = u, !.rows = rows \ {u}]]
  <2>1. PICK u \in rows : proc' = [proc EXCEPT ![p] =
       [NoProcess EXCEPT !.pc = "look", !.booting = proc[p].booting, !.upload = u, !.rows = rows \ {u}]]
    BY <1>2
  <2> DEFINE y == [NoProcess EXCEPT !.pc = "look", !.booting = proc[p].booting, !.upload = u, !.rows = rows \ {u}]
  <2>2. proc[p].booting \in BOOLEAN /\ "look" \in ProcPc /\ rows \ {u} \in SUBSET Upload /\ u \in Upload
    BY TypeFacts, Words DEF TypeInv
  <2>3. Fields(y, "look", u, NoProcess.seen, NoProcess.new)
    <3>1. \A b \in BOOLEAN, v \in Upload, R \in SUBSET Upload :
            Fields([NoProcess EXCEPT !.pc = "look", !.booting = b, !.upload = v, !.rows = R],
                   "look", v, NoProcess.seen, NoProcess.new)
      BY <1>0, <2>2, ProcessPasses
    <3> QED BY <2>2, <3>1
  <2>4. proc' = [proc EXCEPT ![p] = y]
    BY <2>1
  <2> HIDE DEF y
  <2> QED BY <1>0, <2>2, <2>3, <2>4 DEF Fields, KnowsUpload
<1> QED BY <1>1, <1>2 DEF NextOf

\* A process that adds nothing leaves those that do alone.
LEMMA AddingKept ==
  ASSUME TypeInv, NEW p \in Proc, NEW y \in Process, proc' = [proc EXCEPT ![p] = y],
         y.pc # "add", y.new \in {None, proc[p].new}, work' = work,
         \A x \in Exec : bull'[x].state = bull[x].state \/ bull'[x].state = "missing"
                           \/ \A q \in Proc : proc'[q].pc = "add" => proc'[q].new # x
  PROVE  Adding'
<1>1. \A q \in Proc : proc'[q] = IF q = p THEN y ELSE proc[q]
  BY DEF TypeInv, TypeOK
<1>2. \A q \in Proc : proc[q].pc = "add" => proc[q].new \in Exec /\ proc[q].new # None
  BY ImportAssumption DEF TypeInv, Wired, KnowsUpload
<1> QED BY <1>1, <1>2 DEF TypeInv, Adding

LEMMA JobSet ==
  ASSUME TypeInv, NEW u \in Upload, NEW r \in JobRow, job' = [job EXCEPT ![u] = r]
  PROVE  job' \in [Upload -> JobRow] /\ \A v \in Upload : job'[v] = IF v = u THEN r ELSE job[v]
BY DEF TypeInv, TypeOK

\* Clearing the execution that a row names.
LEMMA ClearedRow ==
  ASSUME TypeInv, NEW u \in Upload, NEW x \in Exec \cup {None}
  PROVE  /\ Touched([job[u] EXCEPT !.active = x]) \in JobRow
         /\ Touched([job[u] EXCEPT !.active = x]).active = x
         /\ Touched([job[u] EXCEPT !.active = x]).status = job[u].status
         /\ Touched([job[u] EXCEPT !.active = x]).cancel = job[u].cancel
         /\ Touched([job[u] EXCEPT !.active = x]).stale = FALSE
<1>1. job[u] \in JobRow
  BY TypeFacts DEF TypeInv
<1>2. ASSUME NEW r \in JobRow
      PROVE  /\ Touched([r EXCEPT !.active = x]) \in JobRow
             /\ Touched([r EXCEPT !.active = x]).active = x
             /\ Touched([r EXCEPT !.active = x]).status = r.status
             /\ Touched([r EXCEPT !.active = x]).cancel = r.cancel
             /\ Touched([r EXCEPT !.active = x]).stale = FALSE
  BY DEF Touched, JobRow
<1> QED BY <1>1, <1>2

LEMMA EnqueueType ==
  ASSUME TypeInv, NEW p \in Proc, EnqueueStep(p) \/ AddFails(p)
  PROVE  TypeInv'
<1> DEFINE u == proc[p].upload
<1>0. /\ proc[p] \in Process
      /\ (proc[p].pc \notin {"idle", "boot"} => u \in Upload)
      /\ proc[p].rows \in SUBSET Upload /\ KnowsUpload(proc[p])
      /\ proc[p].seen \in Exec \cup {None} /\ proc[p].new \in Exec \cup {None}
      /\ \A pc \in {"probe", "clear", "enqueue", "add"} : pc \in ProcPc
      /\ NoEntry \in QueueEntry /\ NoEntry.state = "missing"
  <2>1. NoEntry \in QueueEntry /\ NoEntry.state = "missing"
    BY NewRows DEF NoEntry
  <2>2. KnowsUpload(proc[p])
    BY DEF TypeInv, Wired
  <2> QED BY <2>1, <2>2, TypeFacts, Words DEF TypeInv, KnowsUpload
<1>1. ASSUME NEW y \in Process, KnowsUpload(y), y.pc # "add", y.new \in {None, proc[p].new},
             proc' = [proc EXCEPT ![p] = y], bull' = bull, job' \in [Upload -> JobRow], upsets' \in Nat,
             UNCHANGED <<session, chunks, files, work, objectVars, landed, pauses>>
      PROVE  TypeInv'
  <2>1. proc' \in [Proc -> Process] /\ \A q \in Proc : KnowsUpload(proc'[q])
    BY <1>1, ProcSet
  <2>2. Adding'
    BY <1>1, AddingKept
  <2>3. TypeOK'
    BY <1>1, <2>1 DEF TypeInv, TypeOK, objectVars
  <2>4. Wired' /\ Delivered'
    BY <1>1, <2>1 DEF TypeInv, Wired, Delivered, objectVars
  <2> QED BY <2>2, <2>3, <2>4 DEF TypeInv
<1>2. CASE Look(p)
  <2> DEFINE s == IF Open(u) THEN job[u].active ELSE None
             pc == IF s = None THEN "enqueue" ELSE "probe"
             y == [proc[p] EXCEPT !.seen = s, !.pc = pc]
  <2>1. u \in Upload /\ s \in Exec \cup {None} /\ pc \in ProcPc
    BY <1>0, <1>2, TypeFacts DEF Look, TypeInv
  <2>2. proc' = [proc EXCEPT ![p] = y]
    BY <1>2 DEF Look
  <2>3. pc = "enqueue" \/ (pc = "probe" /\ s \in Exec)
    BY <2>1
  <2> HIDE DEF pc, s
  <2>4. Fields(y, pc, u, s, proc[p].new)
    BY <1>0, <2>1, ProcessSees, TypeFacts
  <2> HIDE DEF y
  <2>5. y \in Process /\ KnowsUpload(y) /\ y.pc # "add" /\ y.new = proc[p].new
    BY <2>1, <2>3, <2>4 DEF Fields, KnowsUpload
  <2> QED BY <1>1, <1>2, <2>2, <2>5 DEF Look, TypeInv, TypeOK
<1>3. CASE Probe(p) \/ ClaimLost(p)
  <2>1. Enqueued(p) \/ Step(p, "clear")
    BY <1>3 DEF Probe, ClaimLost
  <2>2. ASSUME Enqueued(p) PROVE TypeInv'
    <3>1. NextOf(p, proc[p].rows)
      BY <2>2 DEF Enqueued
    <3>2. PICK y \in Process : KnowsUpload(y) /\ y.new = None /\ y.pc # "add" /\ proc' = [proc EXCEPT ![p] = y]
      BY <1>0, <3>1, NextOfType
    <3> QED BY <1>1, <1>3, <3>2 DEF Probe, ClaimLost, TypeInv, TypeOK
  <2>3. ASSUME Step(p, "clear"), ~Enqueued(p) PROVE TypeInv'
    <3> DEFINE y == [proc[p] EXCEPT !.pc = "clear"]
    <3>1. Probe(p) /\ u \in Upload /\ proc[p].seen \in Exec
      BY <1>0, <1>3, <2>3 DEF Probe, ClaimLost, KnowsUpload
    <3>0. "clear" \in ProcPc
      BY Words
    <3>2. Fields(y, "clear", u, proc[p].seen, proc[p].new)
      BY <1>0, <3>1, <3>0, ProcessGoes
    <3>3. proc' = [proc EXCEPT ![p] = y]
      BY <2>3 DEF Step
    <3> HIDE DEF y
    <3>4. y \in Process /\ KnowsUpload(y) /\ y.pc # "add" /\ y.new = proc[p].new
      BY <3>1, <3>2 DEF Fields, KnowsUpload
    <3> QED BY <1>1, <3>1, <3>3, <3>4 DEF Probe, TypeInv, TypeOK
  <2> QED BY <2>1, <2>2, <2>3
<1>4. CASE Clear(p)
  <2> DEFINE y == [proc[p] EXCEPT !.pc = "enqueue", !.seen = None]
  <2>1. u \in Upload
    <3>1. proc[p].pc = "clear"
      BY <1>4 DEF Clear
    <3> QED BY <1>0, <3>1
  <2>2. job' \in [Upload -> JobRow]
    <3>1. Touched([job[u] EXCEPT !.active = None]) \in JobRow
      BY <2>1, ClearedRow
    <3> QED BY <1>4, <2>1, <3>1 DEF Clear, TypeInv, TypeOK
  <2>3. Fields(y, "enqueue", u, None, proc[p].new)
    <3>1. "enqueue" \in ProcPc /\ None \in Exec \cup {None}
      BY Words
    <3> QED BY <1>0, <3>1, ProcessSees
  <2>4. proc' = [proc EXCEPT ![p] = y]
    BY <1>4 DEF Clear
  <2> HIDE DEF y
  <2>5. y \in Process /\ KnowsUpload(y) /\ y.pc # "add" /\ y.new = proc[p].new
    BY <2>1, <2>3 DEF Fields, KnowsUpload
  <2> QED BY <1>1, <1>4, <2>2, <2>4, <2>5 DEF Clear, TypeInv, TypeOK
<1>5. ASSUME NEW x \in Exec, ClaimExecution(p, x) PROVE TypeInv'
  <2> DEFINE y == [proc[p] EXCEPT !.pc = "add", !.new = x]
  <2>1. u \in Upload
    <3>1. proc[p].pc = "enqueue"
      BY <1>5 DEF ClaimExecution
    <3> QED BY <1>0, <3>1
  <2>2. job' \in [Upload -> JobRow]
    <3>1. Touched([job[u] EXCEPT !.active = x]) \in JobRow
      BY <2>1, ClearedRow
    <3> QED BY <1>5, <2>1, <3>1 DEF ClaimExecution, TypeInv, TypeOK
  <2>3. Fields(y, "add", u, proc[p].seen, x)
    <3>1. "add" \in ProcPc
      BY Words
    <3> QED BY <1>0, <3>1, ProcessAdds
  <2>4. proc' = [proc EXCEPT ![p] = y] /\ bull' = [bull EXCEPT ![x] = NoEntry]
    BY <1>5 DEF ClaimExecution
  <2> HIDE DEF y
  <2>5. y \in Process /\ KnowsUpload(y) /\ y.pc = "add" /\ y.new = x
    BY <2>1, <2>3 DEF Fields, KnowsUpload
  <2>6. /\ proc' \in [Proc -> Process] /\ \A q \in Proc : KnowsUpload(proc'[q])
        /\ \A q \in Proc : proc'[q] = IF q = p THEN y ELSE proc[q]
    BY <2>4, <2>5, ProcSet
  <2>7. /\ bull' \in [Exec -> QueueEntry]
        /\ \A z \in Exec : bull'[z] = IF z = x THEN NoEntry ELSE bull[z]
    BY <1>0, <2>4 DEF TypeInv, TypeOK
  <2>8. /\ bull[x].state # "active" /\ \A w \in Worker : work[w].exec # x
        /\ \A q \in Proc : x # proc[q].new
    BY <1>5 DEF ClaimExecution, Fresh
  <2>9. TypeOK'
    BY <1>5, <2>2, <2>6, <2>7 DEF ClaimExecution, TypeInv, TypeOK, objectVars
  <2>10. Wired'
    BY <1>0, <1>5, <2>6, <2>7 DEF ClaimExecution, TypeInv, Wired, objectVars
  <2>11. work' = work
    BY <1>5 DEF ClaimExecution
  <2>12. Delivered'
    <3>1. \A w \in Worker : work[w].lock => work[w].exec \in Exec
      BY DEF TypeInv, Wired, KnowsDelivery
    <3> QED BY <1>0, <2>7, <2>8, <2>11, <3>1 DEF TypeInv, Delivered
  <2>13. Adding'
    <3>1. \A q \in Proc : proc[q].pc = "add" => proc[q].new \in Exec
      BY DEF TypeInv, Wired, KnowsUpload
    <3> QED BY <1>0, <2>5, <2>6, <2>7, <2>8, <2>11, <3>1 DEF TypeInv, Adding
  <2> QED BY <2>9, <2>10, <2>12, <2>13 DEF TypeInv
<1>6. CASE AddToQueue(p) \/ AddFails(p)
  <2> DEFINE x == proc[p].new
             b == [NoEntry EXCEPT !.state = "waiting", !.upload = u]
  <2>1. /\ u \in Upload /\ x \in Exec /\ MaxTries \in Nat \ {0}
        /\ bull[x].state = "missing" /\ \A w \in Worker : work[w].exec # x
        /\ \A q \in Proc : q # p => proc[q].new # x
    BY <1>0, <1>6, ImportAssumption DEF AddToQueue, AddFails, KnowsUpload, TypeInv, Adding
  <2>2. b \in QueueEntry /\ b.state = "waiting" /\ b.upload = u /\ b.made = 0
    BY <1>0, <2>1 DEF NoEntry, QueueEntry
  <2>3. /\ work' = work /\ UNCHANGED <<session, chunks, files, objectVars, landed, pauses>>
        /\ upsets' \in Nat
    BY <1>6 DEF AddToQueue, AddFails, TypeInv, TypeOK
  <2>4. job' \in [Upload -> JobRow]
    <3>1. Touched([job[u] EXCEPT !.active = None]) \in JobRow
      BY <2>1, ClearedRow
    <3> QED BY <1>6, <2>1, <3>1 DEF AddToQueue, AddFails, TypeInv, TypeOK
  <2>5. PICK y \in Process : KnowsUpload(y) /\ y.new = None /\ y.pc # "add" /\ proc' = [proc EXCEPT ![p] = y]
    <3>1. CASE AddToQueue(p)
      <4>1. NextOf(p, proc[p].rows)
        BY <3>1 DEF AddToQueue, Enqueued
      <4> QED BY <1>0, <4>1, NextOfType
    <3>2. CASE AddFails(p)
      BY <3>2, NewRows DEF AddFails, KnowsUpload, NoProcess, Started
    <3> QED BY <1>6, <3>1, <3>2
  <2>6. bull' = bull \/ bull' = [bull EXCEPT ![x] = b]
    BY <1>6 DEF AddToQueue, AddFails
  <2> HIDE DEF b
  <2>7. CASE bull' = bull
    BY <1>1, <2>3, <2>4, <2>5, <2>7
  <2>8. CASE bull' = [bull EXCEPT ![x] = b]
    <3>1. bull' \in [Exec -> QueueEntry] /\ \A z \in Exec : bull'[z] = IF z = x THEN b ELSE bull[z]
      BY <2>2, <2>8 DEF TypeInv, TypeOK
    <3>2. /\ proc' \in [Proc -> Process] /\ \A q \in Proc : KnowsUpload(proc'[q])
          /\ \A q \in Proc : proc'[q] = IF q = p THEN y ELSE proc[q]
      BY <2>5, ProcSet
    <3>3. TypeOK'
      BY <2>3, <2>4, <3>1, <3>2 DEF TypeInv, TypeOK, objectVars
    <3>4. Wired'
      BY <2>1, <2>2, <2>3, <3>1, <3>2 DEF TypeInv, Wired, objectVars
    <3>5. Delivered'
      <4>1. \A w \in Worker : work[w].lock => work[w].exec \in Exec
        BY DEF TypeInv, Wired, KnowsDelivery
      <4> QED BY <2>1, <2>3, <3>1, <4>1 DEF TypeInv, Delivered
    <3>6. \A q \in Proc : proc'[q].pc = "add" => proc'[q].new # x
      BY <2>1, <2>5, <3>2
    <3>7. \A z \in Exec : bull'[z].state = bull[z].state \/ bull'[z].state = "missing"
                           \/ \A q \in Proc : proc'[q].pc = "add" => proc'[q].new # z
      BY <3>1, <3>6
    <3>8. Adding'
      BY <2>3, <2>5, <3>7, AddingKept
    <3> QED BY <3>3, <3>4, <3>5, <3>8 DEF TypeInv
  <2> QED BY <2>6, <2>7, <2>8
<1> QED BY <1>2, <1>3, <1>4, <1>5, <1>6 DEF EnqueueStep


(***************************************************************************)
(* The passes of a worker process, and the queue.                          *)
(***************************************************************************)
\* Steps of a process that adds nothing to the queue, which they leave alone.
LEMMA ProcType ==
  ASSUME TypeInv, NEW p \in Proc, NEW y \in Process, KnowsUpload(y), y.pc # "add",
         y.new \in {None, proc[p].new}, proc' = [proc EXCEPT ![p] = y],
         UNCHANGED <<bull, work, drain, pauses>>, job' \in [Upload -> JobRow],
         ObjectsOK', UploadsOK'
  PROVE  TypeInv'
<1>1. proc' \in [Proc -> Process] /\ \A q \in Proc : KnowsUpload(proc'[q])
  BY ProcSet
<1>2. Adding'
  BY AddingKept
<1>3. TypeOK'
  BY <1>1 DEF TypeInv, TypeOK, ObjectsOK, UploadsOK
<1>4. Wired' /\ Delivered'
  BY <1>1 DEF TypeInv, Wired, Delivered
<1> QED BY <1>2, <1>3, <1>4 DEF TypeInv

LEMMA PassType ==
  ASSUME TypeInv, NEW w \in Worker, RequeuePending(w) \/ RecoverStale(w)
  PROVE  TypeInv'
<1>0. w \in Proc
  BY DEF Proc
<1>1. PICK y \in Process : KnowsUpload(y) /\ y.new = None /\ y.pc # "add" /\ proc' = [proc EXCEPT ![w] = y]
  <2>1. \E rows \in SUBSET Upload : NextOf(w, rows)
    <3>1. CASE RequeuePending(w)
      <4>1. NextOf(w, {u \in Upload : job[u].status = "queued" /\ session[u] = "queued"})
        BY <3>1 DEF RequeuePending
      <4> QED BY <4>1
    <3>2. CASE RecoverStale(w)
      <4>1. NextOf(w, {u \in Upload : Interrupted(u)})
        BY <3>2 DEF RecoverStale
      <4> QED BY <4>1
    <3> QED BY <3>1, <3>2
  <2> QED BY <1>0, <2>1, NextOfType
<1>2. job' \in [Upload -> JobRow]
  <2>1. CASE RequeuePending(w)
    BY <2>1 DEF RequeuePending, TypeInv, TypeOK
  <2>2. CASE RecoverStale(w)
    <3>1. \A u \in Upload : job[u] \in JobRow
      BY TypeFacts DEF TypeInv
    <3>2. \A u \in Upload : Touched([job[u] EXCEPT !.status = "queued", !.active = None]) \in JobRow
      BY <3>1, StoppedRows
    <3> QED BY <2>2, <3>1, <3>2 DEF RecoverStale
  <2> QED BY <2>1, <2>2
<1>3. UNCHANGED <<session, chunks, files, bull, work, objectVars, landed, upsets, pauses>>
  BY DEF RequeuePending, RecoverStale
<1>4. ObjectsOK' /\ UploadsOK'
  BY <1>3 DEF TypeInv, TypeOK, ObjectsOK, UploadsOK, objectVars
<1> QED BY <1>0, <1>1, <1>2, <1>3, <1>4, ProcType DEF objectVars

LEMMA QueueType ==
  ASSUME TypeInv, NEW x \in Exec, StallRecovered(x) \/ RedisLoses(x)
  PROVE  TypeInv'
<1> DEFINE b == [bull[x] EXCEPT !.state = IF bull[x].stalled THEN "ended" ELSE "waiting", !.stalled = TRUE]
<1>0. bull[x] \in QueueEntry /\ bull \in [Exec -> QueueEntry] /\ NoEntry \in QueueEntry
  BY TypeFacts, NewRows DEF TypeInv, TypeOK
<1>1. /\ b \in QueueEntry /\ b.state \in {"ended", "waiting"} /\ b.upload = bull[x].upload
      /\ b.made = bull[x].made
  BY <1>0 DEF QueueEntry
<1>2. PICK e \in QueueEntry :
        /\ bull' = [bull EXCEPT ![x] = e] /\ bull[x].state \in {"active", "waiting"}
        /\ ~ \E w \in Worker : work[w].exec = x /\ work[w].lock
        /\ \/ e.state \in {"ended", "waiting"} /\ e.upload = bull[x].upload /\ e.made = bull[x].made
           \/ e.state = "missing"
  <2>1. CASE StallRecovered(x)
    <3>1. /\ bull' = [bull EXCEPT ![x] = b] /\ bull[x].state \in {"active", "waiting"}
          /\ ~ \E w \in Worker : work[w].exec = x /\ work[w].lock
      BY <2>1 DEF StallRecovered
    <3> HIDE DEF b
    <3> QED BY <1>1, <3>1
  <2>2. CASE RedisLoses(x)
    <3>1. NoEntry.state = "missing" /\ bull' = [bull EXCEPT ![x] = NoEntry]
      BY <2>2 DEF RedisLoses, NoEntry
    <3>2. bull[x].state = "waiting"
      BY <2>2 DEF RedisLoses
    <3>3. ~ \E w \in Worker : work[w].exec = x /\ work[w].lock
      BY <3>2 DEF TypeInv, Delivered
    <3> QED BY <1>0, <3>1, <3>2, <3>3
  <2> QED BY <2>1, <2>2
<1> HIDE DEF b
<1>3. bull' \in [Exec -> QueueEntry] /\ \A z \in Exec : bull'[z] = IF z = x THEN e ELSE bull[z]
  BY <1>0, <1>2
<1>4. /\ UNCHANGED <<session, chunks, files, job, work, proc, objectVars, landed, pauses>>
      /\ upsets' \in Nat
  BY DEF StallRecovered, RedisLoses, TypeInv, TypeOK
<1>5. TypeOK'
  BY <1>3, <1>4 DEF TypeInv, TypeOK, objectVars
<1>6. Wired'
  BY <1>2, <1>3, <1>4 DEF TypeInv, Wired, objectVars
<1>7. Delivered'
  <2>1. \A w \in Worker : work[w].lock => work[w].exec \in Exec
    BY DEF TypeInv, Wired, KnowsDelivery
  <2> QED BY <1>2, <1>3, <1>4, <2>1 DEF TypeInv, Delivered
<1>8. Adding'
  <2>1. \A p \in Proc : proc[p].pc = "add" => proc[p].new \in Exec
    BY DEF TypeInv, Wired, KnowsUpload
  <2> QED BY <1>2, <1>3, <1>4, <2>1 DEF TypeInv, Adding
<1> QED BY <1>5, <1>6, <1>7, <1>8 DEF TypeInv

LEMMA StaleType ==
  ASSUME TypeInv, NEW u \in Upload, GrowsStale(u)
  PROVE  TypeInv'
<1>1. /\ UNCHANGED <<session, chunks, files, bull, work, proc, objectVars, landed, upsets>>
      /\ pauses' \in Nat
  BY DEF GrowsStale, TypeInv, TypeOK
<1>2. job' \in [Upload -> JobRow]
  <2>1. job[u] \in JobRow /\ TRUE \in BOOLEAN /\ "queued" \in JobStatus
    BY TypeFacts, Words DEF TypeInv
  <2>2. [job[u] EXCEPT !.stale = TRUE] \in JobRow
    BY <2>1, JobRows
  <2>3. job' = [job EXCEPT ![u] = [job[u] EXCEPT !.stale = TRUE]] /\ job \in [Upload -> JobRow]
    BY DEF GrowsStale, TypeInv, TypeOK
  <2> QED BY <2>2, <2>3
<1> QED BY <1>1, <1>2 DEF TypeInv, TypeOK, Wired, Delivered, Adding, objectVars


-----------------------------------------------------------------------------
(***************************************************************************)
(* The requests.                                                           *)
(***************************************************************************)
\* A process that takes up an upload, or leaves off.
LEMMA EntersType ==
  ASSUME TypeInv, NEW r \in Request, NEW u \in Upload, NEW pc \in {"look", "rmdir"},
         Enters(r, u, pc)
  PROVE  \E y \in Process : /\ KnowsUpload(y) /\ y.new = None /\ y.pc # "add"
                            /\ proc' = [proc EXCEPT ![r] = y]
<1>0. NoProcess \in Process /\ NoProcess.new = None
  BY NewRows DEF NoProcess
<1> DEFINE y == [NoProcess EXCEPT !.pc = pc, !.upload = u]
<1>1. pc \in ProcPc
  BY Words
<1>2. Fields(y, pc, u, NoProcess.seen, NoProcess.new)
  BY <1>0, <1>1, ProcessEnters
<1>3. proc' = [proc EXCEPT ![r] = y]
  BY DEF Enters
<1> HIDE DEF y
<1>4. y \in Process /\ KnowsUpload(y) /\ y.new = None /\ y.pc # "add"
  BY <1>0, <1>2 DEF Fields, KnowsUpload
<1> QED BY <1>3, <1>4

LEMMA RequestType ==
  ASSUME TypeInv, NEW r \in Request, RequestArrives(r) \/ RemoveCancelled(r) \/ RequestCrash(r)
  PROVE  TypeInv'
<1>0. r \in Proc /\ ObjectsOK /\ UploadsOK
  BY DEF Proc, TypeInv, TypeOK, ObjectsOK, UploadsOK
<1>1. /\ UNCHANGED <<bull, work, drain, pauses, outbox, store, ref, reused>>
      /\ ObjectsOK'
  <2>1. UNCHANGED <<bull, work, drain, pauses, outbox, store, ref, reused>>
    BY DEF RequestArrives, CompleteUpload, Poll, CancelUpload, RemoveCancelled, RequestCrash, objectVars
  <2> QED BY <1>0, <2>1 DEF ObjectsOK
<1>2. UploadsOK'
  <2>1. ASSUME NEW u \in Upload, CompleteUpload(r, u) \/ CancelUpload(r, u) PROVE UploadsOK'
    <3>1. session' \in [Upload -> SessionStatus]
      BY <1>0, <2>1, Words DEF CompleteUpload, CancelUpload, UploadsOK
    <3>2. chunks' \in [Upload -> SUBSET Chunk]
      BY <1>0, <2>1 DEF CompleteUpload, CancelUpload, UploadsOK
    <3> QED BY <1>0, <2>1, <3>1, <3>2 DEF CompleteUpload, CancelUpload, UploadsOK
  <2>2. CASE RemoveCancelled(r) \/ RequestCrash(r)
    <3>1. files' \in [Upload -> BOOLEAN]
      BY <1>0, <2>2 DEF RemoveCancelled, RequestCrash, UploadsOK
    <3>2. upsets' \in Nat
      BY <1>0, <2>2 DEF RemoveCancelled, RequestCrash, UploadsOK
    <3>3. UNCHANGED <<session, chunks, landed>>
      BY <2>2 DEF RemoveCancelled, RequestCrash
    <3> QED BY <1>0, <3>1, <3>2, <3>3 DEF UploadsOK
  <2>3. ASSUME NEW u \in Upload, Poll(r, u) PROVE UploadsOK'
    BY <1>0, <2>3 DEF Poll, UploadsOK
  <2> QED BY <2>1, <2>2, <2>3 DEF RequestArrives
<1>3. job' \in [Upload -> JobRow]
  <2>1. job \in [Upload -> JobRow]
    BY DEF TypeInv, TypeOK
  <2>2. ASSUME NEW u \in Upload, CompleteUpload(r, u) PROVE job' \in [Upload -> JobRow]
    <3>1. [NoJob EXCEPT !.status = "queued"] \in JobRow
      BY NewRows, JobRows, Words
    <3> QED BY <2>1, <2>2, <3>1 DEF CompleteUpload
  <2>3. ASSUME NEW u \in Upload, CancelUpload(r, u) PROVE job' \in [Upload -> JobRow]
    <3>1. job[u] \in JobRow
      BY <2>1
    <3>2. CancelledRow(job[u]) \in JobRow
      BY <3>1, StoppedRows
    <3> QED BY <2>1, <2>3, <3>2 DEF CancelUpload
  <2>4. ASSUME NEW u \in Upload, Poll(r, u) PROVE job' \in [Upload -> JobRow]
    BY <2>1, <2>4 DEF Poll
  <2>5. CASE RemoveCancelled(r) \/ RequestCrash(r)
    BY <2>1, <2>5 DEF RemoveCancelled, RequestCrash
  <2> QED BY <2>2, <2>3, <2>4, <2>5 DEF RequestArrives
<1>4. CASE proc' = proc
  BY <1>1, <1>2, <1>3, <1>4 DEF TypeInv, TypeOK, Wired, Delivered, Adding, ObjectsOK, UploadsOK
<1>5. ASSUME NEW y \in Process, KnowsUpload(y), y.new = None, y.pc # "add", proc' = [proc EXCEPT ![r] = y]
      PROVE  TypeInv'
  BY <1>0, <1>1, <1>2, <1>3, <1>5, ProcType
<1>6. CASE proc' = [proc EXCEPT ![r] = NoProcess]
  <2>1. NoProcess \in Process /\ NoProcess.new = None /\ NoProcess.pc # "add" /\ KnowsUpload(NoProcess)
    BY NewRows DEF NoProcess, KnowsUpload
  <2> QED BY <1>5, <1>6, <2>1
<1>7. ASSUME NEW u \in Upload, Enters(r, u, "look") \/ Enters(r, u, "rmdir") PROVE TypeInv'
  <2>1. PICK y \in Process : KnowsUpload(y) /\ y.new = None /\ y.pc # "add" /\ proc' = [proc EXCEPT ![r] = y]
    BY <1>7, EntersType
  <2> QED BY <1>5, <2>1
<1>8. \/ proc' = proc \/ proc' = [proc EXCEPT ![r] = NoProcess]
      \/ \E u \in Upload : Enters(r, u, "look") \/ Enters(r, u, "rmdir")
  BY DEF RequestArrives, CompleteUpload, Poll, CancelUpload, RemoveCancelled, RequestCrash
<1> QED BY <1>4, <1>6, <1>7, <1>8

LEMMA UploadType ==
  ASSUME TypeInv, NEW u \in Upload, PruneUpload(u) \/ \E c \in Chunk : PutChunk(u, c)
  PROVE  TypeInv'
<1>0. ObjectsOK /\ UploadsOK
  BY DEF TypeInv, TypeOK, ObjectsOK, UploadsOK
<1>1. UNCHANGED <<job, bull, work, proc, objectVars, landed, upsets, pauses>>
  BY DEF PruneUpload, PutChunk
<1>2. UploadsOK'
  <2>1. CASE PruneUpload(u)
    <3>1. session' \in [Upload -> SessionStatus]
      BY <1>0, <2>1, Words DEF PruneUpload, UploadsOK
    <3>2. chunks' \in [Upload -> SUBSET Chunk] /\ files' \in [Upload -> BOOLEAN]
      BY <1>0, <2>1 DEF PruneUpload, UploadsOK
    <3> QED BY <1>0, <1>1, <3>1, <3>2 DEF UploadsOK
  <2>2. ASSUME NEW c \in Chunk, PutChunk(u, c) PROVE UploadsOK'
    <3>1. chunks' \in [Upload -> SUBSET Chunk] /\ files' \in [Upload -> BOOLEAN]
      BY <1>0, <2>2 DEF PutChunk, UploadsOK
    <3> QED BY <1>0, <1>1, <2>2, <3>1 DEF PutChunk, UploadsOK
  <2> QED BY <2>1, <2>2
<1> QED BY <1>1, <1>2 DEF TypeInv, TypeOK, Wired, Delivered, Adding, UploadsOK, objectVars

-----------------------------------------------------------------------------
(***************************************************************************)
(* The object deletions.                                                   *)
(***************************************************************************)
DrainKnows(x) == x.pc \in {"refs", "remove", "forget"} => x.key \in Key

DrainPcs == {"idle", "next", "refs", "remove", "forget"}

LEMMA DrainGoes ==
  ASSUME NEW x \in DrainPass, NEW pc \in DrainPcs
  PROVE  [x EXCEPT !.pc = pc] \in DrainPass /\ [x EXCEPT !.pc = pc].pc = pc
         /\ [x EXCEPT !.pc = pc].key = x.key /\ [x EXCEPT !.pc = pc].rows = x.rows
BY DEF DrainPass, DrainPcs

LEMMA DrainToFacts ==
  ASSUME TypeInv, NEW d \in Drainer, NEW pc \in DrainPcs, DrainTo(d, pc),
         pc \in {"refs", "remove", "forget"} => drain[d].key \in Key
  PROVE  \E y \in DrainPass : /\ DrainKnows(y) /\ y.pc = pc /\ y.key = drain[d].key /\ y.rows = drain[d].rows
                              /\ drain' = [drain EXCEPT ![d] = y]
<1> DEFINE y == [drain[d] EXCEPT !.pc = pc]
<1>1. drain[d] \in DrainPass
  BY TypeFacts DEF TypeInv
<1>2. y \in DrainPass /\ y.pc = pc /\ y.key = drain[d].key /\ y.rows = drain[d].rows
  BY <1>1, DrainGoes
<1>3. drain' = [drain EXCEPT ![d] = y]
  BY DEF DrainTo
<1> HIDE DEF y
<1> QED BY <1>2, <1>3 DEF DrainKnows

\* What a pass does to its own counter.
LEMMA DrainMoves ==
  ASSUME TypeInv, NEW d \in Drainer, DrainStep(d) \/ RemoveFails(d) \/ DrainCrash(d)
  PROVE  \E y \in DrainPass : DrainKnows(y) /\ drain' = [drain EXCEPT ![d] = y]
<1>0. /\ drain[d] \in DrainPass /\ drain[d].rows \subseteq Key /\ drain[d].key \in Key \cup {None}
      /\ (drain[d].pc \in {"refs", "remove", "forget"} => drain[d].key \in Key)
  BY DEF TypeInv, TypeOK, Wired, DrainPass
<1>1. CASE OutboxRowsClaimed(d)
  <2> DEFINE due == {k \in Key : outbox[k] = "due"}
             y == [pc |-> "next", rows |-> due, key |-> None]
  <2>1. drain' = [drain EXCEPT ![d] = y]
    BY <1>1 DEF OutboxRowsClaimed
  <2>2. y \in DrainPass /\ DrainKnows(y)
    BY DEF DrainPass, DrainKnows
  <2> QED BY <2>1, <2>2
<1>2. CASE DrainNext(d)
  <2>1. CASE drain' = [drain EXCEPT ![d] = NoDrain]
    <3>1. NoDrain \in DrainPass /\ DrainKnows(NoDrain)
      BY NewRows DEF NoDrain, DrainKnows
    <3> QED BY <2>1, <3>1
  <2>2. ASSUME NEW k \in drain[d].rows,
               drain' = [drain EXCEPT ![d] = [pc |-> "refs", rows |-> @.rows \ {k}, key |-> k]]
        PROVE  \E y \in DrainPass : DrainKnows(y) /\ drain' = [drain EXCEPT ![d] = y]
    <3> DEFINE y == [pc |-> "refs", rows |-> drain[d].rows \ {k}, key |-> k]
    <3>1. y \in DrainPass /\ DrainKnows(y)
      BY <1>0, <2>2 DEF DrainPass, DrainKnows
    <3>2. drain' = [drain EXCEPT ![d] = y]
      BY <2>2
    <3> QED BY <3>1, <3>2
  <2> QED BY <1>2, <2>1, <2>2 DEF DrainNext
<1>3. CASE LookForReferences(d)
  <2>1. AfterLook(d) \in {"forget", "remove"} /\ DrainTo(d, AfterLook(d)) /\ drain[d].key \in Key
    BY <1>0, <1>3 DEF LookForReferences, AfterLook
  <2> HIDE DEF AfterLook
  <2>2. AfterLook(d) \in DrainPcs
    BY <2>1 DEF DrainPcs
  <2>3. \E y \in DrainPass : DrainKnows(y) /\ y.pc = AfterLook(d) /\ drain' = [drain EXCEPT ![d] = y]
    BY <2>1, <2>2, DrainToFacts
  <2> QED BY <2>3
<1>4. CASE RemoveObject(d) \/ RemoveFails(d) \/ ForgetRow(d)
  <2>1. \E pc \in {"forget", "next"} : DrainTo(d, pc) /\ drain[d].key \in Key
    BY <1>0, <1>4 DEF RemoveObject, RemoveFails, ForgetRow
  <2>2. PICK pc \in {"forget", "next"} : DrainTo(d, pc) /\ drain[d].key \in Key
    BY <2>1
  <2>3. pc \in DrainPcs
    BY DEF DrainPcs
  <2>4. \E y \in DrainPass : DrainKnows(y) /\ y.pc = pc /\ drain' = [drain EXCEPT ![d] = y]
    BY <2>2, <2>3, DrainToFacts
  <2> QED BY <2>4
<1>5. CASE DrainCrash(d)
  <2>1. NoDrain \in DrainPass /\ DrainKnows(NoDrain)
    BY NewRows DEF NoDrain, DrainKnows
  <2> QED BY <1>5, <2>1 DEF DrainCrash
<1> QED BY <1>1, <1>2, <1>3, <1>4, <1>5 DEF DrainStep

ObjectStep ==
  \/ \E d \in Drainer : DrainStep(d) \/ RemoveFails(d) \/ DrainCrash(d)
  \/ \E k \in Key : ClaimTimesOut(k) \/ ReservationDue(k)

LEMMA ObjectType ==
  ASSUME TypeInv, ObjectStep
  PROVE  TypeInv'
<1>0. ObjectsOK /\ drain \in [Drainer -> DrainPass] /\ \A d \in Drainer : DrainKnows(drain[d])
  BY DEF TypeInv, TypeOK, Wired, DrainKnows, ObjectsOK
<1>1. UNCHANGED <<session, chunks, files, job, bull, work, proc, landed, pauses>> /\ upsets' \in Nat
  <2>1. UNCHANGED <<session, chunks, files, job, bull, work, proc, landed, pauses>>
    BY DEF ObjectStep, DrainStep, OutboxRowsClaimed, DrainNext, LookForReferences, RemoveObject, ForgetRow,
         RemoveFails, DrainCrash, ClaimTimesOut, ReservationDue
  <2>2. upsets' = upsets \/ upsets' = upsets + 1
    BY DEF ObjectStep, DrainStep, OutboxRowsClaimed, DrainNext, LookForReferences, RemoveObject, ForgetRow,
         RemoveFails, DrainCrash, ClaimTimesOut, ReservationDue
  <2> QED BY <2>1, <2>2 DEF TypeInv, TypeOK
<1>2. drain' \in [Drainer -> DrainPass] /\ \A d \in Drainer : DrainKnows(drain'[d])
  <2>1. ASSUME NEW d \in Drainer, DrainStep(d) \/ RemoveFails(d) \/ DrainCrash(d)
        PROVE  drain' \in [Drainer -> DrainPass] /\ \A z \in Drainer : DrainKnows(drain'[z])
    <3>1. PICK y \in DrainPass : DrainKnows(y) /\ drain' = [drain EXCEPT ![d] = y]
      BY <2>1, DrainMoves
    <3> QED BY <1>0, <3>1
  <2>2. ASSUME NEW k \in Key, ClaimTimesOut(k) \/ ReservationDue(k)
        PROVE  drain' = drain
    BY <2>2 DEF ClaimTimesOut, ReservationDue
  <2> QED BY <1>0, <2>1, <2>2 DEF ObjectStep
<1>3. ObjectsOK'
  <2>1. ASSUME NEW d \in Drainer, OutboxRowsClaimed(d) PROVE ObjectsOK'
    BY <1>0, <2>1, Words DEF OutboxRowsClaimed, ObjectsOK
  <2>2. ASSUME NEW d \in Drainer, RemoveFails(d) \/ ForgetRow(d) PROVE ObjectsOK'
    <3>1. outbox' \in [Key -> RowState]
      BY <1>0, <2>2, Words DEF RemoveFails, ForgetRow, ObjectsOK
    <3> QED BY <1>0, <2>2, <3>1 DEF RemoveFails, ForgetRow, ObjectsOK
  <2>3. ASSUME NEW d \in Drainer, DrainNext(d) \/ LookForReferences(d) \/ RemoveObject(d) \/ DrainCrash(d)
        PROVE  ObjectsOK'
    BY <1>0, <2>3 DEF DrainNext, LookForReferences, RemoveObject, DrainCrash, ObjectsOK
  <2>4. ASSUME NEW k \in Key, ClaimTimesOut(k) \/ ReservationDue(k) PROVE ObjectsOK'
    <3>1. outbox' \in [Key -> RowState]
      BY <1>0, <2>4, Words DEF ClaimTimesOut, ReservationDue, ObjectsOK
    <3> QED BY <1>0, <2>4, <3>1 DEF ClaimTimesOut, ReservationDue, ObjectsOK
  <2> QED BY <2>1, <2>2, <2>3, <2>4 DEF ObjectStep, DrainStep
<1>4. TypeOK'
  BY <1>1, <1>2, <1>3 DEF TypeInv, TypeOK, ObjectsOK
<1>5. Wired'
  BY <1>1, <1>2 DEF TypeInv, Wired, DrainKnows
<1>6. Delivered' /\ Adding'
  BY <1>1 DEF TypeInv, Delivered, Adding
<1> QED BY <1>4, <1>5, <1>6 DEF TypeInv

-----------------------------------------------------------------------------
(***************************************************************************)
(* Next, by what the proofs treat alike.                                   *)
(***************************************************************************)
LEMMA NextCases ==
  ASSUME Next
  PROVE  \/ \E w \in Worker : RunStep(w) \/ Finish(w) \/ \E x \in Exec : Deliver(w, x)
         \/ \E w \in Worker : WorkerCrash(w) \/ LockLost(w) \/ Heartbeat(w)
         \/ \E p \in Proc : EnqueueStep(p) \/ AddFails(p)
         \/ \E w \in Worker : RequeuePending(w) \/ RecoverStale(w)
         \/ \E x \in Exec : StallRecovered(x) \/ RedisLoses(x)
         \/ \E u \in Upload : GrowsStale(u)
         \/ \E r \in Request : RequestArrives(r) \/ RemoveCancelled(r) \/ RequestCrash(r)
         \/ \E u \in Upload : PruneUpload(u) \/ \E c \in Chunk : PutChunk(u, c)
         \/ ObjectStep
<1>1. CASE Faults \/ Time
  BY <1>1 DEF Faults, Time, RunStep, ObjectStep
<1>2. CASE (\E d \in Drainer : DrainStep(d)) \/ \E u \in Upload, c \in Chunk : PutChunk(u, c)
  BY <1>2 DEF ObjectStep
<1>3. CASE \E w \in Worker : ImportStep(w)
  BY <1>3 DEF ImportStep, RunStep
<1>4. CASE \E w \in Worker : RecoveryStep(w)
  BY <1>4 DEF RecoveryStep, Proc
<1>5. CASE \E r \in Request : RequestArrives(r) \/ RequestStep(r)
  BY <1>5 DEF RequestStep, Proc
<1> QED BY <1>1, <1>2, <1>3, <1>4, <1>5 DEF Next

LEMMA TypeStep ==
  ASSUME TypeInv, Next
  PROVE  TypeInv'
BY NextCases, RunType, FinishType, DeliverType, WorkerFaultType, EnqueueType, PassType, QueueType,
   StaleType, RequestType, UploadType, ObjectType

LEMMA TypeStutter ==
  ASSUME TypeInv, UNCHANGED vars
  PROVE  TypeInv'
BY DEF TypeInv, TypeOK, Wired, Delivered, Adding, vars

LEMMA TypeAlways == Spec => []TypeInv
<1>1. TypeInv /\ [Next]_vars => TypeInv'
  BY TypeStep, TypeStutter
<1> QED BY InitType, <1>1, PTL DEF Spec

\* Every table, queue and program counter keeps its type, whoever acts on it and
\* whatever fails: no run, enqueuer or drain pass acts on a row it does not know.
THEOREM TypeCorrect == Spec => []TypeOK
<1>1. TypeInv => TypeOK
  BY DEF TypeInv
<1> QED BY TypeAlways, <1>1, PTL

-----------------------------------------------------------------------------
(***************************************************************************)
(* The fence.  A row names one execution.  One that the row names is the   *)
(* only one inside the try or catch block under that identifier, and finds *)
(* the row "processing" until it has committed; one that it does not name  *)
(* can no longer write.  The invariants say so for the program counter of  *)
(* every execution, with what the statuses of upload and job say of each   *)
(* other.                                                                  *)
(***************************************************************************)

\* Where an execution that its row names finds the row "processing".
Working == {"check", "read", "admit", "reserve", "put", "recheck", "publish", "fail", "fail_job", "retry"}

Inside == Working \cup {"cleanup", "abandon", "judge", "drop_rows", "drop_files"}

Inner(x) == x.pc \in Inside

Shut(s) == s \notin {"uploading", "queued"}

\* What an upload's status, its job and the book say of each other.
RowFacts(s, r, n) ==
  /\ (r.cancel => r.status = "cancelled")
  /\ (s = "uploading" => r.status = "absent")
  /\ (r.status = "absent" => s \in {"uploading", "cancelled", "expired"})
  /\ n \in {0, 1} /\ (n = 1 <=> r.status = "done")
  /\ (n = 1 => s \notin {"uploading", "queued", "failed"})
  /\ (s = "imported" => n = 1)
  /\ (r.status = "cancelled" => s \in {"cancelled", "expired"})
  /\ (r.status = "failed" => s \in {"failed", "cancelled", "expired"})

RowsOK ==
  \A u \in Upload : /\ RowFacts(session[u], job[u], landed[u])
                    /\ (session[u] = "uploading" => files[u])

HolderFacts(x, r) ==
  r.active = x.exec => /\ r.status \in {"processing", "done"}
                       /\ (x.pc \in Working => r.status = "processing")

LateFacts(x, s, r) ==
  /\ r.status # "absent"
  /\ (x.pc \in {"fail_job", "cleanup"} => Shut(s))
  /\ (s = "expired" => r.status \notin {"done", "cancelled"})

Fenced ==
  \A w \in Worker : Inner(work[w]) =>
    /\ HolderFacts(work[w], job[work[w].upload])
    /\ LateFacts(work[w], session[work[w].upload], job[work[w].upload])

\* Two executions of one delivery, the first of which lost its lock.
Sole ==
  \A w, v \in Worker : w # v /\ Inner(work[w]) /\ Inner(work[v]) /\ work[w].exec = work[v].exec =>
    job[work[w].upload].active # work[w].exec

FenceInv == TypeInv /\ RowsOK /\ Fenced /\ Sole

LEMMA InsideWords ==
  /\ \A pc \in Inside : pc # "idle" /\ pc # "claim" /\ pc # "return" /\ pc # "throw"
  /\ \A pc \in Working : pc \in Inside /\ pc # "cleanup"
  /\ Working = {"check", "read", "admit", "reserve", "put", "recheck", "publish", "fail", "fail_job", "retry"}
  /\ {"cleanup", "abandon", "judge", "drop_rows", "drop_files"} \subseteq Inside
  /\ {"cleanup", "abandon", "judge", "drop_rows", "drop_files"} \cap Working = {}
BY DEF Working, Inside

\* An execution inside its blocks knows its delivery.
LEMMA InnerFacts ==
  ASSUME TypeInv, NEW w \in Worker, Inner(work[w])
  PROVE  work[w].pc # "idle" /\ work[w].upload \in Upload /\ work[w].exec \in Exec /\ work[w].exec # None
<1>1. work[w].pc # "idle"
  BY InsideWords DEF Inner
<1> QED BY <1>1, ImportAssumption DEF TypeInv, Wired, KnowsDelivery

LEMMA InitFence == Init => FenceInv
<1> SUFFICES ASSUME Init PROVE FenceInv
  OBVIOUS
<1>1. RowsOK
  BY DEF Init, RowsOK, RowFacts, NoJob
<1>2. \A w \in Worker : ~Inner(work[w])
  BY InsideWords DEF Init, NoExecution, Inner
<1> QED BY <1>1, <1>2, InitType DEF FenceInv, Fenced, Sole

-----------------------------------------------------------------------------
(***************************************************************************)
(* Steps that change neither the row of an upload nor where its executions *)
(* stand, as far as the fence tells.                                       *)
(***************************************************************************)
\* The row of an upload is as it was, but for its heartbeat.
Same(u) ==
  /\ session'[u] = session[u] /\ landed'[u] = landed[u]
  /\ job'[u].status = job[u].status /\ job'[u].active = job[u].active /\ job'[u].cancel = job[u].cancel

\* An execution is where it was, or goes on to where less is asked of it.
Eases(w) ==
  /\ Inner(work[w])
  /\ work'[w].exec = work[w].exec /\ work'[w].upload = work[w].upload
  /\ \/ work'[w].pc \in Working => work[w].pc \in Working
     \/ job[work[w].upload].status = "processing"
  /\ work'[w].pc \in {"fail_job", "cleanup"} => work'[w].pc = work[w].pc

\* An execution whose row names another one, or none.
Refused(w) ==
  /\ Inner(work[w])
  /\ work'[w].exec = work[w].exec /\ work'[w].upload = work[w].upload
  /\ job'[work[w].upload].active # work[w].exec
  /\ LateFacts(work'[w], session'[work[w].upload], job'[work[w].upload])

\* Every execution eases on, or its row is no longer its own.
LEMMA FenceKept ==
  ASSUME FenceInv, TypeInv', RowsOK',
         \A w \in Worker : Inner(work'[w]) => (Eases(w) /\ Same(work[w].upload)) \/ Refused(w)
  PROVE  FenceInv'
<1>1. ASSUME NEW w \in Worker, Inner(work'[w])
      PROVE  /\ HolderFacts(work'[w], job'[work'[w].upload])
             /\ LateFacts(work'[w], session'[work'[w].upload], job'[work'[w].upload])
             /\ Inner(work[w]) /\ work'[w].exec = work[w].exec /\ work'[w].upload = work[w].upload
             /\ \/ job'[work[w].upload].active = job[work[w].upload].active
                \/ job'[work[w].upload].active # work[w].exec
  <2>1. CASE Refused(w)
    BY <2>1 DEF Refused, HolderFacts
  <2>2. CASE Eases(w) /\ Same(work[w].upload)
    <3>1. /\ HolderFacts(work[w], job[work[w].upload])
          /\ LateFacts(work[w], session[work[w].upload], job[work[w].upload])
      BY <2>2 DEF FenceInv, Fenced, Eases
    <3>2. HolderFacts(work'[w], job'[work'[w].upload])
      BY <2>2, <3>1 DEF HolderFacts, Eases, Same
    <3>3. LateFacts(work'[w], session'[work'[w].upload], job'[work'[w].upload])
      BY <2>2, <3>1 DEF LateFacts, Eases, Same
    <3> QED BY <2>2, <3>2, <3>3 DEF Eases, Same
  <2> QED BY <1>1, <2>1, <2>2
<1>2. Fenced'
  BY <1>1 DEF Fenced
<1>3. Sole'
  <2> SUFFICES ASSUME NEW w \in Worker, NEW v \in Worker, w # v, Inner(work'[w]), Inner(work'[v]),
                      work'[w].exec = work'[v].exec
               PROVE  job'[work'[w].upload].active # work'[w].exec
    BY DEF Sole
  <2>1. Inner(work[w]) /\ Inner(work[v]) /\ work[w].exec = work[v].exec
    BY <1>1
  <2>2. job[work[w].upload].active # work[w].exec
    BY <2>1 DEF FenceInv, Sole
  <2> QED BY <1>1, <2>2
<1> QED BY <1>2, <1>3 DEF FenceInv

LEMMA RowsKept ==
  ASSUME FenceInv, \A u \in Upload : Same(u) /\ (session[u] = "uploading" => files'[u])
  PROVE  RowsOK'
BY DEF FenceInv, RowsOK, RowFacts, Same

LEMMA QuietFence ==
  ASSUME FenceInv, TypeInv', \A u \in Upload : Same(u) /\ (session[u] = "uploading" => files'[u]),
         \A w \in Worker : Inner(work'[w]) => Eases(w)
  PROVE  FenceInv'
<1>1. \A w \in Worker : Inner(work[w]) => work[w].upload \in Upload
  BY InnerFacts DEF FenceInv
<1>2. \A w \in Worker : Inner(work'[w]) => (Eases(w) /\ Same(work[w].upload)) \/ Refused(w)
  BY <1>1 DEF Eases
<1>3. RowsOK'
  BY RowsKept
<1> QED BY <1>2, <1>3, FenceKept

\* Steps that leave the tables of uploads and the executions alone.
LEMMA IdleFence ==
  ASSUME FenceInv, TypeInv', UNCHANGED <<session, landed, job, work>>,
         \A u \in Upload : session[u] = "uploading" => files'[u]
  PROVE  FenceInv'
<1>1. \A u \in Upload : Same(u)
  BY DEF Same
<1>2. \A w \in Worker : Inner(work'[w]) => Eases(w)
  BY DEF Eases
<1> QED BY <1>1, <1>2, QuietFence


-----------------------------------------------------------------------------
(***************************************************************************)
(* The steps of a run.                                                     *)
(***************************************************************************)
\* Where To and Throw take an execution.
Stands(w, pc, why) ==
  /\ work'[w].pc = pc /\ work'[w].why = why
  /\ work'[w].exec = work[w].exec /\ work'[w].upload = work[w].upload
  /\ \A v \in Worker : v # w => work'[v] = work[v]

LEMMA GoesTo ==
  ASSUME TypeInv, NEW w \in Worker, NEW pc
  PROVE  /\ To(w, pc) => Stands(w, pc, work[w].why)
         /\ \A why : Throw(w, why) => Stands(w, "abandon", why)
         /\ work' = [work EXCEPT ![w] = [@ EXCEPT !.pc = pc, !.wrote = TRUE]] => Stands(w, pc, work[w].why)
<1> DEFINE x == work[w]
<1>1. x \in Execution /\ work \in [Worker -> Execution]
  BY DEF TypeInv, TypeOK
<1>2. ASSUME NEW y, work' = [work EXCEPT ![w] = y] PROVE work'[w] = y /\ \A v \in Worker : v # w => work'[v] = work[v]
  BY <1>1, <1>2
<1>3. ASSUME To(w, pc) PROVE Stands(w, pc, work[w].why)
  <2> DEFINE y == [x EXCEPT !.pc = pc]
  <2>1. y.exec = x.exec /\ y.upload = x.upload /\ y.pc = pc /\ y.why = x.why
    BY <1>1 DEF Execution
  <2>2. work' = [work EXCEPT ![w] = y]
    BY <1>3 DEF To
  <2> HIDE DEF y
  <2> QED BY <1>2, <2>1, <2>2 DEF Stands
<1>4. ASSUME NEW why, Throw(w, why) PROVE Stands(w, "abandon", why)
  <2> DEFINE y == [x EXCEPT !.pc = "abandon", !.why = why]
  <2>1. y.exec = x.exec /\ y.upload = x.upload /\ y.pc = "abandon" /\ y.why = why
    BY <1>1 DEF Execution
  <2>2. work' = [work EXCEPT ![w] = y]
    BY <1>4 DEF Throw
  <2> HIDE DEF y
  <2> QED BY <1>2, <2>1, <2>2 DEF Stands
<1>5. ASSUME work' = [work EXCEPT ![w] = [@ EXCEPT !.pc = pc, !.wrote = TRUE]]
      PROVE  Stands(w, pc, work[w].why)
  <2> DEFINE y == [x EXCEPT !.pc = pc, !.wrote = TRUE]
  <2>1. y.exec = x.exec /\ y.upload = x.upload /\ y.pc = pc /\ y.why = x.why
    BY <1>1 DEF Execution
  <2>2. work' = [work EXCEPT ![w] = y]
    BY <1>5
  <2> HIDE DEF y
  <2> QED BY <1>2, <2>1, <2>2 DEF Stands
<1> QED BY <1>3, <1>4, <1>5

LEMMA RunFacts ==
  ASSUME TypeInv, NEW w \in Worker, RunStep(w)
  PROVE  /\ Uploaded(w) = work[w].upload /\ Uploaded(w) \in Upload /\ work[w].exec \in Exec
         /\ job[Uploaded(w)] \in JobRow
         /\ (work[w].pc # "claim" => Inner(work[w]))
<1>1. work[w].pc # "idle"
  BY RunMoves
<1>2. Uploaded(w) = work[w].upload /\ Uploaded(w) \in Upload /\ work[w].exec \in Exec
  BY <1>1 DEF TypeInv, Wired, KnowsDelivery, Uploaded
<1>3. work[w].pc # "claim" => Inner(work[w])
  BY DEF RunStep, ClaimImport, ClaimRefused, Check, AfterCheck, ReadUpload, UploadUnreadable,
     ReserveObjects, PutObjects, Publish, PublishRefused, RemoveDirectory, AbandonObjects, Judge,
     DropChunks, FailSession, FailJob, Retry, ImportFails, PutAnswerLost, HeartbeatAborts,
     Inner, Inside, Working
<1> QED BY <1>2, <1>3 DEF TypeInv, TypeOK

\* Steps of a run that write no status: they look, throw, put or delete.
LooksOn(w) ==
  \/ ClaimRefused(w) \/ Check(w) \/ (ReadUpload(w) /\ ~Owns(w)) \/ UploadUnreadable(w)
  \/ ReserveObjects(w) \/ PutObjects(w) \/ PublishRefused(w) \/ RemoveDirectory(w)
  \/ AbandonObjects(w) \/ Judge(w) \/ DropChunks(w) \/ ImportFails(w) \/ PutAnswerLost(w)
  \/ HeartbeatAborts(w)

\* From one place to another, and the error it goes on with.
LEMMA LooksTo ==
  ASSUME TypeInv, NEW w \in Worker, LooksOn(w)
  PROVE  \/ Stands(w, "return", work[w].why)
         \/ work[w].pc \in Working /\ \E pc \in {"read", "reserve", "publish", "put", "recheck"} :
              Stands(w, pc, work[w].why)
         \/ work[w].pc \in Working /\ \E why \in Whys : Stands(w, "abandon", why) /\ (why = "cancelled" =>
              (Check(w) /\ Stopped(w) = "cancelled") \/ PublishRefused(w) \/ (ReadUpload(w) /\ ~Owns(w)))
         \/ work[w].pc = "abandon" /\ Stands(w, "judge", work[w].why)
         \/ work[w].pc = "abandon" /\ work[w].why = "cancelled" /\ Stands(w, "drop_rows", work[w].why)
         \/ Judge(w) /\ Stopped(w) = "cancelled" /\ Stands(w, "drop_rows", work[w].why)
         \/ Judge(w) /\ Stopped(w) = "none" /\ \E pc \in {"fail", "retry"} : Stands(w, pc, work[w].why)
         \/ work[w].pc = "drop_rows" /\ Stands(w, "drop_files", work[w].why)
<1> DEFINE goal ==
         \/ Stands(w, "return", work[w].why)
         \/ work[w].pc \in Working /\ \E pc \in {"read", "reserve", "publish", "put", "recheck"} :
              Stands(w, pc, work[w].why)
         \/ work[w].pc \in Working /\ \E why \in Whys : Stands(w, "abandon", why) /\ (why = "cancelled" =>
              (Check(w) /\ Stopped(w) = "cancelled") \/ PublishRefused(w) \/ (ReadUpload(w) /\ ~Owns(w)))
         \/ work[w].pc = "abandon" /\ Stands(w, "judge", work[w].why)
         \/ work[w].pc = "abandon" /\ work[w].why = "cancelled" /\ Stands(w, "drop_rows", work[w].why)
         \/ Judge(w) /\ Stopped(w) = "cancelled" /\ Stands(w, "drop_rows", work[w].why)
         \/ Judge(w) /\ Stopped(w) = "none" /\ \E pc \in {"fail", "retry"} : Stands(w, pc, work[w].why)
         \/ work[w].pc = "drop_rows" /\ Stands(w, "drop_files", work[w].why)
<1>0. /\ \A pc \in {"check", "read", "admit", "reserve", "put", "recheck", "publish"} : pc \in Working
      /\ \A why \in {"none", "error", "cancelled", "superseded"} : why \in Whys
      /\ Stopped(w) \in Whys
  BY StoppedWords DEF Working, Whys
<1>1. CASE ClaimRefused(w) \/ RemoveDirectory(w)
  <2>1. To(w, "return")
    BY <1>1 DEF ClaimRefused, RemoveDirectory
  <2>2. goal
    BY <2>1, GoesTo
  <2> QED BY <2>2
<1>2. CASE Check(w)
  <2>1. work[w].pc \in {"check", "admit", "recheck"}
    BY <1>2 DEF Check, AfterCheck
  <2>2. CASE Stopped(w) = "none"
    <3>1. \E pc \in {"read", "reserve", "publish"} : To(w, pc)
      BY <1>2, <2>1, <2>2 DEF Check, AfterCheck
    <3>2. \E pc \in {"read", "reserve", "publish"} : Stands(w, pc, work[w].why)
      BY <3>1, GoesTo
    <3>3. goal
      BY <1>0, <2>1, <3>2
    <3> QED BY <3>3
  <2>3. CASE Stopped(w) # "none"
    <3>1. Stands(w, "abandon", Stopped(w))
      <4>1. Throw(w, Stopped(w))
        BY <1>2, <2>3 DEF Check
      <4> QED BY <4>1, GoesTo
    <3>2. goal
      BY <1>0, <1>2, <2>1, <3>1
    <3> QED BY <3>2
  <2> QED BY <2>2, <2>3
<1>3. CASE (ReadUpload(w) /\ ~Owns(w)) \/ PublishRefused(w)
  <2>1. Throw(w, "cancelled") /\ work[w].pc \in {"read", "publish"}
    BY <1>3 DEF ReadUpload, PublishRefused
  <2>2. Stands(w, "abandon", "cancelled")
    BY <2>1, GoesTo
  <2>3. goal
    BY <1>0, <1>3, <2>1, <2>2
  <2> QED BY <2>3
<1>4. CASE UploadUnreadable(w) \/ ImportFails(w) \/ PutAnswerLost(w) \/ HeartbeatAborts(w)
  <2>1. Throw(w, "error") /\ work[w].pc \in {"read", "put", "publish"}
    BY <1>4 DEF UploadUnreadable, ImportFails, PutAnswerLost, HeartbeatAborts
  <2>2. Stands(w, "abandon", "error")
    BY <2>1, GoesTo
  <2>3. goal
    BY <1>0, <2>1, <2>2
  <2> QED BY <2>3
<1>5. CASE ReserveObjects(w) \/ PutObjects(w)
  <2>1. work[w].pc \in {"reserve", "put"}
    BY <1>5 DEF ReserveObjects, PutObjects
  <2>2. Stands(w, "put", work[w].why) \/ Stands(w, "recheck", work[w].why)
    BY <1>5, GoesTo DEF ReserveObjects, PutObjects
  <2>3. goal
    BY <1>0, <2>1, <2>2
  <2> QED BY <2>3
<1>6. CASE AbandonObjects(w)
  <2>1. work[w].pc = "abandon" /\ To(w, AfterAbandon(work[w].why))
    BY <1>6 DEF AbandonObjects
  <2>2. \/ work[w].why = "cancelled" /\ To(w, "drop_rows")
        \/ To(w, "return") \/ To(w, "judge")
    BY <2>1 DEF AfterAbandon
  <2>3. goal
    BY <2>1, <2>2, GoesTo
  <2> QED BY <2>3
<1>7. CASE Judge(w)
  <2>1. To(w, CASE Stopped(w) = "cancelled" -> "drop_rows"
             [] Stopped(w) = "superseded" -> "return"
             [] OTHER -> IF FinalTry(w) THEN "fail" ELSE "retry")
    BY <1>7 DEF Judge
  <2>2. \/ Stopped(w) = "cancelled" /\ To(w, "drop_rows")
        \/ To(w, "return")
        \/ Stopped(w) = "none" /\ \E pc \in {"fail", "retry"} : To(w, pc)
    <3>1. Stopped(w) \in {"none", "cancelled", "superseded"}
      BY DEF Stopped
    <3> HIDE DEF goal
    <3> QED BY <2>1, <3>1
  <2>3. \/ Stopped(w) = "cancelled" /\ Stands(w, "drop_rows", work[w].why)
        \/ Stands(w, "return", work[w].why)
        \/ Stopped(w) = "none" /\ \E pc \in {"fail", "retry"} : Stands(w, pc, work[w].why)
    BY <2>2, GoesTo
  <2>4. goal
    BY <1>7, <2>3
  <2> QED BY <2>4
<1>8. CASE DropChunks(w)
  <2>1. work[w].pc = "drop_rows" /\ To(w, "drop_files")
    BY <1>8 DEF DropChunks
  <2>2. goal
    BY <2>1, GoesTo
  <2> QED BY <2>2
<1> QED BY <1>1, <1>2, <1>3, <1>4, <1>5, <1>6, <1>7, <1>8 DEF LooksOn


LEMMA LooksFence ==
  ASSUME FenceInv, TypeInv', NEW w \in Worker, LooksOn(w)
  PROVE  FenceInv'
<1>0. RunStep(w) /\ TypeInv
  BY DEF LooksOn, RunStep, FenceInv
<1>1. UNCHANGED <<session, landed, job>>
  BY DEF LooksOn, ClaimRefused, Check, ReadUpload, UploadUnreadable, ReserveObjects, PutObjects,
     PublishRefused, RemoveDirectory, AbandonObjects, Judge, DropChunks, ImportFails, PutAnswerLost,
     HeartbeatAborts
<1>2. \A u \in Upload : Same(u)
  BY <1>1 DEF Same
<1>3. \A u \in Upload : session[u] = "uploading" => files'[u]
  <2>1. CASE RemoveDirectory(w)
    <3>1. work[w].pc # "claim" /\ Uploaded(w) = work[w].upload /\ Inner(work[w]) /\ Uploaded(w) \in Upload
      BY <1>0, <2>1, RunFacts DEF RemoveDirectory
    <3>2. session[Uploaded(w)] # "uploading"
      BY <3>1 DEF FenceInv, Fenced, LateFacts, RowsOK, RowFacts
    <3>3. files' = [files EXCEPT ![Uploaded(w)] = FALSE] /\ files \in [Upload -> BOOLEAN]
      BY <1>0, <2>1 DEF RemoveDirectory, TypeInv, TypeOK
    <3>4. \A u \in Upload : session[u] = "uploading" => files[u]
      BY DEF FenceInv, RowsOK
    <3> QED BY <3>2, <3>3, <3>4
  <2>2. CASE ~RemoveDirectory(w)
    <3>1. files' = files
      BY <2>2 DEF LooksOn, ClaimRefused, Check, ReadUpload, UploadUnreadable, ReserveObjects, PutObjects,
         PublishRefused, AbandonObjects, Judge, DropChunks, ImportFails, PutAnswerLost, HeartbeatAborts
    <3> QED BY <3>1 DEF FenceInv, RowsOK
  <2> QED BY <2>1, <2>2
<1>4. ASSUME NEW v \in Worker, Inner(work'[v]) PROVE Eases(v)
  <2>1. CASE v # w
    <3>1. work'[v] = work[v]
      BY <1>0, <2>1, LooksTo DEF Stands
    <3> QED BY <1>4, <3>1 DEF Eases
  <2>2. CASE v = w
    <3>1. work'[w].pc \notin {"return", "throw", "claim", "idle"}
      BY <1>4, <2>2, InsideWords DEF Inner
    <3>2. Uploaded(w) = work[w].upload
      BY <1>0, RunFacts
    <3>3. /\ work'[w].exec = work[w].exec /\ work'[w].upload = work[w].upload
          /\ \/ work'[w].pc \in Working => work[w].pc \in Working
             \/ job[work[w].upload].status = "processing"
          /\ work'[w].pc \notin {"fail_job", "cleanup"}
      <4>1. Stopped(w) = "none" => job[work[w].upload].status = "processing"
        BY <3>2, StoppedWords
      <4>2. \A pc \in {"abandon", "judge", "drop_rows", "drop_files"} : pc \notin Working
        BY InsideWords
      <4> QED BY <1>0, <3>1, <4>1, <4>2, LooksTo DEF Stands
    <3>4. Inner(work[w])
      <4>1. work[w].pc # "claim"
        BY <1>0, <3>1, LooksTo DEF Stands, Judge, Working
      <4> QED BY <1>0, <4>1, RunFacts
    <3> QED BY <2>2, <3>3, <3>4 DEF Eases
  <2> QED BY <2>1, <2>2
<1> QED BY <1>2, <1>3, <1>4, QuietFence

\* The row that a run writes with its status, and what becomes of the other rows.
Writes(w, s) ==
  /\ job'[Uploaded(w)] \in JobRow /\ job'[Uploaded(w)].status = s
  /\ job'[Uploaded(w)].active = job[Uploaded(w)].active
  /\ job'[Uploaded(w)].cancel = job[Uploaded(w)].cancel
  /\ job'[Uploaded(w)].stale = FALSE
  /\ \A u \in Upload : u # Uploaded(w) => job'[u] = job[u]

LEMMA SetJobWrites ==
  ASSUME TypeInv, NEW w \in Worker, NEW s \in JobStatus, Uploaded(w) \in Upload,
         SetJob(w, [job[Uploaded(w)] EXCEPT !.status = s])
  PROVE  Writes(w, s)
<1>1. job[Uploaded(w)] \in JobRow /\ job \in [Upload -> JobRow]
  BY DEF TypeInv, TypeOK
<1>2. ASSUME NEW r \in JobRow
      PROVE  /\ Touched([r EXCEPT !.status = s]) \in JobRow
             /\ Touched([r EXCEPT !.status = s]).status = s
             /\ Touched([r EXCEPT !.status = s]).active = r.active
             /\ Touched([r EXCEPT !.status = s]).cancel = r.cancel
             /\ Touched([r EXCEPT !.status = s]).stale = FALSE
  BY DEF Touched, JobRow
<1> DEFINE row == Touched([job[Uploaded(w)] EXCEPT !.status = s])
<1>3. /\ row \in JobRow /\ row.status = s /\ row.active = job[Uploaded(w)].active
      /\ row.cancel = job[Uploaded(w)].cancel /\ row.stale = FALSE
  BY <1>1, <1>2
<1>4. job' = [job EXCEPT ![Uploaded(w)] = row]
  BY DEF SetJob
<1> HIDE DEF row
<1> QED BY <1>1, <1>3, <1>4 DEF Writes

\* An execution that owns the row of its upload finds it processing.
LEMMA OwnerFacts ==
  ASSUME FenceInv, NEW w \in Worker, Inner(work[w]), work[w].pc \in Working, Owns(w)
  PROVE  /\ Uploaded(w) = work[w].upload /\ job[work[w].upload].status = "processing"
         /\ job[work[w].upload].active = work[w].exec
         /\ \A v \in Worker : v # w /\ Inner(work[v]) => work[v].exec # work[w].exec
<1>1. Uploaded(w) = work[w].upload /\ job[work[w].upload].active = work[w].exec
  BY DEF Owns, Uploaded
<1>2. job[work[w].upload].status = "processing"
  BY <1>1 DEF FenceInv, Fenced, HolderFacts
<1>3. \A v \in Worker : v # w /\ Inner(work[v]) => work[v].exec # work[w].exec
  BY <1>1 DEF FenceInv, Sole
<1> QED BY <1>1, <1>2, <1>3

\* The other executions of an upload are not named by its row, which may become
\* anything an execution may meet.
LEMMA OthersRefused ==
  ASSUME FenceInv, NEW w \in Worker, RunStep(w), job[Uploaded(w)].active = work[w].exec,
         \A v \in Worker : v # w /\ Inner(work[v]) => work[v].exec # work[w].exec,
         \A u \in Upload : u # Uploaded(w) => Same(u),
         job'[Uploaded(w)].active = job[Uploaded(w)].active,
         \A v \in Worker : v # w => work'[v] = work[v],
         \A v \in Worker : v # w /\ Inner(work[v]) /\ work[v].upload = Uploaded(w) =>
           LateFacts(work[v], session'[Uploaded(w)], job'[Uploaded(w)])
  PROVE  \A v \in Worker : v # w /\ Inner(work'[v]) => (Eases(v) /\ Same(work[v].upload)) \/ Refused(v)
<1> SUFFICES ASSUME NEW v \in Worker, v # w, Inner(work'[v])
             PROVE  (Eases(v) /\ Same(work[v].upload)) \/ Refused(v)
  OBVIOUS
<1>1. work'[v] = work[v] /\ Inner(work[v]) /\ work[v].upload \in Upload
  BY InnerFacts DEF FenceInv
<1>2. CASE work[v].upload = Uploaded(w)
  BY <1>1, <1>2 DEF Refused
<1>3. CASE work[v].upload # Uploaded(w)
  BY <1>1, <1>3 DEF Eases
<1> QED BY <1>2, <1>3


\* One execution enters, or writes, and no other has its identifier.
LEMMA FenceByOne ==
  ASSUME FenceInv, TypeInv', RowsOK', NEW w \in Worker,
         \A v \in Worker : v # w /\ Inner(work'[v]) => (Eases(v) /\ Same(work[v].upload)) \/ Refused(v),
         work'[w].exec = work[w].exec, work'[w].upload = work[w].upload,
         \A v \in Worker : v # w /\ Inner(work[v]) => work[v].exec # work[w].exec,
         Inner(work'[w]) => /\ HolderFacts(work'[w], job'[work[w].upload])
                            /\ LateFacts(work'[w], session'[work[w].upload], job'[work[w].upload])
  PROVE  FenceInv'
<1>1. ASSUME NEW v \in Worker, v # w, Inner(work'[v])
      PROVE  /\ HolderFacts(work'[v], job'[work'[v].upload])
             /\ LateFacts(work'[v], session'[work'[v].upload], job'[work'[v].upload])
             /\ Inner(work[v]) /\ work'[v].exec = work[v].exec /\ work'[v].upload = work[v].upload
             /\ \/ job'[work[v].upload].active = job[work[v].upload].active
                \/ job'[work[v].upload].active # work[v].exec
  <2>1. CASE Refused(v)
    BY <2>1 DEF Refused, HolderFacts
  <2>2. CASE Eases(v) /\ Same(work[v].upload)
    <3>1. /\ HolderFacts(work[v], job[work[v].upload])
          /\ LateFacts(work[v], session[work[v].upload], job[work[v].upload])
      BY <2>2 DEF FenceInv, Fenced, Eases
    <3>2. HolderFacts(work'[v], job'[work'[v].upload])
      BY <2>2, <3>1 DEF HolderFacts, Eases, Same
    <3>3. LateFacts(work'[v], session'[work'[v].upload], job'[work'[v].upload])
      BY <2>2, <3>1 DEF LateFacts, Eases, Same
    <3> QED BY <2>2, <3>2, <3>3 DEF Eases, Same
  <2> QED BY <1>1, <2>1, <2>2
<1>2. Fenced'
  BY <1>1 DEF Fenced
<1>3. Sole'
  <2> SUFFICES ASSUME NEW z \in Worker, NEW v \in Worker, z # v, Inner(work'[z]), Inner(work'[v]),
                      work'[z].exec = work'[v].exec
               PROVE  job'[work'[z].upload].active # work'[z].exec
    BY DEF Sole
  <2>1. z # w /\ v # w
    BY <1>1
  <2>2. Inner(work[z]) /\ Inner(work[v]) /\ work[z].exec = work[v].exec
    BY <1>1, <2>1
  <2>3. job[work[z].upload].active # work[z].exec
    BY <2>2 DEF FenceInv, Sole
  <2> QED BY <1>1, <2>1, <2>3
<1> QED BY <1>2, <1>3 DEF FenceInv

LEMMA ClaimFence ==
  ASSUME FenceInv, TypeInv', NEW w \in Worker, ClaimImport(w)
  PROVE  FenceInv'
<1> DEFINE u == Uploaded(w)
<1>0. RunStep(w) /\ TypeInv
  BY DEF RunStep, FenceInv
<1>1. /\ u = work[w].upload /\ u \in Upload /\ work[w].pc = "claim"
      /\ job[u].status = "queued" /\ job[u].active = work[w].exec /\ ~job[u].cancel
      /\ UNCHANGED <<session, files, landed>>
  BY <1>0, RunFacts DEF ClaimImport, Claimable, Owns
<1>2. Writes(w, "processing")
  <2>1. "processing" \in JobStatus
    BY Words
  <2> QED BY <1>0, <1>1, <2>1, SetJobWrites DEF ClaimImport
<1>3. Stands(w, "check", work[w].why)
  BY <1>0, GoesTo DEF ClaimImport
<1>4. \A v \in Worker : v # w /\ Inner(work[v]) => work[v].exec # work[w].exec
  <2> SUFFICES ASSUME NEW v \in Worker, v # w, Inner(work[v]), work[v].exec = work[w].exec PROVE FALSE
    OBVIOUS
  <2>1. work[v].exec \in Exec
    BY <1>0, InnerFacts
  <2>2. work[v].upload = u
    BY <1>0, <1>1, <2>1 DEF TypeInv, Delivered
  <2> QED BY <1>1, <2>2 DEF FenceInv, Fenced, HolderFacts
<1>5. \A z \in Upload : z # u => Same(z)
  BY <1>1, <1>2 DEF Same, Writes
<1>6. /\ RowFacts(session[u], job[u], landed[u])
      /\ \A z \in Upload : RowFacts(session[z], job[z], landed[z]) /\ (session[z] = "uploading" => files[z])
  BY <1>1 DEF FenceInv, RowsOK
<1>7. RowFacts(session'[u], job'[u], landed'[u])
  BY <1>1, <1>2, <1>6 DEF RowFacts, Writes
<1>8. RowsOK'
  <2>1. \A z \in Upload : z # u => RowFacts(session'[z], job'[z], landed'[z])
    BY <1>1, <1>2, <1>6 DEF Writes
  <2> QED BY <1>1, <1>6, <1>7, <2>1 DEF RowsOK
<1>9. HolderFacts(work'[w], job'[u]) /\ LateFacts(work'[w], session'[u], job'[u])
  BY <1>2, <1>3 DEF HolderFacts, LateFacts, Writes, Stands
<1>10. \A v \in Worker : v # w /\ Inner(work[v]) /\ work[v].upload = u =>
         LateFacts(work[v], session'[u], job'[u])
  BY <1>1, <1>2 DEF FenceInv, Fenced, LateFacts, Writes
<1> HIDE DEF u
<1>11. \A v \in Worker : v # w /\ Inner(work'[v]) => (Eases(v) /\ Same(work[v].upload)) \/ Refused(v)
  BY <1>0, <1>1, <1>2, <1>3, <1>4, <1>5, <1>10, OthersRefused DEF Writes, Stands, u
<1> QED BY <1>1, <1>3, <1>4, <1>8, <1>9, <1>11, FenceByOne DEF Stands

\* A run that owns its row writes "processing", "failed" or "queued".
LEMMA OwnFence ==
  ASSUME FenceInv, TypeInv', NEW w \in Worker, Owns(w), ReadUpload(w) \/ FailJob(w) \/ Retry(w)
  PROVE  FenceInv'
<1> DEFINE u == Uploaded(w)
<1>0. RunStep(w) /\ TypeInv
  BY DEF RunStep, FenceInv
<1>1. /\ u = work[w].upload /\ u \in Upload /\ Inner(work[w]) /\ work[w].pc \in {"read", "fail_job", "retry"}
      /\ UNCHANGED <<session, files, landed>>
  <2>1. work[w].pc \in {"read", "fail_job", "retry"} /\ UNCHANGED <<session, files, landed>>
    BY DEF ReadUpload, FailJob, Retry
  <2> QED BY <1>0, <2>1, RunFacts
<1>2. /\ job[u].status = "processing" /\ job[u].active = work[w].exec
      /\ \A v \in Worker : v # w /\ Inner(work[v]) => work[v].exec # work[w].exec
  BY <1>1, OwnerFacts DEF Working
<1>3. \/ Writes(w, "processing") /\ Stands(w, "admit", work[w].why)
      \/ Writes(w, "failed") /\ Stands(w, "throw", work[w].why) /\ Shut(session[u])
      \/ Writes(w, "queued") /\ Stands(w, "throw", work[w].why)
  <2>1. CASE ReadUpload(w)
    <3>1. SetJob(w, [job[u] EXCEPT !.status = "processing"]) /\ To(w, "admit")
      BY <2>1 DEF ReadUpload, Progressed
    <3> QED BY <1>0, <1>1, <3>1, SetJobWrites, GoesTo, Words
  <2>2. CASE FailJob(w)
    <3>1. SetJob(w, [job[u] EXCEPT !.status = "failed"]) /\ To(w, "throw") /\ work[w].pc = "fail_job"
      BY <2>2 DEF FailJob
    <3>2. Shut(session[u])
      BY <1>1, <3>1 DEF FenceInv, Fenced, LateFacts
    <3> QED BY <1>0, <1>1, <3>1, <3>2, SetJobWrites, GoesTo, Words
  <2>3. CASE Retry(w)
    <3>1. SetJob(w, [job[u] EXCEPT !.status = "queued"]) /\ To(w, "throw")
      BY <2>3 DEF Retry, RequeueJob
    <3> QED BY <1>0, <1>1, <3>1, SetJobWrites, GoesTo, Words
  <2> QED BY <2>1, <2>2, <2>3
<1>4. /\ job'[u].active = job[u].active /\ job'[u].cancel = job[u].cancel
      /\ job'[u].status \in {"processing", "failed", "queued"}
      /\ (job'[u].status = "failed" => Shut(session[u]))
      /\ \A z \in Upload : z # u => job'[z] = job[z]
  BY <1>3 DEF Writes
<1>5. /\ work'[w].exec = work[w].exec /\ work'[w].upload = work[w].upload
      /\ \A v \in Worker : v # w => work'[v] = work[v]
      /\ (Inner(work'[w]) => job'[u].status = "processing" /\ work'[w].pc = "admit")
  BY <1>3, InsideWords DEF Writes, Stands, Inner
<1>6. \A z \in Upload : z # u => Same(z)
  BY <1>1, <1>4 DEF Same
<1>7. \A z \in Upload : RowFacts(session[z], job[z], landed[z]) /\ (session[z] = "uploading" => files[z])
  BY DEF FenceInv, RowsOK
<1>8. RowFacts(session'[u], job'[u], landed'[u])
  <2>1. session[u] \in SessionStatus
    BY <1>0, <1>1 DEF TypeInv, TypeOK
  <2> QED BY <1>1, <1>2, <1>4, <1>7, <2>1 DEF RowFacts, Shut, SessionStatus
<1>9. RowsOK'
  <2>1. \A z \in Upload : z # u => RowFacts(session'[z], job'[z], landed'[z])
    BY <1>1, <1>4, <1>7
  <2> QED BY <1>1, <1>7, <1>8, <2>1 DEF RowsOK
<1>10. \A v \in Worker : v # w /\ Inner(work[v]) /\ work[v].upload = u =>
         LateFacts(work[v], session'[u], job'[u])
  BY <1>1, <1>4 DEF FenceInv, Fenced, LateFacts
<1>11. Inner(work'[w]) => HolderFacts(work'[w], job'[u]) /\ LateFacts(work'[w], session'[u], job'[u])
  BY <1>5 DEF HolderFacts, LateFacts
<1> HIDE DEF u
<1>12. \A v \in Worker : v # w /\ Inner(work'[v]) => (Eases(v) /\ Same(work[v].upload)) \/ Refused(v)
  BY <1>0, <1>1, <1>2, <1>4, <1>5, <1>6, <1>10, OthersRefused DEF u
<1> QED BY <1>1, <1>2, <1>5, <1>9, <1>11, <1>12, FenceByOne

LEMMA PublishFence ==
  ASSUME FenceInv, TypeInv', NEW w \in Worker, Publish(w)
  PROVE  FenceInv'
<1> DEFINE u == Uploaded(w)
<1>0. RunStep(w) /\ TypeInv
  BY DEF RunStep, FenceInv
<1>1. /\ u = work[w].upload /\ u \in Upload /\ Inner(work[w]) /\ work[w].pc = "publish"
      /\ session[u] = "queued" /\ Owns(w) /\ files' = files
      /\ session' = [session EXCEPT ![u] = "imported"] /\ landed' = [landed EXCEPT ![u] = @ + 1]
  <2>1. /\ work[w].pc = "publish" /\ session[u] = "queued" /\ Owns(w) /\ files' = files
        /\ session' = [session EXCEPT ![u] = "imported"] /\ landed' = [landed EXCEPT ![u] = @ + 1]
    BY DEF Publish, Publishable
  <2> QED BY <1>0, <2>1, RunFacts
<1>2. /\ job[u].status = "processing" /\ job[u].active = work[w].exec
      /\ \A v \in Worker : v # w /\ Inner(work[v]) => work[v].exec # work[w].exec
  BY <1>1, OwnerFacts DEF Working
<1>3. Writes(w, "done")
  <2>1. SetJob(w, [job[u] EXCEPT !.status = "done"])
    BY DEF Publish
  <2> QED BY <1>0, <1>1, <2>1, SetJobWrites, Words
<1>4. Stands(w, "cleanup", work[w].why) \/ Stands(w, "abandon", "error")
  <2>1. To(w, "cleanup") \/ Throw(w, "error")
    BY DEF Publish
  <2> QED BY <1>0, <2>1, GoesTo
<1>5. /\ session'[u] = "imported" /\ landed'[u] = landed[u] + 1
      /\ \A z \in Upload : z # u => session'[z] = session[z] /\ landed'[z] = landed[z]
  BY <1>0, <1>1 DEF TypeInv, TypeOK
<1>6. \A z \in Upload : z # u => Same(z)
  BY <1>3, <1>5 DEF Same, Writes
<1>7. \A z \in Upload : RowFacts(session[z], job[z], landed[z]) /\ (session[z] = "uploading" => files[z])
  BY DEF FenceInv, RowsOK
<1>8. RowFacts(session'[u], job'[u], landed'[u])
  BY <1>1, <1>2, <1>3, <1>5, <1>7 DEF RowFacts, Writes
<1>9. RowsOK'
  <2>1. \A z \in Upload : z # u => RowFacts(session'[z], job'[z], landed'[z])
    BY <1>3, <1>5, <1>7 DEF Writes
  <2> QED BY <1>1, <1>5, <1>7, <1>8, <2>1 DEF RowsOK
<1>10. \A v \in Worker : v # w /\ Inner(work[v]) /\ work[v].upload = u =>
         LateFacts(work[v], session'[u], job'[u])
  BY <1>3, <1>5 DEF LateFacts, Writes, Shut
<1>11. HolderFacts(work'[w], job'[u]) /\ LateFacts(work'[w], session'[u], job'[u])
  BY <1>3, <1>4, <1>5 DEF HolderFacts, LateFacts, Writes, Stands, Working, Shut
<1> HIDE DEF u
<1>12. \A v \in Worker : v # w /\ Inner(work'[v]) => (Eases(v) /\ Same(work[v].upload)) \/ Refused(v)
  BY <1>0, <1>1, <1>2, <1>3, <1>4, <1>6, <1>10, OthersRefused DEF Writes, Stands, u
<1> QED BY <1>1, <1>2, <1>4, <1>9, <1>11, <1>12, FenceByOne DEF Stands

LEMMA FailSessionFence ==
  ASSUME FenceInv, TypeInv', NEW w \in Worker, FailSession(w)
  PROVE  FenceInv'
<1> DEFINE u == Uploaded(w)
<1>0. RunStep(w) /\ TypeInv
  BY DEF RunStep, FenceInv
<1>1. /\ u = work[w].upload /\ u \in Upload /\ Inner(work[w]) /\ work[w].pc = "fail"
      /\ UNCHANGED <<job, files, landed>>
      /\ session' = IF Failable(u) THEN [session EXCEPT ![u] = "failed"] ELSE session
  <2>1. /\ work[w].pc = "fail" /\ UNCHANGED <<job, files, landed>>
        /\ session' = IF Failable(u) THEN [session EXCEPT ![u] = "failed"] ELSE session
    BY DEF FailSession
  <2> QED BY <1>0, <2>1, RunFacts
<1>2. Stands(w, "fail_job", work[w].why)
  BY <1>0, GoesTo DEF FailSession
<1>3. /\ \A z \in Upload : z # u => session'[z] = session[z]
      /\ \/ session'[u] = "failed" /\ session[u] \notin {"imported", "cancelled"}
         \/ session'[u] = session[u] /\ session[u] \in {"imported", "cancelled"}
  BY <1>0, <1>1 DEF TypeInv, TypeOK, Failable
<1>4. LateFacts(work[w], session[u], job[u])
  BY <1>1 DEF FenceInv, Fenced
<1>5. \A z \in Upload : RowFacts(session[z], job[z], landed[z]) /\ (session[z] = "uploading" => files[z])
  BY DEF FenceInv, RowsOK
<1>6. RowFacts(session'[u], job'[u], landed'[u])
  <2>1. session[u] \in SessionStatus
    BY <1>0, <1>1 DEF TypeInv, TypeOK
  <2> QED BY <1>1, <1>3, <1>4, <1>5, <2>1 DEF RowFacts, LateFacts, SessionStatus
<1>7. RowsOK'
  BY <1>1, <1>3, <1>5, <1>6 DEF RowsOK
<1>8. ASSUME NEW v \in Worker, Inner(work'[v])
      PROVE  /\ Inner(work[v]) /\ work'[v].exec = work[v].exec /\ work'[v].upload = work[v].upload
             /\ HolderFacts(work'[v], job'[work'[v].upload])
             /\ LateFacts(work'[v], session'[work'[v].upload], job'[work'[v].upload])
  <2>1. CASE v = w
    <3>1. HolderFacts(work[w], job[u])
      BY <1>1 DEF FenceInv, Fenced
    <3> QED BY <1>1, <1>2, <1>3, <1>4, <2>1, <3>1 DEF HolderFacts, LateFacts, Stands, Working, Shut
  <2>2. CASE v # w
    <3>1. work'[v] = work[v] /\ Inner(work[v]) /\ work[v].upload \in Upload
      BY <1>0, <1>2, <1>8, <2>2, InnerFacts DEF Stands
    <3>2. /\ HolderFacts(work[v], job[work[v].upload])
          /\ LateFacts(work[v], session[work[v].upload], job[work[v].upload])
      BY <3>1 DEF FenceInv, Fenced
    <3> QED BY <1>1, <1>3, <3>1, <3>2 DEF LateFacts, Shut
  <2> QED BY <2>1, <2>2
<1>9. Fenced'
  BY <1>8 DEF Fenced
<1>10. Sole'
  BY <1>1, <1>8 DEF FenceInv, Sole
<1> QED BY <1>7, <1>9, <1>10 DEF FenceInv

LEMMA RunFence ==
  ASSUME FenceInv, TypeInv', NEW w \in Worker, RunStep(w)
  PROVE  FenceInv'
<1>0. TypeInv
  BY DEF FenceInv
<1>1. CASE LooksOn(w)
  BY <1>1, LooksFence
<1>2. CASE ClaimImport(w)
  BY <1>2, ClaimFence
<1>3. CASE Publish(w)
  BY <1>3, PublishFence
<1>4. CASE FailSession(w)
  BY <1>4, FailSessionFence
<1>5. CASE Owns(w) /\ (ReadUpload(w) \/ FailJob(w) \/ Retry(w))
  BY <1>5, OwnFence
<1>6. CASE ~Owns(w) /\ (FailJob(w) \/ Retry(w))
  <2>1. UNCHANGED <<session, files, landed, job>> /\ To(w, "throw")
    BY <1>6 DEF FailJob, Retry, RequeueJob
  <2>2. Stands(w, "throw", work[w].why)
    BY <1>0, <2>1, GoesTo
  <2>3. \A u \in Upload : Same(u) /\ (session[u] = "uploading" => files'[u])
    BY <2>1 DEF Same, FenceInv, RowsOK
  <2>4. \A v \in Worker : Inner(work'[v]) => Eases(v)
    BY <2>2, InsideWords DEF Stands, Eases, Inner
  <2> QED BY <2>3, <2>4, QuietFence
<1> QED BY <1>1, <1>2, <1>3, <1>4, <1>5, <1>6 DEF RunStep, LooksOn


-----------------------------------------------------------------------------
(***************************************************************************)
(* Deliveries, ends, crashes and locks of runs, and the steps that touch   *)
(* neither uploads nor runs.                                               *)
(***************************************************************************)
LEMMA LeavesFence ==
  ASSUME FenceInv, TypeInv', NEW w \in Worker,
         \/ Finish(w) \/ WorkerCrash(w) \/ LockLost(w) \/ Heartbeat(w) \/ \E x \in Exec : Deliver(w, x)
  PROVE  FenceInv'
<1>0. TypeInv /\ work \in [Worker -> Execution] /\ job \in [Upload -> JobRow]
  BY DEF FenceInv, TypeInv, TypeOK
<1>1. UNCHANGED <<session, landed, files>>
  BY DEF Finish, WorkerCrash, LockLost, Heartbeat, Deliver
<1>2. \A u \in Upload : Same(u) /\ (session[u] = "uploading" => files'[u])
  <2>1. CASE job' = job
    BY <1>1, <2>1 DEF Same, FenceInv, RowsOK
  <2>2. CASE Heartbeat(w)
    <3>1. Uploaded(w) \in Upload /\ job' = [job EXCEPT ![Uploaded(w)] = Touched(job[Uploaded(w)])]
      BY <1>0, <2>2 DEF Heartbeat, SetJob, TypeInv, Wired, KnowsDelivery, Uploaded
    <3>2. \A r \in JobRow : /\ Touched(r).status = r.status /\ Touched(r).active = r.active
                            /\ Touched(r).cancel = r.cancel
      BY DEF Touched, JobRow
    <3>3. job[Uploaded(w)] \in JobRow
      BY <1>0, <3>1
    <3>4. /\ job'[Uploaded(w)] = Touched(job[Uploaded(w)])
          /\ \A u \in Upload : u # Uploaded(w) => job'[u] = job[u]
      BY <1>0, <3>1
    <3>5. \A u \in Upload : /\ job'[u].status = job[u].status /\ job'[u].active = job[u].active
                            /\ job'[u].cancel = job[u].cancel
      BY <3>2, <3>3, <3>4
    <3> QED BY <1>1, <3>5 DEF Same, FenceInv, RowsOK
  <2>3. job' = job \/ Heartbeat(w)
    BY DEF Finish, WorkerCrash, LockLost, Deliver
  <2> QED BY <2>1, <2>2, <2>3
<1>3. \A v \in Worker : Inner(work'[v]) => Eases(v)
  <2>1. ASSUME NEW y, work' = [work EXCEPT ![w] = y]
        PROVE  work'[w] = y /\ \A v \in Worker : v # w => work'[v] = work[v]
    BY <1>0, <2>1
  <2>2. CASE Finish(w) \/ WorkerCrash(w)
    <3>1. work' = [work EXCEPT ![w] = NoExecution]
      BY <2>2 DEF Finish, WorkerCrash
    <3>2. ~Inner(NoExecution)
      BY InsideWords DEF Inner, NoExecution
    <3> QED BY <2>1, <3>1, <3>2 DEF Eases
  <2>3. CASE LockLost(w)
    <3>1. work' = [work EXCEPT ![w] = [work[w] EXCEPT !.lock = FALSE]]
      BY <2>3 DEF LockLost
    <3>2. \A y \in Execution : /\ [y EXCEPT !.lock = FALSE].pc = y.pc /\ [y EXCEPT !.lock = FALSE].exec = y.exec
                               /\ [y EXCEPT !.lock = FALSE].upload = y.upload
      BY DEF Execution
    <3>3. /\ work'[w].pc = work[w].pc /\ work'[w].exec = work[w].exec /\ work'[w].upload = work[w].upload
          /\ \A v \in Worker : v # w => work'[v] = work[v]
      BY <1>0, <2>1, <3>1, <3>2
    <3> QED BY <3>3 DEF Eases, Inner
  <2>4. CASE Heartbeat(w)
    <3>1. work' = work
      BY <2>4 DEF Heartbeat
    <3> QED BY <3>1 DEF Eases
  <2>5. ASSUME NEW x \in Exec, Deliver(w, x) PROVE \A v \in Worker : Inner(work'[v]) => Eases(v)
    <3> DEFINE y == [NoExecution EXCEPT
          !.exec = x, !.upload = bull[x].upload, !.try = bull[x].made + 1, !.pc = "claim", !.lock = TRUE]
    <3>1. y.pc = "claim" /\ work' = [work EXCEPT ![w] = y]
      BY <2>5 DEF Deliver, NoExecution
    <3> HIDE DEF y
    <3>2. ~Inner(y)
      BY <3>1, InsideWords DEF Inner
    <3> QED BY <2>1, <3>1, <3>2 DEF Eases
  <2> QED BY <2>2, <2>3, <2>4, <2>5
<1> QED BY <1>2, <1>3, QuietFence

LEMMA OutsideFence ==
  ASSUME FenceInv, TypeInv',
         \/ ObjectStep \/ \E x \in Exec : StallRecovered(x) \/ RedisLoses(x)
         \/ \E w \in Worker : RequeuePending(w)
         \/ \E r \in Request, u \in Upload : Poll(r, u)
         \/ \E r \in Request : RequestCrash(r)
         \/ \E u \in Upload, c \in Chunk : PutChunk(u, c)
  PROVE  FenceInv'
<1>1. UNCHANGED <<session, landed, job, work>>
  BY DEF ObjectStep, DrainStep, OutboxRowsClaimed, DrainNext, LookForReferences, RemoveObject, ForgetRow,
     RemoveFails, DrainCrash, ClaimTimesOut, ReservationDue, StallRecovered, RedisLoses, RequeuePending,
     Poll, RequestCrash, PutChunk
<1>2. files \in [Upload -> BOOLEAN]
  BY DEF FenceInv, TypeInv, TypeOK
<1>3. files' = files \/ \E u \in Upload : files' = [files EXCEPT ![u] = TRUE]
  BY DEF ObjectStep, DrainStep, OutboxRowsClaimed, DrainNext, LookForReferences, RemoveObject, ForgetRow,
     RemoveFails, DrainCrash, ClaimTimesOut, ReservationDue, StallRecovered, RedisLoses, RequeuePending,
     Poll, RequestCrash, PutChunk
<1>4. \A u \in Upload : session[u] = "uploading" => files'[u]
  BY <1>2, <1>3 DEF FenceInv, RowsOK
<1> QED BY <1>1, <1>4, IdleFence

LEMMA StaleFence ==
  ASSUME FenceInv, TypeInv', NEW u \in Upload, GrowsStale(u)
  PROVE  FenceInv'
<1>0. job[u] \in JobRow /\ job \in [Upload -> JobRow]
  BY DEF FenceInv, TypeInv, TypeOK
<1>1. UNCHANGED <<session, landed, files, work>> /\ job' = [job EXCEPT ![u] = [job[u] EXCEPT !.stale = TRUE]]
  BY DEF GrowsStale
<1>2. \A r \in JobRow : /\ [r EXCEPT !.stale = TRUE].status = r.status
                        /\ [r EXCEPT !.stale = TRUE].active = r.active
                        /\ [r EXCEPT !.stale = TRUE].cancel = r.cancel
  BY DEF JobRow
<1>3. job'[u] = [job[u] EXCEPT !.stale = TRUE] /\ \A v \in Upload : v # u => job'[v] = job[v]
  BY <1>0, <1>1
<1>4. \A v \in Upload : /\ job'[v].status = job[v].status /\ job'[v].active = job[v].active
                        /\ job'[v].cancel = job[v].cancel
  BY <1>0, <1>2, <1>3, ZenonT(40)
<1>5. \A v \in Upload : Same(v) /\ (session[v] = "uploading" => files'[v])
  BY <1>1, <1>4 DEF Same, FenceInv, RowsOK
<1>6. \A w \in Worker : Inner(work'[w]) => Eases(w)
  BY <1>1 DEF Eases
<1> QED BY <1>5, <1>6, QuietFence

-----------------------------------------------------------------------------
(***************************************************************************)
(* Steps that take a row from the execution it names, or name a new one.   *)
(***************************************************************************)
\* The row names no execution that is under way, and its status lets them be.
LEMMA RenamedFence ==
  ASSUME FenceInv, TypeInv', RowsOK', work' = work,
         \A u \in Upload : \/ Same(u)
                           \/ \A w \in Worker : Inner(work[w]) /\ work[w].upload = u =>
                                /\ job'[u].active # work[w].exec
                                /\ LateFacts(work[w], session'[u], job'[u])
  PROVE  FenceInv'
<1>1. ASSUME NEW w \in Worker, Inner(work'[w])
      PROVE  (Eases(w) /\ Same(work[w].upload)) \/ Refused(w)
  <2>1. Inner(work[w]) /\ work[w].upload \in Upload /\ work'[w] = work[w]
    BY <1>1, InnerFacts DEF FenceInv
  <2> QED BY <2>1 DEF Eases, Refused
<1> QED BY <1>1, FenceKept

\* Only the execution that a row names changes, from or to one that no run has.
LEMMA NamedFence ==
  ASSUME FenceInv, TypeInv', NEW u \in Upload, UNCHANGED <<session, landed, files, work>>,
         \A v \in Upload : v # u => job'[v] = job[v],
         job'[u].status = job[u].status, job'[u].cancel = job[u].cancel,
         \A w \in Worker : Inner(work[w]) => job'[u].active # work[w].exec
  PROVE  FenceInv'
<1>1. \A v \in Upload : RowFacts(session[v], job[v], landed[v]) /\ (session[v] = "uploading" => files[v])
  BY DEF FenceInv, RowsOK
<1>2. RowFacts(session'[u], job'[u], landed'[u])
  BY <1>1 DEF RowFacts
<1>3. RowsOK'
  <2>1. \A v \in Upload : v # u => RowFacts(session'[v], job'[v], landed'[v])
    BY <1>1
  <2> QED BY <1>1, <1>2, <2>1 DEF RowsOK
<1>4. \A w \in Worker : Inner(work[w]) /\ work[w].upload = u => LateFacts(work[w], session'[u], job'[u])
  BY DEF FenceInv, Fenced, LateFacts
<1>5. \A v \in Upload : v # u => Same(v)
  BY DEF Same
<1> QED BY <1>3, <1>4, <1>5, RenamedFence

LEMMA EnqueueFence ==
  ASSUME FenceInv, TypeInv', NEW p \in Proc, EnqueueStep(p) \/ AddFails(p)
  PROVE  FenceInv'
<1> DEFINE u == proc[p].upload
<1>0. TypeInv /\ job \in [Upload -> JobRow] /\ KnowsUpload(proc[p])
  BY DEF FenceInv, TypeInv, TypeOK, Wired
<1>1. UNCHANGED <<session, landed, files, work>>
  BY DEF EnqueueStep, Look, Probe, Clear, ClaimExecution, ClaimLost, AddToQueue, AddFails
<1>2. CASE job' = job
  BY <1>1, <1>2, IdleFence DEF FenceInv, RowsOK
<1>3. ASSUME NEW x \in Exec \cup {None}, u \in Upload, job' = [job EXCEPT ![u] = Touched([@ EXCEPT !.active = x])],
             \A w \in Worker : Inner(work[w]) => work[w].exec # x
      PROVE  FenceInv'
  <2> DEFINE r == Touched([job[u] EXCEPT !.active = x])
  <2>1. r \in JobRow /\ r.active = x /\ r.status = job[u].status /\ r.cancel = job[u].cancel
    BY <1>0, <1>3, ClearedRow
  <2>2. job' = [job EXCEPT ![u] = r]
    BY <1>3
  <2> HIDE DEF r
  <2>3. job'[u] = r /\ \A v \in Upload : v # u => job'[v] = job[v]
    BY <1>0, <1>3, <2>2
  <2> HIDE DEF u
  <2> QED BY <1>1, <1>3, <2>1, <2>3, NamedFence
<1>4. CASE Clear(p) \/ AddFails(p)
  <2>1. u \in Upload
    <3>1. proc[p].pc = "clear" \/ proc[p].pc = "add"
      BY <1>4 DEF Clear, AddFails
    <3> QED BY <1>0, <3>1 DEF KnowsUpload
  <2>2. \A w \in Worker : Inner(work[w]) => work[w].exec # None
    BY <1>0, InnerFacts
  <2>3. job' = job \/ job' = [job EXCEPT ![u] = Touched([@ EXCEPT !.active = None])]
    BY <1>4 DEF Clear, AddFails
  <2> QED BY <1>2, <1>3, <2>1, <2>2, <2>3
<1>5. ASSUME NEW x \in Exec, ClaimExecution(p, x) PROVE FenceInv'
  <2>1. u \in Upload
    <3>1. proc[p].pc = "enqueue"
      BY <1>5 DEF ClaimExecution
    <3> QED BY <1>0, <3>1 DEF KnowsUpload
  <2>2. \A w \in Worker : Inner(work[w]) => work[w].exec # x
    BY <1>5 DEF ClaimExecution, Fresh
  <2>3. job' = [job EXCEPT ![u] = Touched([@ EXCEPT !.active = x])]
    BY <1>5 DEF ClaimExecution
  <2> QED BY <1>3, <2>1, <2>2, <2>3
<1>6. CASE Look(p) \/ Probe(p) \/ ClaimLost(p) \/ AddToQueue(p)
  <2>1. job' = job
    BY <1>6 DEF Look, Probe, ClaimLost, AddToQueue
  <2> QED BY <1>2, <2>1
<1> QED BY <1>4, <1>5, <1>6 DEF EnqueueStep

\* What the recovery pass makes of each row.
LEMMA RecoveredRows ==
  ASSUME TypeInv, NEW w \in Worker, RecoverStale(w), NEW u \in Upload
  PROVE  \/ ~Interrupted(u) /\ job'[u] = job[u]
         \/ /\ Interrupted(u) /\ job'[u].status = "queued" /\ job'[u].active = None
            /\ job'[u].cancel = job[u].cancel
<1>1. job[u] \in JobRow
  BY DEF TypeInv, TypeOK
<1>2. job'[u] = IF Interrupted(u) THEN Touched([job[u] EXCEPT !.status = "queued", !.active = None]) ELSE job[u]
  BY DEF RecoverStale
<1> QED BY <1>1, <1>2, StoppedRows, ZenonT(40)

LEMMA RecoverFence ==
  ASSUME FenceInv, TypeInv', NEW w \in Worker, RecoverStale(w)
  PROVE  FenceInv'
<1>0. TypeInv
  BY DEF FenceInv
<1>1. UNCHANGED <<session, landed, files, work>>
  BY DEF RecoverStale
<1>2. \A u \in Upload : \/ job'[u] = job[u]
                        \/ /\ job[u].status = "processing" /\ session[u] = "queued"
                           /\ job'[u].status = "queued" /\ job'[u].active = None
                           /\ job'[u].cancel = job[u].cancel
  BY <1>0, RecoveredRows DEF Interrupted
<1>3. \A u \in Upload : RowFacts(session[u], job[u], landed[u]) /\ (session[u] = "uploading" => files[u])
  BY DEF FenceInv, RowsOK
<1>4. \A u \in Upload : RowFacts(session'[u], job'[u], landed'[u])
  BY <1>1, <1>2, <1>3 DEF RowFacts
<1>5. RowsOK'
  BY <1>1, <1>3, <1>4 DEF RowsOK
<1>6. ASSUME NEW u \in Upload
      PROVE  \/ Same(u)
             \/ \A v \in Worker : Inner(work[v]) /\ work[v].upload = u =>
                  /\ job'[u].active # work[v].exec
                  /\ LateFacts(work[v], session'[u], job'[u])
  <2>1. CASE job'[u] = job[u]
    BY <1>1, <2>1 DEF Same
  <2>2. CASE job'[u].status = "queued" /\ job'[u].active = None
    <3>1. \A v \in Worker : Inner(work[v]) => work[v].exec # None
      BY <1>0, InnerFacts
    <3> QED BY <1>1, <2>2, <3>1 DEF FenceInv, Fenced, LateFacts
  <2> QED BY <1>2, <2>1, <2>2
<1> QED BY <1>1, <1>5, <1>6, RenamedFence


-----------------------------------------------------------------------------
(***************************************************************************)
(* An upload that was decided stays decided, and a request only removes    *)
(* the directory of one.                                                   *)
(***************************************************************************)
Removing == \A p \in Proc : proc[p].pc = "rmdir" => Shut(session[proc[p].upload])

LEMMA SessionMoves ==
  ASSUME TypeInv, Next, NEW u \in Upload
  PROVE  \/ session'[u] = session[u] \/ session'[u] \in {"imported", "failed", "cancelled", "expired"}
         \/ session[u] = "uploading" /\ session'[u] = "queued" /\ \E r \in Request : CompleteUpload(r, u)
<1>0. session \in [Upload -> SessionStatus]
  BY DEF TypeInv, TypeOK
<1>1. ASSUME NEW v, NEW s \in {"imported", "failed", "cancelled", "expired"},
             session' = [session EXCEPT ![v] = s]
      PROVE  session'[u] = session[u] \/ session'[u] \in {"imported", "failed", "cancelled", "expired"}
  BY <1>0, <1>1
<1>2. ASSUME NEW r \in Request, NEW v \in Upload, CompleteUpload(r, v)
      PROVE  \/ session'[u] = session[u]
             \/ session[u] = "uploading" /\ session'[u] = "queued" /\ v = u
  BY <1>0, <1>2 DEF CompleteUpload
<1>3. \/ session' = session
      \/ \E v \in Upload, s \in {"imported", "failed", "cancelled", "expired"} :
           session' = [session EXCEPT ![v] = s]
      \/ \E r \in Request, v \in Upload : CompleteUpload(r, v)
  <2>1. CASE \E w \in Worker : RunStep(w) \/ Finish(w) \/ \E x \in Exec : Deliver(w, x)
    <3>1. ASSUME NEW w \in Worker, Publish(w) \/ FailSession(w)
          PROVE  \/ session' = session
                 \/ \E v \in Upload, s \in {"imported", "failed", "cancelled", "expired"} :
                      session' = [session EXCEPT ![v] = s]
      <4>1. Uploaded(w) \in Upload
        BY <3>1, RunFacts DEF RunStep
      <4> QED BY <3>1, <4>1 DEF Publish, FailSession
    <3>2. ASSUME NEW w \in Worker, RunStep(w), ~Publish(w), ~FailSession(w)
          PROVE  session' = session
      BY <3>2 DEF RunStep, ClaimImport, ClaimRefused, Check, ReadUpload, UploadUnreadable,
         ReserveObjects, PutObjects, PublishRefused, RemoveDirectory, AbandonObjects, Judge,
         DropChunks, FailJob, Retry, ImportFails, PutAnswerLost, HeartbeatAborts
    <3>3. ASSUME NEW w \in Worker, Finish(w) \/ \E x \in Exec : Deliver(w, x)
          PROVE  session' = session
      BY <3>3 DEF Finish, Deliver
    <3> QED BY <2>1, <3>1, <3>2, <3>3
  <2>2. CASE \E w \in Worker : WorkerCrash(w) \/ LockLost(w) \/ Heartbeat(w)
    BY <2>2 DEF WorkerCrash, LockLost, Heartbeat
  <2>3. CASE \E p \in Proc : EnqueueStep(p) \/ AddFails(p)
    BY <2>3 DEF EnqueueStep, Look, Probe, Clear, ClaimExecution, ClaimLost, AddToQueue, AddFails
  <2>4. CASE \/ \E w \in Worker : RequeuePending(w) \/ RecoverStale(w)
             \/ \E x \in Exec : StallRecovered(x) \/ RedisLoses(x)
             \/ \E v \in Upload : GrowsStale(v)
    BY <2>4 DEF RequeuePending, RecoverStale, StallRecovered, RedisLoses, GrowsStale
  <2>5. CASE \E r \in Request : RequestArrives(r) \/ RemoveCancelled(r) \/ RequestCrash(r)
    BY <2>5 DEF RequestArrives, Poll, CancelUpload, RemoveCancelled, RequestCrash
  <2>6. CASE \E v \in Upload : PruneUpload(v) \/ \E c \in Chunk : PutChunk(v, c)
    BY <2>6 DEF PruneUpload, PutChunk
  <2>7. CASE ObjectStep
    BY <2>7 DEF ObjectStep, DrainStep, OutboxRowsClaimed, DrainNext, LookForReferences, RemoveObject,
         ForgetRow, RemoveFails, DrainCrash, ClaimTimesOut, ReservationDue
  <2> QED BY <2>1, <2>2, <2>3, <2>4, <2>5, <2>6, <2>7, NextCases
<1> QED BY <1>1, <1>2, <1>3

LEMMA ShutStays ==
  ASSUME TypeInv, Next, NEW u \in Upload, Shut(session[u])
  PROVE  Shut(session'[u])
BY SessionMoves DEF Shut

LEMMA EnqueuePc ==
  ASSUME TypeInv, NEW p \in Proc, EnqueueStep(p) \/ AddFails(p)
  PROVE  \E y \in Process : y.pc # "rmdir" /\ proc' = [proc EXCEPT ![p] = y]
<1>0. /\ proc[p] \in Process /\ proc[p].rows \in SUBSET Upload /\ KnowsUpload(proc[p])
      /\ proc[p].upload \in Upload \cup {None} /\ proc[p].seen \in Exec \cup {None}
      /\ \A pc \in {"probe", "clear", "enqueue", "add"} : pc \in ProcPc
  BY TypeFacts, Words DEF TypeInv, Wired
<1>1. CASE Enqueued(p)
  BY <1>0, <1>1, NextOfType DEF Enqueued
<1>2. ASSUME NEW y, y \in Process, y.pc # "rmdir", proc' = [proc EXCEPT ![p] = y]
      PROVE  \E z \in Process : z.pc # "rmdir" /\ proc' = [proc EXCEPT ![p] = z]
  BY <1>2
<1>3. CASE Look(p)
  <2> DEFINE s == IF Open(proc[p].upload) THEN job[proc[p].upload].active ELSE None
             pc == IF s = None THEN "enqueue" ELSE "probe"
             y == [proc[p] EXCEPT !.seen = s, !.pc = pc]
  <2>1. proc[p].upload \in Upload
    BY <1>0, <1>3 DEF Look, KnowsUpload
  <2>2. s \in Exec \cup {None} /\ pc \in ProcPc /\ pc # "rmdir"
    BY <1>0, <2>1, TypeFacts DEF TypeInv
  <2>3. proc' = [proc EXCEPT ![p] = y]
    BY <1>3 DEF Look
  <2> HIDE DEF s, pc
  <2>4. y \in Process /\ y.pc = pc
    <3>1. Fields(y, pc, proc[p].upload, s, proc[p].new)
      BY <1>0, <2>2, ProcessSees
    <3> QED BY <3>1 DEF Fields
  <2> HIDE DEF y
  <2> QED BY <1>2, <2>2, <2>3, <2>4
<1>4. CASE Step(p, "clear")
  <2> DEFINE y == [proc[p] EXCEPT !.pc = "clear"]
  <2>1. y \in Process /\ y.pc = "clear"
    BY <1>0, ProcessGoes DEF Fields
  <2>2. proc' = [proc EXCEPT ![p] = y]
    BY <1>4 DEF Step
  <2> HIDE DEF y
  <2> QED BY <1>2, <2>1, <2>2
<1>5. CASE Clear(p)
  <2> DEFINE y == [proc[p] EXCEPT !.pc = "enqueue", !.seen = None]
  <2>1. y \in Process /\ y.pc = "enqueue"
    <3>1. None \in Exec \cup {None} /\ "enqueue" \in ProcPc
      BY <1>0
    <3>2. Fields(y, "enqueue", proc[p].upload, None, proc[p].new)
      BY <1>0, <3>1, ProcessSees
    <3> QED BY <3>2 DEF Fields
  <2>2. proc' = [proc EXCEPT ![p] = y]
    BY <1>5 DEF Clear
  <2> HIDE DEF y
  <2> QED BY <1>2, <2>1, <2>2
<1>6. ASSUME NEW x \in Exec, ClaimExecution(p, x)
      PROVE  \E y \in Process : y.pc # "rmdir" /\ proc' = [proc EXCEPT ![p] = y]
  <2> DEFINE y == [proc[p] EXCEPT !.pc = "add", !.new = x]
  <2>0. Fields(y, "add", proc[p].upload, proc[p].seen, x)
    BY <1>0, ProcessAdds
  <2>1. y \in Process /\ y.pc = "add"
    BY <2>0 DEF Fields
  <2>2. proc' = [proc EXCEPT ![p] = y]
    BY <1>6 DEF ClaimExecution
  <2> HIDE DEF y
  <2> QED BY <1>2, <2>1, <2>2
<1>7. CASE AddFails(p)
  <2>1. /\ Started \in Process /\ NoProcess \in Process /\ Started.pc # "rmdir" /\ NoProcess.pc # "rmdir"
    BY NewRows DEF Started, NoProcess
  <2> QED BY <1>7, <2>1 DEF AddFails
<1>8. \/ Enqueued(p) \/ Look(p) \/ Step(p, "clear") \/ Clear(p)
      \/ (\E x \in Exec : ClaimExecution(p, x)) \/ AddFails(p)
  BY DEF EnqueueStep, Probe, ClaimLost, AddToQueue
<1> QED BY <1>1, <1>3, <1>4, <1>5, <1>6, <1>7, <1>8

LEMMA RemovingStep ==
  ASSUME TypeInv, Removing, Next
  PROVE  Removing'
<1>0. proc \in [Proc -> Process] /\ \A p \in Proc : proc[p].pc = "rmdir" => proc[p].upload \in Upload
  BY DEF TypeInv, TypeOK, Wired, KnowsUpload
<1>1. CASE proc' = proc
  BY <1>0, <1>1, ShutStays DEF Removing
<1>2. ASSUME NEW p \in Proc, NEW y, proc' = [proc EXCEPT ![p] = y],
             y.pc = "rmdir" => Shut(session'[y.upload])
      PROVE  Removing'
  BY <1>0, <1>2, ShutStays DEF Removing
<1>3. CASE \E w \in Worker : RunStep(w) \/ Finish(w) \/ \E x \in Exec : Deliver(w, x)
  BY <1>1, <1>3, RunMoves DEF Finish, Deliver
<1>4. CASE \E w \in Worker : WorkerCrash(w) \/ LockLost(w) \/ Heartbeat(w)
  <2>1. Started.pc # "rmdir" /\ \A w \in Worker : w \in Proc
    BY DEF Started, NoProcess, Proc
  <2> QED BY <1>1, <1>2, <1>4, <2>1 DEF WorkerCrash, LockLost, Heartbeat
<1>5. CASE \E p \in Proc : EnqueueStep(p) \/ AddFails(p)
  BY <1>2, <1>5, EnqueuePc
<1>6. CASE \E w \in Worker : RequeuePending(w) \/ RecoverStale(w)
  <2>1. PICK w \in Worker : RequeuePending(w) \/ RecoverStale(w)
    BY <1>6
  <2>2. \E rows \in SUBSET Upload : NextOf(w, rows)
    <3>1. CASE RequeuePending(w)
      <4>1. NextOf(w, {u \in Upload : job[u].status = "queued" /\ session[u] = "queued"})
        BY <3>1 DEF RequeuePending
      <4> QED BY <4>1
    <3>2. CASE RecoverStale(w)
      <4>1. NextOf(w, {u \in Upload : Interrupted(u)})
        BY <3>2 DEF RecoverStale
      <4> QED BY <4>1
    <3> QED BY <2>1, <3>1, <3>2
  <2>3. w \in Proc
    BY DEF Proc
  <2>4. PICK y \in Process : y.pc # "rmdir" /\ proc' = [proc EXCEPT ![w] = y]
    BY <2>2, <2>3, NextOfType
  <2> QED BY <1>2, <2>3, <2>4
<1>7. CASE \/ \E x \in Exec : StallRecovered(x) \/ RedisLoses(x)
           \/ \E u \in Upload : GrowsStale(u)
           \/ \E u \in Upload : PruneUpload(u) \/ \E c \in Chunk : PutChunk(u, c)
           \/ ObjectStep
  <2>1. proc' = proc
    BY <1>7 DEF StallRecovered, RedisLoses, GrowsStale, PruneUpload, PutChunk, ObjectStep, DrainStep,
         OutboxRowsClaimed, DrainNext, LookForReferences, RemoveObject, ForgetRow, RemoveFails, DrainCrash,
         ClaimTimesOut, ReservationDue
  <2> QED BY <1>1, <2>1
<1>8. ASSUME NEW r \in Request, RequestArrives(r) \/ RemoveCancelled(r) \/ RequestCrash(r) PROVE Removing'
  <2>0. r \in Proc
    BY DEF Proc
  <2>1. CASE RemoveCancelled(r) \/ RequestCrash(r)
    <3>1. NoProcess.pc # "rmdir" /\ proc' = [proc EXCEPT ![r] = NoProcess]
      BY <2>1 DEF RemoveCancelled, RequestCrash, NoProcess
    <3> QED BY <1>2, <2>0, <3>1
  <2>2. ASSUME NEW u \in Upload, CompleteUpload(r, u) \/ Poll(r, u) PROVE Removing'
    <3> DEFINE y == [NoProcess EXCEPT !.pc = "look", !.upload = u]
    <3>1. y.pc = "look" /\ proc' = [proc EXCEPT ![r] = y]
      BY <2>2 DEF CompleteUpload, Poll, Enters, NoProcess
    <3> HIDE DEF y
    <3> QED BY <1>2, <2>0, <3>1
  <2>3. ASSUME NEW u \in Upload, CancelUpload(r, u) PROVE Removing'
    <3> DEFINE y == [NoProcess EXCEPT !.pc = "rmdir", !.upload = u]
    <3>1. proc' = proc \/ proc' = [proc EXCEPT ![r] = y]
      BY <2>3 DEF CancelUpload, Enters
    <3>2. y.upload = u
      BY DEF NoProcess
    <3>3. session'[u] = "cancelled"
      BY <2>3 DEF CancelUpload, TypeInv, TypeOK
    <3> HIDE DEF y
    <3> QED BY <1>1, <1>2, <2>0, <3>1, <3>2, <3>3 DEF Shut
  <2> QED BY <1>8, <2>1, <2>2, <2>3 DEF RequestArrives
<1> QED BY <1>3, <1>4, <1>5, <1>6, <1>7, <1>8, NextCases


-----------------------------------------------------------------------------
(***************************************************************************)
(* The requests that write the row of an upload.                           *)
(***************************************************************************)
LEMMA SetsSession ==
  ASSUME TypeInv, NEW u \in Upload, NEW s, session' = [session EXCEPT ![u] = s]
  PROVE  session'[u] = s /\ \A v \in Upload : v # u => session'[v] = session[v]
BY DEF TypeInv, TypeOK

LEMMA CompleteFence ==
  ASSUME FenceInv, TypeInv', NEW r \in Request, NEW u \in Upload, CompleteUpload(r, u)
  PROVE  FenceInv'
<1>0. TypeInv /\ job \in [Upload -> JobRow]
  BY DEF FenceInv, TypeInv, TypeOK
<1>1. /\ session[u] = "uploading" /\ session' = [session EXCEPT ![u] = "queued"]
      /\ job' = [job EXCEPT ![u] = [NoJob EXCEPT !.status = "queued"]]
      /\ UNCHANGED <<landed, files, work>>
  BY DEF CompleteUpload
<1>2. /\ session'[u] = "queued" /\ \A v \in Upload : v # u => session'[v] = session[v] /\ job'[v] = job[v]
      /\ job'[u].status = "queued" /\ job'[u].cancel = FALSE /\ job'[u].active = None
  <2>1. session'[u] = "queued" /\ \A v \in Upload : v # u => session'[v] = session[v]
    BY <1>0, <1>1, SetsSession
  <2>2. job'[u] = [NoJob EXCEPT !.status = "queued"] /\ \A v \in Upload : v # u => job'[v] = job[v]
    BY <1>0, <1>1
  <2> QED BY <2>1, <2>2 DEF NoJob
<1>3. \A v \in Upload : RowFacts(session[v], job[v], landed[v]) /\ (session[v] = "uploading" => files[v])
  BY DEF FenceInv, RowsOK
<1>4. RowFacts(session'[u], job'[u], landed'[u])
  BY <1>1, <1>2, <1>3 DEF RowFacts
<1>5. RowsOK'
  BY <1>1, <1>2, <1>3, <1>4 DEF RowsOK
<1>6. ASSUME NEW v \in Upload
      PROVE  \/ Same(v)
             \/ \A w \in Worker : Inner(work[w]) /\ work[w].upload = v =>
                  /\ job'[v].active # work[w].exec
                  /\ LateFacts(work[w], session'[v], job'[v])
  <2>1. CASE v # u
    BY <1>1, <1>2, <2>1 DEF Same
  <2>2. CASE v = u
    <3>1. \A w \in Worker : Inner(work[w]) => work[w].upload # u
      BY <1>1, <1>3 DEF FenceInv, Fenced, LateFacts, RowFacts
    <3> QED BY <2>2, <3>1
  <2> QED BY <2>1, <2>2
<1> QED BY <1>1, <1>5, <1>6, RenamedFence

LEMMA CancelFence ==
  ASSUME FenceInv, TypeInv', NEW r \in Request, NEW u \in Upload, CancelUpload(r, u)
  PROVE  FenceInv'
<1>0. TypeInv /\ job \in [Upload -> JobRow] /\ session[u] \in SessionStatus /\ job[u] \in JobRow
  BY DEF FenceInv, TypeInv, TypeOK
<1>1. /\ session[u] \notin {"imported", "cancelled"} /\ session' = [session EXCEPT ![u] = "cancelled"]
      /\ UNCHANGED <<landed, files, work>>
      /\ job' = IF job[u].status \in {"queued", "processing"}
                THEN [job EXCEPT ![u] = CancelledRow(job[u])] ELSE job
  BY DEF CancelUpload, Cancellable
<1>2. session'[u] = "cancelled" /\ \A v \in Upload : v # u => session'[v] = session[v]
  BY <1>0, <1>1, SetsSession
<1>3. /\ \A v \in Upload : v # u => job'[v] = job[v]
      /\ \/ /\ job[u].status \in {"queued", "processing"}
            /\ job'[u].active = None /\ job'[u].status = "cancelled" /\ job'[u].cancel = TRUE
         \/ job[u].status \notin {"queued", "processing"} /\ job'[u] = job[u]
  <2>1. CancelledRow(job[u]).active = None /\ CancelledRow(job[u]).status = "cancelled"
        /\ CancelledRow(job[u]).cancel = TRUE
    BY <1>0, StoppedRows
  <2> QED BY <1>0, <1>1, <2>1
<1>4. \A v \in Upload : RowFacts(session[v], job[v], landed[v]) /\ (session[v] = "uploading" => files[v])
  BY DEF FenceInv, RowsOK
<1>5. RowFacts(session'[u], job'[u], landed'[u])
  BY <1>1, <1>2, <1>3, <1>4 DEF RowFacts
<1>6. RowsOK'
  <2>1. \A v \in Upload : v # u => RowFacts(session'[v], job'[v], landed'[v])
    BY <1>1, <1>2, <1>3, <1>4
  <2> QED BY <1>1, <1>2, <1>4, <1>5, <2>1 DEF RowsOK
<1>7. ASSUME NEW w \in Worker, Inner(work[w]), work[w].upload = u
      PROVE  job'[u].active # work[w].exec /\ LateFacts(work[w], session'[u], job'[u])
  <2>1. work[w].exec # None
    BY <1>0, <1>7, InnerFacts
  <2>2. HolderFacts(work[w], job[u]) /\ LateFacts(work[w], session[u], job[u])
    BY <1>7 DEF FenceInv, Fenced
  <2>3. job[u].status # "done"
    BY <1>0, <1>1, <1>4, <2>2 DEF LateFacts, RowFacts, SessionStatus
  <2>4. job'[u].active # work[w].exec
    BY <1>3, <2>1, <2>2, <2>3 DEF HolderFacts
  <2>5. LateFacts(work[w], session'[u], job'[u])
    BY <1>2, <1>3, <2>2 DEF LateFacts, Shut
  <2> QED BY <2>4, <2>5
<1>8. \A v \in Upload : v # u => Same(v)
  BY <1>1, <1>2, <1>3 DEF Same
<1> QED BY <1>1, <1>6, <1>7, <1>8, RenamedFence

LEMMA PruneFence ==
  ASSUME FenceInv, TypeInv', NEW u \in Upload, PruneUpload(u)
  PROVE  FenceInv'
<1>0. TypeInv
  BY DEF FenceInv
<1>1. /\ session' = [session EXCEPT ![u] = "expired"] /\ UNCHANGED <<landed, job, work>>
      /\ files' = [files EXCEPT ![u] = FALSE] /\ ~Alive(u)
  BY DEF PruneUpload
<1>2. session'[u] = "expired" /\ \A v \in Upload : v # u => session'[v] = session[v] /\ files'[v] = files[v]
  BY <1>0, <1>1, SetsSession DEF TypeInv, TypeOK
<1>3. \A v \in Upload : RowFacts(session[v], job[v], landed[v]) /\ (session[v] = "uploading" => files[v])
  BY DEF FenceInv, RowsOK
<1>4. RowFacts(session'[u], job'[u], landed'[u])
  BY <1>1, <1>2, <1>3 DEF RowFacts
<1>5. RowsOK'
  <2>1. \A v \in Upload : v # u => RowFacts(session'[v], job'[v], landed'[v]) /\ (session'[v] = "uploading" => files'[v])
    BY <1>1, <1>2, <1>3
  <2> QED BY <1>2, <1>4, <2>1 DEF RowsOK
<1>6. \A w \in Worker : Inner(work[w]) => work[w].upload # u
  BY <1>0, <1>1, InnerFacts DEF Alive
<1>7. \A v \in Upload : v # u => Same(v)
  BY <1>1, <1>2 DEF Same
<1> QED BY <1>1, <1>5, <1>6, <1>7, RenamedFence

LEMMA RemoveFence ==
  ASSUME FenceInv, Removing, TypeInv', NEW r \in Request, RemoveCancelled(r)
  PROVE  FenceInv'
<1>0. TypeInv /\ r \in Proc /\ files \in [Upload -> BOOLEAN]
  BY DEF FenceInv, TypeInv, TypeOK, Proc
<1>1. UNCHANGED <<session, landed, job, work>> /\ files' = [files EXCEPT ![proc[r].upload] = FALSE]
  BY DEF RemoveCancelled
<1>2. Shut(session[proc[r].upload])
  BY <1>0 DEF RemoveCancelled, Removing
<1>3. \A u \in Upload : session[u] = "uploading" => files'[u]
  BY <1>0, <1>1, <1>2 DEF FenceInv, RowsOK, Shut
<1> QED BY <1>1, <1>3, IdleFence

-----------------------------------------------------------------------------
LEMMA FenceStep ==
  ASSUME FenceInv, Removing, TypeInv', Next
  PROVE  FenceInv'
BY NextCases, RunFence, LeavesFence, OutsideFence, StaleFence, EnqueueFence, RecoverFence,
   CompleteFence, CancelFence, PruneFence, RemoveFence DEF RequestArrives

LEMMA FenceStutter ==
  ASSUME FenceInv, Removing, UNCHANGED vars
  PROVE  FenceInv' /\ Removing'
<1>1. TypeInv'
  BY TypeStutter DEF FenceInv
<1>2. UNCHANGED <<session, landed, job, work, files, proc>>
  BY DEF vars
<1>3. FenceInv'
  BY <1>1, <1>2, IdleFence DEF FenceInv, RowsOK
<1> QED BY <1>2, <1>3 DEF Removing

LEMMA FenceAlways == Spec => [](FenceInv /\ Removing)
<1>1. Init => FenceInv /\ Removing
  <2>1. Init => Removing
    BY DEF Init, Removing, Started, NoProcess
  <2> QED BY <2>1, InitFence
<1>2. FenceInv /\ Removing /\ [Next]_vars => (FenceInv /\ Removing)'
  BY TypeStep, FenceStep, RemovingStep, FenceStutter DEF FenceInv
<1> QED BY <1>1, <1>2, PTL DEF Spec

\* However often it is retried, redelivered or superseded, an import replaces its
\* book at most once, and never after its cancellation was accepted: an execution
\* that commits is the only one its row names, and takes the row out of reach.
THEOREM LandsOnce == Spec => []LandsOnceUnlessCancelled
<1>1. FenceInv => LandsOnceUnlessCancelled
  <2> SUFFICES ASSUME FenceInv, NEW u \in Upload PROVE landed[u] <= (IF job[u].cancel THEN 0 ELSE 1)
    BY DEF LandsOnceUnlessCancelled
  <2>1. RowFacts(session[u], job[u], landed[u])
    BY DEF FenceInv, RowsOK
  <2> QED BY <2>1 DEF RowFacts
<1> QED BY <1>1, FenceAlways, PTL

\* The upload, its job and the book always say the same of how an import ended.
THEOREM OutcomesAlwaysAgree == Spec => []OutcomesAgree
<1>1. FenceInv => OutcomesAgree
  BY DEF FenceInv, RowsOK, RowFacts, OutcomesAgree
<1> QED BY <1>1, FenceAlways, PTL


-----------------------------------------------------------------------------
(***************************************************************************)
(* The chunks of an import that is under way.  Unless a pass took the job  *)
(* from an execution that was alive, an execution inside its blocks is the *)
(* one its row names as long as the import is under way, and none that     *)
(* drops the chunks finds it under way.                                    *)
(***************************************************************************)
Drops(x) == x.pc \in {"drop_rows", "drop_files"} \/ (x.pc = "abandon" /\ x.why = "cancelled")

Kept(x, s, r) ==
  /\ (Drops(x) => Shut(s))
  /\ (s = "queued" => r.active = x.exec /\ r.status = "processing" /\ ~r.stale)

KeepInv ==
  pauses = 0 => /\ \A w \in Worker : Inner(work[w]) =>
                     Kept(work[w], session[work[w].upload], job[work[w].upload])
                /\ \A u \in Upload : session[u] = "queued" => Readable(u)

\* The row of an upload says what it did, or nobody waits for the import.
RowKept(u) ==
  \/ /\ session'[u] = session[u] /\ job'[u].active = job[u].active
     /\ job'[u].status = job[u].status /\ (job'[u].stale => job[u].stale)
  \/ Shut(session'[u])

\* An execution goes on with its delivery, and drops nothing it should keep.
GoesOn(w) ==
  /\ Inner(work[w]) /\ work'[w].exec = work[w].exec /\ work'[w].upload = work[w].upload
  /\ (Drops(work'[w]) => Shut(session[work[w].upload]))

LEMMA KeptFrame ==
  ASSUME FenceInv, Next, KeepInv, pauses = 0, NEW w \in Worker, Inner(work'[w]), GoesOn(w), RowKept(work[w].upload)
  PROVE  Kept(work'[w], session'[work'[w].upload], job'[work'[w].upload])
<1> DEFINE u == work[w].upload
<1>1. Kept(work[w], session[u], job[u]) /\ u \in Upload
  BY InnerFacts DEF KeepInv, GoesOn, FenceInv
<1>2. Shut(session[u]) => Shut(session'[u])
  BY <1>1, ShutStays DEF FenceInv
<1> QED BY <1>1, <1>2 DEF Kept, GoesOn, RowKept, Shut

\* An upload that waits has a job that waits or runs.
LEMMA QueuedFacts ==
  ASSUME FenceInv, NEW u \in Upload, session[u] = "queued"
  PROVE  job[u].status \in {"queued", "processing"} /\ ~job[u].cancel
<1>1. job[u].status \in JobStatus
  BY DEF FenceInv, TypeInv, TypeOK, JobRow
<1> QED BY <1>1 DEF FenceInv, RowsOK, RowFacts, JobStatus

\* Nobody is inside for a queued job that a client still waits for.
LEMMA NoneInside ==
  ASSUME FenceInv, KeepInv, pauses = 0, NEW w \in Worker, Inner(work[w]),
         \/ job[work[w].upload].status # "processing"
         \/ job[work[w].upload].active # work[w].exec \/ job[work[w].upload].stale
  PROVE  Shut(session[work[w].upload])
<1> DEFINE u == work[w].upload
<1>1. Kept(work[w], session[u], job[u]) /\ LateFacts(work[w], session[u], job[u]) /\ u \in Upload
  BY InnerFacts DEF KeepInv, FenceInv, Fenced
<1>2. session[u] # "uploading"
  BY <1>1 DEF FenceInv, RowsOK, RowFacts, LateFacts
<1> QED BY <1>1, <1>2 DEF Kept, Shut

\* An execution that finds its row stopped finds the import decided.
LEMMA StoppedShut ==
  ASSUME FenceInv, KeepInv, pauses = 0, NEW w \in Worker, Inner(work[w]), Uploaded(w) = work[w].upload,
         \/ ~Owns(w) \/ Stopped(w) = "cancelled" \/ ~Publishable(w)
  PROVE  Shut(session[work[w].upload])
<1> DEFINE u == work[w].upload
<1>1. /\ Kept(work[w], session[u], job[u]) /\ LateFacts(work[w], session[u], job[u]) /\ u \in Upload
      /\ u = Uploaded(w)
  BY InnerFacts DEF KeepInv, FenceInv, Fenced
<1>2. session[u] # "uploading"
  BY <1>1 DEF FenceInv, RowsOK, RowFacts, LateFacts
<1>3. ASSUME session[u] = "queued" PROVE FALSE
  <2>1. job[u].active = work[w].exec /\ job[u].status = "processing" /\ ~job[u].cancel
    BY <1>1, <1>3, QueuedFacts DEF Kept
  <2>2. Owns(w) /\ Publishable(w)
    BY <1>1, <1>3, <2>1 DEF Owns, Publishable
  <2>3. Stopped(w) # "cancelled"
    BY <1>1, <2>1, StoppedWords
  <2> QED BY <2>2, <2>3
<1> QED BY <1>2, <1>3 DEF Shut

\* How a run goes on.
LEMMA RunGoesOn ==
  ASSUME FenceInv, KeepInv, pauses = 0, NEW w \in Worker, RunStep(w), Inner(work'[w]), ~ClaimImport(w)
  PROVE  GoesOn(w)
<1>0. TypeInv /\ Uploaded(w) = work[w].upload
  BY RunFacts DEF FenceInv
<1>1. Inner(work[w]) => Kept(work[w], session[work[w].upload], job[work[w].upload])
  BY DEF KeepInv
<1>2. \A pc, why : Stands(w, pc, why) =>
        work'[w].exec = work[w].exec /\ work'[w].upload = work[w].upload /\ work'[w].pc = pc /\ work'[w].why = why
  BY DEF Stands
<1>3. work'[w].pc \notin {"return", "throw", "claim", "idle"}
  BY InsideWords DEF Inner
<1>4. CASE LooksOn(w)
  <2>1. Inner(work[w])
    <3>1. work[w].pc # "claim"
      BY <1>0, <1>2, <1>3, <1>4, LooksTo DEF Judge, Working
    <3> QED BY <1>0, <3>1, RunFacts
  <2>2. Stopped(w) = "cancelled" \/ PublishRefused(w) \/ ~Owns(w) => Shut(session[work[w].upload])
    <3>1. PublishRefused(w) => ~Publishable(w)
      BY DEF PublishRefused
    <3> QED BY <1>0, <2>1, <3>1, StoppedShut
  <2>3. \A pc \in Working : pc \notin {"drop_rows", "drop_files", "abandon"}
    BY InsideWords
  <2>4. work'[w].exec = work[w].exec /\ work'[w].upload = work[w].upload
    BY <1>0, <1>2, <1>4, LooksTo
  <2>5. ASSUME Drops(work'[w]) PROVE Shut(session[work[w].upload])
    <3>1. \/ work[w].pc = "abandon" /\ work[w].why = "cancelled"
          \/ work[w].pc = "drop_rows"
          \/ Stopped(w) = "cancelled" \/ PublishRefused(w) \/ ~Owns(w)
      BY <1>0, <1>2, <1>3, <1>4, <2>5, LooksTo DEF Drops
    <3> QED BY <1>1, <2>1, <2>2, <3>1 DEF Kept, Drops
  <2> QED BY <2>1, <2>4, <2>5 DEF GoesOn
<1>5. CASE ~LooksOn(w)
  <2>1. (ReadUpload(w) /\ Owns(w)) \/ Publish(w) \/ FailSession(w) \/ FailJob(w) \/ Retry(w)
    BY <1>5 DEF RunStep, LooksOn
  <2>2. \/ To(w, "admit") \/ To(w, "cleanup") \/ Throw(w, "error") \/ To(w, "fail_job") \/ To(w, "throw")
    BY <2>1 DEF ReadUpload, Publish, FailSession, FailJob, Retry
  <2>3. \E pc \in {"admit", "cleanup", "fail_job", "throw", "abandon"}, why \in {"error", work[w].why} :
          Stands(w, pc, why) /\ (pc = "abandon" => why = "error")
    BY <1>0, <2>2, GoesTo
  <2>4. /\ work'[w].exec = work[w].exec /\ work'[w].upload = work[w].upload /\ ~Drops(work'[w])
    BY <1>2, <2>3 DEF Drops
  <2>5. Inner(work[w])
    <3>1. work[w].pc # "claim"
      BY <2>1 DEF ReadUpload, Publish, FailSession, FailJob, Retry
    <3> QED BY <1>0, <3>1, RunFacts
  <2> QED BY <2>4, <2>5 DEF GoesOn
<1> QED BY <1>4, <1>5


\* What a run does to the row of an upload, for the executions inside.
LEMMA RunRowKept ==
  ASSUME FenceInv, KeepInv, pauses = 0, NEW w \in Worker, RunStep(w),
         NEW v \in Worker, Inner(work'[v]), Inner(work[v]), v # w \/ ~ClaimImport(w)
  PROVE  RowKept(work[v].upload)
<1> DEFINE u == Uploaded(w)
           z == work[v].upload
<1>0. TypeInv /\ u = work[w].upload /\ u \in Upload /\ z \in Upload
  BY RunFacts, InnerFacts DEF FenceInv
<1>1. CASE UNCHANGED <<session, job>>
  BY <1>1 DEF RowKept
<1>2. CASE ClaimImport(w)
  <2>1. Writes(w, "processing") /\ session' = session /\ job[u].status = "queued" /\ v # w
    <3>1. "processing" \in JobStatus
      BY Words
    <3> QED BY <1>0, <1>2, <3>1, SetJobWrites DEF ClaimImport, Claimable
  <2>2. z = u => Shut(session[z])
    BY <1>0, <2>1, NoneInside
  <2> QED BY <1>0, <2>1, <2>2 DEF RowKept, Writes
<1>3. CASE Owns(w) /\ (ReadUpload(w) \/ FailJob(w) \/ Retry(w))
  <2>1. /\ Inner(work[w]) /\ work[w].pc \in Working /\ session' = session
        /\ \/ ReadUpload(w) /\ SetJob(w, [job[u] EXCEPT !.status = "processing"])
           \/ FailJob(w) /\ work[w].pc = "fail_job" /\ SetJob(w, [job[u] EXCEPT !.status = "failed"])
           \/ Retry(w) /\ To(w, "throw") /\ SetJob(w, [job[u] EXCEPT !.status = "queued"])
    <3>1. work[w].pc \in Working /\ session' = session
      BY <1>3 DEF ReadUpload, FailJob, Retry, Working
    <3>2. Inner(work[w])
      BY <3>1, InsideWords DEF Inner
    <3> QED BY <1>3, <3>1, <3>2 DEF ReadUpload, FailJob, Retry, RequeueJob, Progressed
  <2>2. /\ job[u].status = "processing" /\ job[u].active = work[w].exec
        /\ (v # w => work[v].exec # work[w].exec)
    BY <1>0, <1>3, <2>1, OwnerFacts
  <2>3. CASE ReadUpload(w) /\ SetJob(w, [job[u] EXCEPT !.status = "processing"])
    <3>1. Writes(w, "processing")
      BY <1>0, <2>3, SetJobWrites, Words
    <3> QED BY <1>0, <2>1, <2>2, <3>1 DEF RowKept, Writes
  <2>4. CASE FailJob(w) /\ work[w].pc = "fail_job" /\ SetJob(w, [job[u] EXCEPT !.status = "failed"])
    <3>1. Writes(w, "failed")
      BY <1>0, <2>4, SetJobWrites, Words
    <3>2. Shut(session[u])
      BY <1>0, <2>1, <2>4 DEF FenceInv, Fenced, LateFacts
    <3> QED BY <1>0, <2>1, <3>1, <3>2 DEF RowKept, Writes
  <2>5. CASE Retry(w) /\ To(w, "throw") /\ SetJob(w, [job[u] EXCEPT !.status = "queued"])
    <3>1. Writes(w, "queued")
      BY <1>0, <2>5, SetJobWrites, Words
    <3>2. Stands(w, "throw", work[w].why)
      BY <1>0, <2>5, GoesTo
    <3>3. v # w
      BY <3>2, InsideWords DEF Stands, Inner
    <3>4. z = u => Shut(session[z])
      BY <1>0, <2>2, <3>3, NoneInside
    <3> QED BY <1>0, <2>1, <3>1, <3>4 DEF RowKept, Writes
  <2> QED BY <2>1, <2>3, <2>4, <2>5
<1>4. CASE Publish(w)
  <2>1. /\ session' = [session EXCEPT ![u] = "imported"]
        /\ SetJob(w, [job[u] EXCEPT !.status = "done"])
    BY <1>4 DEF Publish
  <2>2. Writes(w, "done")
    BY <1>0, <2>1, SetJobWrites, Words
  <2>3. session'[u] = "imported" /\ (z # u => session'[z] = session[z])
    BY <1>0, <2>1, SetsSession
  <2> QED BY <1>0, <2>2, <2>3 DEF RowKept, Writes, Shut
<1>5. CASE FailSession(w)
  <2>1. /\ session' = IF Failable(u) THEN [session EXCEPT ![u] = "failed"] ELSE session
        /\ job' = job
    BY <1>5 DEF FailSession
  <2>2. session'[z] = session[z] \/ session'[z] = "failed"
    BY <1>0, <2>1 DEF TypeInv, TypeOK
  <2> QED BY <1>0, <2>1, <2>2 DEF RowKept, Shut
<1>6. \/ UNCHANGED <<session, job>> \/ ClaimImport(w) \/ Publish(w) \/ FailSession(w)
      \/ Owns(w) /\ (ReadUpload(w) \/ FailJob(w) \/ Retry(w))
  BY DEF RunStep, ClaimRefused, Check, ReadUpload, UploadUnreadable,
     ReserveObjects, PutObjects, PublishRefused, RemoveDirectory, AbandonObjects, Judge,
     DropChunks, FailJob, Retry, RequeueJob, ImportFails, PutAnswerLost, HeartbeatAborts
<1> QED BY <1>1, <1>2, <1>3, <1>4, <1>5, <1>6

\* An execution that claims its job is the one the row names.
LEMMA ClaimKept ==
  ASSUME FenceInv, NEW w \in Worker, ClaimImport(w)
  PROVE  Kept(work'[w], session'[work'[w].upload], job'[work'[w].upload])
<1>0. RunStep(w) /\ TypeInv
  BY DEF RunStep, FenceInv
<1>1. /\ Uploaded(w) = work[w].upload /\ Uploaded(w) \in Upload
      /\ job[Uploaded(w)].active = work[w].exec
  BY <1>0, RunFacts DEF ClaimImport, Claimable, Owns
<1>2. Writes(w, "processing")
  BY <1>0, <1>1, SetJobWrites, Words DEF ClaimImport
<1>3. Stands(w, "check", work[w].why)
  BY <1>0, GoesTo DEF ClaimImport
<1> QED BY <1>1, <1>2, <1>3 DEF Kept, Writes, Stands, Drops

LEMMA RunKept ==
  ASSUME FenceInv, KeepInv, pauses = 0, Next, NEW w \in Worker, RunStep(w), NEW v \in Worker, Inner(work'[v])
  PROVE  Kept(work'[v], session'[work'[v].upload], job'[work'[v].upload])
<1>0. TypeInv
  BY DEF FenceInv
<1>1. CASE v = w /\ ClaimImport(w)
  BY <1>1, ClaimKept
<1>2. CASE v = w /\ ~ClaimImport(w)
  <2>1. GoesOn(w)
    BY <1>2, RunGoesOn
  <2>2. RowKept(work[w].upload)
    BY <1>2, <2>1, RunRowKept DEF GoesOn
  <2> QED BY <1>2, <2>1, <2>2, KeptFrame
<1>3. CASE v # w
  <2>1. work'[v] = work[v]
    <3>1. \E y : work' = [work EXCEPT ![w] = y]
      BY <1>0, RunMoves DEF Moves
    <3> QED BY <1>0, <1>3, <3>1 DEF TypeInv, TypeOK
  <2>2. GoesOn(v)
    BY <2>1 DEF GoesOn, KeepInv, Kept
  <2>3. RowKept(work[v].upload)
    BY <1>3, <2>1, RunRowKept
  <2> QED BY <2>2, <2>3, KeptFrame
<1> QED BY <1>1, <1>2, <1>3


\* Every other step: executions end, begin or stand still, and rows keep what
\* those inside rely on.
LEMMA StandsKept ==
  ASSUME FenceInv, KeepInv, pauses = 0, Next, NEW v \in Worker, Inner(work'[v]), work'[v] = work[v],
         RowKept(work[v].upload)
  PROVE  Kept(work'[v], session'[work'[v].upload], job'[work'[v].upload])
<1>1. GoesOn(v)
  BY DEF GoesOn, KeepInv, Kept
<1> QED BY <1>1, KeptFrame

LEMMA LeavesKept ==
  ASSUME FenceInv, KeepInv, pauses = 0, Next, NEW w \in Worker,
         \/ Finish(w) \/ WorkerCrash(w) \/ LockLost(w) \/ Heartbeat(w) \/ \E x \in Exec : Deliver(w, x),
         NEW v \in Worker, Inner(work'[v])
  PROVE  Kept(work'[v], session'[work'[v].upload], job'[work'[v].upload])
<1>0. TypeInv /\ work \in [Worker -> Execution] /\ job \in [Upload -> JobRow]
  BY DEF FenceInv, TypeInv, TypeOK
<1>1. ASSUME NEW u \in Upload PROVE RowKept(u)
  <2>1. session' = session
    BY DEF Finish, WorkerCrash, LockLost, Heartbeat, Deliver
  <2>2. CASE job' = job
    BY <2>1, <2>2 DEF RowKept
  <2>3. CASE Heartbeat(w)
    <3>1. Uploaded(w) \in Upload /\ job' = [job EXCEPT ![Uploaded(w)] = Touched(job[Uploaded(w)])]
      BY <1>0, <2>3 DEF Heartbeat, SetJob, TypeInv, Wired, KnowsDelivery, Uploaded
    <3>2. \A r \in JobRow : /\ Touched(r).status = r.status /\ Touched(r).active = r.active
                            /\ Touched(r).stale = FALSE
      BY DEF Touched, JobRow
    <3>3. job[Uploaded(w)] \in JobRow
      BY <1>0, <3>1
    <3>4. /\ job'[Uploaded(w)] = Touched(job[Uploaded(w)])
          /\ (u # Uploaded(w) => job'[u] = job[u])
      BY <1>0, <3>1
    <3> QED BY <2>1, <3>2, <3>3, <3>4 DEF RowKept
  <2>4. job' = job \/ Heartbeat(w)
    BY DEF Finish, WorkerCrash, LockLost, Deliver
  <2> QED BY <2>2, <2>3, <2>4
<1>2. GoesOn(v)
  <2>1. ASSUME NEW y, work' = [work EXCEPT ![w] = y]
        PROVE  work'[w] = y /\ (v # w => work'[v] = work[v])
    BY <1>0, <2>1
  <2>2. CASE work'[v] = work[v]
    BY <2>2 DEF GoesOn, KeepInv, Kept
  <2>3. CASE Finish(w) \/ WorkerCrash(w)
    <3>1. work' = [work EXCEPT ![w] = NoExecution] /\ ~Inner(NoExecution)
      BY <2>3, InsideWords DEF Finish, WorkerCrash, Inner, NoExecution
    <3> QED BY <2>1, <2>2, <3>1
  <2>4. CASE LockLost(w)
    <3>1. work' = [work EXCEPT ![w] = [work[w] EXCEPT !.lock = FALSE]]
      BY <2>4 DEF LockLost
    <3>2. \A y \in Execution : /\ [y EXCEPT !.lock = FALSE].pc = y.pc /\ [y EXCEPT !.lock = FALSE].exec = y.exec
                               /\ [y EXCEPT !.lock = FALSE].upload = y.upload
                               /\ [y EXCEPT !.lock = FALSE].why = y.why
      BY DEF Execution
    <3>3. \/ work'[v] = work[v]
          \/ /\ v = w /\ work'[w].pc = work[w].pc /\ work'[w].exec = work[w].exec
             /\ work'[w].upload = work[w].upload /\ work'[w].why = work[w].why
      BY <1>0, <2>1, <3>1, <3>2
    <3>4. CASE work'[v] # work[v]
      <4>1. Inner(work[w]) /\ v = w /\ (Drops(work'[w]) => Drops(work[w]))
        BY <3>3, <3>4 DEF Inner, Drops
      <4>2. Drops(work[w]) => Shut(session[work[w].upload])
        BY <4>1 DEF KeepInv, Kept
      <4> QED BY <3>3, <3>4, <4>1, <4>2 DEF GoesOn
    <3> QED BY <2>2, <3>4
  <2>5. CASE Heartbeat(w)
    <3>1. work' = work
      BY <2>5 DEF Heartbeat
    <3> QED BY <2>2, <3>1
  <2>6. ASSUME NEW x \in Exec, Deliver(w, x) PROVE GoesOn(v)
    <3> DEFINE y == [NoExecution EXCEPT
          !.exec = x, !.upload = bull[x].upload, !.try = bull[x].made + 1, !.pc = "claim", !.lock = TRUE]
    <3>1. y.pc = "claim" /\ work' = [work EXCEPT ![w] = y]
      BY <2>6 DEF Deliver, NoExecution
    <3> HIDE DEF y
    <3>2. ~Inner(y)
      BY <3>1, InsideWords DEF Inner
    <3> QED BY <2>1, <2>2, <3>1, <3>2
  <2> QED BY <2>3, <2>4, <2>5, <2>6
<1>3. work[v].upload \in Upload
  BY <1>0, <1>2, InnerFacts DEF GoesOn
<1> QED BY <1>1, <1>2, <1>3, KeptFrame

\* The steps of those who enqueue or recover change no row somebody relies on.
LEMMA RecoveryKept ==
  ASSUME FenceInv, KeepInv, pauses = 0,
         \/ \E p \in Proc : EnqueueStep(p) \/ AddFails(p)
         \/ \E w \in Worker : RecoverStale(w)
         \/ \E u \in Upload : GrowsStale(u) /\ pauses' = 0,
         NEW v \in Worker, Inner(work'[v])
  PROVE  work'[v] = work[v] /\ RowKept(work[v].upload)
<1> DEFINE z == work[v].upload
<1>0. /\ TypeInv /\ job \in [Upload -> JobRow] /\ pauses \in Nat /\ work' = work
  BY DEF FenceInv, TypeInv, TypeOK, EnqueueStep, Look, Probe, Clear, ClaimExecution, ClaimLost, AddToQueue, AddFails,
     RecoverStale, GrowsStale
<1>1. z \in Upload /\ Inner(work[v]) /\ work'[v] = work[v]
  BY <1>0, InnerFacts
<1>2. session' = session
  BY DEF EnqueueStep, Look, Probe, Clear, ClaimExecution, ClaimLost, AddToQueue, AddFails,
     RecoverStale, GrowsStale
<1>3. ASSUME job[z].status = "queued" PROVE RowKept(z)
  BY <1>1, <1>2, <1>3, NoneInside DEF RowKept
<1>4. CASE job'[z] = job[z]
  BY <1>1, <1>2, <1>4 DEF RowKept
<1>5. CASE \E p \in Proc : EnqueueStep(p) \/ AddFails(p)
  <2>1. ASSUME NEW u, NEW r, job[u].status = "queued", job' = [job EXCEPT ![u] = r]
        PROVE  job'[z] = job[z] \/ job[z].status = "queued"
    BY <1>0, <1>1, <2>1
  <2>2. job'[z] = job[z] \/ job[z].status = "queued"
    <3>1. ASSUME NEW p \in Proc, Clear(p) \/ AddFails(p) PROVE job'[z] = job[z] \/ job[z].status = "queued"
      <4> DEFINE u == proc[p].upload
                 r == Touched([job[u] EXCEPT !.active = None])
      <4>1. job' = job \/ (job[u].status = "queued" /\ job' = [job EXCEPT ![u] = r])
        BY <3>1 DEF Clear, AddFails
      <4> HIDE DEF u, r
      <4> QED BY <2>1, <4>1
    <3>2. ASSUME NEW p \in Proc, NEW x \in Exec, ClaimExecution(p, x)
          PROVE  job'[z] = job[z] \/ job[z].status = "queued"
      <4> DEFINE u == proc[p].upload
                 r == Touched([job[u] EXCEPT !.active = x])
      <4>1. job[u].status = "queued" /\ job' = [job EXCEPT ![u] = r]
        BY <3>2 DEF ClaimExecution, ClaimableBy, Open
      <4> HIDE DEF u, r
      <4> QED BY <2>1, <4>1
    <3>3. ASSUME NEW p \in Proc, Look(p) \/ Probe(p) \/ ClaimLost(p) \/ AddToQueue(p)
          PROVE  job' = job
      BY <3>3 DEF Look, Probe, ClaimLost, AddToQueue
    <3> QED BY <1>5, <3>1, <3>2, <3>3 DEF EnqueueStep
  <2> QED BY <1>1, <1>3, <1>4, <2>2
<1>6. ASSUME NEW w \in Worker, RecoverStale(w) PROVE RowKept(z)
  <2>1. CASE Interrupted(z)
    <3>1. job[z].stale
      BY <2>1 DEF Interrupted
    <3> QED BY <1>1, <1>2, <3>1, NoneInside DEF RowKept
  <2>2. CASE ~Interrupted(z)
    BY <1>0, <1>1, <1>4, <1>6, <2>2, RecoveredRows
  <2> QED BY <2>1, <2>2
<1>7. ASSUME NEW u \in Upload, GrowsStale(u), pauses' = 0 PROVE RowKept(z)
  <2>1. ~Alive(u)
    BY <1>0, <1>7 DEF GrowsStale
  <2>2. z # u
    BY <1>0, <1>1, <2>1, InnerFacts DEF Alive
  <2>3. job'[z] = job[z]
    BY <1>0, <1>1, <1>7, <2>2 DEF GrowsStale
  <2> QED BY <1>4, <2>3
<1> QED BY <1>1, <1>5, <1>6, <1>7

LEMMA RequestKept ==
  ASSUME FenceInv, NEW v \in Worker, Inner(work'[v]),
         \/ \E r \in Request : RequestArrives(r) \/ RemoveCancelled(r) \/ RequestCrash(r)
         \/ \E u \in Upload : PruneUpload(u) \/ \E c \in Chunk : PutChunk(u, c)
         \/ ObjectStep \/ \E x \in Exec : StallRecovered(x) \/ RedisLoses(x)
         \/ \E w \in Worker : RequeuePending(w)
  PROVE  work'[v] = work[v] /\ RowKept(work[v].upload)
<1> DEFINE z == work[v].upload
<1>0. TypeInv /\ job \in [Upload -> JobRow] /\ session \in [Upload -> SessionStatus] /\ work' = work
  BY DEF FenceInv, TypeInv, TypeOK, RequestArrives, CompleteUpload, Poll, CancelUpload, RemoveCancelled,
     RequestCrash, PruneUpload, PutChunk, ObjectStep, DrainStep, OutboxRowsClaimed, DrainNext, LookForReferences,
     RemoveObject, ForgetRow, RemoveFails, DrainCrash, ClaimTimesOut, ReservationDue, StallRecovered, RedisLoses,
     RequeuePending
<1>1. z \in Upload /\ Inner(work[v]) /\ work'[v] = work[v]
  BY <1>0, InnerFacts
<1>2. CASE UNCHANGED <<session, job>>
  BY <1>1, <1>2 DEF RowKept
<1>3. ASSUME NEW r \in Request, NEW u \in Upload, CompleteUpload(r, u) PROVE RowKept(z)
  <2>1. session[u] = "uploading"
    BY <1>3 DEF CompleteUpload
  <2>2. z # u
    BY <1>1, <2>1 DEF FenceInv, Fenced, LateFacts, RowsOK, RowFacts
  <2>3. session'[z] = session[z] /\ job'[z] = job[z]
    BY <1>0, <1>1, <1>3, <2>2 DEF CompleteUpload
  <2> QED BY <2>3 DEF RowKept
<1>4. ASSUME NEW r \in Request, NEW u \in Upload, CancelUpload(r, u) PROVE RowKept(z)
  <2>1. z = u => session'[z] = "cancelled"
    BY <1>0, <1>1, <1>4 DEF CancelUpload
  <2>2. z # u => session'[z] = session[z] /\ job'[z] = job[z]
    BY <1>0, <1>1, <1>4 DEF CancelUpload
  <2> QED BY <2>1, <2>2 DEF RowKept, Shut
<1>5. ASSUME NEW u \in Upload, PruneUpload(u) PROVE RowKept(z)
  <2>1. (session'[z] = session[z] \/ session'[z] = "expired") /\ job' = job
    BY <1>0, <1>1, <1>5 DEF PruneUpload
  <2> QED BY <2>1 DEF RowKept, Shut
<1>6. \/ UNCHANGED <<session, job>> \/ \E u \in Upload : PruneUpload(u)
      \/ \E r \in Request, u \in Upload : CompleteUpload(r, u) \/ CancelUpload(r, u)
  BY DEF RequestArrives, Poll, RemoveCancelled,
     RequestCrash, PutChunk, ObjectStep, DrainStep, OutboxRowsClaimed, DrainNext, LookForReferences,
     RemoveObject, ForgetRow, RemoveFails, DrainCrash, ClaimTimesOut, ReservationDue, StallRecovered, RedisLoses,
     RequeuePending
<1> QED BY <1>1, <1>2, <1>3, <1>4, <1>5, <1>6


\* No step takes the chunks or the directory of an upload that stays queued.
LEMMA QueuedFiles ==
  ASSUME FenceInv, KeepInv, Removing, pauses = 0, Next, NEW u \in Upload,
         session[u] = "queued", session'[u] = "queued"
  PROVE  chunks'[u] = chunks[u] /\ files'[u] = files[u]
<1>0. /\ TypeInv /\ session \in [Upload -> SessionStatus] /\ files \in [Upload -> BOOLEAN]
      /\ chunks \in [Upload -> SUBSET Chunk]
  BY DEF FenceInv, TypeInv, TypeOK
<1>1. ASSUME NEW w \in Worker, RunStep(w) PROVE chunks'[u] = chunks[u] /\ files'[u] = files[u]
  <2>1. Uploaded(w) = work[w].upload /\ Uploaded(w) \in Upload
    BY <1>0, <1>1, RunFacts
  <2>2. CASE Publish(w)
    <3>1. session' = [session EXCEPT ![Uploaded(w)] = "imported"] /\ files' = files
          /\ chunks' = [chunks EXCEPT ![Uploaded(w)] = {}]
      BY <2>2 DEF Publish
    <3> QED BY <1>0, <2>1, <3>1
  <2>3. CASE DropChunks(w) \/ RemoveDirectory(w)
    <3>1. work[w].pc \in {"drop_rows", "drop_files", "cleanup"}
      BY <2>3 DEF DropChunks, RemoveDirectory
    <3>2. Inner(work[w])
      BY <3>1 DEF Inner, Inside
    <3>3. Shut(session[Uploaded(w)])
      BY <2>1, <3>1, <3>2 DEF KeepInv, Kept, Drops, FenceInv, Fenced, LateFacts
    <3>4. u # Uploaded(w)
      BY <3>3 DEF Shut
    <3> QED BY <1>0, <2>3, <3>4 DEF DropChunks, RemoveDirectory
  <2>4. CASE ~Publish(w) /\ ~DropChunks(w) /\ ~RemoveDirectory(w)
    <3>1. UNCHANGED <<chunks, files>>
      BY <1>1, <2>4 DEF RunStep, ClaimImport, ClaimRefused, Check, ReadUpload, UploadUnreadable,
         ReserveObjects, PutObjects, PublishRefused, AbandonObjects, Judge,
         FailSession, FailJob, Retry, ImportFails, PutAnswerLost, HeartbeatAborts
    <3> QED BY <3>1
  <2> QED BY <2>2, <2>3, <2>4
<1>2. ASSUME NEW r \in Request, RequestArrives(r) \/ RemoveCancelled(r) \/ RequestCrash(r)
      PROVE  chunks'[u] = chunks[u] /\ files'[u] = files[u]
  <2>1. CASE RemoveCancelled(r)
    <3>1. Shut(session[proc[r].upload])
      BY <2>1 DEF RemoveCancelled, Removing, Proc
    <3>2. proc[r].upload # u
      BY <3>1 DEF Shut
    <3> QED BY <1>0, <2>1, <3>2 DEF RemoveCancelled
  <2>2. ASSUME NEW z \in Upload, CancelUpload(r, z) PROVE chunks'[u] = chunks[u] /\ files'[u] = files[u]
    <3>1. session' = [session EXCEPT ![z] = "cancelled"] /\ files' = files
          /\ (chunks' = chunks \/ chunks' = [chunks EXCEPT ![z] = {}])
      BY <2>2 DEF CancelUpload
    <3>2. z # u
      BY <1>0, <3>1
    <3> QED BY <1>0, <3>1, <3>2
  <2>3. ASSUME NEW z \in Upload, CompleteUpload(r, z) \/ Poll(r, z)
        PROVE  chunks'[u] = chunks[u] /\ files'[u] = files[u]
    BY <2>3 DEF CompleteUpload, Poll
  <2>4. CASE RequestCrash(r)
    BY <2>4 DEF RequestCrash
  <2> QED BY <1>2, <2>1, <2>2, <2>3, <2>4 DEF RequestArrives
<1>3. ASSUME NEW z \in Upload, PruneUpload(z) PROVE chunks'[u] = chunks[u] /\ files'[u] = files[u]
  <2>1. z # u
    BY <1>0, <1>3 DEF PruneUpload
  <2> QED BY <1>0, <1>3, <2>1 DEF PruneUpload
<1>4. ASSUME NEW z \in Upload, NEW c \in Chunk, PutChunk(z, c)
      PROVE  chunks'[u] = chunks[u] /\ files'[u] = files[u]
  <2>1. z # u
    BY <1>0, <1>4 DEF PutChunk
  <2> QED BY <1>0, <1>4, <2>1 DEF PutChunk
<1>5. CASE \E w \in Worker : Finish(w) \/ WorkerCrash(w) \/ LockLost(w) \/ Heartbeat(w) \/ \E x \in Exec : Deliver(w, x)
  BY <1>5 DEF Finish, WorkerCrash, LockLost, Heartbeat, Deliver
<1>6. CASE \/ \E p \in Proc : EnqueueStep(p) \/ AddFails(p)
           \/ \E w \in Worker : RequeuePending(w) \/ RecoverStale(w)
  <2>1. UNCHANGED <<chunks, files>>
    BY <1>6 DEF EnqueueStep, Look, Probe, Clear, ClaimExecution, ClaimLost, AddToQueue, AddFails,
       RequeuePending, RecoverStale
  <2> QED BY <2>1
<1>7. CASE \/ \E x \in Exec : StallRecovered(x) \/ RedisLoses(x)
           \/ \E z \in Upload : GrowsStale(z)
           \/ ObjectStep
  <2>1. UNCHANGED <<chunks, files>>
    BY <1>7 DEF StallRecovered, RedisLoses, GrowsStale, ObjectStep, DrainStep, OutboxRowsClaimed, DrainNext,
       LookForReferences, RemoveObject, ForgetRow, RemoveFails, DrainCrash, ClaimTimesOut, ReservationDue
  <2> QED BY <2>1
<1> QED BY <1>1, <1>2, <1>3, <1>4, <1>5, <1>6, <1>7, NextCases

LEMMA PausesGrow ==
  ASSUME TypeInv, Next, pauses' = 0
  PROVE  pauses = 0
<1>1. pauses \in Nat
  BY DEF TypeInv, TypeOK
<1>2. CASE \E u \in Upload : GrowsStale(u)
  BY <1>1, <1>2 DEF GrowsStale
<1>3. CASE \E w \in Worker : RunStep(w) \/ Finish(w) \/ WorkerCrash(w) \/ LockLost(w) \/ Heartbeat(w)
                             \/ \E x \in Exec : Deliver(w, x)
  BY <1>3, RunMoves DEF Finish, WorkerCrash, LockLost, Heartbeat, Deliver
<1>4. CASE \/ \E p \in Proc : EnqueueStep(p) \/ AddFails(p)
           \/ \E w \in Worker : RequeuePending(w) \/ RecoverStale(w)
  BY <1>4 DEF EnqueueStep, Look, Probe, Clear, ClaimExecution, ClaimLost, AddToQueue, AddFails,
       RequeuePending, RecoverStale
<1>5. CASE \/ \E x \in Exec : StallRecovered(x) \/ RedisLoses(x)
           \/ ObjectStep
  BY <1>5 DEF StallRecovered, RedisLoses, ObjectStep, DrainStep, OutboxRowsClaimed, DrainNext,
       LookForReferences, RemoveObject, ForgetRow, RemoveFails, DrainCrash, ClaimTimesOut, ReservationDue
<1>6. CASE \/ \E r \in Request : RequestArrives(r) \/ RemoveCancelled(r) \/ RequestCrash(r)
           \/ \E u \in Upload : PruneUpload(u) \/ \E c \in Chunk : PutChunk(u, c)
  BY <1>6 DEF RequestArrives, CompleteUpload, Poll, CancelUpload, RemoveCancelled, RequestCrash,
       PruneUpload, PutChunk
<1> QED BY <1>2, <1>3, <1>4, <1>5, <1>6, NextCases

LEMMA KeepStep ==
  ASSUME FenceInv, Removing, KeepInv, Next
  PROVE  KeepInv'
<1> SUFFICES ASSUME pauses' = 0
             PROVE  /\ \A w \in Worker : Inner(work'[w]) =>
                         Kept(work'[w], session'[work'[w].upload], job'[work'[w].upload])
                    /\ \A u \in Upload : session'[u] = "queued" => Readable(u)'
  BY DEF KeepInv
<1>0. TypeInv /\ pauses = 0
  BY PausesGrow DEF FenceInv
<1>1. ASSUME NEW v \in Worker, Inner(work'[v])
      PROVE  Kept(work'[v], session'[work'[v].upload], job'[work'[v].upload])
  <2>1. CASE \E w \in Worker : RunStep(w)
    BY <1>0, <1>1, <2>1, RunKept
  <2>2. CASE \E w \in Worker : Finish(w) \/ WorkerCrash(w) \/ LockLost(w) \/ Heartbeat(w) \/ \E x \in Exec : Deliver(w, x)
    BY <1>0, <1>1, <2>2, LeavesKept
  <2>3. CASE \/ \E p \in Proc : EnqueueStep(p) \/ AddFails(p)
             \/ \E w \in Worker : RecoverStale(w)
             \/ \E u \in Upload : GrowsStale(u)
    BY <1>0, <1>1, <2>3, RecoveryKept, StandsKept
  <2>4. CASE \/ \E r \in Request : RequestArrives(r) \/ RemoveCancelled(r) \/ RequestCrash(r)
             \/ \E u \in Upload : PruneUpload(u) \/ \E c \in Chunk : PutChunk(u, c)
             \/ ObjectStep \/ \E x \in Exec : StallRecovered(x) \/ RedisLoses(x)
             \/ \E w \in Worker : RequeuePending(w)
    BY <1>0, <1>1, <2>4, RequestKept, StandsKept
  <2> QED BY <2>1, <2>2, <2>3, <2>4, NextCases
<1>2. ASSUME NEW u \in Upload, session'[u] = "queued" PROVE Readable(u)'
  <2>1. CASE session[u] = "queued"
    <3>1. Readable(u)
      BY <1>0, <2>1 DEF KeepInv
    <3>2. chunks'[u] = chunks[u] /\ files'[u] = files[u]
      BY <1>0, <1>2, <2>1, QueuedFiles
    <3> QED BY <3>1, <3>2 DEF Readable
  <2>2. CASE session[u] # "queued"
    <3>1. session[u] = "uploading" /\ \E r \in Request : CompleteUpload(r, u)
      BY <1>0, <1>2, <2>2, SessionMoves
    <3>2. files[u]
      BY <3>1 DEF FenceInv, RowsOK
    <3> QED BY <3>1, <3>2 DEF CompleteUpload, Readable
  <2> QED BY <2>1, <2>2
<1> QED BY <1>1, <1>2

LEMMA KeepAlways == Spec => [](FenceInv /\ Removing /\ KeepInv)
<1>1. Init => KeepInv
  <2> SUFFICES ASSUME Init PROVE KeepInv
    OBVIOUS
  <2>1. \A w \in Worker : ~Inner(work[w])
    BY InsideWords DEF Init, NoExecution, Inner
  <2>2. \A u \in Upload : session[u] = "uploading"
    BY DEF Init
  <2> QED BY <2>1, <2>2 DEF KeepInv
<1>2. KeepInv /\ UNCHANGED vars => KeepInv'
  BY DEF KeepInv, Readable, vars
<1>3. FenceInv /\ Removing /\ KeepInv /\ [Next]_vars => KeepInv'
  BY <1>2, KeepStep
<1> QED BY <1>1, <1>3, FenceAlways, PTL DEF Spec

\* No execution takes the chunks from under an import that waits or runs, unless
\* the recovery pass took the job from one that was still alive: whoever drops
\* the chunks was told that the import is over, or that it is no longer its own.
THEOREM ChunksAreKept == Spec => []ChunksKeptUnlessPaused
<1>1. KeepInv => ChunksKeptUnlessPaused
  BY DEF KeepInv, ChunksKeptUnlessPaused, Underway
<1> QED BY <1>1, KeepAlways, PTL

=============================================================================
