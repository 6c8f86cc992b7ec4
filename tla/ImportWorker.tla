---------------------------- MODULE ImportWorker ----------------------------
(***************************************************************************)
(* processImportJob: one run of one BullMQ delivery, from the claim of the *)
(* job to the transaction that replaces the book, with the catch block.    *)
(* The statements other actors may come between are separate actions.      *)
(***************************************************************************)
EXTENDS ImportQueue, ObjectDeletion

Uploaded(w) == work[w].upload

\* The fence of updateImportJobProgress and of the heartbeat.
Owns(w) ==
  LET row == job[Uploaded(w)] IN
  row.active = work[w].exec /\ ~row.cancel /\ row.status # "cancelled"

\* assertImportExecutionActive
Stopped(w) ==
  LET row == job[Uploaded(w)] IN
  IF row.cancel \/ row.status = "cancelled" THEN "cancelled"
  ELSE IF row.active # work[w].exec \/ row.status # "processing" THEN "superseded" ELSE "none"

To(w, pc) == work' = [work EXCEPT ![w] = [@ EXCEPT !.pc = pc]]

\* An error leaves the try block.
Throw(w, why) == work' = [work EXCEPT ![w] = [@ EXCEPT !.pc = "abandon", !.why = why]]

SetJob(w, row) == job' = [job EXCEPT ![Uploaded(w)] = Touched(row)]

Deliver(w, x) ==
  /\ work[w].pc = "idle" /\ ~proc[w].booting /\ bull[x].state = "waiting"
  /\ bull' = [bull EXCEPT ![x] = [@ EXCEPT !.state = "active"]]
  /\ work' = [work EXCEPT ![w] = [NoExecution EXCEPT
       !.exec = x, !.upload = bull[x].upload, !.try = bull[x].made + 1, !.pc = "claim", !.lock = TRUE]]
  /\ UNCHANGED <<session, chunks, files, job, proc, objectVars, landed, upsets, pauses>>

(***************************************************************************)
(* The try block                                                           *)
(***************************************************************************)
Claimable(w) == job[Uploaded(w)].status = "queued" /\ Owns(w)

ClaimImport(w) ==
  /\ work[w].pc = "claim" /\ Claimable(w)
  /\ SetJob(w, [job[Uploaded(w)] EXCEPT !.status = "processing"])
  /\ To(w, "check")
  /\ UNCHANGED <<session, chunks, files, bull, proc, objectVars, landed, upsets, pauses>>

ClaimRefused(w) ==
  /\ work[w].pc = "claim" /\ ~Claimable(w)
  /\ To(w, "return")
  /\ UNCHANGED <<session, chunks, files, job, bull, proc, objectVars, landed, upsets, pauses>>

\* The assertions before the upload is read, before objects are reserved, and
\* before the transaction.
AfterCheck == [check |-> "read", admit |-> "reserve", recheck |-> "publish"]

Check(w) ==
  /\ work[w].pc \in DOMAIN AfterCheck
  /\ IF Stopped(w) = "none" THEN To(w, AfterCheck[work[w].pc]) ELSE Throw(w, Stopped(w))
  /\ UNCHANGED <<session, chunks, files, job, bull, proc, objectVars, landed, upsets, pauses>>

Readable(u) == chunks[u] = Chunk /\ files[u]

\* A progress report also writes the status.
Progressed(w) == [job[Uploaded(w)] EXCEPT !.status = "processing"]

\* readUploadFile and the parse.  The progress callback tells a row that it may
\* not write as "cancelled", whatever took the row away.
ReadUpload(w) ==
  /\ work[w].pc = "read" /\ Readable(Uploaded(w))
  /\ IF Owns(w) THEN SetJob(w, Progressed(w)) /\ To(w, "admit")
                ELSE UNCHANGED job /\ Throw(w, "cancelled")
  /\ UNCHANGED <<session, chunks, files, bull, proc, objectVars, landed, upsets, pauses>>

UploadUnreadable(w) ==
  /\ \/ work[w].pc = "read" /\ ~Readable(Uploaded(w))
     \/ work[w].pc = "put" /\ ~files[Uploaded(w)]
  /\ Throw(w, "error")
  /\ UNCHANGED <<session, chunks, files, job, bull, proc, objectVars, landed, upsets, pauses>>

\* A file that does not parse, an object store that answers with an error, or a
\* base revision that has changed.
ImportFails(w) ==
  /\ work[w].pc \in {"read", "put", "publish"} /\ Throw(w, "error")
  /\ UNCHANGED <<session, chunks, files, job, bull, proc, objectVars, landed, upsets, pauses>>

\* The heartbeat finds that the row is no longer its own and aborts the signal.
HeartbeatAborts(w) ==
  /\ work[w].pc \in {"read", "put"}
  /\ ~(Owns(w) /\ job[Uploaded(w)].status = "processing")
  /\ Throw(w, "error")
  /\ UNCHANGED <<session, chunks, files, job, bull, proc, objectVars, landed, upsets, pauses>>

Heartbeat(w) ==
  /\ work[w].pc \notin {"idle", "claim", "return", "throw"}
  /\ Owns(w) /\ job[Uploaded(w)].status = "processing" /\ job[Uploaded(w)].stale
  /\ SetJob(w, job[Uploaded(w)])
  /\ UNCHANGED <<session, chunks, files, bull, work, proc, objectVars, landed, upsets, pauses>>

ReserveObjects(w) ==
  /\ work[w].pc = "reserve"
  /\ outbox' = Reserve({KeyOf(w)})
  /\ reused' = IF outbox[KeyOf(w)] = "none" THEN reused ELSE reused \cup {KeyOf(w)}
  /\ To(w, "put")
  /\ UNCHANGED <<session, chunks, files, job, bull, proc, store, ref, drain, landed, upsets, pauses>>

\* putRawBookObject reads the assembled file in the upload's directory.
PutObjects(w) ==
  /\ work[w].pc = "put" /\ files[Uploaded(w)]
  /\ store' = store \cup {KeyOf(w)}
  /\ work' = [work EXCEPT ![w] = [@ EXCEPT !.pc = "recheck", !.wrote = TRUE]]
  /\ UNCHANGED <<session, chunks, files, job, bull, proc, outbox, ref, drain, reused, landed, upsets, pauses>>

\* The object store writes the object and the answer is an error: its key is
\* not among those the catch block will queue for deletion.
PutAnswerLost(w) ==
  /\ work[w].pc = "put" /\ files[Uploaded(w)] /\ UpsetLeft
  /\ store' = store \cup {KeyOf(w)}
  /\ Throw(w, "error")
  /\ upsets' = upsets + 1
  /\ UNCHANGED <<session, chunks, files, job, bull, proc, outbox, ref, drain, reused, landed, pauses>>

\* Mutant: the transaction only asks whether the import is already done.
Bug_PublishableUnlessDone(w) == job[Uploaded(w)].status # "done"

Publishable(w) ==
  /\ session[Uploaded(w)] = "queued"
  /\ job[Uploaded(w)].status = "processing" /\ Owns(w)

\* The obsolete object of the book is queued for deletion in the transaction.
\* A lost reply leaves the try block although the transaction has committed.
Publish(w) ==
  LET u == Uploaded(w)  b == BookOf[u]  k == KeyOf(w) IN
  /\ work[w].pc = "publish" /\ Publishable(w)
  /\ ref' = [ref EXCEPT ![b] = k]
  /\ outbox' = Enqueue(Release(outbox, {k}), {ref[b]} \ {None, k})
  /\ session' = [session EXCEPT ![u] = "imported"]
  /\ chunks' = [chunks EXCEPT ![u] = {}]
  /\ SetJob(w, [job[u] EXCEPT !.status = "done"])
  /\ landed' = [landed EXCEPT ![u] = @ + 1]
  /\ \/ To(w, "cleanup") /\ UNCHANGED upsets
     \/ Throw(w, "error") /\ UpsetLeft /\ upsets' = upsets + 1
  /\ UNCHANGED <<files, bull, proc, store, drain, reused, pauses>>

PublishRefused(w) ==
  /\ work[w].pc = "publish" /\ ~Publishable(w)
  /\ Throw(w, "cancelled")
  /\ UNCHANGED <<session, chunks, files, job, bull, proc, objectVars, landed, upsets, pauses>>

RemoveDirectory(w) ==
  /\ work[w].pc \in {"cleanup", "drop_files"}
  /\ files' = [files EXCEPT ![Uploaded(w)] = FALSE]
  /\ To(w, "return")
  /\ UNCHANGED <<session, chunks, job, bull, proc, objectVars, landed, upsets, pauses>>

(***************************************************************************)
(* The catch block                                                         *)
(***************************************************************************)
AfterAbandon(why) ==
  CASE why = "cancelled" -> "drop_rows" [] why = "superseded" -> "return" [] OTHER -> "judge"

AbandonObjects(w) ==
  /\ work[w].pc = "abandon"
  /\ outbox' = IF work[w].wrote THEN Enqueue(outbox, {KeyOf(w)}) ELSE outbox
  /\ To(w, AfterAbandon(work[w].why))
  /\ UNCHANGED <<session, chunks, files, job, bull, proc, store, ref, drain, reused, landed, upsets, pauses>>

\* Mutant: one try too many.
Bug_FinalTryLate(w) == work[w].try > MaxTries

FinalTry(w) == work[w].try >= MaxTries

Judge(w) ==
  /\ work[w].pc = "judge"
  /\ To(w, CASE Stopped(w) = "cancelled" -> "drop_rows"
             [] Stopped(w) = "superseded" -> "return"
             [] OTHER -> IF FinalTry(w) THEN "fail" ELSE "retry")
  /\ UNCHANGED <<session, chunks, files, job, bull, proc, objectVars, landed, upsets, pauses>>

DropChunks(w) ==
  /\ work[w].pc = "drop_rows"
  /\ chunks' = [chunks EXCEPT ![Uploaded(w)] = {}]
  /\ To(w, "drop_files")
  /\ UNCHANGED <<session, files, job, bull, proc, objectVars, landed, upsets, pauses>>

\* Mutant: a late failure overwrites an upload that was imported or cancelled.
Bug_FailableAlways(u) == TRUE

Failable(u) == session[u] \notin {"imported", "cancelled"}

FailSession(w) ==
  LET u == Uploaded(w) IN
  /\ work[w].pc = "fail"
  /\ session' = IF Failable(u) THEN [session EXCEPT ![u] = "failed"] ELSE session
  /\ To(w, "fail_job")
  /\ UNCHANGED <<chunks, files, job, bull, proc, objectVars, landed, upsets, pauses>>

FailJob(w) ==
  /\ work[w].pc = "fail_job"
  /\ IF Owns(w) THEN SetJob(w, [job[Uploaded(w)] EXCEPT !.status = "failed"]) ELSE UNCHANGED job
  /\ To(w, "throw")
  /\ UNCHANGED <<session, chunks, files, bull, proc, objectVars, landed, upsets, pauses>>

\* The job keeps its active execution: BullMQ will deliver it again.
RequeueJob(w) ==
  IF Owns(w) THEN SetJob(w, [job[Uploaded(w)] EXCEPT !.status = "queued"]) ELSE UNCHANGED job

Retry(w) ==
  /\ work[w].pc = "retry"
  /\ RequeueJob(w)
  /\ To(w, "throw")
  /\ UNCHANGED <<session, chunks, files, bull, proc, objectVars, landed, upsets, pauses>>

(***************************************************************************)
(* BullMQ records the end of a run, if the run still holds the lock.       *)
(***************************************************************************)
EndState(w) ==
  IF work[w].pc = "return" \/ FinalTry(w) THEN "ended" ELSE "waiting"

Finish(w) ==
  /\ work[w].pc \in {"return", "throw"}
  /\ bull' = IF work[w].lock
             THEN [bull EXCEPT ![work[w].exec] = [@ EXCEPT !.state = EndState(w), !.made = work[w].try]]
             ELSE bull
  /\ work' = [work EXCEPT ![w] = NoExecution]
  /\ UNCHANGED <<session, chunks, files, job, proc, objectVars, landed, upsets, pauses>>

ImportStep(w) ==
  \/ \E x \in Exec : Deliver(w, x)
  \/ ClaimImport(w) \/ ClaimRefused(w) \/ Check(w)
  \/ ReadUpload(w) \/ UploadUnreadable(w)
  \/ ReserveObjects(w) \/ PutObjects(w) \/ Publish(w) \/ PublishRefused(w)
  \/ RemoveDirectory(w)
  \/ AbandonObjects(w) \/ Judge(w) \/ DropChunks(w)
  \/ FailSession(w) \/ FailJob(w) \/ Retry(w) \/ Finish(w)

-----------------------------------------------------------------------------
(* The environment *)

\* The worker process dies and is started again.
WorkerCrash(w) ==
  /\ UpsetLeft
  /\ work[w].pc # "idle" \/ proc[w].pc \notin {"idle", "boot"}
  /\ work' = [work EXCEPT ![w] = NoExecution]
  /\ proc' = [proc EXCEPT ![w] = Started]
  /\ upsets' = upsets + 1
  /\ UNCHANGED <<session, chunks, files, job, bull, objectVars, landed, pauses>>

\* A blocked event loop does not extend the lock of the delivery it runs.
LockLost(w) ==
  /\ UpsetLeft /\ work[w].lock
  /\ work' = [work EXCEPT ![w] = [@ EXCEPT !.lock = FALSE]]
  /\ upsets' = upsets + 1
  /\ UNCHANGED <<session, chunks, files, job, bull, proc, objectVars, landed, pauses>>

=============================================================================
