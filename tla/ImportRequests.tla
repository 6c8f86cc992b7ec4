--------------------------- MODULE ImportRequests ---------------------------
(***************************************************************************)
(* The API side of an upload: receive a chunk, complete, ask for the       *)
(* status, cancel, prune.  The transactions lock the session row.          *)
(***************************************************************************)
EXTENDS ImportQueue

Enters(r, u, pc) == proc' = [proc EXCEPT ![r] = [NoProcess EXCEPT !.pc = pc, !.upload = u]]

PutChunk(u, c) ==
  /\ session[u] = "uploading" /\ c \notin chunks[u]
  /\ chunks' = [chunks EXCEPT ![u] = @ \cup {c}]
  /\ files' = [files EXCEPT ![u] = TRUE]
  /\ UNCHANGED <<session, job, bull, work, proc, objectVars, landed, upsets, pauses>>

CompleteUpload(r, u) ==
  /\ proc[r].pc = "idle" /\ session[u] = "uploading" /\ chunks[u] = Chunk
  /\ session' = [session EXCEPT ![u] = "queued"]
  /\ job' = [job EXCEPT ![u] = [NoJob EXCEPT !.status = "queued"]]
  /\ Enters(r, u, "look")
  /\ UNCHANGED <<chunks, files, bull, work, objectVars, landed, upsets, pauses>>

\* A status poll, or the upload completed again: a queued job is enqueued.
Poll(r, u) ==
  /\ proc[r].pc = "idle" /\ job[u].status = "queued"
  /\ Enters(r, u, "look")
  /\ UNCHANGED <<session, chunks, files, job, bull, work, objectVars, landed, upsets, pauses>>

(***************************************************************************)
(* DELETE upload.  The chunks of an import that is running are left to its *)
(* execution.                                                              *)
(***************************************************************************)
CancelledRow(row) == Touched([row EXCEPT !.status = "cancelled", !.cancel = TRUE, !.active = None])

Running(u) == session[u] = "queued" /\ job[u].status = "processing"

Cancellable(u) == session[u] \notin {"imported", "cancelled"}

CancelUpload(r, u) ==
  /\ proc[r].pc = "idle" /\ Cancellable(u)
  /\ job' = IF job[u].status \in {"queued", "processing"}
            THEN [job EXCEPT ![u] = CancelledRow(@)] ELSE job
  /\ session' = [session EXCEPT ![u] = "cancelled"]
  /\ IF Running(u) THEN UNCHANGED <<chunks, proc>>
                   ELSE chunks' = [chunks EXCEPT ![u] = {}] /\ Enters(r, u, "rmdir")
  /\ UNCHANGED <<files, bull, work, objectVars, landed, upsets, pauses>>

RemoveCancelled(r) ==
  /\ proc[r].pc = "rmdir"
  /\ files' = [files EXCEPT ![proc[r].upload] = FALSE]
  /\ proc' = [proc EXCEPT ![r] = NoProcess]
  /\ UNCHANGED <<session, chunks, job, bull, work, objectVars, landed, upsets, pauses>>

\* An upload nobody has touched for STALE_UPLOAD_MAX_AGE_MS, days by default:
\* nothing that was under way then still is.
PruneUpload(u) ==
  /\ session[u] \in {"uploading", "failed", "imported", "cancelled"}
  /\ ~Alive(u) /\ \A p \in Proc : proc[p].upload # u
  /\ session' = [session EXCEPT ![u] = "expired"]
  /\ chunks' = [chunks EXCEPT ![u] = {}]
  /\ files' = [files EXCEPT ![u] = FALSE]
  /\ UNCHANGED <<job, bull, work, proc, objectVars, landed, upsets, pauses>>

\* The API process dies.
RequestCrash(r) ==
  /\ proc[r].pc # "idle" /\ UpsetLeft
  /\ proc' = [proc EXCEPT ![r] = NoProcess]
  /\ upsets' = upsets + 1
  /\ UNCHANGED <<session, chunks, files, job, bull, work, objectVars, landed, pauses>>

RequestStep(r) == EnqueueStep(r) \/ RemoveCancelled(r)

RequestArrives(r) == \E u \in Upload : CompleteUpload(r, u) \/ Poll(r, u) \/ CancelUpload(r, u)

=============================================================================
