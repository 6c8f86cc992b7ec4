-------------------------- MODULE WorkflowChildren --------------------------
(***************************************************************************)
(* What happens to a workflow's children and to its book outside the       *)
(* workflow's own code: admission, execution and promotion, the recovery   *)
(* pass, the user's edits and the replacement of the book.                 *)
(***************************************************************************)
EXTENDS WorkflowStore

\* Mutant: a retry has a status of its own.
Bug_Retrying(row) == [row EXCEPT !.status = "retrying", !.cur = 0]

\* guard_provider_job_status_transition: a job that is queued again has no attempt.
Queued(row) == [row EXCEPT !.status = "queued", !.cur = 0]

Admitted(row) == [row EXCEPT !.status = "running", !.cur = row.count + 1, !.count = @ + 1,
                             !.stranded = FALSE]

\* Its worker can end it.
Executing(j) == child[j].status = "running" /\ ~child[j].stranded

\* admitProviderJobAttempt finds the job queued and without an attempt.
Admissible(j) == child[j].status = "queued"

\* Over a limit: the job fails and the running workflows that point at it go
\* to review, in one statement of process p.
Rejected(p, j) ==
  LET ws == {w \in Workflow : j \in link[w] /\ wf[w].status = "running"} IN
  /\ upsets < MaxUpsets /\ upsets' = upsets + 1
  /\ child' = [child EXCEPT ![j].status = "failed"]
  /\ wf' = [w \in Workflow |->
       IF w \in ws THEN [wf[w] EXCEPT !.status = "needs_review", !.failed = j] ELSE wf[w]]
  /\ Races(p, ws)

\* The recovery pass enqueues a job that was queued and never admitted.
RecoveryAdmits(j) ==
  /\ Admissible(j)
  /\ child' = [child EXCEPT ![j] = Admitted(@)]
  /\ UNCHANGED <<wf, link, book, proc, landed, raced, retries, upsets, edits>>

RecoveryRejects(j) ==
  /\ Admissible(j)
  /\ Rejected(None, j)
  /\ UNCHANGED <<link, book, proc, landed, retries, edits>>

\* Promotion: the artifact, the canonical rows and the job in one transaction.
\* New labels may name speakers that have no voice yet.
ChildSucceeds(j) ==
  /\ Executing(j) /\ Verified(j)
  /\ j.stage = "merge" => book.graph < MaxGraph
  /\ child' = [child EXCEPT ![j].status = "succeeded"]
  /\ landed' = landed \cup {j}
  /\ CASE j.stage = "bundle" -> UNCHANGED <<book, proc>>
       [] j.stage = "merge"  -> book' = [book EXCEPT !.graph = @ + 1] /\ UNCHANGED proc
       [] OTHER -> \E voiced \in BOOLEAN :
            /\ book' = [book EXCEPT !.labelled = @ \cup {j.n}, !.voices = @ /\ voiced]
            /\ proc' = IF voiced THEN proc ELSE Overtaken
  /\ UNCHANGED <<wf, link, raced, retries, upsets, edits>>

\* Labels that do not validate are staged as the candidate of a repair, if
\* the input still holds and the provider options ask for it; any other
\* failure leaves the candidate of an earlier attempt.
ChildFails(j) ==
  /\ Executing(j)
  /\ \E delegated \in {child[j].delegated} \cup {j.stage = "label" /\ Verified(j)} :
       child' = [child EXCEPT ![j].status = "failed",
                              ![j].delegated = @ \/ delegated]
  /\ UNCHANGED <<wf, link, book, proc, landed, raced, retries, upsets, edits>>

\* The worker notices with a request in flight that its lease has expired: no worker and no
\* recovery pass ends the job any more (Stranded in ProviderJobs).
ChildStrands(j) ==
  /\ upsets < MaxUpsets /\ upsets' = upsets + 1
  /\ Executing(j)
  /\ child' = [child EXCEPT ![j].stranded = TRUE]
  /\ UNCHANGED <<wf, link, book, proc, landed, raced, retries, edits>>

\* POST /api/provider-jobs/:jobId/cancel.
ChildCancelled(j) ==
  /\ upsets < MaxUpsets /\ upsets' = upsets + 1
  /\ child[j].status \in Active
  /\ child' = [child EXCEPT ![j].status = "cancelled"]
  /\ UNCHANGED <<wf, link, book, proc, landed, raced, retries, edits>>

ChildStep(j) == RecoveryAdmits(j) \/ ChildSucceeds(j) \/ ChildFails(j)

-----------------------------------------------------------------------------
(* The user and the book *)

GraphEdited ==
  /\ edits < MaxEdits /\ edits' = edits + 1
  /\ book.graph < MaxGraph
  /\ book' = [book EXCEPT !.graph = @ + 1]
  /\ UNCHANGED <<wf, child, link, proc, landed, raced, retries, upsets>>

LabelsRemoved(n) ==
  /\ edits < MaxEdits /\ edits' = edits + 1
  /\ n \in book.labelled
  /\ book' = [book EXCEPT !.labelled = @ \ {n}]
  /\ proc' = Overtaken
  /\ UNCHANGED <<wf, child, link, landed, raced, retries, upsets>>

VoicesAssigned ==
  /\ ~book.voices
  /\ book' = [book EXCEPT !.voices = TRUE]
  /\ UNCHANGED <<wf, child, link, proc, landed, raced, retries, upsets, edits>>

\* Mutant: only what has not started is cancelled.
Bug_CancelQueued(js) ==
  [j \in Job |-> IF j \in js /\ child[j].status = "queued"
                 THEN [child[j] EXCEPT !.status = "cancelled"] ELSE child[j]]

CancelActive(js) ==
  [j \in Job |-> IF j \in js /\ child[j].status \in Active
                 THEN [child[j] EXCEPT !.status = "cancelled"] ELSE child[j]]

\* A replacement moves the fence, drops the labels and cancels what is not
\* over; the graph of the old content goes with the fence.
BookReplaced ==
  LET ws == {w \in Workflow : wf[w].status \in {"running", "needs_review"}} IN
  /\ upsets < MaxUpsets /\ upsets' = upsets + 1
  /\ ws # {}
  /\ book' = [book EXCEPT !.fence = @ + 1, !.labelled = {}]
  /\ proc' = Overtaken
  /\ wf' = [w \in Workflow |-> IF w \in ws THEN [wf[w] EXCEPT !.status = "cancelled"] ELSE wf[w]]
  /\ child' = CancelActive(Job)
  /\ Races(None, ws)
  /\ UNCHANGED <<link, landed, retries, edits>>

=============================================================================
