-------------------------- MODULE ProviderRequests --------------------------
(***************************************************************************)
(* The API side: a user asks for an analysis or TTS job, asks again once   *)
(* it has ended, or cancels it; and the two edits of a book that stop all  *)
(* of its jobs at once.  A request reads the row first and writes with a   *)
(* compare-and-set on what it read.                                        *)
(***************************************************************************)
EXTENDS ProviderQueue

\* What the request read of the row it will compare against.
Saw(r, j, pc) ==
  proc' = [proc EXCEPT ![r] = [NoProcess EXCEPT !.pc = pc, !.job = j,
                                                !.att = job[j].cur, !.seen = job[j].status]]

\* Mutant: the write compares the attempt and not the status.
Bug_MatchesAttemptOnly(r) == job[proc[r].job].cur = proc[r].att

Matches(r) ==
  LET j == proc[r].job IN job[j].status = proc[r].seen /\ job[j].cur = proc[r].att

(***************************************************************************)
(* POST analysis-jobs: insert the job, find it already queued, or find it  *)
(* ended and put it back in the queue.                                     *)
(***************************************************************************)
Submit(r, j) ==
  /\ proc[r].pc = "idle" /\ job[j].status = "absent" /\ asked[j] < MaxAsked
  /\ job' = [job EXCEPT ![j] = QueuedAgain]
  /\ asked' = [asked EXCEPT ![j] = @ + 1]
  /\ proc' = [proc EXCEPT ![r] = [NoProcess EXCEPT !.pc = "admit", !.job = j]]
  /\ UNCHANGED <<att, outbox, queue, work, landed, upsets, restructures>>

PostLoads(r, j) ==
  /\ proc[r].pc = "idle"
  /\ \/ /\ job[j].status = "queued"
        /\ proc' = [proc EXCEPT ![r] = [NoProcess EXCEPT !.pc = "admit", !.job = j]]
     \/ job[j].status \in Settled /\ asked[j] < MaxAsked /\ Saw(r, j, "requeue")
  /\ UNCHANGED <<job, att, outbox, queue, work, asked, landed, upsets, restructures>>

\* The transition guard clears current_attempt_id when a job is queued again.
Requeue(r) ==
  LET j == proc[r].job IN
  /\ proc[r].pc = "requeue" /\ Matches(r) /\ asked[j] < MaxAsked
  /\ job' = [job EXCEPT ![j] = QueuedAgain]
  /\ asked' = [asked EXCEPT ![j] = @ + 1]
  /\ proc' = [proc EXCEPT ![r] = [NoProcess EXCEPT !.pc = "admit", !.job = j]]
  /\ UNCHANGED <<att, outbox, queue, work, landed, upsets, restructures>>

RequeueRefused(r) ==
  /\ proc[r].pc = "requeue" /\ (~Matches(r) \/ asked[proc[r].job] >= MaxAsked)
  /\ Done(r)
  /\ UNCHANGED <<job, att, outbox, queue, work, asked, landed, upsets, restructures>>

(***************************************************************************)
(* POST cancel: the job and its current attempt are cancelled in one       *)
(* statement, then the BullMQ job is removed if no worker has locked it.   *)
(***************************************************************************)
CancelLoads(r, j) ==
  /\ proc[r].pc = "idle" /\ job[j].status \in Active
  /\ Saw(r, j, "cancel")
  /\ UNCHANGED <<job, att, outbox, queue, work, asked, landed, upsets, restructures>>

CancelledRow(row) == [EndAttempt(row, "cancelled", "other") EXCEPT !.code = "other"]

CancelJob(r) ==
  LET j == proc[r].job  a == job[j].cur IN
  /\ proc[r].pc = "cancel" /\ Matches(r)
  /\ job' = [job EXCEPT ![j] = JobBecomes(@, "cancelled", "other")]
  /\ att' = IF a # None /\ att[a].status \in Active
            THEN [att EXCEPT ![a] = CancelledRow(@)]
            ELSE att
  /\ Step(r, "remove")
  /\ UNCHANGED <<outbox, queue, work, asked, landed, upsets, restructures>>

CancelRefused(r) ==
  /\ proc[r].pc = "cancel" /\ ~Matches(r)
  /\ Done(r)
  /\ UNCHANGED <<job, att, outbox, queue, work, asked, landed, upsets, restructures>>

RemoveFromQueue(r) ==
  LET a == proc[r].att IN
  /\ proc[r].pc = "remove"
  /\ queue' = IF a # None /\ ~ \E w \in Worker : work[w].att = a /\ work[w].lock
              THEN [queue EXCEPT ![a] = "missing"] ELSE queue
  /\ Done(r)
  /\ UNCHANGED <<job, att, outbox, work, asked, landed, upsets, restructures>>

RequestStep(r) ==
  \/ Requeue(r) \/ RequeueRefused(r)
  \/ CancelJob(r) \/ CancelRefused(r) \/ RemoveFromQueue(r)
  \/ PublishStep(r)

RequestArrives(r) ==
  \E j \in Job : Submit(r, j) \/ PostLoads(r, j) \/ CancelLoads(r, j)

(***************************************************************************)
(* Book replacement stops every job of the book with its current attempt;  *)
(* the attempt keeps its outcome, billing state and lease.                 *)
(***************************************************************************)
StopAll(error) ==
  job' = [j \in Job |-> IF job[j].status \in Active
                        THEN JobBecomes(job[j], "cancelled", error) ELSE job[j]]

StoppedRow(row) == [row EXCEPT !.status = "cancelled", !.err = "other"]

BookReplaced ==
  /\ upsets < MaxUpsets
  /\ \E j \in Job : job[j].status \in Active
  /\ StopAll("other")
  /\ att' = [a \in Attempt |->
       IF /\ att[a].job # None /\ job[att[a].job].status \in Active
          /\ job[att[a].job].cur = a /\ att[a].status \in Active
       THEN StoppedRow(att[a]) ELSE att[a]]
  /\ upsets' = upsets + 1
  /\ UNCHANGED <<outbox, queue, work, proc, asked, landed, restructures>>

(***************************************************************************)
(* A manual chapter-structure change stops the jobs of the book and says   *)
(* nothing of their attempts.                                              *)
(***************************************************************************)
ChaptersRestructured ==
  /\ restructures < MaxRestructures
  /\ \E j \in Job : job[j].status \in Active
  /\ StopAll("other")
  /\ restructures' = restructures + 1
  /\ UNCHANGED <<att, outbox, queue, work, proc, asked, landed, upsets>>

=============================================================================
