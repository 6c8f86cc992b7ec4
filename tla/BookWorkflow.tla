--------------------------- MODULE BookWorkflow ---------------------------
(***************************************************************************)
(* The hosted book AI workflow: bundles of chapters are analysed one after *)
(* another, their character graphs merged, and the chapters labelled       *)
(* window by window, each stage as provider jobs.  Worker callbacks and a  *)
(* reconciliation pass advance a workflow, a user starts, retries and      *)
(* cancels it.  Every one of them reads the row, reads the links, decides  *)
(* and writes, with no lock and no condition on the row in between.        *)
(***************************************************************************)
EXTENDS WorkflowChildren

\* Mutant: a child somebody cancelled is taken for one that is still to come.
Bug_OnlyFailed(js) == {j \in js : child[j].status = "failed"}

Linked(w, stage) == {j \in link[w] : j.stage = stage}
Failed(js)       == {j \in js : child[j].status \in {"failed", "cancelled"}}
Pending(js)      == {j \in js : child[j].status \in Active}
Succeeded(js)    == {j \in js : child[j].status = "succeeded"}
First(js)        == CHOOSE j \in js : \A k \in js : j.n <= k.n

\* Mutant: the windows are labelled from the end.
Bug_LastWindow(todo) == CHOOSE n \in todo : \A m \in todo : m <= n

\* The labels of a chapter carry on from the window before it.
NextWindow(todo) == CHOOSE n \in todo : \A m \in todo : n <= m

Decides(do, target) == [do |-> do, target |-> target]
Enqueues(stage, n)  == Decides("enqueue", [stage |-> stage, n |-> n])

\* Stages before this one are over; this one is not.
Holds(js) == Failed(js) \cup Pending(js) # {}
Held(js)  == IF Failed(js) # {} THEN Decides("fail", First(Failed(js))) ELSE Decides("progress", None)

\* advanceBookAIWorkflow: what the links ask for.
NextStep(w) ==
  LET bundles  == Linked(w, "bundle")
      merges   == Linked(w, "merge")
      repairs  == Linked(w, "repair")
      labels   == Linked(w, "label")
      repaired == {j.n : j \in Succeeded(repairs)}
      broken   == Failed({j \in labels : j.n \notin repaired})
      todo     == (1 .. LabelWindows) \ (repaired \cup {j.n : j \in Succeeded(labels)})
  IN IF Holds(bundles) THEN Held(bundles)
     ELSE IF Cardinality(bundles) < BundleWindows THEN Enqueues("bundle", Cardinality(bundles) + 1)
     ELSE IF merges = {} THEN Enqueues("merge", 1)
     ELSE IF Holds(merges) THEN Held(merges)
     ELSE IF Holds(repairs) THEN Held(repairs)
     ELSE IF broken # {} THEN
       LET j == First(broken) IN
       Decides(IF child[j].status = "failed" /\ child[j].delegated THEN "repair" ELSE "fail", j)
     ELSE IF Pending(labels) # {} THEN Held(labels)
     ELSE IF todo # {} THEN Enqueues("label", NextWindow(todo))
     ELSE Decides("verify", None)

-----------------------------------------------------------------------------
(* How a process comes to a workflow *)

\* loadWorkflow has the row, and its progress, and is about to read the links.
Reading(w, goal) == [NoProcess EXCEPT !.pc = "links", !.wf = w, !.goal = goal,
                                      !.failed = wf[w].failed, !.missing = wf[w].missing]

\* Mutant: a pass does not look at the row again.
Bug_AdvancesAnyway(p, w) ==
  proc' = [proc EXCEPT ![p] = [Reading(w, "advance") EXCEPT !.pass = proc[p].pass \ {w}]]

\* advanceBookAIWorkflow returns unless the row says running.
Advances(p, w) ==
  LET pass == proc[p].pass \ {w} IN
  proc' = [proc EXCEPT ![p] = IF wf[w].status = "running"
                              THEN [Reading(w, "advance") EXCEPT !.pass = pass]
                              ELSE GoesOn(pass)]

\* Mutant: the pass looks for finished children only.
Bug_HasSucceededChild(w) == Succeeded(link[w]) # {}

HasTerminalChild(w) == \E j \in link[w] : child[j].status \in Settled

Unaltered == UNCHANGED <<wf, child, link, book, landed, raced, retries, upsets, edits>>

\* The worker's callback after a child, and the API's after cancelling one.
WorkerAdvances(k, w) ==
  /\ proc[k].pc = "idle"
  /\ wf[w].status = "running" /\ HasTerminalChild(w)
  /\ proc' = [proc EXCEPT ![k] = Reading(w, "advance")]
  /\ Unaltered

\* reconcileTerminalBookAIWorkflowProviderJobs.
PassBegins(r) ==
  LET ws == {w \in Workflow : wf[w].status = "running" /\ HasTerminalChild(w)} IN
  /\ proc[r].pc = "idle" /\ ws # {}
  /\ proc' = [proc EXCEPT ![r].pc = "next", ![r].pass = ws]
  /\ Unaltered

PassNext(r) ==
  /\ proc[r].pc = "next"
  /\ \E w \in proc[r].pass : Advances(r, w)
  /\ Unaltered

\* A start finds no active workflow of its owner, under the advisory lock.
StartWorkflow(t, w) ==
  /\ proc[t].pc = "idle"
  /\ wf[w].status = "absent"
  /\ \A v \in Workflow : ~(wf[v].status = "running" /\ wf[v].fence = book.fence)
  /\ wf' = [wf EXCEPT ![w] = [NoWorkflow EXCEPT !.status = "running", !.fence = book.fence]]
  /\ proc' = [proc EXCEPT ![t] = [NoProcess EXCEPT !.pc = "enqueue", !.wf = w, !.goal = "start",
                                                   !.target = [stage |-> "bundle", n |-> 1]]]
  /\ UNCHANGED <<child, link, book, landed, raced, retries, upsets, edits>>

UserRetries(t, w) ==
  /\ retries < MaxRetries /\ retries' = retries + 1
  /\ proc[t].pc = "idle"
  /\ wf[w].status = "needs_review"
  /\ proc' = [proc EXCEPT ![t] = Reading(w, "retry")]
  /\ UNCHANGED <<wf, child, link, book, landed, raced, upsets, edits>>

UserCancels(t, w) ==
  /\ proc[t].pc = "idle"
  /\ wf[w].status \in {"running", "needs_review"}
  /\ proc' = [proc EXCEPT ![t].pc = "cancel", ![t].wf = w]
  /\ Unaltered

-----------------------------------------------------------------------------
(* What the links ask for, and what is written without a child *)

\* What a retry runs again: the failure on record or else every failed link,
\* and the labels of the windows the last verification missed.
ToRetry(p) ==
  LET js == link[proc[p].wf] IN
  {j \in Failed(js) : proc[p].failed # None => j = proc[p].failed}
    \cup {j \in js : j.stage = "label" /\ j.n \in proc[p].missing /\ child[j].status \in Settled}

ReadLinks(p) ==
  LET s == NextStep(proc[p].wf) IN
  /\ proc[p].pc = "links"
  /\ proc' = IF proc[p].goal = "retry"
             THEN [proc EXCEPT ![p].pc = "mark",
                     ![p].todo = {[job |-> j, status |-> child[j].status, cur |-> child[j].cur] : j \in ToRetry(p)}]
             ELSE [proc EXCEPT ![p].pc = s.do, ![p].target = s.target]
  /\ Unaltered

\* updateWorkflowProgress: the status, if any, and the progress that was read
\* with what the caller puts over it.
Written(p, status, failed) ==
  wf' = [wf EXCEPT ![proc[p].wf] = [@ EXCEPT !.status = status, !.failed = failed, !.missing = proc[p].missing]]

SameStatus(p) == wf[proc[p].wf].status

\* The progress that was read is not written again.
Forgets(p, pc, target) ==
  proc' = [proc EXCEPT ![p].pc = pc, ![p].target = target, ![p].failed = None, ![p].missing = {}]

\* The children are being waited for.
KeepProgress(p) ==
  /\ proc[p].pc = "progress"
  /\ Written(p, SameStatus(p), proc[p].failed)
  /\ Done(p)
  /\ UNCHANGED <<child, link, book, landed, raced, retries, upsets, edits>>

\* failWorkflow
FailWorkflow(p) ==
  /\ proc[p].pc = "fail"
  /\ Written(p, "needs_review", proc[p].target)
  /\ Races(p, {proc[p].wf})
  /\ Done(p)
  /\ UNCHANGED <<child, link, book, landed, retries, upsets, edits>>

-----------------------------------------------------------------------------
(* The next child *)

\* insertProviderJob
Inserted(row) ==
  CASE row.status = "absent" -> [row EXCEPT !.status = "queued"]
    [] row.status \in {"failed", "cancelled"} -> [Queued(row) EXCEPT !.delegated = FALSE]
    [] OTHER -> row

\* The job, its link in the place of what `replaced` names, and the progress,
\* in one transaction.
Link(p, j, replaced) ==
  /\ child' = [child EXCEPT ![j] = Inserted(@)]
  /\ link' = [link EXCEPT ![j.wf] = (@ \ replaced) \cup {j}]
  /\ Written(p, SameStatus(p), proc[p].failed)
  /\ Forgets(p, IF child'[j].status = "queued" THEN "admit" ELSE "reload", j)
  /\ UNCHANGED <<book, landed, raced, retries, upsets, edits>>

\* enqueueGraphBootstrapJob, enqueueGraphMergeJob, enqueueChapterLabelingJobs
Enqueue(p) ==
  LET x == proc[p].target
      w == proc[p].wf
      j == [wf |-> w, stage |-> x.stage, n |-> x.n, graph |-> book.graph]
  IN /\ proc[p].pc = "enqueue"
     /\ IF book.fence = wf[w].fence
        THEN Link(p, j, {k \in Linked(w, x.stage) : k.n = x.n})
        ELSE Throw(p) /\ Unaltered

\* enqueueChapterLabelRepairJob, for the candidate of the failed label.
EnqueueRepair(p) ==
  LET label == proc[p].target IN
  /\ proc[p].pc = "repair"
  /\ IF Verified(label)
     THEN Link(p, [label EXCEPT !.stage = "repair"], {})
     ELSE Throw(p) /\ Unaltered

\* What follows an enqueue: a start is answered, a retry goes on with the
\* next job, an advance looks whether the child is over already.
GoOn(p) ==
  IF proc[p].goal = "start" THEN Done(p)
  ELSE Step(p, IF proc[p].goal = "retry" THEN "retry" ELSE "reload")

\* enqueueProviderJob: the job may be admitted, not queued any more or admitted
\* by another process, or over a limit.
Admit(p) ==
  LET j == proc[p].target IN
  /\ proc[p].pc = "admit"
  /\ IF Admissible(j)
     THEN child' = [child EXCEPT ![j] = Admitted(@)]
     ELSE UNCHANGED child
  /\ GoOn(p)
  /\ UNCHANGED <<wf, link, book, landed, raced, retries, upsets, edits>>

AdmissionRejected(p) ==
  LET j == proc[p].target IN
  /\ proc[p].pc = "admit" /\ Admissible(j)
  /\ Rejected(p, j)
  /\ Done(p)
  /\ UNCHANGED <<link, book, landed, retries, edits>>

\* A child that is over already advances the workflow at once.
Reload(p) ==
  LET j == proc[p].target IN
  /\ proc[p].pc = "reload"
  /\ IF proc[p].goal # "start"
        /\ \E k \in Linked(j.wf, j.stage) : k.n = j.n /\ child[k].status \in Settled
     THEN Advances(p, j.wf)
     ELSE Done(p)
  /\ Unaltered

-----------------------------------------------------------------------------
(* The end: readiness *)

\* Mutant: a speaker without a voice does not hold the workflow up.
Bug_VerifyLabels(p) ==
  LET missing == (1 .. LabelWindows) \ book.labelled IN
  /\ proc[p].pc = "verify"
  /\ proc' = [proc EXCEPT ![p].pc = IF missing = {} THEN "ready" ELSE "unready",
                          ![p].missing = missing]
  /\ Unaltered

\* verifyTTSReadiness
Verify(p) ==
  LET missing == (1 .. LabelWindows) \ book.labelled IN
  /\ proc[p].pc = "verify"
  /\ proc' = [proc EXCEPT ![p].pc = IF missing = {} /\ book.voices THEN "ready" ELSE "unready",
                          ![p].missing = missing]
  /\ Unaltered

Ready(p) ==
  /\ proc[p].pc = "ready"
  /\ Written(p, "succeeded", proc[p].failed)
  /\ Races(p, {proc[p].wf})
  /\ Done(p)
  /\ UNCHANGED <<child, link, book, landed, retries, upsets, edits>>

Unready(p) ==
  /\ proc[p].pc = "unready"
  /\ Written(p, "needs_review", proc[p].failed)
  /\ Races(p, {proc[p].wf})
  /\ Done(p)
  /\ UNCHANGED <<child, link, book, landed, retries, upsets, edits>>

-----------------------------------------------------------------------------
(* Retry and cancellation *)

\* resumeBookAIWorkflow marks the row, and with nothing to run again advances.
MarkRetried(p) ==
  /\ proc[p].pc = "mark"
  /\ Written(p, "running", None)
  /\ raced' = raced \ {proc[p].wf}
  /\ IF proc[p].todo = {}
     THEN proc' = [proc EXCEPT ![p] = GoesOn({@.wf})]
     ELSE Forgets(p, "retry", None)
  /\ UNCHANGED <<child, link, book, landed, retries, upsets, edits>>

\* A job is queued again if it is still the attempt that was read.
RetryChild(p) ==
  /\ proc[p].pc = "retry"
  /\ \E x \in proc[p].todo :
       IF child[x.job].status = x.status /\ child[x.job].cur = x.cur
       THEN /\ child' = [child EXCEPT ![x.job] = Queued(@)]
            /\ proc' = [proc EXCEPT ![p].pc = "admit", ![p].target = x.job, ![p].todo = @ \ {x}]
       ELSE /\ UNCHANGED child
            /\ proc' = [proc EXCEPT ![p].todo = @ \ {x}]
  /\ UNCHANGED <<wf, link, book, landed, raced, retries, upsets, edits>>

RetryDone(p) ==
  /\ proc[p].pc = "retry" /\ proc[p].todo = {}
  /\ Done(p)
  /\ Unaltered

\* cancelBookAIWorkflow: the children and the row in one transaction.  A child
\* linked between its statements is as if linked right after it.
CancelWorkflow(p) ==
  LET w == proc[p].wf IN
  /\ proc[p].pc = "cancel"
  /\ child' = CancelActive(link[w])
  /\ IF wf[w].status \in {"running", "needs_review"}
     THEN wf' = [wf EXCEPT ![w].status = "cancelled"] /\ Races(p, {w})
     ELSE UNCHANGED <<wf, raced>>
  /\ Done(p)
  /\ UNCHANGED <<link, book, landed, retries, upsets, edits>>

Crash(p) ==
  /\ upsets < MaxUpsets /\ upsets' = upsets + 1
  /\ proc[p].pc # "idle"
  /\ Throw(p)
  /\ UNCHANGED <<wf, child, link, book, landed, raced, retries, edits>>

-----------------------------------------------------------------------------

Init ==
  /\ wf = [w \in Workflow |-> NoWorkflow]
  /\ child = [j \in Job |-> NoChild]
  /\ link = [w \in Workflow |-> {}]
  /\ book = [graph |-> 0, fence |-> 0, labelled |-> {}, voices |-> TRUE]
  /\ proc = [p \in Proc |-> NoProcess]
  /\ landed = {} /\ raced = {}
  /\ retries = 0 /\ upsets = 0 /\ edits = 0

\* The rest of what a process has begun.
Continues(p) ==
  \/ ReadLinks(p) \/ KeepProgress(p) \/ FailWorkflow(p)
  \/ Enqueue(p) \/ EnqueueRepair(p) \/ Admit(p) \/ Reload(p)
  \/ Verify(p) \/ Ready(p) \/ Unready(p)
  \/ MarkRetried(p) \/ RetryChild(p) \/ RetryDone(p) \/ CancelWorkflow(p)
  \/ PassNext(p)

Next ==
  \/ \E t \in Task, w \in Workflow :
       StartWorkflow(t, w) \/ UserRetries(t, w) \/ UserCancels(t, w)
  \/ \E k \in Worker, w \in Workflow : WorkerAdvances(k, w)
  \/ \E r \in Reconciler : PassBegins(r)
  \/ \E p \in Proc : Continues(p) \/ AdmissionRejected(p) \/ Crash(p)
  \/ \E j \in Job : ChildStep(j) \/ ChildStrands(j) \/ RecoveryRejects(j) \/ ChildCancelled(j)
  \/ \E n \in 1 .. LabelWindows : LabelsRemoved(n)
  \/ GraphEdited \/ VoicesAssigned \/ BookReplaced

\* The recovery pass of worker.ts runs on a timer, the queue runs what was admitted, and a
\* process that was not killed goes on.  Nothing ends a stranded child.
Fairness ==
  /\ \A r \in Reconciler : WF_vars(PassBegins(r))
  /\ \A p \in Proc : WF_vars(Continues(p))
  /\ \A j \in Job : WF_vars(ChildStep(j))

Spec == Init /\ [][Next]_vars /\ Fairness

-----------------------------------------------------------------------------
(* Properties *)

\* Types, for the variables of WorkflowStore.
TypeOK ==
  /\ wf \in [Workflow -> WorkflowRow]
  /\ child \in [Job -> ChildRow]
  /\ link \in [Workflow -> SUBSET Job]
  /\ book \in Book
  /\ proc \in [Proc -> Process]
  /\ landed \subseteq Job /\ raced \subseteq Workflow
  /\ retries \in 0 .. MaxRetries /\ upsets \in 0 .. MaxUpsets /\ edits \in 0 .. MaxEdits

HasLanded(w, stages, n) == \E j \in landed : j.wf = w /\ j.stage \in stages /\ j.n = n

\* A child is linked only when all it builds on has been promoted: bundles in
\* order, the merge after the last bundle, the labels of a window after the
\* merge and those of the windows before it, whoever decided from whichever
\* reading of the links.
ChildrenFollowPlan ==
  \A w \in Workflow : \A j \in link[w] :
    /\ j.stage = "bundle" => \A n \in 1 .. j.n - 1 : HasLanded(w, {"bundle"}, n)
    /\ j.stage # "bundle" => \A n \in 1 .. BundleWindows : HasLanded(w, {"bundle"}, n)
    /\ j.stage \in {"label", "repair"} =>
         /\ HasLanded(w, {"merge"}, 1)
         /\ \A n \in 1 .. j.n - 1 : HasLanded(w, {"label", "repair"}, n)

\* A workflow succeeds when every window has labels and every speaker a voice,
\* unless some were taken away after that was verified.
SucceedsWhenReadyUnlessOvertaken ==
  [][\A w \in Workflow : wf[w].status # "succeeded" /\ wf'[w].status = "succeeded" =>
       \/ book.labelled = 1 .. LabelWindows /\ book.voices
       \/ \E p \in Proc : proc[p].wf = w /\ proc[p].overtaken]_vars

\* A settled workflow that nobody was working on when it settled moves again
\* only by a retry of one in review, and a review only to a retry or an end
\* the user or a replacement asks for.  Otherwise a callback that read it
\* running overwrites a cancellation, a review or a success.
SettledStaysUnlessRaced ==
  [][\A w \in Workflow \ raced :
       wf'[w].status # wf[w].status /\ wf[w].status \in {"needs_review", "succeeded", "cancelled"} =>
         /\ wf[w].status = "needs_review"
         /\ \/ wf'[w].status = "cancelled"
            \/ wf'[w].status = "running" /\ \E p \in Task : MarkRetried(p)]_vars

\* A child that a cancelled workflow is linked to neither waits nor runs, unless
\* a process that had begun before queued it.
CancelLeavesNoChildUnlessRaced ==
  \A w \in Workflow \ raced : wf[w].status = "cancelled" => Pending(link[w]) = {}

\* A failed or cancelled child runs again, and may be paid for again, only
\* when a user retries, unless an advance that read the links before it was
\* linked links it once more.
RunsAgainOnRetryUnlessLate ==
  [][\A j \in Job : child[j].status \in Settled /\ child'[j].status = "queued" =>
       \/ \E p \in Task : proc[p].pc = "retry" /\ retries > 0
       \/ \E p \in Proc : proc[p].pc \in {"enqueue", "repair"} /\ proc[p].wf = j.wf
                          /\ NextStep(j.wf) # Decides(proc[p].pc, proc[p].target)]_vars

\* A start that died before its first child was linked.
Unborn(w) == link[w] = {}

\* The next step of the workflow can only be refused: the book was replaced,
\* or its graph has changed since the labels that are to be repaired.
Refused(w) ==
  LET s == NextStep(w) IN
  \/ s.do = "enqueue" /\ book.fence # wf[w].fence
  \/ s.do = "repair" /\ ~Verified(s.target)

\* A child of the workflow runs and nobody but the user will end it.
Stranded(w) == \E j \in link[w] : child[j].status = "running" /\ child[j].stranded

\* A running workflow ends, or comes to a review, unless it is stuck in one of these ways:
\* unborn, refused, or waiting for good for a stranded child.
RunningWorkflowSettles ==
  \A w \in Workflow :
    wf[w].status = "running" ~> (wf[w].status # "running" \/ Unborn(w) \/ Refused(w) \/ []Stranded(w))

=============================================================================
