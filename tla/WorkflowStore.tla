--------------------------- MODULE WorkflowStore ---------------------------
(***************************************************************************)
(* What the actors of the hosted book AI workflow share: the rows of       *)
(* book_ai_workflows and their links, the provider jobs the links name     *)
(* (children), and what an analysis reads and writes of the book.          *)
(*                                                                         *)
(* A child's job id is a hash of its workflow, stage, window and of the    *)
(* graph it is about, so those are its identity here.  Its attempts,       *)
(* leases and queue entries are the subject of ProviderJobs: here a child  *)
(* is queued, runs from its admission as a numbered attempt, and ends.     *)
(* One SQL statement, or one transaction that holds the row locks, is one  *)
(* step; so are readings with nothing but readings between them.           *)
(***************************************************************************)
EXTENDS Naturals, FiniteSets

CONSTANTS
  Workflow,       \* workflows of one book, provider, model and content, by plan
  Task,           \* API requests that can run at once
  Worker,         \* worker callbacks that can run at once; may share with Task
  Reconciler,     \* reconciliation passes that can run at once
  None,
  BundleWindows,  \* plan.bundleWindows.length
  LabelWindows,   \* plan.labelingWindows.length
  MaxGraph,       \* bound: graph revisions of the book
  MaxRetries,     \* bound: retries a user asks for
  MaxUpsets,      \* bound: crashes, lost leases, refused admissions, replacements
  MaxEdits        \* bound: edits of the graph or of labels by a user

ASSUME WorkflowConstants ==
  /\ BundleWindows \in Nat \ {0} /\ LabelWindows \in Nat \ {0}
  /\ MaxGraph \in Nat /\ MaxRetries \in Nat /\ MaxUpsets \in Nat /\ MaxEdits \in Nat
  /\ (Task \cup Worker) \cap Reconciler = {}
  /\ None \notin Task \cup Worker \cup Reconciler

VARIABLES
  wf,     \* book_ai_workflows rows
  child,  \* provider_jobs rows of the children
  link,   \* book_ai_workflow_jobs: the children each workflow points at
  book,   \* what the library keeps of the book
  proc,   \* requests, callbacks and passes
  landed, \* history: children whose result was promoted
  raced,  \* history: workflows that settled while another process was mid-way
  retries, upsets, edits

vars == <<wf, child, link, book, proc, landed, raced, retries, upsets, edits>>

Proc == Task \cup Worker \cup Reconciler

Stage == {"bundle", "merge", "label", "repair"}

\* The windows of a stage, numbered by their sequence.
Windows(stage) == CASE stage = "bundle" -> 1 .. BundleWindows
                    [] stage = "merge"  -> {1}
                    [] OTHER            -> 1 .. LabelWindows

Job == {[wf |-> w, stage |-> x.stage, n |-> x.n, graph |-> g] :
          w \in Workflow, g \in 0 .. MaxGraph,
          x \in UNION {[stage : {s}, n : Windows(s)] : s \in Stage}}

Item == UNION {[stage : {s}, n : Windows(s)] : s \in Stage}

Active  == {"queued", "running"}
Settled == {"succeeded", "failed", "cancelled"}

\* `cur` numbers the attempt current_attempt_id names, 0 for null; `count` is
\* attempt_count; `delegated` is progress.autoRepair with a staged candidate; `stranded`
\* says that the attempt was quarantined and has no lease (job-lifecycle.ts:479).
ChildRow == [status : {"absent"} \cup Active \cup Settled, cur : Nat, count : Nat,
             delegated : BOOLEAN, stranded : BOOLEAN]

NoChild == [status |-> "absent", cur |-> 0, count |-> 0, delegated |-> FALSE, stranded |-> FALSE]

\* `failed` is progress.failedProviderJobId, `missing` the windows of
\* progress.ttsReadiness that lacked labels.
WorkflowStatus == {"absent", "running", "needs_review", "succeeded", "cancelled"}

WorkflowRow == [status : WorkflowStatus, failed : Job \cup {None},
                missing : SUBSET (1 .. LabelWindows), fence : Nat]

NoWorkflow == [status |-> "absent", failed |-> None, missing |-> {}, fence |-> 0]

\* The active graph revision (a user correction counts as one), the revision
\* fence, the windows whose paragraphs have labels, and whether every
\* character has a voice.
Book == [graph : 0 .. MaxGraph, fence : Nat, labelled : SUBSET (1 .. LabelWindows), voices : BOOLEAN]

Pc == {"idle", "next", "links", "fail", "progress", "enqueue", "repair",
       "admit", "reload", "verify", "ready", "unready", "mark", "retry", "cancel"}

Process == [pc : Pc, wf : Workflow \cup {None}, goal : {"advance", "start", "retry"},
            failed : Job \cup {None}, missing : SUBSET (1 .. LabelWindows),
            target : Job \cup Item \cup {None},  \* what the process is about to write
            todo : SUBSET [job : Job, status : Settled, cur : Nat],
            pass : SUBSET Workflow, overtaken : BOOLEAN]

NoProcess == [pc |-> "idle", wf |-> None, goal |-> "advance", failed |-> None,
              missing |-> {}, target |-> None, todo |-> {}, pass |-> {}, overtaken |-> FALSE]

Step(p, pc) == proc' = [proc EXCEPT ![p].pc = pc]

\* A request is answered; a pass goes on with its next workflow.
GoesOn(pass) == IF pass = {} THEN NoProcess ELSE [NoProcess EXCEPT !.pc = "next", !.pass = pass]

Done(p) == proc' = [proc EXCEPT ![p] = GoesOn(@.pass)]

\* An exception ends a request, and the whole pass.
Throw(p) == proc' = [proc EXCEPT ![p] = NoProcess]

\* A process that has read something of the workflow and has yet to write.
Midway(p, w) ==
  /\ proc[p].wf = w
  /\ \/ proc[p].pc \in {"links", "fail", "progress", "enqueue", "repair", "verify",
                        "ready", "unready", "mark", "retry"}
     \/ proc[p].pc = "admit" /\ proc[p].todo # {}

\* Whether workflows ws, as process p settles them, have other processes mid-way.
Races(p, ws) ==
  raced' = (raced \ ws) \cup {w \in ws : \E q \in Proc \ {p} : Midway(q, w)}

\* Labels or voices go after a process found the book ready (history).
Overtaken == [p \in Proc |-> [proc[p] EXCEPT !.overtaken = @ \/ proc[p].pc = "ready"]]

\* verifyAnalysisInputBeforeExecution and the promotion fence.
Verified(j) == book.fence = wf[j.wf].fence /\ book.graph = j.graph

=============================================================================
