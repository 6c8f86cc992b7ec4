# TLA+ models of Moya Reader

Moya Reader imports novels and comics, lets AI providers analyse them and
synthesise speech, and keeps several devices in step.  This directory holds
TLA+ models of the parts where that is hard to get right, the TLC runs that
check them on small instances, and proofs, checked by TLAPS, of what holds for
every instance.

All paths below are relative to `apps/server/src/` unless they start with `src/`
or `docs/`.

## 1. The system

| Component | State it keeps | Operations | What is hard |
| --- | --- | --- | --- |
| Provider job execution (`services/provider-jobs`) | `provider_jobs`, `provider_job_attempts` (status, lease, generation, outcome, billing) | claim, renew, mark dispatch, persist, quarantine, fail, cancel | paid requests that must not be repeated; workers that pause or die; late answers |
| Provider admission (`services/provider-job-admission`) | attempts per user | reuse, admit, reject | concurrent admissions at the limit |
| Provider queue and recovery (`queue.ts`) | `provider_job_outbox`, BullMQ | publish, five-statement recovery, reconcile, requeue | crash between any two statements; snapshot read, acted on later |
| Provider job API (`routes/ai`) | the same rows | submit, ask again, cancel | read-then-write against workers and recovery |
| Book replacement, chapter restructuring | book revisions, and the jobs of a book | stop every job of the book | half of the rows changed |
| Import jobs and uploads (`services/import-service.ts`, `routes/uploads.ts`) | `import_jobs`, `upload_sessions`, `upload_chunks` | upload, enqueue, execute, retry, cancel, recover | two executions of one upload |
| Object delete outbox (`services/object-delete-outbox.ts`) | `object_delete_outbox`, object storage | reserve, release, drain | deleting what was just referenced |
| Book AI workflow (`services/book-ai-workflow`) | `book_ai_workflows`, `book_ai_workflow_jobs`, review artifacts | start, advance, reconcile, promote, retry, cancel | advancement from several processes with no lock on the workflow; crashes between a child and the next; promotion under fences |
| Book revisions, ID-v2 migration | content revisions, id aliases | prepare, cut over | a replacement against edits |
| Sync push and pull (`routes/sync`, `routes/books`) | the rows of synced entities, `sync_events` | push, pull, the routes of hosted clients | concurrent transactions at READ COMMITTED; commits out of sequence; repeated pushes |
| Client outbox (`src/storage`, `src/sync`) | local rows, tombstones, outbox with leases, cursor and status in IndexedDB | edit, flush, pull, accept the remote state, discard | several tabs of one database; lost answers; tabs that die |
| Cloud vault (`src/cloud-vault`) | one vault file; local records; what a tab knows to be unsynced | capture, merge, write, apply, retry, probe | concurrent writers over a file store; edits during a sync |
| TTS cache maintenance, sessions, backups, library management, label mutations | one or two tables each | single transactions and sweeps | little interleaving |
| Native workflow (`src-tauri/src/workflow`) | a journal on disk | step, compact, resume | crash between journal and effect |
| Parsers, document cores, extensions, reader UI, shells, companion services | - | parsing, views, I/O | sequential or outside TLC's reach |

The API server and any number of worker processes share PostgreSQL and Redis
and nothing else.  A provider job is one question to an AI provider.  The API
inserts the job, admits an **attempt** of it (a row, an outbox row and the
job's `current_attempt_id`, in one transaction under the user's advisory lock)
and publishes the attempt to BullMQ.  A worker claims the delivered attempt
under a 60-second **lease**, marks the attempt in flight just before it calls
the provider, and writes the answer in a transaction that first re-checks the
lease.  Every 30 seconds each worker process runs a **recovery pass** that
settles attempts whose lease expired, returns to the queue those that never
reached the provider, and publishes again what the queue lost.

A **workflow** prepares a book for speech with many such jobs: bundles of chapters are
analysed in order, their character graphs merged into a new graph revision, and
the chapters labelled window by window, each job pinned to the graph and the revision
fence it was made for.  A worker's callback after every job, and a **reconciliation
pass** after each recovery pass, read the workflow and its links, decide what comes next, and
enqueue it; when nothing is left the workflow succeeds if every paragraph has
labels and every speaker a voice, and otherwise waits for the user's review and retry.

An import is a series of uploaded chunks that become one revision of a book.
Completing the upload inserts a job and enqueues it: the enqueuer looks whether
the queue still holds the execution the job names, takes the job with a new
random **execution id** if not, and adds a BullMQ entry under that id.  A worker claims the
job if it still names the delivered execution, reads the files, reserves the
objects it will write in the **object delete outbox**, writes them, and commits
book, job and upload in one transaction that locks both and checks them again.  Each try
that fails queues its objects for deletion; the last one fails the upload and
the job.  Client polls enqueue queued jobs again, a timer in each worker process does
so too and takes back jobs whose heartbeat is too old, and another timer
drains the outbox: it deletes the objects that nothing refers to.

A device keeps its records in IndexedDB, shared by the tabs that show the
reader.  Every edit writes the record, its tombstone and an **outbox** item in
one transaction.  A flush claims a batch of items under a **lease**, pushes
them, settles the items it still owns, repeats until nothing is queued, and
then pulls pages of `sync_events` from its **cursor**.  The server handles a
push in one READ COMMITTED transaction, event by event: conflict check, log
insert, row write.  An event it refuses and has not logged already is a
conflict, which stops the device until the user accepts the remote state or
discards the item.  Hosted clients, which have no outbox, write the same rows
and the same log through routes of their own.

Cloud Vault needs no server: a device reads one encrypted file, captures its own
records, merges both, writes the file if its revision has not changed, captures
again, and applies the merge to itself if nothing was edited meanwhile; a
conflict starts it over, three times at most.  A controller in each tab starts
a sync at startup, after edits, and when a probe every two minutes finds
something new.

## 2. Modules

| Module | Models |
| --- | --- |
| `ProviderStore` | the tables, the queue, the row updates and the lease fence every actor shares |
| `ProviderWorker` | one execution of `processProviderJob`: `job-lifecycle.ts`, `dispatcher.ts`, the handlers' order of calls, and the faults of a worker |
| `ProviderQueue` | `enqueueProviderJob` with admission, and `requeuePendingProviderJobs` with its recovery statements |
| `ProviderRequests` | the API's submit, ask-again and cancel, and the two edits of a book that stop its jobs |
| `ProviderJobs` | the composition, `Init`, `Next`, fairness and every property |
| `ProviderLedger` | what the subsystem promises about one job, with no attempt, lease or queue |
| `MCProviderJobs` | the instances TLC checks |
| `ImportStore` | uploads, import jobs, the import queue, the object store, and the program counters of the import's actors |
| `ObjectDeletion` | `object-delete-outbox.ts`: reservation, release, queueing, the drain |
| `ImportQueue` | `enqueueImportJob` with every interleaving of its statements, the requeue and stale-recovery passes |
| `ImportWorker` | one execution of `processImportJob`: claim, heartbeat, checkpoints, commit, the catch block, and the faults of a worker |
| `ImportRequests` | the upload routes: chunks, completion, polls, cancellation, pruning |
| `ImportJobs`, `MCImportJobs` | the composition with fairness and every property; the instances TLC checks |
| `SyncStore` | server rows, log and push transactions; each device's records, tombstones, outbox and sync state; the program counters of the tabs |
| `SyncServer` | a push statement by statement, the locks of the database, the note and position routes of hosted clients, the pull query |
| `SyncClient` | edits, `LocalOutboxSyncService` in the tabs of a device, leases, and what may fail |
| `SyncProtocol`, `MCSync` | the composition with fairness and every property; the instances TLC checks |
| `SyncFeed` | what the sync promises a device: a log it reads without gaps, with no page, tab, lease or transaction |
| `WorkflowStore` | the rows of a workflow, its children and its book; its processes and their history |
| `WorkflowChildren` | what happens to children and book outside the workflow's code: admission, promotion, recovery, edits, replacement |
| `BookWorkflow`, `MCBookWorkflow` | advance, start, retry, reconcile and cancel, query by query, with every property; the instances TLC checks |
| `VaultMerge` | the records of a snapshot: merge, apply, edit |
| `CloudVault`, `MCVault` | `CloudVaultService.sync` and its controller on several devices, with every property; the instances TLC checks |
| `ProviderJobs_proofs` | theorems: types, safety and refinement of the provider jobs |
| `ProviderSteps_proofs` | theorems: their action properties, the admission limit, which attempts count |
| `ImportJobs_proofs`, `ImportObjects_proofs` | theorems: the types of the imports, their fence and their chunks; their objects |
| `SyncDelivery_proofs` | theorems: the feed, the types of the sync, its delivery |
| `SyncOrder_proofs` | theorems: the order of the log, and the convergence of devices and server |
| `CloudVault_proofs` | theorems: the vault file and what it does to a device |
| `BookWorkflow_proofs` | theorems: all safety properties of the book AI workflow |

### How the state corresponds to the code

| Variable | Code |
| --- | --- |
| `job[j]` | a `provider_jobs` row: `status`, `current_attempt_id` (`cur`), the `error_code`s a guard reads (`err`) |
| `att[a]` | a `provider_job_attempts` row: `status`, `outcome_state`, `billing_state`, `attempt_generation` (`gen`), `dispatch_started_at is not null` (`sent`), `normalized_error_code` (`code`), `error_code` (`err`); `lease` is `lease_expires_at`: null, in the future, or past |
| `outbox[a]` | `provider_job_outbox.status` |
| `queue[a]` | the state of the BullMQ job, whose id is the attempt's |
| `work[w]` | one execution of the BullMQ processor: where it is, the generation it claimed, whether it still owns the BullMQ lock |
| `proc[p]` | one API request or one recovery pass: where it is and what it has read |
| `asked`, `att[a].round`, `landed` | history: which explicit request an attempt serves, and whose results reached canonical tables |
| `session[u]`, `chunks[u]`, `files[u]` | `upload_sessions.status`, the `upload_chunks` rows, the upload's directory |
| `job` of an import | an `import_jobs` row: `status`, `active_queue_job_id` (`active`), `cancel_requested_at is not null` (`cancel`), whether `updated_at` lies behind the stale limit (`stale`) |
| `bull[x]` | the BullMQ entry with execution id `x`: state, the upload it is for, `attemptsMade`, whether it stalled before |
| `work[w]`, `proc[p]` of an import | the execution a worker runs; the API request or worker timer that enqueues |
| `outbox[k]`, `store`, `ref[b]`, `drain[d]` | `object_delete_outbox`, object storage, the object a book refers to, a drain pass |
| `landed`, `reused` | history: how often an upload replaced its book; keys a second run wrote to |
| `row[e]`, `log` | the row of an entity, as the event that wrote it; `sync_events` by sequence number, with the entries of open and of aborted transactions |
| `tx[t]` | the transaction of the push that tab `t` has sent: the events still to handle, the rows it has written and locks, whether it holds the table lock of a writer, the events it refused |
| `local[d][e]` | the record of an entity in IndexedDB and the time of its tombstone |
| `outbox[d]`, `cursor[d]`, `status[d]` | `sync_outbox` by `localSequence`; `lastRemoteCursor` and `status` of `sync_state` |
| `flow[t]`, `timer[t]` | where `runFlushPending` or `runAcceptRemoteState` is in a tab; the mutation push timer |
| `applied`, `raced`, `rewound` | history: what a device has applied; entities two requests worked on at once; entities whose copy on a device may have gone back in time |
| `vault`, `provider` | the vault file with its revision; whether the store compares revisions or is a shared folder |
| `flow[t]` of the vault | the attempt of `sync` a tab is in, with what it has read, captured and merged |
| `dirty`, `known`, `saved` | `dirtyMutationKindsRef` and `configRef.lastRemoteRevision` of a tab; the configuration its device has stored |
| `doubt` | history: devices where a tab died before it had synced its edits |
| `wf[w]` | a `book_ai_workflows` row: `status`, `progress.failedProviderJobId` (`failed`), the windows of `progress.ttsReadiness` that lacked labels (`missing`), `revision_fence` (`fence`) |
| `child[j]`, `link[w]` | the `provider_jobs` row of a child, with the number of its current attempt (`cur`), whether it left a candidate to repair (`delegated`) and whether that attempt was quarantined (`stranded`); the `book_ai_workflow_jobs` rows of a workflow |
| `book` | the active graph revision, the book's fence, the windows that have labels, whether every speaker has a voice |
| `proc[p]` of a workflow | an API request, a worker callback or a reconciliation pass: where it is, the row and the decision it has read |
| `landed`, `raced`, `overtaken` | history: children whose result was promoted; workflows that settled while another process was mid-way; processes that verified what was taken away before they wrote |

A `Key` is the pair (execution, try) that the storage prefix of a run is made of
(`import-service.ts:1149-1151`); it stands for all the objects that run writes.

One SQL statement, or one transaction that holds the row locks it needs to its
commit, is one step; between two statements any other actor may act.  The
owner and token of a lease are the pair (attempt, generation): a generation is
claimed once.

Abstractions, each of which only adds behaviours unless it says otherwise:

* Clocks.  A live lease may expire at any time.  `LeaseExpires` costs an upset
  when the execution that holds it is still there and is free when it is gone.
* Minute and day budgets.  A full window is `AdmitRateLimited`.
* A handler's provider calls after its first re-mark an attempt that is
  already in flight and change nothing; `ProviderReturns` is the last one.
* A cached answer (`tts-handler.ts:250,294`) takes the way of an answered
  request: the succeeded patch has the fence of the persistence transaction.
  If the fence fails the code returns, where the model takes the cancelled path,
  whose writes need the same fence or an attempt that was sent or cancelled.
* A failed `queue.add` or statement, and a dead process, are `Abandon`.
* One user and one book own all the jobs.
* Left out: the claim without an execution identity (the worker always passes
  one), the outcome words `dispatching`, `reconciling`, `confirmed` (nothing
  writes them), the workflow columns, and the workflow's own requeues, which
  have the compare-and-set of `Requeue`; workflow cancellation is the statement
  of `CancelJob`.

Of the imports:

* `ImportFails` is any exception between the reading of the files and the commit:
  the parser, the object store, a changed base revision.  It is always possible.
* The final transaction is one step: it locks the job and the upload before it
  reads them, and keeps both locks to its commit.  Its reply may be lost.
* A reservation comes due when its execution neither waits nor runs: it lies a
  day ahead.  For the same reason only the rows of dead drain passes are claimed a second time
  (the code waits ten minutes), and only uploads with no import underway expire.
* Execution ids are random in the code.  The model reuses one that nothing refers to
  any longer; a queue entry that no job names is forgotten then, because the claim
  would refuse it.
* A failed statement is a crash of its actor, except where a catch block handles
  it.
* Left out: the two append modes of an image series, the batches of later assets,
  the contents of the parsed book.

Of the sync:

* An event stands for the content it carries and for the row it writes.  A note
  stands for the entities whose server row is kept with `deleted_at`, a position
  for the reading position, whose row is deleted.  All belong to one book that
  the server has; content revisions, covers and version 1 of the contract are
  left out, as are compound operations and the events of books, shelves and
  settings.
* Time advances with edits; two edits may share a timestamp, and the clock of a
  device or of a hosted client may be ahead (`Skew`).  A hosted client dates its requests, which may arrive late (`Arrival`); only the
  hosted deletion of a note is dated by the server.
* Reading the pending and the failed items is one step, and so is the compaction
  with the look at what is being sent, and a discard with the status it saves.
  Two hosted writes with equal content and time are one event, as their derived
  id makes them.
* A tab has one push on the server at a time: when its request is lost, the next one waits
  until that transaction has ended.
* The sequence number that an `on conflict do nothing` insert burns is left out.

Of the vault:

* Records of one book that every device has under the same local ids.  Content
  files, AI sidecars, scopes, the backup mode, migration, shelves, settings and the tombstones of
  books and covers are left out, and so is Google Drive's confirming read.
* The second capture is one step; the first reads tombstones and records in two.
* Begin may happen whenever no sync runs: it covers startup, button, timer and
  probe.  What would make the probe skip a sync is `Noticed`.
* The download of missing works is the time between `Recapture` and `Apply`.

Of the workflow:

* A child's id is a hash of its workflow, stage, window and pinned graph
  (`stage-advancement.ts:210-236`); these are its identity.  What a
  child asks its provider, and its attempts, leases and queue entries, are left out:
  they are the subject of `ProviderJobs`.  A child is queued, runs from
  its admission, and ends.
* The queries of `loadWorkflow` are two steps, row and links; the readiness
  queries (`tts-readiness.ts:54-118`) are one.  The cancellation transaction is one step: a
  child linked between its statements ends up as if linked after it.
* A retry requeues its children in any order, and a pass takes its workflows in any order.
  Several ended children of a workflow count once in a pass.
* The repairs of one window under one graph are one job, whichever candidate they are for.
* The branch for labelling links that do not match the plan (152-173) is left out: labelled
  windows are counted among those of the plan.  So are the manual review
  of an analysis, speaker attribution, the readiness of the TTS cache, and the book's
  `analysis_status`.

## 3. Runs

| Run | Instance | Shows |
| --- | --- | --- |
| `fence` | 1 job, 2 attempts, 2 workers, 1 request, 1 recovery pass, 1 upset, 1 restructuring | types; one dispatch per request; no dispatched attempt booked free; a lost lease stays lost; the ledger is implemented |
| `supersede` | 1 job asked twice, 2 attempts, 2 workers, 2 requests, limit 1, 1 restructuring | no late result lands; the active limit holds; every active attempt is its job's current one until the restructuring; the transition guard never raises |
| `recovery` | 1 job, 2 attempts, 1 worker, 1 upset, with fairness | queued and running jobs do not stay so |
| `import_overlap` | 1 upload, 2 executions, 2 workers, 1 try, 1 upset, which may be a pause | types; an import lands once and never after its cancellation; upload, job and book agree; nobody deletes chunks in use, unless an execution was paused |
| `import_objects` | 1 upload, 1 execution, 2 tries, 1 drain pass, 1 upset, with fairness | no object in use is deleted, unless two runs had the same key; no object is unknown to the outbox; abandoned objects go |
| `import_progress` | 1 upload, 2 executions, 1 worker, 1 upset, with fairness | queued imports start; processing ones end, unless their upload was marked failed before |
| `sync_devices` | 2 devices with a tab, a note and a position, 1 edit each, batches and pages of 2 | no cursor misses an event; devices converge with each other and with the server; the feed is implemented |
| `sync_hosted` | 1 device, a hosted client with a fast clock, 3 edits, at most 2 by either, 1 discard, batches and pages of 1 | nothing sent is lost; neither a push nor a hosted client logs a stale event, but for the four cases of section 5 |
| `sync_tabs` | 2 tabs of a device, 1 edit, 1 fault, with fairness | types; every flush ends; what is queued is sent or refused |
| `vault_devices` | 2 devices with a tab, 1 note, 1 edit each, a fast clock, 2 attempts, 1 fault, both kinds of store | a store that compares revisions forgets nothing; a synced device shows the vault; what is unsynced is noticed; edits before the second capture survive the apply |
| `workflow_races` | 1 workflow with 1 bundle and 2 windows; a task that starts, cancels and is a worker's callback, 1 pass | children follow the plan; a cancellation leaves no child, unless a process was mid-way |
| `workflow_settles` | 1 workflow with 2 bundles and 1 window, 1 task, 1 pass, 1 retry, 1 edit, 1 crash, lost lease, refused admission, cancelled child or replacement, with fairness | types; success means ready; what settled stays; children run again only by a retry; running workflows settle, but for the three cases of section 5 |

Bounds of the provider runs.  `MaxAsked` bounds the explicit requests per job, `MaxUpsets` the
crashes, lost queue entries, stalls, expiries under a live worker, abandoned
requests, refusals by a budget and book replacements, `MaxRestructures` the
chapter-structure changes.  Two attempts are what it takes for one to supersede
the other, two workers for an old and a new execution of a job to overlap, and
one upset puts each fault at every point of every interleaving; the cases that
need two faults, or longer histories, are what the proofs are for.  The
restructuring of `supersede` leaves an attempt active that no job names, so that
both requests meet a full limit; that it holds for any number of jobs is proved.

Bounds of the import runs.  `MaxTries` is BullMQ's number of attempts (3 in the
code); one try makes the first failure the last, two give a retry and a
redelivery.  `MaxUpsets` bounds the crashes, lost locks, lost replies, lost
queue entries and pauses together, `MaxPauses` the pauses: live executions whose
heartbeat falls behind far enough for a recovery pass to take their job.  Two
executions on two workers are what it takes for one to run on beside its
successor; three requeues of a job need nothing more, because ids nothing refers
to are used again.  One chunk is enough: the code reads and deletes them together.
One upload per book keeps `import_objects` small; what a second upload of the
same book can do to a replaced object is in section 5.

Bounds of the sync runs.  Two devices that edit one note and one position each once are what
it takes for pushes to overlap, commit out of sequence and conflict; that takes no fault.
`MayEdit` says who may edit how often.  The second edit of a device (`sync_hosted`) gives compaction, a batch after a batch, and
an edit while the first is being sent; a batch and a page of one make every event a request of its
own.  A second hosted edit gives the deletion of a note that was put back, which with clocks apart
is what sets a row back.  Two tabs and one fault (`sync_tabs`) put each crash, lost request or answer,
abort and late lease at every point of two competing flushes.  `MaxDiscards` bounds
the items discarded.  Two pushes that lock two rows in opposite order
need four edits; `PushAborts` models the deadlock, and no run reaches it.

Bounds of the vault runs.  Two attempts give the retry and the last one (3 in the
code).  Two devices, one edit each and one fault reach each conflict, lost answer and
dead tab at every point.

Bounds of the workflow runs.  `MaxGraph` bounds the graph revisions, `MaxRetries` what a user
retries, `MaxEdits` the edits of graph or labels, `MaxUpsets` crashes, lost leases, refused
admissions, cancelled children and replacements.  Two bundles or two windows are what an order
between them takes, two processes what a race takes.  `workflow_races` has no retry, edit or upset,
so that its two processes and the cancellation can meet at every point;
`workflow_settles` puts one retry, one edit and one upset at every point of a workflow that one
task and one pass advance.

Deadlock is not checked: when the bounds are used up and the users ask nothing,
the system rests.

Symmetry is used where no temporal property with liveness is checked and no
definition names a worker, an attempt, a job, an execution or an upload.

Fairness of `recovery`.  A worker process takes the steps it can; the
recovery pass is run by a 30-second timer (`worker.ts:64-82`); a request that
has arrived is served; time passes for a lease nobody renews; BullMQ notices
stalled jobs.  Users are never obliged to ask, nor faults to occur.  `Abandon`
and `WorkerCrash` stop an actor at any point; the timer or the queue starts the
next one.

Fairness of the import runs.  A worker process takes the steps it can and BullMQ
delivers what waits; a started request, and the recovery timer and the drain
timer of a worker process (`worker.ts:142-151`), go on; a heartbeat nobody sends grows old; a
client that waits for its import polls it (the loop of
`src/services/import/server-upload-import-service.ts`).  Nobody is obliged to
upload, cancel, or fail.

Fairness of `workflow_settles`.  The pass runs on the 30-second timer (`worker.ts:146`), the
recovery pass admits queued children and their workers end them, and a process that
was not killed goes on.  A child whose attempt was quarantined is not covered: it runs until
the user cancels it.  Nobody is obliged to retry, cancel, edit or give voices.

Fairness of `sync_tabs`.  Open tabs and the server carry on with what they have begun, a started
timer fires, the database ends a deadlock, and a lease that nobody works under runs
out.  Nothing makes a user edit or sync.  Nothing flushes periodically either, and a timer
may join a flush that has already listed the outbox, so `QueueSettles` assumes
that flushes keep beginning on the device: from then on no dead tab, lost
answer or competing tab keeps its items from being sent or refused.

## 4. Proofs

The provider theorems assume `ConstantsAssumption` and no more: `None` is no attempt
and no job, requests are not recovery passes, the bounds are naturals.  The sets
may be infinite.

* `TypeCorrect`: `Spec => []TypeOK`.  `TypeOK` alone is not inductive: that an
  execution past its claim has an attempt with a job (`WiredWork`), and that a
  request past its admission has a job and an attempt (`WiredProc`), are needed
  for the rows they write to have their types.  `TypeInv` conjoins the three.
* `DispatchedOnce`, `ResultStands`, `NeverFree`: from `SafetyInv`.  The argument:
  `Rows` ties an attempt's outcome, lease and `sent` together; `Linked` says a
  queued or running job's current attempt belongs to the job's standing
  request; `SentStands` says an attempt that was sent for the standing request
  is the current one of its job, unless the job has been cancelled or failed for
  good; `ReturnsUnsent` says a job that recovery will return to the queue has no
  sent attempt for this request.  The last two are what makes the request
  unrepeatable: a new attempt appears only for a queued job without one, and
  that job cannot have been sent.
* `LedgerImplemented`: `Spec => Ledger!Spec`.  A step maps to one entry of the
  ledger changing per job, or to a stutter; the recovery statements settle
  several jobs at once, which is why the ledger lets several entries change.
* `GuardHolds` and `LostStaysLost` are action properties from the same
  invariants: the first needs, for each compare-and-set, what the invariant
  says of the row compared; the second that a generation is claimed once and
  that only a holder renews.
* `LimitHolds`: from `LimitInv`, that the set of active attempts is finite and within
  the limit.  Every step but an admission and a claim is `Calm`: it makes no attempt
  active that was not.  A claim takes an attempt that already counts, and an
  admission adds one after it has counted under the lock.
* `CountedIsCurrent`: from `CurrentInv`.  Its main part is that an active attempt is the
  current one of its job and has the job's status (`Counted`), so that whatever ends
  the job ends the attempt too.  Two facts carry it: an attempt with an unknown
  outcome is not active (`Ended`), and what a recovery pass has read of attempts
  stays true until it acts on it (`Watched`).

* `CursorMissesNothingHolds`, `FeedImplemented`: from `FeedInv`, under
  `SyncAssumption`, for any devices, tabs, pages and batches.  The argument: an open log
  entry belongs to a transaction that is a writer (it holds the table lock of `sync_events`), so when
  a pull sees no writer every number up to the end of the log is decided; the
  page it takes then has every kept entry between its two cursors.  `Reads`
  carries that through the tab: from the pull to the save, what lies below the
  tab's cursor is applied or on its page.  The saved cursor may go back, because
  two tabs save in any order, and is still covered.

* `VaultTypeCorrect`, `VaultRemembers`: from `TypeInv` and `VaultInv`, under `VaultAssumption`,
  `VaultRecords` and `VaultFinite` (devices and tabs are finite sets; the records need not be).  The
  argument: while the vault still has the revision that a tab read, the tab's copy is
  the whole vault and what it merged covers it, so a write that the store accepts
  loses nothing.  That needs revisions not to come back: the model reuses those
  nobody remembers, and there are more of them than tabs and devices to remember one
  (`NewRevisionIsNew`, by counting).

* `SyncedShows`, `UnsyncedNoticed`, `AppliesKeepEdits`: from `SyncInv`, under the same
  assumptions.  The three properties are about one thing: who knows of an edit that the
  vault may not have.  Its tab does (`Unsent`), from the edit until the second capture has found the
  device as it was captured; from then on what was merged covers the device
  (`ApplyWired`), entity by entity, until another tab touches it, which `late`
  remembers.  So with a store that compares revisions a device without an unsent edit is covered by the
  vault (`SureCovered`), and one whose last sync saw the vault as it is shows what
  the vault shows (`SeenShown`): an apply of what covers the device shows just
  what was merged (`AppliedShows`).  In a shared folder another tab of the device may have overwritten
  what was merged, hence the condition of one tab.

The import theorems assume `ImportAssumption`: null is no upload, execution or key, a process is a
request or a worker, an upload has chunks and one book, bounds are naturals.

* `TypeCorrect` of `ImportJobs`: from `TypeInv`.  An execution past its claim, a request past its
  read and a queue entry carry an upload that has a row (`Wired`, `Delivered`,
  `Adding`).
* `LandsOnce`, `OutcomesAlwaysAgree`: from `FenceInv`.  The argument: a row names one execution.  The one
  it names is the only one in the try or catch block under that name (`Sole`) and finds
  the row "processing" until it has committed; one that it does not name finds no
  row to write (`Fenced`).  `RowsOK` says what the statuses of upload, job and book say of
  each other at each point.
* `ChunksAreKept`: from `KeepInv`, which adds that whoever is about to drop the chunks was told that its
  import is over, or was superseded by a recovery pass while alive, which is the pause the property excepts.
* `ReferencedIsKept`, `StoredIsKnown`: from `ObjectInv`.  The argument: an execution that
  may still write or commit finds its key reserved (`Reserved`) and is the only one that writes under it
  (`OneWriter`); a drain pass holds rows that are "processing" and each of them alone
  (`HoldInv`), so it never holds the key of such an execution; and a book refers to
  the object of the execution its upload's row still names (`RefLanded`).  The two properties are part
  of their own invariant: what is stored is either referred to, reserved or
  in the outbox, and each step moves it from one to another.

* `SyncTypesHold`, `SentIsNeverLost`: from `DeliveryInv`, which contains the types and `FeedInv`.  The
  argument: what a waiting tab has claimed, its push holds: each event is refused,
  still to do, or in the log (`Held`).  A push that was answered has nothing left to do, and no open
  entry, so an answer means kept or refused, whichever tab takes it.  An item is `sent` only with
  such an answer, and a committed entry does not leave the log.
* `StaleNeverLogged`: from `OrderInv` and `DeliveryInv`.  The argument: as long as an entity is not
  `raced`, at most one request works on it (`Alone`), so what a push has seen of it stays true until it
  writes (`Accurate`).  The row is then at least as late as everything logged of the entity (`Ordered`);
  where it is not, the two cases that set it back left a trace in the log (`Excused`), or the entry is a hosted position
  that only counts as read (`ReadOnly`): they are the named exceptions of the property.  A push that is accepted is not older
  than the row it saw, so neither than the log.  The same holds of a hosted note and a hosted deletion of a position; a hosted
  position is compared with the logged deletions, and may be older than a logged position only as the property says.  `OrderInv` also says what the row is (`Leaves`), for the server's convergence: if the kept events of an entity
  are in the order of time, the row is what the last of them left, and of those a push has logged but
  not yet written to the row there is only its own.
* `DevicesAlwaysConverge`, `ServerAlwaysConverges`: from `CopyInv` with the two invariants above.  The argument: as
  long as an entity is not `rewound`, the copy of a device is one of two things (`CopiesLevel`).  Either it is
  what the applied entries of the log make of nothing, one after the other, or the
  device's last edit (`LastOwn`) has not come back to it yet, and neither the copy nor what the
  entries make is later than that edit.  An edit leads to the second, since it does
  not date from before the copy (`EditLevel`).  A page leads from either to the first, or stays in
  the second (`PageLevels`): what is on it again changes nothing up to where it is new, because
  the repeated entries are in the order of time, and when the edit comes back it passes and
  leaves what the log leaves.  No entry is missed in between, which `FeedInv` says; and no entry comes from
  elsewhere than an outbox or a hosted client (`Sourced`).  Once all is quiet
  the last edit of each device is in the log and applied (`QuietCopies`), all devices have
  applied the same entries, and so all show what these make of nothing; if these are in the order of time,
  it is the last of them, which is the server's row too (`QuietServer`).

The workflow theorems assume `WorkflowConstants`: there is a bundle and a label window, a reconciliation pass is
neither a request nor a callback, null is no process, bounds are naturals.  The sets may be infinite.  Each step is
first reduced to what it does to every process, row, child and link (`StepGoes`); the invariants follow from
that, without looking at the actions again.

* `WorkflowTypes`: from `TypeInv`.  A process past its reading has a workflow and, where it is about to write, a
  target of the right kind (`Fit`); a linked child is the workflow's own, exists, and is about no later graph than the book's
  (`LinksOK`).
* `ChildrenFollow`: from `PlanInv`.  A child that succeeded was promoted and stays so, hence what was
  required of a link holds on.  The bundles linked have numbers without gaps, so counting them
  (`stage-advancement.ts` does) gives the number of the next one; and a decision to link, however old by the time
  it is written, was right when taken and stays right (`Decided`).
* `SettledStays`, `CancelLeavesNone`: from `Undisturbed`.  When a workflow settles with nobody mid-way, what
  processes still do in its name cannot write its row or queue its children (`Idles`): they end, cancel, reload, admit a
  last child, or are a retry that read the row in review.  The first theorem follows at once; the second because a child
  of a cancelled workflow could be queued only by a link or by a retry, and neither is left.
* `SucceedsReady`: from `SeenReady`, that labels and voices are complete as long as a process that found
  them so was not overtaken.
* `RunsAgain`: from `Replaced`, that a child once queued is linked or has made room for one of a later graph.
  So a failed child that is linked again under the graph of now is linked already, and whoever
  reads the links now is not told to enqueue it (`LinksAgain`, over every branch of the decision).

Every invariant and every action property that a run checks is also proved.  Only model-checked are
the liveness properties, because liveness under fairness is out of the prover's reach.

## 5. What does not hold

Some properties except a case by name.  Each exception was found by a run of the
property without it, and can be seen again by taking it out; two cases of `rewound` were found by its proof and
need larger instances.

* `RunningJobEnds`, `Stranded`.  A worker notices that its lease has expired with a request in
  flight and calls `quarantineProviderJobLateResult` (`job-lifecycle.ts:479`):
  the attempt becomes `quarantined` with no lease and stays `running`.  The
  cancelled patch that follows needs a live lease and applies to nothing.  The
  recovery statements match neither; the job is `running` until the user cancels
  it, and holds an admission slot until then.
* `ActiveAttemptIsCurrentUnlessRestructured`.  `replaceHostedStructure`
  (`hosted-chapter-structure-service.ts:504`) cancels jobs and not their attempts.  If
  the user asks again before the next recovery pass, the transition guard clears
  `current_attempt_id`, and no statement ever reaches the old attempt, which stays
  active and counts against the limit.
* `ChunksKeptUnlessPaused`.  A recovery pass takes the job of an execution whose heartbeat
  is late.  When that execution goes on, its progress report finds no row
  (`import-service.ts:785`, and 1563, 1613 in the final transaction) and it throws
  the exception of a cancellation.  The catch block deletes the chunk rows and the
  upload directory of the upload that its successor is about to read.
* `ReferencedObjectStoredUnlessReused`.  The storage key holds the attempt number, and a redelivery
  after a lost lock or a stall has the same one.  If the first run failed, its objects are queued for
  deletion; the reservation of the second keeps the earlier time
  (`object-delete-outbox.ts:54`).  A drain pass that has looked for references before the
  commit deletes the object after it.
* `ProcessingImportEndsUnlessFailed`.  The last try fails the upload and the job in two statements
  (`import-service.ts:1673-1687`).  If the worker dies in between, the recovery
  pass does not match the job, because it asks for a queued upload.
* `StaleNeverLoggedUnlessRaced`, `ServerConvergesUnlessRaced`, `raced`.  The conflict check
  (`revision-conflict-policy.ts:253`) takes no lock, and the upsert of a live note
  (`reader-entity-persistence.ts:427`) and the deletion of a position (78) do not compare
  times.  Of two requests that work on one entity at once, the older may write last.
* `StaleNeverLoggedUnlessRaced`, `FoundNoRow`.  A deletion pushed before its creation updates no
  row (`reader-entity-persistence.ts:449`), so a creation that arrives later is
  accepted and logged after it.
* `StaleNeverLoggedUnlessRaced`, `ReadingOnly`.  `docs/architecture/large-file-and-sync-architecture.md:448`
  says that the direct PATCH and DELETE of the reading position, like a push, neither store an older position
  nor put it into the event log.  The PATCH rolls back only if neither the position nor the reading of its chapter was
  applied (`reader-state-routes.ts:101-105`).  A position that is older than the row, in a chapter that
  was read less recently, leaves the row and is logged (106-125).
* `StaleNeverLoggedUnlessRaced`, `SetBack`.  The deletion of a note by a hosted client takes the server's
  time and does not look at the row's (`annotation-routes.ts:519`, 536; so do those of bookmarks and
  highlights, 214 and 368).  If the row's clock was ahead, the row goes back in time, and a push dated in between
  is accepted and logged after an event that is newer.
* `DevicesConverge`, `ServerConvergesUnlessRaced`, `rewound`.  A copy may go back in time in three ways.
  1. Two tabs of a device pull at once.  The one that is behind applies an older upsert after
     the other has applied the deletion of the note and an upsert in between has dropped the
     tombstone (`src/storage/db.ts:1420`).
  2. A tab dies between applying a page and saving the cursor, and the page is not in the order
     of time: three pushes of one note were accepted before any of them committed, and
     logged as put(1), del(4), put(3), del(2), with the times in brackets.  Once the last
     deletion has set the tombstone back to 2, the page applied again lets put(3) pass.
  3. An edit is dated by a clock behind the copy it replaces.  The server may accept it, if
     a deletion that raced has removed the row, and a device with the later copy then ignores it.

  The first was found by a run.  The other two need more authors and wider clocks than
  the instances have: they came up as steps of the proof that could not be closed, and
  directed instances of TLC then reached both.  An edit whose clock is behind
  is excepted whether or not it is accepted.  The model dates an edit in the step
  that stores it, whereas `saveReadingPosition` reads the clock shortly before its transaction (`src/storage/reader-state-store.ts:80-84`).
* `UnsyncedIsNoticed`, `SyncedShowsVault`, `doubt`.  What is unsynced is known only to a tab.  If it dies,
  the sync at the next start sends it; if that one is skipped or fails, the periodic probe
  leaves it alone until the remote revision moves (`useCloudVaultController.ts:502-514`).
* `ApplyKeepsEditsUnlessLate`.  `docs/architecture/cloud-vault-sync.md:152-154` and the comment at
  `src/cloud-vault/service.ts:117` say that the merge is applied only if the device has not changed
  while the sync waited for the network.  `sync` captures again after the write, and a
  change up to there starts it over.  But then it downloads the works that are
  missing on the device (125-128), and `apply` (129) puts notes,
  highlights and bookmarks without looking at what is there
  (`indexeddb-artifact-repository.ts:862-880`).  A note edited during the download is
  replaced by the older one.
* `SettledStaysUnlessRaced`, `CancelLeavesNoChildUnlessRaced`, `raced`.  `updateWorkflowProgress`
  (`workflow-repository.ts:92`) and the mark of a retry (`retry-reconciliation.ts:60`) have no condition
  on the status.  A process that read the row as running, or as in review,
  writes over a cancellation, a review or a success, and queues a child of a
  workflow that was cancelled meanwhile.  So `raced` excepts the workflows that settle
  while another process is mid-way.
* `CancelLeavesNoChildUnlessRaced` speaks of linked children.  The link of a window is one row; when the
  graph has changed, the next enqueue puts another job in it
  (`child-job-repository.ts:133-159`), and a job that lost its link is no longer
  found by a cancellation (`workflow-cancellation-repository.ts:11-28`).  Of a workflow that
  succeeded the property says nothing: a late enqueue under a new graph may leave it a queued
  merge.
* `RunsAgainOnRetryUnlessLate`.  An advance whose reading of the links is old enqueues a child that failed
  in the meantime, and `insertProviderJob` queues it again (`child-job-repository.ts:80-131`),
  though nobody asked for a retry.
* `RunningWorkflowSettles`, `Unborn`.  A start that dies between the insert of the workflow and its first
  link leaves a running workflow that no pass looks at, because a pass starts from ended
  children (`retry-reconciliation.ts:170-180`).  It also answers every other start
  (`workflow-start-repository.ts:58-86`) until the user cancels it.
* `RunningWorkflowSettles`, `Refused`.  An enqueue that finds the fence moved, or a repair whose
  label job is pinned to an earlier graph, throws.  The workflow stays running, each pass throws at
  it again, and ends there: workflows after it in that pass wait.
* `RunningWorkflowSettles`, `Stranded`.  A child that was quarantined (the first item of this list) stays running,
  and so does its workflow: every pass finds a pending link and only refreshes the progress, until the
  user cancels the child or the workflow.
* `SucceedsWhenReadyUnlessOvertaken`.  Labels or voices may go between the readiness queries and the
  write (`workflow-orchestrator.ts:183-212`); nothing locks the book.
* `SyncedShowsVault` holds at each moment of the devices that saw the vault as it is.  Of
  two records with one timestamp each device prefers its own (`merge.ts:18-20`) and
  writes the vault again, so two such devices need not agree for long.

Two properties of imports except one more.  If an import replaces an object whose row
a drain pass is working on, it leaves the row as it is
(`object-delete-outbox.ts:27`); if that pass saw the reference before, it drops the row
(124), and the replaced object stays in storage unknown to the outbox.
`StoredIsAccountedForUnlessReplaced` and `AbandonedObjectGoes` speak of books that were
replaced by one upload at most.

## 6. Plan

1. Done: the provider-job subsystem, its ledger, its safety proofs.
2. Done: imports, the object delete outbox they feed, and their composition.
   Proved: their types, fence, chunks and objects.
   To come: an abstract specification of an import's outcome that `ImportJobs`
   implements, and the append modes.
3. Done: the book AI workflow over abstract provider jobs, with proofs of all its
   safety properties.  To come: review artifacts and their promotion, speaker attribution.
4. Done: sync between devices, tabs, server and hosted clients, and the feed it
   implements.  To come: books the server does not have yet, compound
   operations, shelves; the peer protocol.
5. Done: the cloud vault.  To come: content sidecars, where a manifest refers to
   objects uploaded before it.
6. Proofs.  Done: every invariant and action property of the runs, and the two refinements.  To come:
   the lemmas that new components will need.

## 7. Not modelled

* Planned, see section 6: the reviews of the book AI workflow, book revisions and the ID-v2
  migration, the append modes of imports, TTS cache maintenance.
* Sessions, backups, library management, label mutations, the character graph: one
  transaction or one sweep each, with little that interleaves.
* The native AI workflow (`src-tauri/src/workflow`): the desktop counterpart of the
  hosted workflow with a journal of its own; a later candidate.
* Parsers and document cores: sequential transformations of files, better tested
  than model-checked.
* The reader's views and playback, platform shells, extensions and companion
  services: input, output and third-party code.
