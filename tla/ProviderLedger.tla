--------------------------- MODULE ProviderLedger ---------------------------
(***************************************************************************)
(* What the provider-job subsystem promises its user about each job,       *)
(* whatever attempts, leases, outboxes and queues it takes: an explicit    *)
(* request reaches the provider at most once, its result lands at most     *)
(* once and only while the request stands, and nothing but a new request   *)
(* runs a job again once the provider may have been called.                *)
(***************************************************************************)
EXTENDS Naturals

CONSTANT Job

VARIABLE ledger   \* per job: its status, and whether its current request has
                  \* been sent to the provider and has had its result stored

Status == {"absent", "queued", "running", "succeeded", "failed", "cancelled"}
Entry  == [status: Status, sent: BOOLEAN, stored: BOOLEAN]
Fresh  == [status |-> "queued", sent |-> FALSE, stored |-> FALSE]

Init == ledger = [j \in Job |-> [status |-> "absent", sent |-> FALSE, stored |-> FALSE]]

\* What may happen to one entry x, giving y.
Ask(x, y)     == x.status \in {"absent", "succeeded", "failed", "cancelled"} /\ y = Fresh
Start(x, y)   == x.status = "queued" /\ ~x.sent /\ y = [x EXCEPT !.status = "running"]
Send(x, y)    == x.status = "running" /\ ~x.sent /\ y = [status |-> "running", sent |-> TRUE, stored |-> x.stored]
Deliver(x, y) == x.status = "running" /\ ~x.stored /\ y = [status |-> "succeeded", sent |-> x.sent, stored |-> TRUE]
Fail(x, y)    == x.status \in {"queued", "running"} /\ y = [x EXCEPT !.status = "failed"]
Cancel(x, y)  == x.status \in {"queued", "running"} /\ y = [x EXCEPT !.status = "cancelled"]
Retry(x, y)   == x.status = "failed" /\ ~x.sent /\ ~x.stored /\ y = Fresh

Entails(x, y) ==
  \/ Ask(x, y) \/ Start(x, y) \/ Send(x, y) \/ Deliver(x, y)
  \/ Fail(x, y) \/ Cancel(x, y) \/ Retry(x, y)

\* One statement may settle several jobs at once.
Next ==
  /\ ledger' \in [Job -> Entry]
  /\ \A j \in Job : ledger'[j] = ledger[j] \/ Entails(ledger[j], ledger'[j])

Spec == Init /\ [][Next]_ledger

=============================================================================
