--------------------------- MODULE ObjectDeletion ---------------------------
(***************************************************************************)
(* object_delete_outbox: every object is reserved for deletion before it   *)
(* is written, released when a book refers to it, and queued when it is    *)
(* abandoned or replaced.  A drain pass deletes what nothing refers to.    *)
(*                                                                         *)
(* A row is "reserved" while its next_attempt_at lies a day ahead, "due"   *)
(* when it may be claimed (pending or retry), and "processing".            *)
(***************************************************************************)
EXTENDS ImportStore

RowState == {"none", "reserved", "due", "processing"}

\* Mutant: an upload is written without its reservation.
Bug_ReserveNothing(keys) == outbox

\* reserveObjectDeletions: the earlier of the two times stays.
Reserve(keys) ==
  [k \in Key |-> IF k \in keys /\ outbox[k] = "none" THEN "reserved" ELSE outbox[k]]

\* enqueueObjectDeletions, on the table a transaction has changed already.
Enqueue(table, keys) ==
  [k \in Key |-> IF k \in keys /\ table[k] # "processing" THEN "due" ELSE table[k]]

\* releaseObjectDeletionReservations
Release(table, keys) ==
  [k \in Key |-> IF k \in keys /\ table[k] # "processing" THEN "none" ELSE table[k]]

Referenced(k) == \E b \in Book : ref[b] = k

(***************************************************************************)
(* drainObjectDeleteOutbox: claim the rows that are due, then for each one *)
(* look for a reference, delete the object, and delete the row.            *)
(***************************************************************************)
DrainPass == [pc: {"idle", "next", "refs", "remove", "forget"}, rows: SUBSET Key, key: Key \cup {None}]

NoDrain == [pc |-> "idle", rows |-> {}, key |-> None]

OutboxRowsClaimed(d) ==
  LET due == {k \in Key : outbox[k] = "due"} IN
  /\ drain[d].pc = "idle" /\ due # {}
  /\ outbox' = [k \in Key |-> IF k \in due THEN "processing" ELSE outbox[k]]
  /\ drain' = [drain EXCEPT ![d] = [pc |-> "next", rows |-> due, key |-> None]]
  /\ UNCHANGED <<session, chunks, files, job, bull, work, proc, store, ref, landed, reused, upsets, pauses>>

DrainNext(d) ==
  /\ drain[d].pc = "next"
  /\ \/ drain[d].rows = {} /\ drain' = [drain EXCEPT ![d] = NoDrain]
     \/ \E k \in drain[d].rows :
          drain' = [drain EXCEPT ![d] = [pc |-> "refs", rows |-> @.rows \ {k}, key |-> k]]
  /\ UNCHANGED <<session, chunks, files, job, bull, work, proc, outbox, store, ref, landed, reused, upsets, pauses>>

DrainTo(d, pc) == drain' = [drain EXCEPT ![d] = [@ EXCEPT !.pc = pc]]

\* Mutant: the object is deleted although a book refers to it.
Bug_LookNowhere(d) == "remove"

AfterLook(d) == IF Referenced(drain[d].key) THEN "forget" ELSE "remove"

LookForReferences(d) ==
  /\ drain[d].pc = "refs"
  /\ DrainTo(d, AfterLook(d))
  /\ UNCHANGED <<session, chunks, files, job, bull, work, proc, outbox, store, ref, landed, reused, upsets, pauses>>

RemoveObject(d) ==
  /\ drain[d].pc = "remove"
  /\ store' = store \ {drain[d].key}
  /\ DrainTo(d, "forget")
  /\ UNCHANGED <<session, chunks, files, job, bull, work, proc, outbox, ref, landed, reused, upsets, pauses>>

\* deleteObject or a query throws: the row is tried again later.
RemoveFails(d) ==
  LET k == drain[d].key IN
  /\ drain[d].pc \in {"refs", "remove", "forget"} /\ UpsetLeft
  /\ outbox' = IF outbox[k] = "processing" THEN [outbox EXCEPT ![k] = "due"] ELSE outbox
  /\ DrainTo(d, "next")
  /\ upsets' = upsets + 1
  /\ UNCHANGED <<session, chunks, files, job, bull, work, proc, store, ref, landed, reused, pauses>>

ForgetRow(d) ==
  LET k == drain[d].key IN
  /\ drain[d].pc = "forget"
  /\ outbox' = IF outbox[k] = "processing" THEN [outbox EXCEPT ![k] = "none"] ELSE outbox
  /\ DrainTo(d, "next")
  /\ UNCHANGED <<session, chunks, files, job, bull, work, proc, store, ref, landed, reused, upsets, pauses>>

DrainStep(d) ==
  \/ OutboxRowsClaimed(d) \/ DrainNext(d) \/ LookForReferences(d)
  \/ RemoveObject(d) \/ ForgetRow(d)

-----------------------------------------------------------------------------
(* The environment *)

DrainCrash(d) ==
  /\ drain[d].pc # "idle" /\ UpsetLeft
  /\ drain' = [drain EXCEPT ![d] = NoDrain]
  /\ upsets' = upsets + 1
  /\ UNCHANGED <<session, chunks, files, job, bull, work, proc, outbox, store, ref, landed, reused, pauses>>

\* Mutant: a claim takes pending and retry rows only.
Bug_ClaimNeverTimesOut(k) == outbox[k] = "due" /\ UNCHANGED vars

\* A row has been "processing" for ten minutes and another pass may claim it.
\* Only passes that died are that late.
ClaimTimesOut(k) ==
  /\ outbox[k] = "processing"
  /\ \A d \in Drainer : drain[d].key # k /\ k \notin drain[d].rows
  /\ outbox' = [outbox EXCEPT ![k] = "due"]
  /\ UNCHANGED <<session, chunks, files, job, bull, work, proc, store, ref, drain, landed, reused, upsets, pauses>>

\* A reservation is a day old.  No delivery of an import waits or runs that long.
ReservationDue(k) ==
  /\ outbox[k] = "reserved"
  /\ bull[k[1]].state \notin {"waiting", "active"}
  /\ \A w \in Worker : work[w].exec # k[1]
  /\ outbox' = [outbox EXCEPT ![k] = "due"]
  /\ UNCHANGED <<session, chunks, files, job, bull, work, proc, store, ref, drain, landed, reused, upsets, pauses>>

=============================================================================
