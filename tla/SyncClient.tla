----------------------------- MODULE SyncClient -----------------------------
(***************************************************************************)
(* LocalOutboxSyncService in the tabs of a device, and the edits that fill *)
(* its outbox.  Each step is one IndexedDB transaction or one request; the *)
(* tabs of a device share its database and nothing else.                   *)
(***************************************************************************)
EXTENDS SyncServer

dev(t) == DeviceOf[t]

Items(t) == outbox[dev(t)]

Claimable(t, i) == Items(t)[i].status \in {"pending", "failed"}

Released(item, s) == [item EXCEPT !.status = s, !.tab = NoRow, !.expired = FALSE]

\* The outbox of t's device with the items in S changed by Op.
SetItems(t, S, Op(_)) ==
  outbox' = [outbox EXCEPT ![dev(t)] =
    [i \in DOMAIN @ |-> IF i \in S THEN Op(@[i]) ELSE @[i]]]

SetStatus(t, s) == status' = [status EXCEPT ![dev(t)] = s]

Goto(t, pc) == flow' = [flow EXCEPT ![t].pc = pc]

Ends(t) == flow' = [flow EXCEPT ![t] = Idle]

-----------------------------------------------------------------------------
(* Edits: the row, its tombstone and the outbox change in one transaction *)

\* Saving a position, unlike saving a note, leaves the tombstone.
LocalCopy(c, ev) ==
  IF ev.op = "del" THEN [row |-> NoRow, tomb |-> ev.at]
  ELSE [row |-> ev, tomb |-> IF ev.ent \in Note THEN 0 ELSE c.tomb]

\* The copy is newer than ev, or was deleted later.
Predates(ev, c) == ~NotOlder(ev, c.row) \/ ev.at < c.tomb

\* A mutation starts the push timer, except in a conflict.  It replaces the copy even
\* if the clock is behind the one that dated it.
Edit(t, e, op) ==
  \E time \in {now, now + 1} :
    LET d == dev(t)
        ev == Edited(d, Len(outbox[d]) + 1, e, op, time)
    IN /\ flow[t].pc # "closed" /\ NewEdit(d, time)
       /\ op = "del" => local[d][e].row # NoRow
       /\ local' = [local EXCEPT ![d][e] = LocalCopy(@, ev)]
       /\ outbox' = [outbox EXCEPT ![d] = Append(@,
            [ev |-> ev, status |-> "pending", tab |-> NoRow, expired |-> FALSE, dropped |-> FALSE])]
       /\ timer' = [timer EXCEPT ![t] = @ \/ status[d] # "conflict"]
       /\ rewound' = IF Predates(ev, local[d][e]) THEN rewound \cup {e} ELSE rewound
       /\ UNCHANGED <<serverVars, cursor, status, applied, flow, raced, faults>>

-----------------------------------------------------------------------------
(* Starting: one operation at a time in a tab *)

Started(t, accept) ==
  /\ flow[t].pc = "idle"
  /\ flow' = [flow EXCEPT ![t] = [Idle EXCEPT !.accept = accept, !.first = ~accept,
                                              !.pc = IF accept THEN "snapshot" ELSE "recover"]]
  /\ SetStatus(t, "syncing")
  /\ UNCHANGED <<now, edits, serverVars, local, outbox, cursor, applied, rewound, raced, faults>>

SyncNow(t) == Started(t, FALSE) /\ UNCHANGED timer

AcceptRemote(t) == status[dev(t)] = "conflict" /\ Started(t, TRUE) /\ UNCHANGED timer

\* The timer starts a flush, or joins the operation that is running.
TimerFires(t) ==
  /\ timer[t]
  /\ timer' = [timer EXCEPT ![t] = FALSE]
  /\ IF flow[t].pc = "idle" THEN Started(t, FALSE)
     ELSE UNCHANGED <<now, edits, serverVars, deviceVars, flow, raced, faults>>

\* Opening the reader flushes, except in a conflict.
Open(t) ==
  /\ flow[t].pc = "closed"
  /\ IF status[dev(t)] = "conflict" THEN Ends(t) /\ UNCHANGED status
     ELSE /\ flow' = [flow EXCEPT ![t] = [Idle EXCEPT !.first = TRUE, !.pc = "recover"]]
          /\ SetStatus(t, "syncing")
  /\ UNCHANGED <<now, edits, serverVars, local, outbox, cursor, applied, rewound, timer, raced, faults>>

\* The user gives an item up that was not being sent when the list was shown.
Discard(t, i) ==
  /\ flow[t].pc # "closed" /\ i \in DOMAIN Items(t) /\ Items(t)[i].status # "sent"
  /\ Cardinality({j \in DOMAIN Items(t) : Items(t)[j].dropped}) < MaxDiscards
  /\ SetItems(t, {i}, LAMBDA item : [Released(item, "sent") EXCEPT !.dropped = TRUE])
  /\ IF \A j \in DOMAIN Items(t) \ {i} : Items(t)[j].status = "sent"
     THEN SetStatus(t, "idle") ELSE UNCHANGED status
  /\ UNCHANGED <<now, edits, serverVars, local, cursor, applied, rewound, flow, timer, raced, faults>>

TabDies(t) ==
  /\ flow[t].pc # "closed" /\ Fault
  /\ flow' = [flow EXCEPT ![t] = Closed]
  /\ timer' = [timer EXCEPT ![t] = FALSE]
  /\ tx' = [tx EXCEPT ![t] = IF Running(t) THEN @ ELSE NoTx]
  /\ UNCHANGED <<now, edits, row, log, web, deviceVars, raced>>

-----------------------------------------------------------------------------
(* runFlushPending *)

\* Steps of a flush that change the outbox and where it stands.
Outside == <<now, edits, serverVars, local, cursor, status, applied, rewound, timer, raced, faults>>

\* Mutant: no lease is recovered.
Bug_RecoverNothing(t) == flow[t].pc = "recover" /\ Goto(t, "list") /\ UNCHANGED <<outbox, Outside>>

Recover(t) ==
  /\ flow[t].pc = "recover"
  /\ SetItems(t, {i \in DOMAIN Items(t) : Items(t)[i].status = "sending" /\ Items(t)[i].expired},
              LAMBDA item : Released(item, "pending"))
  /\ Goto(t, "list")
  /\ UNCHANGED Outside

List(t) ==
  /\ flow[t].pc = "list"
  /\ flow' = [flow EXCEPT ![t].pc = "compact", ![t].items = {i \in DOMAIN Items(t) : Claimable(t, i)}]
  /\ UNCHANGED <<outbox, Outside>>

\* Mutant: the first of the position updates is kept instead of the last.
Bug_SupersededLater(t) ==
  {i \in flow[t].items : \E j \in flow[t].items :
     /\ j < i /\ Items(t)[i].ev.ent \in Position
     /\ Items(t)[j].ev.ent = Items(t)[i].ev.ent
     /\ Items(t)[i].ev.op = "put" /\ Items(t)[j].ev.op = "put"}

\* Of the listed position updates of one book only the last is sent.
Superseded(t) ==
  {i \in flow[t].items : \E j \in flow[t].items :
     /\ j > i /\ Items(t)[i].ev.ent \in Position
     /\ Items(t)[j].ev.ent = Items(t)[i].ev.ent
     /\ Items(t)[i].ev.op = "put" /\ Items(t)[j].ev.op = "put"}

\* A first pass that has nothing to send leaves to the tab that is sending.
Compact(t) ==
  LET left == flow[t].items \ Superseded(t)
      sending == \E i \in DOMAIN Items(t) : Items(t)[i].status = "sending"
  IN /\ flow[t].pc = "compact"
     /\ SetItems(t, {i \in Superseded(t) : Claimable(t, i)}, LAMBDA item : Released(item, "sent"))
     /\ IF left # {} THEN flow' = [flow EXCEPT ![t].pc = "claim", ![t].items = left]
        ELSE IF flow[t].first /\ sending THEN Ends(t)
        ELSE flow' = [flow EXCEPT ![t].pc = "pull", ![t].items = {}, ![t].cur = cursor[dev(t)]]
     /\ UNCHANGED Outside

Claim(t) ==
  LET claimed == {i \in FirstOf(flow[t].items, BatchSize) : Claimable(t, i)}
  IN /\ flow[t].pc = "claim"
     /\ SetItems(t, claimed,
                 LAMBDA item : [item EXCEPT !.status = "sending", !.tab = t, !.expired = FALSE])
     /\ IF claimed = {} THEN Ends(t)
        ELSE flow' = [flow EXCEPT ![t].pc = "send", ![t].items = claimed, ![t].first = FALSE]
     /\ UNCHANGED Outside

\* The events of the claimed items, by localSequence.
Batch(t) ==
  LET S == flow[t].items
      Nth(k) == CHOOSE i \in S : Cardinality({j \in S : j < i}) = k - 1
  IN [k \in 1..Cardinality(S) |-> Items(t)[Nth(k)].ev]

Send(t) ==
  /\ flow[t].pc = "send" /\ tx[t].phase = "none"
  /\ Set(t, [NoTx EXCEPT !.phase = "check", !.todo = Batch(t)])
  /\ raced' = raced \cup Overlap(t, {Items(t)[i].ev.ent : i \in flow[t].items})
  /\ Goto(t, "await")
  /\ UNCHANGED <<now, edits, row, log, web, deviceVars, timer, faults>>

\* The claimed items the tab still owns.
Mine(t) == {i \in flow[t].items : Items(t)[i].status = "sending" /\ Items(t)[i].tab = t}

Settle(t) ==
  LET refused == \E i \in flow[t].items : Items(t)[i].ev \in tx[t].bad
  IN /\ flow[t].pc = "await" /\ tx[t].phase = "answered"
     /\ SetItems(t, Mine(t),
                 LAMBDA item : Released(item, IF item.ev \in tx[t].bad THEN "failed" ELSE "sent"))
     /\ Set(t, NoTx)
     /\ IF Mine(t) # flow[t].items THEN Ends(t) /\ UNCHANGED status
        ELSE IF refused THEN Ends(t) /\ SetStatus(t, "conflict")
        ELSE Goto(t, "list") /\ UNCHANGED status
     /\ UNCHANGED <<now, edits, row, log, web, local, cursor, applied, rewound, timer, raced, faults>>

\* The push failed: the tab gives back what it still owns.
PushFailed(t) ==
  /\ SetItems(t, Mine(t), LAMBDA item : Released(item, "failed"))
  /\ IF Mine(t) = {} THEN UNCHANGED status ELSE SetStatus(t, "failed")
  /\ Ends(t)
  /\ tx' = [tx EXCEPT ![t] = IF Running(t) THEN @ ELSE NoTx]
  /\ UNCHANGED <<now, edits, row, log, web, local, cursor, applied, rewound, timer, raced>>

PushRefused(t) == flow[t].pc = "await" /\ tx[t].phase = "failed" /\ PushFailed(t) /\ UNCHANGED faults

\* The request or its answer is lost; the server may still be at work on it.
PushLost(t) == flow[t].pc \in {"send", "await"} /\ Fault /\ PushFailed(t)

-----------------------------------------------------------------------------
(* pullRemoteUpdates *)

MaxOf(S, c) == IF S = {} THEN c ELSE CHOOSE i \in S : \A j \in S : j <= i

\* Mutant: the cursor is saved with the answer, before the page is applied.
Bug_PullSavesCursor(t) ==
  LET page == FirstOf(After(flow[t].cur), PageSize)
  IN /\ flow[t].pc = "pull" /\ NoWriters
     /\ flow' = [flow EXCEPT ![t].pc = "apply", ![t].page = page, ![t].cur = MaxOf(page, @)]
     /\ cursor' = [cursor EXCEPT ![dev(t)] = MaxOf(page, flow[t].cur)]
     /\ UNCHANGED <<now, edits, serverVars, local, outbox, status, applied, rewound, timer, raced, faults>>

Pull(t) ==
  LET page == FirstOf(After(flow[t].cur), PageSize)
  IN /\ flow[t].pc = "pull" /\ NoWriters
     /\ flow' = [flow EXCEPT ![t].pc = "apply", ![t].page = page, ![t].cur = MaxOf(page, @)]
     /\ UNCHANGED <<outbox, Outside>>

PullFailed(t) ==
  /\ flow[t].pc = "pull"
  /\ Ends(t) /\ SetStatus(t, "failed")
  /\ UNCHANGED <<now, edits, serverVars, local, outbox, cursor, applied, rewound, timer, raced>>

\* Waiting for a writer times out after two seconds.
PullTimesOut(t) == ~NoWriters /\ PullFailed(t) /\ UNCHANGED faults

PullLost(t) == Fault /\ PullFailed(t)

\* Mutant: of two events of one moment the local one stays.
Bug_AppliedLater(c, ev) ==
  IF (c.row # NoRow /\ ev.at <= c.row.at) \/ ev.at < c.tomb THEN c
  ELSE IF ev.op = "del" THEN [row |-> NoRow, tomb |-> ev.at] ELSE [row |-> ev, tomb |-> 0]

Removed(ev) == [row |-> NoRow, tomb |-> ev.at]

\* A deletion looks at the row only, and an upsert forgets the tombstone.
AppliedNote(c, ev) ==
  IF ev.op = "del" THEN IF NotOlder(ev, c.row) THEN Removed(ev) ELSE c
  ELSE IF ev.at < c.tomb THEN c
  ELSE [row |-> IF NotOlder(ev, c.row) THEN ev ELSE c.row, tomb |-> 0]

\* Of a position both the row and the tombstone must not be newer.
AppliedPosition(c, ev) ==
  IF Predates(ev, c) THEN c
  ELSE IF ev.op = "del" THEN Removed(ev) ELSE [row |-> ev, tomb |-> 0]

\* applyRemoteSyncEvent: a copy of an entity after a remote event.
Applied(c, ev) == IF ev.ent \in Note THEN AppliedNote(c, ev) ELSE AppliedPosition(c, ev)

\* The copies after the entries of a page, in the order of their sequence.
AppliedAll(copies, page) ==
  LET after[n \in 0..Len(log)] ==
        IF n \notin page THEN IF n = 0 THEN copies ELSE after[n - 1]
        ELSE [after[n - 1] EXCEPT ![log[n].ev.ent] = Applied(@, log[n].ev)]
  IN after[Len(log)]

\* Of these entities an event is applied although a later one has been: one that does
\* not follow again, or follows with an earlier time.
Rewinds(t) ==
  {e \in Entity : \E i \in flow[t].page, j \in applied[dev(t)] :
                    /\ i < j /\ log[i].ev.ent = e /\ log[j].ev.ent = e
                    /\ j \notin flow[t].page \/ log[j].ev.at < log[i].ev.at}

Apply(t) ==
  /\ flow[t].pc = "apply"
  /\ local' = [local EXCEPT ![dev(t)] = AppliedAll(@, flow[t].page)]
  /\ applied' = [applied EXCEPT ![dev(t)] = @ \cup flow[t].page]
  /\ rewound' = rewound \cup Rewinds(t)
  /\ Goto(t, "save")
  /\ UNCHANGED <<now, edits, serverVars, outbox, cursor, status, timer, raced, faults>>

\* Mutant: after any page another one is asked for.
Bug_SaveNeverLast(t) ==
  /\ flow[t].pc = "save"
  /\ cursor' = [cursor EXCEPT ![dev(t)] = flow[t].cur]
  /\ SetStatus(t, "syncing")
  /\ flow' = [flow EXCEPT ![t].page = {}, ![t].pc = "pull"]
  /\ UNCHANGED <<now, edits, serverVars, local, outbox, applied, rewound, timer, raced, faults>>

\* The cursor is saved after the page, in a transaction of its own.
Save(t) ==
  /\ flow[t].pc = "save"
  /\ cursor' = [cursor EXCEPT ![dev(t)] = flow[t].cur]
  /\ SetStatus(t, "syncing")
  /\ flow' = [flow EXCEPT ![t].page = {},
                ![t].pc = IF Cardinality(flow[t].page) = PageSize THEN "pull"
                          ELSE IF flow[t].accept THEN "mark" ELSE "finish"]
  /\ UNCHANGED <<now, edits, serverVars, local, outbox, applied, rewound, timer, raced, faults>>

Finish(t) ==
  /\ flow[t].pc = "finish"
  /\ cursor' = [cursor EXCEPT ![dev(t)] = flow[t].cur]
  /\ SetStatus(t, "idle")
  /\ Ends(t)
  /\ UNCHANGED <<now, edits, serverVars, local, outbox, applied, rewound, timer, raced, faults>>

-----------------------------------------------------------------------------
(* runAcceptRemoteState *)

Snapshot(t) ==
  /\ flow[t].pc = "snapshot"
  /\ flow' = [flow EXCEPT ![t].pc = "pull", ![t].cur = cursor[dev(t)],
                          ![t].items = {i \in DOMAIN Items(t) : Items(t)[i].status # "sent"}]
  /\ UNCHANGED <<outbox, Outside>>

\* What was queued is given up, whatever has become of it.
Mark(t) ==
  /\ flow[t].pc = "mark"
  /\ SetItems(t, flow[t].items,
              LAMBDA item : [Released(item, "sent") EXCEPT !.dropped = @ \/ item.status # "sent"])
  /\ Goto(t, "finish")
  /\ UNCHANGED Outside

-----------------------------------------------------------------------------

FlowStep(t) ==
  \/ Recover(t) \/ List(t) \/ Compact(t) \/ Claim(t) \/ Send(t) \/ Settle(t) \/ PushRefused(t)
  \/ Pull(t) \/ PullTimesOut(t) \/ Apply(t) \/ Save(t) \/ Finish(t) \/ Snapshot(t) \/ Mark(t)

\* A lease runs out: in time if nobody works on its items any more.
Owned(d, i) ==
  \E t \in Tab : /\ dev(t) = d /\ flow[t].pc \in {"send", "await"}
                 /\ outbox[d][i].tab = t /\ i \in flow[t].items

LeaseExpires(d, i) ==
  /\ i \in DOMAIN outbox[d] /\ outbox[d][i].status = "sending" /\ ~outbox[d][i].expired
  /\ IF Owned(d, i) THEN Fault ELSE UNCHANGED faults
  /\ outbox' = [outbox EXCEPT ![d][i].expired = TRUE]
  /\ UNCHANGED <<now, edits, serverVars, local, cursor, status, applied, rewound, flow, timer, raced>>

=============================================================================
