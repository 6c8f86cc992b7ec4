----------------------------- MODULE SyncServer -----------------------------
(***************************************************************************)
(* The sync routes of the server: a push is one READ COMMITTED transaction *)
(* that handles its events one after the other, several statements each,   *)
(* while other pushes and the routes of hosted clients do the same.  The   *)
(* database makes a writer of a row wait for the transaction that last     *)
(* wrote it, and an insert for another one of the same event id.           *)
(***************************************************************************)
EXTENDS SyncStore

Running(t) == tx[t].phase \notin {"none", "answered", "failed"}

\* What transaction t sees: what is committed and what it wrote itself.
RowSeen(t, e) == IF e \in DOMAIN tx[t].rows THEN tx[t].rows[e] ELSE row[e]

Seen(t) == {i \in DOMAIN log : \/ log[i].state = "kept"
                               \/ log[i].state = "open" /\ log[i].tab = t}

Logged(t, ev) == \E i \in Seen(t) : log[i].ev = ev

LockedByOther(t, e) == \E u \in Tab \ {t} : e \in DOMAIN tx[u].rows

InsertedByOther(t, ev) ==
  \E i \in DOMAIN log : log[i].state = "open" /\ log[i].tab # t /\ log[i].ev = ev

\* Transaction t is at work on entity e.
At(t, e) ==
  /\ Running(t)
  /\ \/ \E k \in DOMAIN tx[t].todo : tx[t].todo[k].ent = e
     \/ \E i \in DOMAIN log : log[i].state = "open" /\ log[i].tab = t /\ log[i].ev.ent = e

Overlap(t, E) == {e \in E : \/ \E u \in Tab \ {t} : At(u, e)
                            \/ web # NoRow /\ web.ent = e}

Logs(ev, state, tab) == log' = Append(log, [ev |-> ev, state |-> state, tab |-> tab])

\* shouldAcceptSyncEvent for an entity whose row is kept.
AcceptsNote(t, ev) == NotOlder(ev, RowSeen(t, ev.ent))

\* Mutant: the log is not searched for a deletion.
Bug_AcceptsByRow(t, ev) ==
  /\ NotOlder(ev, RowSeen(t, ev.ent))
  /\ \A i \in Seen(t) : log[i].ev.ent = ev.ent /\ log[i].ev # ev => log[i].ev.at # ev.at

\* shouldAcceptReadingPositionEvent: the row, the deletions in the log, and no
\* other event of the same moment.
AcceptsPosition(t, ev) ==
  /\ NotOlder(ev, RowSeen(t, ev.ent))
  /\ \A i \in Seen(t) :
       log[i].ev.ent = ev.ent /\ log[i].ev # ev =>
         log[i].ev.at # ev.at /\ (log[i].ev.op = "del" => log[i].ev.at < ev.at)

Accepts(t, ev) == IF ev.ent \in Note THEN AcceptsNote(t, ev) ELSE AcceptsPosition(t, ev)

\* Mutant: an event replaces only a row that is strictly older.
Bug_PersistedLater(ev, r) ==
  IF r # NoRow /\ r.at >= ev.at THEN r
  ELSE IF ev.ent \in Position /\ ev.op = "del" THEN NoRow ELSE ev

\* A deletion removes a position whatever its age.
PersistedPosition(ev, r) ==
  IF ev.op = "del" THEN NoRow ELSE IF NotOlder(ev, r) THEN ev ELSE r

\* An upsert revives a deleted note only if it is not older, and overwrites a live
\* one whatever its age.
PersistedNote(ev, r) == IF Live(r) \/ NotOlder(ev, r) THEN ev ELSE r

\* What persistReaderSyncEvent leaves of row r.
Persisted(ev, r) == IF ev.ent \in Note THEN PersistedNote(ev, r) ELSE PersistedPosition(ev, r)

\* The transaction has dealt with its next event.
Handled(x) ==
  [x EXCEPT !.todo = Tail(@), !.phase = IF Len(x.todo) = 1 THEN "commit" ELSE "check"]

Set(t, x) == tx' = [tx EXCEPT ![t] = x]

Check(t) ==
  /\ tx[t].phase = "check"
  /\ Set(t, [tx[t] EXCEPT !.phase = IF Accepts(t, Head(tx[t].todo)) THEN "insert" ELSE "replay"])
  /\ UNCHANGED <<row, log, web>>

\* A refused event that is logged already is an answer that got lost.
Replay(t) ==
  LET ev == Head(tx[t].todo)
  IN /\ tx[t].phase = "replay"
     /\ Set(t, Handled([tx[t] EXCEPT !.bad = IF Logged(t, ev) THEN @ ELSE @ \cup {ev}]))
     /\ UNCHANGED <<row, log, web>>

\* insertSyncEvent takes the sequence number; the commit comes later.
Insert(t) ==
  LET ev == Head(tx[t].todo)
      x == [tx[t] EXCEPT !.writer = TRUE]
  IN /\ tx[t].phase = "insert" /\ ~InsertedByOther(t, ev)
     /\ IF Logged(t, ev)
        THEN Set(t, Handled(x)) /\ UNCHANGED log
        ELSE /\ Set(t, [x EXCEPT !.phase = "persist"])
             /\ Logs(ev, "open", t)
     /\ UNCHANGED <<row, web>>

\* A deletion that finds no row locks nothing.
Persist(t) ==
  LET ev == Head(tx[t].todo)
      r == RowSeen(t, ev.ent)
      Held == DOMAIN tx[t].rows \cup {ev.ent}
  IN /\ tx[t].phase = "persist"
     /\ IF ev.op = "del" /\ r = NoRow
        THEN Set(t, Handled(tx[t]))
        ELSE /\ ~LockedByOther(t, ev.ent)
             /\ Set(t, Handled([tx[t] EXCEPT !.rows =
                  [e \in Held |-> IF e = ev.ent THEN Persisted(ev, r) ELSE tx[t].rows[e]]]))
     /\ UNCHANGED <<row, log, web>>

Resolved(t, s) ==
  [i \in DOMAIN log |-> IF log[i].state = "open" /\ log[i].tab = t
                        THEN [log[i] EXCEPT !.state = s] ELSE log[i]]

\* Mutant: an answer nobody has a name for.
Bug_AnswerUnnamed(t, phase) == [NoTx EXCEPT !.phase = "done", !.bad = tx[t].bad]

\* The result, if the tab still waits for it.
Answer(t, phase) ==
  IF flow[t].pc = "await" THEN [NoTx EXCEPT !.phase = phase, !.bad = tx[t].bad] ELSE NoTx

Commit(t) ==
  /\ tx[t].phase = "commit"
  /\ row' = [e \in Entity |-> RowSeen(t, e)]
  /\ log' = Resolved(t, "kept")
  /\ Set(t, Answer(t, "answered"))
  /\ UNCHANGED web

Abort(t) ==
  /\ Running(t)
  /\ log' = Resolved(t, "gone")
  /\ Set(t, Answer(t, "failed"))
  /\ UNCHANGED <<row, web>>

\* t waits for a row that u has locked.
WaitsFor(t, u) ==
  /\ tx[t].phase = "persist" /\ u # t
  /\ Head(tx[t].todo).ent \in DOMAIN tx[u].rows

Deadlocked(t) == \E u \in Tab : WaitsFor(t, u) /\ WaitsFor(u, t)

PushStep(t) ==
  /\ Check(t) \/ Replay(t) \/ Insert(t) \/ Persist(t) \/ Commit(t)
  /\ UNCHANGED <<now, edits, deviceVars, flow, timer, raced, faults>>

\* The database ends one of two transactions that wait for each other.
PushAborts(t) ==
  /\ Abort(t)
  /\ IF Deadlocked(t) THEN UNCHANGED faults ELSE Fault
  /\ UNCHANGED <<now, edits, deviceVars, flow, timer, raced>>

-----------------------------------------------------------------------------
(* The routes of hosted clients *)

\* A hosted client dates what it sends, and it may arrive late; the server dates the
\* deletion of a note (annotation-routes.ts:519).
WebEdited(e, op, made) ==
  [Edited(Web, 0, e, op, made) EXCEPT !.at = IF e \in Note /\ op = "del" THEN made ELSE @]

\* The time when what was made at `made` arrives: the clock goes on as far as it must.
Arrival(made) == IF made > now THEN made ELSE now

\* The id of a hosted event is derived from its type, entity and time.
NewWebEvent(ev) == \A i \in DOMAIN log : log[i].ev # ev

\* The note routes lock the book against every push before they look.  The delete
\* does not compare its time with the row's.
HostedNote(e, op) ==
  \E made \in 1..now + 1 :
    LET ev == WebEdited(e, op, made)
    IN /\ e \in Note /\ NewEdit(Web, Arrival(made)) /\ NewWebEvent(ev)
       /\ op = "del" => made = Arrival(made)
       /\ \A t \in Tab : ~Running(t)
       /\ IF op = "put" THEN NotOlder(ev, row[e]) ELSE Live(row[e])
       /\ row' = [row EXCEPT ![e] = ev]
       /\ Logs(ev, "kept", NoRow)
       /\ UNCHANGED <<tx, web, deviceVars, flow, timer, raced, faults>>

\* The position routes look first, under a lock that pushes do not take.
HostedPosition(e, op) ==
  \E made \in 1..now + 1 :
    LET ev == WebEdited(e, op, made)
        Deletions == {i \in DOMAIN log : log[i].state = "kept" /\ log[i].ev.ent = e /\ log[i].ev.op = "del"}
    IN /\ e \in Position /\ web = NoRow /\ NewEdit(Web, Arrival(made)) /\ NewWebEvent(ev)
       /\ IF op = "put" THEN \A i \in Deletions : log[i].ev.at < ev.at
          ELSE NotOlder(ev, row[e]) /\ \A i \in Deletions : log[i].ev.at <= ev.at
       /\ web' = ev /\ raced' = raced \cup Overlap(NoRow, {e})
       /\ UNCHANGED <<row, log, tx, deviceVars, flow, timer, faults>>

\* A position that is older than the row is logged if it is newer than what was read of
\* its chapter.
HostedWrites ==
  /\ web # NoRow
  /\ web.op = "put" \/ row[web.ent] # NoRow =>
       \A t \in Tab : web.ent \notin DOMAIN tx[t].rows
  /\ web' = NoRow
  /\ row' = [row EXCEPT ![web.ent] = Persisted(web, @)]
  /\ \/ Logs(web, "kept", NoRow)
     \/ web.op = "put" /\ ~NotOlder(web, row[web.ent]) /\ UNCHANGED log
  /\ UNCHANGED <<now, edits, tx, deviceVars, flow, timer, raced, faults>>

-----------------------------------------------------------------------------
(* The pull query *)

\* Mutant: the pull does not wait for the pushes that run.
Bug_WaitsForNobody == TRUE

\* SHARE mode waits for every transaction that has written to sync_events.
NoWriters == \A t \in Tab : ~tx[t].writer

After(c) == {i \in DOMAIN log : i > c /\ log[i].state = "kept"}

=============================================================================
