---------------------------- MODULE SyncProtocol ----------------------------
(***************************************************************************)
(* The connected sync as a whole: devices with their tabs, the server and  *)
(* the hosted clients, with the properties that make it correct.           *)
(***************************************************************************)
EXTENDS SyncClient

Init ==
  /\ now = 1 /\ edits = [a \in Author |-> 0] /\ faults = 0
  /\ row = [e \in Entity |-> NoRow]
  /\ log = <<>>
  /\ tx = [t \in Tab |-> NoTx]
  /\ web = NoRow
  /\ local = [d \in Device |-> [e \in Entity |-> Nothing]]
  /\ outbox = [d \in Device |-> <<>>]
  /\ cursor = [d \in Device |-> 0]
  /\ status = [d \in Device |-> "idle"]
  /\ applied = [d \in Device |-> {}] /\ raced = {} /\ rewound = {}
  /\ flow = [t \in Tab |-> Idle]
  /\ timer = [t \in Tab |-> FALSE]

User ==
  \/ \E t \in Tab, e \in Entity, op \in {"put", "del"} : Edit(t, e, op)
  \/ \E e \in Entity, op \in {"put", "del"} : HostedNote(e, op) \/ HostedPosition(e, op)
  \/ \E t \in Tab : SyncNow(t) \/ AcceptRemote(t) \/ Open(t)
  \/ \E t \in Tab : \E i \in DOMAIN Items(t) : Discard(t, i)

Faults == \E t \in Tab : TabDies(t) \/ PushLost(t) \/ PullLost(t) \/ PushAborts(t)

Next ==
  \/ User \/ Faults \/ HostedWrites
  \/ \E t \in Tab : TimerFires(t) \/ FlowStep(t) \/ PushStep(t)
  \/ \E d \in Device : \E i \in DOMAIN outbox[d] : LeaseExpires(d, i)

Spec == Init /\ [][Next]_vars

(***************************************************************************)
(* Fairness: open tabs and the server carry on with what they have begun,  *)
(* timers fire, a lease that nobody renews runs out and the database ends  *)
(* a deadlock.  Nothing makes a user edit or sync, or a fault happen.      *)
(***************************************************************************)
Fairness ==
  /\ WF_vars(HostedWrites)
  /\ \A t \in Tab : /\ WF_vars(FlowStep(t)) /\ WF_vars(PushStep(t)) /\ WF_vars(TimerFires(t))
                   /\ WF_vars(Deadlocked(t) /\ PushAborts(t))
  /\ \A d \in Device : WF_vars(\E i \in DOMAIN outbox[d] : ~Owned(d, i) /\ LeaseExpires(d, i))

FairSpec == Spec /\ Fairness

-----------------------------------------------------------------------------
(* Types *)

TxTypeOK(x) ==
  /\ x.phase \in TxPhase /\ x.writer \in BOOLEAN
  /\ x.todo \in Seq(Event) /\ x.bad \subseteq Event
  /\ DOMAIN x.rows \subseteq Entity /\ \A e \in DOMAIN x.rows : x.rows[e] \in Rows

\* Every table, database and program counter keeps its type.
TypeOK ==
  /\ now \in Nat /\ edits \in [Author -> Nat] /\ faults \in Nat
  /\ row \in [Entity -> Rows]
  /\ log \in Seq(Entry)
  /\ DOMAIN tx = Tab /\ \A t \in Tab : TxTypeOK(tx[t])
  /\ web \in Rows
  /\ local \in [Device -> [Entity -> Copy]]
  /\ outbox \in [Device -> Seq(Item)]
  /\ cursor \in [Device -> Nat]
  /\ status \in [Device -> SyncStatus]
  /\ applied \in [Device -> SUBSET Nat] /\ raced \subseteq Entity /\ rewound \subseteq Entity
  /\ flow \in [Tab -> Flow]
  /\ timer \in [Tab -> BOOLEAN]

-----------------------------------------------------------------------------
(* Safety *)

Kept(ev) == \E i \in DOMAIN log : log[i].state = "kept" /\ log[i].ev = ev

\* A device has applied every event up to its cursor, and none can appear there
\* any more: neither a push that commits late nor a tab that dies between
\* applying a page and saving the cursor hides an event from the device.
CursorMissesNothing ==
  \A d \in Device : \A i \in 1..cursor[d] :
    /\ i \in DOMAIN log /\ log[i].state # "open"
    /\ log[i].state = "kept" => i \in applied[d]

\* An item that counts as sent is in the log, was given up by the user, or is a
\* position that a later one of the same book replaces: no lost answer, expired
\* lease or dead tab makes an edit disappear.
SentIsNotLost ==
  \A d \in Device : \A i \in DOMAIN outbox[d] :
    outbox[d][i].status = "sent" =>
      \/ outbox[d][i].dropped \/ Kept(outbox[d][i].ev)
      \/ /\ outbox[d][i].ev.ent \in Position
         /\ \E j \in i + 1 .. Len(outbox[d]) : /\ outbox[d][j].ev.ent = outbox[d][i].ev.ent
                                               /\ outbox[d][j].ev.op = "put"

\* Everything is sent, nothing runs, and every device has read the whole log.
Quiet ==
  /\ \A t \in Tab : tx[t].phase = "none" /\ flow[t].pc \in {"closed", "idle"}
  /\ \A d \in Device : /\ \A i \in DOMAIN outbox[d] : outbox[d][i].status = "sent"
                       /\ After(cursor[d]) = {}
  /\ web = NoRow

NothingDropped == \A d \in Device : \A i \in DOMAIN outbox[d] : ~outbox[d][i].dropped

\* i and j are kept entries of one entity in the order of the log.
Follow(i, j) ==
  /\ i < j /\ log[i].state = "kept" /\ log[j].state = "kept"
  /\ log[i].ev.ent = log[j].ev.ent

LoggedInOrder(e) ==
  \A i, j \in DOMAIN log : Follow(i, j) /\ log[i].ev.ent = e => log[i].ev.at <= log[j].ev.at

\* Once everything is sent and read the devices show the same, in whatever order
\* their pushes interleaved on the server, were repeated or cut off, except for
\* entities whose copy on some device may have gone back in time.
DevicesConverge ==
  Quiet /\ NothingDropped =>
    \A d, x \in Device, e \in Entity \ rewound : local[d][e].row = local[x][e].row

Shown(r) == IF Live(r) THEN r ELSE NoRow

\* And they show what the server shows its hosted clients, except for entities
\* that two requests worked on at once or whose events are not logged in order.
ServerConvergesUnlessRaced ==
  Quiet /\ NothingDropped =>
    \A d \in Device, e \in Entity \ (raced \cup rewound) : LoggedInOrder(e) => local[d][e].row = Shown(row[e])

\* A note deleted before the server had it leaves no trace in its row.
FoundNoRow(i) ==
  /\ log[i].ev.ent \in Note /\ log[i].ev.op = "del"
  /\ \A k \in DOMAIN log : Follow(k, i) => log[k].ev.op = "del"

\* The hosted deletion of a note, whose time nobody compares with the row's, has put the
\* row back before event i.
SetBack(i) ==
  /\ log[i].ev.ent \in Note
  /\ \E k \in DOMAIN log : /\ Follow(i, k) /\ log[k].ev.by = Web /\ log[k].ev.op = "del"
                           /\ log[k].ev.at < log[i].ev.at

\* A hosted position j that is older than the row is logged all the same, if it is newer than
\* what was read of its chapter (reader-state-routes.ts:101): no deletion came after i.
ReadingOnly(i, j) ==
  /\ log[j].ev.by = Web /\ log[j].ev.op = "put" /\ log[j].ev.ent \in Position
  /\ log[i].ev.op = "put"
  /\ \A k \in DOMAIN log : Follow(i, k) /\ k < j => log[k].ev.op # "del"

\* What docs/architecture/large-file-and-sync-architecture.md:448 and :456 say: neither a
\* push nor a request of a hosted client puts an event into the log that is older than
\* what is logged already.  Excepted is an entity two requests worked on at once, a
\* deletion that overtook the creation, a note whose hosted deletion put its row back, and
\* a hosted position that only counts as read, which :448 rules out and the code logs.
StaleNeverLoggedUnlessRaced ==
  \A i, j \in DOMAIN log :
    Follow(i, j) /\ log[i].ev.ent \notin raced /\ ~FoundNoRow(i) /\ ~SetBack(i) /\ ~ReadingOnly(i, j)
      => log[i].ev.at <= log[j].ev.at

-----------------------------------------------------------------------------
(* The feed the devices read *)

Published == {i \in DOMAIN log : log[i].state = "kept"}

Feed == INSTANCE SyncFeed WITH published <- Published, taken <- applied, read <- cursor

\* Pushes, pages, tabs and saved cursors implement the feed: no event is published
\* behind a device, and a cursor never passes an event the device has not applied.
ImplementsFeed == Feed!Spec

-----------------------------------------------------------------------------
(* Liveness *)

Busy(t) == flow[t].pc \notin {"closed", "idle"}

\* An operation of a tab ends, however the requests, other tabs and other pushes
\* it waits for behave.
FlushEnds == \A t \in Tab : Busy(t) ~> ~Busy(t)

Settled(d) ==
  \/ status[d] = "conflict"
  \/ \A i \in DOMAIN outbox[d] : outbox[d][i].status = "sent"

\* A flush begins, on whichever tab.
FlushBegins(d) == \E t \in Tab : dev(t) = d /\ ~Busy(t) /\ (SyncNow(t) \/ TimerFires(t) \/ Open(t)) /\ Busy(t)'

\* If only flushes keep beginning on a device, what it has queued is sent or
\* refused: no lease of a dead tab, lost answer or competing tab blocks it for ever.
QueueSettles ==
  \A d \in Device : []<><<FlushBegins(d)>>_vars => []<>Settled(d)

=============================================================================
