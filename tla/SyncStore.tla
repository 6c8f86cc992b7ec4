----------------------------- MODULE SyncStore -----------------------------
(***************************************************************************)
(* The state the connected sync shares: on the server the rows of the      *)
(* synced entities, the sync_events log and the push transactions that are *)
(* writing it; on each device the local rows, their tombstones, the outbox *)
(* and the saved sync state; and the program counters of the tabs that     *)
(* flush one device's outbox.                                              *)
(*                                                                         *)
(* All entities belong to one book the server has.  A note stands for      *)
(* every entity whose server row is kept with deleted_at (bookmarks,       *)
(* highlights, notes, annotations); a position is a reading position,      *)
(* whose row is deleted.  An event stands for the content it carries, so a *)
(* row is the event that wrote it.                                         *)
(***************************************************************************)
EXTENDS Integers, Sequences, FiniteSets

CONSTANTS Device, Tab, Web, Note, Position,
          DeviceOf,   \* the device whose IndexedDB a tab opens
          NoRow,      \* no row, no tab
          Skew,       \* how far the clock of a device, or of a hosted client, is ahead
          BatchSize,  \* SYNC_PUSH_BATCH_SIZE
          PageSize,   \* REMOTE_SYNC_PAGE_SIZE, the limit of the pull query
          MayEdit,    \* bound: how many edits the devices and the hosted clients may make
          MaxDiscards,\* bound: with how many items given up another may be discarded
          MaxFaults   \* bound: crashes, lost requests and answers, aborts, late owners

Entity == Note \cup Position
Author == Device \cup {Web}

Event == [by: Author, n: Nat, ent: Entity, op: {"put", "del"}, at: Nat \ {0}]

ASSUME SyncAssumption ==
  /\ DeviceOf \in [Tab -> Device]
  /\ Skew \in [Author -> Nat]
  /\ Note \cap Position = {} /\ Web \notin Device
  /\ NoRow \notin Event /\ NoRow \notin Tab
  /\ {BatchSize, PageSize} \subseteq Nat \ {0}
  /\ MayEdit \subseteq [Author -> Nat] /\ {MaxDiscards, MaxFaults} \subseteq Nat

VARIABLES
  now,      \* the time, in steps that separate two timestamps
  edits,    \* edits made so far by each author
  row,      \* the server's row of each entity
  log,      \* sync_events by sequence number
  tx,       \* the push transaction that runs for each tab
  web,      \* the reading-position request of a hosted client
  local,    \* each device's row and tombstone of each entity
  outbox,   \* sync_outbox of each device by localSequence
  cursor,   \* sync_state.lastRemoteCursor
  status,   \* sync_state.status
  flow,     \* what LocalOutboxSyncService does in each tab
  timer,    \* whether a tab's mutation push timer runs
  applied,  \* history: the log entries a device has applied
  raced,    \* history: entities that two requests were at work on at the same time
  rewound,  \* history: entities whose copy on a device may have gone back in time
  faults

serverVars == <<row, log, tx, web>>
deviceVars == <<local, outbox, cursor, status, applied, rewound>>
vars == <<now, edits, serverVars, deviceVars, flow, timer, raced, faults>>

Rows == Event \cup {NoRow}

\* A log entry keeps its sequence number whether its transaction commits or not.
Entry == [ev: Event, state: {"open", "kept", "gone"}, tab: Tab \cup {NoRow}]

TxPhase == {"none", "check", "replay", "insert", "persist", "commit", "answered", "failed"}

NoTx == [phase |-> "none", todo |-> <<>>, bad |-> {}, rows |-> <<>>, writer |-> FALSE]

Copy == [row: Rows, tomb: Nat]

Nothing == [row |-> NoRow, tomb |-> 0]

\* "tab" is the lease token; "dropped" marks what acceptRemoteState gave up.
Item == [ev: Event, status: {"pending", "sending", "failed", "sent"}, tab: Tab \cup {NoRow},
         expired: BOOLEAN, dropped: BOOLEAN]

FlowPc == {"closed", "idle", "recover", "list", "compact", "claim", "send", "await",
           "snapshot", "pull", "apply", "save", "mark", "finish"}

\* "items" are the outbox entries listed or claimed, "page" the entries pulled.
Idle == [pc |-> "idle", accept |-> FALSE, first |-> FALSE, items |-> {}, page |-> {}, cur |-> 0]

Closed == [Idle EXCEPT !.pc = "closed"]

Flow == [pc: FlowPc, accept: BOOLEAN, first: BOOLEAN, items: SUBSET Nat, page: SUBSET Nat, cur: Nat]

SyncStatus == {"idle", "syncing", "conflict", "failed"}

-----------------------------------------------------------------------------

Fault == faults < MaxFaults /\ faults' = faults + 1

Live(r) == r # NoRow /\ r.op = "put"

NotOlder(ev, r) == r # NoRow => r.at <= ev.at

\* The first k of a set of numbers.
FirstOf(S, k) == {i \in S : Cardinality({j \in S : j < i}) < k}

\* An edit made now, or a tick later, by the clock of its author.
Edited(a, n, e, op, time) == [by |-> a, n |-> n, ent |-> e, op |-> op, at |-> time + Skew[a]]

NewEdit(a, time) ==
  /\ edits' = [edits EXCEPT ![a] = @ + 1] /\ edits' \in MayEdit
  /\ time \in {now, now + 1} /\ now' = time

=============================================================================
