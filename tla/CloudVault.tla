------------------------------ MODULE CloudVault ------------------------------
(***************************************************************************)
(* Cloud Vault: CloudVaultService.sync and the controller that starts it,  *)
(* in the tabs of several devices, against one vault file.  A tab shares   *)
(* the IndexedDB of its device with the other tabs and nothing else: what  *)
(* it knows to be unsynced, and the revision it has seen, are its own.     *)
(* Between any two steps there is network or database time.                *)
(***************************************************************************)
EXTENDS VaultMerge

CONSTANTS Tab, DeviceOf,
          Skew,         \* how far the clock of a device is ahead
          MaxAttempts,  \* how often sync tries
          MaxEdits,     \* bound: edits made on each device
          MaxFaults     \* bound: failed requests, lost answers, tabs that die

ASSUME VaultAssumption ==
  /\ DeviceOf \in [Tab -> Device] /\ Skew \in [Device -> Nat]
  /\ MaxAttempts \in Nat \ {0} /\ MaxEdits \in [Device -> Nat] /\ MaxFaults \in Nat

\* So that there always is a revision nobody remembers.
ASSUME VaultFinite == IsFiniteSet(Tab) /\ IsFiniteSet(Device)

VARIABLES
  provider,  \* "cas": the store compares and sets; "folder": a shared folder
  now,       \* the time, in steps that separate two timestamps
  edits,     \* edits made so far on each device
  local,     \* the records of each device
  vault,     \* the vault file: its revision, 0 if there is none, and records
  flow,      \* the sync that runs in each tab
  dirty,     \* whether a tab knows of an edit it has not synced
  known,     \* the remote revision a tab has in its configuration
  saved,     \* the one in the configuration a device has stored
  doubt,     \* history: devices that may hold what no tab knows to be unsynced
  faults

dataVars == <<provider, now, edits, local>>
tabVars == <<dirty, known, saved, doubt>>
vars == <<dataVars, vault, flow, tabVars, faults>>

Pc == {"closed", "idle", "read", "capture", "write", "overwrite", "probe", "recapture", "apply"}

Empty == [e \in Entity |-> Nothing]

\* "base" is the revision read, later the one written; "remote" are its records,
\* "mine" those of the device and "merged" both; "changed" says whether this tab has
\* edited since the start; "late" are the entities changed on the device since the
\* second capture.
Idle == [pc |-> "idle", attempt |-> 0, base |-> 0, remote |-> Empty, mine |-> Empty,
         merged |-> Empty, changed |-> FALSE, late |-> {}]

Closed == [Idle EXCEPT !.pc = "closed"]

Flow == [pc: Pc, attempt: 0..MaxAttempts, base: Nat, remote: Snapshot, mine: Snapshot,
         merged: Snapshot, changed: BOOLEAN, late: SUBSET Entity]

dev(t) == DeviceOf[t]

Busy(t) == flow[t].pc \notin {"closed", "idle"}

Fault == faults < MaxFaults /\ faults' = faults + 1

Set(t, f) == flow' = [flow EXCEPT ![t] = f]

\* Entities E of a device change while tabs of it are about to apply.
Disturbed(d, E) ==
  [u \in Tab |-> IF dev(u) = d /\ flow[u].pc = "apply" THEN [flow[u] EXCEPT !.late = @ \cup E]
                 ELSE flow[u]]

-----------------------------------------------------------------------------
(* The reader edits *)

\* The moment of an edit; before the first one only an order of moments matters.
Times == {now} \cup {now + 1 : d \in {d \in Device : edits[d] > 0}}

\* An edit makes its tab dirty, whatever the tab is doing.
Edit(t, e, op) ==
  \E time \in Times :
    LET d == dev(t)
        r == [by |-> d, n |-> edits[d] + 1, at |-> time + Skew[d]]
    IN /\ flow[t].pc # "closed"
       /\ edits[d] < MaxEdits[d] /\ edits' = [edits EXCEPT ![d] = @ + 1] /\ now' = time
       /\ op = "del" => local[d][e].row # NoRow
       /\ local' = [local EXCEPT ![d][e] = IF op = "put" THEN Saved(e, @, r) ELSE Deleted(r.at)]
       /\ flow' = [Disturbed(d, {e}) EXCEPT ![t].changed = Busy(t)]
       /\ dirty' = [dirty EXCEPT ![t] = TRUE]
       /\ UNCHANGED <<provider, vault, known, saved, doubt, faults>>

-----------------------------------------------------------------------------
(* The controller: one sync at a time in a tab *)

\* A start of the application, a button, the timer after an edit, or the probe.
Begin(t) ==
  /\ flow[t].pc = "idle"
  /\ Set(t, [Idle EXCEPT !.pc = "read", !.attempt = 1])
  /\ UNCHANGED <<dataVars, vault, tabVars, faults>>

\* Mutant: the probe looks at the revision only.
Bug_NoticedByRevision(t) == known[t] # vault.rev

\* What the probe every two minutes needs to sync: an edit, another revision, or a
\* store that cannot be asked for it.
Noticed(t) == dirty[t] \/ known[t] # vault.rev \/ known[t] = 0 \/ provider = "folder"

\* The configuration is read from the device; what was dirty is forgotten.
Open(t) ==
  /\ flow[t].pc = "closed" /\ Set(t, Idle)
  /\ known' = [known EXCEPT ![t] = saved[dev(t)]]
  /\ UNCHANGED <<dataVars, vault, dirty, saved, doubt, faults>>

TabDies(t) ==
  /\ flow[t].pc # "closed" /\ Fault /\ Set(t, Closed)
  /\ doubt' = IF dirty[t] THEN doubt \cup {dev(t)} ELSE doubt
  /\ dirty' = [dirty EXCEPT ![t] = FALSE]
  /\ UNCHANGED <<dataVars, vault, known, saved>>

-----------------------------------------------------------------------------
(* CloudVaultService.sync *)

\* Steps that change nothing but where the sync stands.
Outside == <<dataVars, vault, tabVars, faults>>

\* A conflict: the next attempt reads again; the last one throws.
Retry(t) ==
  Set(t, IF flow[t].attempt = MaxAttempts THEN Idle
         ELSE [Idle EXCEPT !.pc = "read", !.attempt = flow[t].attempt + 1,
                           !.changed = flow[t].changed])

\* capture, which follows, reads the tombstones first.
Read(t) ==
  /\ flow[t].pc = "read"
  /\ Set(t, [flow[t] EXCEPT !.pc = "capture", !.base = vault.rev, !.remote = vault.copies,
               !.mine = [e \in Entity |-> [Nothing EXCEPT !.tomb = local[dev(t)][e].tomb]]])
  /\ UNCHANGED Outside

\* And then the rows; the merge follows, and decides whether there is anything to
\* write.  Without a vault file nothing is merged.
Capture(t) ==
  LET mine == [e \in Entity |-> [flow[t].mine[e] EXCEPT !.row = local[dev(t)][e].row]]
      merged == IF flow[t].base = 0 THEN mine
                ELSE [e \in Entity |-> Merged(mine[e], flow[t].remote[e])]
      unchanged == flow[t].base # 0 /\ merged = flow[t].remote
  IN /\ flow[t].pc = "capture"
     /\ Set(t, [flow[t] EXCEPT !.mine = mine, !.merged = merged, !.remote = Empty,
                               !.pc = IF unchanged THEN "probe" ELSE "write"])
     /\ UNCHANGED Outside

\* A revision that nobody remembers.
NewRevision ==
  LET Used == {vault.rev} \cup {known[t] : t \in Tab} \cup {saved[d] : d \in Device}
                \cup {flow[t].base : t \in Tab}
  IN CHOOSE r \in 1 .. Cardinality(Used) + 1 : r \notin Used

Stores(t) ==
  /\ vault' = [rev |-> NewRevision, copies |-> flow[t].merged]
  /\ UNCHANGED <<dataVars, tabVars>>

Stored(t) == Set(t, [flow[t] EXCEPT !.pc = "recapture", !.base = NewRevision])

\* Mutant: the revision is not compared.
Bug_WriteUnconditionally(t) ==
  /\ flow[t].pc = "write"
  /\ IF provider = "cas" THEN Stores(t) /\ Stored(t)
     ELSE Set(t, [flow[t] EXCEPT !.pc = "overwrite"]) /\ UNCHANGED <<dataVars, tabVars, vault>>
  /\ UNCHANGED faults

\* The shared folder is looked at now and written later.
Write(t) ==
  /\ flow[t].pc = "write"
  /\ IF flow[t].base # vault.rev THEN Retry(t) /\ UNCHANGED <<dataVars, tabVars, vault>>
     ELSE IF provider = "cas" THEN Stores(t) /\ Stored(t)
     ELSE Set(t, [flow[t] EXCEPT !.pc = "overwrite"]) /\ UNCHANGED <<dataVars, tabVars, vault>>
  /\ UNCHANGED faults

Overwrite(t) == flow[t].pc = "overwrite" /\ Stores(t) /\ Stored(t) /\ UNCHANGED faults

\* The vault is written and the answer lost.
WriteLost(t) ==
  /\ \/ flow[t].pc = "write" /\ provider = "cas" /\ flow[t].base = vault.rev
     \/ flow[t].pc = "overwrite"
  /\ Fault /\ Stores(t) /\ Set(t, Idle)

\* With nothing to write, the revision must still be the one that was read.
ProbeAgain(t) ==
  /\ flow[t].pc = "probe"
  /\ IF flow[t].base # vault.rev THEN Retry(t)
     ELSE Set(t, [flow[t] EXCEPT !.pc = "recapture"])
  /\ UNCHANGED Outside

ToApply(t) == Set(t, [flow[t] EXCEPT !.pc = "apply", !.mine = Empty])

\* Mutant: what was edited meanwhile is not looked at.
Bug_RecaptureNothing(t) == flow[t].pc = "recapture" /\ ToApply(t) /\ UNCHANGED Outside

\* The merge is applied only if the device is still as it was captured.
Recapture(t) ==
  /\ flow[t].pc = "recapture"
  /\ IF flow[t].mine = local[dev(t)] THEN ToApply(t) ELSE Retry(t)
  /\ UNCHANGED Outside

\* Mutant: a finished sync leaves nothing dirty.
Bug_StillDirty(t) == FALSE

\* What stays dirty after a sync of t: what the tab has edited since it began.
StillDirty(t) == flow[t].changed

\* Missing content is downloaded first; then all records change in one transaction,
\* and the tab remembers the revision.
Apply(t) ==
  LET d == dev(t)
      after == [e \in Entity |-> Applied(e, local[d][e], flow[t].merged[e])]
  IN /\ flow[t].pc = "apply"
     /\ local' = [local EXCEPT ![d] = after]
     /\ flow' = [Disturbed(d, {e \in Entity : after[e] # local[d][e]}) EXCEPT ![t] = Idle]
     /\ known' = [known EXCEPT ![t] = flow[t].base]
     /\ saved' = [saved EXCEPT ![d] = flow[t].base]
     /\ dirty' = [dirty EXCEPT ![t] = StillDirty(t)]
     /\ doubt' = IF flow[t].late = {} THEN doubt \ {d} ELSE doubt
     /\ UNCHANGED <<provider, now, edits, vault, faults>>

\* Any request may fail; what was dirty stays so.
SyncFails(t) ==
  /\ Busy(t) /\ Fault /\ Set(t, Idle)
  /\ UNCHANGED <<dataVars, vault, tabVars>>

-----------------------------------------------------------------------------

Init ==
  /\ provider \in {"cas", "folder"}
  /\ now = 1 /\ edits = [d \in Device |-> 0] /\ faults = 0
  /\ local = [d \in Device |-> Empty] /\ vault = [rev |-> 0, copies |-> Empty]
  /\ flow = [t \in Tab |-> Idle]
  /\ dirty = [t \in Tab |-> FALSE] /\ known = [t \in Tab |-> 0] /\ saved = [d \in Device |-> 0]
  /\ doubt = {}

SyncStep(t) ==
  \/ Read(t) \/ Capture(t) \/ Write(t) \/ Overwrite(t) \/ ProbeAgain(t)
  \/ Recapture(t) \/ Apply(t)

Next ==
  \/ \E t \in Tab, e \in Entity, op \in {"put", "del"} : Edit(t, e, op)
  \/ \E t \in Tab : Begin(t) \/ Open(t) \/ SyncStep(t)
  \/ \E t \in Tab : TabDies(t) \/ WriteLost(t) \/ SyncFails(t)

Spec == Init /\ [][Next]_vars

-----------------------------------------------------------------------------

\* The vault, every device, tab and program counter keep their types.
TypeOK ==
  /\ provider \in {"cas", "folder"}
  /\ now \in Nat /\ edits \in [Device -> Nat] /\ faults \in Nat
  /\ local \in [Device -> Snapshot]
  /\ vault \in [rev: Nat, copies: Snapshot]
  /\ flow \in [Tab -> Flow]
  /\ dirty \in [Tab -> BOOLEAN] /\ known \in [Tab -> Nat] /\ saved \in [Device -> Nat]
  /\ doubt \subseteq Device

\* Copy c has lost nothing that b had: its row is no older, or a deletion wins over
\* the row b had; and a tombstone is not replaced by an older one.
Covers(c, b) ==
  /\ c.tomb >= b.tomb
  /\ b.row # NoRow => Buried(b.row, c.tomb) \/ (c.row # NoRow /\ c.row.at >= b.row.at)

\* A store that compares revisions never forgets a record or a deletion, however
\* the syncs of the devices interleave, fail, or write without hearing the answer.
VaultNeverForgets ==
  [][provider = "cas" => \A e \in Entity : Covers(vault'.copies[e], vault.copies[e])]_vars

\* Tab t's apply takes no newer row from its device, looking at entities E.
TakesNothingNewer(t, E) ==
  \A e \in E : LET r == local[dev(t)][e].row
                  c == local'[dev(t)][e]
              IN r # NoRow => Buried(r, c.tomb) \/ (c.row # NoRow /\ c.row.at >= r.at)

Applies(t) == flow[t].pc = "apply" /\ flow'[t].pc = "idle"

\* An apply overwrites nothing that was saved before the second capture, in
\* whichever tab.
ApplyKeepsEditsUnlessLate ==
  [][\A t \in Tab : Applies(t) => TakesNothingNewer(t, Entity \ flow[t].late)]_vars

\* Nothing runs on d or is known to be unsynced, and the last sync that ended there
\* saw the vault as it is.
Synced(d) ==
  /\ vault.rev # 0 /\ saved[d] = vault.rev
  /\ \A t \in Tab : dev(t) = d => ~Busy(t) /\ ~dirty[t]

OneTab(d) == \A t, u \in Tab : dev(t) = d /\ dev(u) = d => t = u

Shown(c) == IF Buried(c.row, c.tomb) THEN NoRow ELSE c.row

\* A device whose last sync saw the vault as it is shows what the vault holds; so
\* all such devices show the same.  Excepted is a device where a tab died before it
\* had synced its edits, until a sync ends there, and in a shared folder, which may
\* lose what one of two tabs has read, a device with several.
SyncedShowsVault ==
  \A d \in Device \ doubt : Synced(d) /\ (provider = "folder" => OneTab(d)) =>
    \A e \in Entity : local[d][e].row = Shown(vault.copies[e])

\* What a device holds and the vault does not is noticed: a tab is at work on it, or
\* its next probe will sync, whoever else has written the vault, failed or given up.
\* Excepted is a device where a tab died before it had synced its edits.
UnsyncedIsNoticed ==
  \A d \in Device \ doubt :
    \/ \A e \in Entity : Covers(vault.copies[e], local[d][e])
    \/ \A t \in Tab : dev(t) = d => flow[t].pc = "closed"
    \/ \E t \in Tab : dev(t) = d /\ flow[t].pc # "closed" /\ (Busy(t) \/ Noticed(t))

=============================================================================
