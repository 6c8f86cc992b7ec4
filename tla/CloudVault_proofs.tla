--------------------------- MODULE CloudVault_proofs ---------------------------
(***************************************************************************)
(* For any set of devices, tabs and records, any clock skew and any number *)
(* of edits, attempts and faults: a vault file whose store compares        *)
(* revisions never forgets a record or a deletion, and the three things    *)
(* that matter to a device: an apply takes nothing from it that the sync   *)
(* had seen, what it has and the vault has not is noticed, and a device    *)
(* that has seen the vault as it is shows what it holds.                   *)
(***************************************************************************)
EXTENDS CloudVault, FiniteSetTheorems, TLAPS

-----------------------------------------------------------------------------
(***************************************************************************)
(* Records.                                                                *)
(***************************************************************************)
LEMMA MergedType == ASSUME NEW l \in Copy, NEW r \in Copy PROVE Merged(l, r) \in Copy
<1>1. Chosen(l.row, r.row) \in Row \cup {NoRow} /\ Later(l.tomb, r.tomb) \in Nat
  BY DEF Chosen, Later, Copy
<1> QED BY <1>1 DEF Merged, Copy

\* A merge loses nothing of the vault's side.
LEMMA MergedCovers == ASSUME NEW l \in Copy, NEW r \in Copy PROVE Covers(Merged(l, r), r)
<1> DEFINE kept == Chosen(l.row, r.row)
           tomb == Later(l.tomb, r.tomb)
           m == Merged(l, r)
<1>1. /\ l.tomb \in Nat /\ r.tomb \in Nat
      /\ l.row # NoRow => l.row \in Row /\ l.row.at \in Nat
      /\ r.row # NoRow => r.row \in Row /\ r.row.at \in Nat
  BY DEF Copy, Row
<1>2. tomb \in Nat /\ tomb >= r.tomb
  BY <1>1 DEF Later
<1>3. r.row # NoRow => kept # NoRow /\ kept.at \in Nat /\ kept.at >= r.row.at
  BY <1>1 DEF Chosen
<1>4. m.tomb = tomb /\ m.row = IF Buried(kept, tomb) THEN NoRow ELSE kept
  BY DEF Merged
<1> HIDE DEF kept, tomb, m
<1>5. ASSUME r.row # NoRow, Buried(kept, tomb) PROVE Buried(r.row, m.tomb)
  BY <1>1, <1>2, <1>3, <1>4, <1>5 DEF Buried
<1>6. ASSUME r.row # NoRow, ~Buried(kept, tomb) PROVE m.row # NoRow /\ m.row.at >= r.row.at
  BY <1>3, <1>4, <1>6
<1>7. Covers(m, r)
  BY <1>2, <1>4, <1>5, <1>6 DEF Covers
<1> QED BY <1>7 DEF m

LEMMA CoversItself == ASSUME NEW c \in Copy PROVE Covers(c, c)
BY DEF Covers, Copy, Row

\* And nothing of the device's side.
LEMMA MergedCoversMine == ASSUME NEW l \in Copy, NEW r \in Copy PROVE Covers(Merged(l, r), l)
<1> DEFINE kept == Chosen(l.row, r.row)
           tomb == Later(l.tomb, r.tomb)
           m == Merged(l, r)
<1>1. /\ l.tomb \in Nat /\ r.tomb \in Nat
      /\ l.row # NoRow => l.row \in Row /\ l.row.at \in Nat
      /\ r.row # NoRow => r.row \in Row /\ r.row.at \in Nat
  BY DEF Copy, Row
<1>2. tomb \in Nat /\ tomb >= l.tomb
  BY <1>1 DEF Later
<1>3. l.row # NoRow => kept # NoRow /\ kept.at \in Nat /\ kept.at >= l.row.at
  BY <1>1 DEF Chosen
<1>4. m.tomb = tomb /\ m.row = IF Buried(kept, tomb) THEN NoRow ELSE kept
  BY DEF Merged
<1> HIDE DEF kept, tomb, m
<1>5. ASSUME l.row # NoRow, Buried(kept, tomb) PROVE Buried(l.row, m.tomb)
  BY <1>1, <1>2, <1>3, <1>4, <1>5 DEF Buried
<1>6. ASSUME l.row # NoRow, ~Buried(kept, tomb) PROVE m.row # NoRow /\ m.row.at >= l.row.at
  BY <1>3, <1>4, <1>6
<1>7. Covers(m, l)
  BY <1>2, <1>4, <1>5, <1>6 DEF Covers
<1> QED BY <1>7 DEF m

LEMMA CopyFields ==
  ASSUME NEW c \in Copy
  PROVE  /\ c.tomb \in Nat /\ c.row \in Row \cup {NoRow}
         /\ c.row # NoRow => c.row \in Row /\ c.row.at \in Nat \ {0}
BY DEF Copy, Row

LEMMA CoversTransitive ==
  ASSUME NEW a \in Copy, NEW b \in Copy, NEW c \in Copy, Covers(a, b), Covers(b, c)
  PROVE  Covers(a, c)
BY CopyFields DEF Covers, Buried

\* Where the device is covered, an apply leaves it covered, shows what was merged
\* and takes nothing newer.
LEMMA AppliedCovered ==
  ASSUME NEW e, NEW v \in Copy, NEW c \in Copy, NEW m \in Copy, Covers(v, c), Covers(v, m)
  PROVE  Covers(v, Applied(e, c, m))
<1>1. Put(e, c, m) \in {c.row, m.row}
  BY DEF Put
<1>2. /\ Applied(e, c, m).tomb \in {c.tomb, m.tomb}
      /\ Applied(e, c, m).row \in {c.row, m.row, NoRow}
  BY <1>1 DEF Applied
<1> QED BY <1>2, CopyFields DEF Covers

LEMMA AppliedShows ==
  ASSUME NEW e, NEW c \in Copy, NEW m \in Copy, Covers(m, c)
  PROVE  Applied(e, c, m).row = Shown(m)
<1> DEFINE r == Put(e, c, m)
<1>1. Applied(e, c, m).row = IF m.tomb # 0 /\ Buried(r, m.tomb) THEN NoRow ELSE r
  BY DEF Applied
<1>2. r = IF m.row # NoRow /\ (e \in Position /\ c.row # NoRow => m.row.at >= c.row.at)
          THEN m.row ELSE c.row
  BY DEF Put
<1> HIDE DEF r
<1>3. CASE m.row = NoRow
  BY <1>1, <1>2, <1>3, CopyFields DEF Shown, Covers, Buried
<1>4. CASE m.row # NoRow
  BY <1>1, <1>2, <1>4, CopyFields DEF Shown, Covers, Buried
<1> QED BY <1>3, <1>4

LEMMA AppliedTakesNothing ==
  ASSUME NEW e, NEW c \in Copy, NEW m \in Copy, Covers(m, c), c.row # NoRow
  PROVE  LET a == Applied(e, c, m)
         IN Buried(c.row, a.tomb) \/ (a.row # NoRow /\ a.row.at >= c.row.at)
<1> DEFINE r == Put(e, c, m)
           a == Applied(e, c, m)
<1> SUFFICES Buried(c.row, a.tomb) \/ (a.row # NoRow /\ a.row.at >= c.row.at)
  OBVIOUS
<1>1. /\ a.row = IF m.tomb # 0 /\ Buried(r, m.tomb) THEN NoRow ELSE r
      /\ a.tomb = IF m.tomb # 0 /\ Buried(r, m.tomb) THEN m.tomb ELSE c.tomb
  BY DEF Applied
<1>2. r = c.row \/ (r = m.row /\ m.row # NoRow)
  BY DEF Put
<1> HIDE DEF a, r
<1>3. CASE r = c.row
  BY <1>1, <1>3, CopyFields DEF Buried
<1>4. CASE r = m.row /\ m.row # NoRow
  BY <1>1, <1>4, CopyFields DEF Covers, Buried
<1> QED BY <1>2, <1>3, <1>4

LEMMA NothingType == Nothing \in Copy /\ Empty \in Snapshot
BY DEF Nothing, Copy, Empty, Snapshot

LEMMA CopyType ==
  ASSUME NEW c \in Copy, NEW r \in Row \cup {NoRow}, NEW n \in Nat
  PROVE  [c EXCEPT !.row = r] \in Copy /\ [c EXCEPT !.tomb = n] \in Copy
BY DEF Copy

LEMMA AppliedType ==
  ASSUME NEW e, NEW c \in Copy, NEW m \in Copy PROVE Applied(e, c, m) \in Copy
<1>1. Put(e, c, m) \in Row \cup {NoRow}
  BY DEF Put, Copy
<1>2. c.tomb \in Nat /\ m.tomb \in Nat
  BY DEF Copy
<1> QED BY <1>1, <1>2 DEF Applied, Copy

LEMMA EditType ==
  ASSUME NEW e, NEW c \in Copy, NEW r \in Row
  PROVE  Saved(e, c, r) \in Copy /\ Deleted(r.at) \in Copy
BY DEF Saved, Deleted, Copy, Row

-----------------------------------------------------------------------------
(***************************************************************************)
(* Types.                                                                  *)
(***************************************************************************)
TypeInv == TypeOK /\ now # 0

LEMMA IdleType == Idle \in Flow /\ Closed \in Flow
<1>1. 0 \in 0..MaxAttempts /\ "idle" \in Pc /\ "closed" \in Pc
  BY VaultAssumption DEF Pc
<1>2. Idle \in Flow
  BY <1>1, NothingType DEF Idle, Flow
<1>3. Closed \in Flow
  BY <1>1, <1>2 DEF Closed, Flow
<1> QED BY <1>2, <1>3

LEMMA FlowType ==
  ASSUME NEW f \in Flow, NEW pc \in Pc, NEW n \in 0..MaxAttempts, NEW b \in BOOLEAN
  PROVE  /\ [f EXCEPT !.pc = pc] \in Flow
         /\ [f EXCEPT !.pc = pc, !.mine = Empty] \in Flow
         /\ [f EXCEPT !.pc = pc, !.attempt = n, !.changed = b] \in Flow
         /\ [f EXCEPT !.pc = pc, !.attempt = n] \in Flow
         /\ [f EXCEPT !.changed = b] \in Flow
         /\ \A r \in Nat : [f EXCEPT !.pc = pc, !.base = r] \in Flow
         /\ \A E \in SUBSET Entity : [f EXCEPT !.late = f.late \cup E] \in Flow
BY NothingType DEF Flow

LEMMA ImageFinite ==
  ASSUME NEW S, IsFiniteSet(S), NEW f PROVE IsFiniteSet({f[x] : x \in S})
<1> DEFINE T == {f[x] : x \in S}
           g == [x \in S |-> f[x]]
<1>1. g \in [S -> T] /\ \A y \in T : \E x \in S : g[x] = y
  OBVIOUS
<1>2. g \in Surjection(S, T)
  BY <1>1 DEF Surjection
<1> HIDE DEF T, g
<1>3. IsFiniteSet(T)
  BY <1>2, FS_Surjection
<1> QED BY <1>3 DEF T

\* There is a revision nobody remembers: fewer are remembered than are tried.
LEMMA NewRevisionIsNew ==
  ASSUME TypeOK
  PROVE  /\ NewRevision \in Nat \ {0} /\ NewRevision # vault.rev
         /\ \A t \in Tab : NewRevision # flow[t].base
         /\ \A d \in Device : NewRevision # saved[d]
<1> DEFINE Used == {vault.rev} \cup {known[t] : t \in Tab} \cup {saved[d] : d \in Device}
                     \cup {flow[t].base : t \in Tab}
           n == Cardinality(Used)
<1>1. IsFiniteSet(Used)
  <2>1. IsFiniteSet({known[t] : t \in Tab}) /\ IsFiniteSet({saved[d] : d \in Device})
    BY VaultFinite, ImageFinite
  <2>2. IsFiniteSet({flow[t].base : t \in Tab})
    <3> DEFINE f == [t \in Tab |-> flow[t].base]
    <3>1. IsFiniteSet({f[t] : t \in Tab})
      BY VaultFinite, ImageFinite
    <3> QED BY <3>1
  <2>3. IsFiniteSet({vault.rev})
    BY FS_Singleton
  <2> QED BY <2>1, <2>2, <2>3, FS_Union
<1>2. n \in Nat
  BY <1>1, FS_CardinalityType
<1>3. \E r \in 1 .. n + 1 : r \notin Used
  <2> SUFFICES ASSUME 1 .. n + 1 \in SUBSET Used PROVE FALSE
    OBVIOUS
  <2> HIDE DEF Used
  <2>1. Cardinality(1 .. n + 1) <= n
    BY <1>1, FS_Subset
  <2>2. Cardinality(1 .. n + 1) = n + 1
    <3> HIDE DEF n
    <3> QED BY <1>2, FS_Interval
  <2> QED BY <1>2, <2>1, <2>2
<1>4. NewRevision = CHOOSE r \in 1 .. n + 1 : r \notin Used
  BY DEF NewRevision
<1>5. NewRevision \in 1 .. n + 1 /\ NewRevision \notin Used
  <2> HIDE DEF Used, n
  <2> QED BY <1>3, <1>4
<1>6. NewRevision \in Nat \ {0}
  <2> HIDE DEF n
  <2> QED BY <1>2, <1>5
<1>7. /\ NewRevision # vault.rev /\ \A t \in Tab : NewRevision # flow[t].base
      /\ \A d \in Device : NewRevision # saved[d]
  <2> HIDE DEF n
  <2> QED BY <1>5
<1> QED BY <1>6, <1>7

LEMMA InitType == Init => TypeInv
BY IdleType, NothingType DEF Init, TypeInv, TypeOK

\* One sync moves, and all else keeps its type.
LEMMA SetType ==
  ASSUME TypeInv, NEW t \in Tab, NEW f \in Flow, Set(t, f),
         UNCHANGED <<dataVars, tabVars>>, vault' \in [rev: Nat, copies: Snapshot], faults' \in Nat
  PROVE  TypeInv'
BY DEF TypeInv, TypeOK, Set, dataVars, tabVars

LEMMA DisturbedType ==
  ASSUME TypeOK, NEW d, NEW E \in SUBSET Entity PROVE Disturbed(d, E) \in [Tab -> Flow]
<1>1. \A u \in Tab : flow[u] \in Flow
  BY DEF TypeOK
<1>2. \A u \in Tab : [flow[u] EXCEPT !.late = flow[u].late \cup E] \in Flow
  BY <1>1 DEF Flow
<1> QED BY <1>1, <1>2 DEF Disturbed

LEMMA RetryType ==
  ASSUME TypeOK, NEW t \in Tab, Retry(t)
  PROVE  \E f \in Flow : Set(t, f) /\ f.pc \in {"idle", "read"}
<1>1. flow[t] \in Flow /\ "read" \in Pc
  BY DEF TypeOK, Pc
<1>2. CASE flow[t].attempt = MaxAttempts
  <2>1. Idle \in Flow /\ Idle.pc = "idle"
    BY IdleType DEF Idle
  <2> QED BY <1>2, <2>1 DEF Retry
<1>3. CASE flow[t].attempt # MaxAttempts
  <2> DEFINE k == flow[t].attempt + 1
             f == [Idle EXCEPT !.pc = "read", !.attempt = k, !.changed = flow[t].changed]
  <2>1. k \in 0..MaxAttempts /\ flow[t].changed \in BOOLEAN
    BY <1>1, <1>3, VaultAssumption DEF Flow
  <2>2. f \in Flow
    <3> HIDE DEF k
    <3> QED BY <1>1, <2>1, IdleType, FlowType
  <2>3. f.pc = "read"
    BY IdleType DEF Flow
  <2> QED BY <1>3, <2>2, <2>3 DEF Retry
<1> QED BY <1>2, <1>3

-----------------------------------------------------------------------------
(***************************************************************************)
(* The inductive invariant.  What a tab has read, or has merged and is     *)
(* about to write, still holds the whole vault as long as the revision it  *)
(* read is the vault's: revisions do not come back.                        *)
(***************************************************************************)
Holds(f, file) ==
  /\ f.pc = "capture" /\ f.base = file.rev => f.remote = file.copies
  /\ f.pc = "write" /\ f.base = file.rev =>
       \A e \in Entity : Covers(f.merged[e], file.copies[e])

VaultInv ==
  /\ vault.rev = 0 => vault.copies = Empty
  /\ \A t \in Tab : Holds(flow[t], vault) /\ (flow[t].pc = "overwrite" => provider = "folder")

\* y is past what matters to the vault, or stands where x stood.
Stands(x, y) ==
  \/ y.pc \notin {"capture", "write", "overwrite"}
  \/ y.pc = x.pc /\ y.base = x.base /\ y.remote = x.remote /\ y.merged = x.merged

\* A step of a component that leaves the vault alone.
LEMMA StandsKeeps ==
  ASSUME VaultInv, UNCHANGED <<vault, provider>>, \A t \in Tab : Stands(flow[t], flow'[t])
  PROVE  VaultInv'
BY DEF VaultInv, Holds, Stands

\* One sync moves, and the vault is left alone.
LEMMA MoveKeeps ==
  ASSUME TypeInv, VaultInv, NEW t \in Tab, NEW f \in Flow, Set(t, f),
         UNCHANGED <<dataVars, vault>>,
         Holds(f, vault), f.pc = "overwrite" => provider = "folder"
  PROVE  VaultInv'
<1>1. \A u \in Tab : flow'[u] = IF u = t THEN f ELSE flow[u]
  BY DEF Set, TypeInv, TypeOK
<1>2. vault' = vault /\ provider' = provider
  BY DEF dataVars
<1> QED BY <1>1, <1>2 DEF VaultInv

\* The vault gets a revision nobody remembers.
LEMMA StoreKeeps ==
  ASSUME TypeInv, VaultInv, NEW t \in Tab, NEW f \in Flow, Set(t, f), Stores(t),
         f.pc \in {"recapture", "idle"}
  PROVE  VaultInv'
<1>1. \A u \in Tab : flow'[u] = IF u = t THEN f ELSE flow[u]
  BY DEF Set, TypeInv, TypeOK
<1>2. vault'.rev = NewRevision /\ provider' = provider
  BY DEF Stores, dataVars
<1>3. vault'.rev # 0 /\ \A u \in Tab : flow[u].base # vault'.rev
  BY <1>2, NewRevisionIsNew DEF TypeInv
<1> QED BY <1>1, <1>2, <1>3 DEF VaultInv, Holds

\* The write of a sync that read the vault as it is loses nothing of it.
LEMMA StoreCovers ==
  ASSUME VaultInv, NEW t \in Tab, Stores(t), flow[t].pc = "write", flow[t].base = vault.rev
  PROVE  \A e \in Entity : Covers(vault'.copies[e], vault.copies[e])
BY DEF VaultInv, Holds, Stores

Remembers == provider = "cas" => \A e \in Entity : Covers(vault'.copies[e], vault.copies[e])

LEMMA SameVault == ASSUME TypeOK, vault' = vault PROVE Remembers
BY CoversItself DEF Remembers, TypeOK, Snapshot

-----------------------------------------------------------------------------
(***************************************************************************)
(* The steps.                                                              *)
(***************************************************************************)
LEMMA EditStep ==
  ASSUME TypeInv, VaultInv, NEW t \in Tab, NEW e \in Entity, NEW op, Edit(t, e, op)
  PROVE  TypeInv' /\ VaultInv' /\ Remembers
<1> DEFINE d == dev(t)
<1>0. /\ TypeOK /\ now \in Nat \ {0} /\ d \in Device /\ Skew[d] \in Nat /\ edits[d] \in Nat
      /\ local[d] \in [Entity -> Copy]
  BY VaultAssumption DEF TypeInv, TypeOK, dev, Snapshot
<1>1. PICK time \in Times :
        /\ edits' = [edits EXCEPT ![d] = edits[d] + 1] /\ now' = time
        /\ local' = [local EXCEPT ![d] = [local[d] EXCEPT ![e] =
             IF op = "put" THEN Saved(e, local[d][e], [by |-> d, n |-> edits[d] + 1, at |-> time + Skew[d]])
             ELSE Deleted(time + Skew[d])]]
        /\ flow' = [Disturbed(d, {e}) EXCEPT ![t] = [Disturbed(d, {e})[t] EXCEPT !.changed = Busy(t)]]
        /\ dirty' = [dirty EXCEPT ![t] = TRUE]
        /\ UNCHANGED <<provider, vault, known, saved, doubt, faults>>
  BY DEF Edit
<1>2. time \in Nat \ {0}
  BY <1>0 DEF Times
<1> DEFINE r == [by |-> d, n |-> edits[d] + 1, at |-> time + Skew[d]]
<1>3. r \in Row /\ time + Skew[d] \in Nat /\ r.at = time + Skew[d]
  BY <1>0, <1>2 DEF Row
<1>4. Saved(e, local[d][e], r) \in Copy /\ Deleted(time + Skew[d]) \in Copy
  <2>1. local[d][e] \in Copy
    BY <1>0
  <2> HIDE DEF r
  <2> QED BY <1>3, <2>1, EditType
<1>5. local' \in [Device -> Snapshot]
  <2> HIDE DEF r, d
  <2>1. [local[d] EXCEPT ![e] = IF op = "put" THEN Saved(e, local[d][e], r) ELSE Deleted(time + Skew[d])]
          \in Snapshot
    BY <1>0, <1>4 DEF Snapshot
  <2> QED BY <1>0, <1>1, <2>1 DEF TypeOK, r
<1>6. Disturbed(d, {e}) \in [Tab -> Flow] /\ Busy(t) \in BOOLEAN
  BY <1>0, DisturbedType DEF Busy
<1>7. flow' \in [Tab -> Flow]
  <2>1. [Disturbed(d, {e})[t] EXCEPT !.changed = Busy(t)] \in Flow
    BY <1>6 DEF Flow
  <2> QED BY <1>1, <1>6, <2>1
<1>8. edits' \in [Device -> Nat] /\ now' \in Nat \ {0}
  BY <1>0, <1>1, <1>2 DEF TypeOK
<1>9. TypeInv'
  BY <1>0, <1>1, <1>5, <1>7, <1>8 DEF TypeInv, TypeOK
<1>10. \A u \in Tab : Stands(flow[u], flow'[u])
  <2>1. \A u \in Tab : Stands(flow[u], Disturbed(d, {e})[u])
    BY <1>0 DEF Disturbed, Stands, TypeOK, Flow
  <2>2. Stands(flow[t], [Disturbed(d, {e})[t] EXCEPT !.changed = Busy(t)])
    BY <1>6, <2>1 DEF Stands, Flow
  <2> QED BY <1>1, <1>6, <2>1, <2>2
<1> QED BY <1>0, <1>1, <1>9, <1>10, StandsKeeps, SameVault

\* A sync goes to a place where the vault does not matter to it.
LEMMA GoesStep ==
  ASSUME TypeInv, VaultInv, NEW t \in Tab, NEW f \in Flow, Set(t, f),
         f.pc \notin {"capture", "write", "overwrite"},
         UNCHANGED <<dataVars, vault>>, UNCHANGED tabVars, faults' \in Nat
  PROVE  TypeInv' /\ VaultInv' /\ Remembers
<1>1. TypeInv'
  BY SetType DEF TypeInv, TypeOK
<1>2. VaultInv'
  BY MoveKeeps DEF Holds
<1> QED BY <1>1, <1>2, SameVault DEF TypeInv

LEMMA RetryStep ==
  ASSUME TypeInv, VaultInv, NEW t \in Tab, Retry(t), UNCHANGED Outside
  PROVE  TypeInv' /\ VaultInv' /\ Remembers
<1>1. PICK f \in Flow : Set(t, f) /\ f.pc \in {"idle", "read"}
  BY RetryType DEF TypeInv
<1>2. UNCHANGED <<dataVars, vault>> /\ UNCHANGED tabVars /\ faults' \in Nat
  BY DEF Outside, TypeInv, TypeOK
<1> QED BY <1>1, <1>2, GoesStep

LEMMA ReadStep ==
  ASSUME TypeInv, VaultInv, NEW t \in Tab, Read(t)
  PROVE  TypeInv' /\ VaultInv' /\ Remembers
<1> DEFINE tombs == [e \in Entity |-> [Nothing EXCEPT !.tomb = local[dev(t)][e].tomb]]
           f == [flow[t] EXCEPT !.pc = "capture", !.base = vault.rev, !.remote = vault.copies,
                                !.mine = tombs]
<1>0. TypeOK /\ flow[t] \in Flow /\ vault.rev \in Nat /\ vault.copies \in Snapshot /\ dev(t) \in Device
  BY VaultAssumption DEF TypeInv, TypeOK, dev
<1>1. tombs \in Snapshot
  <2>1. \A e \in Entity : local[dev(t)][e].tomb \in Nat
    BY <1>0 DEF TypeOK, Snapshot, Copy
  <2>2. \A e \in Entity : [Nothing EXCEPT !.tomb = local[dev(t)][e].tomb] \in Copy
    BY <2>1, NothingType DEF Copy
  <2> QED BY <2>2 DEF Snapshot
<1>2. f \in Flow /\ f.pc = "capture" /\ f.remote = vault.copies
  <2> HIDE DEF tombs
  <2>1. "capture" \in Pc
    BY DEF Pc
  <2> QED BY <1>0, <1>1, <2>1 DEF Flow
<1>3. Set(t, f) /\ UNCHANGED <<dataVars, vault>> /\ UNCHANGED tabVars /\ faults' = faults
  BY DEF Read, Outside
<1> HIDE DEF f
<1>4. VaultInv'
  BY <1>2, <1>3, MoveKeeps DEF Holds
<1>5. TypeInv'
  BY <1>0, <1>2, <1>3, SetType DEF TypeOK
<1> QED BY <1>0, <1>3, <1>4, <1>5, SameVault

LEMMA CaptureStep ==
  ASSUME TypeInv, VaultInv, NEW t \in Tab, Capture(t)
  PROVE  TypeInv' /\ VaultInv' /\ Remembers
<1> DEFINE mine == [e \in Entity |-> [flow[t].mine[e] EXCEPT !.row = local[dev(t)][e].row]]
           merged == IF flow[t].base = 0 THEN mine
                     ELSE [e \in Entity |-> Merged(mine[e], flow[t].remote[e])]
           unchanged == flow[t].base # 0 /\ merged = flow[t].remote
           pc == IF unchanged THEN "probe" ELSE "write"
           f == [flow[t] EXCEPT !.mine = mine, !.merged = merged, !.remote = Empty, !.pc = pc]
<1>0. /\ TypeOK /\ flow[t] \in Flow /\ dev(t) \in Device /\ vault.copies \in Snapshot
      /\ flow[t].mine \in Snapshot /\ flow[t].remote \in Snapshot /\ flow[t].base \in Nat
  BY VaultAssumption DEF TypeInv, TypeOK, dev, Flow
<1>1. mine \in Snapshot
  <2>1. \A e \in Entity : flow[t].mine[e] \in Copy /\ local[dev(t)][e].row \in Row \cup {NoRow}
    BY <1>0 DEF TypeOK, Snapshot, Copy
  <2>2. \A e \in Entity : [flow[t].mine[e] EXCEPT !.row = local[dev(t)][e].row] \in Copy
    BY <2>1, CopyType
  <2> QED BY <2>2 DEF Snapshot
<1>2. merged \in Snapshot
  <2> HIDE DEF mine
  <2>1. \A e \in Entity : Merged(mine[e], flow[t].remote[e]) \in Copy
    BY <1>0, <1>1, MergedType DEF Snapshot
  <2> QED BY <1>1, <2>1 DEF Snapshot
<1>3. f \in Flow /\ f.pc \in {"probe", "write"} /\ f.merged = merged /\ f.base = flow[t].base
  <2> HIDE DEF mine, merged, unchanged
  <2>1. "probe" \in Pc /\ "write" \in Pc
    BY DEF Pc
  <2> QED BY <1>0, <1>1, <1>2, <2>1, NothingType DEF Flow
<1>4. ASSUME flow[t].base = vault.rev, NEW e \in Entity PROVE Covers(merged[e], vault.copies[e])
  <2>1. flow[t].remote = vault.copies
    BY <1>4 DEF Capture, VaultInv, Holds
  <2>2. CASE flow[t].base = 0
    <3>1. vault.copies[e] = Nothing
      BY <1>4, <2>2 DEF VaultInv, Empty
    <3>2. merged[e].tomb \in Nat
      <4> HIDE DEF merged
      <4> QED BY <1>2 DEF Snapshot, Copy
    <3> QED BY <3>1, <3>2 DEF Covers, Nothing
  <2>3. CASE flow[t].base # 0
    <3> HIDE DEF mine
    <3>1. merged[e] = Merged(mine[e], vault.copies[e])
      BY <2>1, <2>3
    <3>2. mine[e] \in Copy /\ vault.copies[e] \in Copy
      BY <1>0, <1>1 DEF Snapshot
    <3> HIDE DEF merged
    <3> QED BY <3>1, <3>2, MergedCovers
  <2> QED BY <2>2, <2>3
<1>5. Set(t, f) /\ UNCHANGED <<dataVars, vault>> /\ UNCHANGED tabVars /\ faults' = faults
  BY DEF Capture, Outside
<1> HIDE DEF f, merged
<1>6. VaultInv'
  BY <1>3, <1>4, <1>5, MoveKeeps DEF Holds
<1>7. TypeInv'
  BY <1>0, <1>3, <1>5, SetType DEF TypeOK
<1> QED BY <1>0, <1>5, <1>6, <1>7, SameVault

\* The vault file is replaced by what the sync has merged.
LEMMA StoreStep ==
  ASSUME TypeInv, VaultInv, NEW t \in Tab, NEW f \in Flow, Set(t, f), Stores(t),
         f.pc \in {"recapture", "idle"}, faults' \in Nat,
         \/ provider # "cas"
         \/ flow[t].pc = "write" /\ flow[t].base = vault.rev
  PROVE  TypeInv' /\ VaultInv' /\ Remembers
<1>1. vault' \in [rev: Nat, copies: Snapshot]
  <2>1. flow[t].merged \in Snapshot
    BY DEF TypeInv, TypeOK, Flow
  <2> QED BY <2>1, NewRevisionIsNew DEF Stores, TypeInv
<1>2. TypeInv'
  BY <1>1, SetType DEF Stores
<1>3. VaultInv'
  BY StoreKeeps
<1>4. Remembers
  BY StoreCovers DEF Remembers
<1> QED BY <1>2, <1>3, <1>4

LEMMA StoredType ==
  ASSUME TypeOK, NEW t \in Tab, Stored(t)
  PROVE  \E f \in Flow : Set(t, f) /\ f.pc = "recapture"
<1> DEFINE f == [flow[t] EXCEPT !.pc = "recapture", !.base = NewRevision]
<1>1. flow[t] \in Flow /\ NewRevision \in Nat /\ "recapture" \in Pc
  BY NewRevisionIsNew DEF TypeOK, Pc
<1>2. f \in Flow /\ f.pc = "recapture"
  BY <1>1 DEF Flow
<1> QED BY <1>2 DEF Stored

LEMMA WriteStep ==
  ASSUME TypeInv, VaultInv, NEW t \in Tab, Write(t) \/ Overwrite(t) \/ WriteLost(t)
  PROVE  TypeInv' /\ VaultInv' /\ Remembers
<1>0. TypeOK /\ faults' \in Nat /\ flow[t] \in Flow
  BY DEF TypeInv, TypeOK, Write, Overwrite, WriteLost, Fault
<1>1. CASE Write(t) /\ flow[t].base # vault.rev
  BY <1>1, RetryStep DEF Write, Outside
<1>2. CASE Write(t) /\ flow[t].base = vault.rev /\ provider = "cas"
  BY <1>0, <1>2, StoredType, StoreStep DEF Write
<1>3. CASE Write(t) /\ flow[t].base = vault.rev /\ provider # "cas"
  <2> DEFINE f == [flow[t] EXCEPT !.pc = "overwrite"]
  <2>1. f \in Flow /\ f.pc = "overwrite"
    BY <1>0 DEF Flow, Pc
  <2>2. /\ Set(t, f) /\ UNCHANGED <<dataVars, vault>> /\ UNCHANGED <<dataVars, tabVars>>
        /\ faults' = faults
    BY <1>3 DEF Write
  <2>3. provider = "folder"
    BY <1>0, <1>3 DEF TypeOK
  <2> HIDE DEF f
  <2>4. TypeInv'
    BY <1>0, <2>1, <2>2, SetType DEF TypeOK
  <2>5. VaultInv'
    BY <2>1, <2>2, <2>3, MoveKeeps DEF Holds
  <2> QED BY <1>0, <2>2, <2>4, <2>5, SameVault
<1>4. CASE Overwrite(t)
  BY <1>0, <1>4, StoredType, StoreStep DEF Overwrite, VaultInv
<1>5. CASE WriteLost(t)
  <2>1. Idle \in Flow /\ Idle.pc = "idle"
    BY IdleType DEF Idle
  <2> QED BY <1>0, <1>5, <2>1, StoreStep DEF WriteLost, VaultInv
<1> QED BY <1>1, <1>2, <1>3, <1>4, <1>5

LEMMA ProbeStep ==
  ASSUME TypeInv, VaultInv, NEW t \in Tab, ProbeAgain(t) \/ Recapture(t)
  PROVE  TypeInv' /\ VaultInv' /\ Remembers
<1>0. flow[t] \in Flow /\ UNCHANGED Outside /\ "recapture" \in Pc /\ "apply" \in Pc
  BY DEF TypeInv, TypeOK, ProbeAgain, Recapture, Pc
<1>1. UNCHANGED <<dataVars, vault>> /\ UNCHANGED tabVars /\ faults' \in Nat
  BY <1>0 DEF Outside, TypeInv, TypeOK
<1>2. CASE Retry(t)
  BY <1>0, <1>2, RetryStep
<1>3. CASE Set(t, [flow[t] EXCEPT !.pc = "recapture"])
  <2>1. [flow[t] EXCEPT !.pc = "recapture"] \in Flow /\ [flow[t] EXCEPT !.pc = "recapture"].pc = "recapture"
    BY <1>0 DEF Flow
  <2> QED BY <1>1, <1>3, <2>1, GoesStep
<1>4. CASE ToApply(t)
  <2>1. /\ [flow[t] EXCEPT !.pc = "apply", !.mine = Empty] \in Flow
        /\ [flow[t] EXCEPT !.pc = "apply", !.mine = Empty].pc = "apply"
    BY <1>0, NothingType DEF Flow
  <2> QED BY <1>1, <1>4, <2>1, GoesStep DEF ToApply
<1> QED BY <1>2, <1>3, <1>4 DEF ProbeAgain, Recapture

LEMMA ApplyStep ==
  ASSUME TypeInv, VaultInv, NEW t \in Tab, Apply(t)
  PROVE  TypeInv' /\ VaultInv' /\ Remembers
<1> DEFINE d == dev(t)
           after == [e \in Entity |-> Applied(e, local[d][e], flow[t].merged[e])]
           E == {e \in Entity : after[e] # local[d][e]}
<1>0. /\ TypeOK /\ d \in Device /\ flow[t] \in Flow /\ flow[t].merged \in Snapshot /\ local[d] \in Snapshot
      /\ flow[t].base \in Nat /\ flow[t].changed \in BOOLEAN
  BY VaultAssumption DEF TypeInv, TypeOK, dev, Flow
<1>1. after \in Snapshot
  <2>1. \A e \in Entity : Applied(e, local[d][e], flow[t].merged[e]) \in Copy
    BY <1>0, AppliedType DEF Snapshot
  <2> QED BY <2>1 DEF Snapshot
<1>2. Disturbed(d, E) \in [Tab -> Flow]
  <2> HIDE DEF after
  <2>1. E \in SUBSET Entity
    OBVIOUS
  <2> HIDE DEF E
  <2> QED BY <1>0, <2>1, DisturbedType
<1>3. /\ local' = [local EXCEPT ![d] = after]
      /\ flow' = [Disturbed(d, E) EXCEPT ![t] = Idle]
      /\ known' = [known EXCEPT ![t] = flow[t].base]
      /\ saved' = [saved EXCEPT ![d] = flow[t].base]
      /\ dirty' = [dirty EXCEPT ![t] = flow[t].changed]
      /\ doubt' \subseteq doubt
      /\ UNCHANGED <<provider, now, edits, vault, faults>>
  BY DEF Apply, StillDirty
<1> HIDE DEF after, E
<1>4. TypeInv'
  <2>1. local' \in [Device -> Snapshot] /\ flow' \in [Tab -> Flow]
    BY <1>0, <1>1, <1>2, <1>3, IdleType DEF TypeOK
  <2> QED BY <1>0, <1>3, <2>1 DEF TypeInv, TypeOK
<1>5. \A u \in Tab : Stands(flow[u], flow'[u])
  <2>1. \A u \in Tab : Stands(flow[u], Disturbed(d, E)[u])
    BY <1>0 DEF Disturbed, Stands, TypeOK, Flow
  <2>2. Stands(flow[t], Idle)
    BY DEF Stands, Idle
  <2> QED BY <1>2, <1>3, <2>1, <2>2
<1> QED BY <1>0, <1>3, <1>4, <1>5, StandsKeeps, SameVault

\* What starts or ends a sync.
LEMMA TabStep ==
  ASSUME TypeInv, VaultInv, NEW t \in Tab, Begin(t) \/ Open(t) \/ TabDies(t) \/ SyncFails(t)
  PROVE  TypeInv' /\ VaultInv' /\ Remembers
<1>0. TypeOK /\ faults' \in Nat /\ UNCHANGED <<dataVars, vault>>
  BY DEF TypeInv, TypeOK, Begin, Open, TabDies, SyncFails, Fault
<1>1. CASE Begin(t)
  <2> DEFINE f == [Idle EXCEPT !.pc = "read", !.attempt = 1]
  <2>1. 1 \in 0..MaxAttempts /\ "read" \in Pc
    BY VaultAssumption DEF Pc
  <2>2. f \in Flow /\ f.pc = "read"
    BY <2>1, IdleType DEF Flow
  <2> QED BY <1>0, <1>1, <2>2, GoesStep DEF Begin
<1>2. CASE SyncFails(t)
  <2>1. Idle \in Flow /\ Idle.pc = "idle"
    BY IdleType DEF Idle
  <2> QED BY <1>0, <1>2, <2>1, GoesStep DEF SyncFails
<1>3. CASE Open(t) \/ TabDies(t)
  <2>1. Idle \in Flow /\ Idle.pc = "idle" /\ Closed \in Flow /\ Closed.pc = "closed"
    BY IdleType DEF Idle, Closed
  <2>2. PICK f \in Flow : Set(t, f) /\ f.pc \in {"idle", "closed"}
    BY <1>3, <2>1 DEF Open, TabDies
  <2>3. VaultInv'
    BY <1>0, <2>2, MoveKeeps DEF Holds
  <2>4. known' \in [Tab -> Nat] /\ dirty' \in [Tab -> BOOLEAN] /\ doubt' \subseteq Device /\ saved' = saved
    BY <1>0, <1>3, VaultAssumption DEF Open, TabDies, TypeOK, dev
  <2>5. TypeInv'
    BY <1>0, <2>2, <2>4 DEF TypeInv, TypeOK, Set, dataVars
  <2> QED BY <1>0, <2>3, <2>5, SameVault
<1> QED BY <1>1, <1>2, <1>3

LEMMA VaultStep == TypeInv /\ VaultInv /\ [Next]_vars => TypeInv' /\ VaultInv' /\ Remembers
<1> SUFFICES ASSUME TypeInv, VaultInv, [Next]_vars PROVE TypeInv' /\ VaultInv' /\ Remembers
  OBVIOUS
<1>1. CASE UNCHANGED vars
  <2>1. TypeInv'
    BY <1>1 DEF vars, dataVars, tabVars, TypeInv, TypeOK
  <2>2. VaultInv'
    BY <1>1, StandsKeeps DEF vars, dataVars, tabVars, Stands
  <2> QED BY <1>1, <2>1, <2>2, SameVault DEF vars, TypeInv
<1> QED BY <1>1, EditStep, TabStep, ReadStep, CaptureStep, WriteStep, ProbeStep, ApplyStep
        DEF Next, SyncStep

LEMMA InitVault == Init => VaultInv
BY DEF Init, VaultInv, Holds, Idle

-----------------------------------------------------------------------------
\* The vault, every device, tab and program counter keep their types.
THEOREM VaultTypeCorrect == Spec => []TypeOK
<1>1. TypeInv => TypeOK
  BY DEF TypeInv
<1> QED BY <1>1, InitType, InitVault, VaultStep, PTL DEF Spec

\* A store that compares revisions never forgets a record or a deletion.
THEOREM VaultRemembers == Spec => VaultNeverForgets
<1>1. TypeInv /\ VaultInv /\ [Next]_vars =>
        [provider = "cas" => \A e \in Entity : Covers(vault'.copies[e], vault.copies[e])]_vars
  BY VaultStep DEF Remembers
<1> QED BY <1>1, InitType, InitVault, VaultStep, PTL DEF Spec, VaultNeverForgets

-----------------------------------------------------------------------------
(***************************************************************************)
(* What the vault does to a device.  The invariant: an edit that the vault *)
(* may not have is known to its tab, from the edit until the device is     *)
(* found as it was captured; then what was merged covers the device, and   *)
(* stays so, entity by entity, until another tab touches it.               *)
(***************************************************************************)
AllCover(x, y) == \A e \in Entity : Covers(x[e], y[e])

\* A tab knows of an edit that the next apply will not have dealt with.
Unsent(t) == dirty[t] /\ (flow[t].changed \/ flow[t].pc # "apply")

Unsure(d) == d \in doubt \/ \E t \in Tab : dev(t) = d /\ Unsent(t)

\* What a sync has merged, from the merge to the apply.
MergedWired(t) ==
  /\ flow[t].pc \in {"write", "overwrite", "probe", "recapture"} => AllCover(flow[t].merged, flow[t].mine)
  /\ flow[t].pc \in {"probe", "recapture", "apply"} /\ flow[t].base = vault.rev => flow[t].merged = vault.copies
  /\ flow[t].pc \in {"recapture", "apply"} /\ provider = "cas" => AllCover(vault.copies, flow[t].merged)

\* What it is about to apply, and that only tabs of its device disturb it.
ApplyWired(t) ==
  /\ flow[t].pc # "apply" => flow[t].late = {}
  /\ flow[t].pc = "apply" => \A e \in Entity \ flow[t].late : Covers(flow[t].merged[e], local[dev(t)][e])
  /\ OneTab(dev(t)) /\ flow[t].late # {} => flow[t].changed /\ dirty[t]

DirtyOpen(t) == dirty[t] => flow[t].pc # "closed"

\* The vault covers a device that is sure of it.
SureCovered == provider = "cas" => \A d \in Device : ~Unsure(d) => AllCover(vault.copies, local[d])

\* The last sync of a device saw the vault as it is, and nothing was edited since.
Seen(d) ==
  /\ d \notin doubt /\ saved[d] = vault.rev /\ vault.rev # 0
  /\ \A t \in Tab : dev(t) = d => ~dirty[t]
  /\ provider = "folder" => OneTab(d)

SeenShown == \A d \in Device : Seen(d) => \A e \in Entity : local[d][e].row = Shown(vault.copies[e])

SyncInv ==
  /\ \A t \in Tab : MergedWired(t) /\ ApplyWired(t) /\ DirtyOpen(t)
  /\ SureCovered /\ SeenShown


LEMMA SnapshotTypes ==
  ASSUME TypeInv, NEW t \in Tab
  PROVE  /\ dev(t) \in Device /\ flow[t] \in Flow
         /\ flow[t].merged \in Snapshot /\ flow[t].mine \in Snapshot /\ flow[t].remote \in Snapshot
         /\ flow[t].changed \in BOOLEAN /\ flow[t].late \in SUBSET Entity
         /\ vault.copies \in Snapshot /\ local[dev(t)] \in Snapshot /\ \A d \in Device : local[d] \in Snapshot
<1>1. dev(t) \in Device /\ flow[t] \in Flow
  BY VaultAssumption DEF TypeInv, TypeOK, dev
<1> QED BY <1>1 DEF TypeInv, TypeOK, Flow

LEMMA AllCoverItself == ASSUME NEW x \in Snapshot PROVE AllCover(x, x)
BY CoversItself DEF AllCover, Snapshot

LEMMA AllCoverTransitive ==
  ASSUME NEW x \in Snapshot, NEW y \in Snapshot, NEW z \in Snapshot, AllCover(x, y), AllCover(y, z)
  PROVE  AllCover(x, z)
<1> SUFFICES ASSUME NEW e \in Entity PROVE Covers(x[e], z[e])
  BY DEF AllCover
<1>1. x[e] \in Copy /\ y[e] \in Copy /\ z[e] \in Copy
  BY DEF Snapshot
<1> QED BY <1>1, CoversTransitive DEF AllCover

\* One sync moves on; the vault and the devices stay.
LEMMA SyncMoves ==
  ASSUME TypeInv, SyncInv, NEW t \in Tab, NEW f \in Flow, Set(t, f),
         UNCHANGED <<provider, local, vault, dirty, saved, doubt>>,
         MergedWired(t)', ApplyWired(t)', DirtyOpen(t)',
         provider = "cas" /\ Unsent(t) => Unsent(t)' \/ AllCover(vault.copies, local[dev(t)])
  PROVE  SyncInv'
<1>1. \A u \in Tab : u # t => flow'[u] = flow[u]
  BY DEF Set, TypeInv, TypeOK
<1>2. ASSUME NEW u \in Tab PROVE MergedWired(u)' /\ ApplyWired(u)' /\ DirtyOpen(u)'
  <2>1. ASSUME u # t PROVE MergedWired(u)' /\ ApplyWired(u)' /\ DirtyOpen(u)'
    BY <1>1, <2>1 DEF SyncInv, MergedWired, ApplyWired, DirtyOpen, AllCover, dev
  <2> QED BY <2>1
<1>3. SureCovered'
  <2> SUFFICES ASSUME provider = "cas", NEW d \in Device, ~Unsure(d)', Unsure(d)
               PROVE  AllCover(vault.copies, local[d])
    BY DEF SyncInv, SureCovered, AllCover
  <2>1. d \notin doubt
    BY DEF Unsure
  <2>2. PICK u \in Tab : dev(u) = d /\ Unsent(u)
    BY <2>1 DEF Unsure
  <2>3. ~Unsent(u)'
    BY <2>2 DEF Unsure, dev
  <2>4. u = t
    BY <1>1, <2>2, <2>3 DEF Unsent
  <2> QED BY <2>2, <2>3, <2>4
<1>4. SeenShown'
  BY DEF SyncInv, SeenShown, Seen
<1> QED BY <1>2, <1>3, <1>4 DEF SyncInv

\* It starts, ends or begins again: what it had merged does not matter any more.
LEMMA SyncRests ==
  ASSUME TypeInv, SyncInv, NEW t \in Tab, NEW f \in Flow, Set(t, f),
         f.pc \in {"idle", "read", "capture"}, f.late = {},
         UNCHANGED <<provider, local, vault, dirty, saved, doubt>>
  PROVE  SyncInv'
<1>1. flow'[t] = f
  BY DEF Set, TypeInv, TypeOK
<1>2. MergedWired(t)' /\ ApplyWired(t)' /\ DirtyOpen(t)'
  BY <1>1 DEF MergedWired, ApplyWired, DirtyOpen
<1>3. Unsent(t) => Unsent(t)'
  BY <1>1 DEF Unsent
<1> QED BY <1>2, <1>3, SyncMoves

LEMMA RetrySync ==
  ASSUME TypeInv, SyncInv, NEW t \in Tab, Retry(t), UNCHANGED <<provider, local, vault, dirty, saved, doubt>>
  PROVE  SyncInv'
<1>1. PICK f \in Flow : Set(t, f) /\ f.pc \in {"idle", "read"}
  BY RetryType DEF TypeInv
<1>2. flow'[t] = f
  BY <1>1 DEF Set, TypeInv, TypeOK
<1>3. flow'[t].late = {}
  BY DEF Retry, Set, TypeInv, TypeOK, Idle
<1> QED BY <1>1, <1>2, <1>3, SyncRests

LEMMA ReadSync == ASSUME TypeInv, VaultInv, SyncInv, NEW t \in Tab, Read(t) PROVE SyncInv'
<1>1. /\ flow[t].pc = "read" /\ UNCHANGED <<provider, local, vault, dirty, saved, doubt>>
      /\ \E m : Set(t, [flow[t] EXCEPT !.pc = "capture", !.base = vault.rev, !.remote = vault.copies, !.mine = m])
  BY DEF Read, Outside, dataVars, tabVars
<1>2. PICK m : Set(t, [flow[t] EXCEPT !.pc = "capture", !.base = vault.rev, !.remote = vault.copies, !.mine = m])
  BY <1>1
<1> DEFINE f == [flow[t] EXCEPT !.pc = "capture", !.base = vault.rev, !.remote = vault.copies, !.mine = m]
<1>3. f.pc = "capture" /\ f.late = flow[t].late /\ flow[t].late = {} /\ f.changed = flow[t].changed
  BY <1>1, SnapshotTypes DEF Flow, SyncInv, ApplyWired
<1>4. flow'[t] = f
  BY <1>2 DEF Set, TypeInv, TypeOK
<1>5. flow'[t] \in Flow
  BY ReadStep DEF TypeInv, TypeOK
<1> HIDE DEF f
<1>6. Set(t, f)
  BY <1>2 DEF f
<1> QED BY <1>1, <1>3, <1>4, <1>5, <1>6, SyncRests


\* What the merge makes covers the device as it was captured.
LEMMA CaptureSync == ASSUME TypeInv, VaultInv, SyncInv, NEW t \in Tab, Capture(t) PROVE SyncInv'
<1> DEFINE mine == [e \in Entity |-> [flow[t].mine[e] EXCEPT !.row = local[dev(t)][e].row]]
           merged == IF flow[t].base = 0 THEN mine
                     ELSE [e \in Entity |-> Merged(mine[e], flow[t].remote[e])]
           unchanged == flow[t].base # 0 /\ merged = flow[t].remote
           pc == IF unchanged THEN "probe" ELSE "write"
           f == [flow[t] EXCEPT !.mine = mine, !.merged = merged, !.remote = Empty, !.pc = pc]
<1>1. /\ flow[t].pc = "capture" /\ Set(t, f)
      /\ UNCHANGED <<provider, local, vault, dirty, saved, doubt>>
  BY DEF Capture, Outside, dataVars, tabVars
<1>2. AllCover(merged, mine)
  <2>1. mine \in Snapshot
    <3>1. \A e \in Entity : flow[t].mine[e] \in Copy /\ local[dev(t)][e].row \in Row \cup {NoRow}
      BY SnapshotTypes DEF Snapshot, Copy
    <3>2. \A e \in Entity : [flow[t].mine[e] EXCEPT !.row = local[dev(t)][e].row] \in Copy
      BY <3>1, CopyType
    <3> QED BY <3>2 DEF Snapshot
  <2>2. CASE flow[t].base = 0
    <3> HIDE DEF mine
    <3> QED BY <2>1, <2>2, AllCoverItself
  <2>3. CASE flow[t].base # 0
    <3> SUFFICES ASSUME NEW e \in Entity PROVE Covers(merged[e], mine[e])
      BY DEF AllCover
    <3> HIDE DEF mine
    <3>1. merged[e] = Merged(mine[e], flow[t].remote[e])
      BY <2>3
    <3>2. mine[e] \in Copy /\ flow[t].remote[e] \in Copy
      BY <2>1, SnapshotTypes DEF Snapshot
    <3> HIDE DEF merged
    <3> QED BY <3>1, <3>2, MergedCoversMine
  <2> QED BY <2>2, <2>3
<1>3. flow'[t] = f /\ flow'[t] \in Flow
  BY <1>1, CaptureStep DEF Set, TypeInv, TypeOK
<1>4. /\ f.merged = merged /\ f.mine = mine /\ f.base = flow[t].base /\ f.late = flow[t].late
      /\ f.pc = pc /\ f.changed = flow[t].changed
  <2> HIDE DEF mine, merged, unchanged, pc
  <2> QED BY SnapshotTypes DEF Flow
<1>5. flow[t].base = vault.rev => flow[t].remote = vault.copies
  BY <1>1 DEF VaultInv, Holds
<1>6. pc \in {"probe", "write"} /\ (pc = "probe" => merged = flow[t].remote)
  <2> HIDE DEF merged
  <2> QED OBVIOUS
<1> HIDE DEF f, mine, merged, unchanged, pc
<1>7. MergedWired(t)'
  BY <1>1, <1>2, <1>3, <1>4, <1>5, <1>6 DEF MergedWired, AllCover
<1>8. flow[t].late = {}
  BY <1>1 DEF SyncInv, ApplyWired
<1>9. ApplyWired(t)' /\ DirtyOpen(t)'
  BY <1>3, <1>4, <1>6, <1>8 DEF ApplyWired, DirtyOpen
<1>10. Unsent(t) => Unsent(t)'
  BY <1>1, <1>3, <1>4, <1>6 DEF Unsent
<1> QED BY <1>1, <1>3, <1>7, <1>9, <1>10, SyncMoves

\* A sync goes on with what it has merged.
LEMMA MergedGoesOn ==
  ASSUME TypeInv, SyncInv, NEW t \in Tab, NEW f \in Flow, Set(t, f),
         UNCHANGED <<provider, local, vault, dirty, saved, doubt>>,
         flow[t].pc \in {"write", "probe"},
         f.pc = "overwrite" \/ (f.pc = "recapture" /\ flow[t].pc = "probe" /\ flow[t].base = vault.rev),
         f.merged = flow[t].merged, f.mine = flow[t].mine, f.base = flow[t].base, f.late = flow[t].late
  PROVE  SyncInv'
<1>1. flow'[t] = f
  BY DEF Set, TypeInv, TypeOK
<1>2. MergedWired(t) /\ flow[t].late = {} /\ vault.copies \in Snapshot
  BY SnapshotTypes DEF SyncInv, ApplyWired
<1>3. MergedWired(t)'
  BY <1>1, <1>2, AllCoverItself DEF MergedWired, AllCover
<1>4. ApplyWired(t)' /\ DirtyOpen(t)'
  BY <1>1, <1>2 DEF ApplyWired, DirtyOpen
<1>5. Unsent(t) => Unsent(t)'
  BY <1>1 DEF Unsent
<1> QED BY <1>3, <1>4, <1>5, SyncMoves

\* The vault file is replaced by what a sync has merged: no saved revision is its own.
LEMMA StoreSync ==
  ASSUME TypeInv, SyncInv, Remembers, vault'.copies \in Snapshot, NEW t \in Tab, NEW f \in Flow,
         Set(t, f), Stores(t), flow[t].pc \in {"write", "overwrite"}, f.late = {},
         \/ f.pc = "idle"
         \/ /\ f.pc = "recapture" /\ f.merged = flow[t].merged /\ f.mine = flow[t].mine
  PROVE  SyncInv'
<1>1. /\ flow'[t] = f /\ \A u \in Tab : u # t => flow'[u] = flow[u]
      /\ vault'.rev = NewRevision /\ vault'.copies = flow[t].merged
      /\ UNCHANGED <<provider, local, dirty, saved, doubt>>
  BY DEF Set, Stores, TypeInv, TypeOK, dataVars, tabVars
<1>2. /\ \A u \in Tab : flow[u].base # vault'.rev
      /\ \A d \in Device : saved[d] # vault'.rev
  BY <1>1, NewRevisionIsNew DEF TypeInv
<1>3. provider = "cas" => AllCover(vault'.copies, vault.copies)
  BY DEF Remembers, AllCover
<1>4. ASSUME NEW u \in Tab PROVE MergedWired(u)' /\ ApplyWired(u)' /\ DirtyOpen(u)'
  <2>1. CASE u = t
    <3>1. AllCover(flow[t].merged, flow[t].mine) /\ AllCover(flow[t].merged, flow[t].merged)
      BY SnapshotTypes, AllCoverItself DEF SyncInv, MergedWired
    <3>2. MergedWired(t)'
      BY <1>1, <3>1 DEF MergedWired, AllCover
    <3> QED BY <1>1, <2>1, <3>2 DEF ApplyWired, DirtyOpen
  <2>2. CASE u # t
    <3>1. MergedWired(u) /\ ApplyWired(u) /\ DirtyOpen(u) /\ flow'[u] = flow[u]
      BY <1>1, <2>2 DEF SyncInv
    <3>2. flow[u].pc \in {"recapture", "apply"} /\ provider = "cas" => AllCover(vault'.copies, flow[u].merged)
      BY <1>3, <3>1, SnapshotTypes, AllCoverTransitive DEF MergedWired
    <3>3. MergedWired(u)'
      BY <1>1, <1>2, <3>1, <3>2 DEF MergedWired, AllCover
    <3> QED BY <1>1, <3>1, <3>3 DEF ApplyWired, DirtyOpen, dev
  <2> QED BY <2>1, <2>2
<1>5. SureCovered'
  <2> SUFFICES ASSUME provider = "cas", NEW d \in Device, ~Unsure(d)'
               PROVE  AllCover(vault'.copies, local[d])
    BY <1>1 DEF SureCovered, AllCover
  <2>1. \A u \in Tab : Unsent(u) => Unsent(u)'
    BY <1>1 DEF Unsent
  <2>2. ~Unsure(d)
    BY <1>1, <2>1 DEF Unsure, dev
  <2>3. AllCover(vault.copies, local[d])
    BY <2>2 DEF SyncInv, SureCovered
  <2> QED BY <1>3, <2>3, SnapshotTypes, AllCoverTransitive
<1>6. SeenShown'
  BY <1>1, <1>2 DEF SeenShown, Seen
<1> QED BY <1>4, <1>5, <1>6 DEF SyncInv

LEMMA WriteSync ==
  ASSUME TypeInv, VaultInv, SyncInv, NEW t \in Tab, Write(t) \/ Overwrite(t) \/ WriteLost(t)
  PROVE  SyncInv'
<1>0. Remembers /\ vault'.copies \in Snapshot /\ flow' \in [Tab -> Flow]
  BY WriteStep DEF TypeInv, TypeOK
<1>1. CASE Write(t) /\ flow[t].base # vault.rev
  BY <1>1, RetrySync DEF Write, dataVars, tabVars
<1>2. flow[t] \in Flow /\ flow'[t] \in Flow /\ flow[t].pc \in {"write", "overwrite"} /\ flow[t].late = {}
  BY <1>0, SnapshotTypes DEF Write, Overwrite, WriteLost, SyncInv, ApplyWired
<1>3. CASE (Write(t) \/ Overwrite(t)) /\ Stores(t) /\ Stored(t)
  <2> DEFINE f == [flow[t] EXCEPT !.pc = "recapture", !.base = NewRevision]
  <2>1. Set(t, f)
    BY <1>3 DEF Stored
  <2>2. f.pc = "recapture" /\ f.merged = flow[t].merged /\ f.mine = flow[t].mine /\ f.late = flow[t].late
    BY <1>2 DEF Flow
  <2> HIDE DEF f
  <2>3. f \in Flow
    BY <1>2, <2>1 DEF Set, TypeInv, TypeOK
  <2> QED BY <1>0, <1>2, <1>3, <2>1, <2>2, <2>3, StoreSync
<1>4. CASE Write(t) /\ flow[t].base = vault.rev /\ provider # "cas"
  <2> DEFINE f == [flow[t] EXCEPT !.pc = "overwrite"]
  <2>1. Set(t, f) /\ UNCHANGED <<provider, local, vault, dirty, saved, doubt>> /\ flow[t].pc = "write"
    BY <1>4 DEF Write, dataVars, tabVars
  <2>2. /\ f.pc = "overwrite" /\ f.merged = flow[t].merged /\ f.mine = flow[t].mine
        /\ f.base = flow[t].base /\ f.late = flow[t].late
    BY <1>2 DEF Flow
  <2> HIDE DEF f
  <2>3. f \in Flow
    BY <1>2, <2>1 DEF Set, TypeInv, TypeOK
  <2> QED BY <2>1, <2>2, <2>3, MergedGoesOn
<1>5. CASE WriteLost(t)
  <2>1. Idle \in Flow /\ Idle.pc = "idle" /\ Idle.late = {}
    BY IdleType DEF Idle
  <2> QED BY <1>0, <1>2, <1>5, <2>1, StoreSync DEF WriteLost
<1> QED BY <1>1, <1>3, <1>4, <1>5 DEF Write, Overwrite

LEMMA ProbeSync == ASSUME TypeInv, VaultInv, SyncInv, NEW t \in Tab, ProbeAgain(t) PROVE SyncInv'
<1>1. flow[t].pc = "probe" /\ UNCHANGED <<provider, local, vault, dirty, saved, doubt>>
  BY DEF ProbeAgain, Outside, dataVars, tabVars
<1>2. CASE flow[t].base # vault.rev
  BY <1>1, <1>2, RetrySync DEF ProbeAgain
<1>3. CASE flow[t].base = vault.rev
  <2> DEFINE f == [flow[t] EXCEPT !.pc = "recapture"]
  <2>1. Set(t, f)
    BY <1>3 DEF ProbeAgain
  <2>2. /\ f \in Flow /\ f.pc = "recapture" /\ f.merged = flow[t].merged /\ f.mine = flow[t].mine
        /\ f.base = flow[t].base /\ f.late = flow[t].late
    BY SnapshotTypes DEF Flow, Pc
  <2> HIDE DEF f
  <2> QED BY <1>1, <1>3, <2>1, <2>2, MergedGoesOn
<1> QED BY <1>2, <1>3

\* The device is as it was captured: what was merged, and so the vault, covers it.
LEMMA RecaptureSync == ASSUME TypeInv, VaultInv, SyncInv, NEW t \in Tab, Recapture(t) PROVE SyncInv'
<1>1. flow[t].pc = "recapture" /\ UNCHANGED <<provider, local, vault, dirty, saved, doubt>>
  BY DEF Recapture, Outside, dataVars, tabVars
<1>2. CASE flow[t].mine # local[dev(t)]
  BY <1>1, <1>2, RetrySync DEF Recapture
<1>3. CASE flow[t].mine = local[dev(t)]
  <2> DEFINE f == [flow[t] EXCEPT !.pc = "apply", !.mine = Empty]
  <2>1. Set(t, f)
    BY <1>3 DEF Recapture, ToApply
  <2>2. /\ f \in Flow /\ f.pc = "apply" /\ f.merged = flow[t].merged /\ f.base = flow[t].base
        /\ f.late = flow[t].late
    BY SnapshotTypes, NothingType DEF Flow, Pc
  <2> HIDE DEF f
  <2>3. flow'[t] = f
    BY <2>1 DEF Set, TypeInv, TypeOK
  <2>4. MergedWired(t) /\ flow[t].late = {}
    BY <1>1 DEF SyncInv, ApplyWired
  <2>5. AllCover(flow[t].merged, local[dev(t)])
    BY <1>1, <1>3, <2>4 DEF MergedWired
  <2>6. MergedWired(t)'
    BY <1>1, <2>2, <2>3, <2>4 DEF MergedWired, AllCover
  <2>7. ApplyWired(t)' /\ DirtyOpen(t)'
    BY <1>1, <2>2, <2>3, <2>4, <2>5 DEF ApplyWired, DirtyOpen, AllCover, dev
  <2>8. provider = "cas" => AllCover(vault.copies, local[dev(t)])
    BY <1>1, <2>4, <2>5, SnapshotTypes, AllCoverTransitive DEF MergedWired
  <2> QED BY <1>1, <2>1, <2>2, <2>6, <2>7, <2>8, SyncMoves
<1> QED BY <1>2, <1>3

LEMMA TabSync ==
  ASSUME TypeInv, VaultInv, SyncInv, NEW t \in Tab, Begin(t) \/ Open(t) \/ SyncFails(t)
  PROVE  SyncInv'
<1>0. UNCHANGED <<provider, local, vault, dirty, saved, doubt>>
  BY DEF Begin, Open, SyncFails, dataVars, tabVars
<1>1. CASE Begin(t)
  <2> DEFINE f == [Idle EXCEPT !.pc = "read", !.attempt = 1]
  <2>1. 1 \in 0..MaxAttempts /\ "read" \in Pc
    BY VaultAssumption DEF Pc
  <2>2. f \in Flow /\ f.pc = "read" /\ f.late = {}
    BY <2>1, IdleType DEF Flow, Idle
  <2> QED BY <1>0, <1>1, <2>2, SyncRests DEF Begin
<1>2. CASE Open(t) \/ SyncFails(t)
  <2>1. Idle \in Flow /\ Idle.pc = "idle" /\ Idle.late = {}
    BY IdleType DEF Idle
  <2> QED BY <1>0, <1>2, <2>1, SyncRests DEF Open, SyncFails
<1> QED BY <1>1, <1>2

\* A tab that dies with an edit it has not synced leaves its device in doubt.
LEMMA DiesSync == ASSUME TypeInv, SyncInv, NEW t \in Tab, TabDies(t) PROVE SyncInv'
<1>1. /\ Set(t, Closed) /\ UNCHANGED <<provider, local, vault, saved>>
      /\ doubt' = IF dirty[t] THEN doubt \cup {dev(t)} ELSE doubt
      /\ dirty' = [dirty EXCEPT ![t] = FALSE]
  BY DEF TabDies, dataVars
<1>2. /\ flow'[t] = Closed /\ Closed.pc = "closed" /\ Closed.late = {}
      /\ \A u \in Tab : u # t => flow'[u] = flow[u] /\ dirty'[u] = dirty[u]
      /\ ~dirty'[t]
  BY <1>1, IdleType DEF Set, TypeInv, TypeOK, Closed, Idle
<1>3. ASSUME NEW u \in Tab PROVE MergedWired(u)' /\ ApplyWired(u)' /\ DirtyOpen(u)'
  <2>1. CASE u = t
    BY <1>2, <2>1 DEF MergedWired, ApplyWired, DirtyOpen
  <2>2. CASE u # t
    BY <1>1, <1>2, <2>2 DEF SyncInv, MergedWired, ApplyWired, DirtyOpen, AllCover, dev
  <2> QED BY <2>1, <2>2
<1>4. ASSUME NEW d \in Device, d \notin doubt' PROVE d \notin doubt /\ (dev(t) = d => ~dirty[t])
  BY <1>1, <1>4
<1>5. SureCovered'
  <2> SUFFICES ASSUME provider = "cas", NEW d \in Device, ~Unsure(d)' PROVE AllCover(vault.copies, local[d])
    BY <1>1 DEF SureCovered, AllCover
  <2>1. d \notin doubt /\ (dev(t) = d => ~dirty[t])
    BY <1>4 DEF Unsure
  <2>2. \A u \in Tab : u # t => (Unsent(u) <=> Unsent(u)')
    BY <1>2 DEF Unsent
  <2>3. ~Unsure(d)
    BY <2>1, <2>2 DEF Unsure, Unsent, dev
  <2> QED BY <2>3 DEF SyncInv, SureCovered
<1>6. SeenShown'
  <2> SUFFICES ASSUME NEW d \in Device, Seen(d)', NEW e \in Entity
               PROVE  local[d][e].row = Shown(vault.copies[e])
    BY <1>1 DEF SeenShown
  <2>1. d \notin doubt /\ (dev(t) = d => ~dirty[t])
    BY <1>4 DEF Seen
  <2>2. Seen(d)
    BY <1>1, <1>2, <2>1 DEF Seen, dev
  <2> QED BY <2>2 DEF SyncInv, SeenShown
<1> QED BY <1>3, <1>5, <1>6 DEF SyncInv

\* What an edit or an apply does to the tabs of a device.
LEMMA DisturbedFlow ==
  ASSUME TypeInv, NEW d, NEW E \in SUBSET Entity, NEW u \in Tab
  PROVE  LET f == Disturbed(d, E)[u] IN
         /\ f \in Flow
         /\ f.pc = flow[u].pc /\ f.base = flow[u].base /\ f.merged = flow[u].merged
         /\ f.mine = flow[u].mine /\ f.changed = flow[u].changed
         /\ f.late = IF dev(u) = d /\ flow[u].pc = "apply" THEN flow[u].late \cup E ELSE flow[u].late
<1>1. Disturbed(d, E) \in [Tab -> Flow] /\ flow[u] \in Flow
  BY DisturbedType DEF TypeInv, TypeOK
<1> QED BY <1>1 DEF Disturbed, Flow

\* Another tab than the one that edits or applies.
LEMMA OtherWired ==
  ASSUME TypeInv, SyncInv, UNCHANGED <<provider, vault>>, NEW d \in Device, NEW E \in SUBSET Entity,
         NEW t \in Tab, dev(t) = d, NEW u \in Tab, u # t, dirty'[u] = dirty[u],
         flow'[u].pc = flow[u].pc, flow'[u].base = flow[u].base, flow'[u].merged = flow[u].merged,
         flow'[u].mine = flow[u].mine, flow'[u].changed = flow[u].changed,
         flow'[u].late = IF dev(u) = d /\ flow[u].pc = "apply" THEN flow[u].late \cup E ELSE flow[u].late,
         \A c \in Device : c # d => local'[c] = local[c],
         \A e \in Entity \ E : local'[d][e] = local[d][e]
  PROVE  MergedWired(u)' /\ ApplyWired(u)' /\ DirtyOpen(u)'
<1>1. MergedWired(u) /\ ApplyWired(u) /\ DirtyOpen(u)
  BY DEF SyncInv
<1>2. MergedWired(u)' /\ DirtyOpen(u)'
  BY <1>1 DEF MergedWired, DirtyOpen, AllCover
<1>3. ASSUME flow[u].pc = "apply", NEW e \in Entity \ flow'[u].late
      PROVE  Covers(flow[u].merged[e], local'[dev(u)][e])
  BY <1>1, <1>3, SnapshotTypes DEF ApplyWired
<1>4. ASSUME OneTab(dev(u)), flow'[u].late # {} PROVE flow[u].changed /\ dirty[u]
  <2>1. dev(u) # d
    BY <1>4 DEF OneTab
  <2> QED BY <1>1, <1>4, <2>1 DEF ApplyWired
<1>5. ApplyWired(u)'
  BY <1>1, <1>3, <1>4 DEF ApplyWired, dev
<1> QED BY <1>2, <1>5

\* And another device.
LEMMA OtherDevice ==
  ASSUME TypeInv, SyncInv, UNCHANGED <<provider, vault>>, NEW d \in Device, NEW c \in Device, c # d,
         c \in doubt <=> c \in doubt', saved'[c] = saved[c], local'[c] = local[c],
         \A u \in Tab : dev(u) = c => /\ dirty'[u] = dirty[u] /\ flow'[u].pc = flow[u].pc
                                      /\ flow'[u].changed = flow[u].changed
  PROVE  /\ provider = "cas" /\ ~Unsure(c)' => AllCover(vault.copies, local[c])
         /\ Seen(c)' => \A e \in Entity : local[c][e].row = Shown(vault.copies[e])
<1>1. Unsure(c) => Unsure(c)'
  <2>1. \A u \in Tab : dev(u) = c /\ Unsent(u) => Unsent(u)'
    BY DEF Unsent
  <2> QED BY <2>1 DEF Unsure, dev
<1>2. Seen(c)' => Seen(c)
  BY DEF Seen, dev
<1> QED BY <1>1, <1>2 DEF SyncInv, SureCovered, SeenShown

\* A tab knows of its edit, and that it has edited while it was syncing.
LEMMA EditSync ==
  ASSUME TypeInv, VaultInv, SyncInv, NEW t \in Tab, NEW e \in Entity, NEW op, Edit(t, e, op)
  PROVE  SyncInv'
<1> DEFINE d == dev(t)
           g == [Disturbed(d, {e})[t] EXCEPT !.changed = Busy(t)]
<1>1. /\ flow[t].pc # "closed" /\ flow' = [Disturbed(d, {e}) EXCEPT ![t] = g]
      /\ dirty' = [dirty EXCEPT ![t] = TRUE] /\ UNCHANGED <<provider, vault, saved, doubt>>
  BY DEF Edit
<1>2. \E x : local' = [local EXCEPT ![d][e] = x]
  BY DEF Edit
<1>3. d \in Device /\ local \in [Device -> Snapshot] /\ local[d] \in Snapshot /\ dirty \in [Tab -> BOOLEAN]
  BY SnapshotTypes DEF TypeInv, TypeOK
<1>4. /\ \A c \in Device : c # d => local'[c] = local[c]
      /\ \A x \in Entity \ {e} : local'[d][x] = local[d][x]
  BY <1>2, <1>3 DEF Snapshot
<1>5. dirty'[t] = TRUE /\ \A u \in Tab : u # t => dirty'[u] = dirty[u]
  BY <1>1, <1>3
<1>6. /\ g.pc = flow[t].pc /\ g.base = flow[t].base /\ g.merged = flow[t].merged /\ g.mine = flow[t].mine
      /\ g.changed = Busy(t)
      /\ g.late = IF flow[t].pc = "apply" THEN flow[t].late \cup {e} ELSE flow[t].late
  <2>1. LET f == Disturbed(d, {e})[t] IN
        /\ f \in Flow
        /\ f.pc = flow[t].pc /\ f.base = flow[t].base /\ f.merged = flow[t].merged /\ f.mine = flow[t].mine
        /\ f.late = IF flow[t].pc = "apply" THEN flow[t].late \cup {e} ELSE flow[t].late
    BY DisturbedFlow, SMTT(30)
  <2> QED BY <2>1 DEF Flow
<1> HIDE DEF g
<1>7. /\ flow'[t] = g
      /\ \A u \in Tab : u # t =>
           /\ flow'[u].pc = flow[u].pc /\ flow'[u].base = flow[u].base /\ flow'[u].merged = flow[u].merged
           /\ flow'[u].mine = flow[u].mine /\ flow'[u].changed = flow[u].changed
           /\ flow'[u].late = IF dev(u) = d /\ flow[u].pc = "apply" THEN flow[u].late \cup {e} ELSE flow[u].late
  <2>1. Disturbed(d, {e}) \in [Tab -> Flow]
    BY DisturbedType DEF TypeInv
  <2>2. flow'[t] = g /\ \A u \in Tab : u # t => flow'[u] = Disturbed(d, {e})[u]
    BY <1>1, <2>1
  <2> HIDE DEF d
  <2> QED BY <2>2, DisturbedFlow
<1>8. flow[t].pc = "apply" => g.changed
  BY <1>6 DEF Busy
<1>9. ASSUME NEW u \in Tab PROVE MergedWired(u)' /\ ApplyWired(u)' /\ DirtyOpen(u)'
  <2>1. CASE u = t
    <3>1. MergedWired(t) /\ ApplyWired(t)
      BY DEF SyncInv
    <3>2. MergedWired(t)' /\ DirtyOpen(t)'
      BY <1>1, <1>6, <1>7, <3>1, ZenonT(40) DEF MergedWired, DirtyOpen, AllCover
    <3>3. ApplyWired(t)'
      BY <1>4, <1>5, <1>6, <1>7, <1>8, <3>1 DEF ApplyWired, dev
    <3> QED BY <2>1, <3>2, <3>3
  <2>2. CASE u # t
    <3>1. {e} \in SUBSET Entity
      OBVIOUS
    <3>2. \A x \in Entity \ {e} : local'[d][x] = local[d][x]
      BY <1>4
    <3> HIDE DEF d
    <3> QED BY <1>1, <1>3, <1>4, <1>5, <1>7, <2>2, <3>1, <3>2, OtherWired, ZenonT(40) DEF d
  <2> QED BY <2>1, <2>2
<1>10. Unsent(t)' /\ Unsure(d)' /\ ~Seen(d)'
  <2>1. Unsent(t)'
    BY <1>5, <1>6, <1>7, <1>8 DEF Unsent
  <2> QED BY <1>5, <2>1 DEF Unsure, Seen, dev
<1>11. ASSUME NEW c \in Device, c # d
       PROVE  /\ provider = "cas" /\ ~Unsure(c)' => AllCover(vault.copies, local[c])
              /\ Seen(c)' => \A x \in Entity : local[c][x].row = Shown(vault.copies[x])
  <2>1. \A u \in Tab : dev(u) = c => /\ dirty'[u] = dirty[u] /\ flow'[u].pc = flow[u].pc
                                     /\ flow'[u].changed = flow[u].changed
    BY <1>5, <1>7, <1>11
  <2> HIDE DEF d
  <2> QED BY <1>1, <1>3, <1>4, <1>11, <2>1, OtherDevice
<1>12. SureCovered' /\ SeenShown'
  BY <1>1, <1>4, <1>10, <1>11 DEF SureCovered, SeenShown, AllCover
<1> QED BY <1>9, <1>12 DEF SyncInv


\* An apply that is not disturbed shows what was merged; one that is takes nothing that the
\* vault has not.
LEMMA ApplySync == ASSUME TypeInv, VaultInv, SyncInv, NEW t \in Tab, Apply(t) PROVE SyncInv'
<1> DEFINE d == dev(t)
           m == flow[t].merged
           after == [e \in Entity |-> Applied(e, local[d][e], m[e])]
           E == {e \in Entity : after[e] # local[d][e]}
<1>1. /\ flow[t].pc = "apply" /\ local' = [local EXCEPT ![d] = after]
      /\ flow' = [Disturbed(d, E) EXCEPT ![t] = Idle]
      /\ saved' = [saved EXCEPT ![d] = flow[t].base]
      /\ dirty' = [dirty EXCEPT ![t] = flow[t].changed]
      /\ doubt' = IF flow[t].late = {} THEN doubt \ {d} ELSE doubt
      /\ UNCHANGED <<provider, vault>>
  BY DEF Apply, StillDirty
<1>2. /\ d \in Device /\ m \in Snapshot /\ vault.copies \in Snapshot /\ local[d] \in Snapshot
      /\ flow[t].changed \in BOOLEAN /\ local \in [Device -> Snapshot] /\ saved \in [Device -> Nat]
      /\ dirty \in [Tab -> BOOLEAN]
  BY SnapshotTypes DEF TypeInv, TypeOK
<1>3. /\ \A e \in Entity : after[e] = Applied(e, local[d][e], m[e])
      /\ \A e \in Entity \ E : after[e] = local[d][e]
      /\ E \in SUBSET Entity
  OBVIOUS
<1> HIDE DEF m, after, E
<1>4. local'[d] = after /\ \A c \in Device : c # d => local'[c] = local[c] /\ saved'[c] = saved[c]
  BY <1>1, <1>2
<1>5. /\ saved'[d] = flow[t].base /\ dirty'[t] = flow[t].changed
      /\ \A u \in Tab : u # t => dirty'[u] = dirty[u]
  BY <1>1, <1>2
<1>6. /\ flow'[t] = Idle /\ Idle.pc = "idle" /\ Idle.late = {}
      /\ \A u \in Tab : u # t =>
           /\ flow'[u].pc = flow[u].pc /\ flow'[u].base = flow[u].base /\ flow'[u].merged = flow[u].merged
           /\ flow'[u].mine = flow[u].mine /\ flow'[u].changed = flow[u].changed
           /\ flow'[u].late = IF dev(u) = d /\ flow[u].pc = "apply" THEN flow[u].late \cup E ELSE flow[u].late
  <2>1. Disturbed(d, E) \in [Tab -> Flow]
    BY <1>2, <1>3, DisturbedType DEF TypeInv
  <2>2. flow'[t] = Idle /\ \A u \in Tab : u # t => flow'[u] = Disturbed(d, E)[u]
    BY <1>1, <2>1
  <2> HIDE DEF d
  <2> QED BY <1>3, <2>2, DisturbedFlow DEF Idle
<1>7. ASSUME NEW u \in Tab PROVE MergedWired(u)' /\ ApplyWired(u)' /\ DirtyOpen(u)'
  <2>1. CASE u = t
    BY <1>6, <2>1 DEF MergedWired, ApplyWired, DirtyOpen
  <2>2. CASE u # t
    <3>1. \A e \in Entity \ E : local'[d][e] = local[d][e]
      BY <1>3, <1>4
    <3>2. \A c \in Device : c # d => local'[c] = local[c]
      BY <1>4
    <3>3. provider' = provider /\ vault' = vault /\ dirty'[u] = dirty[u]
      BY <1>1, <1>5, <2>2
    <3> HIDE DEF d
    <3> QED BY <1>2, <1>3, <1>6, <2>2, <3>1, <3>2, <3>3, OtherWired DEF d
  <2> QED BY <2>1, <2>2
<1>8. ASSUME NEW c \in Device, c # d
      PROVE  /\ provider = "cas" /\ ~Unsure(c)' => AllCover(vault.copies, local[c])
             /\ Seen(c)' => \A x \in Entity : local[c][x].row = Shown(vault.copies[x])
  <2>1. \A u \in Tab : dev(u) = c => /\ dirty'[u] = dirty[u] /\ flow'[u].pc = flow[u].pc
                                     /\ flow'[u].changed = flow[u].changed
    BY <1>5, <1>6, <1>8
  <2>2. c \in doubt <=> c \in doubt'
    BY <1>1, <1>8
  <2>3. local'[c] = local[c] /\ saved'[c] = saved[c]
    BY <1>4, <1>8
  <2> HIDE DEF d
  <2> QED BY <1>1, <1>2, <1>8, <2>1, <2>2, <2>3, OtherDevice
<1>9. flow[t].late = {} => AllCover(m, local[d])
  BY <1>1 DEF SyncInv, ApplyWired, AllCover, m
<1>10. ASSUME flow[t].late # {}, d \notin doubt', ~flow[t].changed,
              \A u \in Tab \ {t} : dev(u) = d => ~Unsent(u)', provider = "cas"
       PROVE  AllCover(vault.copies, local[d])
  <2>1. d \notin doubt
    BY <1>1, <1>10
  <2>2. ~Unsent(t)
    BY <1>1, <1>10 DEF Unsent
  <2>3. \A u \in Tab \ {t} : dev(u) = d => ~Unsent(u)
    BY <1>5, <1>6, <1>10, ZenonT(40) DEF Unsent
  <2>4. ~Unsure(d)
    BY <2>1, <2>2, <2>3 DEF Unsure
  <2> QED BY <1>2, <1>10, <2>4 DEF SyncInv, SureCovered
<1>11. ASSUME provider = "cas", ~Unsure(d)' PROVE AllCover(vault.copies, after)
  <2>1. AllCover(vault.copies, m)
    BY <1>1, <1>11 DEF SyncInv, MergedWired, m
  <2>2. d \notin doubt' /\ \A u \in Tab : dev(u) = d => ~Unsent(u)'
    BY <1>11 DEF Unsure, dev
  <2>3. ~flow[t].changed
    BY <1>5, <1>6, <2>2 DEF Unsent
  <2>4. AllCover(vault.copies, local[d])
    BY <1>2, <1>9, <1>10, <1>11, <2>1, <2>2, <2>3, AllCoverTransitive
  <2> SUFFICES ASSUME NEW e \in Entity PROVE Covers(vault.copies[e], after[e])
    BY DEF AllCover
  <2>5. vault.copies[e] \in Copy /\ m[e] \in Copy /\ local[d][e] \in Copy
    BY <1>2 DEF Snapshot
  <2>6. Covers(vault.copies[e], m[e]) /\ Covers(vault.copies[e], local[d][e])
    BY <2>1, <2>4 DEF AllCover
  <2> QED BY <1>3, <2>5, <2>6, AppliedCovered
<1>12. ASSUME Seen(d)', NEW e \in Entity PROVE after[e].row = Shown(vault.copies[e])
  <2>1. /\ d \notin doubt' /\ saved'[d] = vault.rev /\ \A u \in Tab : dev(u) = d => ~dirty'[u]
        /\ provider = "folder" => OneTab(d)
    BY <1>1, <1>12 DEF Seen, dev, OneTab
  <2>2. flow[t].base = vault.rev /\ ~flow[t].changed
    BY <1>5, <2>1
  <2>3. m = vault.copies
    BY <1>1, <2>2 DEF SyncInv, MergedWired, m
  <2>4. provider = "folder" => flow[t].late = {}
    BY <2>1, <2>2 DEF SyncInv, ApplyWired
  <2>5. provider \in {"cas", "folder"}
    BY DEF TypeInv, TypeOK
  <2>6. \A u \in Tab \ {t} : dev(u) = d => ~Unsent(u)'
    BY <2>1 DEF Unsent
  <2>7. AllCover(m, local[d])
    BY <1>9, <1>10, <2>1, <2>2, <2>3, <2>4, <2>5, <2>6
  <2>8. m[e] \in Copy /\ local[d][e] \in Copy /\ Covers(m[e], local[d][e])
    BY <1>2, <2>7 DEF Snapshot, AllCover
  <2> QED BY <1>3, <2>3, <2>8, AppliedShows
<1>13. SureCovered' /\ SeenShown'
  BY <1>1, <1>4, <1>8, <1>11, <1>12 DEF SureCovered, SeenShown, AllCover
<1> QED BY <1>7, <1>13 DEF SyncInv

LEMMA SyncStays == ASSUME SyncInv, UNCHANGED vars PROVE SyncInv'
BY DEF vars, dataVars, tabVars, SyncInv, MergedWired, ApplyWired, DirtyOpen, SureCovered, SeenShown,
       Unsure, Unsent, Seen, AllCover, dev

LEMMA SyncKeeps == TypeInv /\ VaultInv /\ SyncInv /\ [Next]_vars => SyncInv'
<1> SUFFICES ASSUME TypeInv, VaultInv, SyncInv, [Next]_vars PROVE SyncInv'
  OBVIOUS
<1>1. CASE UNCHANGED vars
  BY <1>1, SyncStays
<1>2. ASSUME NEW t \in Tab, SyncStep(t) PROVE SyncInv'
  BY <1>2, ReadSync, CaptureSync, WriteSync, ProbeSync, RecaptureSync, ApplySync DEF SyncStep
<1> QED BY <1>1, <1>2, EditSync, TabSync, DiesSync, WriteSync DEF Next

LEMMA InitSync == Init => SyncInv
<1> SUFFICES ASSUME Init PROVE SyncInv
  OBVIOUS
<1>1. /\ vault.copies = Empty /\ vault.rev = 0 /\ \A d \in Device : local[d] = Empty
      /\ \A t \in Tab : flow[t] = Idle /\ ~dirty[t]
  BY DEF Init
<1>2. \A e \in Entity : Covers(Empty[e], Empty[e])
  BY NothingType, CoversItself DEF Snapshot
<1>3. SureCovered /\ SeenShown
  BY <1>1, <1>2 DEF SureCovered, AllCover, SeenShown, Seen
<1>4. \A t \in Tab : MergedWired(t) /\ ApplyWired(t) /\ DirtyOpen(t)
  BY <1>1 DEF MergedWired, ApplyWired, DirtyOpen, Idle
<1> QED BY <1>3, <1>4 DEF SyncInv

\* A device whose last sync saw the vault as it is shows what the vault holds, unless a tab
\* died there before it had synced or, in a shared folder, it has several.
THEOREM SyncedShows == Spec => []SyncedShowsVault
<1>1. TypeInv /\ SyncInv => SyncedShowsVault
  <2> SUFFICES ASSUME SyncInv, NEW d \in Device \ doubt, Synced(d), provider = "folder" => OneTab(d)
               PROVE  \A e \in Entity : local[d][e].row = Shown(vault.copies[e])
    BY DEF SyncedShowsVault
  <2>1. Seen(d)
    BY DEF Synced, Seen
  <2> QED BY <2>1 DEF SyncInv, SeenShown
<1> QED BY <1>1, InitType, InitVault, InitSync, VaultStep, SyncKeeps, PTL DEF Spec

\* What a device holds and the vault does not is noticed by one of its open tabs, unless a
\* tab died there before it had synced.
THEOREM UnsyncedNoticed == Spec => []UnsyncedIsNoticed
<1>1. TypeInv /\ SyncInv => UnsyncedIsNoticed
  <2> SUFFICES ASSUME TypeInv, SyncInv, NEW d \in Device \ doubt,
                      ~ \A e \in Entity : Covers(vault.copies[e], local[d][e]),
                      NEW t \in Tab, dev(t) = d, flow[t].pc # "closed"
               PROVE  \E u \in Tab : dev(u) = d /\ flow[u].pc # "closed" /\ (Busy(u) \/ Noticed(u))
    BY DEF UnsyncedIsNoticed
  <2>1. CASE provider = "folder"
    BY <2>1 DEF Noticed
  <2>2. CASE provider = "cas"
    <3>1. Unsure(d)
      BY <2>2 DEF SyncInv, SureCovered, AllCover
    <3>2. PICK u \in Tab : dev(u) = d /\ dirty[u]
      BY <3>1 DEF Unsure, Unsent
    <3>3. flow[u].pc # "closed"
      BY <3>2 DEF SyncInv, DirtyOpen
    <3> QED BY <3>2, <3>3 DEF Noticed
  <2> QED BY <2>1, <2>2 DEF TypeInv, TypeOK
<1> QED BY <1>1, InitType, InitVault, InitSync, VaultStep, SyncKeeps, PTL DEF Spec

\* Only an apply ends an apply and changes a record.
LEMMA OnlyApply ==
  ASSUME TypeInv, [Next]_vars, NEW t \in Tab, Applies(t) PROVE Apply(t) \/ local' = local
<1>1. ASSUME NEW u \in Tab, NEW e \in Entity, NEW op, Edit(u, e, op) PROVE FALSE
  <2> DEFINE d == dev(u)
             f == Disturbed(d, {e})
  <2>1. flow' = [f EXCEPT ![u].changed = Busy(u)]
    BY <1>1 DEF Edit
  <2>2. f \in [Tab -> Flow]
    BY DisturbedType DEF TypeInv
  <2>3. f[t].pc = flow[t].pc
    <3>1. {e} \in SUBSET Entity
      OBVIOUS
    <3> HIDE DEF d
    <3> QED BY <3>1, DisturbedFlow
  <2> HIDE DEF f
  <2>4. flow'[t].pc = f[t].pc
    BY <2>1, <2>2 DEF Flow
  <2> QED BY <2>3, <2>4 DEF Applies
<1>2. ASSUME NEW u \in Tab, Apply(u), u # t PROVE FALSE
  <2> DEFINE d == dev(u)
             E == {e \in Entity : [x \in Entity |-> Applied(x, local[d][x], flow[u].merged[x])][e] # local[d][e]}
             f == Disturbed(d, E)
  <2>1. flow' = [f EXCEPT ![u] = Idle]
    BY <1>2 DEF Apply
  <2>2. E \in SUBSET Entity
    OBVIOUS
  <2> HIDE DEF E
  <2>3. f[t].pc = flow[t].pc /\ f \in [Tab -> Flow]
    BY <2>2, DisturbedFlow, DisturbedType DEF TypeInv
  <2> HIDE DEF f
  <2> QED BY <1>2, <2>1, <2>3 DEF Applies
<1>3. ASSUME NEW u \in Tab, SyncStep(u) PROVE Apply(u) \/ local' = local
  BY <1>3 DEF SyncStep, Read, Capture, Write, Overwrite, ProbeAgain, Recapture, Stores, Outside, dataVars
<1>4. ASSUME NEW u \in Tab, Begin(u) \/ Open(u) \/ TabDies(u) \/ WriteLost(u) \/ SyncFails(u)
      PROVE  local' = local
  BY <1>4 DEF Begin, Open, TabDies, WriteLost, SyncFails, Stores, dataVars
<1>5. CASE UNCHANGED vars
  BY <1>5 DEF vars, dataVars
<1> QED BY <1>1, <1>2, <1>3, <1>4, <1>5 DEF Next

LEMMA ApplyTakesNothing ==
  ASSUME TypeInv, SyncInv, [Next]_vars, NEW t \in Tab, Applies(t)
  PROVE  TakesNothingNewer(t, Entity \ flow[t].late)
<1> DEFINE d == dev(t)
<1> SUFFICES ASSUME NEW e \in Entity \ flow[t].late, local[d][e].row # NoRow
             PROVE  \/ Buried(local[d][e].row, local'[d][e].tomb)
                    \/ local'[d][e].row # NoRow /\ local'[d][e].row.at >= local[d][e].row.at
  BY DEF TakesNothingNewer
<1>1. local[d][e] \in Copy /\ flow[t].merged[e] \in Copy /\ d \in Device /\ local \in [Device -> Snapshot]
  BY SnapshotTypes DEF Snapshot, TypeInv, TypeOK
<1>2. CASE local' = local
  BY <1>1, <1>2, CopyFields
<1>3. CASE Apply(t)
  <2>1. Covers(flow[t].merged[e], local[d][e])
    BY DEF SyncInv, ApplyWired, Applies
  <2>2. local'[d][e] = Applied(e, local[d][e], flow[t].merged[e])
    BY <1>1, <1>3 DEF Apply
  <2> QED BY <1>1, <2>1, <2>2, AppliedTakesNothing
<1> QED BY <1>2, <1>3, OnlyApply

\* An apply overwrites nothing that was saved before the second capture, in whichever tab.
THEOREM AppliesKeepEdits == Spec => ApplyKeepsEditsUnlessLate
<1>1. TypeInv /\ SyncInv /\ [Next]_vars =>
        [\A t \in Tab : Applies(t) => TakesNothingNewer(t, Entity \ flow[t].late)]_vars
  BY ApplyTakesNothing
<1> QED BY <1>1, InitType, InitVault, InitSync, VaultStep, SyncKeeps, PTL DEF Spec, ApplyKeepsEditsUnlessLate

=============================================================================
