------------------------------ MODULE VaultMerge ------------------------------
(***************************************************************************)
(* The records of a Cloud Vault snapshot and what is done to them: how the *)
(* snapshot of a device and the one of the vault file are merged, how the  *)
(* result is applied to the device, and how an edit changes the device.    *)
(*                                                                         *)
(* A note stands for every record an apply puts without looking (notes,    *)
(* highlights, bookmarks); a position is a reading position, which is put  *)
(* only if the device has none that is newer.  All belong to one book that *)
(* every device has under the same local ids.                              *)
(***************************************************************************)
EXTENDS Naturals, FiniteSets

CONSTANTS Device, Note, Position,
          NoRow   \* no row

Entity == Note \cup Position

\* "n" tells apart the edits of a device that have one timestamp.
Row == [by: Device, n: Nat, at: Nat \ {0}]

ASSUME VaultRecords == NoRow \notin Row /\ Note \cap Position = {}

\* The timestamp of the tombstone, 0 if there is none.
Copy == [row: Row \cup {NoRow}, tomb: Nat]

Nothing == [row |-> NoRow, tomb |-> 0]

Snapshot == [Entity -> Copy]

Later(m, n) == IF m >= n THEN m ELSE n

\* tombstoneWins: a deletion of the same moment wins.
Buried(r, tomb) == r # NoRow => tomb >= r.at

\* The newer row; of two of one moment the left one.
Chosen(l, r) == IF l # NoRow /\ (r # NoRow => l.at >= r.at) THEN l ELSE r

\* Tombstones are kept for ever.
Merged(l, r) ==
  LET kept == Chosen(l.row, r.row)
      tomb == Later(l.tomb, r.tomb)
  IN [row |-> IF Buried(kept, tomb) THEN NoRow ELSE kept, tomb |-> tomb]

\* The device's row after the rows of the merged snapshot are put.
Put(e, c, m) ==
  IF m.row # NoRow /\ (e \in Position /\ c.row # NoRow => m.row.at >= c.row.at) THEN m.row ELSE c.row

\* Mutant: a deletion of the same moment does not win on the device.
Bug_AppliedStrictly(e, c, m) ==
  LET r == Put(e, c, m)
  IN IF m.tomb # 0 /\ (r # NoRow => m.tomb > r.at) THEN [row |-> NoRow, tomb |-> m.tomb]
     ELSE [row |-> r, tomb |-> c.tomb]

\* And after its tombstones: one that is not older than the row replaces the
\* device's own, whatever that one's age.
Applied(e, c, m) ==
  LET r == Put(e, c, m)
  IN IF m.tomb # 0 /\ Buried(r, m.tomb) THEN [row |-> NoRow, tomb |-> m.tomb]
     ELSE [row |-> r, tomb |-> c.tomb]

\* Saving a position, unlike saving a note, leaves the tombstone.
Saved(e, c, r) == [row |-> r, tomb |-> IF e \in Note THEN 0 ELSE c.tomb]

Deleted(at) == [row |-> NoRow, tomb |-> at]

=============================================================================
