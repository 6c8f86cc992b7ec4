------------------------------ MODULE SyncFeed ------------------------------
(***************************************************************************)
(* What the sync promises a device, whatever transactions, pages, tabs and *)
(* leases it takes: events are published under numbers, never behind a     *)
(* device that has read past that number, a device takes nothing that is   *)
(* not published, and its reading position passes only what it has taken.  *)
(***************************************************************************)
EXTENDS Naturals

CONSTANT Device

VARIABLES
  published,   \* the numbers of the published events
  taken,       \* per device: the events it has taken
  read         \* per device: how far it has read

Init ==
  /\ published = {}
  /\ taken = [d \in Device |-> {}]
  /\ read = [d \in Device |-> 0]

Publish ==
  /\ published \subseteq published'
  /\ \A i \in published' \ published, d \in Device : i > read[d]
  /\ UNCHANGED <<taken, read>>

Take(d) ==
  /\ \E S \in SUBSET published : taken' = [taken EXCEPT ![d] = @ \cup S]
  /\ UNCHANGED <<published, read>>

\* A device may read again what it has read before.
Advance(d) ==
  /\ read' \in [Device -> Nat] /\ \A x \in Device \ {d} : read'[x] = read[x]
  /\ {i \in published : i <= read'[d]} \subseteq taken[d]
  /\ UNCHANGED <<published, taken>>

Next == Publish \/ \E d \in Device : Take(d) \/ Advance(d)

Spec == Init /\ [][Next]_<<published, taken, read>>

=============================================================================
