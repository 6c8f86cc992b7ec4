------------------------------- MODULE MCVault -------------------------------
(* CloudVault on small sets of devices and tabs. *)
EXTENDS CloudVault, TLC

CONSTANTS d1, d2, t1, t2, t3

TabPerDevice == [t \in Tab |-> IF t = t1 THEN d1 ELSE d2]
TwoTabsOfOne == [t \in Tab |-> IF t = t3 THEN d2 ELSE d1]

SameClock == [d \in Device |-> 0]
FastDevice == [d \in Device |-> IF d = d1 THEN 1 ELSE 0]

OnceEach == [d \in Device |-> 1]
TwiceOnce == [d \in Device |-> IF d = d1 THEN 2 ELSE 1]

=============================================================================
