------------------------------- MODULE MCSync -------------------------------
(* SyncProtocol on small sets of devices and tabs. *)
EXTENDS SyncProtocol, TLC

CONSTANTS d1, d2, t1, t2

OneDevice == [t \in Tab |-> d1]
TwoDevices == [t \in Tab |-> IF t = t1 THEN d1 ELSE d2]
\* How far each clock is ahead.
SameClock == [a \in Author |-> 0]
FastWeb == [a \in Author |-> IF a = Web THEN 1 ELSE 0]

\* Who may edit how often.
EachDeviceOnce == {n \in [Author -> 0..1] : n[Web] = 0}
ThreeEdits == {n \in [Author -> 0..2] : n[d1] + n[Web] <= 3}

=============================================================================
