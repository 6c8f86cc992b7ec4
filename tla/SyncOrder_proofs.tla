-------------------------- MODULE SyncOrder_proofs --------------------------
(***************************************************************************)
(* Theorems about SyncProtocol for every set of devices, tabs and entities *)
(* and every value of the bounds: the order of the log, and that devices   *)
(* and server show the same once everything is sent and read.              *)
(***************************************************************************)
EXTENDS SyncDelivery_proofs

-----------------------------------------------------------------------------
(* The order of the log *)

\* The events of entity e that are kept, and those that transaction t sees.
KeptOf(e) == [i \in {j \in DOMAIN log : log[j].state = "kept" /\ log[j].ev.ent = e} |-> log[i].ev]
SeenOf(t, e) == [i \in {j \in Seen(t) : log[j].ev.ent = e} |-> log[i].ev]

\* Of such events E, those that FoundNoRow and SetBack except.
Excused(E, i) ==
  /\ E[i].ent \in Note
  /\ \/ E[i].op = "del" /\ \A k \in DOMAIN E : k < i => E[k].op = "del"
     \/ \E k \in DOMAIN E : i < k /\ E[k].by = Web /\ E[k].op = "del" /\ E[k].at < E[i].at

\* And those that ReadingOnly excepts.
ReadOnly(E, i, j) ==
  /\ E[j].by = Web /\ E[j].op = "put" /\ E[j].ent \in Position /\ E[i].op = "put"
  /\ \A k \in DOMAIN E : i < k /\ k < j => E[k].op # "del"

Ordered(E) ==
  \A i, j \in DOMAIN E : i < j /\ ~Excused(E, i) /\ ~ReadOnly(E, i, j) => E[i].at <= E[j].at

\* Row r, or a deletion that left no row, is at least as late as event i.
NotAfter(E, r, i) ==
  \/ r # NoRow /\ E[i].at <= r.at
  \/ Excused(E, i)
  \/ E[i].ent \in Position /\ \E k \in DOMAIN E : E[k].op = "del" /\ E[i].at <= E[k].at

\* What event ev leaves of a row it takes the place of.
RowOf(ev, r) == IF ev.op = "put" THEN r = ev ELSE r = NoRow \/ (ev.ent \in Note /\ r = ev)

\* Events in the order of time leave the row of the last one.
InTime(E) == \A i, j \in DOMAIN E : i < j => E[i].at <= E[j].at

Leaves(E, V, r) ==
  /\ \A i, j \in DOMAIN E : E[i] \in V => j <= i
  /\ InTime(E) =>
       \/ r = NoRow /\ \A i \in DOMAIN E : E[i] \in V
       \/ \E i \in DOMAIN E : /\ E[i] \notin V /\ RowOf(E[i], r)
                              /\ \A j \in DOMAIN E : E[j] \notin V => j <= i

\* The events E are ordered, and r is what they leave but for those in V.
View(E, V, r) ==
  /\ Ordered(E) /\ Leaves(E, V, r)
  /\ \A i \in DOMAIN E : E[i] \notin V =>
       /\ NotAfter(E, r, i)
       /\ r = NoRow /\ E[i].ent \in Note => E[i].op = "del"

\* An event that may follow E.
Fits(E, ev, r) ==
  /\ NotOlder(ev, r)
  /\ ev.ent \in Position =>
       \A i \in DOMAIN E : E[i] # ev /\ E[i].op = "del" => E[i].at < ev.at

\* A hosted position that may follow E.
WebFits(E, ev, r) ==
  IF ev.op = "put" THEN \A i \in DOMAIN E : E[i].op = "del" => E[i].at < ev.at
  ELSE NotOlder(ev, r) /\ \A i \in DOMAIN E : E[i].op = "del" => E[i].at <= ev.at

\* What is logged and not persisted.
Unwritten(t) == IF tx[t].phase = "persist" THEN {Head(tx[t].todo)} ELSE {}

Opened(t, i) == i \in DOMAIN log /\ log[i].state = "open" /\ log[i].tab = t

\* Transaction t has an accurate picture of entity e.
Accurate(t, e) ==
  /\ View(SeenOf(t, e), Unwritten(t), RowSeen(t, e))
  /\ tx[t].phase \in {"insert", "persist"} /\ Head(tx[t].todo).ent = e =>
       Fits(SeenOf(t, e), Head(tx[t].todo), RowSeen(t, e))

Pushing(t) ==
  /\ \A e \in DOMAIN tx[t].rows : \E i \in DOMAIN log : Opened(t, i) /\ log[i].ev.ent = e
  /\ tx[t].phase = "persist" => \E i \in DOMAIN log : Opened(t, i) /\ log[i].ev = Head(tx[t].todo)
  /\ \A e \in Entity \ raced : At(t, e) => Accurate(t, e)

\* The hosted request is about entity e.
WebAt(e) == web # NoRow /\ web.ent = e

Hosting ==
  /\ web # NoRow => web.by = Web /\ web.ent \in Position
  /\ \A e \in Entity \ raced : WebAt(e) => WebFits(KeptOf(e), web, row[e])

\* One request at a time, or the entity counts as raced.
Alone(e) ==
  \A t \in Tab : At(t, e) => ~WebAt(e) /\ \A u \in Tab : At(u, e) => u = t

OrderInv ==
  /\ \A e \in Entity \ raced : View(KeptOf(e), {}, row[e]) /\ Alone(e)
  /\ \A t \in Tab : Pushing(t)
  /\ Hosting

\* A set of entries of one entity, by sequence number.
Entries(E, e) == DOMAIN E \subseteq Nat /\ \A i \in DOMAIN E : E[i] \in Event /\ E[i].ent = e

\* F is E and event ev behind all of it.
Follows(F, E, ev, n) ==
  /\ n \in Nat /\ DOMAIN F = DOMAIN E \cup {n} /\ F[n] = ev
  /\ \A i \in DOMAIN E : i < n /\ F[i] = E[i]

LEMMA EventTimes ==
  ASSUME NEW ev \in Event
  PROVE  /\ ev.at \in Nat /\ ev.op \in {"put", "del"} /\ ev.ent \in Entity /\ ev # NoRow
         /\ ev.ent \in Note <=> ev.ent \notin Position
BY SyncAssumption DEF Event, Entity

LEMMA RowTimes ==
  ASSUME NEW r \in Rows, r # NoRow PROVE r \in Event
BY DEF Rows

\* What is excepted stays excepted.
LEMMA StillExcused ==
  ASSUME NEW E, NEW F, NEW e, NEW ev, NEW n, Entries(E, e), Follows(F, E, ev, n),
         NEW i \in DOMAIN E
  PROVE  Excused(E, i) => Excused(F, i)
<1> SUFFICES ASSUME Excused(E, i) PROVE Excused(F, i)
  OBVIOUS
<1>1. F[i] = E[i] /\ i < n /\ i \in Nat /\ n \in Nat /\ DOMAIN F = DOMAIN E \cup {n}
      /\ \A k \in DOMAIN E : F[k] = E[k] /\ k \in Nat
  BY DEF Follows, Entries
<1>2. CASE E[i].op = "del" /\ \A k \in DOMAIN E : k < i => E[k].op = "del"
  <2>1. \A k \in DOMAIN F : k < i => F[k].op = "del"
    BY <1>1, <1>2
  <2> QED BY <1>1, <1>2, <2>1 DEF Excused
<1>3. CASE \E k \in DOMAIN E : i < k /\ E[k].by = Web /\ E[k].op = "del" /\ E[k].at < E[i].at
  <2>1. \E k \in DOMAIN F : i < k /\ F[k].by = Web /\ F[k].op = "del" /\ F[k].at < F[i].at
    BY <1>1, <1>3
  <2> QED BY <1>1, <2>1 DEF Excused
<1> QED BY <1>2, <1>3 DEF Excused

\* What is not after a row is not after a later one.
LEMMA StillNotAfter ==
  ASSUME NEW E, NEW F, NEW e, NEW ev \in Event, NEW n, Entries(E, e), Follows(F, E, ev, n),
         NEW i \in DOMAIN E, NEW r \in Rows, NEW s \in Rows,
         r # NoRow => s # NoRow /\ r.at <= s.at,
         NotAfter(E, r, i)
  PROVE  NotAfter(F, s, i)
<1>1. F[i] = E[i] /\ E[i] \in Event /\ DOMAIN F = DOMAIN E \cup {n} /\ \A k \in DOMAIN E : F[k] = E[k]
  BY DEF Follows, Entries
<1>2. CASE r # NoRow /\ E[i].at <= r.at
  <2>1. E[i].at \in Nat /\ r.at \in Nat /\ s.at \in Nat
    BY <1>1, <1>2, EventTimes, RowTimes
  <2> QED BY <1>1, <1>2, <2>1 DEF NotAfter
<1>3. CASE Excused(E, i)
  BY <1>3, StillExcused DEF NotAfter
<1>4. CASE E[i].ent \in Position /\ \E k \in DOMAIN E : E[k].op = "del" /\ E[i].at <= E[k].at
  BY <1>1, <1>4 DEF NotAfter
<1> QED BY <1>2, <1>3, <1>4 DEF NotAfter

\* An event that fits is not before what it follows.
LEMMA FitsBehind ==
  ASSUME NEW E, NEW e \in Entity, Entries(E, e), NEW r \in Rows, NEW ev \in Event, ev.ent = e,
         NEW i \in DOMAIN E, NotAfter(E, r, i), ~Excused(E, i), Fits(E, ev, r),
         \A k \in DOMAIN E : E[k] # ev
  PROVE  E[i].at <= ev.at
<1>1. E[i] \in Event /\ E[i].ent = e /\ E[i].at \in Nat /\ ev.at \in Nat
  BY EventTimes DEF Entries
<1>2. CASE r # NoRow /\ E[i].at <= r.at
  <2>1. r.at \in Nat /\ r.at <= ev.at
    BY <1>2, EventTimes, RowTimes DEF Fits, NotOlder
  <2> QED BY <1>1, <1>2, <2>1
<1>3. ASSUME E[i].ent \in Position, NEW k \in DOMAIN E, E[k].op = "del", E[i].at <= E[k].at
      PROVE  E[i].at <= ev.at
  <2>1. E[k].at \in Nat
    BY EventTimes DEF Entries
  <2>2. E[k].at < ev.at
    BY <1>1, <1>3 DEF Fits
  <2> QED BY <1>1, <1>3, <2>1, <2>2
<1> QED BY <1>2, <1>3 DEF NotAfter

\* Ordered events stay ordered before one that is not older.
LEMMA StillOrdered ==
  ASSUME NEW E, NEW F, NEW e, NEW ev \in Event, NEW n, Entries(E, e), Follows(F, E, ev, n), Ordered(E),
         \A i \in DOMAIN E : Excused(F, i) \/ ReadOnly(F, i, n) \/ E[i].at <= ev.at
  PROVE  Ordered(F)
<1> SUFFICES ASSUME NEW i \in DOMAIN F, NEW j \in DOMAIN F, i < j, ~Excused(F, i), ~ReadOnly(F, i, j)
             PROVE  F[i].at <= F[j].at
  BY DEF Ordered
<1>1. DOMAIN F = DOMAIN E \cup {n} /\ F[n] = ev /\ n \in Nat
      /\ \A k \in DOMAIN E : k < n /\ F[k] = E[k] /\ k \in Nat
  BY DEF Follows, Entries
<1>2. i \in DOMAIN E
  BY <1>1
<1>3. ~Excused(E, i)
  BY <1>2, StillExcused
<1>4. CASE j \in DOMAIN E
  <2>1. ~ReadOnly(E, i, j)
    <3>1. \A k \in DOMAIN F : k < j => k \in DOMAIN E
      BY <1>1, <1>4
    <3> QED BY <1>1, <1>2, <1>4, <3>1 DEF ReadOnly
  <2> QED BY <1>1, <1>2, <1>3, <1>4, <2>1 DEF Ordered
<1>5. CASE j = n
  BY <1>1, <1>2, <1>5
<1> QED BY <1>1, <1>4, <1>5

\* An event is logged before it is persisted.
LEMMA ViewLogged ==
  ASSUME NEW E, NEW F, NEW e \in Entity, NEW ev \in Event, NEW n, Entries(E, e), Follows(F, E, ev, n),
         ev.ent = e, NEW r \in Rows, View(E, {}, r), Fits(E, ev, r), \A k \in DOMAIN E : E[k] # ev
  PROVE  View(F, {ev}, r) /\ Fits(F, ev, r) /\ Entries(F, e)
<1>1. DOMAIN F = DOMAIN E \cup {n} /\ F[n] = ev /\ n \in Nat /\ \A k \in DOMAIN E : F[k] = E[k] /\ k \in Nat
  BY DEF Follows, Entries
<1>2. Ordered(F)
  <2>1. \A i \in DOMAIN E : Excused(F, i) \/ E[i].at <= ev.at
    BY FitsBehind, StillExcused DEF View
  <2> QED BY <2>1, StillOrdered DEF View
<1>3. ASSUME NEW i \in DOMAIN F, F[i] # ev
      PROVE  NotAfter(F, r, i) /\ (r = NoRow /\ F[i].ent \in Note => F[i].op = "del")
  <2>1. i \in DOMAIN E /\ F[i] = E[i]
    BY <1>1, <1>3
  <2>2. r # NoRow => r.at \in Nat
    BY EventTimes, RowTimes
  <2>3. NotAfter(E, r, i) /\ (r = NoRow /\ E[i].ent \in Note => E[i].op = "del")
    BY <2>1 DEF View
  <2>4. r # NoRow => r # NoRow /\ r.at <= r.at
    BY <2>2
  <2>5. NotAfter(F, r, i)
    BY <2>1, <2>3, <2>4, StillNotAfter
  <2> QED BY <2>1, <2>3, <2>5
<1>4. Fits(F, ev, r)
  BY <1>1 DEF Fits
<1>5. Entries(F, e)
  BY <1>1 DEF Entries
<1>6. Leaves(F, {ev}, r)
  <2>1. \A i \in DOMAIN F : F[i] = ev <=> i = n
    BY <1>1
  <2>2. \A i, j \in DOMAIN F : F[i] \in {ev} => j <= i
    BY <1>1, <2>1 DEF Follows
  <2>3. InTime(F) => InTime(E)
    BY <1>1 DEF InTime
  <2>4. CASE r = NoRow /\ DOMAIN E = {}
    BY <1>1, <2>2, <2>4 DEF Leaves
  <2>5. ASSUME NEW i \in DOMAIN E, RowOf(E[i], r), \A j \in DOMAIN E : j <= i PROVE Leaves(F, {ev}, r)
    <3>1. i \in DOMAIN F /\ F[i] \notin {ev} /\ RowOf(F[i], r) /\ \A j \in DOMAIN F : F[j] \notin {ev} => j <= i
      BY <1>1, <2>1, <2>5
    <3> QED BY <2>2, <3>1 DEF Leaves
  <2>6. CASE ~InTime(F)
    BY <2>2, <2>6 DEF Leaves
  <2> QED BY <2>3, <2>4, <2>5, <2>6 DEF View, Leaves
<1> QED BY <1>2, <1>3, <1>4, <1>5, <1>6 DEF View

\* A later row is as good, except that it must know of a note.
LEMMA LaterRow ==
  ASSUME NEW E, NEW e, Entries(E, e), NEW r \in Rows, NEW s \in Rows, NEW i \in DOMAIN E,
         r # NoRow => s # NoRow /\ r.at <= s.at, NotAfter(E, r, i)
  PROVE  NotAfter(E, s, i)
<1>1. CASE r # NoRow /\ E[i].at <= r.at
  <2>1. E[i].at \in Nat /\ r.at \in Nat /\ s.at \in Nat
    BY <1>1, EventTimes, RowTimes DEF Entries
  <2> QED BY <1>1, <2>1 DEF NotAfter
<1> QED BY <1>1 DEF NotAfter

\* What Persist leaves in the rows.
AfterPersist(ev, r) == IF ev.op = "del" /\ r = NoRow THEN NoRow ELSE Persisted(ev, r)

LEMMA ViewPersisted ==
  ASSUME NEW E, NEW e \in Entity, Entries(E, e), NEW r \in Rows, NEW ev \in Event, ev.ent = e,
         View(E, {ev}, r), Fits(E, ev, r), \E k \in DOMAIN E : E[k] = ev
  PROVE  View(E, {}, AfterPersist(ev, r))
<1>1. \A i \in DOMAIN E : E[i] \in Event /\ E[i].ent = e /\ E[i].at \in Nat
  BY EventTimes DEF Entries
<1>2. ev \in Rows /\ ev # NoRow /\ ev.at \in Nat /\ ev.op \in {"put", "del"}
  BY EventTimes DEF Rows
<1>3. r # NoRow => r.at \in Nat /\ r.at <= ev.at
  BY EventTimes, RowTimes DEF Fits, NotOlder
<1>4. PICK n \in DOMAIN E : E[n] = ev
  OBVIOUS
<1>5. Ordered(E)
  BY DEF View
<1>9. Leaves(E, {}, AfterPersist(ev, r))
  <2>1. \A j \in DOMAIN E : j <= n
    BY <1>4 DEF View, Leaves
  <2>2. RowOf(ev, AfterPersist(ev, r))
    BY <1>2, SyncAssumption
       DEF RowOf, AfterPersist, Persisted, PersistedNote, PersistedPosition, Fits
  <2> QED BY <1>4, <2>1, <2>2 DEF Leaves
<1>6. CASE e \in Note /\ ev.op = "del" /\ r = NoRow
  <2>1. \A i \in DOMAIN E : E[i].op = "del"
    BY <1>1, <1>6 DEF View
  <2>2. \A i \in DOMAIN E : Excused(E, i)
    BY <1>1, <1>6, <2>1 DEF Excused
  <2>3. AfterPersist(ev, r) = NoRow
    BY <1>6 DEF AfterPersist
  <2> QED BY <1>5, <1>9, <2>1, <2>2, <2>3 DEF View, NotAfter
<1>7. CASE e \in Note /\ ~(ev.op = "del" /\ r = NoRow)
  <2>1. AfterPersist(ev, r) = ev
    BY <1>7 DEF AfterPersist, Persisted, PersistedNote, Fits
  <2>2. ASSUME NEW i \in DOMAIN E PROVE NotAfter(E, ev, i)
    <3>1. CASE E[i] = ev
      BY <1>2, <3>1 DEF NotAfter
    <3>2. CASE E[i] # ev
      <4>1. NotAfter(E, r, i)
        BY <3>2 DEF View
      <4> QED BY <1>2, <1>3, <4>1, LaterRow
    <3> QED BY <3>1, <3>2
  <2> QED BY <1>2, <1>5, <1>9, <2>1, <2>2 DEF View
<1>8. CASE e \in Position
  <2>1. e \notin Note
    BY <1>8, SyncAssumption
  <2>2. CASE ev.op = "put"
    <3>1. AfterPersist(ev, r) = ev
      BY <2>1, <2>2 DEF AfterPersist, Persisted, PersistedPosition, Fits
    <3>2. ASSUME NEW i \in DOMAIN E PROVE NotAfter(E, ev, i)
      <4>1. CASE E[i] = ev
        BY <1>2, <4>1 DEF NotAfter
      <4>2. CASE E[i] # ev
        <5>1. NotAfter(E, r, i)
          BY <4>2 DEF View
        <5> QED BY <1>2, <1>3, <5>1, LaterRow
      <4> QED BY <4>1, <4>2
    <3> QED BY <1>2, <1>5, <1>9, <3>1, <3>2 DEF View
  <2>3. CASE ev.op = "del"
    <3>1. AfterPersist(ev, r) = NoRow
      BY <2>1, <2>3 DEF AfterPersist, Persisted, PersistedPosition
    <3>2. ASSUME NEW i \in DOMAIN E PROVE NotAfter(E, NoRow, i)
      <4>1. CASE E[i] = ev
        BY <1>1, <1>2, <1>4, <1>8, <2>3, <4>1 DEF NotAfter
      <4>2. CASE E[i] # ev
        <5>1. NotAfter(E, r, i)
          BY <4>2 DEF View
        <5>2. CASE r # NoRow /\ E[i].at <= r.at
          <6>1. E[i].at <= E[n].at
            BY <1>1, <1>2, <1>3, <1>4, <5>2
          <6> QED BY <1>1, <1>4, <1>8, <2>3, <6>1 DEF NotAfter
        <5> QED BY <5>1, <5>2 DEF NotAfter
      <4> QED BY <4>1, <4>2
    <3>3. \A i \in DOMAIN E : E[i].ent \notin Note
      BY <1>1, <2>1
    <3> QED BY <1>5, <1>9, <3>1, <3>2, <3>3 DEF View
  <2> QED BY <1>2, <2>2, <2>3
<1> QED BY <1>6, <1>7, <1>8 DEF Entity

\* A hosted note is written and logged at once.
LEMMA ViewHostedNote ==
  ASSUME NEW E, NEW F, NEW e \in Note, NEW ev \in Event, NEW n, Entries(E, e), Follows(F, E, ev, n),
         ev.ent = e, ev.by = Web, NEW r \in Rows, View(E, {}, r),
         IF ev.op = "put" THEN NotOlder(ev, r) ELSE Live(r)
  PROVE  View(F, {}, ev)
<1>1. DOMAIN F = DOMAIN E \cup {n} /\ F[n] = ev /\ n \in Nat
      /\ \A k \in DOMAIN E : F[k] = E[k] /\ k \in Nat /\ k < n /\ E[k] \in Event /\ E[k].ent = e
  BY DEF Follows, Entries
<1>2. ev \in Rows /\ ev # NoRow /\ ev.at \in Nat /\ ev.op \in {"put", "del"} /\ e \notin Position
  BY EventTimes, SyncAssumption DEF Rows
<1>3. Ordered(F)
  <2>1. ASSUME NEW i \in DOMAIN E PROVE Excused(F, i) \/ E[i].at <= ev.at
    <3>1. F[i] = E[i] /\ i < n /\ E[i].ent = e /\ E[i].at \in Nat /\ NotAfter(E, r, i)
      BY <1>1, EventTimes DEF View
    <3>2. CASE ev.op = "put" /\ r # NoRow /\ E[i].at <= r.at
      <4>1. r.at \in Nat /\ r.at <= ev.at
        BY <3>2, EventTimes, RowTimes DEF NotOlder
      <4> QED BY <1>2, <3>1, <3>2, <4>1
    <3>3. CASE ev.op = "put" /\ Excused(E, i)
      BY <3>3, StillExcused
    <3>4. CASE ev.op = "del" /\ ~(E[i].at <= ev.at)
      <4>1. F[n].at < F[i].at
        BY <1>1, <1>2, <3>1, <3>4
      <4> QED BY <1>1, <3>1, <3>4, <4>1 DEF Excused
    <3> QED BY <1>2, <3>1, <3>2, <3>3, <3>4 DEF NotAfter
  <2> QED BY <2>1, StillOrdered DEF View
<1>4. ASSUME NEW i \in DOMAIN F PROVE NotAfter(F, ev, i)
  <2>1. CASE i \in DOMAIN E
    <3>1. F[i] = E[i] /\ E[i].at \in Nat /\ NotAfter(E, r, i)
      BY <1>1, <2>1, EventTimes DEF View
    <3>2. CASE ev.op = "put"
      <4>1. r # NoRow => ev # NoRow /\ r.at <= ev.at
        BY <1>2, <3>2 DEF NotOlder
      <4> QED BY <1>2, <2>1, <3>1, <4>1, StillNotAfter
    <3>3. CASE ev.op = "del" /\ ev.at < E[i].at
      <4>1. Excused(F, i)
        BY <1>1, <2>1, <3>1, <3>3 DEF Excused
      <4> QED BY <4>1 DEF NotAfter
    <3>4. CASE E[i].at <= ev.at
      BY <1>2, <3>1, <3>4 DEF NotAfter
    <3> QED BY <1>2, <3>1, <3>2, <3>3, <3>4
  <2>2. CASE i = n
    BY <1>1, <1>2, <2>2 DEF NotAfter
  <2> QED BY <1>1, <2>1, <2>2
<1>5. Leaves(F, {}, ev)
  <2>1. n \in DOMAIN F /\ RowOf(F[n], ev) /\ \A j \in DOMAIN F : j <= n
    BY <1>1, <1>2 DEF RowOf
  <2> QED BY <2>1 DEF Leaves
<1> QED BY <1>2, <1>3, <1>4, <1>5 DEF View

\* So is a hosted position.
LEMMA ViewHostedPosition ==
  ASSUME NEW E, NEW F, NEW e \in Position, NEW ev \in Event, NEW n, Entries(E, e), Follows(F, E, ev, n),
         ev.ent = e, ev.by = Web, NEW r \in Rows, View(E, {}, r), WebFits(E, ev, r)
  PROVE  View(F, {}, Persisted(ev, r))
<1>1. DOMAIN F = DOMAIN E \cup {n} /\ F[n] = ev /\ n \in Nat
      /\ \A k \in DOMAIN E : F[k] = E[k] /\ k \in Nat /\ k < n /\ E[k] \in Event /\ E[k].ent = e
  BY DEF Follows, Entries
<1>2. ev \in Rows /\ ev # NoRow /\ ev.at \in Nat /\ ev.op \in {"put", "del"} /\ e \notin Note
  BY EventTimes, SyncAssumption DEF Rows
<1>3. r # NoRow => r.at \in Nat
  BY EventTimes, RowTimes
<1>4. Ordered(F)
  <2>1. ASSUME NEW i \in DOMAIN E PROVE ReadOnly(F, i, n) \/ E[i].at <= ev.at
    <3>1. /\ F[i] = E[i] /\ i \in Nat /\ i < n /\ E[i].at \in Nat /\ E[i].op \in {"put", "del"}
          /\ NotAfter(E, r, i) /\ ~Excused(E, i)
      BY <1>1, <1>2, EventTimes DEF View, Excused
    <3>2. CASE ev.op = "put" /\ E[i].op = "del"
      BY <1>2, <3>1, <3>2 DEF WebFits
    <3>3. ASSUME ev.op = "put", NEW k \in DOMAIN E, i < k, E[k].op = "del" PROVE E[i].at <= ev.at
      <4>1. E[i].at <= E[k].at
        BY <3>1, <3>3 DEF View, Ordered, ReadOnly
      <4>2. E[k].at \in Nat /\ E[k].at < ev.at
        BY <1>1, <3>3, EventTimes DEF WebFits
      <4> QED BY <1>2, <3>1, <4>1, <4>2
    <3>4. CASE ev.op = "put" /\ E[i].op = "put" /\ \A k \in DOMAIN E : i < k => E[k].op # "del"
      <4>1. \A k \in DOMAIN F : i < k /\ k < n => F[k].op # "del"
        BY <1>1, <3>4
      <4> QED BY <1>1, <3>1, <3>4, <4>1 DEF ReadOnly
    <3>5. CASE ev.op = "del" /\ r # NoRow /\ E[i].at <= r.at
      BY <1>2, <1>3, <3>1, <3>5 DEF WebFits, NotOlder
    <3>6. ASSUME ev.op = "del", NEW k \in DOMAIN E, E[k].op = "del", E[i].at <= E[k].at PROVE E[i].at <= ev.at
      <4>1. E[k].at \in Nat /\ E[k].at <= ev.at
        BY <1>1, <3>6, EventTimes DEF WebFits
      <4> QED BY <1>2, <3>1, <3>6, <4>1
    <3> QED BY <1>2, <3>1, <3>2, <3>3, <3>4, <3>5, <3>6 DEF NotAfter
  <2> QED BY <2>1, StillOrdered DEF View
<1>5. \A i \in DOMAIN F : F[i].ent \notin Note
  BY <1>1, <1>2
<1> DEFINE s == Persisted(ev, r)
<1>6. s = IF ev.op = "del" THEN NoRow ELSE IF NotOlder(ev, r) THEN ev ELSE r
  BY <1>2 DEF Persisted, PersistedPosition
<1> HIDE DEF s
<1>7. ASSUME NEW i \in DOMAIN E PROVE NotAfter(F, s, i)
  <2>1. NotAfter(E, r, i) /\ F[i] = E[i] /\ i \in DOMAIN F /\ E[i].at \in Nat
    BY <1>1, EventTimes DEF View
  <2>2. CASE ev.op = "put"
    <3>1. s \in Rows /\ (r # NoRow => s # NoRow /\ r.at <= s.at)
      BY <1>2, <1>3, <1>6, <2>2 DEF NotOlder
    <3> QED BY <2>1, <3>1, StillNotAfter
  <2>3. CASE ev.op = "del"
    <3>1. CASE r # NoRow /\ E[i].at <= r.at
      <4>1. r.at <= ev.at
        BY <2>3, <3>1 DEF WebFits, NotOlder
      <4>2. F[i].at <= F[n].at
        BY <1>1, <1>2, <1>3, <2>1, <3>1, <4>1
      <4> QED BY <1>1, <2>1, <2>3, <4>2 DEF NotAfter
    <3>2. CASE Excused(E, i)
      BY <3>2, StillExcused DEF NotAfter
    <3>3. CASE E[i].ent \in Position /\ \E k \in DOMAIN E : E[k].op = "del" /\ E[i].at <= E[k].at
      BY <1>1, <2>1, <3>3 DEF NotAfter
    <3> QED BY <2>1, <3>1, <3>2, <3>3 DEF NotAfter
  <2> QED BY <1>2, <2>2, <2>3
<1>8. NotAfter(F, s, n)
  <2>1. CASE ev.op = "del"
    BY <1>1, <1>2, <2>1 DEF NotAfter
  <2>2. CASE ev.op = "put" /\ NotOlder(ev, r)
    BY <1>1, <1>2, <1>6, <2>2 DEF NotAfter
  <2>3. CASE ev.op = "put" /\ ~NotOlder(ev, r)
    <3>1. r # NoRow /\ ev.at <= r.at /\ s = r
      BY <1>2, <1>3, <1>6, <2>3 DEF NotOlder
    <3> QED BY <1>1, <3>1 DEF NotAfter
  <2> QED BY <1>2, <2>1, <2>2, <2>3
<1>9. Leaves(F, {}, s)
  <2>1. n \in DOMAIN F /\ F[n] = ev /\ \A j \in DOMAIN F : j <= n
    BY <1>1
  <2>2. CASE RowOf(ev, s)
    BY <2>1, <2>2 DEF Leaves
  <2>3. CASE ~RowOf(ev, s)
    <3>1. ev.op = "put" /\ r # NoRow /\ ~(r.at <= ev.at)
      BY <1>2, <1>6, <2>3 DEF RowOf, NotOlder
    <3>2. SUFFICES ASSUME InTime(F) PROVE FALSE
      BY DEF Leaves
    <3>3. InTime(E) /\ \A i \in DOMAIN E : E[i].at <= ev.at
      BY <1>1, <2>1, <3>2 DEF InTime
    <3>4. PICK i \in DOMAIN E : RowOf(E[i], r)
      BY <3>1, <3>3 DEF View, Leaves
    <3>5. r = E[i]
      BY <3>1, <3>4 DEF RowOf
    <3> QED BY <3>1, <3>3, <3>5
  <2> QED BY <2>2, <2>3
<1> QED BY <1>1, <1>4, <1>5, <1>7, <1>8, <1>9 DEF View, s

-----------------------------------------------------------------------------
(* What a step does not touch *)

\* The entries of entity e are the same.
SameOf(e) ==
  /\ \A i \in DOMAIN log : log[i].ev.ent = e => i \in DOMAIN log' /\ log'[i] = log[i]
  /\ \A i \in DOMAIN log' : log'[i].ev.ent = e => i \in DOMAIN log /\ log'[i] = log[i]

\* The entries of tab t are the same.
SameBy(t) ==
  /\ \A i \in DOMAIN log : log[i].tab = t => i \in DOMAIN log' /\ log'[i] = log[i]
  /\ \A i \in DOMAIN log' : log'[i].tab = t => i \in DOMAIN log /\ log'[i] = log[i]

LEMMA SameEvents ==
  ASSUME NEW e, SameOf(e)
  PROVE  KeptOf(e)' = KeptOf(e) /\ \A t : SeenOf(t, e)' = SeenOf(t, e)
<1>1. {j \in DOMAIN log' : log'[j].state = "kept" /\ log'[j].ev.ent = e}
        = {j \in DOMAIN log : log[j].state = "kept" /\ log[j].ev.ent = e}
  BY DEF SameOf
<1>2. \A t : {j \in Seen(t)' : log'[j].ev.ent = e} = {j \in Seen(t) : log[j].ev.ent = e}
  BY DEF SameOf, Seen
<1>3. \A i \in DOMAIN log : log[i].ev.ent = e => log'[i].ev = log[i].ev
  BY DEF SameOf
<1>4. KeptOf(e)' = KeptOf(e)
  BY <1>1, <1>3 DEF KeptOf
<1>5. ASSUME NEW t PROVE SeenOf(t, e)' = SeenOf(t, e)
  <2>1. \A i \in {j \in Seen(t) : log[j].ev.ent = e} : i \in DOMAIN log
    BY DEF Seen
  <2> QED BY <1>2, <1>3, <2>1 DEF SeenOf
<1> QED BY <1>4, <1>5

LEMMA SameLog == ASSUME UNCHANGED log PROVE \A e : SameOf(e) /\ SameBy(e)
BY DEF SameOf, SameBy

\* A push that is left alone, and so is what it is at work on.
LEMMA PushingStays ==
  ASSUME NEW t \in Tab, Pushing(t), tx'[t] = tx[t], raced \subseteq raced', SameBy(t),
         \A e \in Entity \ raced' : At(t, e) => SameOf(e) /\ row'[e] = row[e]
  PROVE  Pushing(t)' /\ \A e \in Entity : At(t, e)' <=> At(t, e)
<1>1. \A e \in DOMAIN tx'[t].rows : \E i \in DOMAIN log' : Opened(t, i)' /\ log'[i].ev.ent = e
  BY DEF Pushing, Opened, SameBy
<1>2. tx'[t].phase = "persist" => \E i \in DOMAIN log' : Opened(t, i)' /\ log'[i].ev = Head(tx'[t].todo)
  BY DEF Pushing, Opened, SameBy
<1>3. \A e \in Entity : At(t, e)' <=> At(t, e)
  BY DEF At, Running, SameBy
<1>4. ASSUME NEW e \in Entity \ raced', At(t, e) PROVE Accurate(t, e)'
  <2>1. Accurate(t, e)
    BY <1>4 DEF Pushing
  <2>2. SeenOf(t, e)' = SeenOf(t, e) /\ RowSeen(t, e)' = RowSeen(t, e) /\ Unwritten(t)' = Unwritten(t)
    BY <1>4, SameEvents DEF RowSeen, Unwritten
  <2> QED BY <2>1, <2>2 DEF Accurate, View, Ordered, ReadOnly, NotAfter, Excused, Leaves, InTime, RowOf, Fits, NotOlder
<1> QED BY <1>1, <1>2, <1>3, <1>4 DEF Pushing

\* Of what nobody touches the row is still what the log leaves.
LEMMA KeptViewStays ==
  ASSUME NEW e, View(KeptOf(e), {}, row[e]), KeptOf(e)' = KeptOf(e), row'[e] = row[e]
  PROVE  View(KeptOf(e), {}, row[e])'
BY DEF View, Ordered, ReadOnly, NotAfter, Excused, Leaves, InTime, RowOf

LEMMA WebFitsStays ==
  ASSUME NEW e, WebFits(KeptOf(e), web, row[e]), KeptOf(e)' = KeptOf(e), row'[e] = row[e], UNCHANGED web
  PROVE  WebFits(KeptOf(e), web, row[e])'
BY DEF WebFits, NotOlder

\* A step of the push of tab t touches only what it is at work on.
LEMMA PushOrder ==
  ASSUME OrderInv, NEW t \in Tab, UNCHANGED <<web, raced>>,
         \A u \in Tab \ {t} : tx'[u] = tx[u] /\ SameBy(u),
         \A e \in Entity : At(t, e)' => At(t, e),
         \A e \in Entity \ raced : ~At(t, e) => SameOf(e) /\ row'[e] = row[e],
         Pushing(t)',
         \A e \in Entity \ raced : At(t, e) => View(KeptOf(e), {}, row[e])'
  PROVE  OrderInv'
<1>1. ASSUME NEW u \in Tab \ {t} PROVE Pushing(u)' /\ \A e \in Entity : At(u, e)' <=> At(u, e)
  <2>1. Pushing(u) /\ SameBy(u) /\ tx'[u] = tx[u] /\ raced \subseteq raced'
    BY DEF OrderInv
  <2>2. \A e \in Entity \ raced' : At(u, e) => ~At(t, e)
    BY DEF OrderInv, Alone
  <2>3. \A e \in Entity \ raced' : At(u, e) => SameOf(e) /\ row'[e] = row[e]
    BY <2>2
  <2> QED BY <2>1, <2>3, PushingStays
<1>2. \A e \in Entity : WebAt(e)' <=> WebAt(e)
  BY DEF WebAt
<1>3. ASSUME NEW e \in Entity \ raced PROVE Alone(e)'
  <2>1. Alone(e)
    BY DEF OrderInv
  <2>2. \A u \in Tab : At(u, e)' => At(u, e)
    BY <1>1
  <2> QED BY <1>2, <2>1, <2>2 DEF Alone
<1>4. ASSUME NEW e \in Entity \ raced PROVE View(KeptOf(e), {}, row[e])'
  <2>1. CASE At(t, e)
    BY <2>1
  <2>2. CASE ~At(t, e)
    <3>1. View(KeptOf(e), {}, row[e]) /\ KeptOf(e)' = KeptOf(e) /\ row'[e] = row[e]
      BY <2>2, SameEvents DEF OrderInv
    <3> QED BY <3>1, KeptViewStays
  <2> QED BY <2>1, <2>2
<1>5. Hosting'
  <2>1. ASSUME NEW e \in Entity \ raced, WebAt(e) PROVE WebFits(KeptOf(e), web, row[e])'
    <3>1. ~At(t, e) /\ WebFits(KeptOf(e), web, row[e])
      BY <2>1 DEF OrderInv, Alone, Hosting
    <3>2. KeptOf(e)' = KeptOf(e) /\ row'[e] = row[e]
      BY <3>1, SameEvents
    <3> QED BY <3>1, <3>2, WebFitsStays
  <2> QED BY <1>2, <2>1 DEF Hosting, OrderInv
<1> QED BY <1>1, <1>3, <1>4, <1>5 DEF OrderInv

-----------------------------------------------------------------------------
(* The log grows *)

LEMMA TypedEntries ==
  ASSUME Server PROVE \A e : Entries(KeptOf(e), e) /\ \A t : Entries(SeenOf(t, e), e)
<1>1. DOMAIN log \subseteq Nat /\ \A i \in DOMAIN log : log[i].ev \in Event
  BY LogTyped DEF Entry
<1> QED BY <1>1 DEF Entries, KeptOf, SeenOf, Seen

LEMMA LogGrows ==
  ASSUME Server, NEW ev \in Event, NEW s, NEW u, Logs(ev, s, u)
  PROVE  /\ \A e : e # ev.ent => SameOf(e)
         /\ \A t : t # u => SameBy(t)
         /\ s = "kept" => \E n : Follows(KeptOf(ev.ent)', KeptOf(ev.ent), ev, n)
         /\ s = "open" => /\ \A e : KeptOf(e)' = KeptOf(e)
                          /\ \E n : /\ Follows(SeenOf(u, ev.ent)', SeenOf(u, ev.ent), ev, n)
                                    /\ n \in DOMAIN log' /\ log'[n].state = "open"
                                    /\ log'[n].tab = u /\ log'[n].ev = ev
         /\ \A i \in DOMAIN log : i \in DOMAIN log' /\ log'[i] = log[i]
<1> DEFINE x == [ev |-> ev, state |-> s, tab |-> u]
           n == Len(log) + 1
<1>1. x.ev = ev /\ x.state = s /\ x.tab = u /\ log' = Append(log, x)
  BY DEF Logs
<1> HIDE DEF x
<1>2. DOMAIN log = 1..Len(log) /\ Len(log) \in Nat
  BY LogTyped
<1>3. IsLog(log)
  BY DEF Server, IsLog
<1>4. /\ DOMAIN Append(log, x) = 1..n
      /\ \A i \in 1..Len(log) : Append(log, x)[i] = log[i]
      /\ Append(log, x)[n] = x
  BY <1>3, LogAppend
<1>5. /\ n \in Nat /\ n \notin DOMAIN log /\ DOMAIN log' = DOMAIN log \cup {n} /\ log'[n] = x
      /\ \A i \in DOMAIN log : i \in DOMAIN log' /\ log'[i] = log[i] /\ i < n
  BY <1>1, <1>2, <1>4
<1> HIDE DEF n
<1>6. \A e : e # ev.ent => SameOf(e)
  BY <1>1, <1>5 DEF SameOf
<1>7. \A t : t # u => SameBy(t)
  BY <1>1, <1>5 DEF SameBy
<1>8. ASSUME s = "kept" PROVE Follows(KeptOf(ev.ent)', KeptOf(ev.ent), ev, n)
  <2> DEFINE K == {j \in DOMAIN log : log[j].state = "kept" /\ log[j].ev.ent = ev.ent}
             L == {j \in DOMAIN log' : log'[j].state = "kept" /\ log'[j].ev.ent = ev.ent}
  <2>1. L = K \cup {n} /\ K \subseteq DOMAIN log
    BY <1>1, <1>5, <1>8
  <2>2. KeptOf(ev.ent) = [i \in K |-> log[i].ev] /\ KeptOf(ev.ent)' = [i \in L |-> log'[i].ev]
    BY DEF KeptOf
  <2> HIDE DEF K, L
  <2> QED BY <1>1, <1>5, <2>1, <2>2 DEF Follows
<1>9. ASSUME s = "open"
      PROVE  (\A e : KeptOf(e)' = KeptOf(e)) /\ Follows(SeenOf(u, ev.ent)', SeenOf(u, ev.ent), ev, n)
  <2>1. ASSUME NEW e PROVE KeptOf(e)' = KeptOf(e)
    <3> DEFINE K == {j \in DOMAIN log : log[j].state = "kept" /\ log[j].ev.ent = e}
               L == {j \in DOMAIN log' : log'[j].state = "kept" /\ log'[j].ev.ent = e}
    <3>1. L = K /\ K \subseteq DOMAIN log
      BY <1>1, <1>5, <1>9
    <3>2. KeptOf(e) = [i \in K |-> log[i].ev] /\ KeptOf(e)' = [i \in L |-> log'[i].ev]
      BY DEF KeptOf
    <3> HIDE DEF K, L
    <3> QED BY <1>5, <3>1, <3>2
  <2>2. Follows(SeenOf(u, ev.ent)', SeenOf(u, ev.ent), ev, n)
    <3> DEFINE K == {j \in Seen(u) : log[j].ev.ent = ev.ent}
               L == {j \in Seen(u)' : log'[j].ev.ent = ev.ent}
    <3>1. L = K \cup {n} /\ K \subseteq DOMAIN log
      BY <1>1, <1>5, <1>9 DEF Seen
    <3>2. SeenOf(u, ev.ent) = [i \in K |-> log[i].ev] /\ SeenOf(u, ev.ent)' = [i \in L |-> log'[i].ev]
      BY DEF SeenOf
    <3> HIDE DEF K, L
    <3> QED BY <1>1, <1>5, <3>1, <3>2 DEF Follows
  <2> QED BY <2>1, <2>2
<1>10. n \in DOMAIN log' /\ log'[n].state = s /\ log'[n].tab = u /\ log'[n].ev = ev
  BY <1>1, <1>5
<1> QED BY <1>5, <1>6, <1>7, <1>8, <1>9, <1>10

\* A transaction ends: what it saw is kept, or what was kept before.
LEMMA LogEnds ==
  ASSUME Server, NEW t \in Tab, NEW s \in {"kept", "gone"}, log' = Resolved(t, s)
  PROVE  /\ \A u \in Tab : u # t => SameBy(u)
         /\ \A e : (\A i \in DOMAIN log : Opened(t, i) => log[i].ev.ent # e) => SameOf(e)
         /\ \A i \in DOMAIN log' : ~Opened(t, i)'
         /\ \A e : KeptOf(e)' = IF s = "kept" THEN SeenOf(t, e) ELSE KeptOf(e)
<1>1. /\ DOMAIN log' = DOMAIN log
      /\ \A i \in DOMAIN log : log'[i] = IF log[i].state = "open" /\ log[i].tab = t
                                         THEN [log[i] EXCEPT !.state = s] ELSE log[i]
  BY DEF Resolved
<1>2. ASSUME NEW i \in DOMAIN log
      PROVE  /\ log'[i].ev = log[i].ev /\ log'[i].tab = log[i].tab
             /\ log'[i].state = IF log[i].state = "open" /\ log[i].tab = t THEN s ELSE log[i].state
             /\ ~Opened(t, i) => log'[i] = log[i]
  <2> DEFINE y == [log[i] EXCEPT !.state = s]
  <2>1. log[i] \in Entry
    BY LogTyped
  <2>2. y.ev = log[i].ev /\ y.state = s /\ y.tab = log[i].tab
    BY <2>1 DEF Entry
  <2> HIDE DEF y
  <2>3. log'[i] = IF log[i].state = "open" /\ log[i].tab = t THEN y ELSE log[i]
    BY <1>1 DEF y
  <2> QED BY <2>2, <2>3 DEF Opened
<1>3. \A u \in Tab : u # t => SameBy(u)
  BY <1>1, <1>2 DEF SameBy, Opened
<1>4. \A e : (\A i \in DOMAIN log : Opened(t, i) => log[i].ev.ent # e) => SameOf(e)
  BY <1>1, <1>2 DEF SameOf
<1>5. \A i \in DOMAIN log' : ~Opened(t, i)'
  BY <1>1, <1>2 DEF Opened
<1>6. ASSUME NEW e PROVE KeptOf(e)' = IF s = "kept" THEN SeenOf(t, e) ELSE KeptOf(e)
  <2> DEFINE K == {j \in DOMAIN log : log[j].state = "kept" /\ log[j].ev.ent = e}
             M == {j \in Seen(t) : log[j].ev.ent = e}
             L == {j \in DOMAIN log' : log'[j].state = "kept" /\ log'[j].ev.ent = e}
  <2>1. /\ L = IF s = "kept" THEN M ELSE K
        /\ K \subseteq DOMAIN log /\ M \subseteq DOMAIN log
    BY <1>1, <1>2 DEF Seen
  <2>2. /\ KeptOf(e) = [i \in K |-> log[i].ev] /\ KeptOf(e)' = [i \in L |-> log'[i].ev]
        /\ SeenOf(t, e) = [i \in M |-> log[i].ev]
    BY DEF KeptOf, SeenOf
  <2> HIDE DEF K, L, M
  <2> QED BY <1>2, <2>1, <2>2
<1> QED BY <1>3, <1>4, <1>5, <1>6

-----------------------------------------------------------------------------
(* The steps of a push *)

LEMMA AcceptsFits ==
  ASSUME NEW t, NEW ev, Accepts(t, ev) PROVE Fits(SeenOf(t, ev.ent), ev, RowSeen(t, ev.ent))
BY SyncAssumption DEF Accepts, AcceptsNote, AcceptsPosition, Fits, SeenOf

\* An event of another entity is not among these.
LEMMA FewerUnwritten ==
  ASSUME NEW E, NEW e, Entries(E, e), NEW ev, ev.ent # e, NEW r, View(E, {}, r) PROVE View(E, {ev}, r)
BY DEF View, Leaves, Entries

LEMMA OtherUnwritten ==
  ASSUME NEW E, NEW e, Entries(E, e), NEW ev, ev.ent # e, NEW r, View(E, {ev}, r) PROVE View(E, {}, r)
BY DEF View, Leaves, Entries

\* A transaction that handles an event is at work on its entity.
LEMMA AtHead ==
  ASSUME Pushes, NEW t \in Tab, tx[t].phase \in {"check", "replay", "insert", "persist"}
  PROVE  /\ Head(tx[t].todo) \in Event /\ At(t, Head(tx[t].todo).ent)
         /\ \A e : (\E k \in DOMAIN Tail(tx[t].todo) : Tail(tx[t].todo)[k].ent = e) => At(t, e)
<1> DEFINE s == tx[t].todo
<1>1. s \in Seq(Event) /\ s # <<>> /\ Head(s) \in Event
  BY NextEvent DEF Pushes
<1> HIDE DEF s
<1>2. /\ Len(s) \in Nat /\ DOMAIN s = 1..Len(s) /\ Head(s) = s[1] /\ Len(s) # 0
      /\ DOMAIN Tail(s) = 1..Len(Tail(s)) /\ Len(Tail(s)) = Len(s) - 1
      /\ \A k \in 1..Len(Tail(s)) : Tail(s)[k] = s[k + 1]
  BY <1>1, HeadTailProperties, LenProperties, EmptySeq
<1>3. 1 \in DOMAIN s
  BY <1>2
<1>4. \A k \in DOMAIN Tail(s) : k + 1 \in DOMAIN s /\ Tail(s)[k] = s[k + 1]
  BY <1>2
<1>5. Running(t)
  BY DEF Running
<1> QED BY <1>1, <1>2, <1>3, <1>4, <1>5 DEF At, s

\* A step that changes its own picture only.
LEMMA OwnStep ==
  ASSUME OrderInv, NEW t \in Tab, UNCHANGED <<web, raced, row, log>>,
         \A u \in Tab \ {t} : tx'[u] = tx[u],
         \A e \in Entity : At(t, e)' => At(t, e),
         \A e \in DOMAIN tx'[t].rows : \E i \in DOMAIN log : Opened(t, i) /\ log[i].ev.ent = e,
         tx'[t].phase # "persist",
         \A e \in Entity \ raced : At(t, e) =>
           /\ View(SeenOf(t, e), {}, RowSeen(t, e)')
           /\ tx'[t].phase = "insert" /\ Head(tx'[t].todo).ent = e =>
                Fits(SeenOf(t, e), Head(tx'[t].todo), RowSeen(t, e)')
  PROVE  OrderInv'
<1>1. \A e : SameOf(e) /\ SameBy(e)
  BY SameLog
<1>2. ASSUME NEW e \in Entity \ raced, At(t, e) PROVE Accurate(t, e)'
  <2>1. Unwritten(t)' = {} /\ SeenOf(t, e)' = SeenOf(t, e)
    BY <1>1, SameEvents DEF Unwritten
  <2> QED BY <1>2, <2>1 DEF Accurate, View, Ordered, ReadOnly, NotAfter, Excused, Leaves, InTime, RowOf, Fits, NotOlder
<1>3. \A e \in DOMAIN tx'[t].rows : \E i \in DOMAIN log' : Opened(t, i)' /\ log'[i].ev.ent = e
  BY DEF Opened
<1>4. Pushing(t)'
  BY <1>2, <1>3 DEF Pushing
<1>5. ASSUME NEW e \in Entity \ raced PROVE View(KeptOf(e), {}, row[e])'
  BY <1>1, SameEvents, KeptViewStays DEF OrderInv
<1> QED BY <1>1, <1>4, <1>5, PushOrder

LEMMA CheckOrder ==
  ASSUME OrderInv, Pushes, NEW t \in Tab, Check(t), UNCHANGED raced PROVE OrderInv'
<1> DEFINE ev == Head(tx[t].todo)
           p == IF Accepts(t, ev) THEN "insert" ELSE "replay"
           x == [tx[t] EXCEPT !.phase = p]
<1>1. /\ tx[t].phase = "check" /\ UNCHANGED <<row, log, web>> /\ tx' = [tx EXCEPT ![t] = x]
      /\ DOMAIN tx = Tab
  BY DEF Check, Set, Pushes
<1>2. x.phase = p /\ x.todo = tx[t].todo /\ x.rows = tx[t].rows
  BY TxUpdates DEF Pushes, TxWired
<1> HIDE DEF x
<1>3. tx'[t] = x /\ \A u \in Tab \ {t} : tx'[u] = tx[u]
  BY <1>1
<1>4. \A e \in Entity : At(t, e)' => At(t, e)
  BY <1>1, <1>2, <1>3 DEF At, Running
<1>5. \A e \in DOMAIN tx'[t].rows : \E i \in DOMAIN log : Opened(t, i) /\ log[i].ev.ent = e
  BY <1>2, <1>3 DEF OrderInv, Pushing
<1>6. ASSUME NEW e \in Entity \ raced, At(t, e)
      PROVE  /\ View(SeenOf(t, e), {}, RowSeen(t, e)')
             /\ tx'[t].phase = "insert" /\ Head(tx'[t].todo).ent = e =>
                  Fits(SeenOf(t, e), Head(tx'[t].todo), RowSeen(t, e)')
  <2>1. RowSeen(t, e)' = RowSeen(t, e) /\ Unwritten(t) = {}
    BY <1>1, <1>2, <1>3 DEF RowSeen, Unwritten
  <2>2. View(SeenOf(t, e), {}, RowSeen(t, e))
    BY <1>6, <2>1 DEF OrderInv, Pushing, Accurate
  <2>3. p = "insert" /\ ev.ent = e => Fits(SeenOf(t, e), ev, RowSeen(t, e))
    BY AcceptsFits
  <2> QED BY <1>2, <1>3, <2>1, <2>2, <2>3
<1>7. tx'[t].phase # "persist"
  BY <1>2, <1>3
<1> QED BY <1>1, <1>3, <1>4, <1>5, <1>6, <1>7, OwnStep

\* An event that needs nothing more.
LEMMA SkipOrder ==
  ASSUME OrderInv, Pushes, NEW t \in Tab, tx[t].phase \in {"replay", "insert"}, UNCHANGED <<row, log, web, raced>>,
         NEW x, x.todo = Tail(tx[t].todo), x.rows = tx[t].rows, x.phase \in {"commit", "check"},
         tx' = [tx EXCEPT ![t] = x]
  PROVE  OrderInv'
<1>1. tx'[t] = x /\ \A u \in Tab \ {t} : tx'[u] = tx[u]
  BY DEF Pushes
<1>2. \A e \in Entity : At(t, e)' => At(t, e)
  <2>1. Running(t) /\ tx[t].phase \in {"check", "replay", "insert", "persist"}
    BY DEF Running
  <2>2. SUFFICES ASSUME NEW e \in Entity, At(t, e)' PROVE At(t, e)
    OBVIOUS
  <2>3. \/ \E k \in DOMAIN Tail(tx[t].todo) : Tail(tx[t].todo)[k].ent = e
        \/ \E i \in DOMAIN log : log[i].state = "open" /\ log[i].tab = t /\ log[i].ev.ent = e
    BY <1>1, <2>2 DEF At
  <2> QED BY <2>1, <2>3, AtHead DEF At
<1>3. \A e \in DOMAIN tx'[t].rows : \E i \in DOMAIN log : Opened(t, i) /\ log[i].ev.ent = e
  BY <1>1 DEF OrderInv, Pushing
<1>4. ASSUME NEW e \in Entity \ raced, At(t, e)
      PROVE  View(SeenOf(t, e), {}, RowSeen(t, e)')
  <2>1. RowSeen(t, e)' = RowSeen(t, e) /\ Unwritten(t) = {}
    BY <1>1 DEF RowSeen, Unwritten
  <2> QED BY <1>4, <2>1 DEF OrderInv, Pushing, Accurate
<1>5. tx'[t].phase \notin {"insert", "persist"}
  BY <1>1
<1> QED BY <1>1, <1>2, <1>3, <1>4, <1>5, OwnStep

LEMMA ReplayOrder ==
  ASSUME OrderInv, Pushes, NEW t \in Tab, Replay(t), UNCHANGED raced PROVE OrderInv'
<1> DEFINE ev == Head(tx[t].todo)
           B == IF Logged(t, ev) THEN tx[t].bad ELSE tx[t].bad \cup {ev}
           y == [tx[t] EXCEPT !.bad = B]
           x == Handled(y)
<1>1. DOMAIN tx[t] = TxFields
  BY DEF Pushes, TxWired
<1>2. /\ tx[t].phase = "replay" /\ UNCHANGED <<row, log, web>> /\ tx' = [tx EXCEPT ![t] = x]
  BY DEF Replay, Set
<1>3. DOMAIN y = TxFields /\ y.todo = tx[t].todo /\ y.rows = tx[t].rows
  BY <1>1, TxUpdates
<1> HIDE DEF y
<1>4. x.todo = Tail(tx[t].todo) /\ x.rows = tx[t].rows /\ x.phase \in {"commit", "check"}
  BY <1>3, HandledFields
<1> HIDE DEF x
<1> QED BY <1>2, <1>4, SkipOrder

LEMMA InsertOrder ==
  ASSUME OrderInv, Pushes, Server, NEW t \in Tab, Insert(t), UNCHANGED raced PROVE OrderInv'
<1>0. PICK ev \in Event : ev = Head(tx[t].todo) /\ At(t, ev.ent)
  BY AtHead DEF Insert
<1> DEFINE y == [tx[t] EXCEPT !.writer = TRUE]
<1>1. DOMAIN tx[t] = TxFields /\ DOMAIN tx = Tab
  BY DEF Pushes, TxWired
<1>2. /\ tx[t].phase = "insert" /\ UNCHANGED <<row, web>>
      /\ IF Logged(t, ev) THEN tx' = [tx EXCEPT ![t] = Handled(y)] /\ UNCHANGED log
         ELSE tx' = [tx EXCEPT ![t] = [y EXCEPT !.phase = "persist"]] /\ Logs(ev, "open", t)
  BY <1>0 DEF Insert, Set
<1>3. DOMAIN y = TxFields /\ y.todo = tx[t].todo /\ y.rows = tx[t].rows
  BY <1>1, TxUpdates
<1> HIDE DEF y
<1>4. CASE Logged(t, ev)
  <2> DEFINE x == Handled(y)
  <2>1. x.todo = Tail(tx[t].todo) /\ x.rows = tx[t].rows /\ x.phase \in {"commit", "check"}
    BY <1>3, HandledFields
  <2>2. tx' = [tx EXCEPT ![t] = x] /\ UNCHANGED log
    BY <1>2, <1>4
  <2> HIDE DEF x
  <2> QED BY <1>2, <2>1, <2>2, SkipOrder
<1>5. CASE ~Logged(t, ev)
  <2> DEFINE x == [y EXCEPT !.phase = "persist"]
  <2>1. x.todo = tx[t].todo /\ x.rows = tx[t].rows /\ x.phase = "persist"
    BY <1>3, TxUpdates
  <2>2. tx' = [tx EXCEPT ![t] = x] /\ Logs(ev, "open", t)
    BY <1>2, <1>5
  <2> HIDE DEF x
  <2>3. tx'[t] = x /\ \A u \in Tab \ {t} : tx'[u] = tx[u]
    BY <1>1, <2>2
  <2>4. ev \in Event /\ At(t, ev.ent) /\ ev.ent \in Entity
    BY <1>0, EventTimes
  <2>5. /\ \A e : e # ev.ent => SameOf(e)
        /\ \A u : u # t => SameBy(u)
        /\ \A e : KeptOf(e)' = KeptOf(e)
        /\ \A i \in DOMAIN log : i \in DOMAIN log' /\ log'[i] = log[i]
    BY <2>2, <2>4, LogGrows
  <2>6. PICK n : /\ Follows(SeenOf(t, ev.ent)', SeenOf(t, ev.ent), ev, n)
                 /\ n \in DOMAIN log' /\ log'[n].state = "open" /\ log'[n].tab = t /\ log'[n].ev = ev
    BY <2>2, <2>4, LogGrows
  <2>7. \A e \in Entity : At(t, e)' => At(t, e)
    <3>1. Running(t)
      BY <1>2 DEF Running
    <3>2. ASSUME NEW e \in Entity, e # ev.ent, At(t, e)' PROVE At(t, e)
      BY <2>1, <2>3, <2>5, <3>1, <3>2 DEF At, SameOf
    <3> QED BY <2>4, <3>2
  <2>8. ASSUME NEW e \in Entity \ raced, At(t, e) PROVE Accurate(t, e)'
    <3>1. RowSeen(t, e)' = RowSeen(t, e) /\ Unwritten(t) = {} /\ Unwritten(t)' = {ev} /\ RowSeen(t, e) \in Rows
      BY <1>0, <1>2, <2>1, <2>3, RowTyped DEF RowSeen, Unwritten
    <3>2. View(SeenOf(t, e), {}, RowSeen(t, e)) /\ (ev.ent = e => Fits(SeenOf(t, e), ev, RowSeen(t, e)))
      <4>1. Accurate(t, e)
        BY <2>8 DEF OrderInv, Pushing
      <4>2. View(SeenOf(t, e), {}, RowSeen(t, e))
        BY <3>1, <4>1 DEF Accurate
      <4>3. ev.ent = e => Fits(SeenOf(t, e), ev, RowSeen(t, e))
        BY <1>0, <1>2, <4>1 DEF Accurate
      <4> QED BY <4>2, <4>3
    <3>3. CASE e # ev.ent
      <4>1. SeenOf(t, e)' = SeenOf(t, e)
        BY <2>5, <3>3, SameEvents
      <4>2. View(SeenOf(t, e), {ev}, RowSeen(t, e))
        BY <3>2, <3>3, TypedEntries, FewerUnwritten
      <4> QED BY <1>0, <2>1, <2>3, <3>1, <3>3, <4>1, <4>2
              DEF Accurate, View, Ordered, ReadOnly, NotAfter, Excused, Leaves, InTime, RowOf, Fits, NotOlder
    <3>4. CASE e = ev.ent
      <4> DEFINE E == SeenOf(t, e)
      <4>1. Entries(E, e) /\ \A k \in DOMAIN E : E[k] # ev
        <5>1. \A k \in DOMAIN E : E[k] # ev
          BY <1>5 DEF SeenOf, Logged
        <5> QED BY <5>1, TypedEntries
      <4>2. PICK F : F = SeenOf(t, e)'
        OBVIOUS
      <4>3. Follows(F, E, ev, n)
        BY <2>6, <3>4, <4>2
      <4>4. View(E, {}, RowSeen(t, e)) /\ Fits(E, ev, RowSeen(t, e))
        BY <3>2, <3>4
      <4> HIDE DEF E
      <4>5. View(F, {ev}, RowSeen(t, e)) /\ Fits(F, ev, RowSeen(t, e))
        BY <2>4, <3>1, <3>4, <4>1, <4>3, <4>4, ViewLogged
      <4> QED BY <1>0, <2>1, <2>3, <3>1, <4>2, <4>5
              DEF Accurate, View, Ordered, ReadOnly, NotAfter, Excused, Leaves, InTime, RowOf, Fits, NotOlder
    <3> QED BY <3>3, <3>4
  <2>9. Pushing(t)'
    <3>1. \A e \in DOMAIN tx'[t].rows : \E i \in DOMAIN log' : Opened(t, i)' /\ log'[i].ev.ent = e
      BY <2>1, <2>3, <2>5 DEF OrderInv, Pushing, Opened
    <3>2. \E i \in DOMAIN log' : Opened(t, i)' /\ log'[i].ev = Head(tx'[t].todo)
      BY <1>0, <2>1, <2>3, <2>6 DEF Opened
    <3>3. \A e \in Entity \ raced' : At(t, e)' => Accurate(t, e)'
      BY <2>7, <2>8
    <3> QED BY <3>1, <3>2, <3>3 DEF Pushing
  <2>10. \A e \in Entity \ raced : View(KeptOf(e), {}, row[e])'
    BY <1>2, <2>5, KeptViewStays DEF OrderInv
  <2> QED BY <1>2, <2>3, <2>4, <2>5, <2>7, <2>9, <2>10, PushOrder
<1> QED BY <1>4, <1>5

LEMMA PersistOrder ==
  ASSUME OrderInv, Pushes, Server, NEW t \in Tab, Persist(t), UNCHANGED raced PROVE OrderInv'
<1>0. PICK ev \in Event : ev = Head(tx[t].todo) /\ At(t, ev.ent)
  BY AtHead DEF Persist
<1>1. PICK r \in Rows : r = RowSeen(t, ev.ent)
  BY <1>0, EventTimes, RowTyped
<1> DEFINE R == [e \in DOMAIN tx[t].rows \cup {ev.ent} |-> IF e = ev.ent THEN Persisted(ev, r) ELSE tx[t].rows[e]]
           y == [tx[t] EXCEPT !.rows = R]
           z == IF ev.op = "del" /\ r = NoRow THEN tx[t] ELSE y
           x == Handled(z)
<1>2. DOMAIN tx[t] = TxFields /\ DOMAIN tx = Tab
  BY DEF Pushes, TxWired
<1>3. tx[t].phase = "persist" /\ UNCHANGED <<row, log, web>> /\ tx' = [tx EXCEPT ![t] = x]
  BY <1>0, <1>1 DEF Persist, Set
<1>4. DOMAIN y = TxFields /\ y.todo = tx[t].todo /\ y.rows = R
  BY <1>2, TxUpdates
<1> HIDE DEF y
<1>5. /\ DOMAIN z = TxFields /\ z.todo = tx[t].todo
      /\ z.rows = IF ev.op = "del" /\ r = NoRow THEN tx[t].rows ELSE R
  BY <1>2, <1>4
<1> HIDE DEF z
<1>6. /\ x.todo = Tail(tx[t].todo) /\ x.phase \in {"commit", "check"}
      /\ x.rows = IF ev.op = "del" /\ r = NoRow THEN tx[t].rows ELSE R
  BY <1>5, HandledFields
<1> HIDE DEF x
<1>7. tx'[t] = x /\ \A u \in Tab \ {t} : tx'[u] = tx[u]
  BY <1>2, <1>3
<1>8. \A e \in Entity : At(t, e)' => At(t, e)
  <2>1. Running(t) /\ tx[t].phase \in {"check", "replay", "insert", "persist"}
    BY <1>3 DEF Running
  <2>2. SUFFICES ASSUME NEW e \in Entity, At(t, e)' PROVE At(t, e)
    OBVIOUS
  <2>3. \/ \E k \in DOMAIN Tail(tx[t].todo) : Tail(tx[t].todo)[k].ent = e
        \/ \E i \in DOMAIN log : log[i].state = "open" /\ log[i].tab = t /\ log[i].ev.ent = e
    <3>1. tx'[t].todo = Tail(tx[t].todo) /\ UNCHANGED log
      BY <1>3, <1>6, <1>7
    <3> QED BY <2>2, <3>1 DEF At
  <2> QED BY <2>1, <2>3, AtHead DEF At
<1>9. \A e \in DOMAIN tx'[t].rows : \E i \in DOMAIN log : Opened(t, i) /\ log[i].ev.ent = e
  <2>1. \E i \in DOMAIN log : Opened(t, i) /\ log[i].ev.ent = ev.ent
    BY <1>0, <1>3 DEF OrderInv, Pushing
  <2>2. \A e \in DOMAIN tx[t].rows : \E i \in DOMAIN log : Opened(t, i) /\ log[i].ev.ent = e
    BY DEF OrderInv, Pushing
  <2>3. DOMAIN x.rows \subseteq DOMAIN tx[t].rows \cup {ev.ent}
    BY <1>6
  <2> QED BY <1>7, <2>1, <2>2, <2>3
<1>10. \A e : RowSeen(t, e)' = IF e = ev.ent THEN AfterPersist(ev, r) ELSE RowSeen(t, e)
  <2>1. CASE ev.op = "del" /\ r = NoRow
    BY <1>1, <1>3, <1>6, <1>7, <2>1 DEF RowSeen, AfterPersist
  <2>2. CASE ~(ev.op = "del" /\ r = NoRow)
    BY <1>1, <1>3, <1>6, <1>7, <2>2 DEF RowSeen, AfterPersist
  <2> QED BY <2>1, <2>2
<1>11. ASSUME NEW e \in Entity \ raced, At(t, e)
       PROVE  View(SeenOf(t, e), {}, RowSeen(t, e)')
  <2> DEFINE E == SeenOf(t, e)
  <2>1. Accurate(t, e) /\ Entries(E, e)
    BY <1>11, TypedEntries DEF OrderInv, Pushing
  <2>2. View(E, {ev}, RowSeen(t, e))
    BY <1>0, <1>3, <2>1 DEF Accurate, Unwritten
  <2>3. CASE e # ev.ent
    <3>1. View(E, {}, RowSeen(t, e))
      <4> HIDE DEF E
      <4> QED BY <2>1, <2>2, <2>3, OtherUnwritten
    <3> QED BY <1>10, <2>3, <3>1
  <2>4. CASE e = ev.ent
    <3>1. Fits(E, ev, r)
      BY <1>0, <1>1, <1>3, <2>1, <2>4 DEF Accurate
    <3>2. \E k \in DOMAIN E : E[k] = ev
      <4>1. PICK k \in DOMAIN log : Opened(t, k) /\ log[k].ev = ev
        BY <1>0, <1>3 DEF OrderInv, Pushing
      <4> QED BY <2>4, <4>1 DEF SeenOf, Seen, Opened
    <3>3. View(E, {ev}, r)
      BY <1>1, <2>2, <2>4
    <3> HIDE DEF E
    <3>4. View(E, {}, AfterPersist(ev, r))
      BY <2>1, <2>4, <3>1, <3>2, <3>3, ViewPersisted
    <3> QED BY <1>10, <2>4, <3>4 DEF E
  <2> QED BY <2>3, <2>4
<1>12. tx'[t].phase \notin {"insert", "persist"}
  BY <1>6, <1>7
<1> QED BY <1>3, <1>7, <1>8, <1>9, <1>11, <1>12, OwnStep

\* A transaction that ends, one way or the other.
LEMMA EndOrder ==
  ASSUME OrderInv, Pushes, Server, NEW t \in Tab, Running(t), NEW s \in {"kept", "gone"}, log' = Resolved(t, s),
         NEW x, tx' = [tx EXCEPT ![t] = x], x.phase \in {"answered", "failed", "none"}, DOMAIN x.rows = {},
         UNCHANGED <<web, raced>>,
         s = "gone" => UNCHANGED row,
         s = "kept" => tx[t].phase = "commit" /\ row' = [e \in Entity |-> RowSeen(t, e)]
  PROVE  OrderInv'
<1>1. tx'[t] = x /\ \A u \in Tab \ {t} : tx'[u] = tx[u]
  BY DEF Pushes
<1>2. /\ \A u \in Tab : u # t => SameBy(u)
      /\ \A e : (\A i \in DOMAIN log : Opened(t, i) => log[i].ev.ent # e) => SameOf(e)
      /\ \A e : KeptOf(e)' = IF s = "kept" THEN SeenOf(t, e) ELSE KeptOf(e)
  BY LogEnds
<1>3. \A e : ~At(t, e)'
  BY <1>1 DEF At, Running
<1>4. ASSUME NEW e \in Entity \ raced, ~At(t, e) PROVE SameOf(e) /\ row'[e] = row[e]
  <2>1. \A i \in DOMAIN log : Opened(t, i) => log[i].ev.ent # e
    BY <1>4 DEF At, Opened
  <2>2. e \notin DOMAIN tx[t].rows
    BY <2>1 DEF OrderInv, Pushing
  <2> QED BY <1>2, <2>1, <2>2 DEF RowSeen
<1>5. Pushing(t)'
  BY <1>1, <1>3 DEF Pushing
<1>6. ASSUME NEW e \in Entity \ raced, At(t, e) PROVE View(KeptOf(e), {}, row[e])'
  <2>1. CASE s = "kept"
    <3>1. View(SeenOf(t, e), {}, RowSeen(t, e))
      BY <1>6, <2>1 DEF OrderInv, Pushing, Accurate, Unwritten
    <3>2. KeptOf(e)' = SeenOf(t, e) /\ row'[e] = RowSeen(t, e)
      BY <1>2, <2>1
    <3> QED BY <3>1, <3>2 DEF View, Ordered, ReadOnly, NotAfter, Excused, Leaves, InTime, RowOf
  <2>2. CASE s = "gone"
    BY <1>2, <2>2, KeptViewStays DEF OrderInv
  <2> QED BY <2>1, <2>2
<1> QED BY <1>1, <1>2, <1>3, <1>4, <1>5, <1>6, PushOrder

LEMMA AnswerRests ==
  ASSUME NEW t, NEW p \in {"answered", "failed"}
  PROVE  Answer(t, p).phase \in {"answered", "failed", "none"} /\ DOMAIN Answer(t, p).rows = {}
BY DEF Answer, NoTx

LEMMA CommitOrder ==
  ASSUME OrderInv, Pushes, Server, NEW t \in Tab, Commit(t), UNCHANGED raced PROVE OrderInv'
<1> DEFINE x == Answer(t, "answered")
<1>1. /\ tx[t].phase = "commit" /\ row' = [e \in Entity |-> RowSeen(t, e)]
      /\ log' = Resolved(t, "kept") /\ tx' = [tx EXCEPT ![t] = x] /\ web' = web
  BY DEF Commit, Set
<1>2. x.phase \in {"answered", "failed", "none"} /\ DOMAIN x.rows = {} /\ Running(t)
  BY <1>1, AnswerRests DEF Running
<1> HIDE DEF x
<1> QED BY <1>1, <1>2, EndOrder

LEMMA AbortOrder ==
  ASSUME OrderInv, Pushes, Server, NEW t \in Tab, Abort(t), UNCHANGED raced PROVE OrderInv'
<1> DEFINE x == Answer(t, "failed")
<1>1. Running(t) /\ log' = Resolved(t, "gone") /\ tx' = [tx EXCEPT ![t] = x] /\ UNCHANGED <<row, web>>
  BY DEF Abort, Set
<1>2. x.phase \in {"answered", "failed", "none"} /\ DOMAIN x.rows = {}
  BY AnswerRests
<1> HIDE DEF x
<1> QED BY <1>1, <1>2, EndOrder

-----------------------------------------------------------------------------
(* The requests of hosted clients and the steps of the devices *)

\* The pushes are left alone but for some that have ended.
LEMMA RestOrder ==
  ASSUME OrderInv, UNCHANGED <<row, log, web, raced>>,
         \A t \in Tab : tx'[t] = tx[t] \/ (tx'[t].phase \in {"none", "answered", "failed"} /\ DOMAIN tx'[t].rows = {})
  PROVE  OrderInv'
<1>1. \A e : SameOf(e) /\ SameBy(e)
  BY SameLog
<1>2. \A e : KeptOf(e)' = KeptOf(e)
  BY <1>1, SameEvents
<1>3. ASSUME NEW t \in Tab PROVE Pushing(t)' /\ \A e \in Entity : At(t, e)' => At(t, e)
  <2>1. CASE tx'[t] = tx[t]
    <3>1. Pushing(t)
      BY DEF OrderInv
    <3> QED BY <1>1, <2>1, <3>1, PushingStays
  <2>2. CASE tx'[t].phase \in {"none", "answered", "failed"} /\ DOMAIN tx'[t].rows = {}
    <3>1. \A e : ~At(t, e)'
      BY <2>2 DEF At, Running
    <3> QED BY <2>2, <3>1 DEF Pushing
  <2> QED BY <2>1, <2>2
<1>4. ASSUME NEW e \in Entity \ raced PROVE View(KeptOf(e), {}, row[e])' /\ Alone(e)'
  <2>1. View(KeptOf(e), {}, row[e])'
    BY <1>2, KeptViewStays DEF OrderInv
  <2>2. WebAt(e)' <=> WebAt(e)
    BY DEF WebAt
  <2>3. Alone(e)
    BY DEF OrderInv
  <2>4. Alone(e)'
    BY <1>3, <2>2, <2>3 DEF Alone
  <2> QED BY <2>1, <2>4
<1>5. Hosting'
  <2>1. ASSUME NEW e \in Entity \ raced, WebAt(e) PROVE WebFits(KeptOf(e), web, row[e])'
    <3>1. WebFits(KeptOf(e), web, row[e])
      BY <2>1 DEF OrderInv, Hosting
    <3> QED BY <1>2, <3>1, WebFitsStays
  <2>2. \A e : WebAt(e)' <=> WebAt(e)
    BY DEF WebAt
  <2> QED BY <2>1, <2>2 DEF Hosting, OrderInv
<1> QED BY <1>3, <1>4, <1>5 DEF OrderInv

\* What a push sees before it has begun.
LEMMA SeesKept ==
  ASSUME TypeInv, NEW t \in Tab, ~Running(t) PROVE \A e : SeenOf(t, e) = KeptOf(e) /\ ~At(t, e)
<1>1. \A i \in DOMAIN log : log[i].state = "open" => log[i].tab # t
  BY DEF TypeInv, FeedInv, OpenIsWritten, WriterRuns
<1>2. Seen(t) = {i \in DOMAIN log : log[i].state = "kept"}
  BY <1>1 DEF Seen
<1> QED BY <1>2 DEF SeenOf, KeptOf, At

LEMMA SendOrder ==
  ASSUME OrderInv, DeliveryInv, NEW t \in Tab, Send(t) PROVE OrderInv'
<1> DEFINE x == [NoTx EXCEPT !.phase = "check", !.todo = Batch(t)]
           S == {Items(t)[i].ev.ent : i \in flow[t].items}
<1>1. /\ flow[t].pc = "send" /\ tx[t].phase = "none" /\ tx' = [tx EXCEPT ![t] = x]
      /\ raced' = raced \cup Overlap(t, S) /\ UNCHANGED <<row, log, web>>
  BY DEF Send, Set
<1>2. x.phase = "check" /\ x.todo = Batch(t) /\ DOMAIN x.rows = {}
  BY DEF NoTx
<1> HIDE DEF x
<1>3. tx'[t] = x /\ \A u \in Tab \ {t} : tx'[u] = tx[u]
  BY <1>1 DEF DeliveryInv, TypeInv, Pushes
<1>4. \A e : SeenOf(t, e) = KeptOf(e) /\ ~At(t, e)
  <2>1. ~Running(t)
    BY <1>1 DEF Running
  <2> QED BY <2>1, SeesKept DEF DeliveryInv
<1>5. \A e : SameOf(e) /\ SameBy(e) /\ KeptOf(e)' = KeptOf(e) /\ SeenOf(t, e)' = SeenOf(t, e)
  BY <1>1, SameLog, SameEvents
<1>6. \A e \in Entity : At(t, e)' => e \in S
  <2>1. \A k \in DOMAIN Batch(t) : Batch(t)[k].ent \in S
    BY <1>1, BatchTyped
  <2>2. SUFFICES ASSUME NEW e \in Entity, At(t, e)' PROVE e \in S
    OBVIOUS
  <2>3. \A i \in DOMAIN log : log[i].state = "open" => log[i].tab # t
    BY <1>1 DEF DeliveryInv, TypeInv, FeedInv, OpenIsWritten, WriterRuns, Running
  <2>4. \E k \in DOMAIN Batch(t) : Batch(t)[k].ent = e
    BY <1>1, <1>2, <1>3, <2>2, <2>3 DEF At
  <2> QED BY <2>1, <2>4
<1>7. ASSUME NEW u \in Tab \ {t} PROVE Pushing(u)' /\ \A e \in Entity : At(u, e)' <=> At(u, e)
  <2>1. Pushing(u) /\ tx'[u] = tx[u] /\ raced \subseteq raced'
    BY <1>1, <1>3 DEF OrderInv
  <2> QED BY <1>1, <1>5, <2>1, PushingStays
<1>8. \A e \in Entity \ raced' : e \in S => ~WebAt(e) /\ \A u \in Tab \ {t} : ~At(u, e)
  BY <1>1 DEF Overlap, WebAt
<1>9. \A e : WebAt(e)' <=> WebAt(e)
  BY <1>1 DEF WebAt
<1>10. ASSUME NEW e \in Entity \ raced' PROVE View(KeptOf(e), {}, row[e])' /\ Alone(e)'
  <2>1. e \in Entity \ raced
    BY <1>1
  <2>2. View(KeptOf(e), {}, row[e])'
    BY <1>1, <1>5, <2>1, KeptViewStays DEF OrderInv
  <2>3. Alone(e)
    BY <2>1 DEF OrderInv
  <2>4. Alone(e)'
    BY <1>4, <1>6, <1>7, <1>8, <1>9, <2>3 DEF Alone
  <2> QED BY <2>2, <2>4
<1>11. ASSUME NEW e \in Entity \ raced' PROVE Accurate(t, e)'
  <2>1. View(KeptOf(e), {}, row[e])
    BY <1>1 DEF OrderInv
  <2>2. SeenOf(t, e)' = KeptOf(e) /\ RowSeen(t, e)' = row[e] /\ Unwritten(t)' = {}
    BY <1>1, <1>2, <1>3, <1>4, <1>5 DEF RowSeen, Unwritten
  <2>3. tx'[t].phase = "check"
    BY <1>2, <1>3
  <2> QED BY <2>1, <2>2, <2>3 DEF Accurate, View, Ordered, ReadOnly, NotAfter, Excused, Leaves, InTime, RowOf
<1>12. Pushing(t)'
  BY <1>2, <1>3, <1>11 DEF Pushing
<1>13. Hosting'
  <2>1. ASSUME NEW e \in Entity \ raced', WebAt(e) PROVE WebFits(KeptOf(e), web, row[e])'
    <3>1. WebFits(KeptOf(e), web, row[e])
      BY <1>1, <2>1 DEF OrderInv, Hosting
    <3> QED BY <1>1, <1>5, <3>1, WebFitsStays
  <2> QED BY <1>1, <1>9, <2>1 DEF Hosting, OrderInv
<1> QED BY <1>7, <1>10, <1>12, <1>13 DEF OrderInv

LEMMA HostedNoteOrder ==
  ASSUME OrderInv, DeliveryInv, NEW e \in Entity, NEW op \in {"put", "del"}, HostedNote(e, op) PROVE OrderInv'
<1>1. PICK made \in 1..now + 1 :
        LET ev == WebEdited(e, op, made)
        IN /\ e \in Note /\ \A t \in Tab : ~Running(t)
           /\ IF op = "put" THEN NotOlder(ev, row[e]) ELSE Live(row[e])
           /\ row' = [row EXCEPT ![e] = ev] /\ Logs(ev, "kept", NoRow)
           /\ UNCHANGED <<tx, web, raced>>
  BY Zenon DEF HostedNote
<1>2. PICK ev \in Event : ev = WebEdited(e, op, made) /\ ev.ent = e /\ ev.by = Web /\ ev.op = op
  <2>1. WebEdited(e, op, made) \in Event
    BY WebEvent DEF DeliveryInv, TypeInv
  <2>2. WebEdited(e, op, made).ent = e /\ WebEdited(e, op, made).by = Web /\ WebEdited(e, op, made).op = op
    BY DEF WebEdited, Edited
  <2> QED BY <2>1, <2>2
<1>3. /\ e \in Note /\ \A t \in Tab : ~Running(t)
      /\ IF ev.op = "put" THEN NotOlder(ev, row[e]) ELSE Live(row[e])
      /\ row' = [row EXCEPT ![e] = ev] /\ Logs(ev, "kept", NoRow)
      /\ UNCHANGED <<tx, web, raced>>
  BY <1>1, <1>2
<1>4. Server /\ NoRow \notin Tab
  BY SyncAssumption DEF DeliveryInv, TypeInv
<1>5. /\ \A a : a # e => SameOf(a)
      /\ \A t \in Tab : SameBy(t)
      /\ \E n : Follows(KeptOf(e)', KeptOf(e), ev, n)
  BY <1>2, <1>3, <1>4, LogGrows
<1>6. \A a \in Entity : a # e => row'[a] = row[a]
  BY <1>3, <1>4 DEF Server
<1>7. row'[e] = ev /\ row[e] \in Rows
  BY <1>3, <1>4 DEF Server
<1>8. ASSUME NEW t \in Tab PROVE Pushing(t)' /\ \A a \in Entity : At(t, a)' <=> At(t, a)
  <2>1. Pushing(t) /\ tx'[t] = tx[t] /\ SameBy(t) /\ raced \subseteq raced'
    BY <1>3, <1>5 DEF OrderInv
  <2>2. \A a \in Entity : ~At(t, a)
    BY <1>3 DEF At
  <2> QED BY <2>1, <2>2, PushingStays
<1>9. \A a : WebAt(a)' <=> WebAt(a)
  BY <1>3 DEF WebAt
<1>10. ASSUME NEW a \in Entity \ raced PROVE View(KeptOf(a), {}, row[a])' /\ Alone(a)'
  <2>1. View(KeptOf(a), {}, row[a]) /\ Alone(a)
    BY DEF OrderInv
  <2>2. CASE a # e
    <3>1. KeptOf(a)' = KeptOf(a) /\ row'[a] = row[a]
      BY <1>5, <1>6, <2>2, SameEvents
    <3>2. View(KeptOf(a), {}, row[a])'
      BY <2>1, <3>1, KeptViewStays
    <3> QED BY <1>8, <1>9, <2>1, <3>2 DEF Alone
  <2>3. CASE a = e
    <3>1. PICK F : F = KeptOf(e)'
      OBVIOUS
    <3> DEFINE E == KeptOf(e)
    <3>2. Entries(E, e) /\ View(E, {}, row[e]) /\ \E n : Follows(F, E, ev, n)
      BY <1>4, <1>5, <2>1, <2>3, <3>1, TypedEntries
    <3> HIDE DEF E
    <3>3. View(F, {}, ev)
      BY <1>2, <1>3, <1>7, <3>2, ViewHostedNote
    <3>4. View(KeptOf(e), {}, row[e])'
      BY <1>7, <3>1, <3>3 DEF View, Ordered, ReadOnly, NotAfter, Excused, Leaves, InTime, RowOf
    <3> QED BY <1>8, <1>9, <2>1, <2>3, <3>4 DEF Alone
  <2> QED BY <2>2, <2>3
<1>11. Hosting'
  <2>1. ASSUME NEW a \in Entity \ raced, WebAt(a) PROVE WebFits(KeptOf(a), web, row[a])'
    <3>1. WebFits(KeptOf(a), web, row[a]) /\ a # e
      BY <1>3, <2>1, SyncAssumption DEF OrderInv, Hosting, WebAt
    <3>2. KeptOf(a)' = KeptOf(a) /\ row'[a] = row[a]
      BY <1>5, <1>6, <3>1, SameEvents
    <3> QED BY <1>3, <3>1, <3>2, WebFitsStays
  <2> QED BY <1>3, <1>9, <2>1 DEF Hosting, OrderInv
<1> QED BY <1>3, <1>8, <1>10, <1>11 DEF OrderInv

LEMMA HostedPositionOrder ==
  ASSUME OrderInv, DeliveryInv, NEW e \in Entity, NEW op \in {"put", "del"}, HostedPosition(e, op) PROVE OrderInv'
<1> DEFINE Deletions == {i \in DOMAIN log : log[i].state = "kept" /\ log[i].ev.ent = e /\ log[i].ev.op = "del"}
<1>1. PICK made \in 1..now + 1 :
        LET ev == WebEdited(e, op, made)
        IN /\ e \in Position /\ web = NoRow
           /\ IF op = "put" THEN \A i \in Deletions : log[i].ev.at < ev.at
              ELSE NotOlder(ev, row[e]) /\ \A i \in Deletions : log[i].ev.at <= ev.at
           /\ web' = ev /\ raced' = raced \cup Overlap(NoRow, {e})
           /\ UNCHANGED <<row, log, tx>>
  BY Zenon DEF HostedPosition
<1>2. PICK ev \in Event : ev = WebEdited(e, op, made) /\ ev.ent = e /\ ev.by = Web /\ ev.op = op
  <2>1. WebEdited(e, op, made) \in Event
    BY WebEvent DEF DeliveryInv, TypeInv
  <2>2. WebEdited(e, op, made).ent = e /\ WebEdited(e, op, made).by = Web /\ WebEdited(e, op, made).op = op
    BY DEF WebEdited, Edited
  <2> QED BY <2>1, <2>2
<1>3. /\ e \in Position /\ web = NoRow
      /\ IF ev.op = "put" THEN \A i \in Deletions : log[i].ev.at < ev.at
         ELSE NotOlder(ev, row[e]) /\ \A i \in Deletions : log[i].ev.at <= ev.at
      /\ web' = ev /\ raced' = raced \cup Overlap(NoRow, {e})
      /\ UNCHANGED <<row, log, tx>>
  BY <1>1, <1>2
<1>4. WebFits(KeptOf(e), ev, row[e])
  <2>1. \A i \in DOMAIN KeptOf(e) : KeptOf(e)[i].op = "del" => i \in Deletions /\ KeptOf(e)[i] = log[i].ev
    BY DEF KeptOf
  <2> HIDE DEF Deletions
  <2> QED BY <1>3, <2>1 DEF WebFits
<1> HIDE DEF Deletions
<1>5. \A a : SameOf(a) /\ SameBy(a) /\ KeptOf(a)' = KeptOf(a)
  BY <1>3, SameLog, SameEvents
<1>6. ASSUME NEW t \in Tab PROVE Pushing(t)' /\ \A a \in Entity : At(t, a)' <=> At(t, a)
  <2>1. Pushing(t) /\ tx'[t] = tx[t] /\ raced \subseteq raced'
    BY <1>3 DEF OrderInv
  <2> QED BY <1>3, <1>5, <2>1, PushingStays
<1>7. ev # NoRow
  BY SyncAssumption
<1>8. \A a : WebAt(a)' <=> a = e
  BY <1>2, <1>3, <1>7 DEF WebAt
<1>9. e \notin raced' => \A t \in Tab : ~At(t, e)
  BY <1>3, SyncAssumption DEF Overlap
<1>10. ASSUME NEW a \in Entity \ raced' PROVE View(KeptOf(a), {}, row[a])' /\ Alone(a)'
  <2>1. a \in Entity \ raced
    BY <1>3
  <2>2. View(KeptOf(a), {}, row[a])'
    BY <1>3, <1>5, <2>1, KeptViewStays DEF OrderInv
  <2>3. Alone(a)
    BY <2>1 DEF OrderInv
  <2>4. Alone(a)'
    BY <1>6, <1>8, <1>9, <2>3 DEF Alone
  <2> QED BY <2>2, <2>4
<1>11. Hosting'
  <2>1. WebFits(KeptOf(e), web, row[e])'
    BY <1>3, <1>4, <1>5 DEF WebFits, NotOlder
  <2> QED BY <1>2, <1>3, <1>8, <2>1 DEF Hosting
<1> QED BY <1>6, <1>10, <1>11 DEF OrderInv

LEMMA HostedWritesOrder == ASSUME OrderInv, DeliveryInv, HostedWrites PROVE OrderInv'
<1>1. Server /\ NoRow \notin Tab
  BY SyncAssumption DEF DeliveryInv, TypeInv
<1>2. PICK ev \in Event : ev = web /\ ev.by = Web /\ ev.ent \in Position
  BY <1>1 DEF HostedWrites, Server, Rows, OrderInv, Hosting
<1>3. PICK e \in Entity : e = ev.ent
  BY EventTimes
<1>4. PICK r \in Rows : r = row[e]
  BY <1>1 DEF Server
<1>5. /\ web' = NoRow /\ row' = [row EXCEPT ![e] = Persisted(ev, r)] /\ UNCHANGED <<tx, raced>>
      /\ \/ Logs(ev, "kept", NoRow)
         \/ ev.op = "put" /\ ~NotOlder(ev, r) /\ UNCHANGED log
  BY <1>2, <1>3, <1>4 DEF HostedWrites
<1>6. row'[e] = Persisted(ev, r) /\ \A a \in Entity : a # e => row'[a] = row[a]
  BY <1>1, <1>5 DEF Server
<1>7. WebAt(e) /\ \A a : ~WebAt(a)'
  BY <1>2, <1>3, <1>5, SyncAssumption DEF WebAt
<1>8. /\ \A a : a # e => SameOf(a)
      /\ \A t \in Tab : SameBy(t)
  <2>1. CASE Logs(ev, "kept", NoRow)
    BY <1>1, <1>3, <2>1, LogGrows
  <2>2. CASE UNCHANGED log
    BY <2>2, SameLog
  <2> QED BY <1>5, <2>1, <2>2
<1>9. ASSUME NEW t \in Tab PROVE Pushing(t)' /\ \A a \in Entity \ raced : At(t, a)' => At(t, a)
  <2>1. Pushing(t) /\ tx'[t] = tx[t] /\ raced \subseteq raced'
    BY <1>5 DEF OrderInv
  <2>2. \A a \in Entity \ raced' : At(t, a) => a # e
    BY <1>5, <1>7 DEF OrderInv, Alone
  <2>3. \A a \in Entity \ raced' : At(t, a) => SameOf(a) /\ row'[a] = row[a]
    BY <1>6, <1>8, <2>2
  <2> QED BY <1>8, <2>1, <2>3, PushingStays
<1>10. ASSUME NEW a \in Entity \ raced PROVE View(KeptOf(a), {}, row[a])' /\ Alone(a)'
  <2>1. View(KeptOf(a), {}, row[a]) /\ Alone(a)
    BY DEF OrderInv
  <2>2. Alone(a)'
    BY <1>7, <1>9, <2>1 DEF Alone
  <2>3. CASE a # e
    <3>1. KeptOf(a)' = KeptOf(a) /\ row'[a] = row[a]
      BY <1>6, <1>8, <2>3, SameEvents
    <3> QED BY <2>1, <2>2, <3>1, KeptViewStays
  <2>4. CASE a = e /\ Logs(ev, "kept", NoRow)
    <3>1. PICK F : F = KeptOf(e)'
      OBVIOUS
    <3> DEFINE E == KeptOf(e)
    <3>2. WebFits(E, ev, r)
      BY <1>2, <1>4, <1>7, <2>4 DEF OrderInv, Hosting
    <3>3. Entries(E, e) /\ View(E, {}, r)
      BY <1>1, <1>4, <2>1, <2>4, TypedEntries
    <3>4. \E n : Follows(F, E, ev, n)
      BY <1>1, <1>3, <2>4, <3>1, LogGrows
    <3> HIDE DEF E
    <3>5. View(F, {}, Persisted(ev, r))
      BY <1>2, <1>3, <3>2, <3>3, <3>4, ViewHostedPosition
    <3>6. View(KeptOf(e), {}, row[e])'
      BY <1>6, <3>1, <3>5 DEF View, Ordered, ReadOnly, NotAfter, Excused, Leaves, InTime, RowOf
    <3> QED BY <2>2, <2>4, <3>6
  <2>5. CASE a = e /\ ev.op = "put" /\ ~NotOlder(ev, r) /\ UNCHANGED log
    <3>1. Persisted(ev, r) = r
      BY <1>2, <2>5, SyncAssumption DEF Persisted, PersistedPosition
    <3>2. KeptOf(e)' = KeptOf(e)
      BY <2>5, SameLog, SameEvents
    <3>3. View(KeptOf(e), {}, row[e]) /\ row'[e] = row[e]
      BY <1>4, <1>6, <2>1, <2>5, <3>1
    <3>4. View(KeptOf(e), {}, row[e])'
      BY <3>2, <3>3, KeptViewStays
    <3> QED BY <2>2, <2>5, <3>4
  <2> QED BY <1>5, <2>3, <2>4, <2>5
<1>11. Hosting'
  BY <1>5, <1>7 DEF Hosting
<1> QED BY <1>5, <1>9, <1>10, <1>11 DEF OrderInv

-----------------------------------------------------------------------------
(* Every step *)

LEMMA PushStepOrder ==
  ASSUME OrderInv, DeliveryInv, NEW t \in Tab, PushStep(t) \/ PushAborts(t) PROVE OrderInv'
<1>1. Pushes /\ Server /\ UNCHANGED raced
  BY DEF DeliveryInv, TypeInv, PushStep, PushAborts
<1>2. CASE PushStep(t)
  BY <1>1, <1>2, CheckOrder, ReplayOrder, InsertOrder, PersistOrder, CommitOrder DEF PushStep
<1>3. CASE PushAborts(t)
  BY <1>1, <1>3, AbortOrder DEF PushAborts
<1> QED BY <1>2, <1>3

LEMMA NoTxRests == NoTx.phase = "none" /\ DOMAIN NoTx.rows = {}
BY DEF NoTx

\* A tab forgets a push that has ended.
LEMMA ForgetsOrder ==
  ASSUME OrderInv, DeliveryInv, NEW t \in Tab, UNCHANGED <<row, log, web, raced>>,
         NEW x, x = tx[t] \/ x = NoTx, tx' = [tx EXCEPT ![t] = x]
  PROVE  OrderInv'
<1>1. DOMAIN tx = Tab
  BY DEF DeliveryInv, TypeInv, Pushes
<1>2. \A u \in Tab : tx'[u] = tx[u] \/ (tx'[u].phase \in {"none", "answered", "failed"} /\ DOMAIN tx'[u].rows = {})
  BY <1>1, NoTxRests
<1> QED BY <1>2, RestOrder

LEMMA PushFailedOrder ==
  ASSUME OrderInv, DeliveryInv, NEW t \in Tab, PushFailed(t) PROVE OrderInv'
<1> DEFINE x == IF Running(t) THEN tx[t] ELSE NoTx
<1>1. tx' = [tx EXCEPT ![t] = x] /\ UNCHANGED <<row, log, web, raced>>
  BY DEF PushFailed
<1>2. x = tx[t] \/ x = NoTx
  OBVIOUS
<1> HIDE DEF x
<1> QED BY <1>1, <1>2, ForgetsOrder

LEMMA TabDiesOrder ==
  ASSUME OrderInv, DeliveryInv, NEW t \in Tab, TabDies(t) PROVE OrderInv'
<1> DEFINE x == IF Running(t) THEN tx[t] ELSE NoTx
<1>1. tx' = [tx EXCEPT ![t] = x] /\ UNCHANGED <<row, log, web, raced>>
  BY DEF TabDies
<1>2. x = tx[t] \/ x = NoTx
  OBVIOUS
<1> HIDE DEF x
<1> QED BY <1>1, <1>2, ForgetsOrder

LEMMA SettleOrder ==
  ASSUME OrderInv, DeliveryInv, NEW t \in Tab, Settle(t) PROVE OrderInv'
<1>1. tx' = [tx EXCEPT ![t] = NoTx] /\ UNCHANGED <<row, log, web, raced>>
  BY DEF Settle, Set
<1> QED BY <1>1, ForgetsOrder

\* What happens on a device alone.
LEMMA DeviceOrder ==
  ASSUME OrderInv, UNCHANGED <<serverVars, raced>> PROVE OrderInv'
BY RestOrder DEF serverVars

LEMMA FlowStepOrder ==
  ASSUME OrderInv, DeliveryInv, NEW t \in Tab, FlowStep(t) PROVE OrderInv'
<1>1. CASE Recover(t) \/ List(t) \/ Compact(t) \/ Claim(t) \/ Pull(t) \/ Snapshot(t) \/ Mark(t)
  <2>1. UNCHANGED <<serverVars, raced>>
    BY <1>1 DEF Recover, List, Compact, Claim, Pull, Snapshot, Mark, Outside
  <2> QED BY <2>1, DeviceOrder
<1>2. CASE PullTimesOut(t) \/ Apply(t) \/ Save(t) \/ Finish(t)
  <2>1. UNCHANGED <<serverVars, raced>>
    BY <1>2 DEF PullTimesOut, PullFailed, Apply, Save, Finish
  <2> QED BY <2>1, DeviceOrder
<1>3. CASE Send(t)
  BY <1>3, SendOrder
<1>4. CASE Settle(t)
  BY <1>4, SettleOrder
<1>5. CASE PushRefused(t)
  BY <1>5, PushFailedOrder DEF PushRefused
<1> QED BY <1>1, <1>2, <1>3, <1>4, <1>5 DEF FlowStep

LEMMA UserOrder == ASSUME OrderInv, DeliveryInv, User PROVE OrderInv'
<1>1. ASSUME NEW t \in Tab, NEW e \in Entity, NEW op \in {"put", "del"}, Edit(t, e, op) PROVE OrderInv'
  <2>1. UNCHANGED <<serverVars, raced>>
    BY <1>1 DEF Edit
  <2> QED BY <2>1, DeviceOrder
<1>2. ASSUME NEW t \in Tab, SyncNow(t) \/ AcceptRemote(t) \/ Open(t) PROVE OrderInv'
  <2>1. UNCHANGED <<serverVars, raced>>
    BY <1>2 DEF SyncNow, AcceptRemote, Started, Open
  <2> QED BY <2>1, DeviceOrder
<1>3. ASSUME NEW t \in Tab, NEW i, Discard(t, i) PROVE OrderInv'
  <2>1. UNCHANGED <<serverVars, raced>>
    BY <1>3 DEF Discard
  <2> QED BY <2>1, DeviceOrder
<1> QED BY <1>1, <1>2, <1>3, HostedNoteOrder, HostedPositionOrder DEF User

LEMMA OrderNext == ASSUME OrderInv, DeliveryInv, [Next]_vars PROVE OrderInv'
<1>1. CASE User
  BY <1>1, UserOrder
<1>2. ASSUME NEW t \in Tab, TabDies(t) \/ PushLost(t) \/ PullLost(t) \/ PushAborts(t) PROVE OrderInv'
  <2>1. PullLost(t) => UNCHANGED <<serverVars, raced>>
    BY DEF PullLost, PullFailed
  <2> QED BY <1>2, <2>1, TabDiesOrder, PushFailedOrder, PushStepOrder, DeviceOrder DEF PushLost
<1>3. CASE HostedWrites
  BY <1>3, HostedWritesOrder
<1>4. ASSUME NEW t \in Tab, TimerFires(t) PROVE OrderInv'
  <2>1. UNCHANGED <<serverVars, raced>>
    BY <1>4 DEF TimerFires, Started
  <2> QED BY <2>1, DeviceOrder
<1>5. ASSUME NEW t \in Tab, FlowStep(t) \/ PushStep(t) PROVE OrderInv'
  BY <1>5, FlowStepOrder, PushStepOrder
<1>6. ASSUME NEW d \in Device, NEW i, LeaseExpires(d, i) PROVE OrderInv'
  <2>1. UNCHANGED <<serverVars, raced>>
    BY <1>6 DEF LeaseExpires
  <2> QED BY <2>1, DeviceOrder
<1>7. CASE UNCHANGED vars
  <2>1. UNCHANGED <<serverVars, raced>>
    BY <1>7 DEF vars
  <2> QED BY <2>1, DeviceOrder
<1> QED BY <1>1, <1>2, <1>3, <1>4, <1>5, <1>6, <1>7 DEF Next, Faults

LEMMA OrderInit == ASSUME Init PROVE OrderInv
<1>1. DOMAIN log = {}
  BY DEF Init
<1>2. \A e : DOMAIN KeptOf(e) = {}
  BY <1>1 DEF KeptOf
<1>3. \A t \in Tab, e \in Entity : ~At(t, e)
  BY NoTxRests DEF Init, At, Running
<1>4. \A t \in Tab : DOMAIN tx[t].rows = {} /\ tx[t].phase = "none"
  BY NoTxRests DEF Init
<1>5. web = NoRow
  BY DEF Init
<1>6. \A e \in Entity : View(KeptOf(e), {}, row[e])
  <2>1. \A e \in Entity : row[e] = NoRow
    BY DEF Init
  <2> QED BY <1>2, <2>1 DEF View, Ordered, Leaves
<1> QED BY <1>3, <1>4, <1>5, <1>6 DEF OrderInv, Alone, Pushing, Hosting, WebAt

LEMMA OrderedIsInOrder == ASSUME Server, OrderInv PROVE StaleNeverLoggedUnlessRaced
<1> SUFFICES ASSUME NEW i \in DOMAIN log, NEW j \in DOMAIN log, Follow(i, j),
                    log[i].ev.ent \notin raced, ~FoundNoRow(i), ~SetBack(i), ~ReadingOnly(i, j)
             PROVE  log[i].ev.at <= log[j].ev.at
  BY DEF StaleNeverLoggedUnlessRaced
<1> DEFINE e == log[i].ev.ent
           E == KeptOf(e)
<1>1. /\ i < j /\ log[i].state = "kept" /\ log[j].state = "kept" /\ log[j].ev.ent = e
  BY DEF Follow
<1>2. e \in Entity \ raced
  BY LogTyped DEF Entry, Event
<1>3. Ordered(E)
  BY <1>2 DEF OrderInv, View
<1>4. i \in DOMAIN E /\ j \in DOMAIN E /\ E[i] = log[i].ev /\ E[j] = log[j].ev
  BY <1>1 DEF KeptOf
<1>5. \A k \in DOMAIN E : k \in DOMAIN log /\ log[k].state = "kept" /\ log[k].ev.ent = e /\ E[k] = log[k].ev
  BY DEF KeptOf
<1>6. \A k \in DOMAIN log : Follow(k, i) \/ Follow(i, k) => k \in DOMAIN E
  BY DEF Follow, KeptOf
<1> HIDE DEF E
<1>7. ~Excused(E, i)
  <2> SUFFICES ASSUME Excused(E, i) PROVE FALSE
    OBVIOUS
  <2>1. CASE E[i].op = "del" /\ \A k \in DOMAIN E : k < i => E[k].op = "del"
    <3>1. FoundNoRow(i)
      BY <1>4, <1>5, <1>6, <2>1 DEF FoundNoRow, Excused, Follow
    <3> QED BY <3>1
  <2>2. ASSUME NEW k \in DOMAIN E, i < k, E[k].by = Web, E[k].op = "del", E[k].at < E[i].at PROVE FALSE
    <3>1. Follow(i, k) /\ k \in DOMAIN log
      BY <1>1, <1>5, <2>2 DEF Follow
    <3>2. SetBack(i)
      BY <1>4, <1>5, <2>2, <3>1 DEF SetBack, Excused
    <3> QED BY <3>2
  <2> QED BY <2>1, <2>2 DEF Excused
<1>8. ~ReadOnly(E, i, j)
  <2>1. \A k \in DOMAIN log : Follow(i, k) => i < k /\ k \in DOMAIN E /\ E[k] = log[k].ev
    BY <1>5, <1>6 DEF Follow
  <2> QED BY <1>4, <2>1 DEF ReadOnly, ReadingOnly
<1> QED BY <1>1, <1>3, <1>4, <1>7, <1>8 DEF Ordered

(***************************************************************************)
(* The log of an entity on which no two requests worked at once is in the  *)
(* order of time: neither a push nor a hosted client puts an event into it *)
(* that is older than one already there, unless the older one is a hosted  *)
(* position that only counts as read, or the newer one a note's deletion   *)
(* that found no row or what the hosted deletion of a note has set back.   *)
(***************************************************************************)
THEOREM StaleNeverLogged == Spec => []StaleNeverLoggedUnlessRaced
<1>1. Init => OrderInv
  BY OrderInit
<1>2. OrderInv /\ DeliveryInv /\ [Next]_vars => OrderInv'
  BY OrderNext
<1>3. DeliveryInv /\ OrderInv => StaleNeverLoggedUnlessRaced
  BY OrderedIsInOrder DEF DeliveryInv, TypeInv
<1> QED BY <1>1, <1>2, <1>3, DeliveryHolds, PTL DEF Spec

-----------------------------------------------------------------------------
(* The copies of the devices *)

\* What an event makes of a copy that is not newer.
SetTo(ev) == IF ev.op = "del" THEN Removed(ev) ELSE [row |-> ev, tomb |-> 0]

\* Nothing in copy c is later than b.
UpTo(c, b) == (c.row # NoRow => c.row.at <= b) /\ c.tomb <= b

\* The copy has a row or a tombstone, not both.
Whole(c) == c.row # NoRow => c.tomb = 0

LEMMA CopyFields ==
  ASSUME NEW c \in Copy
  PROVE  /\ c.row \in Rows /\ c.tomb \in Nat /\ c = [row |-> c.row, tomb |-> c.tomb]
         /\ c.row # NoRow => c.row \in Event /\ c.row.at \in Nat
BY DEF Copy, Rows, Event

LEMMA SetToFields ==
  ASSUME NEW ev \in Event
  PROVE  /\ SetTo(ev).row = IF ev.op = "del" THEN NoRow ELSE ev
         /\ SetTo(ev).tomb = IF ev.op = "del" THEN ev.at ELSE 0
         /\ Removed(ev).row = NoRow /\ Removed(ev).tomb = ev.at
         /\ ev.at \in Nat /\ ev.at > 0 /\ ev # NoRow /\ ev.ent \in Entity /\ ev.op \in {"put", "del"}
BY SyncAssumption DEF SetTo, Removed, Event

\* An event that is not older than the copy takes its place.
LEMMA AppliedLater ==
  ASSUME NEW c \in Copy, NEW ev \in Event, UpTo(c, ev.at) PROVE Applied(c, ev) = SetTo(ev)
<1>1. c.tomb \in Nat /\ ev.at \in Nat /\ (c.row # NoRow => c.row.at \in Nat)
  BY CopyFields, SetToFields
<1>2. NotOlder(ev, c.row) /\ ~(ev.at < c.tomb)
  BY <1>1 DEF UpTo, NotOlder
<1>3. ~Predates(ev, c)
  BY <1>2 DEF Predates
<1>4. AppliedNote(c, ev) = SetTo(ev) /\ AppliedPosition(c, ev) = SetTo(ev)
  BY <1>2, <1>3 DEF AppliedNote, AppliedPosition, SetTo
<1> QED BY <1>4 DEF Applied

\* What an event makes of a copy: the event, the copy, or its row alone.
LEMMA AppliedCases ==
  ASSUME NEW c \in Copy, NEW ev \in Event
  PROVE  \/ Applied(c, ev) = SetTo(ev) /\ NotOlder(ev, c.row)
         \/ /\ Applied(c, ev) = c
            /\ ~NotOlder(ev, c.row) \/ (ev.at < c.tomb /\ ~(ev.ent \in Note /\ ev.op = "del"))
         \/ Applied(c, ev) = [row |-> c.row, tomb |-> 0] /\ ~NotOlder(ev, c.row)
<1>1. c = [row |-> c.row, tomb |-> c.tomb]
  BY CopyFields
<1>2. CASE ev.ent \in Note
  BY <1>1, <1>2 DEF Applied, AppliedNote, SetTo
<1>3. CASE ev.ent \notin Note
  BY <1>3 DEF Applied, AppliedPosition, Predates, SetTo
<1> QED BY <1>2, <1>3

LEMMA AppliedUpTo ==
  ASSUME NEW c \in Copy, NEW ev \in Event, NEW b \in Nat, UpTo(c, b), ev.at <= b
  PROVE  UpTo(Applied(c, ev), b)
<1>1. UpTo(SetTo(ev), b)
  BY SetToFields DEF UpTo
<1>2. UpTo([row |-> c.row, tomb |-> 0], b)
  BY DEF UpTo
<1> QED BY <1>1, <1>2, AppliedCases

\* An event that did not take the place of the copy has found something later.
LEMMA AppliedOrLater ==
  ASSUME NEW c \in Copy, NEW ev \in Event, UpTo(Applied(c, ev), ev.at)
  PROVE  Applied(c, ev) = SetTo(ev)
<1>1. c.tomb \in Nat /\ ev.at \in Nat /\ (c.row # NoRow => c.row.at \in Nat)
  BY CopyFields, SetToFields
<1>2. ~NotOlder(ev, c.row) => c.row # NoRow /\ ~(c.row.at <= ev.at)
  BY DEF NotOlder
<1>3. CASE Applied(c, ev) = c
  BY <1>1, <1>2, <1>3, AppliedLater
<1>4. CASE Applied(c, ev) = [row |-> c.row, tomb |-> 0] /\ ~NotOlder(ev, c.row)
  BY <1>2, <1>4 DEF UpTo
<1> QED BY <1>3, <1>4, AppliedCases

LEMMA AppliedWhole ==
  ASSUME NEW c \in Copy, NEW ev \in Event, Whole(c)
  PROVE  /\ Whole(Applied(c, ev))
         /\ ev.ent \in Note /\ ev.op = "del" => Applied(c, ev).tomb <= ev.at
<1>1. c.tomb \in Nat /\ ev.at \in Nat
  BY CopyFields, SetToFields
<1>2. Whole(SetTo(ev)) /\ SetTo(ev).tomb <= ev.at
  BY SetToFields DEF Whole
<1>3. Whole([row |-> c.row, tomb |-> 0])
  BY DEF Whole
<1>4. CASE Applied(c, ev) = c
  <2>1. ~NotOlder(ev, c.row) => c.tomb = 0
    BY DEF NotOlder, Whole
  <2>2. UpTo(c, ev.at) => c.tomb <= ev.at
    BY DEF UpTo
  <2>3. ev.ent \in Note /\ ev.op = "del" /\ NotOlder(ev, c.row) => Applied(c, ev) = SetTo(ev)
    BY DEF Applied, AppliedNote, SetTo
  <2> QED BY <1>1, <1>2, <1>4, <2>1, <2>3
<1>5. CASE Applied(c, ev) = [row |-> c.row, tomb |-> 0]
  BY <1>1, <1>3, <1>5
<1>6. CASE Applied(c, ev) = SetTo(ev)
  BY <1>2, <1>6
<1> QED BY <1>4, <1>5, <1>6, AppliedCases

LEMMA AppliedTomb ==
  ASSUME NEW c \in Copy, NEW ev \in Event, NEW b \in Nat, c.tomb <= b, ev.at <= b
  PROVE  Applied(c, ev).tomb <= b
<1>1. SetTo(ev).tomb <= b
  BY SetToFields
<1>2. [row |-> c.row, tomb |-> 0].tomb <= b
  OBVIOUS
<1> QED BY <1>1, <1>2, AppliedCases

\* An event changes nothing in a copy that holds something later.
LEMMA AppliedEarlier ==
  ASSUME NEW c \in Copy, NEW ev \in Event, NEW b \in Nat, Whole(c), ~UpTo(c, b), ev.at <= b,
         ev.ent \in Note /\ ev.op = "del" => c.tomb <= b
  PROVE  Applied(c, ev) = c
<1>1. /\ c.tomb \in Nat /\ ev.at \in Nat /\ (c.row # NoRow => c.row.at \in Nat)
      /\ c = [row |-> c.row, tomb |-> c.tomb]
  BY CopyFields, SetToFields
<1>2. CASE c.row # NoRow
  <2>1. c.tomb = 0 /\ ~(c.row.at <= b)
    BY <1>1, <1>2 DEF Whole, UpTo
  <2>2. ~NotOlder(ev, c.row) /\ ~(c.row.at <= ev.at)
    BY <1>1, <1>2, <2>1 DEF NotOlder
  <2>3. c = [row |-> c.row, tomb |-> 0]
    BY <1>1, <2>1
  <2> QED BY <2>2, <2>3, AppliedCases
<1>3. CASE c.row = NoRow
  <2>1. ~(c.tomb <= b)
    BY <1>3 DEF UpTo
  <2>2. ev.at < c.tomb /\ ~(ev.ent \in Note /\ ev.op = "del")
    BY <1>1, <2>1
  <2>3. ev.op = "put" \/ ev.ent \notin Note
    BY <2>2, SetToFields
  <2>4. ev.op # "del" \/ ev.ent \notin Note
    BY <2>3
  <2> QED BY <2>2, <2>4 DEF Applied, AppliedNote, AppliedPosition, Predates
<1> QED BY <1>2, <1>3

\* f is what becomes of copy c, number by number up to n, as the events E are applied.
Run(f, c, E, n) ==
  /\ f[0] = c
  /\ \A k \in 1..n : f[k] = IF k \in DOMAIN E THEN Applied(f[k - 1], E[k]) ELSE f[k - 1]

Events(E) == \A k \in DOMAIN E : E[k] \in Event

\* A property of copies that each step keeps holds all along (in LeastNatural's form).
LEMMA FirstFailure ==
  ASSUME NEW n \in Nat, NEW m \in 0..n, NEW T, T \subseteq m..n, m \notin T,
         \A k \in (m + 1)..n : k \in T => k - 1 \in T
  PROVE  T = {}
<1> SUFFICES ASSUME T # {} PROVE FALSE
  OBVIOUS
<1>1. T \subseteq Nat
  OBVIOUS
<1>2. PICK k \in T : \A y \in T : k <= y
  BY <1>1, LeastNatural
<1>3. k \in (m + 1)..n
  BY <1>2
<1>4. k - 1 \in T /\ ~(k <= k - 1)
  BY <1>3
<1> QED BY <1>2, <1>4

LEMMA RunStep ==
  ASSUME NEW f, NEW c, NEW E, NEW n \in Nat, Run(f, c, E, n), NEW k \in 1..n
  PROVE  /\ k \in DOMAIN E => f[k] = Applied(f[k - 1], E[k])
         /\ k \notin DOMAIN E => f[k] = f[k - 1]
         /\ k - 1 \in 0..n
BY DEF Run

LEMMA RunTyped ==
  ASSUME NEW f, NEW c \in Copy, NEW E, Events(E), NEW n \in Nat, Run(f, c, E, n)
  PROVE  \A k \in 0..n : f[k] \in Copy
<1> DEFINE T == {k \in 0..n : f[k] \notin Copy}
<1>1. 0 \notin T
  BY DEF Run
<1>2. ASSUME NEW k \in 1..n, k \in T PROVE k - 1 \in T
  <2>1. CASE k \in DOMAIN E
    BY <1>2, <2>1, RunStep, AppliedTyped DEF Events
  <2>2. CASE k \notin DOMAIN E
    BY <1>2, <2>2, RunStep
  <2> QED BY <2>1, <2>2
<1>3. T = {}
  <2>1. T \subseteq 0..n /\ 0 \in 0..n /\ \A k \in (0 + 1)..n : k \in 1..n
    OBVIOUS
  <2> HIDE DEF T
  <2> QED BY <1>1, <1>2, <2>1, FirstFailure
<1> QED BY <1>3

\* Numbers without an event change nothing.
LEMMA RunIdles ==
  ASSUME NEW f, NEW c, NEW E, NEW n \in Nat, Run(f, c, E, n), NEW m \in 0..n,
         \A k \in DOMAIN E : k \notin (m + 1)..n
  PROVE  \A k \in m..n : f[k] = f[m]
<1> DEFINE T == {k \in m..n : f[k] # f[m]}
<1>1. m \notin T
  OBVIOUS
<1>2. ASSUME NEW k \in (m + 1)..n, k \in T PROVE k - 1 \in T
  <2>1. k \in 1..n /\ k \notin DOMAIN E /\ k - 1 \in m..n
    BY <1>2
  <2> QED BY <1>2, <2>1, RunStep
<1>3. T = {}
  <2>1. T \subseteq m..n
    OBVIOUS
  <2> HIDE DEF T
  <2> QED BY <1>1, <1>2, <2>1, FirstFailure
<1> QED BY <1>3

\* Two runs agree as long as they apply the same events to the same copy.
LEMMA RunsAgree ==
  ASSUME NEW f, NEW c, NEW E, NEW n \in Nat, Run(f, c, E, n),
         NEW g, NEW x, NEW D, NEW h \in Nat, Run(g, x, D, h),
         NEW m \in 0..n, NEW b \in m..n, b <= h, f[m] = g[m],
         \A k \in (m + 1)..b : /\ k \in DOMAIN E <=> k \in DOMAIN D
                               /\ k \in DOMAIN E => E[k] = D[k]
  PROVE  \A k \in m..b : f[k] = g[k]
<1> DEFINE T == {k \in m..b : f[k] # g[k]}
<1>1. m \notin T
  OBVIOUS
<1>2. ASSUME NEW k \in (m + 1)..b, k \in T PROVE k - 1 \in T
  <2>1. k \in 1..n /\ k \in 1..h /\ k - 1 \in m..b
    BY <1>2
  <2>2. f[k - 1] = g[k - 1] => f[k] = g[k]
    BY <1>2, <2>1, RunStep
  <2> QED BY <1>2, <2>1, <2>2
<1>3. T = {}
  <2>1. T \subseteq m..b /\ b \in Nat /\ m \in 0..b
    OBVIOUS
  <2> HIDE DEF T
  <2> QED BY <1>1, <1>2, <2>1, FirstFailure
<1> QED BY <1>3

LEMMA RunUpTo ==
  ASSUME NEW f, NEW c \in Copy, NEW E, Events(E), NEW n \in Nat, Run(f, c, E, n),
         NEW m \in 0..n, NEW h \in m..n, NEW b \in Nat, UpTo(f[m], b),
         \A k \in DOMAIN E : k \in (m + 1)..h => E[k].at <= b
  PROVE  \A k \in m..h : UpTo(f[k], b)
<1> DEFINE T == {k \in m..h : ~UpTo(f[k], b)}
<1>1. m \notin T
  OBVIOUS
<1>2. ASSUME NEW k \in (m + 1)..h, k \in T PROVE k - 1 \in T
  <2>1. k \in 1..n /\ k - 1 \in m..h /\ k - 1 \in 0..n
    BY <1>2
  <2>2. f[k - 1] \in Copy
    BY <2>1, RunTyped
  <2>3. CASE k \in DOMAIN E
    BY <1>2, <2>1, <2>2, <2>3, RunStep, AppliedUpTo DEF Events
  <2>4. CASE k \notin DOMAIN E
    BY <1>2, <2>1, <2>4, RunStep
  <2> QED BY <2>3, <2>4
<1>3. T = {}
  <2>1. T \subseteq m..h /\ h \in Nat /\ m \in 0..h
    OBVIOUS
  <2> HIDE DEF T
  <2> QED BY <1>1, <1>2, <2>1, FirstFailure
<1> QED BY <1>3

LEMMA RunWhole ==
  ASSUME NEW f, NEW c \in Copy, NEW E, Events(E), NEW n \in Nat, Run(f, c, E, n), Whole(c)
  PROVE  \A k \in 0..n : Whole(f[k])
<1> DEFINE T == {k \in 0..n : ~Whole(f[k])}
<1>1. 0 \notin T
  BY DEF Run
<1>2. ASSUME NEW k \in 1..n, k \in T PROVE k - 1 \in T
  <2>1. k - 1 \in 0..n /\ f[k - 1] \in Copy
    BY RunTyped
  <2>2. CASE k \in DOMAIN E
    BY <1>2, <2>1, <2>2, RunStep, AppliedWhole DEF Events
  <2>3. CASE k \notin DOMAIN E
    BY <1>2, <2>1, <2>3, RunStep
  <2> QED BY <2>2, <2>3
<1>3. T = {}
  <2>1. T \subseteq 0..n /\ 0 \in 0..n /\ \A k \in (0 + 1)..n : k \in 1..n
    OBVIOUS
  <2> HIDE DEF T
  <2> QED BY <1>1, <1>2, <2>1, FirstFailure
<1> QED BY <1>3

LEMMA RunTomb ==
  ASSUME NEW f, NEW c \in Copy, NEW E, Events(E), NEW n \in Nat, Run(f, c, E, n),
         NEW m \in 0..n, NEW h \in m..n, NEW b \in Nat, f[m].tomb <= b,
         \A k \in DOMAIN E : k \in (m + 1)..h => E[k].at <= b
  PROVE  f[h].tomb <= b
<1> DEFINE T == {k \in m..h : ~(f[k].tomb <= b)}
<1>1. m \notin T
  OBVIOUS
<1>2. ASSUME NEW k \in (m + 1)..h, k \in T PROVE k - 1 \in T
  <2>1. k \in 1..n /\ k - 1 \in m..h /\ k - 1 \in 0..n
    BY <1>2
  <2>2. f[k - 1] \in Copy
    BY <2>1, RunTyped
  <2>3. CASE k \in DOMAIN E
    BY <1>2, <2>1, <2>2, <2>3, RunStep, AppliedTomb DEF Events
  <2>4. CASE k \notin DOMAIN E
    BY <1>2, <2>1, <2>4, RunStep
  <2> QED BY <2>3, <2>4
<1>3. T = {}
  <2>1. T \subseteq m..h /\ h \in Nat /\ m \in 0..h
    OBVIOUS
  <2> HIDE DEF T
  <2> QED BY <1>1, <1>2, <2>1, FirstFailure
<1> QED BY <1>3

\* Of the events E those with numbers in S.
Part(E, S) == [i \in S |-> E[i]]

\* The entries of page G are applied to a copy that the entries of A have been applied
\* to: what follows an entry of A in G is new, and what G repeats is in order.
Resumes(E, A, G, n) ==
  /\ Events(E) /\ n \in Nat /\ DOMAIN E \subseteq 1..n
  /\ A \subseteq DOMAIN E /\ G \subseteq DOMAIN E
  /\ \A i \in G, j \in A : i < j => i \in A /\ j \in G /\ E[i].at <= E[j].at

LEMMA PartEvents ==
  ASSUME NEW E, Events(E), NEW S, S \subseteq DOMAIN E
  PROVE  /\ Events(Part(E, S)) /\ DOMAIN Part(E, S) = S
         /\ \A i \in S : Part(E, S)[i] = E[i]
BY DEF Events, Part

\* The number up to which A reaches.
Reach(A, n, l) ==
  /\ l \in 0..n /\ \A j \in A : j <= l
  /\ (A = {} /\ l = 0) \/ l \in A

LEMMA ReachExists ==
  ASSUME NEW n \in Nat, NEW A, A \subseteq 1..n PROVE \E l : Reach(A, n, l)
<1>1. CASE A = {}
  <2>1. Reach(A, n, 0)
    BY <1>1 DEF Reach
  <2> QED BY <2>1
<1>2. CASE A # {}
  <2>1. PICK m \in A : \A j \in A : j <= m
    BY <1>2, GreatestNatural
  <2>2. Reach(A, n, m)
    BY <2>1 DEF Reach
  <2> QED BY <2>2
<1> QED BY <1>1, <1>2

\* What the page repeats, up to the last event applied before.
LEMMA Repeats ==
  ASSUME NEW E, NEW A, NEW G, NEW n, Resumes(E, A, G, n), NEW l, Reach(A, n, l), A \cap G # {}
  PROVE  /\ l \in A /\ l \in G /\ l \in 1..n /\ E[l] \in Event
         /\ \A k \in G : k \in 0..l => k \in A /\ E[k].at <= E[l].at
<1>1. PICK q \in A : q \in G
  OBVIOUS
<1>2. l \in A /\ A \subseteq 1..n /\ G \subseteq 1..n /\ n \in Nat
  BY <1>1 DEF Reach, Resumes
<1>3. q <= l
  BY <1>1 DEF Reach
<1>4. l \in G
  BY <1>1, <1>2, <1>3 DEF Resumes
<1>5. E[l] \in Event /\ E[l].at \in Nat
  BY <1>2, SetToFields DEF Resumes, Events
<1>6. ASSUME NEW k \in G, k \in 0..l PROVE k \in A /\ E[k].at <= E[l].at
  <2>1. CASE k = l
    BY <1>2, <1>5, <2>1
  <2>2. CASE k # l
    <3>1. k < l
      BY <1>2, <1>6, <2>2
    <3> QED BY <1>2, <3>1 DEF Resumes
  <2> QED BY <2>1, <2>2
<1> QED BY <1>2, <1>4, <1>5, <1>6

\* Where the copy is what the events A make of nothing, the repeated ones change nothing.
LEMMA RepeatsSame ==
  ASSUME NEW E, NEW A, NEW G, NEW n, Resumes(E, A, G, n), NEW l, Reach(A, n, l), A \cap G # {},
         NEW g, Run(g, Nothing, Part(E, A), n),
         NEW f, Run(f, g[l], Part(E, G), n)
  PROVE  f[l] = g[l]
<1> DEFINE v == E[l]
           s == g[l]
<1>0. /\ n \in Nat /\ A \subseteq DOMAIN E /\ G \subseteq DOMAIN E /\ Events(E)
      /\ A \subseteq 1..n /\ G \subseteq 1..n
  BY DEF Resumes
<1>1. /\ l \in A /\ l \in G /\ l \in 1..n /\ v \in Event
      /\ \A k \in G : k \in 0..l => k \in A /\ E[k].at <= v.at
  BY Repeats
<1>2. /\ Events(Part(E, A)) /\ DOMAIN Part(E, A) = A /\ \A i \in A : Part(E, A)[i] = E[i]
      /\ Events(Part(E, G)) /\ DOMAIN Part(E, G) = G /\ \A i \in G : Part(E, G)[i] = E[i]
  BY <1>0, PartEvents
<1>3. Nothing \in Copy /\ Whole(Nothing)
  BY DEF Nothing, Copy, Rows, Whole
<1>4. \A k \in 0..n : g[k] \in Copy /\ Whole(g[k])
  BY <1>0, <1>2, <1>3, RunTyped, RunWhole
<1>5. l \in 0..n /\ l - 1 \in 0..n /\ v.at \in Nat /\ l \in Nat
  BY <1>0, <1>1, SetToFields
<1>6. s \in Copy /\ Whole(s)
  BY <1>4, <1>5
<1>7. \A k \in 0..n : f[k] \in Copy
  BY <1>0, <1>2, <1>6, RunTyped
<1>8. g[l] = Applied(g[l - 1], v) /\ f[l] = Applied(f[l - 1], v)
  <2>1. Part(E, A)[l] = v /\ Part(E, G)[l] = v
    BY <1>1, <1>2
  <2> QED BY <1>0, <1>1, <1>2, <2>1, RunStep
<1>9. UpTo(s, v.at) => s = SetTo(v)
  BY <1>1, <1>4, <1>5, <1>8, AppliedOrLater
<1>10. \A k \in DOMAIN Part(E, G) : k \in (0 + 1)..l => Part(E, G)[k].at <= v.at
  <2>1. \A k \in (0 + 1)..l : k \in 0..l
    BY <1>5
  <2> HIDE DEF v
  <2> QED BY <1>1, <1>2, <2>1
<1>11. f[0] = s
  BY DEF Run
<1>12. CASE UpTo(s, v.at)
  <2>1. \A k \in 0..l : UpTo(f[k], v.at)
    <3>1. 0 \in 0..n /\ l \in 0..n /\ UpTo(f[0], v.at)
      BY <1>0, <1>5, <1>11, <1>12
    <3> HIDE DEF v
    <3> QED BY <1>0, <1>2, <1>5, <1>6, <1>10, <1>11, <1>12, <3>1, RunUpTo
  <2>2. UpTo(f[l - 1], v.at)
    BY <1>1, <1>5, <2>1
  <2>3. f[l] = SetTo(v)
    BY <1>1, <1>5, <1>7, <1>8, <2>2, AppliedLater
  <2> QED BY <1>9, <1>12, <2>3
<1>13. CASE ~UpTo(s, v.at)
  <2>1. ASSUME NEW k \in G, k \in 1..l PROVE Applied(s, E[k]) = s
    <3>1. k \in A /\ k \in G /\ E[k].at <= v.at /\ E[k] \in Event /\ k \in 1..n /\ k \in 0..n /\ k - 1 \in 0..n
      BY <1>0, <1>1, <1>5, <2>1 DEF Events
    <3>2. ASSUME E[k].ent \in Note, E[k].op = "del" PROVE s.tomb <= v.at
      <4>1. g[k] = Applied(g[k - 1], E[k])
        BY <1>0, <1>2, <3>1, RunStep
      <4>2. g[k].tomb <= E[k].at
        BY <1>4, <3>1, <3>2, <4>1, AppliedWhole
      <4>3. g[k] \in Copy /\ g[k].tomb \in Nat /\ E[k].at \in Nat
        BY <1>4, <3>1, CopyFields, SetToFields
      <4>4. g[k].tomb <= v.at
        BY <1>5, <3>1, <4>2, <4>3
      <4>5. ASSUME NEW i \in DOMAIN Part(E, A), i \in (k + 1)..l PROVE Part(E, A)[i].at <= v.at
        <5>1. i \in A /\ k < i /\ i \in 0..l
          BY <1>2, <1>5, <3>1, <4>5
        <5>2. i \in G
          BY <5>1, <3>1 DEF Resumes
        <5> QED BY <1>1, <1>2, <5>1, <5>2
      <4>6. k \in 0..n /\ l \in k..n
        BY <1>0, <1>5, <2>1
      <4> HIDE DEF v
      <4>7. g[l].tomb <= v.at
        BY <1>0, <1>2, <1>3, <1>5, <4>4, <4>5, <4>6, RunTomb
      <4> QED BY <4>7
    <3> HIDE DEF s, v
    <3> QED BY <1>5, <1>6, <1>13, <3>1, <3>2, AppliedEarlier
  <2> DEFINE T == {k \in 0..l : f[k] # s}
  <2>2. 0 \notin T
    BY <1>11
  <2>3. ASSUME NEW k \in 1..l, k \in T PROVE k - 1 \in T
    <3>1. k \in 1..n /\ k - 1 \in 0..l
      BY <1>0, <1>5
    <3>2. CASE k \in G
      BY <1>0, <1>2, <2>1, <2>3, <3>1, <3>2, RunStep
    <3>3. CASE k \notin G
      BY <1>0, <1>2, <2>3, <3>1, <3>3, RunStep
    <3> QED BY <3>2, <3>3
  <2>4. T = {}
    <3>1. T \subseteq 0..l /\ 0 \in 0..l /\ \A k \in (0 + 1)..l : k \in 1..l
      BY <1>5
    <3> HIDE DEF T
    <3> QED BY <1>5, <2>2, <2>3, <3>1, FirstFailure
  <2> QED BY <1>5, <1>13, <2>4
<1> QED BY <1>9, <1>12, <1>13

\* A copy c is what the events have made of nothing, s; or event ev, which is not among
\* those with numbers in A, is not older than either.
Level(c, s, E, A, ev) ==
  \/ c = s
  \/ /\ ev # NoRow /\ \A i \in A : E[i] # ev
     /\ UpTo(c, ev.at) /\ UpTo(s, ev.at)

LEMMA UpToLater ==
  ASSUME NEW c \in Copy, NEW b \in Nat, NEW h \in Nat, UpTo(c, b), b <= h PROVE UpTo(c, h)
BY CopyFields DEF UpTo

\* Applying an event keeps two copies level, and makes them the same if it is ev.
LEMMA LevelStep ==
  ASSUME NEW c \in Copy, NEW s \in Copy, NEW E, NEW A, NEW ev \in Rows, Level(c, s, E, A, ev),
         NEW k, E[k] \in Event
  PROVE  Level(Applied(c, E[k]), Applied(s, E[k]), E, A \cup {k}, ev)
<1>1. CASE c = s
  BY <1>1 DEF Level
<1>2. CASE c # s
  <2>1. /\ ev # NoRow /\ \A i \in A : E[i] # ev
        /\ UpTo(c, ev.at) /\ UpTo(s, ev.at)
    BY <1>2 DEF Level
  <2>2. ev \in Event /\ ev.at \in Nat /\ E[k].at \in Nat
    BY <2>1, SetToFields DEF Rows
  <2>3. CASE ev.at <= E[k].at
    <3>1. UpTo(c, E[k].at) /\ UpTo(s, E[k].at)
      BY <2>1, <2>2, <2>3, UpToLater
    <3> QED BY <3>1, AppliedLater DEF Level
  <2>4. CASE ~(ev.at <= E[k].at)
    <3>1. UpTo(Applied(c, E[k]), ev.at) /\ UpTo(Applied(s, E[k]), ev.at)
      BY <2>1, <2>2, <2>4, AppliedUpTo
    <3>2. E[k] # ev
      BY <2>2, <2>4
    <3> QED BY <2>1, <3>1, <3>2 DEF Level
  <2> QED BY <2>3, <2>4
<1> QED BY <1>1, <1>2

\* What a device had before a page, up to where the page brings something new.
LEMMA LevelRepeats ==
  ASSUME NEW E, NEW A, NEW G, NEW n, Resumes(E, A, G, n), NEW l, Reach(A, n, l),
         NEW g, Run(g, Nothing, Part(E, A), n), NEW c \in Copy,
         NEW f, Run(f, c, Part(E, G), n), NEW ev \in Rows, Level(c, g[l], E, A, ev)
  PROVE  Level(f[l], g[l], E, A, ev)
<1>0. /\ n \in Nat /\ A \subseteq DOMAIN E /\ G \subseteq DOMAIN E /\ Events(E)
      /\ A \subseteq 1..n /\ G \subseteq 1..n /\ l \in 0..n /\ f[0] = c /\ l \in Nat
  BY DEF Resumes, Reach, Run
<1>1. /\ Events(Part(E, A)) /\ DOMAIN Part(E, A) = A /\ \A i \in A : Part(E, A)[i] = E[i]
      /\ Events(Part(E, G)) /\ DOMAIN Part(E, G) = G /\ \A i \in G : Part(E, G)[i] = E[i]
  BY <1>0, PartEvents
<1>2. CASE A \cap G = {}
  <2>1. ASSUME NEW k \in G, k \in (0 + 1)..l PROVE FALSE
    <3>1. l \in A
      <4>1. l # 0
        BY <1>0, <2>1
      <4> QED BY <4>1 DEF Reach
    <3>2. k < l
      <4>1. k # l
        BY <1>2, <2>1, <3>1
      <4> QED BY <1>0, <2>1, <4>1
    <3>3. k \in A
      BY <3>1, <3>2 DEF Resumes
    <3> QED BY <1>2, <3>3
  <2>2. \A k \in DOMAIN Part(E, G) : k \notin (0 + 1)..l
    BY <1>1, <2>1
  <2>3. Run(f, c, Part(E, G), l)
    BY <1>0 DEF Run
  <2>4. f[l] = f[0]
    <3>1. \A k \in 0..l : f[k] = f[0]
      BY <1>0, <2>2, <2>3, RunIdles
    <3> QED BY <1>0, <3>1
  <2> QED BY <1>0, <2>4
<1>3. CASE A \cap G # {}
  <2>1. /\ l \in A /\ l \in G /\ l \in 1..n /\ E[l] \in Event
        /\ \A k \in G : k \in 0..l => k \in A /\ E[k].at <= E[l].at
    BY <1>3, Repeats
  <2>2. CASE c = g[l]
    BY <1>3, <2>2, RepeatsSame DEF Level
  <2>3. CASE c # g[l]
    <3>1. /\ ev # NoRow /\ \A i \in A : E[i] # ev
          /\ UpTo(c, ev.at) /\ UpTo(g[l], ev.at)
      BY <2>3 DEF Level
    <3>2. ev \in Event /\ ev.at \in Nat /\ E[l].at \in Nat
      BY <2>1, <3>1, SetToFields DEF Rows
    <3>3. Nothing \in Copy
      BY DEF Nothing, Copy, Rows
    <3>4. g[l - 1] \in Copy /\ g[l] \in Copy /\ g[l] = Applied(g[l - 1], E[l])
      <4>1. l - 1 \in 0..n /\ Part(E, A)[l] = E[l]
        BY <1>0, <1>1, <2>1
      <4> QED BY <1>0, <1>1, <2>1, <3>3, <4>1, RunTyped, RunStep
    <3>5. E[l].at <= ev.at
      <4>1. SUFFICES ASSUME ~(E[l].at <= ev.at) PROVE FALSE
        OBVIOUS
      <4>2. UpTo(g[l], E[l].at)
        BY <3>1, <3>2, <3>4, <4>1, UpToLater
      <4>3. g[l] = SetTo(E[l])
        BY <2>1, <3>4, <4>2, AppliedOrLater
      <4> QED BY <2>1, <3>1, <3>2, <4>1, <4>3, SetToFields DEF UpTo
    <3>6. \A k \in DOMAIN Part(E, G) : k \in (0 + 1)..l => Part(E, G)[k].at <= ev.at
      <4> TAKE k \in DOMAIN Part(E, G)
      <4> HAVE k \in (0 + 1)..l
      <4>1. k \in G /\ k \in 0..l /\ E[k].at <= E[l].at /\ E[k] \in Event
        BY <1>0, <1>1, <2>1 DEF Events
      <4> QED BY <1>1, <3>2, <3>5, <4>1, SetToFields
    <3>7. UpTo(f[l], ev.at)
      <4>1. 0 \in 0..n /\ l \in 0..n /\ l \in 0..l
        BY <1>0
      <4>2. UpTo(f[0], ev.at)
        BY <1>0, <3>1
      <4> QED BY <1>0, <1>1, <3>2, <3>6, <4>1, <4>2, RunUpTo
    <3> QED BY <3>1, <3>7 DEF Level
  <2> QED BY <2>2, <2>3
<1> QED BY <1>2, <1>3

\* A page leaves the copy of a device level with what all events make of nothing.
LEMMA PageLevels ==
  ASSUME NEW E, NEW A, NEW G, NEW n, Resumes(E, A, G, n), DOMAIN E = A \cup G,
         NEW g, Run(g, Nothing, Part(E, A), n), NEW c \in Copy,
         NEW f, Run(f, c, Part(E, G), n), NEW h, Run(h, Nothing, E, n),
         NEW ev \in Rows, Level(c, g[n], E, A, ev)
  PROVE  Level(f[n], h[n], E, DOMAIN E, ev)
<1>0. /\ n \in Nat /\ A \subseteq DOMAIN E /\ G \subseteq DOMAIN E /\ Events(E)
      /\ A \subseteq 1..n /\ G \subseteq 1..n /\ DOMAIN E \subseteq 1..n
  BY DEF Resumes
<1>1. /\ Events(Part(E, A)) /\ DOMAIN Part(E, A) = A /\ \A i \in A : Part(E, A)[i] = E[i]
      /\ Events(Part(E, G)) /\ DOMAIN Part(E, G) = G /\ \A i \in G : Part(E, G)[i] = E[i]
  BY <1>0, PartEvents
<1>2. PICK l : Reach(A, n, l)
  BY <1>0, ReachExists
<1>3. l \in 0..n /\ l \in Nat /\ \A j \in A : j <= l
  BY <1>0, <1>2 DEF Reach
<1>14. ASSUME NEW k \in G, k \in 1..l PROVE k \in A
  <2>1. l \in A
    <3>1. l # 0
      BY <1>3, <1>14
    <3> QED BY <1>2, <3>1 DEF Reach
  <2>2. k = l \/ k < l
    BY <1>3, <1>14
  <2> QED BY <1>14, <2>1, <2>2 DEF Resumes
<1>4. Nothing \in Copy
  BY DEF Nothing, Copy, Rows
<1>5. g[n] = g[l]
  <2>1. \A k \in DOMAIN Part(E, A) : k \notin (l + 1)..n
    BY <1>0, <1>1, <1>3
  <2>2. \A k \in l..n : g[k] = g[l]
    BY <1>0, <1>3, <2>1, RunIdles
  <2> QED BY <1>0, <1>3, <2>2
<1>6. h[l] = g[l]
  <2>1. \A k \in (0 + 1)..l : k \in DOMAIN E <=> k \in DOMAIN Part(E, A)
    <3> TAKE k \in (0 + 1)..l
    <3>1. k \in 1..l
      BY <1>3
    <3> QED BY <1>1, <1>14, <3>1
  <2>4a. \A k \in (0 + 1)..l : k \in DOMAIN E => E[k] = Part(E, A)[k]
    BY <1>1, <2>1
  <2>2. h[0] = Nothing /\ g[0] = Nothing
    BY DEF Run
  <2>3. 0 \in 0..n /\ l \in 0..n /\ l <= n
    BY <1>0, <1>3
  <2>4. \A k \in 0..l : h[k] = g[k]
    BY <1>0, <1>1, <2>1, <2>4a, <2>2, <2>3, RunsAgree, SMTT(30)
  <2> QED BY <1>3, <2>4
<1>7. Level(f[l], h[l], E, A, ev)
  BY <1>2, <1>5, <1>6, LevelRepeats
<1>8. \A k \in 0..n : f[k] \in Copy /\ h[k] \in Copy
  BY <1>0, <1>1, <1>4, RunTyped
<1> DEFINE Upto(k) == {i \in DOMAIN E : i <= k}
           T == {k \in l..n : ~Level(f[k], h[k], E, Upto(k), ev)}
<1>9. l \notin T
  <2>1. Level(f[l], h[l], E, Upto(l), ev)
    <3>1. \A i \in Upto(l) : i \in A
      <4> SUFFICES ASSUME NEW i \in G, i <= l PROVE i \in A
        OBVIOUS
      <4>1. i \in 1..l
        BY <1>0, <1>3
      <4> QED BY <1>14, <4>1
    <3> HIDE DEF Upto
    <3> QED BY <1>7, <3>1 DEF Level
  <2> QED BY <2>1
<1>10. ASSUME NEW k \in (l + 1)..n, k \in T PROVE k - 1 \in T
  <2>1. k \in 1..n /\ k - 1 \in l..n /\ k \notin A /\ k - 1 \in 0..n
    BY <1>0, <1>3
  <2>2. f[k - 1] \in Copy /\ h[k - 1] \in Copy
    BY <1>8, <2>1
  <2>3. CASE k \in G
    <3>1. /\ f[k] = Applied(f[k - 1], E[k]) /\ h[k] = Applied(h[k - 1], E[k])
          /\ E[k] \in Event
      <4>1. k \in DOMAIN Part(E, G) /\ Part(E, G)[k] = E[k] /\ k \in DOMAIN E
        BY <1>1, <2>3
      <4> QED BY <1>0, <2>1, <4>1, RunStep DEF Events
    <3>2. Upto(k) = Upto(k - 1) \cup {k}
      BY <1>0, <2>1, <2>3
    <3> HIDE DEF Upto
    <3>3. ASSUME Level(f[k - 1], h[k - 1], E, Upto(k - 1), ev)
          PROVE  Level(f[k], h[k], E, Upto(k), ev)
      <4> DEFINE v == f[k - 1]
                 w == h[k - 1]
                 U == Upto(k - 1)
      <4>1. v \in Copy /\ w \in Copy /\ Level(v, w, E, U, ev) /\ E[k] \in Event
        BY <2>2, <3>1, <3>3
      <4> HIDE DEF v, w, U
      <4>2. Level(Applied(v, E[k]), Applied(w, E[k]), E, U \cup {k}, ev)
        BY <4>1, LevelStep
      <4> USE DEF v, w, U
      <4>3. f[k] = Applied(v, E[k]) /\ h[k] = Applied(w, E[k]) /\ Upto(k) = U \cup {k}
        BY <3>1, <3>2
      <4> HIDE DEF v, w, U
      <4> QED BY <4>2, <4>3
    <3> QED BY <1>10, <2>1, <3>3
  <2>4. CASE k \notin G
    <3>1. f[k] = f[k - 1] /\ h[k] = h[k - 1]
      <4>1. k \notin DOMAIN Part(E, G) /\ k \notin DOMAIN E
        BY <1>1, <2>1, <2>4
      <4> QED BY <1>0, <2>1, <4>1, RunStep
    <3>2. Upto(k) = Upto(k - 1)
      BY <1>0, <2>1, <2>4
    <3> HIDE DEF Upto
    <3> QED BY <1>10, <2>1, <3>1, <3>2
  <2> QED BY <2>3, <2>4
<1>11. T = {}
  <2>1. T \subseteq l..n
    OBVIOUS
  <2> HIDE DEF T
  <2> QED BY <1>0, <1>3, <1>9, <1>10, <2>1, FirstFailure
<1>12. Level(f[n], h[n], E, Upto(n), ev)
  <2>1. n \in l..n
    BY <1>0, <1>3
  <2> HIDE DEF Upto
  <2> QED BY <1>11, <2>1
<1>13. Upto(n) = DOMAIN E
  BY <1>0
<1> HIDE DEF Upto
<1> QED BY <1>12, <1>13

-----------------------------------------------------------------------------
(* The page of a device, entity by entity *)

\* Of the entries with numbers in S the events of entity e.
EventsOf(S, e) == [i \in {j \in S : log[j].ev.ent = e} |-> log[i].ev]

LEMMA EventsTyped ==
  ASSUME Server, NEW S, S \subseteq DOMAIN log, NEW e
  PROVE  /\ Events(EventsOf(S, e)) /\ DOMAIN EventsOf(S, e) \subseteq 1..Len(log)
         /\ DOMAIN EventsOf(S, e) = {j \in S : log[j].ev.ent = e}
         /\ \A i \in DOMAIN EventsOf(S, e) : EventsOf(S, e)[i] = log[i].ev /\ i \in S
<1>1. DOMAIN log = 1..Len(log) /\ \A i \in S : log[i].ev \in Event
  BY LogTyped DEF Entry
<1> QED BY <1>1 DEF EventsOf, Events

\* What a page makes of the copy of entity e.
LEMMA PageRun ==
  ASSUME Server, NEW copies \in [Entity -> Copy], NEW page, page \subseteq DOMAIN log, NEW e \in Entity
  PROVE  \E f : Run(f, copies[e], EventsOf(page, e), Len(log)) /\ AppliedAll(copies, page)[e] = f[Len(log)]
<1>1. DOMAIN log = 1..Len(log) /\ Len(log) \in Nat /\ \A i \in DOMAIN log : log[i].ev \in Event
  BY LogTyped DEF Entry
<1>2. PICK after :
        /\ after[0] = copies /\ AppliedAll(copies, page) = after[Len(log)]
        /\ \A n \in 1..Len(log) : after[n] = IF n \in page THEN Onto(after[n - 1], n) ELSE after[n - 1]
        /\ \A n \in 0..Len(log) : after[n] \in [Entity -> Copy]
  BY AppliedSteps
<1> DEFINE f == [n \in 0..Len(log) |-> after[n][e]]
           E == EventsOf(page, e)
<1>3. DOMAIN E = {j \in page : log[j].ev.ent = e} /\ \A i \in DOMAIN E : E[i] = log[i].ev
  BY DEF EventsOf
<1>4. \A n \in 0..Len(log) : f[n] = after[n][e]
  OBVIOUS
<1> HIDE DEF f, E
<1>5. f[0] = copies[e] /\ f[Len(log)] = AppliedAll(copies, page)[e]
  <2>1. 0 \in 0..Len(log) /\ Len(log) \in 0..Len(log)
    BY <1>1
  <2> QED BY <1>2, <1>4, <2>1
<1>6. ASSUME NEW k \in 1..Len(log)
      PROVE  f[k] = IF k \in DOMAIN E THEN Applied(f[k - 1], E[k]) ELSE f[k - 1]
  <2>1. k \in 0..Len(log) /\ k - 1 \in 0..Len(log) /\ k \in DOMAIN log
    BY <1>1
  <2>2. f[k] = after[k][e] /\ f[k - 1] = after[k - 1][e] /\ after[k - 1] \in [Entity -> Copy]
    BY <1>2, <1>4, <2>1
  <2>3. after[k] = IF k \in page THEN Onto(after[k - 1], k) ELSE after[k - 1]
    BY <1>2
  <2>4. CASE k \in page
    <3> DEFINE g == after[k - 1]
    <3>1. after[k] = [g EXCEPT ![log[k].ev.ent] = Applied(g[log[k].ev.ent], log[k].ev)]
      BY <2>3, <2>4 DEF Onto
    <3>2. g \in [Entity -> Copy] /\ f[k - 1] = g[e] /\ f[k] = after[k][e]
      BY <2>2
    <3> HIDE DEF g
    <3>3. CASE log[k].ev.ent = e
      <4>1. after[k][e] = Applied(g[e], log[k].ev)
        BY <3>1, <3>2, <3>3
      <4>2. k \in DOMAIN E /\ E[k] = log[k].ev
        BY <1>3, <2>4, <3>3
      <4> QED BY <3>2, <4>1, <4>2
    <3>4. CASE log[k].ev.ent # e
      <4>1. after[k][e] = g[e]
        BY <3>1, <3>2, <3>4
      <4> QED BY <1>3, <3>2, <3>4, <4>1
    <3> QED BY <3>3, <3>4
  <2>5. CASE k \notin page
    BY <1>3, <2>2, <2>3, <2>5
  <2> QED BY <2>4, <2>5
<1> QED BY <1>5, <1>6 DEF Run, E

\* s is what the events E make of nothing.
Makes(E, s) == \E n \in Nat : \E f : DOMAIN E \subseteq 1..n /\ Run(f, Nothing, E, n) /\ f[n] = s

\* They make one thing of it.
LEMMA RunsEndAlike ==
  ASSUME NEW E, NEW c, NEW n \in Nat, NEW m \in Nat, DOMAIN E \subseteq 1..n, n <= m,
         NEW f, Run(f, c, E, n), NEW g, Run(g, c, E, m)
  PROVE  f[n] = g[m]
<1>1. f[0] = g[0] /\ 0 \in 0..n /\ n \in 0..n
  BY DEF Run
<1>2. \A k \in 0..n : f[k] = g[k]
  BY <1>1, RunsAgree
<1>3. n \in 0..m /\ \A k \in DOMAIN E : k \notin (n + 1)..m
  OBVIOUS
<1>4. \A k \in n..m : g[k] = g[n]
  BY <1>3, RunIdles
<1> QED BY <1>1, <1>2, <1>4

LEMMA MakesOne ==
  ASSUME NEW E, NEW s, NEW r, Makes(E, s), Makes(E, r) PROVE s = r
<1>1. PICK n \in Nat : \E f : DOMAIN E \subseteq 1..n /\ Run(f, Nothing, E, n) /\ f[n] = s
  BY DEF Makes
<1>2. PICK f : DOMAIN E \subseteq 1..n /\ Run(f, Nothing, E, n) /\ f[n] = s
  BY <1>1
<1>3. PICK m \in Nat : \E g : DOMAIN E \subseteq 1..m /\ Run(g, Nothing, E, m) /\ g[m] = r
  BY DEF Makes
<1>4. PICK g : DOMAIN E \subseteq 1..m /\ Run(g, Nothing, E, m) /\ g[m] = r
  BY <1>3
<1>5. n <= m \/ m <= n
  OBVIOUS
<1> QED BY <1>2, <1>4, <1>5, RunsEndAlike

\* Events in the order of time make what the last one makes.
LEMMA LastMakes ==
  ASSUME NEW E, Events(E), InTime(E), NEW s, Makes(E, s)
  PROVE  /\ DOMAIN E = {} => s = Nothing
         /\ \A i \in DOMAIN E : (\A j \in DOMAIN E : j <= i) => s = SetTo(E[i])
<1>1. PICK n \in Nat : \E f : DOMAIN E \subseteq 1..n /\ Run(f, Nothing, E, n) /\ f[n] = s
  BY DEF Makes
<1>2. PICK f : DOMAIN E \subseteq 1..n /\ Run(f, Nothing, E, n) /\ f[n] = s
  BY <1>1
<1>3. Nothing \in Copy /\ Nothing.row = NoRow /\ Nothing.tomb = 0
  BY DEF Nothing, Copy, Rows
<1>4. f[0] = Nothing /\ 0 \in 0..n /\ n \in 0..n
  BY <1>2 DEF Run
<1>5. ASSUME DOMAIN E = {} PROVE s = Nothing
  <2>1. \A k \in 0..n : f[k] = f[0]
    BY <1>2, <1>4, <1>5, RunIdles
  <2> QED BY <1>2, <1>4, <2>1
<1>6. ASSUME NEW i \in DOMAIN E, \A j \in DOMAIN E : j <= i PROVE s = SetTo(E[i])
  <2>1. i \in 1..n /\ i \in 0..n /\ i - 1 \in 0..n /\ E[i] \in Event /\ E[i].at \in Nat
    BY <1>2, <1>6, SetToFields DEF Events
  <2>2. \A k \in 0..n : f[k] \in Copy
    BY <1>2, <1>3, RunTyped
  <2>3. UpTo(f[i - 1], E[i].at)
    <3>1. UpTo(f[0], E[i].at)
      BY <1>3, <1>4, <2>1 DEF UpTo
    <3>2. \A k \in DOMAIN E : k \in (0 + 1)..(i - 1) => E[k].at <= E[i].at
      BY <1>2, <1>6, <2>1 DEF InTime
    <3>3. i - 1 \in 0..n /\ 0 \in 0..n
      BY <2>1
    <3> DEFINE m == i - 1
    <3>4. m \in 0..n /\ \A k \in DOMAIN E : k \in (0 + 1)..m => E[k].at <= E[i].at
      BY <3>2, <3>3
    <3> HIDE DEF m
    <3>5. \A k \in 0..m : UpTo(f[k], E[i].at)
      BY <1>2, <1>3, <1>4, <2>1, <3>1, <3>4, RunUpTo
    <3>6. m \in 0..m
      BY <3>4
    <3> QED BY <3>5, <3>6 DEF m
  <2>4. f[i] = Applied(f[i - 1], E[i])
    BY <1>2, <1>6, <2>1, RunStep
  <2>5. f[i] = SetTo(E[i])
    BY <2>1, <2>2, <2>3, <2>4, AppliedLater
  <2>6. \A k \in i..n : f[k] = f[i]
    <3>1. \A k \in DOMAIN E : k \notin (i + 1)..n
      BY <1>6, <2>1
    <3> QED BY <1>2, <2>1, <3>1, RunIdles
  <2>7. n \in i..n
    BY <2>1
  <2> QED BY <1>2, <2>5, <2>6, <2>7
<1> QED BY <1>5, <1>6

-----------------------------------------------------------------------------
(* Where the events come from *)

\* Event ev is in the outbox of device d.
From(d, ev) == \E i \in DOMAIN outbox[d] : outbox[d][i].ev = ev

\* The push of t has ev to do.
Carried(t, ev) == \E m \in DOMAIN tx[t].todo : tx[t].todo[m] = ev

\* What a step leaves a push to do it had to do before, or is in the outbox.
TodoMoves ==
  \A t \in Tab : \A k \in DOMAIN tx'[t].todo :
    Carried(t, tx'[t].todo[k]) \/ From(dev(t), tx'[t].todo[k])

\* What a step logs a push had to do, or a hosted client sends.
LogSources ==
  \A i \in DOMAIN log' :
    \/ i \in DOMAIN log /\ log'[i].ev = log[i].ev
    \/ log'[i].ev.by = Web
    \/ \E t \in Tab : Carried(t, log'[i].ev)

LEMMA OneTodo ==
  ASSUME Pushes, NEW t \in Tab, NEW x, tx' = [tx EXCEPT ![t] = x],
         \A k \in DOMAIN x.todo : Carried(t, x.todo[k]) \/ From(dev(t), x.todo[k])
  PROVE  TodoMoves
<1>1. tx'[t] = x /\ \A u \in Tab : u # t => tx'[u] = tx[u]
  BY DEF Pushes
<1> QED BY <1>1 DEF TodoMoves, Carried

LEMMA TodoStays == ASSUME UNCHANGED tx PROVE TodoMoves
BY DEF TodoMoves, Carried

\* A push that has dealt with an event has the others to do.
LEMMA TailCarried ==
  ASSUME Pushes, NEW t \in Tab, tx[t].phase \in {"check", "replay", "insert", "persist"}
  PROVE  /\ \A k \in DOMAIN Tail(tx[t].todo) : Carried(t, Tail(tx[t].todo)[k])
         /\ Carried(t, Head(tx[t].todo))
<1>1. tx[t].todo \in Seq(Event) /\ tx[t].todo # <<>>
  BY NextEvent DEF Pushes
<1> DEFINE s == tx[t].todo
<1>2. /\ Len(s) \in Nat \ {0} /\ DOMAIN s = 1..Len(s) /\ Head(s) = s[1]
      /\ DOMAIN Tail(s) = 1..(Len(s) - 1)
      /\ \A k \in 1..(Len(s) - 1) : Tail(s)[k] = s[k + 1] /\ k + 1 \in 1..Len(s)
  <2> HIDE DEF s
  <2>1. s \in Seq(Event) /\ s # <<>>
    BY <1>1 DEF s
  <2>2. Len(s) \in Nat /\ DOMAIN s = 1..Len(s)
    BY <2>1, LenProperties
  <2>3. Len(s) # 0
    BY <2>1, EmptySeq
  <2> QED BY <2>1, <2>2, <2>3, HeadTailProperties, LenProperties
<1>3. 1 \in DOMAIN s
  BY <1>2
<1> QED BY <1>2, <1>3 DEF Carried

LEMMA LogSame ==
  ASSUME log' = log \/ \E t, s : log' = Resolved(t, s) PROVE LogSources
<1>1. CASE log' = log
  BY <1>1 DEF LogSources
<1>2. ASSUME NEW t, NEW s, log' = Resolved(t, s) PROVE LogSources
  BY <1>2 DEF LogSources, Resolved
<1> QED BY <1>1, <1>2

LEMMA LogAdds ==
  ASSUME Server, NEW ev, NEW s, NEW u, Logs(ev, s, u), ev.by = Web \/ \E t \in Tab : Carried(t, ev)
  PROVE  LogSources
<1> DEFINE x == [ev |-> ev, state |-> s, tab |-> u]
<1>1. log' = Append(log, x) /\ x.ev = ev
  BY DEF Logs
<1> HIDE DEF x
<1>2. IsLog(log)
  BY DEF Server, IsLog
<1>3. /\ Len(log) \in Nat /\ DOMAIN log = 1..Len(log)
      /\ DOMAIN log' = 1..(Len(log) + 1)
      /\ \A i \in 1..Len(log) : log'[i] = log[i]
      /\ log'[Len(log) + 1] = x
  BY <1>1, <1>2, LogAppend
<1>4. ASSUME NEW i \in DOMAIN log' PROVE (i \in DOMAIN log /\ log'[i].ev = log[i].ev) \/ log'[i].ev = ev
  BY <1>1, <1>3
<1> QED BY <1>4 DEF LogSources

LEMMA PushSources ==
  ASSUME Server, Pushes, NEW t \in Tab, PushStep(t) \/ PushAborts(t) PROVE TodoMoves /\ LogSources
<1>1. DOMAIN tx[t] = TxFields
  BY DEF Pushes, TxWired
<1>2. CASE Check(t)
  <2> DEFINE x == [tx[t] EXCEPT !.phase = IF Accepts(t, Head(tx[t].todo)) THEN "insert" ELSE "replay"]
  <2>1. tx' = [tx EXCEPT ![t] = x] /\ log' = log
    BY <1>2 DEF Check, Set
  <2>2. x.todo = tx[t].todo
    BY <1>1, TxUpdates
  <2> HIDE DEF x
  <2>3. \A k \in DOMAIN x.todo : Carried(t, x.todo[k])
    BY <2>2 DEF Carried
  <2> QED BY <2>1, <2>3, OneTodo, LogSame
<1>3. CASE Replay(t)
  <2> DEFINE ev == Head(tx[t].todo)
             y == [tx[t] EXCEPT !.bad = IF Logged(t, ev) THEN @ ELSE @ \cup {ev}]
             x == Handled(y)
  <2>1. tx' = [tx EXCEPT ![t] = x] /\ log' = log /\ tx[t].phase = "replay"
    BY <1>3 DEF Replay, Set
  <2>2. DOMAIN y = TxFields /\ y.todo = tx[t].todo
    BY <1>1, TxUpdates
  <2> HIDE DEF y
  <2>3. x.todo = Tail(tx[t].todo)
    BY <2>2, HandledFields
  <2> HIDE DEF x
  <2>4. \A k \in DOMAIN x.todo : Carried(t, x.todo[k])
    BY <2>1, <2>3, TailCarried
  <2> QED BY <2>1, <2>4, OneTodo, LogSame
<1>4. CASE Insert(t)
  <2> DEFINE ev == Head(tx[t].todo)
             y == [tx[t] EXCEPT !.writer = TRUE]
  <2>1. tx[t].phase = "insert" /\ Carried(t, ev) /\ \A k \in DOMAIN Tail(tx[t].todo) : Carried(t, Tail(tx[t].todo)[k])
    BY <1>4, TailCarried DEF Insert
  <2>2. DOMAIN y = TxFields /\ y.todo = tx[t].todo
    BY <1>1, TxUpdates
  <2>3. CASE tx' = [tx EXCEPT ![t] = Handled(y)] /\ log' = log
    <3> HIDE DEF y
    <3> DEFINE x == Handled(y)
    <3>1. x.todo = Tail(tx[t].todo)
      BY <2>2, HandledFields
    <3> HIDE DEF x
    <3>2. \A k \in DOMAIN x.todo : Carried(t, x.todo[k])
      BY <2>1, <3>1
    <3>3. tx' = [tx EXCEPT ![t] = x]
      BY <2>3 DEF x
    <3> QED BY <2>3, <3>2, <3>3, OneTodo, LogSame
  <2>4. CASE tx' = [tx EXCEPT ![t] = [y EXCEPT !.phase = "persist"]] /\ Logs(ev, "open", t)
    <3> HIDE DEF y
    <3> DEFINE x == [y EXCEPT !.phase = "persist"]
    <3>1. x.todo = tx[t].todo
      BY <2>2, TxUpdates
    <3> HIDE DEF x
    <3>2. \A k \in DOMAIN x.todo : Carried(t, x.todo[k])
      BY <3>1 DEF Carried
    <3>3. tx' = [tx EXCEPT ![t] = x]
      BY <2>4 DEF x
    <3>4. TodoMoves
      BY <3>2, <3>3, OneTodo
    <3>5. LogSources
      BY <2>1, <2>4, LogAdds
    <3> QED BY <3>4, <3>5
  <2> QED BY <1>4, <2>3, <2>4 DEF Insert, Set
<1>5. CASE Persist(t)
  <2>1. tx[t].phase = "persist" /\ log' = log
    BY <1>5 DEF Persist
  <2>2. PICK y : tx' = [tx EXCEPT ![t] = Handled(y)] /\ DOMAIN y = TxFields /\ y.todo = tx[t].todo
    <3> DEFINE ev == Head(tx[t].todo)
               rows == [e \in DOMAIN tx[t].rows \cup {ev.ent} |->
                         IF e = ev.ent THEN Persisted(ev, RowSeen(t, ev.ent)) ELSE tx[t].rows[e]]
               z == [tx[t] EXCEPT !.rows = rows]
    <3>1. tx' = [tx EXCEPT ![t] = Handled(tx[t])] \/ tx' = [tx EXCEPT ![t] = Handled(z)]
      BY <1>5 DEF Persist, Set
    <3> HIDE DEF rows
    <3>2. DOMAIN z = TxFields /\ z.todo = tx[t].todo
      BY <1>1, TxUpdates
    <3> HIDE DEF z
    <3> QED BY <1>1, <3>1, <3>2
  <2> DEFINE x == Handled(y)
  <2>3. x.todo = Tail(tx[t].todo) /\ tx' = [tx EXCEPT ![t] = x]
    BY <2>2, HandledFields
  <2> HIDE DEF x
  <2>4. \A k \in DOMAIN x.todo : Carried(t, x.todo[k])
    BY <2>1, <2>3, TailCarried
  <2> QED BY <2>1, <2>3, <2>4, OneTodo, LogSame
<1>6. ASSUME NEW p, NEW s, log' = Resolved(t, s), tx' = [tx EXCEPT ![t] = Answer(t, p)] PROVE TodoMoves /\ LogSources
  <2> DEFINE x == Answer(t, p)
  <2>1. x.todo = <<>>
    BY DEF Answer, NoTx
  <2>2. tx' = [tx EXCEPT ![t] = x]
    BY <1>6
  <2> HIDE DEF x
  <2>3. \A k \in DOMAIN x.todo : Carried(t, x.todo[k])
    BY <2>1
  <2> QED BY <1>6, <2>2, <2>3, OneTodo, LogSame
<1>7. CASE Commit(t) \/ Abort(t)
  BY <1>6, <1>7 DEF Commit, Abort, Set
<1> QED BY <1>2, <1>3, <1>4, <1>5, <1>7 DEF PushStep, PushAborts

LEMMA SendSources == ASSUME DeliveryInv, NEW t \in Tab, Send(t) PROVE TodoMoves /\ LogSources
<1> DEFINE x == [NoTx EXCEPT !.phase = "check", !.todo = Batch(t)]
<1>1. flow[t].pc = "send" /\ tx' = [tx EXCEPT ![t] = x] /\ log' = log
  BY DEF Send, Set
<1>2. x.todo = Batch(t)
  BY DEF NoTx
<1> HIDE DEF x
<1>3. \A k \in DOMAIN x.todo : From(dev(t), x.todo[k])
  BY <1>1, <1>2, BatchTyped, FlowTyped DEF From, Items
<1>4. Pushes
  BY DEF DeliveryInv, TypeInv
<1> QED BY <1>1, <1>3, <1>4, OneTodo, LogSame

\* A tab forgets its push.
LEMMA ForgetsSources ==
  ASSUME DeliveryInv, NEW t \in Tab, UNCHANGED log, NEW x, x = tx[t] \/ x = NoTx, tx' = [tx EXCEPT ![t] = x]
  PROVE  TodoMoves /\ LogSources
<1>1. \A k \in DOMAIN x.todo : Carried(t, x.todo[k])
  <2>1. NoTx.todo = <<>>
    BY DEF NoTx
  <2> QED BY <2>1 DEF Carried
<1>2. Pushes
  BY DEF DeliveryInv, TypeInv
<1> QED BY <1>1, <1>2, OneTodo, LogSame

LEMMA HostedSources ==
  ASSUME DeliveryInv, OrderInv, \/ \E e \in Entity, op \in {"put", "del"} : HostedNote(e, op) \/ HostedPosition(e, op)
                                \/ HostedWrites
  PROVE  TodoMoves /\ LogSources
<1>1. Server
  BY DEF DeliveryInv, TypeInv
<1>2. ASSUME NEW e \in Entity, NEW op \in {"put", "del"}, HostedNote(e, op) PROVE TodoMoves /\ LogSources
  <2>1. PICK made : Logs(WebEdited(e, op, made), "kept", NoRow) /\ UNCHANGED tx
    BY <1>2, Zenon DEF HostedNote
  <2>2. WebEdited(e, op, made).by = Web
    BY DEF WebEdited, Edited
  <2> QED BY <1>1, <2>1, <2>2, TodoStays, LogAdds
<1>3. ASSUME NEW e \in Entity, NEW op \in {"put", "del"}, HostedPosition(e, op) PROVE TodoMoves /\ LogSources
  <2>1. UNCHANGED <<tx, log>>
    BY <1>3 DEF HostedPosition
  <2> QED BY <2>1, TodoStays, LogSame
<1>4. CASE HostedWrites
  <2>1. UNCHANGED tx /\ (Logs(web, "kept", NoRow) \/ log' = log) /\ web.by = Web
    BY <1>4 DEF HostedWrites, OrderInv, Hosting
  <2> QED BY <1>1, <2>1, TodoStays, LogAdds, LogSame
<1> QED BY <1>2, <1>3, <1>4

\* What happens on a device alone.
LEMMA DeviceSources == ASSUME UNCHANGED serverVars PROVE TodoMoves /\ LogSources
BY TodoStays, LogSame DEF serverVars

LEMMA StepSources == ASSUME DeliveryInv, OrderInv, [Next]_vars PROVE TodoMoves /\ LogSources
<1>1. ASSUME NEW t \in Tab, PushStep(t) \/ PushAborts(t) PROVE TodoMoves /\ LogSources
  BY <1>1, PushSources DEF DeliveryInv, TypeInv
<1>2. ASSUME NEW t \in Tab, PushFailed(t) \/ TabDies(t) \/ Settle(t) PROVE TodoMoves /\ LogSources
  <2>1. PICK x : UNCHANGED log /\ (x = tx[t] \/ x = NoTx) /\ tx' = [tx EXCEPT ![t] = x]
    BY <1>2 DEF PushFailed, TabDies, Settle, Set
  <2> QED BY <2>1, ForgetsSources
<1>3. ASSUME NEW t \in Tab, FlowStep(t) PROVE TodoMoves /\ LogSources
  <2>1. CASE Recover(t) \/ List(t) \/ Compact(t) \/ Claim(t) \/ Pull(t) \/ Snapshot(t) \/ Mark(t)
    <3>1. UNCHANGED serverVars
      BY <2>1 DEF Recover, List, Compact, Claim, Pull, Snapshot, Mark, Outside
    <3> QED BY <3>1, DeviceSources
  <2>2. CASE PullTimesOut(t) \/ Apply(t) \/ Save(t) \/ Finish(t)
    <3>1. UNCHANGED serverVars
      BY <2>2 DEF PullTimesOut, PullFailed, Apply, Save, Finish
    <3> QED BY <3>1, DeviceSources
  <2>3. CASE Send(t)
    BY <2>3, SendSources
  <2>4. CASE Settle(t) \/ PushRefused(t)
    BY <1>2, <2>4 DEF PushRefused
  <2> QED BY <1>3, <2>1, <2>2, <2>3, <2>4 DEF FlowStep
<1>4. CASE User
  <2>1. ASSUME NEW t \in Tab, NEW e \in Entity, NEW op \in {"put", "del"}, Edit(t, e, op) PROVE UNCHANGED serverVars
    BY <2>1 DEF Edit
  <2>2. ASSUME NEW t \in Tab, SyncNow(t) \/ AcceptRemote(t) \/ Open(t) PROVE UNCHANGED serverVars
    BY <2>2 DEF SyncNow, AcceptRemote, Started, Open
  <2>3. ASSUME NEW t \in Tab, NEW i, Discard(t, i) PROVE UNCHANGED serverVars
    BY <2>3 DEF Discard
  <2> QED BY <1>4, <2>1, <2>2, <2>3, HostedSources, DeviceSources DEF User
<1>5. CASE Faults
  <2>1. ASSUME NEW t \in Tab, PullLost(t) PROVE UNCHANGED serverVars
    BY <2>1 DEF PullLost, PullFailed
  <2> QED BY <1>1, <1>2, <1>5, <2>1, DeviceSources DEF Faults, PushLost
<1>6. ASSUME NEW t \in Tab, TimerFires(t) PROVE UNCHANGED serverVars
  BY <1>6 DEF TimerFires, Started
<1>7. ASSUME NEW d \in Device, NEW i, LeaseExpires(d, i) PROVE UNCHANGED serverVars
  BY <1>7 DEF LeaseExpires
<1>8. CASE UNCHANGED vars
  BY <1>8, DeviceSources DEF vars
<1> QED BY <1>1, <1>3, <1>4, <1>5, <1>6, <1>7, <1>8, HostedSources, DeviceSources DEF Next

-----------------------------------------------------------------------------
(* What changes the copies *)

Calm == UNCHANGED <<local, applied, rewound>>

\* A step edits, applies a page or leaves the copies alone, and time does not go back.
LEMMA StepKinds ==
  ASSUME [Next]_vars
  PROVE  /\ Edits \/ (\E t \in Tab : Apply(t)) \/ Calm
         /\ now' = now \/ now' = now + 1
<1> DEFINE Goes == now' = now \/ now' = now + 1
           Kind == (Edits \/ (\E t \in Tab : Apply(t)) \/ Calm) /\ Goes
<1>1. ASSUME NEW t \in Tab, FlowStep(t) PROVE Kind
  <2>1. CASE Recover(t) \/ List(t) \/ Compact(t) \/ Claim(t) \/ Pull(t) \/ Snapshot(t) \/ Mark(t)
    BY <2>1 DEF Recover, List, Compact, Claim, Pull, Snapshot, Mark, Outside, Calm
  <2>2. CASE PullTimesOut(t) \/ Save(t) \/ Finish(t)
    BY <2>2 DEF PullTimesOut, PullFailed, Save, Finish, Calm
  <2>3. CASE Send(t) \/ Settle(t) \/ PushRefused(t)
    BY <2>3 DEF Send, Settle, PushRefused, PushFailed, Calm, deviceVars
  <2>4. CASE Apply(t)
    BY <2>4 DEF Apply
  <2> QED BY <1>1, <2>1, <2>2, <2>3, <2>4 DEF FlowStep
<1>2. CASE User
  <2>1. ASSUME NEW t \in Tab, NEW e \in Entity, NEW op \in {"put", "del"}, Edit(t, e, op) PROVE Kind
    <3>1. Goes
      BY <2>1 DEF Edit, NewEdit
    <3>2. Edits
      BY <2>1, Zenon DEF Edits
    <3> QED BY <3>1, <3>2
  <2>2. ASSUME NEW t \in Tab, SyncNow(t) \/ AcceptRemote(t) \/ Open(t) PROVE Kind
    BY <2>2 DEF SyncNow, AcceptRemote, Started, Open, Calm
  <2>3. ASSUME NEW t \in Tab, NEW i, Discard(t, i) PROVE Kind
    BY <2>3 DEF Discard, Calm
  <2>4. ASSUME NEW e \in Entity, NEW op \in {"put", "del"}, HostedNote(e, op) \/ HostedPosition(e, op) PROVE Kind
    BY <2>4 DEF HostedNote, HostedPosition, Arrival, NewEdit, Calm, deviceVars
  <2> QED BY <1>2, <2>1, <2>2, <2>3, <2>4 DEF User
<1>3. CASE Faults
  BY <1>3 DEF Faults, TabDies, PushLost, PushFailed, PullLost, PullFailed, PushAborts, Calm, deviceVars
<1>4. CASE HostedWrites
  BY <1>4 DEF HostedWrites, Calm, deviceVars
<1>5. ASSUME NEW t \in Tab, TimerFires(t) \/ PushStep(t) PROVE Kind
  BY <1>5 DEF TimerFires, Started, PushStep, Calm, deviceVars
<1>6. ASSUME NEW d \in Device, NEW i, LeaseExpires(d, i) PROVE Kind
  BY <1>6 DEF LeaseExpires, Calm
<1>7. CASE UNCHANGED vars
  BY <1>7 DEF vars, Calm, deviceVars
<1> QED BY <1>1, <1>2, <1>3, <1>4, <1>5, <1>6, <1>7 DEF Next

\* No step changes the event of an entry.
LEMMA EventStays ==
  ASSUME Server, LogStep, NEW i \in DOMAIN log
  PROVE  i \in DOMAIN log' /\ log'[i].ev = log[i].ev
<1>1. CASE log' = log
  BY <1>1
<1>2. ASSUME NEW v, NEW s, NEW t, Logs(v, s, t) PROVE i \in DOMAIN log' /\ log'[i] = log[i]
  <2> DEFINE e == [ev |-> v, state |-> s, tab |-> t]
  <2>1. log' = Append(log, e)
    BY <1>2 DEF Logs
  <2> HIDE DEF e
  <2>2. IsLog(log)
    BY DEF Server, IsLog
  <2>3. /\ DOMAIN log = 1..Len(log) /\ Len(log) \in Nat /\ DOMAIN Append(log, e) = 1..(Len(log) + 1)
        /\ \A k \in 1..Len(log) : Append(log, e)[k] = log[k]
    BY <2>2, LogAppend
  <2> QED BY <2>1, <2>3
<1>3. ASSUME NEW t, NEW s, log' = Resolved(t, s) PROVE i \in DOMAIN log' /\ log'[i].ev = log[i].ev
  BY <1>3 DEF Resolved
<1> QED BY <1>1, <1>2, <1>3 DEF LogStep

-----------------------------------------------------------------------------
(* The invariant *)

\* An item is dated by the clock of its device and numbered by its place.
Dated ==
  \A d \in Device : \A i \in DOMAIN outbox[d] :
    /\ outbox[d][i].ev.by = d /\ outbox[d][i].ev.n = i
    /\ outbox[d][i].ev.at <= now + Skew[d]

\* Pushes carry events of the outbox of their device, and the log keeps no others but
\* those of hosted clients.
Sourced ==
  /\ \A t \in Tab : \A k \in DOMAIN tx[t].todo : From(dev(t), tx[t].todo[k])
  /\ \A i \in DOMAIN log : log[i].ev.by = Web \/ \E d \in Device : From(d, log[i].ev)

\* A device has applied what is kept, and nothing before what it has applied is missing.
AppliedInOrder ==
  \A d \in Device : \A j \in applied[d] :
    j \in DOMAIN log /\ log[j].state = "kept" /\ Covered(log, j, applied[d])

\* The last edit of entity e in the outbox of d.
LastOwn(d, e, ev) ==
  /\ ev.ent = e
  /\ \E i \in DOMAIN outbox[d] : /\ outbox[d][i].ev = ev
                                 /\ \A j \in DOMAIN outbox[d] : outbox[d][j].ev.ent = e => j <= i

\* The copy of d is what the applied events make of nothing, or the last edit of d has
\* not come back yet and is as late as both.
CopyLevel(d, e) ==
  \E s \in Copy, ev \in Rows :
    /\ Makes(EventsOf(applied[d], e), s)
    /\ Level(local[d][e], s, EventsOf(applied[d], e), DOMAIN EventsOf(applied[d], e), ev)
    /\ ev # NoRow => LastOwn(d, e, ev)

CopiesLevel == \A d \in Device, e \in Entity \ rewound : CopyLevel(d, e)

CopyInv == Dated /\ Sourced /\ AppliedInOrder /\ CopiesLevel

-----------------------------------------------------------------------------
(* Dates, sources and the applied entries *)

\* An item stays what it is.
LEMMA ItemStays ==
  ASSUME QueuesMove, NEW d \in Device, NEW i \in DOMAIN outbox[d]
  PROVE  i \in DOMAIN outbox'[d] /\ outbox'[d][i].ev = outbox[d][i].ev
BY DEF QueuesMove, OutboxMoves, Rewrites

LEMMA FromStays ==
  ASSUME QueuesMove, NEW d \in Device, NEW ev, From(d, ev) PROVE From(d, ev)'
BY ItemStays DEF From

\* What an edit does to the outbox.
LEMMA EditItem ==
  ASSUME DeliveryInv, NEW t \in Tab, NEW e \in Entity, NEW op \in {"put", "del"}, Edit(t, e, op)
  PROVE  \E ev \in Event :
           /\ ev.by = dev(t) /\ ev.n = Len(outbox[dev(t)]) + 1 /\ ev.ent = e /\ ev.op = op
           /\ ev.at = now' + Skew[dev(t)] /\ now' \in Nat
           /\ DOMAIN outbox'[dev(t)] = DOMAIN outbox[dev(t)] \cup {ev.n}
           /\ outbox'[dev(t)][ev.n].ev = ev
           /\ \A i \in DOMAIN outbox[dev(t)] : i < ev.n /\ outbox'[dev(t)][i] = outbox[dev(t)][i]
           /\ \A c \in Device : c # dev(t) => outbox'[c] = outbox[c]
           /\ local' = [local EXCEPT ![dev(t)][e] = LocalCopy(local[dev(t)][e], ev)]
           /\ rewound' = IF Predates(ev, local[dev(t)][e]) THEN rewound \cup {e} ELSE rewound
           /\ UNCHANGED <<log, applied>>
<1> DEFINE d == dev(t)
           q == outbox[d]
<1>1. PICK time \in {now, now + 1} :
        /\ now' = time
        /\ local' = [local EXCEPT ![d][e] = LocalCopy(@, Edited(d, Len(q) + 1, e, op, time))]
        /\ outbox' = [outbox EXCEPT ![d] = Append(@,
             [ev |-> Edited(d, Len(q) + 1, e, op, time), status |-> "pending", tab |-> NoRow,
              expired |-> FALSE, dropped |-> FALSE])]
        /\ rewound' = IF Predates(Edited(d, Len(q) + 1, e, op, time), local[d][e])
                      THEN rewound \cup {e} ELSE rewound
        /\ UNCHANGED <<log, applied>>
  BY Zenon DEF Edit, NewEdit, serverVars
<1>2. d \in Device /\ d \in Author /\ Clocks /\ Queues
  BY DevType DEF Author, DeliveryInv, TypeInv
<1>3. q \in Seq(Item) /\ DOMAIN q = 1..Len(q) /\ Len(q) \in Nat
  BY <1>2, OutboxTyped
<1>4. PICK ev \in Event :
        /\ ev = Edited(d, Len(q) + 1, e, op, time)
        /\ ev.by = d /\ ev.n = Len(q) + 1 /\ ev.ent = e /\ ev.op = op /\ ev.at = time + Skew[d]
  <2>1. Len(q) + 1 \in Nat
    BY <1>3
  <2> DEFINE n == Len(q) + 1
  <2> HIDE DEF n, d
  <2>2. Edited(d, n, e, op, time) \in Event
    BY <1>2, <2>1, EditedEvent DEF n
  <2>3. /\ Edited(d, n, e, op, time).by = d /\ Edited(d, n, e, op, time).n = n
        /\ Edited(d, n, e, op, time).ent = e /\ Edited(d, n, e, op, time).op = op
        /\ Edited(d, n, e, op, time).at = time + Skew[d]
    BY DEF Edited
  <2> QED BY <2>2, <2>3 DEF n
<1> DEFINE x == [ev |-> ev, status |-> "pending", tab |-> NoRow, expired |-> FALSE, dropped |-> FALSE]
<1>5. x.ev = ev /\ outbox' = [outbox EXCEPT ![d] = Append(q, x)]
  BY <1>1, <1>4
<1> HIDE DEF x
<1>6. IsLog(q)
  BY <1>3 DEF IsLog
<1>7. /\ DOMAIN Append(q, x) = 1..(Len(q) + 1)
      /\ \A i \in 1..Len(q) : Append(q, x)[i] = q[i]
      /\ Append(q, x)[Len(q) + 1] = x
  BY <1>6, LogAppend
<1>8. outbox'[d] = Append(q, x) /\ \A c \in Device : c # d => outbox'[c] = outbox[c]
  BY <1>2, <1>5 DEF Queues
<1>9. time \in Nat
  BY <1>2 DEF Clocks
<1>10. /\ DOMAIN outbox'[d] = DOMAIN q \cup {ev.n} /\ outbox'[d][ev.n].ev = ev
       /\ \A i \in DOMAIN q : i < ev.n /\ outbox'[d][i] = q[i]
  BY <1>3, <1>4, <1>5, <1>7, <1>8
<1>11. /\ local' = [local EXCEPT ![d][e] = LocalCopy(local[d][e], ev)]
       /\ rewound' = IF Predates(ev, local[d][e]) THEN rewound \cup {e} ELSE rewound
       /\ ev.at = now' + Skew[d] /\ now' \in Nat
  BY <1>1, <1>4, <1>9
<1> QED BY <1>1, <1>4, <1>8, <1>10, <1>11

LEMMA TimeTyped ==
  ASSUME DeliveryInv, NEW d \in Device
  PROVE  /\ now \in Nat /\ Skew[d] \in Nat
         /\ \A i \in DOMAIN outbox[d] : outbox[d][i].ev \in Event /\ outbox[d][i].ev.at \in Nat
<1>1. now \in Nat /\ Queues
  BY DEF DeliveryInv, TypeInv, Clocks
<1>2. \A i \in DOMAIN outbox[d] : outbox[d][i].ev \in Event
  BY <1>1, OutboxTyped DEF Item
<1> QED BY <1>1, <1>2, SyncAssumption, EventTimes DEF Author

LEMMA DatedNext ==
  ASSUME DeliveryInv, QueuesMove, Dated, [Next]_vars PROVE Dated'
<1>1. ASSUME NEW d \in Device, NEW i \in DOMAIN outbox[d]
      PROVE  /\ outbox'[d][i].ev.by = d /\ outbox'[d][i].ev.n = i
             /\ outbox'[d][i].ev.at <= now' + Skew[d]
  <2>1. now \in Nat /\ Skew[d] \in Nat /\ outbox[d][i].ev.at \in Nat /\ outbox'[d][i].ev = outbox[d][i].ev
    BY TimeTyped, ItemStays
  <2>2. now' = now \/ now' = now + 1
    BY StepKinds
  <2> QED BY <2>1, <2>2 DEF Dated
<1>2. CASE \A d \in Device : DOMAIN outbox'[d] = DOMAIN outbox[d]
  BY <1>1, <1>2 DEF Dated
<1>3. ASSUME NEW t \in Tab, NEW e \in Entity, NEW op \in {"put", "del"}, Edit(t, e, op) PROVE Dated'
  <2>1. PICK ev \in Event :
           /\ ev.by = dev(t) /\ ev.at = now' + Skew[dev(t)] /\ now' \in Nat
           /\ DOMAIN outbox'[dev(t)] = DOMAIN outbox[dev(t)] \cup {ev.n}
           /\ outbox'[dev(t)][ev.n].ev = ev
           /\ \A c \in Device : c # dev(t) => outbox'[c] = outbox[c]
    BY <1>3, EditItem
  <2>2. ev.at <= now' + Skew[dev(t)]
    BY <2>1, TimeTyped, DevType
  <2> QED BY <1>1, <2>1, <2>2 DEF Dated
<1> QED BY <1>2, <1>3 DEF QueuesMove, OutboxMoves, Edits

LEMMA SourcedNext ==
  ASSUME DeliveryInv, OrderInv, QueuesMove, Sourced, [Next]_vars PROVE Sourced'
<1>1. TodoMoves /\ LogSources
  BY StepSources
<1>2. \A t \in Tab : \A ev : Carried(t, ev) => From(dev(t), ev)
  BY DEF Sourced, Carried
<1>3. \A t \in Tab : dev(t) \in Device
  BY DevType
<1>4. ASSUME NEW t \in Tab, NEW k \in DOMAIN tx'[t].todo PROVE From(dev(t), tx[t].todo[k])'
  <2>1. PICK ev : ev = tx'[t].todo[k]
    OBVIOUS
  <2>2. From(dev(t), ev)
    BY <1>1, <1>2, <2>1 DEF TodoMoves
  <2>3. PICK d \in Device : d = dev(t)
    BY <1>3
  <2>4. From(d, ev)'
    BY <2>2, <2>3, FromStays
  <2> QED BY <2>1, <2>3, <2>4 DEF From, dev
<1>5. ASSUME NEW i \in DOMAIN log', log'[i].ev.by # Web
      PROVE  \E d \in Device : From(d, log[i].ev)'
  <2>1. PICK ev : ev = log'[i].ev
    OBVIOUS
  <2>2. PICK d \in Device : From(d, ev)
    BY <1>1, <1>2, <1>3, <1>5, <2>1 DEF LogSources, Sourced
  <2>3. From(d, ev)'
    BY <2>2, FromStays
  <2> QED BY <2>1, <2>3 DEF From
<1> QED BY <1>4, <1>5 DEF Sourced

LEMMA AppliedInOrderNext ==
  ASSUME DeliveryInv, AppliedInOrder, [Next]_vars PROVE AppliedInOrder'
<1>1. FeedInv /\ Shape /\ Server /\ DOMAIN applied = Device
  BY DEF DeliveryInv, TypeInv, FeedInv, Shape
<1>2. LogStep /\ CursorStep
  BY <1>1, FeedNext DEF FeedKept
<1>3. ASSUME NEW d \in Device, NEW j \in applied[d]
      PROVE  j \in DOMAIN log' /\ log'[j].state = "kept" /\ Covered(log', j, applied'[d])
  <2>1. j \in DOMAIN log /\ log[j].state = "kept" /\ Covered(log, j, applied[d])
    BY <1>3 DEF AppliedInOrder
  <2>2. applied[d] \subseteq applied'[d]
    BY <1>1, <1>2, CursorShape
  <2>3. j \in DOMAIN log' /\ log'[j].state = "kept"
    BY <1>1, <1>2, <2>1, LogShape
  <2>4. Covered(log', j, applied'[d])
    <3> DEFINE A == applied[d]
               B == applied'[d]
    <3>1. A \subseteq B /\ Covered(log, j, A)
      BY <2>1, <2>2
    <3> HIDE DEF A, B
    <3>2. Covered(log', j, B)
      BY <1>1, <1>2, <3>1, CoveredStays
    <3> QED BY <3>2 DEF B
  <2> QED BY <2>3, <2>4
<1>4. CASE UNCHANGED applied
  BY <1>3, <1>4 DEF AppliedInOrder, Covered
<1>5. ASSUME NEW t \in Tab, flow[t].pc = "apply", UNCHANGED log,
             applied' = [applied EXCEPT ![dev(t)] = applied[dev(t)] \cup flow[t].page]
      PROVE  AppliedInOrder'
  <2>1. /\ Covered(log, flow[t].cur, applied[dev(t)] \cup flow[t].page)
        /\ flow[t].page \subseteq Published
        /\ \A i \in flow[t].page : i <= flow[t].cur
    BY <1>1, <1>5 DEF FeedInv, Reads
  <2>2. dev(t) \in Device /\ applied'[dev(t)] = applied[dev(t)] \cup flow[t].page
        /\ \A d \in Device : d # dev(t) => applied'[d] = applied[d]
    BY <1>1, <1>5, DevType
  <2>3. DOMAIN log \subseteq Nat
    BY <1>1, LogTyped
  <2>4. ASSUME NEW j \in flow[t].page PROVE j \in DOMAIN log /\ log[j].state = "kept" /\ Covered(log, j, applied'[dev(t)])
    BY <2>1, <2>2, <2>3, <2>4 DEF Covered, Published
  <2>5. \A d \in Device : \A j \in applied'[d] :
          j \in DOMAIN log' /\ log'[j].state = "kept" /\ Covered(log', j, applied'[d])
    BY <1>3, <1>5, <2>2, <2>4
  <2> QED BY <2>5 DEF AppliedInOrder, Covered
<1> QED BY <1>2, <1>4, <1>5 DEF CursorStep

-----------------------------------------------------------------------------
(* The copies stay level *)

\* What a device has applied is in the log.
LEMMA AppliedLogged ==
  ASSUME AppliedInOrder, NEW d \in Device PROVE applied[d] \subseteq DOMAIN log
BY DEF AppliedInOrder

LEMMA SameEventsOf ==
  ASSUME Server, LogStep, AppliedInOrder, NEW d \in Device, applied'[d] = applied[d], NEW e
  PROVE  EventsOf(applied[d], e)' = EventsOf(applied[d], e)
<1>1. \A i \in applied[d] : log'[i].ev = log[i].ev
  BY EventStays, AppliedLogged
<1> QED BY <1>1 DEF EventsOf

LEMMA LastOwnStays ==
  ASSUME QueuesMove, NEW d \in Device, NEW e, NEW ev, LastOwn(d, e, ev),
         \A i \in DOMAIN outbox'[d] : i \in DOMAIN outbox[d] \/ outbox'[d][i].ev.ent # e
  PROVE  LastOwn(d, e, ev)'
<1>1. \A i \in DOMAIN outbox[d] : i \in DOMAIN outbox'[d] /\ outbox'[d][i].ev = outbox[d][i].ev
  BY ItemStays
<1> QED BY <1>1 DEF LastOwn

\* The copy of an entity is left alone, and no edit is newly the last.
LEMMA CopyStays ==
  ASSUME Server, LogStep, AppliedInOrder, QueuesMove, NEW d \in Device, NEW e, CopyLevel(d, e),
         applied'[d] = applied[d], local'[d][e] = local[d][e],
         \A i \in DOMAIN outbox'[d] : i \in DOMAIN outbox[d] \/ outbox'[d][i].ev.ent # e
  PROVE  CopyLevel(d, e)'
<1>1. PICK s \in Copy, ev \in Rows :
        /\ Makes(EventsOf(applied[d], e), s)
        /\ Level(local[d][e], s, EventsOf(applied[d], e), DOMAIN EventsOf(applied[d], e), ev)
        /\ ev # NoRow => LastOwn(d, e, ev)
  BY DEF CopyLevel
<1>2. PICK E : E = EventsOf(applied[d], e)
  OBVIOUS
<1>3. PICK c : c = local[d][e]
  OBVIOUS
<1>4. EventsOf(applied[d], e)' = E /\ local'[d][e] = c
  BY <1>2, <1>3, SameEventsOf
<1>5. ev # NoRow => LastOwn(d, e, ev)'
  BY <1>1, LastOwnStays
<1>6. Makes(E, s) /\ Level(c, s, E, DOMAIN E, ev)
  BY <1>1, <1>2, <1>3
<1>7. Makes(EventsOf(applied[d], e)', s) /\ Level(local'[d][e], s, EventsOf(applied[d], e)', DOMAIN (EventsOf(applied[d], e)'), ev)
  BY <1>4, <1>6
<1> QED BY <1>5, <1>7 DEF CopyLevel, Makes, Level, Run, UpTo, Applied, AppliedNote, AppliedPosition,
           Predates, NotOlder, Removed, Nothing

LEMMA CopyTyped ==
  ASSUME DeliveryInv, NEW d \in Device, NEW e \in Entity PROVE local[d] \in [Entity -> Copy] /\ local[d][e] \in Copy
BY DEF DeliveryInv, TypeInv, Copies

\* An edit that is not older than the copy is as late as what it replaces and what is applied.
LEMMA EditLevel ==
  ASSUME DeliveryInv, CopyInv, QueuesMove, NEW d \in Device, NEW e \in Entity, CopyLevel(d, e),
         NEW ev \in Event, ev.ent = e, ev.by = d, ev.n = Len(outbox[d]) + 1,
         ev.at = now' + Skew[d], now' = now \/ now' = now + 1, ~Predates(ev, local[d][e]),
         DOMAIN outbox'[d] = DOMAIN outbox[d] \cup {ev.n}, outbox'[d][ev.n].ev = ev,
         \A i \in DOMAIN outbox[d] : i < ev.n,
         UNCHANGED <<log, applied>>, local'[d][e] = LocalCopy(local[d][e], ev)
  PROVE  CopyLevel(d, e)'
<1>1. PICK s \in Copy, last \in Rows :
        /\ Makes(EventsOf(applied[d], e), s)
        /\ Level(local[d][e], s, EventsOf(applied[d], e), DOMAIN EventsOf(applied[d], e), last)
        /\ last # NoRow => LastOwn(d, e, last)
  BY DEF CopyLevel
<1>2. PICK E : E = EventsOf(applied[d], e) /\ EventsOf(applied[d], e)' = E
  BY DEF EventsOf
<1>3. PICK c \in Copy : c = local[d][e]
  BY CopyTyped
<1>4. ev.at \in Nat /\ ev # NoRow /\ ev.op \in {"put", "del"}
  BY EventTimes
<1>5. (c.row # NoRow => c.row.at <= ev.at) /\ c.tomb <= ev.at
  BY <1>3, <1>4, CopyFields DEF Predates, NotOlder
<1>6. UpTo(LocalCopy(c, ev), ev.at)
  BY <1>4, <1>5, CopyFields DEF LocalCopy, UpTo
<1>7. UpTo(s, ev.at)
  <2>1. CASE c = s
    BY <1>5, <2>1 DEF UpTo
  <2>2. CASE last # NoRow /\ UpTo(s, last.at)
    <3>1. PICK i \in DOMAIN outbox[d] : outbox[d][i].ev = last
      BY <1>1, <2>2 DEF LastOwn
    <3>2. last.at \in Nat /\ last.at <= now + Skew[d] /\ now \in Nat /\ Skew[d] \in Nat
      BY <3>1, TimeTyped DEF CopyInv, Dated
    <3>3. last.at <= ev.at
      BY <3>2
    <3> QED BY <1>4, <2>2, <3>2, <3>3, UpToLater
  <2> QED BY <1>1, <1>2, <1>3, <2>1, <2>2 DEF Level
<1>8. \A i \in DOMAIN E : E[i] # ev
  <2> SUFFICES ASSUME NEW i \in DOMAIN E, E[i] = ev PROVE FALSE
    OBVIOUS
  <2>1. i \in DOMAIN log /\ log[i].ev = ev
    BY <1>2, AppliedLogged DEF EventsOf, CopyInv
  <2>2. ev.by # Web
    BY SyncAssumption
  <2>3. PICK x \in Device : From(x, ev)
    BY <2>1, <2>2 DEF CopyInv, Sourced
  <2>4. PICK k \in DOMAIN outbox[x] : outbox[x][k].ev = ev
    BY <2>3 DEF From
  <2>5. x = d /\ ev.n = k
    BY <2>4 DEF CopyInv, Dated
  <2>6. k \in Nat /\ k < k
    BY <2>4, <2>5, OutboxTyped DEF DeliveryInv, TypeInv
  <2> QED BY <2>6
<1>9. LastOwn(d, e, ev)'
  <2>1. \A i \in DOMAIN outbox'[d] : i <= ev.n
    <3>1. DOMAIN outbox[d] \subseteq Nat /\ ev.n \in Nat
      BY OutboxTyped DEF DeliveryInv, TypeInv
    <3> QED BY <3>1
  <2> QED BY <2>1 DEF LastOwn
<1>10. ev \in Rows /\ Makes(E, s) /\ Level(LocalCopy(c, ev), s, E, DOMAIN E, ev)
  BY <1>1, <1>2, <1>4, <1>6, <1>7, <1>8 DEF Level, Rows
<1>11. /\ Makes(EventsOf(applied[d], e)', s)
       /\ Level(local'[d][e], s, EventsOf(applied[d], e)', DOMAIN (EventsOf(applied[d], e)'), ev)
  BY <1>2, <1>3, <1>10
<1> QED BY <1>9, <1>10, <1>11 DEF CopyLevel, Makes, Level, Run, UpTo, Applied, AppliedNote, AppliedPosition,
           Predates, NotOlder, Removed, Nothing

\* A page that turns nothing back leaves the copy level with what is then applied.
LEMMA ApplyLevel ==
  ASSUME DeliveryInv, CopyInv, NEW d \in Device, NEW P, P \subseteq Published, NEW e \in Entity, CopyLevel(d, e),
         \A i \in P, j \in applied[d] :
           i < j /\ log[i].ev.ent = e /\ log[j].ev.ent = e => j \in P /\ log[i].ev.at <= log[j].ev.at
  PROVE  \E s \in Copy, ev \in Rows :
           /\ Makes(EventsOf(applied[d] \cup P, e), s)
           /\ Level(AppliedAll(local[d], P)[e], s, EventsOf(applied[d] \cup P, e),
                    DOMAIN EventsOf(applied[d] \cup P, e), ev)
           /\ ev # NoRow => LastOwn(d, e, ev)
<1> DEFINE A == applied[d]
           n == Len(log)
           E == EventsOf(A \cup P, e)
           F == EventsOf(A, e)
           G == EventsOf(P, e)
           S == {j \in A : log[j].ev.ent = e}
           T == {j \in P : log[j].ev.ent = e}
<1>1. PICK s \in Copy, ev \in Rows :
        /\ Makes(F, s) /\ Level(local[d][e], s, F, DOMAIN F, ev)
        /\ ev # NoRow => LastOwn(d, e, ev)
  BY DEF CopyLevel
<1>2. Server /\ n \in Nat /\ A \subseteq DOMAIN log /\ P \subseteq DOMAIN log
  BY AppliedLogged, LogTyped DEF DeliveryInv, TypeInv, CopyInv, Published
<1>3. local[d] \in [Entity -> Copy] /\ local[d][e] \in Copy
  BY CopyTyped
<1>4. /\ Events(E) /\ DOMAIN E \subseteq 1..n /\ DOMAIN E = S \cup T /\ \A i \in S \cup T : E[i] = log[i].ev
      /\ DOMAIN F = S /\ DOMAIN G = T
      /\ \A i \in S : F[i] = log[i].ev
      /\ \A i \in T : G[i] = log[i].ev
      /\ DOMAIN F \subseteq 1..n
  <2> DEFINE B == A \cup P
  <2>1. B \subseteq DOMAIN log
    BY <1>2
  <2> HIDE DEF A, B
  <2>2. Events(EventsOf(B, e)) /\ DOMAIN EventsOf(B, e) \subseteq 1..n
    BY <1>2, <2>1, EventsTyped
  <2>3. DOMAIN F \subseteq 1..n
    BY <1>2, EventsTyped
  <2> QED BY <2>2, <2>3 DEF EventsOf, B
<1>5. Part(E, S) = F /\ Part(E, T) = G
  BY <1>4 DEF Part, EventsOf
<1>6. Resumes(E, S, T, n)
  <2> SUFFICES ASSUME NEW i \in T, NEW j \in S, i < j PROVE i \in S /\ j \in T /\ E[i].at <= E[j].at
    BY <1>2, <1>4 DEF Resumes
  <2>1. j \in T /\ log[i].ev.at <= log[j].ev.at
    OBVIOUS
  <2>2. Covered(log, j, A) /\ log[i].state = "kept" /\ i \in DOMAIN log
    BY DEF CopyInv, AppliedInOrder, Published
  <2>3. i \in 1..j
    BY <1>2, <2>2, LogTyped DEF Covered
  <2>4. i \in A
    BY <2>2, <2>3 DEF Covered
  <2> QED BY <1>4, <2>1, <2>4
<1>7. PICK f : Run(f, local[d][e], G, n) /\ AppliedAll(local[d], P)[e] = f[n]
  BY <1>2, <1>3, PageRun
<1> DEFINE None == [x \in Entity |-> Nothing]
<1>8. Nothing \in Copy
  BY DEF Nothing, Copy, Rows
<1>9. None \in [Entity -> Copy] /\ None[e] = Nothing
  BY <1>8
<1> HIDE DEF None
<1>10. PICK g : Run(g, Nothing, F, n)
  <2> HIDE DEF A
  <2> QED BY <1>2, <1>9, PageRun
<1>11. PICK h : Run(h, Nothing, E, n)
  <2> DEFINE B == A \cup P
  <2>1. B \subseteq DOMAIN log
    BY <1>2
  <2> HIDE DEF B
  <2>2. \E h : Run(h, Nothing, EventsOf(B, e), n)
    BY <1>2, <1>9, <2>1, PageRun
  <2> QED BY <2>2 DEF B
<1> HIDE DEF E, F, G, S, T, A
<1>12. g[n] = s
  <2>1. Makes(F, g[n])
    BY <1>2, <1>4, <1>10 DEF Makes
  <2> QED BY <1>1, <2>1, MakesOne
<1>13. Level(local[d][e], g[n], E, S, ev)
  BY <1>1, <1>4, <1>12 DEF Level
<1>14. Level(f[n], h[n], E, DOMAIN E, ev)
  <2>1. Run(g, Nothing, Part(E, S), n) /\ Run(f, local[d][e], Part(E, T), n)
    BY <1>5, <1>7, <1>10
  <2>2. PICK c \in Copy : c = local[d][e]
    BY <1>3
  <2> QED BY <1>4, <1>6, <1>11, <1>13, <2>1, <2>2, PageLevels
<1>15. h[n] \in Copy
  <2>1. n \in 0..n
    BY <1>2
  <2> HIDE DEF n
  <2>2. \A k \in 0..n : h[k] \in Copy
    BY <1>2, <1>4, <1>8, <1>11, RunTyped
  <2> QED BY <2>1, <2>2
<1>16. Makes(E, h[n])
  BY <1>2, <1>4, <1>11 DEF Makes
<1> QED BY <1>1, <1>7, <1>14, <1>15, <1>16 DEF E, A

LEMMA EditCopies ==
  ASSUME DeliveryInv, CopyInv, QueuesMove, NEW t \in Tab, NEW x \in Entity, NEW op \in {"put", "del"},
         Edit(t, x, op), [Next]_vars
  PROVE  CopiesLevel'
<1>1. PICK ev \in Event :
        /\ ev.by = dev(t) /\ ev.n = Len(outbox[dev(t)]) + 1 /\ ev.ent = x
        /\ ev.at = now' + Skew[dev(t)]
        /\ DOMAIN outbox'[dev(t)] = DOMAIN outbox[dev(t)] \cup {ev.n}
        /\ outbox'[dev(t)][ev.n].ev = ev
        /\ \A i \in DOMAIN outbox[dev(t)] : i < ev.n
        /\ \A c \in Device : c # dev(t) => outbox'[c] = outbox[c]
        /\ local' = [local EXCEPT ![dev(t)][x] = LocalCopy(local[dev(t)][x], ev)]
        /\ rewound' = IF Predates(ev, local[dev(t)][x]) THEN rewound \cup {x} ELSE rewound
        /\ UNCHANGED <<log, applied>>
  BY EditItem
<1>2. Server /\ LogStep /\ AppliedInOrder
  BY <1>1 DEF DeliveryInv, TypeInv, CopyInv, LogStep
<1>3. PICK d \in Device : d = dev(t)
  BY DevType
<1>4. /\ local'[d][x] = LocalCopy(local[d][x], ev)
      /\ \A c \in Device, e \in Entity : c # d \/ e # x => local'[c][e] = local[c][e]
  <2>1. local \in [Device -> [Entity -> Copy]]
    BY DEF DeliveryInv, TypeInv, Copies
  <2>2. PICK y : y = LocalCopy(local[d][x], ev) /\ local' = [local EXCEPT ![d][x] = y]
    BY <1>1, <1>3
  <2> QED BY <2>1, <2>2
<1>5. ASSUME NEW c \in Device, NEW e \in Entity, CopyLevel(c, e), c # d \/ e # x PROVE CopyLevel(c, e)'
  <2>1. \A i \in DOMAIN outbox'[c] : i \in DOMAIN outbox[c] \/ outbox'[c][i].ev.ent # e
    BY <1>1, <1>3, <1>5
  <2>2. applied'[c] = applied[c] /\ local'[c][e] = local[c][e]
    BY <1>1, <1>4, <1>5
  <2> QED BY <1>2, <1>5, <2>1, <2>2, CopyStays
<1>6. ASSUME x \notin rewound', CopyLevel(d, x) PROVE CopyLevel(d, x)'
  <2>1. ~Predates(ev, local[d][x])
    BY <1>1, <1>3, <1>6
  <2>2. now' = now \/ now' = now + 1
    BY StepKinds
  <2> QED BY <1>1, <1>3, <1>4, <1>6, <2>1, <2>2, EditLevel
<1>7. rewound \subseteq rewound'
  BY <1>1
<1> QED BY <1>5, <1>6, <1>7 DEF CopiesLevel, CopyInv

LEMMA ApplyCopies ==
  ASSUME DeliveryInv, CopyInv, QueuesMove, NEW t \in Tab, Apply(t) PROVE CopiesLevel'
<1> DEFINE all == AppliedAll(local[dev(t)], flow[t].page)
<1>1. /\ flow[t].pc = "apply" /\ local' = [local EXCEPT ![dev(t)] = all]
      /\ applied' = [applied EXCEPT ![dev(t)] = applied[dev(t)] \cup flow[t].page]
      /\ rewound' = rewound \cup Rewinds(t) /\ UNCHANGED <<log, outbox>>
  BY DEF Apply, serverVars
<1> HIDE DEF all
<1>2. PICK d \in Device : d = dev(t)
  BY DevType
<1>3. PICK P : P = flow[t].page
  OBVIOUS
<1>4. d = dev(t) /\ P = flow[t].page
  BY <1>2, <1>3
<1>5. P \subseteq Published
  BY <1>1, <1>4 DEF DeliveryInv, TypeInv, FeedInv, Reads
<1>6. /\ local'[d] = all /\ applied'[d] = applied[d] \cup P
      /\ \A c \in Device : c # d => local'[c] = local[c] /\ applied'[c] = applied[c]
  BY <1>1, <1>4 DEF DeliveryInv, TypeInv, Copies, SavedStates
<1>7. Server /\ LogStep /\ AppliedInOrder
  BY <1>1 DEF DeliveryInv, TypeInv, CopyInv, LogStep
<1>8. ASSUME NEW c \in Device, c # d, NEW e \in Entity, CopyLevel(c, e) PROVE CopyLevel(c, e)'
  <2>1. \A i \in DOMAIN outbox'[c] : i \in DOMAIN outbox[c]
    BY <1>1
  <2> QED BY <1>6, <1>7, <1>8, <2>1, CopyStays
<1>9. ASSUME NEW e \in Entity \ rewound', CopyLevel(d, e) PROVE CopyLevel(d, e)'
  <2>1. e \notin Rewinds(t)
    BY <1>1
  <2>2. \A i \in P, j \in applied[d] :
          i < j /\ log[i].ev.ent = e /\ log[j].ev.ent = e => j \in P /\ log[i].ev.at <= log[j].ev.at
    <3>1. \A i \in P, j \in applied[d] : log[i].ev.at \in Nat /\ log[j].ev.at \in Nat
      BY <1>5, <1>7, AppliedLogged, LogTyped, EventTimes DEF Published, Entry
    <3> QED BY <1>4, <2>1, <3>1 DEF Rewinds
  <2>3. PICK s \in Copy, ev \in Rows :
          /\ Makes(EventsOf(applied[d] \cup P, e), s)
          /\ Level(AppliedAll(local[d], P)[e], s, EventsOf(applied[d] \cup P, e),
                   DOMAIN EventsOf(applied[d] \cup P, e), ev)
          /\ ev # NoRow => LastOwn(d, e, ev)
    BY <1>5, <1>9, <2>2, ApplyLevel
  <2>4. PICK E, c : E = EventsOf(applied[d] \cup P, e) /\ c = AppliedAll(local[d], P)[e]
    OBVIOUS
  <2>5. EventsOf(applied[d], e)' = E /\ local'[d][e] = c
    BY <1>1, <1>4, <1>6, <2>4 DEF EventsOf, all
  <2>6. ev # NoRow => LastOwn(d, e, ev)'
    BY <1>1, <2>3 DEF LastOwn
  <2>7. /\ Makes(EventsOf(applied[d], e)', s)
        /\ Level(local'[d][e], s, EventsOf(applied[d], e)', DOMAIN (EventsOf(applied[d], e)'), ev)
    BY <2>3, <2>4, <2>5
  <2> QED BY <2>6, <2>7 DEF CopyLevel, Makes, Level, Run, UpTo, Applied, AppliedNote, AppliedPosition,
             Predates, NotOlder, Removed, Nothing
<1>10. rewound \subseteq rewound'
  BY <1>1
<1> QED BY <1>8, <1>9, <1>10 DEF CopiesLevel, CopyInv

LEMMA CalmCopies ==
  ASSUME DeliveryInv, CopyInv, QueuesMove, LogStep, Calm,
         \A d \in Device : DOMAIN outbox'[d] = DOMAIN outbox[d]
  PROVE  CopiesLevel'
<1>1. Server /\ AppliedInOrder /\ UNCHANGED <<local, applied, rewound>>
  BY DEF DeliveryInv, TypeInv, CopyInv, Calm
<1>2. ASSUME NEW d \in Device, NEW e \in Entity, CopyLevel(d, e) PROVE CopyLevel(d, e)'
  <2>1. \A i \in DOMAIN outbox'[d] : i \in DOMAIN outbox[d]
    OBVIOUS
  <2>2. applied'[d] = applied[d] /\ local'[d][e] = local[d][e]
    BY <1>1
  <2> QED BY <1>1, <1>2, <2>1, <2>2, CopyStays
<1> QED BY <1>1, <1>2 DEF CopiesLevel, CopyInv

LEMMA CopyNext ==
  ASSUME DeliveryInv, OrderInv, CopyInv, [Next]_vars PROVE CopyInv'
<1>1. QueuesMove /\ LogStep
  BY DeliveryNext DEF Moves
<1>2. Dated' /\ Sourced' /\ AppliedInOrder'
  BY <1>1, DatedNext, SourcedNext, AppliedInOrderNext DEF CopyInv
<1>3. CASE Edits
  BY <1>1, <1>2, <1>3, EditCopies DEF Edits, CopyInv
<1>4. CASE \E t \in Tab : Apply(t)
  BY <1>1, <1>2, <1>4, ApplyCopies DEF CopyInv
<1>5. CASE Calm /\ ~Edits
  <2>1. \A d \in Device : DOMAIN outbox'[d] = DOMAIN outbox[d]
    BY <1>1, <1>5 DEF QueuesMove, OutboxMoves
  <2> QED BY <1>1, <1>2, <1>5, <2>1, CalmCopies DEF CopyInv
<1> QED BY <1>3, <1>4, <1>5, StepKinds

LEMMA CopyInit == ASSUME Init PROVE CopyInv
<1>1. /\ \A d \in Device : outbox[d] = <<>> /\ applied[d] = {}
      /\ log = <<>> /\ \A t \in Tab : tx[t].todo = <<>>
  BY DEF Init, NoTx
<1>2. Dated /\ Sourced /\ AppliedInOrder
  BY <1>1 DEF Dated, Sourced, AppliedInOrder
<1>3. ASSUME NEW d \in Device, NEW e \in Entity PROVE CopyLevel(d, e)
  <2>1. local[d][e] = Nothing /\ Nothing \in Copy /\ NoRow \in Rows
    BY DEF Init, Nothing, Copy, Rows
  <2>2. DOMAIN EventsOf(applied[d], e) = {}
    BY <1>1 DEF EventsOf
  <2>3. Makes(EventsOf(applied[d], e), Nothing)
    <3> DEFINE f == [k \in {0} |-> Nothing]
    <3>1. Run(f, Nothing, EventsOf(applied[d], e), 0) /\ f[0] = Nothing
      BY DEF Run
    <3> HIDE DEF f
    <3>2. DOMAIN EventsOf(applied[d], e) \subseteq 1..0 /\ 0 \in Nat
      BY <2>2
    <3> QED BY <3>1, <3>2 DEF Makes
  <2> QED BY <2>1, <2>3 DEF CopyLevel, Level
<1> QED BY <1>2, <1>3 DEF CopyInv, CopiesLevel

LEMMA CopyInvHolds == Spec => [](DeliveryInv /\ OrderInv /\ CopyInv)
<1>1. Init => OrderInv /\ CopyInv
  BY OrderInit, CopyInit
<1>2. OrderInv /\ CopyInv /\ DeliveryInv /\ [Next]_vars => OrderInv' /\ CopyInv'
  BY OrderNext, CopyNext
<1> QED BY <1>1, <1>2, DeliveryHolds, PTL DEF Spec

-----------------------------------------------------------------------------
(* When everything is sent and read *)

\* Every device has applied what is published, and shows what that makes of nothing.
LEMMA QuietCopies ==
  ASSUME DeliveryInv, CopyInv, SentIsNotLost, CursorMissesNothing, Quiet, NothingDropped,
         NEW d \in Device, NEW e \in Entity \ rewound
  PROVE  Makes(EventsOf(Published, e), local[d][e])
<1>1. applied[d] = Published
  <2>1. applied[d] \subseteq Published
    BY DEF CopyInv, AppliedInOrder, Published
  <2>2. ASSUME NEW i \in Published PROVE i \in applied[d]
    <3>1. ~(i > cursor[d]) /\ i \in DOMAIN log /\ log[i].state = "kept"
      BY DEF Quiet, After, Published
    <3>2. i \in Nat /\ i >= 1 /\ cursor[d] \in Nat
      BY <3>1, LogTyped DEF DeliveryInv, TypeInv, SavedStates
    <3>3. i \in 1..cursor[d]
      BY <3>1, <3>2
    <3> QED BY <3>1, <3>3 DEF CursorMissesNothing
  <2> QED BY <2>1, <2>2
<1>2. PICK s \in Copy, ev \in Rows :
        /\ Makes(EventsOf(Published, e), s)
        /\ Level(local[d][e], s, EventsOf(Published, e), DOMAIN EventsOf(Published, e), ev)
        /\ ev # NoRow => LastOwn(d, e, ev)
  BY <1>1 DEF CopyInv, CopiesLevel, CopyLevel
<1>3. ASSUME ev # NoRow, \A i \in DOMAIN EventsOf(Published, e) : EventsOf(Published, e)[i] # ev PROVE FALSE
  <2>1. PICK i \in DOMAIN outbox[d] :
          outbox[d][i].ev = ev /\ \A j \in DOMAIN outbox[d] : outbox[d][j].ev.ent = e => j <= i
    BY <1>2, <1>3 DEF LastOwn
  <2>2. outbox[d][i].status = "sent" /\ ~outbox[d][i].dropped /\ ev.ent = e
    BY <1>2, <1>3 DEF Quiet, NothingDropped, LastOwn
  <2>3. ~Kept(ev)
    <3> SUFFICES ASSUME NEW k \in DOMAIN log, log[k].state = "kept", log[k].ev = ev PROVE FALSE
      BY DEF Kept
    <3> QED BY <1>3, <2>2 DEF EventsOf, Published
  <2>4. PICK j \in (i + 1)..Len(outbox[d]) : outbox[d][j].ev.ent = e
    BY <2>1, <2>2, <2>3 DEF SentIsNotLost
  <2>5. DOMAIN outbox[d] = 1..Len(outbox[d]) /\ Len(outbox[d]) \in Nat
    BY OutboxTyped DEF DeliveryInv, TypeInv
  <2>6. j \in DOMAIN outbox[d] /\ ~(j <= i)
    BY <2>5
  <2> QED BY <2>1, <2>4, <2>6
<1> QED BY <1>2, <1>3 DEF Level

LEMMA QuietConverges ==
  ASSUME DeliveryInv, CopyInv, SentIsNotLost, CursorMissesNothing PROVE DevicesConverge
<1> SUFFICES ASSUME Quiet, NothingDropped, NEW d \in Device, NEW x \in Device, NEW e \in Entity \ rewound
             PROVE  local[d][e].row = local[x][e].row
  BY DEF DevicesConverge
<1>1. Makes(EventsOf(Published, e), local[d][e]) /\ Makes(EventsOf(Published, e), local[x][e])
  BY QuietCopies
<1> QED BY <1>1, MakesOne

LEMMA QuietServer ==
  ASSUME DeliveryInv, OrderInv, CopyInv, SentIsNotLost, CursorMissesNothing PROVE ServerConvergesUnlessRaced
<1> SUFFICES ASSUME Quiet, NothingDropped, NEW d \in Device, NEW e \in Entity \ (raced \cup rewound), LoggedInOrder(e)
             PROVE  local[d][e].row = Shown(row[e])
  BY DEF ServerConvergesUnlessRaced
<1> DEFINE E == KeptOf(e)
<1>1. EventsOf(Published, e) = E
  BY DEF EventsOf, Published, KeptOf
<1>2. Makes(E, local[d][e])
  BY <1>1, QuietCopies
<1>3. Events(E)
  BY LogTyped DEF Events, KeptOf, Entry, DeliveryInv, TypeInv
<1>4. InTime(E)
  BY DEF InTime, KeptOf, LoggedInOrder, Follow
<1>5. Leaves(E, {}, row[e])
  BY DEF OrderInv, View
<1> HIDE DEF E
<1>6. CASE row[e] = NoRow /\ DOMAIN E = {}
  <2>1. local[d][e] = Nothing
    BY <1>2, <1>3, <1>4, <1>6, LastMakes
  <2> QED BY <1>6, <2>1 DEF Nothing, Shown, Live
<1>7. ASSUME NEW i \in DOMAIN E, RowOf(E[i], row[e]), \A j \in DOMAIN E : j <= i
      PROVE  local[d][e].row = Shown(row[e])
  <2>1. local[d][e] = SetTo(E[i]) /\ E[i] \in Event
    BY <1>2, <1>3, <1>4, <1>7, LastMakes DEF Events
  <2>2. local[d][e].row = (IF E[i].op = "del" THEN NoRow ELSE E[i]) /\ E[i].op \in {"put", "del"} /\ E[i] # NoRow
    BY <2>1, SetToFields
  <2> QED BY <1>7, <2>2 DEF RowOf, Shown, Live
<1> QED BY <1>4, <1>5, <1>6, <1>7 DEF Leaves

(***************************************************************************)
(* Once everything is sent and read all devices show the same, for every   *)
(* number of devices and tabs and every order in which their pushes and    *)
(* pages interleave, are repeated or cut off: what a device shows is what  *)
(* the log makes of nothing, or its own last edit is still to come back    *)
(* and is as late as both.                                                 *)
(***************************************************************************)
THEOREM DevicesAlwaysConverge == Spec => []DevicesConverge
<1>1. DeliveryInv /\ CopyInv /\ SentIsNotLost /\ CursorMissesNothing => DevicesConverge
  BY QuietConverges
<1> QED BY <1>1, CopyInvHolds, SentIsNeverLost, CursorMissesNothingHolds, PTL

(***************************************************************************)
(* And they show what the server shows its hosted clients, of an entity    *)
(* that no two requests worked on at once and whose events are logged in   *)
(* the order of time: its row is what the last of them leaves.             *)
(***************************************************************************)
THEOREM ServerAlwaysConverges == Spec => []ServerConvergesUnlessRaced
<1>1. DeliveryInv /\ OrderInv /\ CopyInv /\ SentIsNotLost /\ CursorMissesNothing => ServerConvergesUnlessRaced
  BY QuietServer
<1> QED BY <1>1, CopyInvHolds, SentIsNeverLost, CursorMissesNothingHolds, PTL

=============================================================================
