------------------------ MODULE SyncDelivery_proofs ------------------------
(***************************************************************************)
(* Theorems about SyncProtocol for every set of devices, tabs and entities *)
(* and every value of the bounds: the cursor of a device never passes an   *)
(* event it has not applied, the whole implements SyncFeed, the types, and *)
(* that no item that counts as sent is lost.                               *)
(***************************************************************************)
EXTENDS SyncProtocol, FiniteSetTheorems, SequenceTheorems, WellFoundedInduction, TLAPS

\* A set of naturals that is not empty has a least element.
LEMMA LeastNatural ==
  ASSUME NEW T, T \subseteq Nat, T # {} PROVE \E x \in T : \A y \in T : x <= y
<1>1. PICK x \in T : \A y \in T : ~(<<y, x>> \in OpToRel(<, Nat))
  BY NatLessThanWellFounded, WFMin, Zenon
<1>2. \A y \in T : ~(y < x)
  BY <1>1 DEF OpToRel
<1> QED BY <1>2

\* A bounded one has a greatest.
LEMMA GreatestNatural ==
  ASSUME NEW n \in Nat, NEW S, S \subseteq 1..n, S # {}
  PROVE  \E m \in S : \A j \in S : j <= m
<1> DEFINE T == {n - i : i \in S}
<1>1. T \subseteq Nat /\ T # {}
  <2>1. \A i \in S : n - i \in Nat
    OBVIOUS
  <2> QED BY <2>1
<1>2. PICK x \in T : \A y \in T : x <= y
  <2> HIDE DEF T
  <2> QED BY <1>1, LeastNatural
<1>3. PICK m \in S : x = n - m
  BY <1>2
<1>4. ASSUME NEW j \in S PROVE j <= m
  <2>1. n - m <= n - j
    BY <1>2, <1>3
  <2> QED BY <2>1
<1> QED BY <1>4

\* What a cursor becomes: the last of a page, or what it was.
LEMMA MaxIsMax ==
  ASSUME NEW n \in Nat, NEW S, S \subseteq 1..n, NEW c \in Nat
  PROVE  /\ S = {} => MaxOf(S, c) = c
         /\ S # {} => MaxOf(S, c) \in S /\ \A j \in S : j <= MaxOf(S, c)
BY GreatestNatural DEF MaxOf

\* A page has no gap: what comes before one of its entries is in it.
LEMMA FirstOfIsPrefix ==
  ASSUME NEW n \in Nat, NEW S, S \subseteq 1..n, NEW k \in Nat,
         NEW m \in FirstOf(S, k), NEW i \in S, i <= m
  PROVE  i \in FirstOf(S, k)
<1> DEFINE Below(x) == {j \in S : j < x}
<1>1. IsFiniteSet(1..n)
  BY FS_Interval
<1>2. Below(i) \subseteq Below(m) /\ Below(m) \subseteq 1..n
  <2>1. m \in Nat /\ i \in Nat /\ S \subseteq Nat
    BY DEF FirstOf
  <2>2. \A j \in S : j < i => j < m
    BY <2>1
  <2> QED BY <2>2
<1>3. IsFiniteSet(Below(m))
  BY <1>1, <1>2, FS_Subset
<1>4. Cardinality(Below(i)) <= Cardinality(Below(m)) /\ Cardinality(Below(i)) \in Nat /\ Cardinality(Below(m)) \in Nat
  BY <1>2, <1>3, FS_Subset, FS_CardinalityType
<1>5. Cardinality(Below(m)) < k
  BY DEF FirstOf
<1>6. Cardinality(Below(i)) < k
  <2> HIDE DEF Below
  <2> QED BY <1>4, <1>5
<1> QED BY <1>6 DEF FirstOf

IsLog(s) == \E S : s \in Seq(S)

\* Appending to the log changes no entry and adds one.
LEMMA LogAppend ==
  ASSUME NEW s, IsLog(s), NEW e
  PROVE  /\ IsLog(Append(s, e))
         /\ Len(s) \in Nat /\ DOMAIN s = 1..Len(s)
         /\ DOMAIN Append(s, e) = 1..(Len(s) + 1)
         /\ \A i \in 1..Len(s) : Append(s, e)[i] = s[i]
         /\ Append(s, e)[Len(s) + 1] = e
<1>1. PICK S : s \in Seq(S)
  BY DEF IsLog
<1> DEFINE T == S \cup {e}
<1>2. s \in Seq(T) /\ e \in T
  BY <1>1, SeqMonotonic
<1>3. Append(s, e) \in Seq(T)
  BY <1>2, AppendProperties
<1>4. IsLog(Append(s, e))
  BY <1>3 DEF IsLog
<1> QED BY <1>2, <1>3, <1>4, AppendProperties, LenProperties

\* Changing entries in place leaves a log.
LEMMA LogMap ==
  ASSUME NEW s, IsLog(s), NEW f, DOMAIN f = DOMAIN s, f = [i \in DOMAIN s |-> f[i]]
  PROVE  IsLog(f)
<1>1. PICK S : s \in Seq(S)
  BY DEF IsLog
<1> DEFINE T == {f[i] : i \in DOMAIN s}
<1>2. DOMAIN s = 1..Len(s) /\ Len(s) \in Nat
  BY <1>1, LenProperties
<1>3. f \in [1..Len(s) -> T]
  BY <1>2
<1>4. f \in Seq(T)
  <2> HIDE DEF T
  <2> QED BY <1>2, <1>3, SeqDef
<1> QED BY <1>4 DEF IsLog

-----------------------------------------------------------------------------
(* The inductive invariant *)

TxFields == {"phase", "todo", "bad", "rows", "writer"}
FlowFields == {"pc", "accept", "first", "items", "page", "cur"}

Shape ==
  /\ IsLog(log) /\ \A i \in DOMAIN log : DOMAIN log[i] = {"ev", "state", "tab"}
  /\ DOMAIN tx = Tab /\ \A t \in Tab : DOMAIN tx[t] = TxFields /\ tx[t].writer \in BOOLEAN
  /\ DOMAIN flow = Tab /\ \A t \in Tab : DOMAIN flow[t] = FlowFields
  /\ DOMAIN cursor = Device /\ DOMAIN applied = Device

\* Up to c the log l is final, and what it keeps is in A.
Covered(l, c, A) ==
  /\ c \in Nat
  /\ \A i \in 1..c : /\ i \in DOMAIN l /\ l[i].state # "open"
                     /\ l[i].state = "kept" => i \in A

CursorCovered == \A d \in Device : Covered(log, cursor[d], applied[d])

\* The same of the cursor a tab has in hand.
Reads(t) ==
  /\ flow[t].pc \in {"pull", "save", "mark", "finish"} => Covered(log, flow[t].cur, applied[dev(t)])
  /\ flow[t].pc = "apply" => /\ Covered(log, flow[t].cur, applied[dev(t)] \cup flow[t].page)
                             /\ flow[t].page \subseteq Published
                             /\ \A i \in flow[t].page : i <= flow[t].cur

OpenIsWritten ==
  \A i \in DOMAIN log : log[i].state = "open" => log[i].tab \in Tab /\ tx[log[i].tab].writer

WriterRuns == \A t \in Tab : tx[t].writer => Running(t)

FeedInv == Shape /\ CursorCovered /\ (\A t \in Tab : Reads(t)) /\ OpenIsWritten /\ WriterRuns

-----------------------------------------------------------------------------
(* What a step may do to the log, the transactions and the cursors *)

LogStep ==
  \/ log' = log
  \/ \E ev, s, t : Logs(ev, s, t)
  \/ \E t, s : s \in {"kept", "gone"} /\ log' = Resolved(t, s)

\* No step removes an entry, or changes one that is no longer open.
LEMMA LogShape ==
  ASSUME Shape, LogStep
  PROVE  /\ IsLog(log') /\ \A i \in DOMAIN log' : DOMAIN log'[i] = {"ev", "state", "tab"}
         /\ \A i \in DOMAIN log : /\ i \in DOMAIN log'
                                  /\ log[i].state # "open" => log'[i].state = log[i].state
<1>1. CASE log' = log
  BY <1>1 DEF Shape
<1>2. CASE \E ev, s, t : Logs(ev, s, t)
  <2>1. PICK ev, s, t : log' = Append(log, [ev |-> ev, state |-> s, tab |-> t])
    BY <1>2 DEF Logs
  <2> DEFINE e == [ev |-> ev, state |-> s, tab |-> t]
  <2>2. /\ IsLog(Append(log, e)) /\ DOMAIN log = 1..Len(log) /\ Len(log) \in Nat
        /\ DOMAIN Append(log, e) = 1..(Len(log) + 1)
        /\ \A i \in 1..Len(log) : Append(log, e)[i] = log[i]
        /\ Append(log, e)[Len(log) + 1] = e
    <3> HIDE DEF e
    <3> QED BY LogAppend DEF Shape
  <2>3. DOMAIN e = {"ev", "state", "tab"}
    OBVIOUS
  <2> HIDE DEF e
  <2>4. log' = Append(log, e)
    BY <2>1 DEF e
  <2>5. \A i \in DOMAIN log' : i \in DOMAIN log \/ i = Len(log) + 1
    BY <2>2, <2>4
  <2>6. \A i \in DOMAIN log : i \in DOMAIN log' /\ log'[i] = log[i]
    BY <2>2, <2>4
  <2>7. log'[Len(log) + 1] = e
    BY <2>2, <2>4
  <2>8. \A i \in DOMAIN log : DOMAIN log[i] = {"ev", "state", "tab"}
    BY DEF Shape
  <2>9. \A i \in DOMAIN log' : DOMAIN log'[i] = {"ev", "state", "tab"}
    BY <2>3, <2>5, <2>6, <2>7, <2>8
  <2> QED BY <2>2, <2>4, <2>6, <2>9
<1>3. CASE \E t, s : s \in {"kept", "gone"} /\ log' = Resolved(t, s)
  <2>1. PICK t, s : s \in {"kept", "gone"} /\ log' = Resolved(t, s)
    BY <1>3
  <2>2. DOMAIN log' = DOMAIN log
    BY <2>1 DEF Resolved
  <2>3. \A i \in DOMAIN log :
          log'[i] = IF log[i].state = "open" /\ log[i].tab = t
                    THEN [log[i] EXCEPT !.state = s] ELSE log[i]
    BY <2>1 DEF Resolved
  <2>4. \A i \in DOMAIN log : DOMAIN log[i] = {"ev", "state", "tab"}
    BY DEF Shape
  <2>5. \A i \in DOMAIN log' : DOMAIN log'[i] = {"ev", "state", "tab"}
    BY <2>2, <2>3, <2>4
  <2>6. log' = [i \in DOMAIN log |-> log'[i]]
    BY <2>1 DEF Resolved
  <2>7. IsLog(log')
    <3>1. IsLog(log)
      BY DEF Shape
    <3> QED BY <2>2, <2>6, <3>1, LogMap
  <2> QED BY <2>2, <2>3, <2>5, <2>7
<1> QED BY <1>1, <1>2, <1>3 DEF LogStep

\* So what is covered stays covered.
LEMMA CoveredStays ==
  ASSUME Shape, LogStep, NEW c, NEW A, NEW B, A \subseteq B, Covered(log, c, A)
  PROVE  Covered(log', c, B)
BY LogShape DEF Covered

\* A tab applies a page or saves its cursor, or neither of any device changes.
CursorStep ==
  \/ UNCHANGED <<cursor, applied>>
  \/ \E t \in Tab : /\ flow[t].pc = "apply" /\ UNCHANGED <<log, cursor>>
                    /\ applied' = [applied EXCEPT ![dev(t)] = applied[dev(t)] \cup flow[t].page]
  \/ \E t \in Tab : /\ flow[t].pc \in {"save", "finish"} /\ UNCHANGED <<log, applied>>
                    /\ cursor' = [cursor EXCEPT ![dev(t)] = flow[t].cur]

\* A saved cursor is the one a tab has in hand, and no device forgets.
LEMMA CursorShape ==
  ASSUME FeedInv, CursorStep
  PROVE  /\ DOMAIN cursor' = Device /\ DOMAIN applied' = Device
         /\ \A d \in Device : applied[d] \subseteq applied'[d]
         /\ \A d \in Device :
              \/ cursor'[d] = cursor[d]
              \/ \E t \in Tab : /\ flow[t].pc \in {"save", "finish"} /\ dev(t) = d
                                /\ cursor'[d] = flow[t].cur
<1>0. DOMAIN cursor = Device /\ DOMAIN applied = Device
  BY DEF FeedInv, Shape
<1>1. CASE UNCHANGED <<cursor, applied>>
  BY <1>0, <1>1
<1>2. ASSUME NEW t \in Tab, cursor' = cursor,
             applied' = [applied EXCEPT ![dev(t)] = applied[dev(t)] \cup flow[t].page]
      PROVE  /\ DOMAIN applied' = Device /\ DOMAIN cursor' = Device
             /\ \A d \in Device : applied[d] \subseteq applied'[d] /\ cursor'[d] = cursor[d]
  BY <1>0, <1>2
<1>3. ASSUME NEW t \in Tab, flow[t].pc \in {"save", "finish"}, applied' = applied,
             cursor' = [cursor EXCEPT ![dev(t)] = flow[t].cur]
      PROVE  /\ DOMAIN applied' = Device /\ DOMAIN cursor' = Device
             /\ \A d \in Device : applied[d] \subseteq applied'[d]
             /\ \A d \in Device : cursor'[d] = cursor[d] \/ (dev(t) = d /\ cursor'[d] = flow[t].cur)
  BY <1>0, <1>3
<1>4. CASE \E t \in Tab : /\ cursor' = cursor
                          /\ applied' = [applied EXCEPT ![dev(t)] = applied[dev(t)] \cup flow[t].page]
  BY <1>2, <1>4
<1>5. CASE \E t \in Tab : /\ flow[t].pc \in {"save", "finish"} /\ applied' = applied
                          /\ cursor' = [cursor EXCEPT ![dev(t)] = flow[t].cur]
  BY <1>3, <1>5
<1> QED BY <1>1, <1>4, <1>5 DEF CursorStep

\* So a saved cursor stays covered.
LEMMA CursorStays ==
  ASSUME FeedInv, LogStep, CursorStep PROVE CursorCovered'
<1> SUFFICES ASSUME NEW d \in Device PROVE Covered(log', cursor'[d], applied'[d])
  BY DEF CursorCovered
<1>1. Shape /\ applied[d] \subseteq applied'[d]
  BY CursorShape DEF FeedInv
<1>2. CASE cursor'[d] = cursor[d]
  <2>1. Covered(log, cursor[d], applied[d])
    BY DEF FeedInv, CursorCovered
  <2> QED BY <1>1, <1>2, <2>1, CoveredStays
<1>3. ASSUME NEW t \in Tab, flow[t].pc \in {"save", "finish"}, dev(t) = d, cursor'[d] = flow[t].cur
      PROVE  Covered(log', cursor'[d], applied'[d])
  <2>1. Covered(log, flow[t].cur, applied[d])
    BY <1>3 DEF FeedInv, Reads
  <2> QED BY <1>1, <1>3, <2>1, CoveredStays
<1> QED BY <1>2, <1>3, CursorShape

\* A tab belongs to a device.
LEMMA DevType == ASSUME NEW t \in Tab PROVE dev(t) \in Device
BY SyncAssumption DEF dev

\* A tab that does not move keeps its cursor covered.
LEMMA ReadsStay ==
  ASSUME FeedInv, LogStep, CursorStep, NEW t \in Tab, flow'[t] = flow[t]
  PROVE  Reads(t)'
<1>1. Shape /\ applied[dev(t)] \subseteq applied'[dev(t)]
  BY DevType, CursorShape DEF FeedInv
<1>2. Reads(t)
  BY DEF FeedInv
<1>3. CASE flow[t].pc = "apply"
  <2>1. applied[dev(t)] \cup flow[t].page \subseteq applied'[dev(t)] \cup flow[t].page
    BY <1>1
  <2>2. Covered(log', flow[t].cur, applied'[dev(t)] \cup flow[t].page)
    BY <1>1, <1>2, <1>3, <2>1, CoveredStays DEF Reads
  <2>3. flow[t].page \subseteq Published'
    BY <1>1, <1>2, <1>3, LogShape DEF Reads, Published
  <2>4. \A i \in flow'[t].page : i <= flow'[t].cur
    BY <1>2, <1>3 DEF Reads
  <2> QED BY <1>3, <2>2, <2>3, <2>4 DEF Reads, dev
<1>4. CASE flow[t].pc \in {"pull", "save", "mark", "finish"}
  <2>1. Covered(log', flow[t].cur, applied'[dev(t)])
    BY <1>1, <1>2, <1>4, CoveredStays DEF Reads
  <2> QED BY <1>4, <2>1 DEF Reads, dev
<1>5. CASE flow[t].pc \notin {"pull", "save", "mark", "finish", "apply"}
  BY <1>5 DEF Reads
<1> QED BY <1>3, <1>4, <1>5

\* A tab that reads nothing has nothing to cover.
LEMMA ReadsNothing ==
  ASSUME NEW t \in Tab, flow'[t].pc \notin {"pull", "save", "mark", "finish", "apply"}
  PROVE  Reads(t)'
BY DEF Reads

\* What a step may do to the transactions: an entry that is open afterwards
\* belongs to one that has written and runs.
TxStep ==
  /\ DOMAIN tx' = Tab
  /\ \A t \in Tab : /\ DOMAIN tx'[t] = TxFields /\ tx'[t].writer \in BOOLEAN
                    /\ tx'[t].writer => Running(t)'
  /\ \A i \in DOMAIN log' :
       log'[i].state = "open" => log'[i].tab \in Tab /\ tx'[log'[i].tab].writer

\* What a step may do to the tabs: those that move keep their cursors covered.
FlowMoves ==
  /\ DOMAIN flow' = Tab
  /\ \A t \in Tab : DOMAIN flow'[t] = FlowFields
  /\ \A t \in Tab : flow'[t] = flow[t] \/ Reads(t)'

FeedKept == FeedInv' /\ LogStep /\ CursorStep

\* What the parts of a step may do preserves the invariant.
LEMMA FeedStep ==
  ASSUME FeedInv, LogStep, TxStep, CursorStep, FlowMoves
  PROVE  FeedKept
<1>1. CursorCovered'
  BY CursorStays
<1>2. \A t \in Tab : Reads(t)'
  BY ReadsStay DEF FlowMoves
<1>3. OpenIsWritten' /\ WriterRuns'
  BY DEF TxStep, OpenIsWritten, WriterRuns
<1>4. Shape'
  <2>1. Shape
    BY DEF FeedInv
  <2>2. IsLog(log') /\ \A i \in DOMAIN log' : DOMAIN log'[i] = {"ev", "state", "tab"}
    BY <2>1, LogShape
  <2>3. IsLog(log)'
    BY <2>2 DEF IsLog
  <2> QED BY <2>2, <2>3, CursorShape DEF Shape, TxStep, FlowMoves
<1> QED BY <1>1, <1>2, <1>3, <1>4 DEF FeedInv, FeedKept

-----------------------------------------------------------------------------
(* Steps that leave a part alone *)

\* A step that leaves log and transactions alone.
LEMMA TxStays ==
  ASSUME FeedInv, UNCHANGED <<log, tx>> PROVE LogStep /\ TxStep
BY DEF FeedInv, Shape, OpenIsWritten, WriterRuns, LogStep, TxStep, Running

\* One that leaves the cursors alone.
LEMMA CursorsStay ==
  ASSUME UNCHANGED <<cursor, applied>> PROVE CursorStep
BY DEF CursorStep

\* One that moves no tab.
LEMMA FlowStays == ASSUME FeedInv, UNCHANGED flow PROVE FlowMoves
BY DEF FeedInv, Shape, FlowMoves

\* One that moves a single tab, which keeps its cursor covered.
LEMMA OneTabMoves ==
  ASSUME FeedInv, NEW t \in Tab, DOMAIN flow' = Tab, DOMAIN flow'[t] = FlowFields,
         \A u \in Tab : u # t => flow'[u] = flow[u], Reads(t)'
  PROVE  FlowMoves
BY DEF FeedInv, Shape, FlowMoves

\* A transaction that has not written is replaced, the log stays.
LEMMA TxReplaced ==
  ASSUME FeedInv, NEW t \in Tab, NEW x, ~tx[t].writer, log' = log, tx' = [tx EXCEPT ![t] = x],
         DOMAIN x = TxFields, ~x.writer, x.writer \in BOOLEAN
  PROVE  LogStep /\ TxStep
<1>1. LogStep
  BY DEF LogStep
<1>2. DOMAIN tx = Tab /\ tx'[t] = x /\ \A u \in Tab : u # t => tx'[u] = tx[u]
  BY DEF FeedInv, Shape
<1>3. \A u \in Tab : /\ DOMAIN tx'[u] = TxFields /\ tx'[u].writer \in BOOLEAN
                     /\ tx'[u].writer => Running(u)'
  BY <1>2 DEF FeedInv, Shape, WriterRuns, Running
<1>4. \A i \in DOMAIN log' :
        log'[i].state = "open" => log'[i].tab \in Tab /\ tx'[log'[i].tab].writer
  BY <1>2 DEF FeedInv, OpenIsWritten
<1> QED BY <1>1, <1>2, <1>3, <1>4 DEF TxStep, FeedInv, Shape

-----------------------------------------------------------------------------
(* The server *)

\* A running transaction goes on and still runs.
LEMMA TxGoesOn ==
  ASSUME FeedInv, NEW t \in Tab, NEW x, tx' = [tx EXCEPT ![t] = x], DOMAIN x = TxFields,
         x.writer \in BOOLEAN, tx[t].writer => x.writer,
         x.phase \in {"check", "replay", "insert", "persist", "commit"}, log' = log
  PROVE  LogStep /\ TxStep
<1>1. DOMAIN tx = Tab /\ tx'[t] = x /\ \A u \in Tab : u # t => tx'[u] = tx[u]
  BY DEF FeedInv, Shape
<1>2. Running(t)'
  BY <1>1 DEF Running
<1>3. \A u \in Tab : /\ DOMAIN tx'[u] = TxFields /\ tx'[u].writer \in BOOLEAN
                     /\ tx'[u].writer => Running(u)'
  BY <1>1, <1>2 DEF FeedInv, Shape, WriterRuns, Running
<1>4. \A i \in DOMAIN log' :
        log'[i].state = "open" => log'[i].tab \in Tab /\ tx'[log'[i].tab].writer
  BY <1>1 DEF FeedInv, OpenIsWritten
<1> QED BY <1>1, <1>3, <1>4 DEF LogStep, TxStep, FeedInv, Shape

\* A transaction that has dealt with an event still runs.
LEMMA HandledTx ==
  ASSUME NEW x, DOMAIN x = TxFields
  PROVE  /\ DOMAIN Handled(x) = TxFields /\ Handled(x).writer = x.writer
         /\ Handled(x).phase \in {"commit", "check"}
BY DEF Handled, TxFields

\* A transaction ends: none of its entries is open any more.
LEMMA TxEnds ==
  ASSUME FeedInv, NEW t \in Tab, NEW p, NEW w \in {"kept", "gone"},
         log' = Resolved(t, w), tx' = [tx EXCEPT ![t] = Answer(t, p)]
  PROVE  LogStep /\ TxStep
<1> DEFINE x == Answer(t, p)
<1>1. LogStep
  BY DEF LogStep
<1>2. DOMAIN x = TxFields /\ x.writer = FALSE
  BY DEF Answer, NoTx, TxFields
<1> HIDE DEF x
<1>3. DOMAIN tx = Tab /\ tx'[t] = x /\ \A u \in Tab : u # t => tx'[u] = tx[u]
  BY DEF FeedInv, Shape, x
<1>4. DOMAIN tx' = Tab /\ \A u \in Tab : /\ DOMAIN tx'[u] = TxFields /\ tx'[u].writer \in BOOLEAN
                                         /\ tx'[u].writer => Running(u)'
  BY <1>2, <1>3 DEF FeedInv, Shape, WriterRuns, Running
<1>5. ASSUME NEW i \in DOMAIN log', log'[i].state = "open"
      PROVE  log'[i].tab \in Tab /\ tx'[log'[i].tab].writer
  <2>1. i \in DOMAIN log
    BY DEF Resolved
  <2>2. log'[i] = IF log[i].state = "open" /\ log[i].tab = t
                  THEN [log[i] EXCEPT !.state = w] ELSE log[i]
    BY <2>1 DEF Resolved
  <2>3. DOMAIN log[i] = {"ev", "state", "tab"}
    BY <2>1 DEF FeedInv, Shape
  <2>4. ~(log[i].state = "open" /\ log[i].tab = t)
    BY <1>5, <2>2, <2>3
  <2>5. log'[i] = log[i] /\ log[i].tab # t
    BY <1>5, <2>2, <2>4
  <2> QED BY <1>3, <1>5, <2>1, <2>5 DEF FeedInv, OpenIsWritten
<1> QED BY <1>1, <1>4, <1>5 DEF TxStep

\* Every step of a push transaction preserves the invariant.
LEMMA PushStepFeed ==
  ASSUME FeedInv, NEW t \in Tab, Check(t) \/ Replay(t) \/ Insert(t) \/ Persist(t) \/ Commit(t)
  PROVE  LogStep /\ TxStep
<1> DEFINE ev == Head(tx[t].todo)
<1>0. DOMAIN tx = Tab /\ DOMAIN tx[t] = TxFields /\ tx[t].writer \in BOOLEAN
  BY DEF FeedInv, Shape
<1>1. CASE Check(t)
  <2> DEFINE p == IF Accepts(t, ev) THEN "insert" ELSE "replay"
             x == [tx[t] EXCEPT !.phase = p]
  <2>1. tx' = [tx EXCEPT ![t] = x] /\ log' = log
    BY <1>1 DEF Check, Set
  <2>2. p \in {"insert", "replay"}
    OBVIOUS
  <2>3. DOMAIN x = TxFields /\ x.writer = tx[t].writer /\ x.phase = p
    <3> HIDE DEF p
    <3> QED BY <1>0 DEF TxFields
  <2> HIDE DEF x, p
  <2> QED BY <1>0, <2>1, <2>2, <2>3, TxGoesOn
<1>2. CASE Replay(t)
  <2> DEFINE b == IF Logged(t, ev) THEN tx[t].bad ELSE tx[t].bad \cup {ev}
             y == [tx[t] EXCEPT !.bad = b]
             x == Handled(y)
  <2>1. tx' = [tx EXCEPT ![t] = x] /\ log' = log
    BY <1>2, Zenon DEF Replay, Set
  <2>2. DOMAIN y = TxFields /\ y.writer = tx[t].writer
    <3> HIDE DEF b
    <3> QED BY <1>0 DEF TxFields
  <2>3. DOMAIN x = TxFields /\ x.writer = tx[t].writer /\ x.phase \in {"commit", "check"}
    <3> HIDE DEF y
    <3> QED BY <2>2, HandledTx
  <2> HIDE DEF x, y, b
  <2> QED BY <1>0, <2>1, <2>3, TxGoesOn
<1>3. CASE Insert(t)
  <2> DEFINE y == [tx[t] EXCEPT !.writer = TRUE]
  <2>1. DOMAIN y = TxFields /\ y.writer = TRUE
    BY <1>0 DEF TxFields
  <2>2. CASE Logged(t, ev)
    <3>1. tx' = [tx EXCEPT ![t] = Handled(y)] /\ log' = log
      BY <1>3, <2>2 DEF Insert, Set
    <3> HIDE DEF y
    <3> QED BY <1>0, <2>1, <3>1, HandledTx, TxGoesOn
  <2>3. CASE ~Logged(t, ev)
    <3> DEFINE x == [y EXCEPT !.phase = "persist"]
    <3>1. tx' = [tx EXCEPT ![t] = x] /\ Logs(ev, "open", t)
      BY <1>3, <2>3 DEF Insert, Set
    <3>2. DOMAIN x = TxFields /\ x.writer = TRUE /\ x.phase = "persist"
      <4> HIDE DEF y
      <4> QED BY <2>1 DEF TxFields
    <3> HIDE DEF x, y
    <3>3. LogStep
      BY <3>1, Zenon DEF LogStep
    <3>4. tx'[t] = x /\ \A u \in Tab : u # t => tx'[u] = tx[u]
      BY <1>0, <3>1
    <3>5. DOMAIN tx' = Tab /\ \A u \in Tab : /\ DOMAIN tx'[u] = TxFields /\ tx'[u].writer \in BOOLEAN
                                             /\ tx'[u].writer => Running(u)'
      BY <1>0, <3>1, <3>2, <3>4 DEF FeedInv, Shape, WriterRuns, Running
    <3>6. \A i \in DOMAIN log' :
            log'[i].state = "open" => log'[i].tab \in Tab /\ tx'[log'[i].tab].writer
      <4> DEFINE e == [ev |-> ev, state |-> "open", tab |-> t]
      <4>1. log' = Append(log, e) /\ e.tab = t
        BY <3>1 DEF Logs
      <4> HIDE DEF e
      <4>2. /\ Len(log) \in Nat /\ DOMAIN log = 1..Len(log)
            /\ DOMAIN log' = 1..(Len(log) + 1)
            /\ \A i \in 1..Len(log) : log'[i] = log[i]
            /\ log'[Len(log) + 1] = e
        BY <4>1, LogAppend DEF FeedInv, Shape
      <4>3. TAKE i \in DOMAIN log'
      <4>4. CASE i = Len(log) + 1
        BY <3>2, <3>4, <4>1, <4>2, <4>4
      <4>5. CASE i # Len(log) + 1
        <5>1. i \in DOMAIN log /\ log'[i] = log[i]
          BY <4>2, <4>5
        <5> QED BY <3>2, <3>4, <5>1 DEF FeedInv, OpenIsWritten
      <4> QED BY <4>4, <4>5
    <3> QED BY <3>3, <3>5, <3>6 DEF TxStep
  <2> QED BY <2>2, <2>3
<1>4. CASE Persist(t)
  <2>1. CASE tx' = [tx EXCEPT ![t] = Handled(tx[t])]
    BY <1>0, <1>4, <2>1, HandledTx, TxGoesOn DEF Persist
  <2>2. ASSUME NEW rows, tx' = [tx EXCEPT ![t] = Handled([tx[t] EXCEPT !.rows = rows])]
        PROVE  LogStep /\ TxStep
    <3> DEFINE y == [tx[t] EXCEPT !.rows = rows]
    <3>1. DOMAIN y = TxFields /\ y.writer = tx[t].writer
      BY <1>0 DEF TxFields
    <3>2. log' = log /\ tx' = [tx EXCEPT ![t] = Handled(y)]
      BY <1>4, <2>2 DEF Persist
    <3> HIDE DEF y
    <3> QED BY <1>0, <3>1, <3>2, HandledTx, TxGoesOn
  <2>3. \/ tx' = [tx EXCEPT ![t] = Handled(tx[t])]
        \/ \E rows : tx' = [tx EXCEPT ![t] = Handled([tx[t] EXCEPT !.rows = rows])]
    BY <1>4, Zenon DEF Persist, Set
  <2> QED BY <2>1, <2>2, <2>3
<1>5. CASE Commit(t)
  BY <1>5, TxEnds DEF Commit, Set
<1> QED BY <1>1, <1>2, <1>3, <1>4, <1>5

\* So does its end without a commit: what it wrote is gone, not open.
LEMMA AbortFeed ==
  ASSUME FeedInv, NEW t \in Tab, Abort(t) PROVE LogStep /\ TxStep
BY TxEnds DEF Abort, Set

\* A hosted write appends an entry that is kept.
LEMMA KeptFeed ==
  ASSUME FeedInv, NEW ev, Logs(ev, "kept", NoRow), tx' = tx PROVE LogStep /\ TxStep
<1> DEFINE e == [ev |-> ev, state |-> "kept", tab |-> NoRow]
<1>1. log' = Append(log, e) /\ e.state = "kept"
  BY DEF Logs
<1> HIDE DEF e
<1>2. /\ Len(log) \in Nat /\ DOMAIN log = 1..Len(log)
      /\ DOMAIN log' = 1..(Len(log) + 1)
      /\ \A i \in 1..Len(log) : log'[i] = log[i]
      /\ log'[Len(log) + 1] = e
  BY <1>1, LogAppend DEF FeedInv, Shape
<1>3. LogStep
  BY DEF LogStep
<1>4. \A i \in DOMAIN log' : log'[i].state = "open" => i \in DOMAIN log /\ log'[i] = log[i]
  BY <1>1, <1>2
<1> QED BY <1>3, <1>4 DEF TxStep, FeedInv, Shape, OpenIsWritten, WriterRuns, Running

\* And every other step of the server.
LEMMA ServerFeed ==
  ASSUME FeedInv, \/ \E t \in Tab : PushStep(t) \/ PushAborts(t)
                  \/ \E e \in Entity, op \in {"put", "del"} : HostedNote(e, op) \/ HostedPosition(e, op)
                  \/ HostedWrites
  PROVE  FeedKept
<1>1. ASSUME NEW t \in Tab, PushStep(t) PROVE FeedKept
  <2>1. LogStep /\ TxStep
    BY <1>1, PushStepFeed DEF PushStep
  <2>2. UNCHANGED <<cursor, applied, flow>>
    BY <1>1 DEF PushStep, deviceVars
  <2> QED BY <2>1, <2>2, CursorsStay, FlowStays, FeedStep
<1>2. ASSUME NEW t \in Tab, PushAborts(t) PROVE FeedKept
  <2>1. LogStep /\ TxStep
    BY <1>2, AbortFeed DEF PushAborts
  <2>2. UNCHANGED <<cursor, applied, flow>>
    BY <1>2 DEF PushAborts, deviceVars
  <2> QED BY <2>1, <2>2, CursorsStay, FlowStays, FeedStep
<1>3. ASSUME NEW e, NEW op, HostedNote(e, op) PROVE FeedKept
  <2>1. PICK ev : Logs(ev, "kept", NoRow) /\ UNCHANGED <<tx, cursor, applied, flow>>
    BY <1>3, Zenon DEF HostedNote, deviceVars
  <2> QED BY <2>1, KeptFeed, CursorsStay, FlowStays, FeedStep
<1>4. ASSUME NEW e, NEW op, HostedPosition(e, op) PROVE FeedKept
  <2>1. UNCHANGED <<log, tx, cursor, applied, flow>>
    BY <1>4, Zenon DEF HostedPosition, deviceVars
  <2> QED BY <2>1, TxStays, CursorsStay, FlowStays, FeedStep
<1>5. CASE HostedWrites
  <2>1. /\ UNCHANGED <<tx, cursor, applied, flow>>
        /\ log' = log \/ Logs(web, "kept", NoRow)
    BY <1>5, Zenon DEF HostedWrites, deviceVars
  <2> QED BY <2>1, TxStays, KeptFeed, CursorsStay, FlowStays, FeedStep
<1> QED BY <1>1, <1>2, <1>3, <1>4, <1>5

-----------------------------------------------------------------------------
(* The tabs *)

\* Nothing but a tab that reads nothing afterwards moves.
LEMMA IdleMove ==
  ASSUME FeedInv, NEW t \in Tab, LogStep, TxStep, UNCHANGED <<cursor, applied>>,
         DOMAIN flow' = Tab, DOMAIN flow'[t] = FlowFields,
         \A u \in Tab : u # t => flow'[u] = flow[u],
         flow'[t].pc \notin {"pull", "save", "mark", "finish", "apply"}
  PROVE  FeedKept
BY CursorsStay, ReadsNothing, OneTabMoves, FeedStep

\* The flow after an assignment to one tab, and to fields of one.
LEMMA FlowAt ==
  ASSUME FeedInv, NEW t \in Tab
  PROVE  /\ \A f : flow' = [flow EXCEPT ![t] = f] =>
              DOMAIN flow' = Tab /\ flow'[t] = f /\ \A u \in Tab : u # t => flow'[u] = flow[u]
         /\ \A p : Goto(t, p) =>
              /\ DOMAIN flow' = Tab /\ \A u \in Tab : u # t => flow'[u] = flow[u]
              /\ DOMAIN flow'[t] = FlowFields /\ flow'[t].pc = p
              /\ flow'[t].cur = flow[t].cur /\ flow'[t].page = flow[t].page
BY DEF FeedInv, Shape, Goto, FlowFields

\* A tab at rest is at rest.
LEMMA IdleFields ==
  /\ DOMAIN Idle = FlowFields /\ Idle.pc = "idle"
  /\ DOMAIN Closed = FlowFields /\ Closed.pc = "closed"
BY DEF Idle, Closed, FlowFields

\* A tab ends its operation.
LEMMA EndsFeed ==
  ASSUME FeedInv, NEW t \in Tab, Ends(t), LogStep, TxStep, UNCHANGED <<cursor, applied>>
  PROVE  FeedKept
<1>1. DOMAIN flow' = Tab /\ flow'[t] = Idle /\ \A u \in Tab : u # t => flow'[u] = flow[u]
  BY FlowAt DEF Ends
<1> QED BY <1>1, IdleFields, IdleMove

\* The steps that begin an operation of a tab.
LEMMA StartFeed ==
  ASSUME FeedInv, NEW t \in Tab, SyncNow(t) \/ AcceptRemote(t) \/ TimerFires(t) \/ Open(t)
  PROVE  FeedKept
<1>1. UNCHANGED <<log, tx, cursor, applied>>
  BY Zenon DEF SyncNow, AcceptRemote, TimerFires, Open, Started, serverVars, deviceVars
<1>2. CASE UNCHANGED flow
  BY <1>1, <1>2, TxStays, CursorsStay, FlowStays, FeedStep
<1>3. ASSUME NEW accept, Started(t, accept) PROVE FeedKept
  <2> DEFINE p == IF accept THEN "snapshot" ELSE "recover"
             f == [Idle EXCEPT !.accept = accept, !.first = ~accept, !.pc = p]
  <2>1. p \in {"snapshot", "recover"}
    OBVIOUS
  <2>2. flow' = [flow EXCEPT ![t] = f]
    BY <1>3, Zenon DEF Started
  <2>3. DOMAIN f = FlowFields /\ f.pc = p
    <3> HIDE DEF p
    <3> QED BY DEF Idle, FlowFields
  <2> HIDE DEF f, p
  <2>4. DOMAIN flow' = Tab /\ flow'[t] = f /\ \A u \in Tab : u # t => flow'[u] = flow[u]
    BY <2>2, FlowAt
  <2> QED BY <1>1, <2>1, <2>3, <2>4, TxStays, IdleMove
<1>4. CASE Ends(t)
  BY <1>1, <1>4, TxStays, EndsFeed
<1>5. CASE flow' = [flow EXCEPT ![t] = [Idle EXCEPT !.first = TRUE, !.pc = "recover"]]
  <2> DEFINE f == [Idle EXCEPT !.first = TRUE, !.pc = "recover"]
  <2>1. DOMAIN f = FlowFields /\ f.pc = "recover"
    BY DEF Idle, FlowFields
  <2> HIDE DEF f
  <2>2. DOMAIN flow' = Tab /\ flow'[t] = f /\ \A u \in Tab : u # t => flow'[u] = flow[u]
    BY <1>5, FlowAt DEF f
  <2> QED BY <1>1, <2>1, <2>2, TxStays, IdleMove
<1>6. \/ UNCHANGED flow \/ Ends(t) \/ \E accept : Started(t, accept)
      \/ flow' = [flow EXCEPT ![t] = [Idle EXCEPT !.first = TRUE, !.pc = "recover"]]
  BY Zenon DEF SyncNow, AcceptRemote, TimerFires, Open
<1> QED BY <1>2, <1>3, <1>4, <1>5, <1>6

\* Edits, discarded items and leases.
LEMMA OutboxFeed ==
  ASSUME FeedInv, \/ \E t \in Tab, e \in Entity, op \in {"put", "del"} : Edit(t, e, op)
                  \/ \E t \in Tab : \E i \in DOMAIN Items(t) : Discard(t, i)
                  \/ \E d \in Device : \E i \in DOMAIN outbox[d] : LeaseExpires(d, i)
  PROVE  FeedKept
<1>1. ASSUME NEW t \in Tab, NEW e \in Entity, NEW op \in {"put", "del"}, Edit(t, e, op)
      PROVE  UNCHANGED <<log, tx, cursor, applied, flow>>
  <2>1. UNCHANGED <<serverVars, cursor, status, applied, flow, raced, faults>>
    BY <1>1, Zenon DEF Edit
  <2> QED BY <2>1 DEF serverVars
<1>2. UNCHANGED <<log, tx, cursor, applied, flow>>
  BY <1>1, Zenon DEF Discard, LeaseExpires, serverVars
<1> QED BY <1>2, TxStays, CursorsStay, FlowStays, FeedStep

\* A tab that starts to read does so from the saved cursor.
LEMMA FromSavedCursor ==
  ASSUME FeedInv, NEW t \in Tab, UNCHANGED <<log, tx, cursor, applied>>,
         DOMAIN flow' = Tab, DOMAIN flow'[t] = FlowFields,
         \A u \in Tab : u # t => flow'[u] = flow[u],
         flow'[t].pc = "pull", flow'[t].cur = cursor[dev(t)]
  PROVE  FeedKept
<1>1. Covered(log', flow'[t].cur, applied'[dev(t)])
  BY DevType DEF FeedInv, CursorCovered
<1>2. Reads(t)'
  BY <1>1 DEF Reads, dev
<1> QED BY <1>2, TxStays, CursorsStay, OneTabMoves, FeedStep

\* The steps of a flush before it sends.
LEMMA QueueStepFeed ==
  ASSUME FeedInv, NEW t \in Tab, Recover(t) \/ List(t) \/ Compact(t) \/ Claim(t) \/ Snapshot(t)
  PROVE  FeedKept
<1>1. UNCHANGED <<log, tx, cursor, applied>>
  BY Zenon DEF Recover, List, Compact, Claim, Snapshot, Outside, serverVars
<1>2. CASE Recover(t)
  BY <1>1, <1>2, FlowAt, TxStays, IdleMove DEF Recover
<1>3. CASE List(t)
  <2>1. /\ DOMAIN flow' = Tab /\ \A u \in Tab : u # t => flow'[u] = flow[u]
        /\ DOMAIN flow'[t] = FlowFields /\ flow'[t].pc = "compact"
    BY <1>3 DEF List, FeedInv, Shape, FlowFields
  <2> QED BY <1>1, <2>1, TxStays, IdleMove
<1>4. CASE Compact(t)
  <2> DEFINE left == flow[t].items \ Superseded(t)
  <2>1. \/ flow' = [flow EXCEPT ![t].pc = "claim", ![t].items = left]
        \/ Ends(t)
        \/ flow' = [flow EXCEPT ![t].pc = "pull", ![t].items = {}, ![t].cur = cursor[dev(t)]]
    BY <1>4, Zenon DEF Compact
  <2> HIDE DEF left
  <2>2. CASE flow' = [flow EXCEPT ![t].pc = "claim", ![t].items = left]
    <3>1. /\ DOMAIN flow' = Tab /\ \A u \in Tab : u # t => flow'[u] = flow[u]
          /\ DOMAIN flow'[t] = FlowFields /\ flow'[t].pc = "claim"
      BY <2>2 DEF FeedInv, Shape, FlowFields
    <3> QED BY <1>1, <3>1, TxStays, IdleMove
  <2>3. CASE Ends(t)
    BY <1>1, <2>3, TxStays, EndsFeed
  <2>4. CASE flow' = [flow EXCEPT ![t].pc = "pull", ![t].items = {}, ![t].cur = cursor[dev(t)]]
    <3>1. /\ DOMAIN flow' = Tab /\ \A u \in Tab : u # t => flow'[u] = flow[u]
          /\ DOMAIN flow'[t] = FlowFields /\ flow'[t].pc = "pull" /\ flow'[t].cur = cursor[dev(t)]
      BY <2>4 DEF FeedInv, Shape, FlowFields
    <3> QED BY <1>1, <3>1, FromSavedCursor
  <2> QED BY <2>1, <2>2, <2>3, <2>4
<1>5. CASE Claim(t)
  <2>1. \/ Ends(t)
        \/ \E claimed : flow' = [flow EXCEPT ![t].pc = "send", ![t].items = claimed, ![t].first = FALSE]
    BY <1>5, Zenon DEF Claim
  <2>2. ASSUME NEW claimed,
               flow' = [flow EXCEPT ![t].pc = "send", ![t].items = claimed, ![t].first = FALSE]
        PROVE  FeedKept
    <3>1. /\ DOMAIN flow' = Tab /\ \A u \in Tab : u # t => flow'[u] = flow[u]
          /\ DOMAIN flow'[t] = FlowFields /\ flow'[t].pc = "send"
      BY <2>2 DEF FeedInv, Shape, FlowFields
    <3> QED BY <1>1, <3>1, TxStays, IdleMove
  <2> QED BY <1>1, <2>1, <2>2, TxStays, EndsFeed
<1>6. CASE Snapshot(t)
  <2>1. PICK items : flow' = [flow EXCEPT ![t].pc = "pull", ![t].cur = cursor[dev(t)], ![t].items = items]
    BY <1>6, Zenon DEF Snapshot
  <2>2. /\ DOMAIN flow' = Tab /\ \A u \in Tab : u # t => flow'[u] = flow[u]
        /\ DOMAIN flow'[t] = FlowFields /\ flow'[t].pc = "pull" /\ flow'[t].cur = cursor[dev(t)]
    BY <2>1 DEF FeedInv, Shape, FlowFields
  <2> QED BY <1>1, <2>2, FromSavedCursor
<1> QED BY <1>2, <1>3, <1>4, <1>5, <1>6

\* No transaction has written nothing.
LEMMA EmptyTx == DOMAIN NoTx = TxFields /\ NoTx.writer = FALSE /\ NoTx.phase = "none"
BY DEF NoTx, TxFields

\* A tab drops its transaction, unless the server still works on it.
LEMMA DropsTx ==
  ASSUME FeedInv, NEW t \in Tab, log' = log,
         tx' = [tx EXCEPT ![t] = IF Running(t) THEN tx[t] ELSE NoTx]
  PROVE  LogStep /\ TxStep
<1>1. CASE Running(t)
  <2>1. DOMAIN tx' = Tab /\ \A u \in Tab : tx'[u] = tx[u]
    BY <1>1 DEF FeedInv, Shape
  <2> QED BY <2>1 DEF FeedInv, Shape, OpenIsWritten, WriterRuns, LogStep, TxStep, Running
<1>2. CASE ~Running(t)
  <2>1. ~tx[t].writer
    BY <1>2 DEF FeedInv, WriterRuns
  <2> QED BY <1>2, <2>1, EmptyTx, TxReplaced
<1> QED BY <1>1, <1>2

\* A push whose answer is a failure, or gets lost.
LEMMA PushFailedFeed ==
  ASSUME FeedInv, NEW t \in Tab, PushFailed(t) PROVE FeedKept
<1>1. /\ Ends(t) /\ UNCHANGED <<log, cursor, applied>>
      /\ tx' = [tx EXCEPT ![t] = IF Running(t) THEN tx[t] ELSE NoTx]
  BY DEF PushFailed
<1> QED BY <1>1, DropsTx, EndsFeed

\* Sending, settling and losing a push, and the death of a tab.
LEMMA PushFeed ==
  ASSUME FeedInv, NEW t \in Tab,
         Send(t) \/ Settle(t) \/ PushRefused(t) \/ PushLost(t) \/ TabDies(t)
  PROVE  FeedKept
<1>1. CASE Send(t)
  <2> DEFINE x == [NoTx EXCEPT !.phase = "check", !.todo = Batch(t)]
  <2>1. DOMAIN x = TxFields /\ x.writer = FALSE
    BY DEF NoTx, TxFields
  <2>2. ~tx[t].writer
    BY <1>1 DEF Send, FeedInv, WriterRuns, Running
  <2>3. tx' = [tx EXCEPT ![t] = x] /\ UNCHANGED <<log, cursor, applied>> /\ Goto(t, "await")
    BY <1>1 DEF Send, Set, deviceVars
  <2> HIDE DEF x
  <2>4. LogStep /\ TxStep
    BY <2>1, <2>2, <2>3, TxReplaced
  <2> QED BY <2>3, <2>4, FlowAt, IdleMove
<1>2. CASE Settle(t)
  <2>1. ~tx[t].writer
    BY <1>2 DEF Settle, FeedInv, WriterRuns, Running
  <2>2. tx' = [tx EXCEPT ![t] = NoTx] /\ UNCHANGED <<log, cursor, applied>>
    BY <1>2 DEF Settle, Set
  <2>3. LogStep /\ TxStep
    BY <2>1, <2>2, EmptyTx, TxReplaced
  <2>4. Ends(t) \/ Goto(t, "list")
    BY <1>2, Zenon DEF Settle
  <2> QED BY <2>2, <2>3, <2>4, FlowAt, IdleMove, EndsFeed
<1>3. CASE PushRefused(t) \/ PushLost(t)
  BY <1>3, PushFailedFeed DEF PushRefused, PushLost
<1>4. CASE TabDies(t)
  <2>1. /\ tx' = [tx EXCEPT ![t] = IF Running(t) THEN tx[t] ELSE NoTx]
        /\ UNCHANGED <<log, cursor, applied>> /\ flow' = [flow EXCEPT ![t] = Closed]
    BY <1>4 DEF TabDies, deviceVars
  <2>2. DOMAIN flow' = Tab /\ flow'[t] = Closed /\ \A u \in Tab : u # t => flow'[u] = flow[u]
    BY <2>1, FlowAt
  <2> QED BY <2>1, <2>2, DropsTx, IdleFields, IdleMove
<1> QED BY <1>1, <1>2, <1>3, <1>4

\* What a page holds after its cursor is everything kept up to the new one.
LEMMA PullCovers ==
  ASSUME FeedInv, NoWriters, NEW c, NEW A, Covered(log, c, A)
  PROVE  /\ Covered(log, MaxOf(FirstOf(After(c), PageSize), c), A \cup FirstOf(After(c), PageSize))
         /\ \A i \in FirstOf(After(c), PageSize) : i <= MaxOf(FirstOf(After(c), PageSize), c)
<1> DEFINE page == FirstOf(After(c), PageSize)
           m == MaxOf(page, c)
           n == Len(log)
<1> SUFFICES Covered(log, m, A \cup page) /\ \A i \in page : i <= m
  OBVIOUS
<1>1. n \in Nat /\ DOMAIN log = 1..n
  BY LogAppend DEF FeedInv, Shape
<1>2. After(c) \subseteq 1..n /\ page \subseteq After(c)
  BY <1>1 DEF After, FirstOf
<1>3. c \in Nat /\ PageSize \in Nat
  BY SyncAssumption DEF Covered
<1>4. /\ page = {} => m = c
      /\ page # {} => m \in page /\ \A j \in page : j <= m
  <2> HIDE DEF page
  <2> QED BY <1>1, <1>2, <1>3, MaxIsMax
<1>5. \A i \in DOMAIN log : log[i].state # "open"
  BY DEF NoWriters, FeedInv, OpenIsWritten
<1>6. CASE page = {}
  <2>1. Covered(log, c, A \cup page)
    <3> HIDE DEF page
    <3> QED BY DEF Covered
  <2>2. page = {}
    BY <1>6
  <2> HIDE DEF page
  <2> QED BY <1>4, <2>1, <2>2
<1>7. CASE page # {}
  <2>1. m \in page /\ m \in After(c) /\ m \in 1..n /\ m > c
    <3> HIDE DEF m
    <3> QED BY <1>2, <1>4, <1>7 DEF After
  <2>2. ASSUME NEW i \in 1..m
        PROVE  /\ i \in DOMAIN log /\ log[i].state # "open"
               /\ log[i].state = "kept" => i \in A \cup page
    <3> HIDE DEF m
    <3>1. i \in DOMAIN log /\ i \in Nat /\ i <= m /\ i \in 1..n
      BY <1>1, <2>1
    <3>2. CASE i <= c
      <4>1. i \in 1..c
        BY <1>3, <3>1, <3>2
      <4> QED BY <4>1 DEF Covered
    <3>3. CASE i > c /\ log[i].state = "kept"
      <4>1. i \in After(c)
        BY <3>1, <3>3 DEF After
      <4>2. m \in FirstOf(After(c), PageSize)
        BY <2>1
      <4>3. i \in page
        <5> DEFINE S == After(c)
        <5>1. S \subseteq 1..n /\ i \in S /\ m \in FirstOf(S, PageSize)
          BY <1>2, <4>1, <4>2
        <5> HIDE DEF S, n
        <5>2. i \in FirstOf(S, PageSize)
          BY <1>1, <1>3, <3>1, <5>1, FirstOfIsPrefix
        <5> QED BY <5>2 DEF S
      <4> QED BY <1>5, <3>1, <4>3
    <3> QED BY <1>3, <1>5, <3>1, <3>2, <3>3
  <2>3. m \in Nat
    <3> HIDE DEF m
    <3> QED BY <2>1
  <2>4. ASSUME NEW k, k = m PROVE Covered(log, k, A \cup page)
    <3> HIDE DEF m, page
    <3> QED BY <2>2, <2>3, <2>4 DEF Covered
  <2>5. \A i \in page : i <= m
    <3> HIDE DEF page, m
    <3> QED BY <1>4, <1>7
  <2> QED BY <2>4, <2>5
<1> QED BY <1>6, <1>7

\* The page a tab has pulled is everything between its old and new cursor.
LEMMA PullFeed ==
  ASSUME FeedInv, NEW t \in Tab, Pull(t) PROVE FeedKept
<1> DEFINE page == FirstOf(After(flow[t].cur), PageSize)
           c == MaxOf(page, flow[t].cur)
<1>1. /\ flow[t].pc = "pull" /\ NoWriters
      /\ flow' = [flow EXCEPT ![t].pc = "apply", ![t].page = page, ![t].cur = c]
      /\ UNCHANGED <<log, tx, cursor, applied>>
  BY Zenon DEF Pull, Outside, serverVars
<1>2. Covered(log, flow[t].cur, applied[dev(t)])
  BY <1>1 DEF FeedInv, Reads
<1>3. Covered(log, c, applied[dev(t)] \cup page) /\ \A i \in page : i <= c
  BY <1>1, <1>2, PullCovers
<1> HIDE DEF page, c
<1>4. /\ DOMAIN flow' = Tab /\ \A u \in Tab : u # t => flow'[u] = flow[u]
      /\ DOMAIN flow'[t] = FlowFields /\ flow'[t].pc = "apply"
      /\ flow'[t].page = page /\ flow'[t].cur = c
  BY <1>1 DEF FeedInv, Shape, FlowFields
<1>5. Covered(log', flow'[t].cur, applied'[dev(t)] \cup flow'[t].page)
  BY <1>1, <1>3, <1>4
<1>6. page \subseteq Published /\ log' = log
  BY <1>1 DEF page, FirstOf, After, Published
<1>7. flow'[t].page \subseteq Published'
  BY <1>4, <1>6 DEF Published
<1>8. Reads(t)'
  BY <1>3, <1>4, <1>5, <1>7 DEF Reads, dev
<1> QED BY <1>1, <1>4, <1>8, TxStays, CursorsStay, OneTabMoves, FeedStep

\* Applying the page covers the new cursor on the device.
LEMMA ApplyFeed ==
  ASSUME FeedInv, NEW t \in Tab, Apply(t) PROVE FeedKept
<1>1. /\ flow[t].pc = "apply" /\ Goto(t, "save") /\ UNCHANGED <<log, tx, cursor>>
      /\ applied' = [applied EXCEPT ![dev(t)] = applied[dev(t)] \cup flow[t].page]
  BY Zenon DEF Apply, serverVars
<1>2. /\ DOMAIN flow' = Tab /\ \A u \in Tab : u # t => flow'[u] = flow[u]
      /\ DOMAIN flow'[t] = FlowFields /\ flow'[t].pc = "save" /\ flow'[t].cur = flow[t].cur
  BY <1>1, FlowAt
<1>3. /\ DOMAIN applied' = Device /\ \A d \in Device : applied[d] \subseteq applied'[d]
      /\ applied'[dev(t)] = applied[dev(t)] \cup flow[t].page
  BY <1>1, DevType DEF FeedInv, Shape
<1>4. CursorStep
  BY <1>1 DEF CursorStep
<1>5. Covered(log', flow'[t].cur, applied'[dev(t)])
  BY <1>1, <1>2, <1>3 DEF FeedInv, Reads
<1>6. Reads(t)'
  BY <1>2, <1>5 DEF Reads, dev
<1> QED BY <1>1, <1>2, <1>4, <1>6, TxStays, OneTabMoves, FeedStep

\* The tab saves the cursor it has in hand.
LEMMA SavesCursor ==
  ASSUME FeedInv, NEW t \in Tab, flow[t].pc \in {"save", "finish"}, UNCHANGED <<log, tx, applied>>,
         cursor' = [cursor EXCEPT ![dev(t)] = flow[t].cur]
  PROVE  CursorStep
BY DEF CursorStep

\* Then the cursor is saved.
LEMMA SaveFeed ==
  ASSUME FeedInv, NEW t \in Tab, Save(t) PROVE FeedKept
<1>1. PICK p \in {"pull", "mark", "finish"} :
        /\ flow[t].pc = "save" /\ UNCHANGED <<log, tx, applied>>
        /\ cursor' = [cursor EXCEPT ![dev(t)] = flow[t].cur]
        /\ flow' = [flow EXCEPT ![t].page = {}, ![t].pc = p]
  <2> DEFINE p == IF Cardinality(flow[t].page) = PageSize THEN "pull"
                  ELSE IF flow[t].accept THEN "mark" ELSE "finish"
  <2>1. p \in {"pull", "mark", "finish"}
    OBVIOUS
  <2>2. /\ flow[t].pc = "save" /\ UNCHANGED <<log, tx, applied>>
        /\ cursor' = [cursor EXCEPT ![dev(t)] = flow[t].cur]
        /\ flow' = [flow EXCEPT ![t].page = {}, ![t].pc = p]
    BY Zenon DEF Save, serverVars
  <2> HIDE DEF p
  <2> QED BY <2>1, <2>2
<1>2. /\ DOMAIN flow' = Tab /\ \A u \in Tab : u # t => flow'[u] = flow[u]
      /\ DOMAIN flow'[t] = FlowFields /\ flow'[t].pc = p /\ flow'[t].cur = flow[t].cur
  BY <1>1 DEF FeedInv, Shape, FlowFields
<1>3. Covered(log', flow'[t].cur, applied'[dev(t)])
  BY <1>1, <1>2 DEF FeedInv, Reads
<1>4. Reads(t)'
  BY <1>1, <1>2, <1>3 DEF Reads, dev
<1> QED BY <1>1, <1>2, <1>4, SavesCursor, TxStays, OneTabMoves, FeedStep

\* And saved again at the end.
LEMMA FinishFeed ==
  ASSUME FeedInv, NEW t \in Tab, Finish(t) PROVE FeedKept
<1>1. /\ flow[t].pc = "finish" /\ UNCHANGED <<log, tx, applied>> /\ Ends(t)
      /\ cursor' = [cursor EXCEPT ![dev(t)] = flow[t].cur]
  BY Zenon DEF Finish, serverVars
<1>2. DOMAIN flow' = Tab /\ flow'[t] = Idle /\ \A u \in Tab : u # t => flow'[u] = flow[u]
  BY <1>1, FlowAt DEF Ends
<1>3. Reads(t)'
  BY <1>2, IdleFields, ReadsNothing
<1> QED BY <1>1, <1>2, <1>3, IdleFields, SavesCursor, TxStays, OneTabMoves, FeedStep

\* Giving up what was queued does not touch the cursor.
LEMMA MarkFeed ==
  ASSUME FeedInv, NEW t \in Tab, Mark(t) PROVE FeedKept
<1>1. /\ flow[t].pc = "mark" /\ Goto(t, "finish") /\ UNCHANGED <<log, tx, cursor, applied>>
  BY Zenon DEF Mark, Outside, serverVars
<1>2. /\ DOMAIN flow' = Tab /\ \A u \in Tab : u # t => flow'[u] = flow[u]
      /\ DOMAIN flow'[t] = FlowFields /\ flow'[t].pc = "finish" /\ flow'[t].cur = flow[t].cur
  BY <1>1, FlowAt
<1>3. Covered(log', flow'[t].cur, applied'[dev(t)])
  BY <1>1, <1>2 DEF FeedInv, Reads
<1>4. Reads(t)'
  BY <1>2, <1>3 DEF Reads, dev
<1> QED BY <1>1, <1>2, <1>4, TxStays, CursorsStay, OneTabMoves, FeedStep

\* A pull that fails keeps the old cursor.
LEMMA PullFailedFeed ==
  ASSUME FeedInv, NEW t \in Tab, PullTimesOut(t) \/ PullLost(t) PROVE FeedKept
<1>1. Ends(t) /\ UNCHANGED <<log, tx, cursor, applied>>
  BY DEF PullTimesOut, PullLost, PullFailed, serverVars
<1> QED BY <1>1, TxStays, EndsFeed

-----------------------------------------------------------------------------
(* The theorem *)

\* The empty log hides nothing.
LEMMA FeedInit == ASSUME Init PROVE FeedInv
<1>1. log = <<>> /\ IsLog(log) /\ DOMAIN log = {}
  BY EmptySeq DEF Init, IsLog
<1>2. Shape
  <2>1. DOMAIN tx = Tab /\ \A t \in Tab : DOMAIN tx[t] = TxFields /\ tx[t].writer \in BOOLEAN
    BY EmptyTx DEF Init
  <2>2. DOMAIN flow = Tab /\ \A t \in Tab : DOMAIN flow[t] = FlowFields
    BY IdleFields DEF Init
  <2>3. DOMAIN cursor = Device /\ DOMAIN applied = Device
    BY DEF Init
  <2> QED BY <1>1, <2>1, <2>2, <2>3 DEF Shape
<1>3. CursorCovered
  BY DEF Init, CursorCovered, Covered
<1>4. \A t \in Tab : Reads(t)
  BY IdleFields DEF Init, Reads
<1>5. OpenIsWritten
  BY <1>1 DEF OpenIsWritten
<1>6. WriterRuns
  BY EmptyTx DEF Init, WriterRuns
<1> QED BY <1>2, <1>3, <1>4, <1>5, <1>6 DEF FeedInv

\* Nothing changes.
LEMMA FeedStutters == ASSUME FeedInv, UNCHANGED vars PROVE FeedKept
<1>1. UNCHANGED <<log, tx, cursor, applied, flow>>
  BY DEF vars, serverVars, deviceVars
<1> QED BY <1>1, TxStays, CursorsStay, FlowStays, FeedStep

\* Every step of a tab.
LEMMA FlowStepFeed == ASSUME FeedInv, NEW t \in Tab, FlowStep(t) PROVE FeedKept
BY QueueStepFeed, PushFeed, PullFeed, PullFailedFeed, ApplyFeed, SaveFeed, FinishFeed, MarkFeed
   DEF FlowStep

\* Every step.
LEMMA FeedNext == ASSUME FeedInv, [Next]_vars PROVE FeedKept
<1>1. CASE User
  BY <1>1, OutboxFeed, ServerFeed, StartFeed DEF User
<1>2. CASE Faults
  BY <1>2, PushFeed, PullFailedFeed, ServerFeed DEF Faults
<1>3. CASE HostedWrites
  BY <1>3, ServerFeed
<1>4. ASSUME NEW t \in Tab, TimerFires(t) \/ FlowStep(t) \/ PushStep(t) PROVE FeedKept
  BY <1>4, StartFeed, FlowStepFeed, ServerFeed
<1>5. CASE \E d \in Device : \E i \in DOMAIN outbox[d] : LeaseExpires(d, i)
  BY <1>5, OutboxFeed
<1>6. CASE UNCHANGED vars
  BY <1>6, FeedStutters
<1> QED BY <1>1, <1>2, <1>3, <1>4, <1>5, <1>6 DEF Next

\* The invariant holds in every reachable state.
LEMMA FeedInvHolds == Spec => []FeedInv
<1>1. Init => FeedInv
  BY FeedInit
<1>2. FeedInv /\ [Next]_vars => FeedInv'
  BY FeedNext DEF FeedKept
<1> QED BY <1>1, <1>2, PTL DEF Spec

(***************************************************************************)
(* The cursor a device has saved misses nothing, for every number of       *)
(* devices and tabs and every interleaving of their pushes and pulls: the  *)
(* pull waits for the transactions that have written to the log, and the   *)
(* cursor follows the page that was applied.                               *)
(***************************************************************************)
THEOREM CursorMissesNothingHolds == Spec => []CursorMissesNothing
<1>1. FeedInv => CursorMissesNothing
  BY DEF FeedInv, CursorCovered, Covered, CursorMissesNothing
<1> QED BY <1>1, FeedInvHolds, PTL

-----------------------------------------------------------------------------
(* The feed *)

\* What a commit, an abort or a hosted write publishes is behind no device.
LEMMA PublishesAhead ==
  ASSUME FeedInv, LogStep
  PROVE  /\ Published \subseteq Published'
         /\ \A i \in Published' \ Published, d \in Device : i > cursor[d]
<1>1. Shape /\ IsLog(log)
  BY DEF FeedInv, Shape
<1>2. Published \subseteq Published'
  BY <1>1, LogShape DEF Published
<1>3. ASSUME NEW i \in Published', i \notin Published, NEW d \in Device PROVE i > cursor[d]
  <2>1. cursor[d] \in Nat /\ Covered(log, cursor[d], applied[d])
    BY DEF FeedInv, CursorCovered, Covered
  <2>2. i \in DOMAIN log' /\ log'[i].state = "kept" /\ i \in Nat \ {0}
    <3>1. IsLog(log')
      BY <1>1, LogShape
    <3> QED BY <3>1, LogAppend DEF Published
  <2>3. i \notin 1..cursor[d]
    <3> SUFFICES ASSUME i \in 1..cursor[d] PROVE FALSE
      OBVIOUS
    <3>1. i \in DOMAIN log /\ log[i].state # "open"
      BY <2>1 DEF Covered
    <3>2. log'[i].state = log[i].state
      BY <1>1, <3>1, LogShape
    <3> QED BY <1>3, <2>2, <3>1, <3>2 DEF Published
  <2> QED BY <2>1, <2>2, <2>3
<1> QED BY <1>2, <1>3

\* Every step publishes ahead of the devices, takes what is published, or moves a cursor over what was taken.
LEMMA FeedRefined ==
  ASSUME FeedInv, [Next]_vars PROVE [Feed!Next]_<<Published, applied, cursor>>
<1>0. FeedInv' /\ LogStep /\ CursorStep
  BY FeedNext DEF FeedKept
<1>1. DOMAIN cursor = Device /\ DOMAIN applied = Device
  BY DEF FeedInv, Shape
<1>2. CASE UNCHANGED <<cursor, applied>>
  BY <1>0, <1>2, PublishesAhead DEF Feed!Next, Feed!Publish
<1>3. ASSUME NEW t \in Tab, flow[t].pc = "apply", UNCHANGED <<log, cursor>>,
             applied' = [applied EXCEPT ![dev(t)] = applied[dev(t)] \cup flow[t].page]
      PROVE  \E d \in Device : Feed!Take(d)
  <2>1. flow[t].page \in SUBSET Published
    BY <1>3 DEF FeedInv, Reads
  <2>2. Published' = Published
    BY <1>3 DEF Published
  <2>3. Feed!Take(dev(t))
    BY <1>3, <2>1, <2>2 DEF Feed!Take
  <2> QED BY <2>3, DevType
<1>4. ASSUME NEW t \in Tab, flow[t].pc \in {"save", "finish"}, UNCHANGED <<log, applied>>,
             cursor' = [cursor EXCEPT ![dev(t)] = flow[t].cur]
      PROVE  \E d \in Device : Feed!Advance(d)
  <2>1. Published' = Published
    BY <1>4 DEF Published
  <2>2. Covered(log, flow[t].cur, applied[dev(t)])
    BY <1>4 DEF FeedInv, Reads
  <2>3. cursor'[dev(t)] = flow[t].cur /\ \A x \in Device \ {dev(t)} : cursor'[x] = cursor[x]
    BY <1>1, <1>4, DevType
  <2>4. cursor' \in [Device -> Nat]
    <3>1. \A d \in Device : cursor'[d] \in Nat
      BY <1>0 DEF FeedInv, CursorCovered, Covered
    <3>2. cursor' = [d \in Device |-> cursor'[d]]
      BY <1>1, <1>4
    <3> QED BY <3>1, <3>2
  <2>5. {i \in Published : i <= cursor'[dev(t)]} \subseteq applied[dev(t)]
    <3> SUFFICES ASSUME NEW i \in Published, i <= flow[t].cur PROVE i \in applied[dev(t)]
      BY <2>3
    <3>1. i \in DOMAIN log /\ log[i].state = "kept" /\ i \in Nat \ {0}
      BY LogAppend DEF Published, FeedInv, Shape
    <3> QED BY <2>2, <3>1 DEF Covered
  <2>6. Feed!Advance(dev(t))
    BY <1>4, <2>1, <2>3, <2>4, <2>5 DEF Feed!Advance
  <2> QED BY <2>6, DevType
<1> QED BY <1>0, <1>2, <1>3, <1>4 DEF CursorStep, Feed!Next

(***************************************************************************)
(* Pushes, pages, tabs and saved cursors implement the feed: for every     *)
(* number of devices and tabs no event is published behind a device, no    *)
(* device takes what is not published, and a cursor passes only what its   *)
(* device has taken.                                                       *)
(***************************************************************************)
THEOREM FeedImplemented == Spec => ImplementsFeed
<1>1. Init => Feed!Init
  <2>1. log = <<>> => Published = {}
    BY EmptySeq DEF Published
  <2> QED BY <2>1 DEF Init, Feed!Init
<1>2. FeedInv /\ [Next]_vars => [Feed!Next]_<<Published, applied, cursor>>
  BY FeedRefined
<1> QED BY <1>1, <1>2, FeedInvHolds, PTL DEF Spec, ImplementsFeed, Feed!Spec


-----------------------------------------------------------------------------
(* The types by the part of the state they are about, with what the steps  *)
(* need to know besides.                                                   *)

Clocks == now \in Nat /\ now # 0 /\ edits \in [Author -> Nat] /\ faults \in Nat

Server == row \in [Entity -> Rows] /\ web \in Rows /\ log \in Seq(Entry)

\* A transaction that handles events has one left, one that has handled all has none.
TxWired(x) ==
  /\ DOMAIN x = TxFields /\ TxTypeOK(x)
  /\ x.phase \in {"check", "replay", "insert", "persist"} => x.todo # <<>>
  /\ x.phase \in {"commit", "answered"} => x.todo = <<>>

Pushes == DOMAIN tx = Tab /\ \A t \in Tab : TxWired(tx[t])

Copies == local \in [Device -> [Entity -> Copy]]

Queues == outbox \in [Device -> Seq(Item)]

SavedStates ==
  /\ cursor \in [Device -> Nat] /\ status \in [Device -> SyncStatus]
  /\ applied \in [Device -> SUBSET Nat] /\ raced \subseteq Entity /\ rewound \subseteq Entity
  /\ timer \in [Tab -> BOOLEAN]

\* What a tab lists is in its outbox, what it claims is not empty, what it pulls is in the log.
FlowWired(t) ==
  /\ flow[t] \in Flow
  /\ flow[t].items \subseteq DOMAIN outbox[dev(t)]
  /\ flow[t].pc \in {"send", "await"} => flow[t].items # {}
  /\ flow[t].page \subseteq DOMAIN log

Flows == DOMAIN flow = Tab /\ flow \in [Tab -> Flow] /\ \A t \in Tab : FlowWired(t)

TypeInv ==
  Clocks /\ Server /\ Pushes /\ Copies /\ Queues /\ SavedStates /\ Flows /\ FeedInv

LEMMA TypeInvTypes == ASSUME TypeInv PROVE TypeOK
BY DEF TypeInv, TypeOK, Clocks, Server, Pushes, TxWired, Copies, Queues, SavedStates, Flows

-----------------------------------------------------------------------------
(* Items *)

LEMMA ItemRows ==
  ASSUME NEW x \in Item, NEW s \in {"pending", "sending", "failed", "sent"}
  PROVE  /\ Released(x, s) \in Item /\ Released(x, s).ev = x.ev
         /\ Released(x, s).status = s /\ Released(x, s).dropped = x.dropped
BY DEF Released, Item

LEMMA DroppedRows ==
  ASSUME NEW x \in Item, NEW s \in {"pending", "sending", "failed", "sent"}, NEW b \in BOOLEAN
  PROVE  /\ [Released(x, s) EXCEPT !.dropped = b] \in Item
         /\ [Released(x, s) EXCEPT !.dropped = b].ev = x.ev
         /\ [Released(x, s) EXCEPT !.dropped = b].dropped = b
         /\ [Released(x, s) EXCEPT !.dropped = b].status = s
BY DEF Released, Item

LEMMA ExpiredRows ==
  ASSUME NEW x \in Item
  PROVE  /\ [x EXCEPT !.expired = TRUE] \in Item /\ [x EXCEPT !.expired = TRUE].ev = x.ev
         /\ [x EXCEPT !.expired = TRUE].status = x.status /\ [x EXCEPT !.expired = TRUE].dropped = x.dropped
BY DEF Item

LEMMA LeasedRows ==
  ASSUME NEW x \in Item, NEW t \in Tab
  PROVE  /\ [x EXCEPT !.status = "sending", !.tab = t, !.expired = FALSE] \in Item
         /\ [x EXCEPT !.status = "sending", !.tab = t, !.expired = FALSE].ev = x.ev
         /\ [x EXCEPT !.status = "sending", !.tab = t, !.expired = FALSE].status = "sending"
         /\ [x EXCEPT !.status = "sending", !.tab = t, !.expired = FALSE].dropped = x.dropped
BY DEF Item

Answered(t) == flow[t].pc = "await" /\ tx[t].phase = "answered"

\* How item i of device d may come to count as sent: it did already, it is given up,
\* an answer does not refuse it, or a later item replaces it.
Sends(d, i, y) ==
  y.status = "sent" =>
    \/ outbox[d][i].status = "sent" \/ y.dropped
    \/ \E t \in Tab : /\ dev(t) = d /\ i \in flow[t].items
                      /\ \/ Answered(t) /\ outbox[d][i].ev \notin tx[t].bad
                         \/ i \in Superseded(t)

\* What may become of it: it keeps its event and stays given up.
Rewrites(d, i, y) ==
  /\ y \in Item /\ y.ev = outbox[d][i].ev /\ (outbox[d][i].dropped => y.dropped)
  /\ Sends(d, i, y)

Edits == \E t \in Tab, e \in Entity, op \in {"put", "del"} : Edit(t, e, op)

OutboxMoves(d) ==
  /\ outbox'[d] \in Seq(Item) /\ DOMAIN outbox[d] \subseteq DOMAIN outbox'[d]
  /\ DOMAIN outbox'[d] = DOMAIN outbox[d] \/ Edits
  /\ \A i \in DOMAIN outbox[d] : Rewrites(d, i, outbox'[d][i])
  /\ \A i \in DOMAIN outbox'[d] : i \in DOMAIN outbox[d] \/ outbox'[d][i].status = "pending"

QueuesMove == Queues' /\ \A d \in Device : OutboxMoves(d)

LEMMA OutboxTyped ==
  ASSUME Queues, NEW d \in Device
  PROVE  /\ outbox[d] \in Seq(Item) /\ DOMAIN outbox[d] = 1..Len(outbox[d]) /\ Len(outbox[d]) \in Nat
         /\ \A i \in DOMAIN outbox[d] : outbox[d][i] \in Item /\ Rewrites(d, i, outbox[d][i])
<1>1. outbox[d] \in Seq(Item)
  BY DEF Queues
<1>2. DOMAIN outbox[d] = 1..Len(outbox[d]) /\ Len(outbox[d]) \in Nat
  BY <1>1, LenProperties
<1>3. \A i \in DOMAIN outbox[d] : outbox[d][i] \in Item
  BY <1>1, <1>2, ElementOfSeq
<1> QED BY <1>1, <1>2, <1>3 DEF Rewrites, Sends

\* A step that leaves the outbox alone.
LEMMA QueuesStay == ASSUME Queues, UNCHANGED outbox PROVE QueuesMove
<1> SUFFICES ASSUME NEW d \in Device PROVE OutboxMoves(d)
  BY DEF QueuesMove, Queues
<1> QED BY OutboxTyped DEF OutboxMoves

\* One that rewrites items of one device in place.
LEMMA QueueRewritten ==
  ASSUME Queues, NEW c \in Device, NEW f, outbox' = [outbox EXCEPT ![c] = f],
         DOMAIN f = DOMAIN outbox[c], f = [i \in DOMAIN f |-> f[i]],
         \A i \in DOMAIN outbox[c] : Rewrites(c, i, f[i])
  PROVE  QueuesMove
<1>0. outbox \in [Device -> Seq(Item)]
  BY DEF Queues
<1>1. outbox'[c] = f /\ \A d \in Device : d # c => outbox'[d] = outbox[d]
  BY <1>0
<1>2. f \in Seq(Item)
  <2>1. DOMAIN f = 1..Len(outbox[c]) /\ Len(outbox[c]) \in Nat
    BY OutboxTyped
  <2>2. f \in [1..Len(outbox[c]) -> Item]
    BY <2>1 DEF Rewrites
  <2> QED BY <2>1, <2>2, SeqDef
<1>3. OutboxMoves(c)
  BY <1>1, <1>2 DEF OutboxMoves
<1>4. ASSUME NEW d \in Device, d # c PROVE OutboxMoves(d)
  BY <1>1, <1>4, OutboxTyped DEF OutboxMoves
<1>5. outbox' \in [Device -> Seq(Item)]
  BY <1>0, <1>2
<1> QED BY <1>3, <1>4, <1>5 DEF QueuesMove, Queues

\* An item that does not come to count as sent keeps its event and its mark.
LEMMA RewrittenUnsent ==
  ASSUME NEW d, NEW i, NEW y \in Item, y.ev = outbox[d][i].ev,
         outbox[d][i].dropped => y.dropped, y.status = "sent" => outbox[d][i].status = "sent"
  PROVE  Rewrites(d, i, y)
BY DEF Rewrites, Sends

\* The steps that rewrite items.
LEMMA RecoverQueue ==
  ASSUME Queues, NEW t \in Tab, Recover(t) PROVE QueuesMove
<1> DEFINE q == outbox[dev(t)]
           S == {i \in DOMAIN Items(t) : Items(t)[i].status = "sending" /\ Items(t)[i].expired}
           f == [i \in DOMAIN q |-> IF i \in S THEN Released(q[i], "pending") ELSE q[i]]
<1>1. outbox' = [outbox EXCEPT ![dev(t)] = f]
  BY DEF Recover, SetItems
<1>2. ASSUME NEW i \in DOMAIN q PROVE Rewrites(dev(t), i, f[i])
  <2>1. q[i] \in Item /\ Rewrites(dev(t), i, q[i])
    BY DevType, OutboxTyped
  <2>2. Rewrites(dev(t), i, Released(q[i], "pending"))
    BY <2>1, ItemRows, RewrittenUnsent
  <2> QED BY <2>1, <2>2
<1>3. DOMAIN f = DOMAIN q /\ f = [i \in DOMAIN f |-> f[i]]
  OBVIOUS
<1> HIDE DEF f
<1> QED BY <1>1, <1>2, <1>3, DevType, QueueRewritten

LEMMA CompactQueue ==
  ASSUME Queues, NEW t \in Tab, Compact(t) PROVE QueuesMove
<1> DEFINE q == outbox[dev(t)]
           S == {i \in Superseded(t) : Claimable(t, i)}
           f == [i \in DOMAIN q |-> IF i \in S THEN Released(q[i], "sent") ELSE q[i]]
<1>1. outbox' = [outbox EXCEPT ![dev(t)] = f]
  BY DEF Compact, SetItems
<1>2. ASSUME NEW i \in DOMAIN q PROVE Rewrites(dev(t), i, f[i])
  <2>1. q[i] \in Item /\ Rewrites(dev(t), i, q[i])
    BY DevType, OutboxTyped
  <2>2. ASSUME i \in S PROVE Rewrites(dev(t), i, Released(q[i], "sent"))
    <3>1. i \in Superseded(t) /\ i \in flow[t].items
      BY <2>2 DEF Superseded
    <3> QED BY <2>1, <3>1, ItemRows DEF Rewrites, Sends
  <2> QED BY <2>1, <2>2
<1>3. DOMAIN f = DOMAIN q /\ f = [i \in DOMAIN f |-> f[i]]
  OBVIOUS
<1> HIDE DEF f
<1> QED BY <1>1, <1>2, <1>3, DevType, QueueRewritten

LEMMA ClaimQueue ==
  ASSUME Queues, NEW t \in Tab, Claim(t) PROVE QueuesMove
<1> DEFINE q == outbox[dev(t)]
           S == {i \in FirstOf(flow[t].items, BatchSize) : Claimable(t, i)}
           y(i) == [q[i] EXCEPT !.status = "sending", !.tab = t, !.expired = FALSE]
           f == [i \in DOMAIN q |-> IF i \in S THEN y(i) ELSE q[i]]
<1>1. outbox' = [outbox EXCEPT ![dev(t)] = f]
  BY DEF Claim, SetItems
<1>2. ASSUME NEW i \in DOMAIN q PROVE Rewrites(dev(t), i, f[i])
  <2>1. q[i] \in Item /\ Rewrites(dev(t), i, q[i])
    BY DevType, OutboxTyped
  <2>2. Rewrites(dev(t), i, y(i))
    BY <2>1, LeasedRows DEF Rewrites, Sends
  <2> QED BY <2>1, <2>2
<1>3. DOMAIN f = DOMAIN q /\ f = [i \in DOMAIN f |-> f[i]]
  OBVIOUS
<1> HIDE DEF f
<1> QED BY <1>1, <1>2, <1>3, DevType, QueueRewritten

LEMMA SettleQueue ==
  ASSUME Queues, NEW t \in Tab, Settle(t) PROVE QueuesMove
<1> DEFINE q == outbox[dev(t)]
           s(i) == IF q[i].ev \in tx[t].bad THEN "failed" ELSE "sent"
           f == [i \in DOMAIN q |-> IF i \in Mine(t) THEN Released(q[i], s(i)) ELSE q[i]]
<1>1. outbox' = [outbox EXCEPT ![dev(t)] = f] /\ Answered(t)
  BY DEF Settle, SetItems, Answered
<1>2. ASSUME NEW i \in DOMAIN q PROVE Rewrites(dev(t), i, f[i])
  <2>1. q[i] \in Item /\ Rewrites(dev(t), i, q[i])
    BY DevType, OutboxTyped
  <2>2. ASSUME i \in Mine(t) PROVE Rewrites(dev(t), i, Released(q[i], s(i)))
    <3>1. i \in flow[t].items
      BY <2>2 DEF Mine
    <3>2. s(i) \in {"failed", "sent"} /\ (s(i) = "sent" => q[i].ev \notin tx[t].bad)
      OBVIOUS
    <3> DEFINE y == Released(q[i], s(i))
    <3>3. y \in Item /\ y.ev = q[i].ev /\ y.dropped = q[i].dropped /\ y.status = s(i)
      BY <2>1, <3>2, ItemRows
    <3> HIDE DEF s, y
    <3>4. Sends(dev(t), i, y)
      BY <1>1, <3>1, <3>2, <3>3 DEF Sends
    <3>5. Rewrites(dev(t), i, y)
      BY <3>3, <3>4 DEF Rewrites
    <3> QED BY <3>5 DEF y
  <2> QED BY <2>1, <2>2
<1>3. DOMAIN f = DOMAIN q /\ f = [i \in DOMAIN f |-> f[i]]
  OBVIOUS
<1> HIDE DEF f
<1> QED BY <1>1, <1>2, <1>3, DevType, QueueRewritten

LEMMA PushFailedQueue ==
  ASSUME Queues, NEW t \in Tab, PushFailed(t) PROVE QueuesMove
<1> DEFINE q == outbox[dev(t)]
           f == [i \in DOMAIN q |-> IF i \in Mine(t) THEN Released(q[i], "failed") ELSE q[i]]
<1>1. outbox' = [outbox EXCEPT ![dev(t)] = f]
  BY DEF PushFailed, SetItems
<1>2. ASSUME NEW i \in DOMAIN q PROVE Rewrites(dev(t), i, f[i])
  <2>1. q[i] \in Item /\ Rewrites(dev(t), i, q[i])
    BY DevType, OutboxTyped
  <2>2. Rewrites(dev(t), i, Released(q[i], "failed"))
    BY <2>1, ItemRows, RewrittenUnsent
  <2> QED BY <2>1, <2>2
<1>3. DOMAIN f = DOMAIN q /\ f = [i \in DOMAIN f |-> f[i]]
  OBVIOUS
<1> HIDE DEF f
<1> QED BY <1>1, <1>2, <1>3, DevType, QueueRewritten

LEMMA MarkQueue ==
  ASSUME Queues, NEW t \in Tab, Mark(t) PROVE QueuesMove
<1> DEFINE q == outbox[dev(t)]
           b(i) == q[i].dropped \/ q[i].status # "sent"
           y(i) == [Released(q[i], "sent") EXCEPT !.dropped = @ \/ q[i].status # "sent"]
           f == [i \in DOMAIN q |-> IF i \in flow[t].items THEN y(i) ELSE q[i]]
<1>1. outbox' = [outbox EXCEPT ![dev(t)] = f]
  BY DEF Mark, SetItems
<1>2. ASSUME NEW i \in DOMAIN q PROVE Rewrites(dev(t), i, f[i])
  <2>1. q[i] \in Item /\ Rewrites(dev(t), i, q[i])
    BY DevType, OutboxTyped
  <2>2. Released(q[i], "sent").dropped = q[i].dropped /\ b(i) \in BOOLEAN
    BY <2>1, ItemRows DEF Item
  <2>3. y(i) = [Released(q[i], "sent") EXCEPT !.dropped = b(i)]
    BY <2>2
  <2>4. q[i].status # "sent" => b(i)
    OBVIOUS
  <2>5. q[i].dropped => b(i)
    OBVIOUS
  <2> HIDE DEF b, y
  <2>6. Rewrites(dev(t), i, y(i))
    BY <2>1, <2>2, <2>3, <2>4, <2>5, DroppedRows DEF Rewrites, Sends
  <2> QED BY <2>1, <2>6
<1>3. DOMAIN f = DOMAIN q /\ f = [i \in DOMAIN f |-> f[i]]
  OBVIOUS
<1> HIDE DEF f
<1> QED BY <1>1, <1>2, <1>3, DevType, QueueRewritten

LEMMA DiscardQueue ==
  ASSUME Queues, NEW t \in Tab, NEW k \in DOMAIN Items(t), Discard(t, k) PROVE QueuesMove
<1> DEFINE q == outbox[dev(t)]
           y(i) == [Released(q[i], "sent") EXCEPT !.dropped = TRUE]
           f == [i \in DOMAIN q |-> IF i \in {k} THEN y(i) ELSE q[i]]
<1>1. outbox' = [outbox EXCEPT ![dev(t)] = f]
  BY DEF Discard, SetItems
<1>2. ASSUME NEW i \in DOMAIN q PROVE Rewrites(dev(t), i, f[i])
  <2>1. q[i] \in Item /\ Rewrites(dev(t), i, q[i])
    BY DevType, OutboxTyped
  <2>2. Rewrites(dev(t), i, y(i))
    BY <2>1, DroppedRows DEF Rewrites, Sends
  <2> QED BY <2>1, <2>2
<1>3. DOMAIN f = DOMAIN q /\ f = [i \in DOMAIN f |-> f[i]]
  OBVIOUS
<1> HIDE DEF f
<1> QED BY <1>1, <1>2, <1>3, DevType, QueueRewritten

LEMMA LeaseQueue ==
  ASSUME Queues, NEW d \in Device, NEW k \in DOMAIN outbox[d], LeaseExpires(d, k) PROVE QueuesMove
<1> DEFINE q == outbox[d]
           y(i) == [q[i] EXCEPT !.expired = TRUE]
           f == [i \in DOMAIN q |-> IF i = k THEN y(i) ELSE q[i]]
<1>1. outbox' = [outbox EXCEPT ![d] = f]
  <2>1. outbox' = [outbox EXCEPT ![d] = [outbox[d] EXCEPT ![k].expired = TRUE]]
    BY DEF LeaseExpires
  <2> QED BY <2>1
<1>2. ASSUME NEW i \in DOMAIN q PROVE Rewrites(d, i, f[i])
  <2>1. q[i] \in Item /\ Rewrites(d, i, q[i])
    BY OutboxTyped
  <2>2. Rewrites(d, i, y(i))
    BY <2>1, ExpiredRows, RewrittenUnsent
  <2> QED BY <2>1, <2>2
<1>3. DOMAIN f = DOMAIN q /\ f = [i \in DOMAIN f |-> f[i]]
  OBVIOUS
<1> HIDE DEF f
<1> QED BY <1>1, <1>2, <1>3, QueueRewritten

LEMMA EditedEvent ==
  ASSUME Clocks, NEW a \in Author, NEW n \in Nat, NEW e \in Entity, NEW op \in {"put", "del"},
         NEW time \in (1..now + 1) \cup {now, now + 1}
  PROVE  Edited(a, n, e, op, time) \in Event /\ time \in Nat \ {0}
<1>1. time \in Nat \ {0} /\ Skew[a] \in Nat
  BY SyncAssumption DEF Clocks
<1>2. time + Skew[a] \in Nat \ {0}
  BY <1>1
<1> QED BY <1>1, <1>2 DEF Edited, Event

\* An edit adds an item that is pending.
LEMMA EditQueue ==
  ASSUME Queues, Clocks, NEW t \in Tab, NEW e \in Entity, NEW op \in {"put", "del"}, Edit(t, e, op)
  PROVE  QueuesMove
<1> DEFINE d == dev(t)
           q == outbox[d]
<1>1. PICK time \in {now, now + 1} :
        outbox' = [outbox EXCEPT ![d] = Append(q,
          [ev |-> Edited(d, Len(q) + 1, e, op, time), status |-> "pending", tab |-> NoRow,
           expired |-> FALSE, dropped |-> FALSE])]
  BY DEF Edit
<1> DEFINE ev == Edited(d, Len(q) + 1, e, op, time)
           x == [ev |-> ev, status |-> "pending", tab |-> NoRow, expired |-> FALSE, dropped |-> FALSE]
<1>2. d \in Device /\ d \in Author
  BY DevType DEF Author
<1>3. q \in Seq(Item) /\ DOMAIN q = 1..Len(q) /\ Len(q) \in Nat
  BY <1>2, OutboxTyped
<1>4. x \in Item /\ x.status = "pending"
  <2>1. Len(q) + 1 \in Nat
    BY <1>3
  <2> HIDE DEF q
  <2>2. ev \in Event
    BY <1>2, <2>1, EditedEvent
  <2> HIDE DEF ev
  <2> QED BY <2>2 DEF Item
<1> HIDE DEF x
<1>5. /\ Append(q, x) \in Seq(Item) /\ Len(Append(q, x)) = Len(q) + 1
      /\ \A i \in 1..Len(q) : Append(q, x)[i] = q[i]
      /\ Append(q, x)[Len(q) + 1] = x
  BY <1>3, <1>4, AppendProperties
<1>6. DOMAIN Append(q, x) = 1..(Len(q) + 1)
  BY <1>3, <1>5, LenProperties
<1>7. outbox \in [Device -> Seq(Item)]
  BY DEF Queues
<1>8. outbox' = [outbox EXCEPT ![d] = Append(q, x)]
  BY <1>1 DEF x
<1>9. outbox'[d] = Append(q, x) /\ \A c \in Device : c # d => outbox'[c] = outbox[c]
  BY <1>2, <1>7, <1>8
<1>10. outbox' \in [Device -> Seq(Item)]
  BY <1>2, <1>5, <1>7, <1>8
<1>11. OutboxMoves(d)
  <2>1. \A i \in DOMAIN q : i \in DOMAIN Append(q, x) /\ Rewrites(d, i, Append(q, x)[i])
    BY <1>2, <1>3, <1>5, <1>6, OutboxTyped
  <2>2. \A i \in DOMAIN Append(q, x) : i \in DOMAIN q \/ Append(q, x)[i].status = "pending"
    BY <1>3, <1>4, <1>5, <1>6
  <2>3. Edits
    BY Zenon DEF Edits
  <2> HIDE DEF q
  <2> QED BY <1>5, <1>9, <2>1, <2>2, <2>3 DEF OutboxMoves, q
<1>12. ASSUME NEW c \in Device, c # d PROVE OutboxMoves(c)
  BY <1>9, <1>12, OutboxTyped DEF OutboxMoves
<1> QED BY <1>10, <1>11, <1>12 DEF QueuesMove, Queues

-----------------------------------------------------------------------------
(* Transactions *)

LEMMA TxUpdates ==
  ASSUME NEW x, DOMAIN x = TxFields, NEW v
  PROVE  /\ DOMAIN [x EXCEPT !.phase = v] = TxFields /\ [x EXCEPT !.phase = v].phase = v
         /\ [x EXCEPT !.phase = v].todo = x.todo /\ [x EXCEPT !.phase = v].bad = x.bad
         /\ [x EXCEPT !.phase = v].rows = x.rows /\ [x EXCEPT !.phase = v].writer = x.writer
         /\ DOMAIN [x EXCEPT !.bad = v] = TxFields /\ [x EXCEPT !.bad = v].bad = v
         /\ [x EXCEPT !.bad = v].todo = x.todo /\ [x EXCEPT !.bad = v].phase = x.phase
         /\ [x EXCEPT !.bad = v].rows = x.rows /\ [x EXCEPT !.bad = v].writer = x.writer
         /\ DOMAIN [x EXCEPT !.writer = v] = TxFields /\ [x EXCEPT !.writer = v].writer = v
         /\ [x EXCEPT !.writer = v].todo = x.todo /\ [x EXCEPT !.writer = v].phase = x.phase
         /\ [x EXCEPT !.writer = v].rows = x.rows /\ [x EXCEPT !.writer = v].bad = x.bad
         /\ DOMAIN [x EXCEPT !.rows = v] = TxFields /\ [x EXCEPT !.rows = v].rows = v
         /\ [x EXCEPT !.rows = v].todo = x.todo /\ [x EXCEPT !.rows = v].phase = x.phase
         /\ [x EXCEPT !.rows = v].writer = x.writer /\ [x EXCEPT !.rows = v].bad = x.bad
BY DEF TxFields

LEMMA HandledFields ==
  ASSUME NEW x, DOMAIN x = TxFields
  PROVE  /\ DOMAIN Handled(x) = TxFields /\ Handled(x).todo = Tail(x.todo)
         /\ Handled(x).bad = x.bad /\ Handled(x).rows = x.rows /\ Handled(x).writer = x.writer
         /\ Handled(x).phase = IF Len(x.todo) = 1 THEN "commit" ELSE "check"
BY DEF Handled, TxFields

\* A transaction that has dealt with an event has the others left.
LEMMA HandledWired ==
  ASSUME NEW x, DOMAIN x = TxFields, TxTypeOK(x), x.todo # <<>>
  PROVE  TxWired(Handled(x))
<1>1. x.todo \in Seq(Event)
  BY DEF TxTypeOK
<1>2. /\ Tail(x.todo) \in Seq(Event) /\ Len(x.todo) \in Nat /\ Len(x.todo) # 0
      /\ Len(Tail(x.todo)) = Len(x.todo) - 1
  BY <1>1, HeadTailProperties, LenProperties, EmptySeq
<1>3. Len(Tail(x.todo)) = 0 <=> Tail(x.todo) = <<>>
  BY <1>2, EmptySeq
<1>4. Len(x.todo) = 1 <=> Tail(x.todo) = <<>>
  BY <1>2, <1>3
<1> QED BY <1>2, <1>4, HandledFields DEF TxWired, TxTypeOK, TxPhase

LEMMA NextEvent ==
  ASSUME NEW x, TxWired(x), x.phase \in {"check", "replay", "insert", "persist"}
  PROVE  x.todo \in Seq(Event) /\ x.todo # <<>> /\ Head(x.todo) \in Event
BY HeadTailProperties DEF TxWired, TxTypeOK

\* The transactions after a step of one tab.
LEMMA OneTx ==
  ASSUME Pushes, NEW t \in Tab, NEW x, TxWired(x), tx' = [tx EXCEPT ![t] = x]
  PROVE  Pushes' /\ tx'[t] = x /\ \A u \in Tab : u # t => tx'[u] = tx[u]
BY DEF Pushes

-----------------------------------------------------------------------------
(* The log *)

LogKeeps(t) == \A ev \in Event : Logged(t, ev) => Logged(t, ev)'

LEMMA LogTyped ==
  ASSUME Server
  PROVE  DOMAIN log = 1..Len(log) /\ Len(log) \in Nat /\ \A i \in DOMAIN log : log[i] \in Entry
BY ElementOfSeq, LenProperties DEF Server

\* A step that leaves the log alone.
LEMMA LogStays == ASSUME UNCHANGED log, NEW t \in Tab PROVE LogKeeps(t)
BY DEF LogKeeps, Logged, Seen

\* One that appends an entry.
LEMMA LogAppended ==
  ASSUME Server, NEW ev \in Event, NEW s \in {"open", "kept", "gone"}, NEW u \in Tab \cup {NoRow},
         Logs(ev, s, u)
  PROVE  /\ log' \in Seq(Entry) /\ DOMAIN log \subseteq DOMAIN log'
         /\ \A t \in Tab : LogKeeps(t) /\ (s = "kept" \/ (s = "open" /\ u = t) => Logged(t, ev)')
<1> DEFINE e == [ev |-> ev, state |-> s, tab |-> u]
<1>1. e \in Entry /\ e.ev = ev /\ e.state = s /\ e.tab = u /\ log' = Append(log, e)
  BY DEF Entry, Logs
<1> HIDE DEF e
<1>2. /\ Append(log, e) \in Seq(Entry) /\ Len(Append(log, e)) = Len(log) + 1
      /\ \A i \in 1..Len(log) : Append(log, e)[i] = log[i]
      /\ Append(log, e)[Len(log) + 1] = e
  BY <1>1, AppendProperties DEF Server
<1>3. DOMAIN log = 1..Len(log) /\ Len(log) \in Nat /\ DOMAIN log' = 1..(Len(log) + 1)
  BY <1>1, <1>2, LogTyped, LenProperties
<1>4. /\ \A i \in DOMAIN log : i \in DOMAIN log' /\ log'[i] = log[i]
      /\ Len(log) + 1 \in DOMAIN log' /\ log'[Len(log) + 1] = e
  BY <1>1, <1>2, <1>3
<1>5. ASSUME NEW t \in Tab
      PROVE  LogKeeps(t) /\ (s = "kept" \/ (s = "open" /\ u = t) => Logged(t, ev)')
  BY <1>1, <1>4 DEF LogKeeps, Logged, Seen
<1> QED BY <1>1, <1>2, <1>4, <1>5

\* One that ends a transaction: what others see stays, and what it keeps.
LEMMA LogResolved ==
  ASSUME Server, NEW u \in Tab, NEW s \in {"kept", "gone"}, log' = Resolved(u, s)
  PROVE  /\ log' \in Seq(Entry) /\ DOMAIN log' = DOMAIN log
         /\ \A t \in Tab : s = "kept" \/ t # u => LogKeeps(t)
<1>1. /\ DOMAIN log' = DOMAIN log
      /\ \A i \in DOMAIN log : log'[i] = IF log[i].state = "open" /\ log[i].tab = u
                                         THEN [log[i] EXCEPT !.state = s] ELSE log[i]
  BY DEF Resolved
<1>2. ASSUME NEW x \in Entry
      PROVE  /\ [x EXCEPT !.state = s] \in Entry /\ [x EXCEPT !.state = s].ev = x.ev
             /\ [x EXCEPT !.state = s].state = s /\ [x EXCEPT !.state = s].tab = x.tab
  BY DEF Entry
<1>3. \A i \in DOMAIN log :
        /\ log'[i] \in Entry /\ log'[i].ev = log[i].ev /\ log'[i].tab = log[i].tab
        /\ log'[i].state = IF log[i].state = "open" /\ log[i].tab = u THEN s ELSE log[i].state
  <2> TAKE i \in DOMAIN log
  <2>1. log[i] \in Entry
    BY LogTyped
  <2> DEFINE y == [log[i] EXCEPT !.state = s]
  <2>2. y \in Entry /\ y.ev = log[i].ev /\ y.state = s /\ y.tab = log[i].tab
    BY <1>2, <2>1
  <2> HIDE DEF y
  <2>3. log'[i] = IF log[i].state = "open" /\ log[i].tab = u THEN y ELSE log[i]
    BY <1>1 DEF y
  <2> QED BY <2>1, <2>2, <2>3
<1>4. log' \in Seq(Entry)
  <2>1. DOMAIN log = 1..Len(log) /\ Len(log) \in Nat
    BY LogTyped
  <2>2. log' = [i \in DOMAIN log |-> log'[i]]
    BY <1>1 DEF Resolved
  <2>3. log' \in [1..Len(log) -> Entry]
    BY <1>3, <2>1, <2>2
  <2> QED BY <2>1, <2>3, SeqDef
<1>5. ASSUME NEW t \in Tab, s = "kept" \/ t # u PROVE LogKeeps(t)
  <2> SUFFICES ASSUME NEW ev \in Event, Logged(t, ev) PROVE Logged(t, ev)'
    BY DEF LogKeeps
  <2>1. PICK i \in DOMAIN log : /\ log[i].ev = ev
                                /\ log[i].state = "kept" \/ (log[i].state = "open" /\ log[i].tab = t)
    BY DEF Logged, Seen
  <2>2. /\ i \in DOMAIN log' /\ log'[i].ev = ev
        /\ log'[i].state = "kept" \/ (log'[i].state = "open" /\ log'[i].tab = t)
    BY <1>1, <1>3, <1>5, <2>1
  <2> QED BY <2>2 DEF Logged, Seen
<1> QED BY <1>1, <1>4, <1>5

-----------------------------------------------------------------------------
(* The steps of a push *)

LEMMA RowTyped ==
  ASSUME Server, Pushes, NEW t \in Tab, NEW e \in Entity PROVE RowSeen(t, e) \in Rows
BY DEF Server, Pushes, TxWired, TxTypeOK, RowSeen

LEMMA PersistedTyped ==
  ASSUME NEW ev \in Event, NEW r \in Rows PROVE Persisted(ev, r) \in Rows
BY DEF Persisted, PersistedNote, PersistedPosition, Rows

\* An event a push carries is refused, still to be handled or logged.
Held(t, ev) ==
  \/ ev \in tx[t].bad \/ Logged(t, ev)
  \/ \E k \in DOMAIN tx[t].todo : tx[t].todo[k] = ev

\* An event that is persisted has been logged.
Inserted(t) == tx[t].phase = "persist" => Logged(t, Head(tx[t].todo))

\* A push that a tab waits for and that has not failed still holds its events.
HoldsOn(t) ==
  /\ Inserted(t)'
  /\ flow[t].pc = "await" /\ tx'[t].phase # "failed" =>
       tx[t].phase # "failed" /\ \A ev \in Event : Held(t, ev) => Held(t, ev)'

\* A transaction of another tab, or that does not go on.
LEMMA HeldStays ==
  ASSUME Pushes, NEW t \in Tab, tx'[t] = tx[t], LogKeeps(t), Inserted(t) PROVE HoldsOn(t)
<1>1. tx[t].phase = "persist" => Head(tx[t].todo) \in Event
  BY NextEvent DEF Pushes
<1> QED BY <1>1 DEF HoldsOn, Inserted, Held, LogKeeps

\* One that has dealt with its next event.
LEMMA HeldHandled ==
  ASSUME Pushes, NEW t \in Tab, LogKeeps(t),
         tx[t].phase \in {"check", "replay", "insert", "persist"},
         tx'[t].todo = Tail(tx[t].todo), tx'[t].phase # "persist", tx[t].bad \subseteq tx'[t].bad,
         \A ev \in Event : ev = Head(tx[t].todo) => (ev \in tx'[t].bad) \/ Logged(t, ev)'
  PROVE  HoldsOn(t)
<1>1. Inserted(t)'
  BY DEF Inserted
<1>2. ASSUME NEW ev \in Event, Held(t, ev) PROVE Held(t, ev)'
  <2> DEFINE s == tx[t].todo
  <2>1. s \in Seq(Event) /\ s # <<>>
    BY NextEvent DEF Pushes
  <2>2. CASE ev \in tx[t].bad \/ Logged(t, ev)
    BY <2>2 DEF Held, LogKeeps
  <2>3. ASSUME NEW k \in DOMAIN s, s[k] = ev PROVE Held(t, ev)'
    <3> HIDE DEF s
    <3>1. /\ Len(s) \in Nat /\ DOMAIN s = 1..Len(s)
          /\ Tail(s) \in Seq(Event) /\ Len(Tail(s)) = Len(s) - 1
          /\ \A i \in 1..Len(Tail(s)) : Tail(s)[i] = s[i + 1]
      BY <2>1, HeadTailProperties, LenProperties
    <3>2. CASE k = 1
      <4>1. ev = Head(s)
        BY <2>1, <2>3, <3>2
      <4> QED BY <4>1 DEF Held, s
    <3>3. CASE k # 1
      <4>1. k - 1 \in 1..Len(Tail(s))
        BY <2>3, <3>1, <3>3
      <4>2. k - 1 \in DOMAIN Tail(s) /\ Tail(s)[k - 1] = ev
        BY <2>3, <3>1, <4>1, LenProperties
      <4> QED BY <4>2 DEF Held, s
    <3> QED BY <3>2, <3>3
  <2> QED BY <1>2, <2>2, <2>3 DEF Held
<1> QED BY <1>1, <1>2 DEF HoldsOn

\* A transaction is replaced by x, the log stays.
LEMMA TxReplacedMoves ==
  ASSUME Server, Pushes, UNCHANGED <<row, web, log>>, NEW t \in Tab, NEW x, TxWired(x),
         tx' = [tx EXCEPT ![t] = x], \A u \in Tab : Inserted(u), HoldsOn(t)
  PROVE  Server' /\ Pushes' /\ \A u \in Tab : HoldsOn(u)
<1>1. Pushes' /\ \A u \in Tab : u # t => tx'[u] = tx[u]
  BY OneTx
<1> QED BY <1>1, LogStays, HeldStays DEF Server

LEMMA CheckMoves ==
  ASSUME Server, Pushes, NEW t \in Tab, Check(t), \A u \in Tab : Inserted(u)
  PROVE  Server' /\ Pushes' /\ \A u \in Tab : HoldsOn(u)
<1> DEFINE p == IF Accepts(t, Head(tx[t].todo)) THEN "insert" ELSE "replay"
           x == [tx[t] EXCEPT !.phase = p]
<1>1. tx[t].phase = "check" /\ tx' = [tx EXCEPT ![t] = x] /\ UNCHANGED <<row, log, web>>
  BY DEF Check, Set
<1>2. p \in {"insert", "replay"}
  OBVIOUS
<1>3. TxWired(tx[t])
  BY DEF Pushes
<1> HIDE DEF p
<1>4. /\ DOMAIN x = TxFields /\ x.phase = p /\ x.todo = tx[t].todo /\ x.bad = tx[t].bad
      /\ x.rows = tx[t].rows /\ x.writer = tx[t].writer
  BY <1>3, TxUpdates DEF TxWired
<1>5. TxWired(x)
  BY <1>1, <1>2, <1>3, <1>4 DEF TxWired, TxTypeOK, TxPhase
<1> HIDE DEF x
<1>6. tx'[t] = x
  BY <1>1, <1>5, OneTx
<1>7. HoldsOn(t)
  <2>1. \A ev : Logged(t, ev) => Logged(t, ev)'
    BY <1>1 DEF Logged, Seen
  <2> QED BY <1>1, <1>2, <1>4, <1>6, <2>1 DEF HoldsOn, Inserted, Held
<1> QED BY <1>1, <1>5, <1>7, TxReplacedMoves

LEMMA ReplayMoves ==
  ASSUME Server, Pushes, NEW t \in Tab, Replay(t), \A u \in Tab : Inserted(u)
  PROVE  Server' /\ Pushes' /\ \A u \in Tab : HoldsOn(u)
<1> DEFINE h == Head(tx[t].todo)
           b == IF Logged(t, h) THEN tx[t].bad ELSE tx[t].bad \cup {h}
           y == [tx[t] EXCEPT !.bad = b]
           x == Handled(y)
<1>1. tx[t].phase = "replay" /\ tx' = [tx EXCEPT ![t] = x] /\ UNCHANGED <<row, log, web>>
  BY Zenon DEF Replay, Set
<1>2. TxWired(tx[t]) /\ tx[t].todo # <<>> /\ h \in Event
  BY <1>1, NextEvent DEF Pushes
<1>3. b \subseteq Event /\ tx[t].bad \subseteq b /\ (Logged(t, h) \/ h \in b)
  BY <1>2 DEF TxWired, TxTypeOK
<1> HIDE DEF b, h
<1>4. /\ DOMAIN y = TxFields /\ y.bad = b /\ y.todo = tx[t].todo /\ y.phase = tx[t].phase
      /\ y.rows = tx[t].rows /\ y.writer = tx[t].writer
  BY <1>2, TxUpdates DEF TxWired
<1> HIDE DEF y
<1>5. TxTypeOK(y)
  BY <1>2, <1>3, <1>4 DEF TxWired, TxTypeOK
<1>6. TxWired(x) /\ x.todo = Tail(tx[t].todo) /\ x.bad = b /\ x.phase # "persist"
  BY <1>2, <1>4, <1>5, HandledWired, HandledFields
<1> HIDE DEF x
<1>7. tx'[t] = x
  BY <1>1, <1>6, OneTx
<1>8. LogKeeps(t)
  BY <1>1, LogStays
<1>9. \A ev \in Event : ev = Head(tx[t].todo) => (ev \in tx'[t].bad) \/ Logged(t, ev)'
  BY <1>3, <1>6, <1>7, <1>8 DEF LogKeeps, h
<1>10. HoldsOn(t)
  BY <1>1, <1>3, <1>6, <1>7, <1>8, <1>9, HeldHandled
<1> QED BY <1>1, <1>6, <1>10, TxReplacedMoves

LEMMA InsertMoves ==
  ASSUME Server, Pushes, NEW t \in Tab, Insert(t), \A u \in Tab : Inserted(u)
  PROVE  /\ Server' /\ Pushes' /\ DOMAIN log \subseteq DOMAIN log'
         /\ \A u \in Tab : HoldsOn(u)
<1> DEFINE h == Head(tx[t].todo)
           y == [tx[t] EXCEPT !.writer = TRUE]
<1>1. tx[t].phase = "insert" /\ UNCHANGED <<row, web>>
  BY DEF Insert
<1>2. TxWired(tx[t]) /\ tx[t].todo # <<>> /\ h \in Event
  BY <1>1, NextEvent DEF Pushes
<1>3. /\ DOMAIN y = TxFields /\ y.bad = tx[t].bad /\ y.todo = tx[t].todo /\ y.phase = tx[t].phase
      /\ y.rows = tx[t].rows /\ y.writer = TRUE
  BY <1>2, TxUpdates DEF TxWired
<1>4. TxTypeOK(y)
  BY <1>2, <1>3 DEF TxWired, TxTypeOK
<1>5. CASE Logged(t, h)
  <2> DEFINE x == Handled(y)
  <2>1. tx' = [tx EXCEPT ![t] = x] /\ UNCHANGED <<row, log, web>>
    BY <1>5 DEF Insert, Set
  <2> HIDE DEF y
  <2>2. TxWired(x) /\ x.todo = Tail(tx[t].todo) /\ x.bad = tx[t].bad /\ x.phase # "persist"
    BY <1>2, <1>3, <1>4, HandledWired, HandledFields
  <2> HIDE DEF x, h
  <2>3. tx'[t] = x /\ LogKeeps(t)
    BY <2>1, <2>2, OneTx, LogStays
  <2>4. \A ev \in Event : ev = Head(tx[t].todo) => (ev \in tx'[t].bad) \/ Logged(t, ev)'
    BY <1>5, <2>3 DEF LogKeeps, h
  <2>5. HoldsOn(t)
    BY <1>1, <2>2, <2>3, <2>4, HeldHandled
  <2> QED BY <2>1, <2>2, <2>5, TxReplacedMoves
<1>6. CASE ~Logged(t, h)
  <2> DEFINE x == [y EXCEPT !.phase = "persist"]
  <2>1. tx' = [tx EXCEPT ![t] = x] /\ Logs(h, "open", t)
    BY <1>6 DEF Insert, Set
  <2> HIDE DEF y, h
  <2>2. /\ DOMAIN x = TxFields /\ x.bad = tx[t].bad /\ x.todo = tx[t].todo /\ x.phase = "persist"
        /\ x.rows = tx[t].rows /\ x.writer = TRUE
    BY <1>3, TxUpdates
  <2> HIDE DEF x
  <2>3. TxWired(x)
    BY <1>2, <2>2 DEF TxWired, TxTypeOK, TxPhase
  <2>4. Pushes' /\ tx'[t] = x /\ \A u \in Tab : u # t => tx'[u] = tx[u]
    BY <2>1, <2>3, OneTx
  <2>0. PICK ev \in Event : ev = h
    BY <1>2
  <2>5. /\ log' \in Seq(Entry) /\ DOMAIN log \subseteq DOMAIN log'
        /\ \A u \in Tab : LogKeeps(u)
        /\ Logged(t, ev)'
    BY <2>0, <2>1, LogAppended
  <2>6. Server'
    BY <1>1, <2>5 DEF Server
  <2>7. Inserted(t)'
    <3>1. Head(tx'[t].todo) = ev
      BY <2>0, <2>2, <2>4 DEF h
    <3> QED BY <2>5, <3>1 DEF Inserted
  <2>8. HoldsOn(t)
    BY <1>1, <2>2, <2>4, <2>5, <2>7 DEF HoldsOn, Held, LogKeeps
  <2> QED BY <2>4, <2>5, <2>6, <2>8, HeldStays
<1> QED BY <1>5, <1>6

LEMMA PersistMoves ==
  ASSUME Server, Pushes, NEW t \in Tab, Persist(t), \A u \in Tab : Inserted(u)
  PROVE  Server' /\ Pushes' /\ \A u \in Tab : HoldsOn(u)
<1> DEFINE h == Head(tx[t].todo)
           r == RowSeen(t, h.ent)
           E == DOMAIN tx[t].rows \cup {h.ent}
           w == [e \in E |-> IF e = h.ent THEN Persisted(h, r) ELSE tx[t].rows[e]]
           y == [tx[t] EXCEPT !.rows = w]
<1>1. /\ tx[t].phase = "persist" /\ UNCHANGED <<row, log, web>>
      /\ tx' = [tx EXCEPT ![t] = Handled(tx[t])] \/ tx' = [tx EXCEPT ![t] = Handled(y)]
  BY Zenon DEF Persist, Set
<1>2. TxWired(tx[t]) /\ TxTypeOK(tx[t]) /\ tx[t].todo # <<>> /\ h \in Event /\ h.ent \in Entity
  BY <1>1, NextEvent DEF Pushes, TxWired, Event
<1>3. DOMAIN w \subseteq Entity /\ \A e \in DOMAIN w : w[e] \in Rows
  <2>1. Persisted(h, r) \in Rows
    BY <1>2, RowTyped, PersistedTyped
  <2> HIDE DEF r, h
  <2> QED BY <1>2, <2>1 DEF TxTypeOK
<1> HIDE DEF w
<1>4. /\ DOMAIN y = TxFields /\ y.bad = tx[t].bad /\ y.todo = tx[t].todo /\ y.phase = tx[t].phase
      /\ y.rows = w /\ y.writer = tx[t].writer
  BY <1>2, TxUpdates DEF TxWired
<1> HIDE DEF y
<1>5. TxTypeOK(y)
  BY <1>2, <1>3, <1>4 DEF TxTypeOK
<1>6. PICK x : /\ tx' = [tx EXCEPT ![t] = x] /\ TxWired(x)
               /\ x.todo = Tail(tx[t].todo) /\ x.bad = tx[t].bad /\ x.phase # "persist"
  <2>1. \A z \in {tx[t], y} : /\ TxWired(Handled(z)) /\ Handled(z).todo = Tail(tx[t].todo)
                              /\ Handled(z).bad = tx[t].bad /\ Handled(z).phase # "persist"
    BY <1>2, <1>4, <1>5, HandledWired, HandledFields DEF TxWired
  <2> QED BY <1>1, <2>1
<1>7. tx'[t] = x /\ LogKeeps(t)
  BY <1>1, <1>6, OneTx, LogStays
<1>8. \A ev \in Event : ev = Head(tx[t].todo) => (ev \in tx'[t].bad) \/ Logged(t, ev)'
  BY <1>1, <1>7 DEF LogKeeps, Inserted
<1>9. HoldsOn(t)
  BY <1>1, <1>6, <1>7, <1>8, HeldHandled
<1> QED BY <1>1, <1>6, <1>9, TxReplacedMoves

LEMMA NoTxWired == TxWired(NoTx) /\ NoTx.phase = "none"
BY EmptySeq DEF NoTx, TxWired, TxTypeOK, TxFields, TxPhase

LEMMA AnswerWired ==
  ASSUME Pushes, NEW t \in Tab, NEW p \in {"answered", "failed"}
  PROVE  /\ TxWired(Answer(t, p)) /\ Answer(t, p).phase \in {p, "none"}
         /\ flow[t].pc = "await" => Answer(t, p).bad = tx[t].bad /\ Answer(t, p).phase = p
<1> DEFINE b == tx[t].bad
           y == [NoTx EXCEPT !.phase = p, !.bad = b]
<1>1. b \subseteq Event /\ <<>> \in Seq(Event)
  BY EmptySeq DEF Pushes, TxWired, TxTypeOK
<1> HIDE DEF b
<1>2. /\ DOMAIN y = TxFields /\ y.phase = p /\ y.bad = b
      /\ y.todo = <<>> /\ y.rows = <<>> /\ y.writer = FALSE
  BY DEF NoTx, TxFields
<1> HIDE DEF y
<1>3. TxWired(y)
  <2>1. TxTypeOK(y)
    <3>1. DOMAIN y.rows = {}
      BY <1>2
    <3>2. y.phase \in TxPhase
      BY <1>2 DEF TxPhase
    <3> QED BY <1>1, <1>2, <3>1, <3>2 DEF TxTypeOK
  <2> QED BY <1>2, <2>1 DEF TxWired
<1>4. Answer(t, p) = IF flow[t].pc = "await" THEN y ELSE NoTx
  BY DEF Answer, b, y
<1> QED BY <1>2, <1>3, <1>4, NoTxWired DEF b

LEMMA CommitMoves ==
  ASSUME Server, Pushes, NEW t \in Tab, Commit(t), \A u \in Tab : Inserted(u)
  PROVE  Server' /\ Pushes' /\ DOMAIN log \subseteq DOMAIN log' /\ \A u \in Tab : HoldsOn(u)
<1> DEFINE x == Answer(t, "answered")
<1>1. /\ tx[t].phase = "commit" /\ row' = [e \in Entity |-> RowSeen(t, e)]
      /\ log' = Resolved(t, "kept") /\ tx' = [tx EXCEPT ![t] = x] /\ web' = web
  BY DEF Commit, Set
<1>2. /\ TxWired(x) /\ x.phase \in {"answered", "none"}
      /\ flow[t].pc = "await" => x.bad = tx[t].bad
  BY AnswerWired
<1> HIDE DEF x
<1>3. Pushes' /\ tx'[t] = x /\ \A u \in Tab : u # t => tx'[u] = tx[u]
  BY <1>1, <1>2, OneTx
<1>4. log' \in Seq(Entry) /\ DOMAIN log' = DOMAIN log /\ \A u \in Tab : LogKeeps(u)
  BY <1>1, LogResolved
<1>5. row' \in [Entity -> Rows]
  BY <1>1, RowTyped
<1>6. tx[t].todo = <<>>
  BY <1>1 DEF Pushes, TxWired
<1>7. HoldsOn(t)
  <2>1. DOMAIN tx[t].todo = {}
    BY <1>6
  <2>2. Inserted(t)'
    BY <1>2, <1>3 DEF Inserted
  <2> QED BY <1>1, <1>2, <1>3, <1>4, <2>1, <2>2 DEF HoldsOn, Held, LogKeeps
<1> QED BY <1>1, <1>3, <1>4, <1>5, <1>7, HeldStays DEF Server

LEMMA AbortMoves ==
  ASSUME Server, Pushes, NEW t \in Tab, Abort(t), \A u \in Tab : Inserted(u)
  PROVE  Server' /\ Pushes' /\ DOMAIN log \subseteq DOMAIN log' /\ \A u \in Tab : HoldsOn(u)
<1> DEFINE x == Answer(t, "failed")
<1>1. log' = Resolved(t, "gone") /\ tx' = [tx EXCEPT ![t] = x] /\ UNCHANGED <<row, web>>
  BY DEF Abort, Set
<1>2. /\ TxWired(x) /\ x.phase \in {"failed", "none"}
      /\ flow[t].pc = "await" => x.phase = "failed"
  BY AnswerWired
<1> HIDE DEF x
<1>3. Pushes' /\ tx'[t] = x /\ \A u \in Tab : u # t => tx'[u] = tx[u]
  BY <1>1, <1>2, OneTx
<1>4. log' \in Seq(Entry) /\ DOMAIN log' = DOMAIN log /\ \A u \in Tab : t # u => LogKeeps(u)
  BY <1>1, LogResolved
<1>5. HoldsOn(t)
  BY <1>2, <1>3 DEF HoldsOn, Inserted
<1> QED BY <1>1, <1>3, <1>4, <1>5, HeldStays DEF Server

\* Every step of a push keeps the types, and what it has taken on.
LEMMA PushMoves ==
  ASSUME Server, Pushes, NEW t \in Tab, PushStep(t) \/ PushAborts(t), \A u \in Tab : Inserted(u)
  PROVE  Server' /\ Pushes' /\ DOMAIN log \subseteq DOMAIN log' /\ \A u \in Tab : HoldsOn(u)
<1>1. Check(t) \/ Replay(t) \/ Insert(t) \/ Persist(t) \/ Commit(t) \/ Abort(t)
  BY Zenon DEF PushStep, PushAborts
<1>2. Check(t) \/ Replay(t) \/ Persist(t) => log' = log
  BY DEF Check, Replay, Persist
<1> QED BY <1>1, <1>2, CheckMoves, ReplayMoves, InsertMoves, PersistMoves, CommitMoves, AbortMoves

-----------------------------------------------------------------------------
(* What the steps do to the parts of the state *)

\* A tab that waits for an answer waits for events the push holds, unless it failed.
Delivered(t) ==
  flow[t].pc = "await" /\ tx[t].phase # "failed" =>
    \A i \in flow[t].items : Held(t, Items(t)[i].ev)

DeliveryInv == TypeInv /\ \A t \in Tab : Inserted(t) /\ Delivered(t)

Moves ==
  /\ Clocks' /\ Server' /\ Pushes' /\ Copies' /\ SavedStates' /\ Flows'
  /\ QueuesMove /\ DOMAIN log \subseteq DOMAIN log'
  /\ \A t \in Tab : Inserted(t)' /\ Delivered(t)'

LEMMA ClocksStay ==
  ASSUME Clocks, UNCHANGED <<now, edits>>, Fault \/ UNCHANGED faults PROVE Clocks'
BY DEF Clocks, Fault

LEMMA ClocksEdit ==
  ASSUME Clocks, NEW a \in Author, NEW time, NewEdit(a, time), UNCHANGED faults PROVE Clocks'
<1>1. time \in {now, now + 1} /\ now' = time /\ edits' = [edits EXCEPT ![a] = @ + 1]
  BY DEF NewEdit
<1>2. now' \in Nat /\ now' # 0
  BY <1>1 DEF Clocks
<1>3. edits' \in [Author -> Nat]
  BY <1>1 DEF Clocks
<1> QED BY <1>2, <1>3 DEF Clocks

LEMMA ServerStays ==
  ASSUME Server, UNCHANGED <<row, log, web>> PROVE Server' /\ DOMAIN log \subseteq DOMAIN log'
BY DEF Server

LEMMA FlowsStay ==
  ASSUME Flows, UNCHANGED flow, QueuesMove, DOMAIN log \subseteq DOMAIN log' PROVE Flows'
<1>1. \A t \in Tab : FlowWired(t)'
  <2> TAKE t \in Tab
  <2>1. DOMAIN outbox[dev(t)] \subseteq DOMAIN outbox'[dev(t)]
    BY DevType DEF QueuesMove, OutboxMoves
  <2> QED BY <2>1 DEF Flows, FlowWired, dev
<1> QED BY <1>1 DEF Flows

\* A tab goes on in a way that fits its outbox and the log.
LEMMA OneFlow ==
  ASSUME Flows, NEW t \in Tab, NEW f \in Flow, flow' = [flow EXCEPT ![t] = f],
         QueuesMove, DOMAIN log \subseteq DOMAIN log',
         f.items \subseteq DOMAIN outbox[dev(t)], f.page \subseteq DOMAIN log,
         f.pc \in {"send", "await"} => f.items # {}
  PROVE  Flows' /\ flow'[t] = f /\ \A u \in Tab : u # t => flow'[u] = flow[u]
<1>1. flow' \in [Tab -> Flow] /\ flow'[t] = f /\ \A u \in Tab : u # t => flow'[u] = flow[u]
  BY DEF Flows
<1>2. ASSUME NEW u \in Tab PROVE FlowWired(u)'
  <2>1. DOMAIN outbox[dev(u)] \subseteq DOMAIN outbox'[dev(u)]
    BY DevType DEF QueuesMove, OutboxMoves
  <2>2. CASE u = t
    BY <1>1, <2>1, <2>2 DEF FlowWired, dev
  <2>3. CASE u # t
    BY <1>1, <2>1, <2>3 DEF Flows, FlowWired, dev
  <2> QED BY <2>2, <2>3
<1> QED BY <1>1, <1>2 DEF Flows

\* A tab that waited, and waits still, for a push that holds on.
LEMMA DeliveredStays ==
  ASSUME DeliveryInv, QueuesMove, NEW t \in Tab, flow'[t] = flow[t], HoldsOn(t)
  PROVE  Inserted(t)' /\ Delivered(t)'
<1>1. Inserted(t)'
  BY DEF HoldsOn
<1>2. ASSUME flow'[t].pc = "await", tx'[t].phase # "failed", NEW i \in flow'[t].items
      PROVE  Held(t, Items(t)[i].ev)'
  <2> DEFINE d == dev(t)
  <2>1. d \in Device /\ i \in DOMAIN outbox[d] /\ i \in flow[t].items
    BY <1>2, DevType DEF DeliveryInv, TypeInv, Flows, FlowWired
  <2>2. outbox'[d][i].ev = outbox[d][i].ev
    BY <2>1 DEF QueuesMove, OutboxMoves, Rewrites
  <2>3. PICK ev \in Event : ev = outbox[d][i].ev
    <3>1. outbox[d][i] \in Item
      BY <2>1, OutboxTyped DEF DeliveryInv, TypeInv
    <3> QED BY <3>1 DEF Item
  <2>4. Held(t, ev)
    BY <1>2, <2>1, <2>3 DEF DeliveryInv, Delivered, HoldsOn, Items
  <2>5. Held(t, ev)'
    BY <1>2, <2>4 DEF HoldsOn
  <2>6. Items(t)'[i].ev = ev
    BY <2>2, <2>3 DEF Items, dev
  <2> QED BY <2>5, <2>6
<1> QED BY <1>1, <1>2 DEF Delivered

\* A tab whose push did not move and that does not begin to wait.
LEMMA NotDelivering ==
  ASSUME DeliveryInv, QueuesMove, NEW t \in Tab, LogKeeps(t), tx'[t] = tx[t],
         flow'[t] = flow[t] \/ flow'[t].pc # "await"
  PROVE  Inserted(t)' /\ Delivered(t)'
<1>1. Pushes /\ Inserted(t)
  BY DEF DeliveryInv, TypeInv
<1>2. HoldsOn(t)
  BY <1>1, HeldStays
<1>3. CASE flow'[t] = flow[t]
  BY <1>2, <1>3, DeliveredStays
<1>4. CASE flow'[t].pc # "await"
  BY <1>2, <1>4 DEF HoldsOn, Delivered
<1> QED BY <1>3, <1>4

-----------------------------------------------------------------------------
(* The server *)

LEMMA PushStepMoves ==
  ASSUME DeliveryInv, NEW t \in Tab, PushStep(t) \/ PushAborts(t) PROVE Moves
<1>1. Server /\ Pushes /\ Clocks /\ Queues /\ Copies /\ SavedStates /\ Flows
  BY DEF DeliveryInv, TypeInv
<1>2. Server' /\ Pushes' /\ DOMAIN log \subseteq DOMAIN log' /\ \A u \in Tab : HoldsOn(u)
  BY <1>1, PushMoves DEF DeliveryInv
<1>3. UNCHANGED <<now, edits, local, outbox, cursor, status, applied, rewound, flow, timer, raced>>
  BY Zenon DEF PushStep, PushAborts, deviceVars
<1>4. Fault \/ UNCHANGED faults
  BY Zenon DEF PushStep, PushAborts
<1>5. Clocks' /\ QueuesMove
  BY <1>1, <1>3, <1>4, ClocksStay, QueuesStay
<1>6. Flows'
  BY <1>1, <1>2, <1>3, <1>5, FlowsStay
<1>7. Copies' /\ SavedStates'
  BY <1>1, <1>3 DEF Copies, SavedStates
<1>8. \A u \in Tab : Inserted(u)' /\ Delivered(u)'
  BY <1>2, <1>3, <1>5, DeliveredStays
<1> QED BY <1>2, <1>5, <1>6, <1>7, <1>8 DEF Moves

\* A step of a hosted client moves no device and no push.
LEMMA HostedMoves ==
  ASSUME DeliveryInv, Clocks', Server', DOMAIN log \subseteq DOMAIN log', raced' \subseteq Entity,
         UNCHANGED <<tx, local, outbox, cursor, status, applied, rewound, flow, timer>>,
         \A t \in Tab : LogKeeps(t)
  PROVE  Moves
<1>1. Pushes /\ Queues /\ Copies /\ SavedStates /\ Flows
  BY DEF DeliveryInv, TypeInv
<1>2. QueuesMove
  BY <1>1, QueuesStay
<1>3. Flows'
  BY <1>1, <1>2, FlowsStay
<1>4. Copies' /\ SavedStates' /\ Pushes'
  BY <1>1 DEF Copies, SavedStates, Pushes
<1>5. \A u \in Tab : Inserted(u)' /\ Delivered(u)'
  BY <1>2, NotDelivering
<1> QED BY <1>2, <1>3, <1>4, <1>5 DEF Moves

LEMMA WebEvent ==
  ASSUME Clocks, NEW e \in Entity, NEW op \in {"put", "del"}, NEW made \in 1..now + 1
  PROVE  WebEdited(e, op, made) \in Event /\ Arrival(made) \in {now, now + 1}
<1> DEFINE x == Edited(Web, 0, e, op, made)
<1>0. Arrival(made) \in {now, now + 1}
  BY DEF Arrival, Clocks
<1>1. x \in Event /\ made \in Nat \ {0}
  BY EditedEvent DEF Author
<1> HIDE DEF x
<1>2. \A at \in Nat \ {0} : [x EXCEPT !.at = at] \in Event
  BY <1>1 DEF Event
<1>3. x.at \in Nat \ {0}
  BY <1>1 DEF Event
<1> QED BY <1>0, <1>1, <1>2, <1>3 DEF WebEdited, x

LEMMA HostedNoteMoves ==
  ASSUME DeliveryInv, NEW e \in Entity, NEW op \in {"put", "del"}, HostedNote(e, op) PROVE Moves
<1>1. Server /\ Clocks /\ SavedStates
  BY DEF DeliveryInv, TypeInv
<1>2. PICK made \in 1..now + 1 :
        /\ NewEdit(Web, Arrival(made)) /\ row' = [row EXCEPT ![e] = WebEdited(e, op, made)]
        /\ Logs(WebEdited(e, op, made), "kept", NoRow)
        /\ UNCHANGED <<tx, web, deviceVars, flow, timer, raced, faults>>
  BY Zenon DEF HostedNote
<1> DEFINE ev == WebEdited(e, op, made)
<1>3. Web \in Author /\ 0 \in Nat
  BY DEF Author
<1>4. ev \in Event
  BY <1>1, WebEvent
<1> HIDE DEF ev
<1>5. row' = [row EXCEPT ![e] = ev] /\ Logs(ev, "kept", NoRow)
  BY <1>2 DEF ev
<1>6. log' \in Seq(Entry) /\ DOMAIN log \subseteq DOMAIN log' /\ \A t \in Tab : LogKeeps(t)
  BY <1>1, <1>4, <1>5, LogAppended
<1>7. Server'
  BY <1>1, <1>2, <1>4, <1>5, <1>6 DEF Server, Rows
<1>8. Clocks'
  BY <1>1, <1>2, <1>3, ClocksEdit
<1> QED BY <1>1, <1>2, <1>6, <1>7, <1>8, HostedMoves DEF SavedStates, deviceVars

LEMMA HostedPositionMoves ==
  ASSUME DeliveryInv, NEW e \in Entity, NEW op \in {"put", "del"}, HostedPosition(e, op) PROVE Moves
<1>1. Server /\ Clocks /\ SavedStates
  BY DEF DeliveryInv, TypeInv
<1>2. PICK made \in 1..now + 1 :
        /\ NewEdit(Web, Arrival(made)) /\ web' = WebEdited(e, op, made)
        /\ raced' = raced \cup Overlap(NoRow, {e})
        /\ UNCHANGED <<row, log, tx, deviceVars, flow, timer, faults>>
  BY Zenon DEF HostedPosition
<1>3. Web \in Author /\ 0 \in Nat
  BY DEF Author
<1>4. web' \in Event
  BY <1>1, <1>2, WebEvent
<1>5. Server' /\ DOMAIN log \subseteq DOMAIN log'
  BY <1>1, <1>2, <1>4 DEF Server, Rows
<1>6. Clocks'
  BY <1>1, <1>2, <1>3, ClocksEdit
<1>7. raced' \subseteq Entity
  BY <1>1, <1>2 DEF SavedStates, Overlap
<1>8. \A t \in Tab : LogKeeps(t)
  BY <1>2, LogStays
<1> QED BY <1>2, <1>5, <1>6, <1>7, <1>8, HostedMoves DEF deviceVars

LEMMA HostedWritesMoves == ASSUME DeliveryInv, HostedWrites PROVE Moves
<1>1. Server /\ Clocks /\ SavedStates
  BY DEF DeliveryInv, TypeInv
<1>2. /\ web # NoRow /\ web' = NoRow /\ row' = [row EXCEPT ![web.ent] = Persisted(web, row[web.ent])]
      /\ Logs(web, "kept", NoRow) \/ UNCHANGED log
      /\ UNCHANGED <<now, edits, tx, deviceVars, flow, timer, raced, faults>>
  BY DEF HostedWrites
<1>3. web \in Event /\ web.ent \in Entity
  BY <1>1, <1>2 DEF Server, Rows, Event
<1>4. row' \in [Entity -> Rows] /\ web' \in Rows
  <2>1. row[web.ent] \in Rows
    BY <1>1, <1>3 DEF Server
  <2>2. Persisted(web, row[web.ent]) \in Rows
    BY <1>3, <2>1, PersistedTyped
  <2> QED BY <1>1, <1>2, <2>2 DEF Server, Rows
<1>5. log' \in Seq(Entry) /\ DOMAIN log \subseteq DOMAIN log' /\ \A t \in Tab : LogKeeps(t)
  <2>1. CASE UNCHANGED log
    BY <1>1, <2>1, LogStays DEF Server
  <2>2. CASE Logs(web, "kept", NoRow)
    BY <1>1, <1>3, <2>2, LogAppended
  <2> QED BY <1>2, <2>1, <2>2
<1>6. Server'
  BY <1>4, <1>5 DEF Server
<1>7. Clocks' /\ raced' \subseteq Entity
  BY <1>1, <1>2, ClocksStay DEF SavedStates
<1> QED BY <1>2, <1>5, <1>6, <1>7, HostedMoves DEF deviceVars

-----------------------------------------------------------------------------
(* The devices *)

\* A step of a device that leaves the server and its pushes alone.
LEMMA DeviceMoves ==
  ASSUME DeliveryInv, UNCHANGED <<row, log, tx, web>>,
         Clocks', Copies', SavedStates', QueuesMove, Flows',
         \A u \in Tab : flow'[u] = flow[u] \/ flow'[u].pc # "await"
  PROVE  Moves
<1>1. Server /\ Pushes
  BY DEF DeliveryInv, TypeInv
<1>2. Server' /\ Pushes' /\ DOMAIN log \subseteq DOMAIN log'
  BY <1>1 DEF Server, Pushes
<1>3. \A u \in Tab : Inserted(u)' /\ Delivered(u)'
  BY LogStays, NotDelivering
<1> QED BY <1>2, <1>3 DEF Moves

LEMMA LocalCopyTyped ==
  ASSUME NEW c \in Copy, NEW ev \in Event PROVE LocalCopy(c, ev) \in Copy
BY DEF LocalCopy, Copy, Event, Rows

LEMMA EditMoves ==
  ASSUME DeliveryInv, NEW t \in Tab, NEW e \in Entity, NEW op \in {"put", "del"}, Edit(t, e, op)
  PROVE  Moves
<1> DEFINE d == dev(t)
           n == Len(outbox[d]) + 1
<1>1. Clocks /\ Queues /\ Copies /\ SavedStates /\ Flows
  BY DEF DeliveryInv, TypeInv
<1>2. PICK time \in {now, now + 1} :
        /\ NewEdit(d, time)
        /\ local' = [local EXCEPT ![d][e] = LocalCopy(@, Edited(d, n, e, op, time))]
        /\ timer' = [timer EXCEPT ![t] = @ \/ status[d] # "conflict"]
        /\ rewound' = rewound \/ rewound' = rewound \cup {e}
        /\ UNCHANGED <<serverVars, cursor, status, applied, flow, raced, faults>>
  BY Zenon DEF Edit
<1>3. d \in Device /\ d \in Author /\ n \in Nat
  BY <1>1, DevType, OutboxTyped DEF Author
<1>4. QueuesMove
  BY <1>1, EditQueue
<1> DEFINE ev == Edited(d, n, e, op, time)
<1>5. ev \in Event
  <2> HIDE DEF d, n
  <2> QED BY <1>1, <1>3, EditedEvent
<1> HIDE DEF ev, n
<1>6. local' = [local EXCEPT ![d][e] = LocalCopy(@, ev)]
  BY <1>2 DEF ev
<1>7. Copies'
  <2> DEFINE c == LocalCopy(local[d][e], ev)
  <2>1. c \in Copy
    BY <1>1, <1>3, <1>5, LocalCopyTyped DEF Copies
  <2>2. local' = [local EXCEPT ![d][e] = c]
    BY <1>6
  <2> HIDE DEF c, d
  <2> QED BY <1>1, <1>3, <2>1, <2>2 DEF Copies
<1>8. Clocks'
  BY <1>2, <1>1, <1>3, ClocksEdit
<1>9. timer' \in [Tab -> BOOLEAN]
  BY <1>1, <1>2 DEF SavedStates
<1>10. SavedStates'
  BY <1>1, <1>2, <1>9 DEF SavedStates
<1>11. Flows'
  BY <1>1, <1>2, <1>4, FlowsStay DEF serverVars
<1> QED BY <1>2, <1>4, <1>7, <1>8, <1>10, <1>11, DeviceMoves DEF serverVars

LEMMA StatusTyped ==
  ASSUME SavedStates, NEW t \in Tab, NEW s \in SyncStatus, SetStatus(t, s)
  PROVE  status' \in [Device -> SyncStatus]
BY DevType DEF SavedStates, SetStatus

LEMMA DiscardMoves ==
  ASSUME DeliveryInv, NEW t \in Tab, NEW i \in DOMAIN Items(t), Discard(t, i) PROVE Moves
<1>1. Clocks /\ Queues /\ Copies /\ SavedStates /\ Flows
  BY DEF DeliveryInv, TypeInv
<1>2. /\ UNCHANGED <<now, edits, serverVars, local, cursor, applied, rewound, flow, timer, raced, faults>>
      /\ SetStatus(t, "idle") \/ UNCHANGED status
  BY Zenon DEF Discard
<1>3. QueuesMove
  BY <1>1, DiscardQueue
<1>4. SavedStates'
  BY <1>1, <1>2, StatusTyped DEF SavedStates, SyncStatus
<1>5. Clocks' /\ Copies' /\ Flows'
  BY <1>1, <1>2, <1>3, ClocksStay, FlowsStay DEF Copies, serverVars
<1> QED BY <1>2, <1>3, <1>4, <1>5, DeviceMoves DEF serverVars

LEMMA LeaseMoves ==
  ASSUME DeliveryInv, NEW d \in Device, NEW i \in DOMAIN outbox[d], LeaseExpires(d, i) PROVE Moves
<1>1. Clocks /\ Queues /\ Copies /\ SavedStates /\ Flows
  BY DEF DeliveryInv, TypeInv
<1>2. /\ UNCHANGED <<now, edits, serverVars, local, cursor, status, applied, rewound, flow, timer, raced>>
      /\ Fault \/ UNCHANGED faults
  BY Zenon DEF LeaseExpires
<1>3. QueuesMove
  BY <1>1, LeaseQueue
<1>4. Clocks' /\ Copies' /\ Flows' /\ SavedStates'
  BY <1>1, <1>2, <1>3, ClocksStay, FlowsStay DEF Copies, SavedStates, serverVars
<1> QED BY <1>2, <1>3, <1>4, DeviceMoves DEF serverVars

\* The flow of a tab after an assignment to some of its fields.
Going(f, p) == [f EXCEPT !.pc = p]
Listing(f, p, S) == [f EXCEPT !.pc = p, !.items = S]
Claiming(f, p, S) == [f EXCEPT !.pc = p, !.items = S, !.first = FALSE]
Reading(f, p, S, c) == [f EXCEPT !.pc = p, !.items = S, !.cur = c]
Paging(f, p, S, c) == [f EXCEPT !.pc = p, !.page = S, !.cur = c]
Leafed(f, p, S) == [f EXCEPT !.pc = p, !.page = S]

LEMMA GotoRow ==
  ASSUME NEW f \in Flow, NEW p \in FlowPc
  PROVE  /\ Going(f, p) \in Flow /\ Going(f, p).pc = p
         /\ Going(f, p).items = f.items /\ Going(f, p).page = f.page
BY DEF Flow, Going

LEMMA ListRow ==
  ASSUME NEW f \in Flow, NEW p \in FlowPc, NEW S \in SUBSET Nat
  PROVE  /\ Listing(f, p, S) \in Flow /\ Listing(f, p, S).pc = p
         /\ Listing(f, p, S).items = S /\ Listing(f, p, S).page = f.page
BY DEF Flow, Listing

LEMMA ClaimRow ==
  ASSUME NEW f \in Flow, NEW p \in FlowPc, NEW S \in SUBSET Nat
  PROVE  /\ Claiming(f, p, S) \in Flow /\ Claiming(f, p, S).pc = p
         /\ Claiming(f, p, S).items = S /\ Claiming(f, p, S).page = f.page
BY DEF Flow, Claiming

LEMMA ReadRow ==
  ASSUME NEW f \in Flow, NEW p \in FlowPc, NEW S \in SUBSET Nat, NEW c \in Nat
  PROVE  /\ Reading(f, p, S, c) \in Flow /\ Reading(f, p, S, c).pc = p
         /\ Reading(f, p, S, c).items = S /\ Reading(f, p, S, c).page = f.page
BY DEF Flow, Reading

LEMMA PageRow ==
  ASSUME NEW f \in Flow, NEW p \in FlowPc, NEW S \in SUBSET Nat, NEW c \in Nat
  PROVE  /\ Paging(f, p, S, c) \in Flow /\ Paging(f, p, S, c).pc = p
         /\ Paging(f, p, S, c).items = f.items /\ Paging(f, p, S, c).page = S
BY DEF Flow, Paging

LEMMA SavedRow ==
  ASSUME NEW f \in Flow, NEW p \in FlowPc, NEW S \in SUBSET Nat
  PROVE  /\ Leafed(f, p, S) \in Flow /\ Leafed(f, p, S).pc = p
         /\ Leafed(f, p, S).items = f.items /\ Leafed(f, p, S).page = S
BY DEF Flow, Leafed

LEMMA Pcs ==
  /\ "list" \in FlowPc /\ "compact" \in FlowPc /\ "claim" \in FlowPc /\ "send" \in FlowPc
  /\ "await" \in FlowPc /\ "pull" \in FlowPc /\ "apply" \in FlowPc /\ "save" \in FlowPc
  /\ "mark" \in FlowPc /\ "finish" \in FlowPc
BY DEF FlowPc

LEMMA RestingRows ==
  /\ Idle \in Flow /\ Idle.items = {} /\ Idle.page = {} /\ Idle.pc = "idle"
  /\ Closed \in Flow /\ Closed.items = {} /\ Closed.page = {} /\ Closed.pc = "closed"
BY DEF Idle, Closed, Flow, FlowPc

\* A tab begins or ends an operation.
LEMMA RestingFlows ==
  ASSUME Flows, NEW t \in Tab, NEW f \in Flow, flow' = [flow EXCEPT ![t] = f],
         f.items = {}, f.page = {}, f.pc \notin {"send", "await"},
         QueuesMove, DOMAIN log \subseteq DOMAIN log'
  PROVE  Flows' /\ \A u \in Tab : flow'[u] = flow[u] \/ flow'[u].pc # "await"
BY OneFlow

LEMMA EndsFlows ==
  ASSUME Flows, NEW t \in Tab, Ends(t), QueuesMove, DOMAIN log \subseteq DOMAIN log'
  PROVE  Flows' /\ \A u \in Tab : flow'[u] = flow[u] \/ flow'[u].pc # "await"
BY RestingRows, RestingFlows DEF Ends

LEMMA StartMoves ==
  ASSUME DeliveryInv, NEW t \in Tab, SyncNow(t) \/ AcceptRemote(t) \/ TimerFires(t) \/ Open(t)
  PROVE  Moves
<1>1. Clocks /\ Queues /\ Copies /\ SavedStates /\ Flows
  BY DEF DeliveryInv, TypeInv
<1>2. UNCHANGED <<now, edits, row, log, tx, web, local, outbox, cursor, applied, rewound, raced, faults>>
  BY Zenon DEF SyncNow, AcceptRemote, TimerFires, Open, Started, serverVars, deviceVars
<1>3. QueuesMove /\ Clocks' /\ Copies'
  BY <1>1, <1>2, QueuesStay, ClocksStay DEF Copies
<1>4. SavedStates'
  <2>1. timer' = timer \/ timer' = [timer EXCEPT ![t] = FALSE]
    BY Zenon DEF SyncNow, AcceptRemote, TimerFires, Open, Started
  <2>2. timer' \in [Tab -> BOOLEAN]
    BY <1>1, <2>1 DEF SavedStates
  <2>3. SetStatus(t, "syncing") \/ UNCHANGED status
    BY Zenon DEF SyncNow, AcceptRemote, TimerFires, Open, Started, deviceVars
  <2>4. status' \in [Device -> SyncStatus]
    BY <1>1, <2>3, StatusTyped DEF SavedStates, SyncStatus
  <2> QED BY <1>1, <1>2, <2>2, <2>4 DEF SavedStates
<1>5. Flows' /\ \A u \in Tab : flow'[u] = flow[u] \/ flow'[u].pc # "await"
  <2>0. DOMAIN log \subseteq DOMAIN log'
    BY <1>2
  <2>1. CASE UNCHANGED flow
    BY <1>1, <1>3, <2>0, <2>1, FlowsStay
  <2>2. CASE Ends(t)
    BY <1>1, <1>3, <2>0, <2>2, EndsFlows
  <2>3. CASE flow' = [flow EXCEPT ![t] = [Idle EXCEPT !.first = TRUE, !.pc = "recover"]]
    <3> DEFINE f == [Idle EXCEPT !.first = TRUE, !.pc = "recover"]
    <3>1. f \in Flow /\ f.items = {} /\ f.page = {} /\ f.pc = "recover"
      BY DEF Idle, Flow, FlowPc
    <3> HIDE DEF f
    <3> QED BY <1>1, <1>3, <2>0, <2>3, <3>1, RestingFlows DEF f
  <2>4. ASSUME NEW b \in BOOLEAN,
               flow' = [flow EXCEPT ![t] = [Idle EXCEPT !.accept = b, !.first = ~b,
                                              !.pc = IF b THEN "snapshot" ELSE "recover"]]
        PROVE  Flows' /\ \A u \in Tab : flow'[u] = flow[u] \/ flow'[u].pc # "await"
    <3> DEFINE p == IF b THEN "snapshot" ELSE "recover"
               f == [Idle EXCEPT !.accept = b, !.first = ~b, !.pc = p]
    <3>0. p \in {"snapshot", "recover"}
      OBVIOUS
    <3>1. flow' = [flow EXCEPT ![t] = f]
      BY <2>4
    <3> HIDE DEF p
    <3>2. f \in Flow /\ f.items = {} /\ f.page = {} /\ f.pc = p
      BY <3>0 DEF Idle, Flow, FlowPc
    <3> HIDE DEF f
    <3> QED BY <1>1, <1>3, <2>0, <3>0, <3>1, <3>2, RestingFlows
  <2>5. \/ UNCHANGED flow \/ Ends(t)
        \/ flow' = [flow EXCEPT ![t] = [Idle EXCEPT !.first = TRUE, !.pc = "recover"]]
        \/ Started(t, TRUE) \/ Started(t, FALSE)
    BY Zenon DEF SyncNow, AcceptRemote, TimerFires, Open
  <2>6. \A b \in BOOLEAN : Started(t, b) =>
          flow' = [flow EXCEPT ![t] = [Idle EXCEPT !.accept = b, !.first = ~b,
                                         !.pc = IF b THEN "snapshot" ELSE "recover"]]
    BY Zenon DEF Started
  <2> QED BY <2>1, <2>2, <2>3, <2>4, <2>5, <2>6
<1> QED BY <1>2, <1>3, <1>4, <1>5, DeviceMoves

\* A step of a flush that changes the outbox and where the flush stands.
LEMMA QueueStepMoves ==
  ASSUME DeliveryInv, UNCHANGED Outside, QueuesMove, NEW t \in Tab, NEW f \in Flow,
         flow' = [flow EXCEPT ![t] = f],
         f.items \subseteq DOMAIN outbox[dev(t)], f.page \subseteq DOMAIN log,
         f.pc = "send" => f.items # {}, f.pc # "await"
  PROVE  Moves
<1>1. Clocks /\ Copies /\ SavedStates /\ Flows
  BY DEF DeliveryInv, TypeInv
<1>2. UNCHANGED <<now, edits, row, log, tx, web, local, cursor, status, applied, rewound, timer, raced, faults>>
  BY DEF Outside, serverVars
<1>3. Clocks' /\ Copies' /\ SavedStates' /\ DOMAIN log \subseteq DOMAIN log'
  BY <1>1, <1>2, ClocksStay DEF Copies, SavedStates
<1>4. Flows' /\ flow'[t] = f /\ \A u \in Tab : u # t => flow'[u] = flow[u]
  BY <1>1, <1>3, OneFlow
<1> QED BY <1>2, <1>3, <1>4, DeviceMoves

LEMMA FlowTyped ==
  ASSUME DeliveryInv, NEW t \in Tab
  PROVE  /\ flow[t] \in Flow /\ flow[t].items \subseteq DOMAIN outbox[dev(t)]
         /\ flow[t].page \subseteq DOMAIN log /\ DOMAIN outbox[dev(t)] \subseteq Nat /\ DOMAIN log \subseteq Nat
         /\ cursor[dev(t)] \in Nat /\ Queues /\ Flows
         /\ flow[t].pc \in {"send", "await"} => flow[t].items # {}
<1>1. DOMAIN outbox[dev(t)] = 1..Len(outbox[dev(t)]) /\ DOMAIN log = 1..Len(log)
  BY DevType, OutboxTyped, LogTyped DEF DeliveryInv, TypeInv
<1>2. cursor[dev(t)] \in Nat
  BY DevType DEF DeliveryInv, TypeInv, SavedStates
<1> QED BY <1>1, <1>2 DEF DeliveryInv, TypeInv, Flows, FlowWired

LEMMA RecoverMoves == ASSUME DeliveryInv, NEW t \in Tab, Recover(t) PROVE Moves
<1>1. UNCHANGED Outside /\ flow' = [flow EXCEPT ![t].pc = "list"]
  BY DEF Recover, Goto
<1>2. PICK f \in Flow : /\ flow' = [flow EXCEPT ![t] = f] /\ f.pc = "list"
                       /\ f.items = flow[t].items /\ f.page = flow[t].page
  <2> DEFINE g == Going(flow[t], "list")
  <2>1. flow' = [flow EXCEPT ![t] = g]
    BY <1>1, FlowTyped DEF Going
  <2>2. flow[t] \in Flow /\ "list" \in FlowPc
    BY FlowTyped, Pcs
  <2>3. /\ g \in Flow /\ g.pc = "list" /\ g.items = flow[t].items /\ g.page = flow[t].page
    BY <2>2, GotoRow
  <2> HIDE DEF g
  <2> QED BY <2>1, <2>2, <2>3
<1>3. QueuesMove
  BY FlowTyped, RecoverQueue
<1> QED BY <1>1, <1>2, <1>3, FlowTyped, QueueStepMoves

LEMMA ListMoves == ASSUME DeliveryInv, NEW t \in Tab, List(t) PROVE Moves
<1> DEFINE S == {i \in DOMAIN Items(t) : Claimable(t, i)}
<1>1. UNCHANGED <<outbox, Outside>> /\ flow' = [flow EXCEPT ![t].pc = "compact", ![t].items = S]
  BY DEF List
<1>2. S \subseteq DOMAIN outbox[dev(t)] /\ S \in SUBSET Nat
  BY FlowTyped DEF Items
<1> HIDE DEF S
<1>3. PICK f \in Flow : /\ flow' = [flow EXCEPT ![t] = f] /\ f.pc = "compact"
                       /\ f.items = S /\ f.page = flow[t].page
  <2> DEFINE g == Listing(flow[t], "compact", S)
  <2>1. flow' = [flow EXCEPT ![t] = g]
    BY <1>1, <1>2, FlowTyped DEF Listing
  <2>2. /\ g \in Flow /\ g.pc = "compact" /\ g.items = S /\ g.page = flow[t].page
    BY <1>1, <1>2, FlowTyped, Pcs, ListRow
  <2> HIDE DEF g
  <2> QED BY <2>1, <2>2
<1>4. QueuesMove
  BY <1>1, FlowTyped, QueuesStay
<1> QED BY <1>1, <1>2, <1>3, <1>4, FlowTyped, QueueStepMoves

LEMMA CompactMoves == ASSUME DeliveryInv, NEW t \in Tab, Compact(t) PROVE Moves
<1> DEFINE left == flow[t].items \ Superseded(t)
           c == cursor[dev(t)]
<1>1. /\ UNCHANGED Outside
      /\ \/ flow' = [flow EXCEPT ![t].pc = "claim", ![t].items = left]
         \/ flow' = [flow EXCEPT ![t] = Idle]
         \/ flow' = [flow EXCEPT ![t].pc = "pull", ![t].items = {}, ![t].cur = c]
  BY Zenon DEF Compact, Ends
<1>2. QueuesMove
  BY FlowTyped, CompactQueue
<1>3. left \subseteq DOMAIN outbox[dev(t)] /\ left \in SUBSET Nat /\ c \in Nat
  BY FlowTyped
<1> HIDE DEF left, c
<1>4. CASE flow' = [flow EXCEPT ![t].pc = "claim", ![t].items = left]
  <2>1. PICK f \in Flow : /\ flow' = [flow EXCEPT ![t] = f] /\ f.pc = "claim"
                         /\ f.items = left /\ f.page = flow[t].page
    <3> DEFINE g == Listing(flow[t], "claim", left)
    <3>1. flow' = [flow EXCEPT ![t] = g]
      BY <1>3, <1>4, FlowTyped DEF Listing
    <3>2. /\ g \in Flow /\ g.pc = "claim" /\ g.items = left /\ g.page = flow[t].page
      BY <1>3, <1>4, FlowTyped, Pcs, ListRow
    <3> HIDE DEF g
    <3> QED BY <3>1, <3>2
  <2> QED BY <1>1, <1>2, <1>3, <2>1, FlowTyped, QueueStepMoves
<1>5. CASE flow' = [flow EXCEPT ![t] = Idle]
  BY <1>1, <1>2, <1>5, RestingRows, QueueStepMoves
<1>6. CASE flow' = [flow EXCEPT ![t].pc = "pull", ![t].items = {}, ![t].cur = c]
  <2>1. PICK f \in Flow : /\ flow' = [flow EXCEPT ![t] = f] /\ f.pc = "pull"
                         /\ f.items = {} /\ f.page = flow[t].page
    <3> DEFINE g == Reading(flow[t], "pull", {}, c)
    <3>1. flow' = [flow EXCEPT ![t] = g]
      BY <1>3, <1>6, FlowTyped DEF Reading
    <3>2. /\ g \in Flow /\ g.pc = "pull" /\ g.items = {} /\ g.page = flow[t].page
      BY <1>3, <1>6, FlowTyped, Pcs, ReadRow
    <3> HIDE DEF g
    <3> QED BY <3>1, <3>2
  <2> QED BY <1>1, <1>2, <2>1, FlowTyped, QueueStepMoves
<1> QED BY <1>1, <1>4, <1>5, <1>6

LEMMA ClaimMoves == ASSUME DeliveryInv, NEW t \in Tab, Claim(t) PROVE Moves
<1> DEFINE claimed == {i \in FirstOf(flow[t].items, BatchSize) : Claimable(t, i)}
<1>1. /\ UNCHANGED Outside
      /\ IF claimed = {} THEN flow' = [flow EXCEPT ![t] = Idle]
         ELSE flow' = [flow EXCEPT ![t].pc = "send", ![t].items = claimed, ![t].first = FALSE]
  BY Zenon DEF Claim, Ends
<1>2. QueuesMove
  BY FlowTyped, ClaimQueue
<1>3. claimed \subseteq DOMAIN outbox[dev(t)] /\ claimed \in SUBSET Nat
  BY FlowTyped DEF FirstOf
<1> HIDE DEF claimed
<1>4. CASE claimed = {}
  BY <1>1, <1>2, <1>4, RestingRows, QueueStepMoves
<1>5. CASE claimed # {}
  <2>1. PICK f \in Flow : /\ flow' = [flow EXCEPT ![t] = f] /\ f.pc = "send"
                         /\ f.items = claimed /\ f.page = flow[t].page
    <3> DEFINE g == Claiming(flow[t], "send", claimed)
    <3>1. flow' = [flow EXCEPT ![t] = g]
      BY <1>1, <1>3, <1>5, FlowTyped DEF Claiming
    <3>2. /\ g \in Flow /\ g.pc = "send" /\ g.items = claimed /\ g.page = flow[t].page
      BY <1>1, <1>3, <1>5, FlowTyped, Pcs, ClaimRow
    <3> HIDE DEF g
    <3> QED BY <3>1, <3>2
  <2> QED BY <1>1, <1>2, <1>3, <1>5, <2>1, FlowTyped, QueueStepMoves
<1> QED BY <1>4, <1>5

LEMMA SnapshotMoves == ASSUME DeliveryInv, NEW t \in Tab, Snapshot(t) PROVE Moves
<1> DEFINE S == {i \in DOMAIN Items(t) : Items(t)[i].status # "sent"}
           c == cursor[dev(t)]
<1>1. UNCHANGED <<outbox, Outside>> /\ flow' = [flow EXCEPT ![t].pc = "pull", ![t].cur = c, ![t].items = S]
  BY DEF Snapshot
<1>2. S \subseteq DOMAIN outbox[dev(t)] /\ S \in SUBSET Nat /\ c \in Nat
  BY FlowTyped DEF Items
<1> HIDE DEF S, c
<1>3. PICK f \in Flow : /\ flow' = [flow EXCEPT ![t] = f] /\ f.pc = "pull"
                       /\ f.items = S /\ f.page = flow[t].page
  <2> DEFINE g == Reading(flow[t], "pull", S, c)
  <2>1. flow' = [flow EXCEPT ![t] = g]
    BY <1>1, <1>2, FlowTyped DEF Reading
  <2>2. /\ g \in Flow /\ g.pc = "pull" /\ g.items = S /\ g.page = flow[t].page
    BY <1>1, <1>2, FlowTyped, Pcs, ReadRow
  <2> HIDE DEF g
  <2> QED BY <2>1, <2>2
<1>4. QueuesMove
  BY <1>1, FlowTyped, QueuesStay
<1> QED BY <1>1, <1>2, <1>3, <1>4, FlowTyped, QueueStepMoves

LEMMA MarkMoves == ASSUME DeliveryInv, NEW t \in Tab, Mark(t) PROVE Moves
<1>1. UNCHANGED Outside /\ flow' = [flow EXCEPT ![t].pc = "finish"]
  BY DEF Mark, Goto
<1>2. PICK f \in Flow : /\ flow' = [flow EXCEPT ![t] = f] /\ f.pc = "finish"
                       /\ f.items = flow[t].items /\ f.page = flow[t].page
  <2> DEFINE g == Going(flow[t], "finish")
  <2>1. flow' = [flow EXCEPT ![t] = g]
    BY <1>1, FlowTyped DEF Going
  <2>2. /\ g \in Flow /\ g.pc = "finish" /\ g.items = flow[t].items /\ g.page = flow[t].page
    <3>1. flow[t] \in Flow /\ "finish" \in FlowPc
      BY FlowTyped, Pcs
    <3> QED BY <3>1, GotoRow
  <2> HIDE DEF g
  <2> QED BY <2>1, <2>2
<1>3. QueuesMove
  BY FlowTyped, MarkQueue
<1> QED BY <1>1, <1>2, <1>3, FlowTyped, QueueStepMoves

-----------------------------------------------------------------------------
(* The batch of a push *)

\* The numbers below i in S; a set of numbers can be counted off in order.
Below(S, i) == {j \in S : j < i}

LEMMA Ranks ==
  ASSUME NEW n \in Nat, NEW S, S \subseteq 1..n
  PROVE  /\ Cardinality(S) \in Nat /\ (S # {} => Cardinality(S) # 0)
         /\ \A i \in S : Cardinality(Below(S, i)) \in 0..(Cardinality(S) - 1)
         /\ \A i, m \in S : Cardinality(Below(S, i)) = Cardinality(Below(S, m)) => i = m
         /\ \A k \in 1..Cardinality(S) : \E i \in S : Cardinality(Below(S, i)) = k - 1
<1> DEFINE c == Cardinality(S)
           r == [i \in S |-> Cardinality(Below(S, i))]
<1>1. IsFiniteSet(S) /\ c \in Nat /\ (S # {} => c # 0)
  <2>1. IsFiniteSet(1..n)
    BY FS_Interval
  <2>2. IsFiniteSet(S)
    BY <2>1, FS_Subset
  <2> QED BY <2>2, FS_CardinalityType, FS_EmptySet
<1>2. S \subseteq Nat
  OBVIOUS
<1>3. \A i \in S : IsFiniteSet(Below(S, i)) /\ Cardinality(Below(S, i)) \in Nat
  <2> TAKE i \in S
  <2>1. Below(S, i) \in SUBSET S
    BY DEF Below
  <2> QED BY <1>1, <2>1, FS_Subset, FS_CardinalityType
\* The smaller of two has fewer below it.
<1>4. ASSUME NEW i \in S, NEW m \in Nat, i < m
      PROVE  Cardinality(Below(S, i)) < Cardinality(Below(S, m))
  <2>1. Below(S, m) \in SUBSET S
    BY DEF Below
  <2>2. IsFiniteSet(Below(S, m)) /\ Cardinality(Below(S, m)) \in Nat
    BY <1>1, <2>1, FS_Subset, FS_CardinalityType
  <2>3. Below(S, i) \in SUBSET Below(S, m) /\ i \in Below(S, m) /\ i \notin Below(S, i)
    <3>1. i \in Nat /\ ~(i < i)
      BY <1>2
    <3>2. \A j \in S : j < i => j < m
      BY <1>2, <1>4, <3>1
    <3> QED BY <1>4, <3>1, <3>2 DEF Below
  <2>4. Cardinality(Below(S, i)) <= Cardinality(Below(S, m)) /\ Cardinality(Below(S, i)) # Cardinality(Below(S, m))
    BY <2>2, <2>3, FS_Subset
  <2> QED BY <1>3, <2>2, <2>4
<1>5. \A i \in S : Cardinality(Below(S, i)) \in 0..(c - 1)
  <2> TAKE i \in S
  <2>1. \A j \in S : j < n + 1
    OBVIOUS
  <2>2. S = Below(S, n + 1) /\ i < n + 1
    BY <2>1 DEF Below
  <2>3. Cardinality(Below(S, i)) < c
    BY <1>4, <2>2
  <2> QED BY <1>1, <1>3, <2>3
<1>6. \A i, m \in S : Cardinality(Below(S, i)) = Cardinality(Below(S, m)) => i = m
  <2> TAKE i, m \in S
  <2>1. i < m \/ m < i \/ i = m
    BY <1>2
  <2> QED BY <1>2, <1>3, <1>4, <2>1
<1>7. \A k \in 1..c : \E i \in S : Cardinality(Below(S, i)) = k - 1
  <2>1. r \in Injection(S, 0..(c - 1))
    BY <1>5, <1>6 DEF Injection, IsInjective
  <2>2. IsFiniteSet(0..(c - 1)) /\ Cardinality(0..(c - 1)) = c
    <3> HIDE DEF c
    <3>1. 0 \in Int /\ c - 1 \in Int
      BY <1>1
    <3>2. Cardinality(0..(c - 1)) = IF 0 > c - 1 THEN 0 ELSE (c - 1) - 0 + 1
      BY <3>1, FS_Interval
    <3> QED BY <1>1, <3>1, <3>2, FS_Interval
  <2>3. r \in Surjection(S, 0..(c - 1))
    <3> HIDE DEF r
    <3> QED BY <2>1, <2>2, FS_Injection
  <2>4. TAKE k \in 1..c
  <2>5. k - 1 \in 0..(c - 1)
    BY <1>1
  <2>6. PICK i \in S : r[i] = k - 1
    BY <2>3, <2>5 DEF Surjection
  <2> QED BY <2>6
<1> QED BY <1>1, <1>5, <1>6, <1>7

\* A push carries the events of the items it claims, and no others.
LEMMA BatchTyped ==
  ASSUME DeliveryInv, NEW t \in Tab, flow[t].pc = "send"
  PROVE  /\ Batch(t) \in Seq(Event) /\ Batch(t) # <<>>
         /\ \A i \in flow[t].items : \E k \in DOMAIN Batch(t) : Batch(t)[k] = Items(t)[i].ev
         /\ \A k \in DOMAIN Batch(t) : \E i \in flow[t].items : Batch(t)[k] = Items(t)[i].ev
<1> DEFINE S == flow[t].items
           Nth(k) == CHOOSE i \in S : Cardinality({j \in S : j < i}) = k - 1
           c == Cardinality(S)
<1>1. S \subseteq DOMAIN Items(t) /\ S # {} /\ \A i \in DOMAIN Items(t) : Items(t)[i].ev \in Event
  <2>1. \A i \in DOMAIN outbox[dev(t)] : outbox[dev(t)][i] \in Item
    BY FlowTyped, DevType, OutboxTyped
  <2> QED BY <2>1, FlowTyped DEF Items, Item
<1>2. PICK n \in Nat : S \subseteq 1..n
  BY FlowTyped, DevType, OutboxTyped
<1>3. Batch(t) = [k \in 1..c |-> Items(t)[Nth(k)].ev]
  BY DEF Batch
<1>4. \A i : {j \in S : j < i} = Below(S, i)
  BY DEF Below
<1> HIDE DEF S
<1>5. /\ c \in Nat /\ c # 0
      /\ \A i \in S : Cardinality(Below(S, i)) \in 0..(c - 1)
      /\ \A i, m \in S : Cardinality(Below(S, i)) = Cardinality(Below(S, m)) => i = m
      /\ \A k \in 1..c : \E i \in S : Cardinality(Below(S, i)) = k - 1
  BY <1>1, <1>2, Ranks
<1>6. \A k \in 1..c : Nth(k) \in S /\ Cardinality(Below(S, Nth(k))) = k - 1
  BY <1>4, <1>5
<1> HIDE DEF Nth, c
<1>7. Batch(t) \in [1..c -> Event]
  BY <1>1, <1>3, <1>6
<1>8. Batch(t) \in Seq(Event) /\ DOMAIN Batch(t) = 1..c
  BY <1>5, <1>7, SeqDef
<1>9. Batch(t) # <<>>
  <2>1. Len(Batch(t)) = c
    BY <1>5, <1>8, LenProperties
  <2> QED BY <1>5, <2>1, EmptySeq
<1>10. ASSUME NEW i \in S PROVE \E k \in DOMAIN Batch(t) : Batch(t)[k] = Items(t)[i].ev
  <2> DEFINE k == Cardinality(Below(S, i)) + 1
  <2>1. k \in 1..c /\ k - 1 = Cardinality(Below(S, i))
    BY <1>5
  <2>2. Nth(k) = i
    <3> HIDE DEF k
    <3> QED BY <1>5, <1>6, <2>1
  <2> HIDE DEF k
  <2>3. Batch(t)[k] = Items(t)[Nth(k)].ev
    BY <1>3, <2>1
  <2> QED BY <1>8, <2>1, <2>2, <2>3
<1>11. \A k \in DOMAIN Batch(t) : \E i \in S : Batch(t)[k] = Items(t)[i].ev
  BY <1>3, <1>6, <1>8
<1> QED BY <1>8, <1>9, <1>10, <1>11 DEF S

\* Sending: the push takes on every event the tab then waits for.
LEMMA SendMoves == ASSUME DeliveryInv, NEW t \in Tab, Send(t) PROVE Moves
<1> DEFINE x == [NoTx EXCEPT !.phase = "check", !.todo = Batch(t)]
           E == {Items(t)[i].ev.ent : i \in flow[t].items}
<1>1. Clocks /\ Copies /\ SavedStates /\ Flows /\ Server /\ Pushes /\ Queues
  BY DEF DeliveryInv, TypeInv
<1>2. /\ flow[t].pc = "send" /\ tx' = [tx EXCEPT ![t] = x]
      /\ raced' = raced \cup Overlap(t, E) /\ flow' = [flow EXCEPT ![t].pc = "await"]
      /\ UNCHANGED <<now, edits, row, log, web, local, outbox, cursor, status, applied, rewound, timer, faults>>
  BY DEF Send, Set, Goto, deviceVars
<1>3. QueuesMove /\ Server' /\ DOMAIN log \subseteq DOMAIN log' /\ Clocks' /\ Copies'
  BY <1>1, <1>2, QueuesStay, ServerStays, ClocksStay DEF Copies
<1>4. SavedStates'
  <2>1. \A i \in flow[t].items : Items(t)[i].ev.ent \in Entity
    <3>1. \A i \in DOMAIN outbox[dev(t)] : outbox[dev(t)][i] \in Item
      BY FlowTyped, DevType, OutboxTyped
    <3> QED BY <3>1, FlowTyped DEF Items, Item, Event
  <2>2. E \subseteq Entity
    BY <2>1
  <2>3. Overlap(t, E) \subseteq Entity
    <3> HIDE DEF E
    <3> QED BY <2>2 DEF Overlap
  <2> QED BY <1>1, <1>2, <2>3 DEF SavedStates
<1>5. /\ DOMAIN x = TxFields /\ x.phase = "check" /\ x.todo = Batch(t)
      /\ x.bad = {} /\ x.rows = <<>> /\ x.writer = FALSE
  BY DEF NoTx, TxFields
<1> HIDE DEF x
<1>6. Batch(t) \in Seq(Event) /\ Batch(t) # <<>>
  BY <1>2, BatchTyped
<1>7. TxWired(x)
  <2>1. DOMAIN x.rows = {}
    BY <1>5
  <2>2. x.phase \in TxPhase
    BY <1>5 DEF TxPhase
  <2>3. TxTypeOK(x)
    BY <1>5, <1>6, <2>1, <2>2 DEF TxTypeOK
  <2> QED BY <1>5, <1>6, <2>3 DEF TxWired
<1>8. Pushes' /\ tx'[t] = x /\ \A u \in Tab : u # t => tx'[u] = tx[u]
  BY <1>1, <1>2, <1>7, OneTx
<1>9. /\ Flows' /\ flow'[t].pc = "await" /\ flow'[t].items = flow[t].items
      /\ \A u \in Tab : u # t => flow'[u] = flow[u]
  <2> DEFINE g == Going(flow[t], "await")
  <2>1. flow' = [flow EXCEPT ![t] = g]
    BY <1>2, FlowTyped DEF Going
  <2>2. /\ g \in Flow /\ g.pc = "await" /\ g.items = flow[t].items /\ g.page = flow[t].page
    <3>1. flow[t] \in Flow /\ "await" \in FlowPc
      BY FlowTyped, Pcs
    <3> QED BY <3>1, GotoRow
  <2> HIDE DEF g
  <2> QED BY <1>1, <1>2, <1>3, <2>1, <2>2, FlowTyped, OneFlow, ZenonT(40)
<1>10. ASSUME NEW u \in Tab, u # t PROVE Inserted(u)' /\ Delivered(u)'
  BY <1>2, <1>3, <1>8, <1>9, <1>10, LogStays, NotDelivering
<1>11. Inserted(t)'
  BY <1>5, <1>8 DEF Inserted
<1>12. Delivered(t)'
  <2> SUFFICES ASSUME NEW i \in flow'[t].items PROVE Held(t, Items(t)[i].ev)'
    BY DEF Delivered
  <2>1. PICK k \in DOMAIN Batch(t) : Batch(t)[k] = Items(t)[i].ev
    BY <1>2, <1>9, BatchTyped
  <2>2. Items(t)' = Items(t)
    BY <1>2 DEF Items, dev
  <2>3. k \in DOMAIN tx'[t].todo /\ tx'[t].todo[k] = Items(t)'[i].ev
    BY <1>5, <1>8, <2>1, <2>2
  <2> QED BY <2>3 DEF Held
<1> QED BY <1>3, <1>4, <1>8, <1>9, <1>10, <1>11, <1>12 DEF Moves

\* A tab stops to wait, and drops its transaction unless the server still works on it.
LEMMA StopsWaiting ==
  ASSUME DeliveryInv, UNCHANGED <<now, edits, row, log, web, local>>, Fault \/ UNCHANGED faults,
         QueuesMove, SavedStates', NEW t \in Tab, NEW x, TxWired(x), x = tx[t] \/ x = NoTx,
         tx' = [tx EXCEPT ![t] = x],
         Flows', flow'[t].pc # "await", \A u \in Tab : u # t => flow'[u] = flow[u]
  PROVE  Moves
<1>1. Clocks /\ Copies /\ Server /\ Pushes
  BY DEF DeliveryInv, TypeInv
<1>2. Clocks' /\ Copies' /\ Server' /\ DOMAIN log \subseteq DOMAIN log'
  BY <1>1, ClocksStay, ServerStays DEF Copies
<1>3. Pushes' /\ tx'[t] = x /\ \A u \in Tab : u # t => tx'[u] = tx[u]
  BY <1>1, OneTx
<1>4. ASSUME NEW u \in Tab, u # t PROVE Inserted(u)' /\ Delivered(u)'
  BY <1>3, <1>4, LogStays, NotDelivering
<1>5. Inserted(t)' /\ Delivered(t)'
  <2>1. CASE x = tx[t]
    BY <1>3, <2>1, LogStays, NotDelivering
  <2>2. CASE x = NoTx
    BY <1>3, <2>2, NoTxWired DEF Inserted, Delivered
  <2> QED BY <2>1, <2>2
<1> QED BY <1>2, <1>3, <1>4, <1>5 DEF Moves

LEMMA EndsFlow ==
  ASSUME DeliveryInv, NEW t \in Tab, NEW f \in {Idle, Closed}, flow' = [flow EXCEPT ![t] = f],
         QueuesMove, UNCHANGED log
  PROVE  Flows' /\ flow'[t].pc # "await" /\ \A u \in Tab : u # t => flow'[u] = flow[u]
<1>1. f \in Flow /\ f.items = {} /\ f.page = {} /\ f.pc \in {"idle", "closed"}
  BY RestingRows
<1> QED BY <1>1, FlowTyped, OneFlow

LEMMA PushFailedMoves ==
  ASSUME DeliveryInv, NEW t \in Tab, PushFailed(t), Fault \/ UNCHANGED faults PROVE Moves
<1> DEFINE x == IF Running(t) THEN tx[t] ELSE NoTx
<1>1. /\ tx' = [tx EXCEPT ![t] = x] /\ flow' = [flow EXCEPT ![t] = Idle]
      /\ SetStatus(t, "failed") \/ UNCHANGED status
      /\ UNCHANGED <<now, edits, row, log, web, local, cursor, applied, rewound, timer, raced>>
  BY DEF PushFailed, Ends
<1>2. QueuesMove
  BY FlowTyped, PushFailedQueue
<1>3. SavedStates'
  <2>1. SavedStates
    BY DEF DeliveryInv, TypeInv
  <2> QED BY <1>1, <2>1, StatusTyped DEF SavedStates, SyncStatus
<1>4. TxWired(x) /\ (x = tx[t] \/ x = NoTx)
  BY NoTxWired DEF DeliveryInv, TypeInv, Pushes
<1> HIDE DEF x
<1>5. Flows' /\ flow'[t].pc # "await" /\ \A u \in Tab : u # t => flow'[u] = flow[u]
  BY <1>1, <1>2, EndsFlow
<1> QED BY <1>1, <1>2, <1>3, <1>4, <1>5, StopsWaiting

LEMMA TabDiesMoves == ASSUME DeliveryInv, NEW t \in Tab, TabDies(t) PROVE Moves
<1> DEFINE x == IF Running(t) THEN tx[t] ELSE NoTx
<1>1. /\ tx' = [tx EXCEPT ![t] = x] /\ flow' = [flow EXCEPT ![t] = Closed]
      /\ timer' = [timer EXCEPT ![t] = FALSE] /\ Fault
      /\ UNCHANGED <<now, edits, row, log, web, local, outbox, cursor, status, applied, rewound, raced>>
  BY DEF TabDies, deviceVars
<1>2. QueuesMove
  BY <1>1, FlowTyped, QueuesStay
<1>3. SavedStates'
  <2>1. SavedStates
    BY DEF DeliveryInv, TypeInv
  <2>2. timer' \in [Tab -> BOOLEAN]
    BY <1>1, <2>1 DEF SavedStates
  <2> QED BY <1>1, <2>1, <2>2 DEF SavedStates
<1>4. TxWired(x) /\ (x = tx[t] \/ x = NoTx)
  BY NoTxWired DEF DeliveryInv, TypeInv, Pushes
<1> HIDE DEF x
<1>5. Flows' /\ flow'[t].pc # "await" /\ \A u \in Tab : u # t => flow'[u] = flow[u]
  BY <1>1, <1>2, EndsFlow
<1> QED BY <1>1, <1>2, <1>3, <1>4, <1>5, StopsWaiting

LEMMA SettleMoves == ASSUME DeliveryInv, NEW t \in Tab, Settle(t) PROVE Moves
<1>1. /\ tx' = [tx EXCEPT ![t] = NoTx]
      /\ flow' = [flow EXCEPT ![t] = Idle] \/ flow' = [flow EXCEPT ![t].pc = "list"]
      /\ SetStatus(t, "conflict") \/ UNCHANGED status
      /\ UNCHANGED <<now, edits, row, log, web, local, cursor, applied, rewound, timer, raced, faults>>
  BY Zenon DEF Settle, Ends, Set, Goto
<1>2. QueuesMove
  BY FlowTyped, SettleQueue
<1>3. SavedStates'
  <2>1. SavedStates
    BY DEF DeliveryInv, TypeInv
  <2> QED BY <1>1, <2>1, StatusTyped DEF SavedStates, SyncStatus
<1>4. Flows' /\ flow'[t].pc # "await" /\ \A u \in Tab : u # t => flow'[u] = flow[u]
  <2>1. CASE flow' = [flow EXCEPT ![t] = Idle]
    BY <1>1, <1>2, <2>1, EndsFlow
  <2>2. CASE flow' = [flow EXCEPT ![t].pc = "list"]
    <3> DEFINE g == Going(flow[t], "list")
    <3>1. flow' = [flow EXCEPT ![t] = g]
      BY <2>2, FlowTyped DEF Going
    <3>2. /\ g \in Flow /\ g.pc = "list" /\ g.items = flow[t].items /\ g.page = flow[t].page
      <4>1. flow[t] \in Flow
        BY FlowTyped
      <4>2. "list" \in FlowPc
        BY Pcs
      <4> QED BY <4>1, <4>2, GotoRow
    <3> HIDE DEF g
    <3>3. DOMAIN log \subseteq DOMAIN log'
      BY <1>1
    <3> QED BY <1>2, <3>1, <3>2, <3>3, FlowTyped, OneFlow
  <2> QED BY <1>1, <2>1, <2>2
<1> QED BY <1>1, <1>2, <1>3, <1>4, NoTxWired, StopsWaiting

-----------------------------------------------------------------------------
(* Reading the log *)

LEMMA AppliedTyped ==
  ASSUME NEW c \in Copy, NEW ev \in Event PROVE Applied(c, ev) \in Copy
<1>1. ev.at \in Nat /\ ev \in Rows /\ NoRow \in Rows
  BY DEF Event, Rows
<1>2. c.row \in Rows /\ c.tomb \in Nat
  BY DEF Copy
<1>3. \A r \in Rows, n \in Nat : [row |-> r, tomb |-> n] \in Copy
  BY DEF Copy
<1>4. Removed(ev) \in Copy
  BY <1>1, <1>3 DEF Removed
<1>5. AppliedNote(c, ev) \in Copy
  BY <1>1, <1>2, <1>3, <1>4 DEF AppliedNote
<1>6. AppliedPosition(c, ev) \in Copy
  BY <1>1, <1>3, <1>4 DEF AppliedPosition
<1> QED BY <1>5, <1>6 DEF Applied

\* The copies c after entry n.
Onto(c, n) == [c EXCEPT ![log[n].ev.ent] = Applied(@, log[n].ev)]

\* A page is applied entry by entry, and there is a copy of every entity all along.
LEMMA AppliedSteps ==
  ASSUME Server, NEW copies \in [Entity -> Copy], NEW page, page \subseteq DOMAIN log
  PROVE  \E after :
           /\ after[0] = copies /\ AppliedAll(copies, page) = after[Len(log)]
           /\ \A n \in 1..Len(log) : after[n] = IF n \in page THEN Onto(after[n - 1], n) ELSE after[n - 1]
           /\ \A n \in 0..Len(log) : after[n] \in [Entity -> Copy]
<1> DEFINE N == Len(log)
           Body(g, n) == IF n \notin page THEN IF n = 0 THEN copies ELSE g[n - 1]
                         ELSE Onto(g[n - 1], n)
           Is(g, m) == g = [n \in 0..m |-> Body(g, n)]
<1>1. N \in Nat /\ page \subseteq 1..N /\ \A n \in page : log[n].ev \in Event
  BY LogTyped DEF Entry
<1>2. 0 \notin page
  BY <1>1
<1>3. \A c \in [Entity -> Copy], n \in page : Onto(c, n) \in [Entity -> Copy]
  <2> TAKE c \in [Entity -> Copy], n \in page
  <2>1. log[n].ev \in Event /\ log[n].ev.ent \in Entity
    BY <1>1 DEF Event
  <2>2. Applied(c[log[n].ev.ent], log[n].ev) \in Copy
    BY <2>1, AppliedTyped
  <2> QED BY <2>1, <2>2 DEF Onto
<1> HIDE DEF N
<1>4. \E g : Is(g, N)
  <2> DEFINE T == {m \in 0..N : ~\E g : Is(g, m)}
  <2>1. SUFFICES ASSUME N \in T PROVE FALSE
    BY <1>1
  <2>2. PICK m \in T : \A y \in T : m <= y
    <3>1. T \subseteq Nat /\ T # {}
      BY <1>1, <2>1
    <3> HIDE DEF T
    <3> QED BY <3>1, LeastNatural
  <2>3. CASE m = 0
    <3> DEFINE g == [n \in 0..0 |-> copies]
    <3>1. \A n \in 0..0 : n = 0 /\ Body(g, n) = copies
      BY <1>2
    <3>2. Is(g, 0)
      BY <3>1
    <3> QED BY <2>3, <3>2
  <2>4. CASE m # 0
    <3>1. m \in Nat /\ m - 1 \in 0..N /\ ~(m <= m - 1)
      BY <1>1, <2>4
    <3>2. m - 1 \notin T
      BY <2>2, <3>1
    <3>3. PICK f : Is(f, m - 1)
      BY <3>1, <3>2
    <3>4. DOMAIN f = 0..(m - 1) /\ \A n \in 0..(m - 1) : f[n] = Body(f, n)
      <4> HIDE DEF Body
      <4> QED BY <3>3
    <3> DEFINE last == IF m \notin page THEN f[m - 1] ELSE Onto(f[m - 1], m)
               g == [n \in 0..m |-> IF n = m THEN last ELSE f[n]]
    <3>5. \A n \in 0..(m - 1) : g[n] = f[n]
      BY <3>1
    <3>6. g[m] = last /\ g[m - 1] = f[m - 1]
      BY <3>1, <3>5
    <3>7. DOMAIN g = 0..m /\ g = [n \in 0..m |-> g[n]]
      OBVIOUS
    <3> HIDE DEF g
    <3>8. Body(g, m) = last
      BY <2>4, <3>6
    <3>9. ASSUME NEW n \in 0..(m - 1) PROVE g[n] = Body(g, n)
      <4>1. CASE n = 0
        BY <1>2, <3>4, <3>5, <4>1
      <4>2. CASE n # 0
        <5>1. n - 1 \in 0..(m - 1)
          BY <3>1, <4>2
        <5>2. g[n - 1] = f[n - 1]
          BY <3>5, <5>1
        <5> QED BY <3>4, <3>5, <4>2, <5>2
      <4> QED BY <4>1, <4>2
    <3>10. \A n \in 0..m : g[n] = Body(g, n)
      <4>1. \A n \in 0..m : n = m \/ n \in 0..(m - 1)
        BY <3>1
      <4> HIDE DEF Body, last
      <4> QED BY <3>6, <3>8, <3>9, <4>1
    <3>11. Is(g, m)
      <4> HIDE DEF Body
      <4> QED BY <3>7, <3>10
    <3> QED BY <3>11
  <2> QED BY <2>3, <2>4
<1> DEFINE after == CHOOSE g : Is(g, N)
<1>5. AppliedAll(copies, page) = after[N]
  BY DEF AppliedAll, N, Onto
<1>6. \A n \in 0..N : after[n] = Body(after, n)
  <2>1. Is(after, N)
    BY <1>4
  <2> HIDE DEF after, Body
  <2> QED BY <2>1
<1> HIDE DEF after, Is
<1>7. \A n \in 0..N : after[n] \in [Entity -> Copy]
  <2> DEFINE T == {n \in 0..N : after[n] \notin [Entity -> Copy]}
  <2>1. SUFFICES ASSUME NEW q \in T PROVE FALSE
    OBVIOUS
  <2>2. PICK m \in T : \A y \in T : m <= y
    <3>1. T \subseteq Nat /\ T # {}
      BY <1>1, <2>1
    <3> HIDE DEF T
    <3> QED BY <3>1, LeastNatural
  <2>3. after[m] = Body(after, m) /\ m \in 0..N
    BY <1>6
  <2>4. CASE m = 0
    BY <1>2, <2>3, <2>4
  <2>5. CASE m # 0
    <3>1. m \in Nat /\ m - 1 \in 0..N /\ ~(m <= m - 1)
      BY <1>1, <2>5
    <3>2. after[m - 1] \in [Entity -> Copy]
      BY <2>2, <3>1
    <3> QED BY <1>3, <2>3, <2>5, <3>2
  <2> QED BY <2>4, <2>5
<1>8. 0 \in 0..N /\ after[0] = copies
  BY <1>1, <1>2, <1>6
<1>9. \A n \in 1..N : after[n] = IF n \in page THEN Onto(after[n - 1], n) ELSE after[n - 1]
  <2>1. \A n \in 1..N : n \in 0..N /\ n # 0
    BY <1>1
  <2> QED BY <1>6, <2>1
<1> QED BY <1>5, <1>7, <1>8, <1>9 DEF N

LEMMA AppliedAllTyped ==
  ASSUME Server, NEW copies \in [Entity -> Copy], NEW page, page \subseteq DOMAIN log
  PROVE  AppliedAll(copies, page) \in [Entity -> Copy]
<1>1. Len(log) \in 0..Len(log)
  BY LogTyped
<1> QED BY <1>1, AppliedSteps

LEMMA PullMoves == ASSUME DeliveryInv, NEW t \in Tab, Pull(t) PROVE Moves
<1> DEFINE S == FirstOf(After(flow[t].cur), PageSize)
           c == MaxOf(S, flow[t].cur)
<1>1. /\ UNCHANGED <<outbox, Outside>>
      /\ flow' = [flow EXCEPT ![t].pc = "apply", ![t].page = S, ![t].cur = MaxOf(S, @)]
  BY DEF Pull
<1>2. S \subseteq DOMAIN log /\ S \in SUBSET Nat
  BY FlowTyped DEF FirstOf, After
<1>3. c \in Nat
  <2>1. DOMAIN log = 1..Len(log) /\ Len(log) \in Nat
    BY LogTyped DEF DeliveryInv, TypeInv
  <2>2. flow[t].cur \in Nat
    BY FlowTyped DEF Flow
  <2>3. (S = {} => c = flow[t].cur) /\ (S # {} => c \in S)
    <3> HIDE DEF S
    <3> QED BY <1>2, <2>1, <2>2, MaxIsMax
  <2> QED BY <1>2, <2>2, <2>3
<1>4. flow' = [flow EXCEPT ![t].pc = "apply", ![t].page = S, ![t].cur = c]
  <2> HIDE DEF S
  <2> QED BY <1>1, FlowTyped DEF Flow
<1> HIDE DEF S, c
<1>5. PICK f \in Flow : /\ flow' = [flow EXCEPT ![t] = f] /\ f.pc = "apply"
                       /\ f.items = flow[t].items /\ f.page = S
  <2> DEFINE g == Paging(flow[t], "apply", S, c)
  <2>1. flow' = [flow EXCEPT ![t] = g]
    BY <1>4, FlowTyped DEF Paging
  <2>2. /\ g \in Flow /\ g.pc = "apply" /\ g.items = flow[t].items /\ g.page = S
    BY <1>2, <1>3, FlowTyped, Pcs, PageRow
  <2> HIDE DEF g
  <2> QED BY <2>1, <2>2
<1>6. QueuesMove
  BY <1>1, FlowTyped, QueuesStay
<1> QED BY <1>1, <1>2, <1>5, <1>6, FlowTyped, QueueStepMoves

LEMMA PullFailedMoves ==
  ASSUME DeliveryInv, NEW t \in Tab, PullFailed(t), Fault \/ UNCHANGED faults PROVE Moves
<1>1. /\ flow' = [flow EXCEPT ![t] = Idle] /\ SetStatus(t, "failed")
      /\ UNCHANGED <<now, edits, row, log, tx, web, local, outbox, cursor, applied, rewound, timer, raced>>
  BY DEF PullFailed, Ends, serverVars
<1>2. Clocks /\ Copies /\ SavedStates
  BY DEF DeliveryInv, TypeInv
<1>3. Clocks' /\ Copies' /\ QueuesMove
  BY <1>1, <1>2, FlowTyped, ClocksStay, QueuesStay DEF Copies
<1>4. SavedStates'
  BY <1>1, <1>2, StatusTyped DEF SavedStates, SyncStatus
<1>5. Flows' /\ flow'[t].pc # "await" /\ \A u \in Tab : u # t => flow'[u] = flow[u]
  BY <1>1, <1>3, EndsFlow
<1> QED BY <1>1, <1>3, <1>4, <1>5, DeviceMoves

LEMMA ApplyMoves == ASSUME DeliveryInv, NEW t \in Tab, Apply(t) PROVE Moves
<1> DEFINE d == dev(t)
           P == flow[t].page
           copies == AppliedAll(local[d], P)
<1>1. /\ local' = [local EXCEPT ![d] = copies] /\ applied' = [applied EXCEPT ![d] = applied[d] \cup P]
      /\ rewound' = rewound \cup Rewinds(t) /\ flow' = [flow EXCEPT ![t].pc = "save"]
      /\ UNCHANGED <<now, edits, row, log, tx, web, outbox, cursor, status, timer, raced, faults>>
  BY DEF Apply, Goto, serverVars
<1>2. Clocks /\ Copies /\ SavedStates /\ Server /\ d \in Device
  BY DevType DEF DeliveryInv, TypeInv
<1>3. P \subseteq DOMAIN log /\ P \in SUBSET Nat
  BY FlowTyped
<1>4. Copies'
  <2>1. local[d] \in [Entity -> Copy]
    BY <1>2 DEF Copies
  <2>2. copies \in [Entity -> Copy]
    <3> HIDE DEF d, P
    <3> QED BY <1>2, <1>3, <2>1, AppliedAllTyped
  <2> HIDE DEF copies
  <2> QED BY <1>1, <1>2, <2>2 DEF Copies
<1>5. SavedStates'
  <2>1. applied[d] \in SUBSET Nat
    BY <1>2 DEF SavedStates
  <2>2. applied' \in [Device -> SUBSET Nat]
    <3> HIDE DEF P
    <3> QED BY <1>1, <1>2, <1>3, <2>1 DEF SavedStates
  <2>3. Rewinds(t) \subseteq Entity
    BY DEF Rewinds
  <2> QED BY <1>1, <1>2, <2>2, <2>3 DEF SavedStates
<1>6. Clocks' /\ QueuesMove /\ DOMAIN log \subseteq DOMAIN log'
  BY <1>1, <1>2, FlowTyped, ClocksStay, QueuesStay
<1>7. Flows' /\ flow'[t].pc # "await" /\ \A u \in Tab : u # t => flow'[u] = flow[u]
  <2> DEFINE g == Going(flow[t], "save")
  <2>1. flow' = [flow EXCEPT ![t] = g]
    BY <1>1, FlowTyped DEF Going
  <2>2. /\ g \in Flow /\ g.pc = "save" /\ g.items = flow[t].items /\ g.page = flow[t].page
    <3>1. flow[t] \in Flow /\ "save" \in FlowPc
      BY FlowTyped, Pcs
    <3> QED BY <3>1, GotoRow
  <2> HIDE DEF g
  <2> QED BY <1>6, <2>1, <2>2, FlowTyped, OneFlow
<1> QED BY <1>1, <1>4, <1>5, <1>6, <1>7, DeviceMoves

LEMMA CursorTyped ==
  ASSUME DeliveryInv, NEW t \in Tab, cursor' = [cursor EXCEPT ![dev(t)] = flow[t].cur]
  PROVE  cursor' \in [Device -> Nat]
<1>1. flow[t].cur \in Nat /\ cursor \in [Device -> Nat]
  BY FlowTyped DEF Flow, DeliveryInv, TypeInv, SavedStates
<1> QED BY <1>1, DevType

LEMMA SaveMoves == ASSUME DeliveryInv, NEW t \in Tab, Save(t) PROVE Moves
<1>1. /\ cursor' = [cursor EXCEPT ![dev(t)] = flow[t].cur] /\ SetStatus(t, "syncing")
      /\ UNCHANGED <<now, edits, row, log, tx, web, local, outbox, applied, rewound, timer, raced, faults>>
  BY DEF Save, serverVars
<1>2. PICK p \in {"pull", "mark", "finish"} :
        flow' = [flow EXCEPT ![t].page = {}, ![t].pc = p]
  BY DEF Save
<1>3. Clocks /\ Copies /\ SavedStates
  BY DEF DeliveryInv, TypeInv
<1>4. Clocks' /\ Copies' /\ QueuesMove /\ DOMAIN log \subseteq DOMAIN log'
  BY <1>1, <1>3, FlowTyped, ClocksStay, QueuesStay DEF Copies
<1>5. SavedStates'
  BY <1>1, <1>3, StatusTyped, CursorTyped DEF SavedStates, SyncStatus
<1>6. Flows' /\ flow'[t].pc # "await" /\ \A u \in Tab : u # t => flow'[u] = flow[u]
  <2> DEFINE g == Leafed(flow[t], p, {})
  <2>1. flow' = [flow EXCEPT ![t] = g]
    BY <1>2, FlowTyped DEF Leafed
  <2>2. /\ g \in Flow /\ g.pc = p /\ g.items = flow[t].items /\ g.page = {}
    <3>1. flow[t] \in Flow /\ p \in FlowPc /\ {} \in SUBSET Nat
      BY FlowTyped, Pcs
    <3> QED BY <3>1, SavedRow
  <2> HIDE DEF g
  <2> QED BY <1>4, <2>1, <2>2, FlowTyped, OneFlow
<1> QED BY <1>1, <1>4, <1>5, <1>6, DeviceMoves

LEMMA FinishMoves == ASSUME DeliveryInv, NEW t \in Tab, Finish(t) PROVE Moves
<1>1. /\ cursor' = [cursor EXCEPT ![dev(t)] = flow[t].cur] /\ SetStatus(t, "idle")
      /\ flow' = [flow EXCEPT ![t] = Idle]
      /\ UNCHANGED <<now, edits, row, log, tx, web, local, outbox, applied, rewound, timer, raced, faults>>
  BY DEF Finish, Ends, serverVars
<1>2. Clocks /\ Copies /\ SavedStates
  BY DEF DeliveryInv, TypeInv
<1>3. Clocks' /\ Copies' /\ QueuesMove
  BY <1>1, <1>2, FlowTyped, ClocksStay, QueuesStay DEF Copies
<1>4. SavedStates'
  BY <1>1, <1>2, StatusTyped, CursorTyped DEF SavedStates, SyncStatus
<1>5. Flows' /\ flow'[t].pc # "await" /\ \A u \in Tab : u # t => flow'[u] = flow[u]
  BY <1>1, <1>3, EndsFlow
<1> QED BY <1>1, <1>3, <1>4, <1>5, DeviceMoves

-----------------------------------------------------------------------------
(* Every step *)

\* The steps of users.
LEMMA UserMoves == ASSUME DeliveryInv, User PROVE Moves
<1>1. ASSUME NEW t \in Tab, NEW e \in Entity, NEW op \in {"put", "del"}, Edit(t, e, op) PROVE Moves
  BY <1>1, EditMoves
<1>2. ASSUME NEW e \in Entity, NEW op \in {"put", "del"}, HostedNote(e, op) \/ HostedPosition(e, op)
      PROVE  Moves
  BY <1>2, HostedNoteMoves, HostedPositionMoves
<1>3. ASSUME NEW t \in Tab, SyncNow(t) \/ AcceptRemote(t) \/ Open(t) PROVE Moves
  BY <1>3, StartMoves
<1>4. ASSUME NEW t \in Tab, NEW i \in DOMAIN Items(t), Discard(t, i) PROVE Moves
  BY <1>4, DiscardMoves
<1> QED BY <1>1, <1>2, <1>3, <1>4 DEF User

\* Crashes and lost requests, with what a tab does about them.
LEMMA FaultMoves == ASSUME DeliveryInv, Faults PROVE Moves
<1>1. ASSUME NEW t \in Tab, PushLost(t) PROVE Moves
  BY <1>1, PushFailedMoves DEF PushLost
<1>2. ASSUME NEW t \in Tab, PullLost(t) PROVE Moves
  BY <1>2, PullFailedMoves DEF PullLost
<1> QED BY <1>1, <1>2, TabDiesMoves, PushStepMoves DEF Faults

\* The steps of an operation.
LEMMA FlowStepMoves == ASSUME DeliveryInv, NEW t \in Tab, FlowStep(t) PROVE Moves
<1>1. CASE PushRefused(t)
  BY <1>1, PushFailedMoves DEF PushRefused
<1>2. CASE PullTimesOut(t)
  BY <1>2, PullFailedMoves DEF PullTimesOut
<1>3. CASE Recover(t) \/ List(t) \/ Compact(t) \/ Claim(t) \/ Snapshot(t) \/ Mark(t)
  BY <1>3, RecoverMoves, ListMoves, CompactMoves, ClaimMoves, SnapshotMoves, MarkMoves
<1>4. CASE Send(t) \/ Settle(t) \/ Pull(t) \/ Apply(t) \/ Save(t) \/ Finish(t)
  BY <1>4, SendMoves, SettleMoves, PullMoves, ApplyMoves, SaveMoves, FinishMoves
<1> QED BY <1>1, <1>2, <1>3, <1>4 DEF FlowStep

\* A step that changes nothing.
LEMMA StutterMoves == ASSUME DeliveryInv, UNCHANGED vars PROVE Moves
<1>1. UNCHANGED <<now, edits, faults, row, log, tx, web, local, outbox, cursor, status, applied,
                  rewound, flow, timer, raced>>
  BY DEF vars, serverVars, deviceVars
<1>2. Clocks /\ Queues /\ Copies /\ SavedStates /\ Flows
  BY DEF DeliveryInv, TypeInv
<1>3. QueuesMove /\ Clocks' /\ Copies' /\ SavedStates'
  BY <1>1, <1>2, QueuesStay, ClocksStay DEF Copies, SavedStates
<1>4. Flows'
  BY <1>1, <1>2, <1>3, FlowsStay
<1> QED BY <1>1, <1>3, <1>4, DeviceMoves

LEMMA EveryStepMoves == ASSUME DeliveryInv, [Next]_vars PROVE Moves
<1>1. CASE User
  BY <1>1, UserMoves
<1>2. CASE Faults
  BY <1>2, FaultMoves
<1>3. CASE HostedWrites
  BY <1>3, HostedWritesMoves
<1>4. ASSUME NEW t \in Tab, TimerFires(t) \/ FlowStep(t) \/ PushStep(t) PROVE Moves
  BY <1>4, StartMoves, FlowStepMoves, PushStepMoves
<1>5. ASSUME NEW d \in Device, NEW i \in DOMAIN outbox[d], LeaseExpires(d, i) PROVE Moves
  BY <1>5, LeaseMoves
<1>6. CASE UNCHANGED vars
  BY <1>6, StutterMoves
<1> QED BY <1>1, <1>2, <1>3, <1>4, <1>5, <1>6 DEF Next

LEMMA DeliveryNext == ASSUME DeliveryInv, [Next]_vars PROVE DeliveryInv' /\ Moves /\ LogStep
<1>1. Moves
  BY EveryStepMoves
<1>2. FeedInv' /\ LogStep
  BY FeedNext DEF FeedKept, DeliveryInv, TypeInv
<1>3. TypeInv'
  BY <1>1, <1>2 DEF Moves, TypeInv, QueuesMove
<1>4. \A t \in Tab : Inserted(t)' /\ Delivered(t)'
  BY <1>1 DEF Moves
<1> QED BY <1>1, <1>2, <1>3, <1>4 DEF DeliveryInv

\* Nothing is queued, pushed or logged at first.
LEMMA DeliveryInit == ASSUME Init PROVE DeliveryInv
<1>1. Clocks
  BY DEF Init, Clocks
<1>2. Server
  BY EmptySeq DEF Init, Server, Rows
<1>3. Pushes /\ \A t \in Tab : tx[t].phase = "none"
  BY NoTxWired DEF Init, Pushes
<1>4. Copies
  BY DEF Init, Copies, Copy, Nothing, Rows
<1>5. Queues
  <2>1. <<>> \in Seq(Item)
    BY EmptySeq
  <2> QED BY <2>1 DEF Init, Queues
<1>6. SavedStates
  BY DEF Init, SavedStates, SyncStatus
<1>7. Flows /\ \A t \in Tab : flow[t].pc = "idle"
  BY RestingRows DEF Init, Flows, FlowWired
<1>8. \A t \in Tab : Inserted(t) /\ Delivered(t)
  BY <1>3, <1>7 DEF Inserted, Delivered
<1> QED BY <1>1, <1>2, <1>3, <1>4, <1>5, <1>6, <1>7, <1>8, FeedInit DEF DeliveryInv, TypeInv

LEMMA DeliveryHolds == Spec => []DeliveryInv
<1>1. Init => DeliveryInv
  BY DeliveryInit
<1>2. DeliveryInv /\ [Next]_vars => DeliveryInv'
  BY DeliveryNext
<1> QED BY <1>1, <1>2, PTL DEF Spec

(***************************************************************************)
(* Every table of the server, every database of a device, every push and   *)
(* every operation of a tab keeps its type.                                *)
(***************************************************************************)
THEOREM SyncTypesHold == Spec => []TypeOK
<1>1. DeliveryInv => TypeOK
  BY TypeInvTypes DEF DeliveryInv
<1> QED BY <1>1, DeliveryHolds, PTL

-----------------------------------------------------------------------------
(* What counts as sent *)

\* What may become of an entry of the log: it keeps its event, and stays kept.
LEMMA KeptStays ==
  ASSUME Shape, LogStep, NEW ev, Kept(ev) PROVE Kept(ev)'
<1>1. PICK i \in DOMAIN log : log[i].state = "kept" /\ log[i].ev = ev
  BY DEF Kept
<1>2. i \in DOMAIN log' /\ log'[i].state = "kept"
  BY <1>1, LogShape
<1>3. log'[i].ev = log[i].ev
  <2>1. CASE log' = log
    BY <2>1
  <2>2. ASSUME NEW v, NEW s, NEW t, Logs(v, s, t) PROVE log'[i] = log[i]
    <3> DEFINE e == [ev |-> v, state |-> s, tab |-> t]
    <3>1. log' = Append(log, e)
      BY <2>2 DEF Logs
    <3> HIDE DEF e
    <3>2. DOMAIN log = 1..Len(log) /\ \A k \in 1..Len(log) : Append(log, e)[k] = log[k]
      BY LogAppend DEF Shape
    <3> QED BY <1>1, <3>1, <3>2
  <2>3. ASSUME NEW t, NEW s, log' = Resolved(t, s) PROVE log'[i] = log[i]
    BY <1>1, <2>3 DEF Resolved
  <2> QED BY <2>1, <2>2, <2>3 DEF LogStep
<1> QED BY <1>1, <1>2, <1>3 DEF Kept

\* A later item of the same entity replaces item i.
Replaced(d, i) ==
  /\ outbox[d][i].ev.ent \in Position
  /\ \E j \in i + 1 .. Len(outbox[d]) : /\ outbox[d][j].ev.ent = outbox[d][i].ev.ent
                                        /\ outbox[d][j].ev.op = "put"

LEMMA ReplacedStays ==
  ASSUME Queues, NEW d \in Device, OutboxMoves(d), NEW i \in DOMAIN outbox[d], Replaced(d, i)
  PROVE  Replaced(d, i)'
<1>1. /\ DOMAIN outbox[d] = 1..Len(outbox[d]) /\ Len(outbox[d]) \in Nat
      /\ DOMAIN outbox'[d] = 1..Len(outbox'[d]) /\ Len(outbox'[d]) \in Nat
  BY OutboxTyped, LenProperties DEF OutboxMoves
<1>2. PICK j \in i + 1 .. Len(outbox[d]) : /\ outbox[d][j].ev.ent = outbox[d][i].ev.ent
                                           /\ outbox[d][j].ev.op = "put"
  BY DEF Replaced
<1>3. j \in DOMAIN outbox[d] /\ j \in i + 1 .. Len(outbox'[d])
  BY <1>1, <1>2 DEF OutboxMoves
<1>4. outbox'[d][i].ev = outbox[d][i].ev /\ outbox'[d][j].ev = outbox[d][j].ev
  BY <1>3 DEF OutboxMoves, Rewrites
<1> QED BY <1>2, <1>3, <1>4 DEF Replaced

\* Of the items a tab has listed, a superseded one is replaced.
LEMMA SupersededReplaced ==
  ASSUME DeliveryInv, NEW t \in Tab, NEW i \in Superseded(t) PROVE Replaced(dev(t), i)
<1> DEFINE d == dev(t)
<1>1. PICK j \in flow[t].items : /\ j > i /\ outbox[d][i].ev.ent \in Position
                                 /\ outbox[d][j].ev.ent = outbox[d][i].ev.ent /\ outbox[d][j].ev.op = "put"
  BY DEF Superseded, Items
<1>2. i \in DOMAIN outbox[d] /\ j \in DOMAIN outbox[d]
  BY FlowTyped DEF Superseded
<1>3. DOMAIN outbox[d] = 1..Len(outbox[d]) /\ Len(outbox[d]) \in Nat
  BY DevType, OutboxTyped DEF DeliveryInv, TypeInv
<1>4. j \in i + 1 .. Len(outbox[d])
  BY <1>1, <1>2, <1>3
<1> QED BY <1>1, <1>4 DEF Replaced

\* When a tab has its answer the log keeps every event that was not refused: the
\* push has none left to do, and wrote nothing that is not committed.
LEMMA AnsweredKept ==
  ASSUME DeliveryInv, NEW t \in Tab, Answered(t), NEW i \in flow[t].items, Items(t)[i].ev \notin tx[t].bad
  PROVE  Kept(Items(t)[i].ev)
<1> DEFINE ev == Items(t)[i].ev
<1>1. Held(t, ev)
  BY DEF Answered, DeliveryInv, Delivered
<1>2. tx[t].todo = <<>>
  BY DEF Answered, DeliveryInv, TypeInv, Pushes, TxWired
<1>3. DOMAIN tx[t].todo = {}
  BY <1>2
<1>4. Logged(t, ev)
  BY <1>1, <1>3 DEF Held
<1>5. PICK k \in DOMAIN log : /\ log[k].ev = ev
                              /\ log[k].state = "kept" \/ (log[k].state = "open" /\ log[k].tab = t)
  BY <1>4 DEF Logged, Seen
<1>6. ~(log[k].state = "open" /\ log[k].tab = t)
  <2>1. ~tx[t].writer
    BY DEF Answered, Running, DeliveryInv, TypeInv, FeedInv, WriterRuns
  <2> QED BY <2>1 DEF DeliveryInv, TypeInv, FeedInv, OpenIsWritten
<1> QED BY <1>5, <1>6 DEF Kept

\* Item i of device d has not disappeared.
Found(d, i) == outbox[d][i].dropped \/ Kept(outbox[d][i].ev) \/ Replaced(d, i)

LEMMA FoundIsNotLost ==
  SentIsNotLost <=>
    \A d \in Device : \A i \in DOMAIN outbox[d] : outbox[d][i].status = "sent" => Found(d, i)
BY DEF SentIsNotLost, Found, Replaced

LEMMA FoundStays ==
  ASSUME DeliveryInv, LogStep, NEW d \in Device, OutboxMoves(d), NEW i \in DOMAIN outbox[d], Found(d, i)
  PROVE  Found(d, i)'
<1>1. outbox'[d][i].ev = outbox[d][i].ev /\ (outbox[d][i].dropped => outbox'[d][i].dropped)
  BY DEF OutboxMoves, Rewrites
<1>2. CASE outbox[d][i].dropped
  BY <1>1, <1>2 DEF Found
<1>3. ASSUME Kept(outbox[d][i].ev) PROVE Found(d, i)'
  <2>1. PICK ev : ev = outbox[d][i].ev
    OBVIOUS
  <2>2. Kept(ev)'
    BY <1>3, <2>1, KeptStays DEF DeliveryInv, TypeInv, FeedInv
  <2>3. outbox'[d][i].ev = ev
    BY <1>1, <2>1
  <2> QED BY <2>2, <2>3 DEF Found
<1>4. CASE Replaced(d, i)
  BY <1>4, ReplacedStays DEF Found, DeliveryInv, TypeInv
<1> QED BY <1>2, <1>3, <1>4 DEF Found

LEMMA SentNext ==
  ASSUME DeliveryInv, SentIsNotLost, [Next]_vars PROVE SentIsNotLost'
<1>1. Moves /\ LogStep
  BY DeliveryNext
<1>2. ASSUME NEW d \in Device, NEW i \in DOMAIN outbox'[d], outbox'[d][i].status = "sent"
      PROVE  Found(d, i)'
  <2>1. OutboxMoves(d)
    BY <1>1 DEF Moves, QueuesMove
  <2>2. i \in DOMAIN outbox[d]
    BY <1>2, <2>1 DEF OutboxMoves
  <2>3. Rewrites(d, i, outbox'[d][i])
    BY <2>1, <2>2 DEF OutboxMoves
  <2>4. CASE outbox[d][i].status = "sent"
    BY <1>1, <2>1, <2>2, <2>4, FoundIsNotLost, FoundStays
  <2>5. CASE outbox'[d][i].dropped
    BY <2>5 DEF Found
  <2>6. ASSUME NEW t \in Tab, dev(t) = d, i \in flow[t].items,
               (Answered(t) /\ outbox[d][i].ev \notin tx[t].bad) \/ i \in Superseded(t)
        PROVE  Found(d, i)'
    <3>1. Answered(t) /\ outbox[d][i].ev \notin tx[t].bad => Kept(outbox[d][i].ev)
      BY <2>6, AnsweredKept DEF Items
    <3>2. i \in Superseded(t) => Replaced(d, i)
      BY <2>6, SupersededReplaced
    <3>3. Found(d, i)
      BY <2>6, <3>1, <3>2 DEF Found
    <3> QED BY <1>1, <2>1, <2>2, <3>3, FoundStays
  <2> QED BY <1>2, <2>3, <2>4, <2>5, <2>6 DEF Rewrites, Sends
<1> QED BY <1>2, FoundIsNotLost DEF SentIsNotLost, Found, Replaced

(***************************************************************************)
(* No item that counts as sent is lost, for every number of devices and    *)
(* tabs and every interleaving of their flushes: a lease that runs out, a  *)
(* request or an answer that is lost, another tab that sends the item      *)
(* again and a tab that settles what it no longer owns included.           *)
(***************************************************************************)
THEOREM SentIsNeverLost == Spec => []SentIsNotLost
<1>1. Init => SentIsNotLost
  <2>1. Init => \A d \in Device : DOMAIN outbox[d] = {}
    BY DEF Init
  <2> QED BY <2>1 DEF SentIsNotLost
<1>2. DeliveryInv /\ SentIsNotLost /\ [Next]_vars => SentIsNotLost'
  BY SentNext
<1> QED BY <1>1, <1>2, DeliveryHolds, PTL DEF Spec

=============================================================================
