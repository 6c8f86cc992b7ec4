------------------------ MODULE BookWorkflow_proofs ------------------------
(***************************************************************************)
(* The book AI workflow, for any number of workflows, windows, requests,   *)
(* callbacks and passes and every value of the bounds: children follow the *)
(* plan, a cancelled workflow leaves no child, a settled one stays, what   *)
(* failed runs again only on a retry, and success means readiness, with    *)
(* the exceptions the properties name.                                     *)
(***************************************************************************)
EXTENDS BookWorkflow, FiniteSetTheorems, WellFoundedInduction, TLAPS

\* What a process needs to know of itself to go on.
Fit(x) ==
  /\ x.pc \notin {"idle", "next"} => x.wf \in Workflow
  /\ x.pc \in {"fail", "repair", "admit", "reload"} => x.target \in Job
  /\ x.pc = "repair" => x.target.stage = "label" /\ x.target.wf = x.wf
  /\ x.pc = "enqueue" => x.target \in Item
  /\ x.pc \in {"mark", "retry"} => x.goal = "retry"
  /\ x.pc \in {"idle", "next"} => x.todo = {}
  /\ \A r \in x.todo : r.job.wf = x.wf

Wired(p) == Fit(proc[p]) /\ (proc[p].goal = "retry" => p \in Task /\ retries > 0)

\* The links of a workflow are its own children; a window has one, repairs apart.
LinksOK(w) ==
  /\ \A j \in link[w] : j.wf = w /\ child[j].status # "absent" /\ j.graph <= book.graph
  /\ \A j, k \in link[w] : j.stage = k.stage /\ j.n = k.n /\ j.stage # "repair" => j = k

TypeInv == TypeOK /\ (\A p \in Proc : Wired(p)) /\ (\A w \in Workflow : LinksOK(w))

Has(w, stage, n) == \E j \in link[w] : j.stage = stage /\ j.n = n

\* What the plan asks for before a child of a stage and window is linked.
Planned(w, stage, n) ==
  /\ stage = "bundle" => \A m \in 1 .. n - 1 : HasLanded(w, {"bundle"}, m) /\ Has(w, "bundle", m)
  /\ stage # "bundle" => \A m \in 1 .. BundleWindows : HasLanded(w, {"bundle"}, m)
  /\ stage \in {"label", "repair"} =>
       /\ HasLanded(w, {"merge"}, 1)
       /\ \A m \in 1 .. n - 1 : HasLanded(w, {"label", "repair"}, m)

\* What a process has decided to link stays in order.
Decided(p) ==
  LET x == proc[p] IN
  /\ x.pc = "enqueue" => Planned(x.wf, x.target.stage, x.target.n)
  /\ x.pc = "repair" => Planned(x.wf, "repair", x.target.n)

PlanInv ==
  /\ \A j \in Job : child[j].status = "succeeded" => j \in landed
  /\ \A w \in Workflow : \A j \in link[w] : Planned(w, j.stage, j.n)
  /\ \A p \in Proc : Decided(p)

\* A child that was ever queued is linked, or one of a later graph in its place.
Replaced ==
  \A j \in Job : child[j].status # "absent" =>
    \E k \in link[j.wf] : k.stage = j.stage /\ k.n = j.n /\ k.graph >= j.graph

\* What may still be under way for a workflow that settled undisturbed.
Idles(x, s) ==
  \/ x.pc \in {"idle", "next", "cancel", "reload"}
  \/ x.pc \in {"admit", "retry"} /\ x.todo = {}
  \/ x.pc \in {"links", "mark"} /\ x.goal = "retry" /\ s = "needs_review"

Undisturbed ==
  \A w \in Workflow \ raced : wf[w].status \in {"needs_review", "succeeded", "cancelled"} =>
    \A p \in Proc : proc[p].wf = w => Idles(proc[p], wf[w].status)

Labelled == book.labelled = 1 .. LabelWindows /\ book.voices

SeenReady == \A p \in Proc : proc[p].pc = "ready" /\ ~proc[p].overtaken => Labelled

-----------------------------------------------------------------------------
(* Children and windows *)

LEMMA ItemIs ==
  ASSUME NEW s \in Stage, NEW n \in Windows(s) PROVE [stage |-> s, n |-> n] \in Item
BY DEF Item

LEMMA ItemFields ==
  ASSUME NEW x \in Item PROVE x = [stage |-> x.stage, n |-> x.n] /\ x.stage \in Stage /\ x.n \in Windows(x.stage)
<1>1. PICK s \in Stage : x \in [stage : {s}, n : Windows(s)]
  BY DEF Item
<1> QED BY <1>1

LEMMA JobIs ==
  ASSUME NEW w \in Workflow, NEW s \in Stage, NEW n \in Windows(s), NEW g \in 0 .. MaxGraph
  PROVE  [wf |-> w, stage |-> s, n |-> n, graph |-> g] \in Job
<1> DEFINE x == [stage |-> s, n |-> n]
<1>1. x \in UNION {[stage : {r}, n : Windows(r)] : r \in Stage}
  OBVIOUS
<1>2. x.stage = s /\ x.n = n
  OBVIOUS
<1> HIDE DEF x
<1> QED BY <1>1, <1>2 DEF Job

LEMMA JobFields ==
  ASSUME NEW j \in Job
  PROVE  /\ j = [wf |-> j.wf, stage |-> j.stage, n |-> j.n, graph |-> j.graph]
         /\ j.wf \in Workflow /\ j.stage \in Stage /\ j.n \in Windows(j.stage) /\ j.graph \in 0 .. MaxGraph
<1>1. PICK w \in Workflow, g \in 0 .. MaxGraph, x \in UNION {[stage : {s}, n : Windows(s)] : s \in Stage} :
        j = [wf |-> w, stage |-> x.stage, n |-> x.n, graph |-> g]
  BY DEF Job
<1>2. x \in Item
  BY DEF Item
<1>3. x.stage \in Stage /\ x.n \in Windows(x.stage)
  BY <1>2, ItemFields
<1> QED BY <1>1, <1>3

LEMMA WindowsAre ==
  /\ Windows("bundle") = 1 .. BundleWindows /\ Windows("merge") = {1}
  /\ Windows("label") = 1 .. LabelWindows /\ Windows("repair") = 1 .. LabelWindows
  /\ \A s : Windows(s) \subseteq Nat \ {0}
BY WorkflowConstants DEF Windows

\* A set of numbers, and one of children, has a first.
LEMMA Smallest == ASSUME NEW T \in SUBSET Nat, T # {} PROVE \E n \in T : \A m \in T : n <= m
<1>1. PICK n \in T : \A m \in T : ~ (<<m, n>> \in OpToRel(<, Nat))
  BY NatLessThanWellFounded, WFMin
<1>2. \A m \in T : ~ (m < n)
  BY <1>1 DEF OpToRel
<1> QED BY <1>2

LEMMA FirstIs == ASSUME NEW js \in SUBSET Job, js # {} PROVE First(js) \in js
<1> DEFINE T == {j.n : j \in js}
<1>1. T \in SUBSET Nat /\ T # {}
  BY JobFields, WindowsAre
<1>2. PICK n \in T : \A m \in T : n <= m
  <2> HIDE DEF T
  <2> QED BY <1>1, Smallest
<1>3. \E j \in js : \A k \in js : j.n <= k.n
  BY <1>2
<1> QED BY <1>3 DEF First

LEMMA NextWindowIs ==
  ASSUME NEW T \in SUBSET (1 .. LabelWindows), T # {} PROVE NextWindow(T) \in T /\ \A m \in T : NextWindow(T) <= m
<1>1. \E n \in T : \A m \in T : n <= m
  BY Smallest, WorkflowConstants
<1> QED BY <1>1 DEF NextWindow

-----------------------------------------------------------------------------
(* What the links ask for *)

Repaired(w) == {j.n : j \in Succeeded(Linked(w, "repair"))}
Broken(w)   == Failed({j \in Linked(w, "label") : j.n \notin Repaired(w)})
Todo(w)     == (1 .. LabelWindows) \ (Repaired(w) \cup {j.n : j \in Succeeded(Linked(w, "label"))})
Count(w)    == Cardinality(Linked(w, "bundle"))

Merging(w)  == ~Holds(Linked(w, "bundle")) /\ ~(Count(w) < BundleWindows)
Labelling(w) == Merging(w) /\ Linked(w, "merge") # {} /\ ~Holds(Linked(w, "merge")) /\ ~Holds(Linked(w, "repair"))

LEMMA NextStepCases ==
  ASSUME NEW w
  PROVE  LET s == NextStep(w) IN
    \/ \E stage \in Stage : Holds(Linked(w, stage)) /\ s = Held(Linked(w, stage))
    \/ ~Holds(Linked(w, "bundle")) /\ Count(w) < BundleWindows /\ s = Enqueues("bundle", Count(w) + 1)
    \/ Merging(w) /\ Linked(w, "merge") = {} /\ s = Enqueues("merge", 1)
    \/ /\ Labelling(w) /\ Broken(w) # {}
       /\ s = Decides(IF child[First(Broken(w))].status = "failed" /\ child[First(Broken(w))].delegated
                      THEN "repair" ELSE "fail", First(Broken(w)))
    \/ Labelling(w) /\ Broken(w) = {} /\ Todo(w) # {} /\ s = Enqueues("label", NextWindow(Todo(w)))
    \/ s = Decides("verify", None)
<1> DEFINE s == NextStep(w)
<1>1. s = IF Holds(Linked(w, "bundle")) THEN Held(Linked(w, "bundle"))
          ELSE IF Count(w) < BundleWindows THEN Enqueues("bundle", Count(w) + 1)
          ELSE IF Linked(w, "merge") = {} THEN Enqueues("merge", 1)
          ELSE IF Holds(Linked(w, "merge")) THEN Held(Linked(w, "merge"))
          ELSE IF Holds(Linked(w, "repair")) THEN Held(Linked(w, "repair"))
          ELSE IF Broken(w) # {} THEN
            Decides(IF child[First(Broken(w))].status = "failed" /\ child[First(Broken(w))].delegated
                    THEN "repair" ELSE "fail", First(Broken(w)))
          ELSE IF Pending(Linked(w, "label")) # {} THEN Held(Linked(w, "label"))
          ELSE IF Todo(w) # {} THEN Enqueues("label", NextWindow(Todo(w)))
          ELSE Decides("verify", None)
  BY DEF NextStep, Count, Broken, Todo, Repaired
<1>2. Pending(Linked(w, "label")) # {} => Holds(Linked(w, "label"))
  BY DEF Holds
<1>3. "bundle" \in Stage /\ "merge" \in Stage /\ "label" \in Stage /\ "repair" \in Stage
  BY DEF Stage
<1> HIDE DEF s
<1> SUFFICES ASSUME s # Decides("verify", None),
                    \A stage \in Stage : ~(Holds(Linked(w, stage)) /\ s = Held(Linked(w, stage)))
             PROVE
    \/ ~Holds(Linked(w, "bundle")) /\ Count(w) < BundleWindows /\ s = Enqueues("bundle", Count(w) + 1)
    \/ Merging(w) /\ Linked(w, "merge") = {} /\ s = Enqueues("merge", 1)
    \/ /\ Labelling(w) /\ Broken(w) # {}
       /\ s = Decides(IF child[First(Broken(w))].status = "failed" /\ child[First(Broken(w))].delegated
                      THEN "repair" ELSE "fail", First(Broken(w)))
    \/ Labelling(w) /\ Broken(w) = {} /\ Todo(w) # {} /\ s = Enqueues("label", NextWindow(Todo(w)))
  BY DEF s
<1>4. ~Holds(Linked(w, "bundle"))
  BY <1>1, <1>3
<1>5. CASE Count(w) < BundleWindows
  BY <1>1, <1>4, <1>5
<1>6. CASE ~(Count(w) < BundleWindows) /\ Linked(w, "merge") = {}
  BY <1>1, <1>4, <1>6 DEF Merging
<1>7. CASE ~(Count(w) < BundleWindows) /\ Linked(w, "merge") # {}
  <2>1. ~Holds(Linked(w, "merge")) /\ ~Holds(Linked(w, "repair"))
    BY <1>1, <1>3, <1>4, <1>7
  <2>2. Labelling(w)
    BY <1>4, <1>7, <2>1 DEF Labelling, Merging
  <2>3. CASE Broken(w) # {}
    BY <1>1, <1>4, <1>7, <2>1, <2>2, <2>3
  <2>4. CASE Broken(w) = {}
    <3>1. Pending(Linked(w, "label")) = {}
      BY <1>1, <1>2, <1>3, <1>4, <1>7, <2>1, <2>4
    <3>2. s = IF Todo(w) # {} THEN Enqueues("label", NextWindow(Todo(w))) ELSE Decides("verify", None)
      BY <1>1, <1>4, <1>7, <2>1, <2>4, <3>1
    <3> QED BY <2>2, <2>4, <3>2
  <2> QED BY <2>3, <2>4
<1> QED BY <1>5, <1>6, <1>7

\* The bundles of a workflow that are linked are as many as their numbers.
LEMMA BundleNumbers ==
  ASSUME TypeInv, NEW w \in Workflow
  PROVE  \E N \in SUBSET (1 .. BundleWindows) :
           /\ N = {j.n : j \in Linked(w, "bundle")}
           /\ IsFiniteSet(N) /\ Cardinality(N) = Count(w) /\ Count(w) \in Nat
<1> DEFINE js == Linked(w, "bundle")
           N == {j.n : j \in js}
           f == [j \in js |-> j.n]
<1>1. \A j \in js : j \in Job /\ j.stage = "bundle" /\ j.n \in 1 .. BundleWindows
  BY JobFields, WindowsAre DEF TypeInv, TypeOK, Linked
<1>2. N \in SUBSET (1 .. BundleWindows)
  BY <1>1
<1>3. IsFiniteSet(N)
  <2>1. IsFiniteSet(1 .. BundleWindows)
    BY FS_Interval, WorkflowConstants
  <2> HIDE DEF N
  <2> QED BY <1>2, <2>1, FS_Subset
<1>4. \A j, k \in js : j.n = k.n => j = k
  BY <1>1 DEF TypeInv, LinksOK, Linked
<1>5. f \in Bijection(js, N)
  <2>1. f \in [js -> N]
    OBVIOUS
  <2>2. \A j, k \in js : f[j] = f[k] => j = k
    BY <1>4
  <2>3. \A n \in N : \E j \in js : f[j] = n
    OBVIOUS
  <2> HIDE DEF f, N, js
  <2> QED BY <2>1, <2>2, <2>3 DEF Bijection, Injection, Surjection, IsInjective
<1>6. IsFiniteSet(js) /\ Cardinality(js) = Cardinality(N)
  <2> HIDE DEF f, N, js
  <2>1. IsFiniteSet(js)
    BY <1>3, <1>5, FS_Injection DEF Bijection
  <2> QED BY <1>5, <2>1, FS_Bijection DEF ExistsBijection
<1>7. Cardinality(js) \in Nat
  BY <1>6, FS_CardinalityType
<1> QED BY <1>2, <1>3, <1>6, <1>7 DEF Count

\* A set of numbers without gaps from 1 is an interval.
LEMMA NoGaps ==
  ASSUME NEW N \in SUBSET Nat, IsFiniteSet(N), \A n \in N : n # 0 /\ \A m \in 1 .. n - 1 : m \in N
  PROVE  1 .. Cardinality(N) \subseteq N /\ Cardinality(N) + 1 \notin N
<1> DEFINE c == Cardinality(N)
<1>1. c \in Nat
  BY FS_CardinalityType
<1>2. ASSUME NEW m \in 1 .. c, m \notin N PROVE FALSE
  <2>1. \A n \in N : n \in 1 .. m - 1
    <3> SUFFICES ASSUME NEW n \in N, n >= m PROVE FALSE
      BY <1>1
    <3>1. m # n
      BY <1>2
    <3> QED BY <1>1, <1>2, <3>1
  <2> DEFINE k == m - 1
  <2>2. k \in Int /\ 1 \in Int /\ k >= 0 /\ k < c
    BY <1>1, <1>2
  <2>3. N \in SUBSET (1 .. k)
    BY <2>1
  <2> HIDE DEF k
  <2>4. IsFiniteSet(1 .. k) /\ Cardinality(1 .. k) = k
    BY <2>2, FS_Interval
  <2>5. Cardinality(N) <= k
    BY <2>3, <2>4, FS_Subset, ZenonT(40)
  <2> QED BY <1>1, <2>2, <2>5
<1>3. ASSUME c + 1 \in N PROVE FALSE
  <2>1. 1 .. c + 1 \subseteq N
    BY <1>1, <1>3
  <2>2. Cardinality(1 .. c + 1) = c + 1
    BY <1>1, FS_Interval
  <2>3. Cardinality(1 .. c + 1) <= c
    BY <2>1, FS_Subset
  <2> QED BY <1>1, <2>2, <2>3
<1> QED BY <1>2, <1>3

\* What it decides has the type the step that follows expects.
LEMMA NextStepType ==
  ASSUME TypeInv, NEW w \in Workflow
  PROVE  LET s == NextStep(w) IN
         /\ s.do \in {"enqueue", "fail", "progress", "repair", "verify"}
         /\ s.do = "fail" => s.target \in Job
         /\ s.do = "repair" => s.target \in Linked(w, "label")
         /\ s.do = "enqueue" => s.target \in Item
         /\ s.do \in {"progress", "verify"} => s.target = None
<1> DEFINE s == NextStep(w)
<1>0. link[w] \in SUBSET Job
  BY DEF TypeInv, TypeOK
<1>1. ASSUME NEW stage \in Stage, s = Held(Linked(w, stage))
      PROVE  (s.do = "progress" /\ s.target = None) \/ (s.do = "fail" /\ s.target \in Job)
  <2>1. CASE Failed(Linked(w, stage)) # {}
    <3>1. Failed(Linked(w, stage)) \in SUBSET Job
      BY <1>0 DEF Failed, Linked
    <3>2. First(Failed(Linked(w, stage))) \in Job
      BY <2>1, <3>1, FirstIs
    <3> QED BY <1>1, <2>1, <3>2 DEF Held, Decides
  <2>2. CASE Failed(Linked(w, stage)) = {}
    BY <1>1, <2>2 DEF Held, Decides
  <2> QED BY <2>1, <2>2
<1>2. ASSUME Count(w) < BundleWindows, s = Enqueues("bundle", Count(w) + 1)
      PROVE  s.do = "enqueue" /\ s.target \in Item
  <2>1. Count(w) + 1 \in Windows("bundle") /\ "bundle" \in Stage
    BY <1>2, BundleNumbers, WindowsAre, WorkflowConstants DEF Stage
  <2> QED BY <1>2, <2>1, ItemIs DEF Enqueues, Decides
<1>3. ASSUME s = Enqueues("merge", 1) PROVE s.do = "enqueue" /\ s.target \in Item
  <2>1. 1 \in Windows("merge") /\ "merge" \in Stage
    BY WindowsAre DEF Stage
  <2> QED BY <1>3, <2>1, ItemIs DEF Enqueues, Decides
<1>4. ASSUME Broken(w) # {}, NEW do \in {"repair", "fail"}, s = Decides(do, First(Broken(w)))
      PROVE  s.do = do /\ s.target \in Linked(w, "label") /\ s.target \in Job
  <2>1. Broken(w) \in SUBSET Job /\ Broken(w) \subseteq Linked(w, "label")
    BY <1>0 DEF Broken, Failed, Linked
  <2>2. First(Broken(w)) \in Broken(w)
    BY <1>4, <2>1, FirstIs
  <2> QED BY <1>4, <2>1, <2>2 DEF Decides
<1>5. ASSUME Todo(w) # {}, s = Enqueues("label", NextWindow(Todo(w)))
      PROVE  s.do = "enqueue" /\ s.target \in Item
  <2>1. Todo(w) \in SUBSET (1 .. LabelWindows)
    BY DEF Todo
  <2>2. NextWindow(Todo(w)) \in Windows("label") /\ "label" \in Stage
    BY <1>5, <2>1, NextWindowIs, WindowsAre DEF Stage
  <2> QED BY <1>5, <2>2, ItemIs DEF Enqueues, Decides
<1>6. ASSUME s = Decides("verify", None) PROVE s.do = "verify" /\ s.target = None
  BY <1>6 DEF Decides
<1>7. \/ \E stage \in Stage : s = Held(Linked(w, stage))
      \/ Count(w) < BundleWindows /\ s = Enqueues("bundle", Count(w) + 1)
      \/ s = Enqueues("merge", 1)
      \/ Broken(w) # {} /\ \E do \in {"repair", "fail"} : s = Decides(do, First(Broken(w)))
      \/ Todo(w) # {} /\ s = Enqueues("label", NextWindow(Todo(w)))
      \/ s = Decides("verify", None)
  <2> HIDE DEF s
  <2> QED BY NextStepCases DEF s
<1> HIDE DEF s
<1>8. /\ s.do \in {"enqueue", "fail", "progress", "repair", "verify"}
      /\ s.do = "fail" => s.target \in Job
      /\ s.do = "repair" => s.target \in Linked(w, "label")
      /\ s.do = "enqueue" => s.target \in Item
      /\ s.do \in {"progress", "verify"} => s.target = None
  BY <1>1, <1>2, <1>3, <1>4, <1>5, <1>6, <1>7
<1> QED BY <1>8 DEF s

-----------------------------------------------------------------------------
(* Types *)

ChildMoves ==
  /\ child' \in [Job -> ChildRow]
  /\ \A j \in Job : child[j].status # "absent" => child'[j].status # "absent"

RowsMove == wf' \in [Workflow -> WorkflowRow] /\ landed' \subseteq Job /\ raced' \subseteq Workflow

CountersMove ==
  /\ retries' \in 0 .. MaxRetries /\ upsets' \in 0 .. MaxUpsets /\ edits' \in 0 .. MaxEdits
  /\ retries <= retries'

BookMoves == book' \in Book /\ book.graph <= book'.graph

ProcsMove == proc' \in [Proc -> Process] /\ \A p \in Proc : Wired(p)'

LinksMove == link' \in [Workflow -> SUBSET Job] /\ \A w \in Workflow : LinksOK(w)'

LEMMA MovesType ==
  ASSUME ChildMoves, RowsMove, CountersMove, BookMoves, ProcsMove, LinksMove PROVE TypeInv'
BY DEF ChildMoves, RowsMove, CountersMove, BookMoves, ProcsMove, LinksMove, TypeInv, TypeOK

LEMMA SameRows == ASSUME TypeInv, UNCHANGED <<wf, landed, raced>> PROVE RowsMove
BY DEF TypeInv, TypeOK, RowsMove

LEMMA SameChildren == ASSUME TypeInv, UNCHANGED child PROVE ChildMoves
BY DEF TypeInv, TypeOK, ChildMoves

LEMMA SameCounters == ASSUME TypeInv, UNCHANGED <<retries, upsets, edits>> PROVE CountersMove
BY WorkflowConstants DEF TypeInv, TypeOK, CountersMove

LEMMA SameBook == ASSUME TypeInv, UNCHANGED book PROVE BookMoves
BY WorkflowConstants DEF TypeInv, TypeOK, BookMoves, Book

LEMMA SameProcs == ASSUME TypeInv, UNCHANGED proc, CountersMove PROVE ProcsMove
BY WorkflowConstants DEF TypeInv, TypeOK, ProcsMove, CountersMove, Wired, Fit

LEMMA SameLinks == ASSUME TypeInv, UNCHANGED link, ChildMoves, BookMoves PROVE LinksMove
<1>1. link \in [Workflow -> SUBSET Job] /\ book.graph \in Nat /\ book'.graph \in Nat
  BY WorkflowConstants DEF TypeInv, TypeOK, BookMoves, Book
<1>2. ASSUME NEW w \in Workflow, NEW j \in link[w]
      PROVE  j.wf = w /\ child'[j].status # "absent" /\ j.graph <= book'.graph
  <2>1. j \in Job /\ j.wf = w /\ child[j].status # "absent" /\ j.graph <= book.graph
    BY <1>1, <1>2 DEF TypeInv, LinksOK
  <2>2. j.graph \in Nat
    BY <2>1, JobFields, WorkflowConstants
  <2> QED BY <1>1, <2>1, <2>2 DEF ChildMoves, BookMoves
<1> QED BY <1>1, <1>2 DEF LinksMove, TypeInv, LinksOK

LEMMA OneMoves ==
  ASSUME TypeInv, CountersMove, NEW p \in Proc, NEW x \in Process, proc' = [proc EXCEPT ![p] = x],
         Fit(x), x.goal = "retry" => p \in Task /\ retries' > 0
  PROVE  ProcsMove
<1>1. proc' \in [Proc -> Process] /\ proc'[p] = x /\ \A q \in Proc : q # p => proc'[q] = proc[q]
  BY DEF TypeInv, TypeOK
<1>2. ASSUME NEW q \in Proc PROVE Wired(q)'
  <2>1. CASE q = p
    BY <1>1, <2>1 DEF Wired, Fit
  <2>2. CASE q # p
    BY <1>1, <2>2, WorkflowConstants DEF TypeInv, TypeOK, Wired, Fit, CountersMove
  <2> QED BY <2>1, <2>2
<1> QED BY <1>1, <1>2 DEF ProcsMove

LEMMA NoProcessType == NoProcess \in Process /\ Fit(NoProcess) /\ NoProcess.goal = "advance"
BY DEF NoProcess, Process, Pc, Fit

LEMMA GoesOnType ==
  ASSUME NEW ws \in SUBSET Workflow PROVE GoesOn(ws) \in Process /\ Fit(GoesOn(ws)) /\ GoesOn(ws).goal = "advance"
BY NoProcessType DEF GoesOn, NoProcess, Process, Pc, Fit

LEMMA ReadingType ==
  ASSUME TypeInv, NEW w \in Workflow, NEW goal \in {"advance", "start", "retry"}
  PROVE  Reading(w, goal) \in Process /\ Fit(Reading(w, goal)) /\ Reading(w, goal).goal = goal
         /\ Reading(w, goal).pc = "links" /\ Reading(w, goal).wf = w
<1>1. wf[w].failed \in Job \cup {None} /\ wf[w].missing \in SUBSET (1 .. LabelWindows)
  BY DEF TypeInv, TypeOK, WorkflowRow
<1> QED BY <1>1 DEF Reading, NoProcess, Process, Pc, Fit

LEMMA ProcessType ==
  ASSUME TypeInv, NEW p \in Proc
  PROVE  /\ proc[p] \in Process /\ Fit(proc[p]) /\ (proc[p].goal = "retry" => p \in Task /\ retries > 0)
         /\ proc[p].pass \in SUBSET Workflow /\ proc[p].failed \in Job \cup {None}
         /\ proc[p].missing \in SUBSET (1 .. LabelWindows) /\ proc[p].goal \in {"advance", "start", "retry"}
<1>1. proc[p] \in Process /\ Wired(p)
  BY DEF TypeInv, TypeOK
<1> QED BY <1>1 DEF Wired, Process

LEMMA DoneMoves == ASSUME TypeInv, CountersMove, NEW p \in Proc, Done(p) PROVE ProcsMove
BY ProcessType, GoesOnType, OneMoves DEF Done

LEMMA ThrowMoves == ASSUME TypeInv, CountersMove, NEW p \in Proc, Throw(p) PROVE ProcsMove
BY NoProcessType, OneMoves DEF Throw

LEMMA AdvancesMoves ==
  ASSUME TypeInv, CountersMove, NEW p \in Proc, NEW w \in Workflow, Advances(p, w) PROVE ProcsMove
<1> DEFINE pass == proc[p].pass \ {w}
           x == [Reading(w, "advance") EXCEPT !.pass = pass]
<1>1. pass \in SUBSET Workflow
  BY ProcessType
<1> HIDE DEF pass
<1>2. x \in Process /\ Fit(x) /\ x.goal = "advance"
  BY <1>1, ReadingType DEF Process, Fit
<1>3. proc' = [proc EXCEPT ![p] = IF wf[w].status = "running" THEN x ELSE GoesOn(pass)]
  BY DEF Advances, pass
<1> HIDE DEF x
<1> QED BY <1>1, <1>2, <1>3, GoesOnType, OneMoves

LEMMA WrittenMoves ==
  ASSUME TypeInv, NEW p \in Proc, proc[p].pc \notin {"idle", "next"}, NEW status \in WorkflowStatus,
         NEW failed \in Job \cup {None}, Written(p, status, failed)
  PROVE  wf' \in [Workflow -> WorkflowRow]
<1>1. proc[p].wf \in Workflow /\ proc[p].missing \in SUBSET (1 .. LabelWindows)
  BY ProcessType DEF Fit
<1> QED BY <1>1, ZenonT(40) DEF Written, TypeInv, TypeOK, WorkflowRow

LEMMA RacesMoves == ASSUME TypeInv, NEW q, NEW ws \in SUBSET Workflow, Races(q, ws) PROVE raced' \subseteq Workflow
BY DEF TypeInv, TypeOK, Races

\* Steps that move one process and nothing else.
LEMMA ProcessStepType ==
  ASSUME TypeInv, Unaltered, ProcsMove PROVE TypeInv'
BY SameRows, SameChildren, SameCounters, SameBook, SameLinks, MovesType DEF Unaltered

LEMMA BeginsType ==
  ASSUME TypeInv, NEW p \in Proc, NEW w \in Workflow,
         UserCancels(p, w) \/ WorkerAdvances(p, w) \/ PassBegins(p) \/ PassNext(p)
  PROVE  TypeInv'
<1>0. Unaltered /\ CountersMove
  BY SameCounters DEF UserCancels, WorkerAdvances, PassBegins, PassNext, Unaltered
<1>1. CASE UserCancels(p, w)
  <2> DEFINE x == [proc[p] EXCEPT !.pc = "cancel", !.wf = w]
  <2>0. proc[p].pc = "idle"
    BY <1>1 DEF UserCancels
  <2>1. x \in Process /\ Fit(x) /\ x.goal = proc[p].goal
    BY <2>0, ProcessType, ZenonT(40) DEF Process, Pc, Fit
  <2>2. proc' = [proc EXCEPT ![p] = x]
    BY <1>1 DEF UserCancels
  <2> HIDE DEF x
  <2> QED BY <1>0, <2>1, <2>2, ProcessType, OneMoves, ProcessStepType DEF Unaltered
<1>2. CASE WorkerAdvances(p, w)
  <2>1. proc' = [proc EXCEPT ![p] = Reading(w, "advance")]
    BY <1>2 DEF WorkerAdvances
  <2> QED BY <1>0, <2>1, ReadingType, OneMoves, ProcessStepType
<1>3. CASE PassBegins(p)
  <2> DEFINE ws == {v \in Workflow : wf[v].status = "running" /\ HasTerminalChild(v)}
             x == [proc[p] EXCEPT !.pc = "next", !.pass = ws]
  <2>1. ws \in SUBSET Workflow
    OBVIOUS
  <2>2. proc' = [proc EXCEPT ![p] = x] /\ proc[p].pc = "idle"
    BY <1>3 DEF PassBegins
  <2> HIDE DEF ws
  <2>3. x \in Process /\ Fit(x) /\ x.goal = proc[p].goal
    BY <2>1, <2>2, ProcessType, ZenonT(40) DEF Process, Pc, Fit
  <2> HIDE DEF x
  <2> QED BY <1>0, <2>2, <2>3, ProcessType, OneMoves, ProcessStepType DEF Unaltered
<1>4. CASE PassNext(p)
  <2>1. PICK v \in proc[p].pass : Advances(p, v)
    BY <1>4 DEF PassNext
  <2>2. v \in Workflow
    BY ProcessType
  <2> QED BY <1>0, <2>1, <2>2, AdvancesMoves, ProcessStepType
<1> QED BY <1>1, <1>2, <1>3, <1>4

LEMMA UserRetriesType ==
  ASSUME TypeInv, NEW p \in Task, NEW w \in Workflow, UserRetries(p, w) PROVE TypeInv'
<1>1. /\ retries < MaxRetries /\ retries' = retries + 1 /\ proc' = [proc EXCEPT ![p] = Reading(w, "retry")]
      /\ UNCHANGED <<wf, child, link, book, landed, raced, upsets, edits>>
  BY DEF UserRetries
<1>2. CountersMove /\ retries' > 0 /\ p \in Proc
  BY <1>1, WorkflowConstants DEF CountersMove, TypeInv, TypeOK, Proc
<1>3. ProcsMove
  BY <1>1, <1>2, ReadingType, OneMoves
<1> QED BY <1>1, <1>2, <1>3, SameRows, SameChildren, SameBook, SameLinks, MovesType

LEMMA CrashType == ASSUME TypeInv, NEW p \in Proc, Crash(p) PROVE TypeInv'
<1>1. CountersMove
  BY WorkflowConstants DEF Crash, CountersMove, TypeInv, TypeOK
<1>2. UNCHANGED <<wf, child, link, book, landed, raced>> /\ Throw(p)
  BY DEF Crash
<1> QED BY <1>1, <1>2, ThrowMoves, SameRows, SameChildren, SameBook, SameLinks, MovesType

LEMMA StartType == ASSUME TypeInv, NEW p \in Task, NEW w \in Workflow, StartWorkflow(p, w) PROVE TypeInv'
<1> DEFINE x == [NoProcess EXCEPT !.pc = "enqueue", !.wf = w, !.goal = "start",
                                  !.target = [stage |-> "bundle", n |-> 1]]
<1>1. /\ wf' = [wf EXCEPT ![w] = [NoWorkflow EXCEPT !.status = "running", !.fence = book.fence]]
      /\ proc' = [proc EXCEPT ![p] = x]
      /\ UNCHANGED <<child, link, book, landed, raced, retries, upsets, edits>>
  BY DEF StartWorkflow
<1>2. p \in Proc /\ CountersMove
  BY <1>1, SameCounters DEF Proc
<1>3. [stage |-> "bundle", n |-> 1] \in Item
  <2>1. 1 \in Windows("bundle") /\ "bundle" \in Stage
    BY WindowsAre, WorkflowConstants DEF Stage
  <2> QED BY <2>1, ItemIs
<1>4. x \in Process /\ Fit(x) /\ x.goal = "start"
  BY <1>3, NoProcessType DEF NoProcess, Process, Pc, Fit
<1>5. RowsMove
  <2>1. [NoWorkflow EXCEPT !.status = "running", !.fence = book.fence] \in WorkflowRow
    BY DEF NoWorkflow, WorkflowRow, WorkflowStatus, TypeInv, TypeOK, Book
  <2> QED BY <1>1, <2>1 DEF RowsMove, TypeInv, TypeOK
<1> HIDE DEF x
<1>6. ProcsMove
  BY <1>1, <1>2, <1>4, OneMoves
<1> QED BY <1>1, <1>2, <1>5, <1>6, SameChildren, SameBook, SameLinks, MovesType

\* What a retry is about to queue again.
LEMMA TodoType ==
  ASSUME TypeInv, NEW p \in Proc, proc[p].wf \in Workflow
  PROVE  {[job |-> j, status |-> child[j].status, cur |-> child[j].cur] : j \in ToRetry(p)}
           \in SUBSET [job : Job, status : Settled, cur : Nat]
<1>1. \A j \in ToRetry(p) : j \in Job /\ child[j].status \in Settled
  BY DEF ToRetry, Failed, Settled, TypeInv, TypeOK
<1> QED BY <1>1 DEF TypeInv, TypeOK, ChildRow

LEMMA ReadLinksType == ASSUME TypeInv, NEW p \in Proc, ReadLinks(p) PROVE TypeInv'
<1> DEFINE w == proc[p].wf
           s == NextStep(w)
           todo == {[job |-> j, status |-> child[j].status, cur |-> child[j].cur] : j \in ToRetry(p)}
           x == [proc[p] EXCEPT !.pc = "mark", !.todo = todo]
           y == [proc[p] EXCEPT !.pc = s.do, !.target = s.target]
<1>1. proc[p].pc = "links" /\ Unaltered /\ CountersMove
  BY SameCounters DEF ReadLinks, Unaltered
<1>2. w \in Workflow
  BY <1>1, ProcessType DEF Fit
<1>3. proc' = [proc EXCEPT ![p] = IF proc[p].goal = "retry" THEN x ELSE y]
  BY DEF ReadLinks
<1>4. todo \in SUBSET [job : Job, status : Settled, cur : Nat] /\ \A r \in todo : r.job.wf = w
  <2>1. \A j \in ToRetry(p) : j \in link[w]
    BY DEF ToRetry, Failed
  <2>2. \A j \in ToRetry(p) : j.wf = w
    BY <1>2, <2>1 DEF TypeInv, LinksOK
  <2> QED BY <1>2, <2>2, TodoType
<1>5. /\ s.do \in {"enqueue", "fail", "progress", "repair", "verify"}
      /\ s.do = "fail" => s.target \in Job
      /\ s.do = "repair" => s.target \in Job /\ s.target.stage = "label" /\ s.target.wf = w
      /\ s.do = "enqueue" => s.target \in Item
      /\ s.target \in Job \cup Item \cup {None}
  <2>1. \A j \in Linked(w, "label") : j \in Job /\ j.stage = "label" /\ j.wf = w
    BY <1>2 DEF Linked, TypeInv, TypeOK, LinksOK
  <2>2. /\ s.do \in {"enqueue", "fail", "progress", "repair", "verify"}
        /\ s.do = "fail" => s.target \in Job
        /\ s.do = "repair" => s.target \in Linked(w, "label")
        /\ s.do = "enqueue" => s.target \in Item
        /\ s.do \in {"progress", "verify"} => s.target = None
    BY <1>2, NextStepType
  <2> HIDE DEF s, w
  <2> QED BY <2>1, <2>2
<1> HIDE DEF todo, s
<1>6. x \in Process /\ x.goal = proc[p].goal /\ (x.goal = "retry" => Fit(x))
  BY <1>1, <1>4, ProcessType, ZenonT(40) DEF Process, Pc, Fit
<1>7. y \in Process /\ y.goal = proc[p].goal /\ Fit(y)
  BY <1>1, <1>2, <1>5, ProcessType, ZenonT(40) DEF Process, Pc, Fit
<1>8. ProcsMove
  <2> DEFINE z == IF proc[p].goal = "retry" THEN x ELSE y
  <2>1. z \in Process /\ Fit(z) /\ z.goal = proc[p].goal
    <3> HIDE DEF x, y
    <3> QED BY <1>6, <1>7
  <2>2. proc' = [proc EXCEPT ![p] = z]
    BY <1>3
  <2> HIDE DEF z
  <2> QED BY <1>1, <2>1, <2>2, ProcessType, OneMoves DEF Unaltered
<1> QED BY <1>1, <1>8, ProcessStepType

LEMMA ReloadType == ASSUME TypeInv, NEW p \in Proc, Reload(p) PROVE TypeInv'
<1>1. Unaltered /\ CountersMove /\ proc[p].target \in Job
  BY SameCounters, ProcessType DEF Reload, Unaltered, Fit
<1>2. proc[p].target.wf \in Workflow
  BY <1>1, JobFields
<1>3. Advances(p, proc[p].target.wf) \/ Done(p)
  BY DEF Reload
<1> QED BY <1>1, <1>2, <1>3, AdvancesMoves, DoneMoves, ProcessStepType

LEMMA VerifyType == ASSUME TypeInv, NEW p \in Proc, Verify(p) PROVE TypeInv'
<1> DEFINE missing == (1 .. LabelWindows) \ book.labelled
           pc == IF missing = {} /\ book.voices THEN "ready" ELSE "unready"
           x == [proc[p] EXCEPT !.pc = pc, !.missing = missing]
<1>1. proc[p].pc = "verify" /\ Unaltered /\ CountersMove /\ proc' = [proc EXCEPT ![p] = x]
  BY SameCounters DEF Verify, Unaltered
<1>2. missing \in SUBSET (1 .. LabelWindows) /\ pc \in {"ready", "unready"}
  OBVIOUS
<1> HIDE DEF missing, pc
<1>3. x \in Process /\ x.goal = proc[p].goal /\ Fit(x)
  BY <1>1, <1>2, ProcessType, ZenonT(40) DEF Process, Pc, Fit
<1> HIDE DEF x
<1> QED BY <1>1, <1>3, ProcessType, OneMoves, ProcessStepType DEF Unaltered

LEMMA RetryDoneType == ASSUME TypeInv, NEW p \in Proc, RetryDone(p) PROVE TypeInv'
BY SameCounters, DoneMoves, ProcessStepType DEF RetryDone, Unaltered

\* Steps that write the row of the workflow, and no child.
LEMMA SettleType ==
  ASSUME TypeInv, NEW p \in Proc, KeepProgress(p) \/ FailWorkflow(p) \/ Ready(p) \/ Unready(p)
  PROVE  TypeInv'
<1>1. /\ UNCHANGED <<child, link, book, landed, retries, upsets, edits>> /\ Done(p)
      /\ proc[p].pc \in {"progress", "fail", "ready", "unready"}
  BY DEF KeepProgress, FailWorkflow, Ready, Unready
<1>2. proc[p].wf \in Workflow /\ proc[p].failed \in Job \cup {None}
  BY <1>1, ProcessType DEF Fit
<1>3. \E status \in WorkflowStatus, failed \in Job \cup {None} : Written(p, status, failed)
  <2>1. CASE KeepProgress(p)
    <3>1. SameStatus(p) \in WorkflowStatus
      BY <1>2 DEF SameStatus, TypeInv, TypeOK, WorkflowRow
    <3> QED BY <1>2, <2>1, <3>1 DEF KeepProgress
  <2>2. CASE FailWorkflow(p)
    <3>1. proc[p].target \in Job
      BY <2>2, ProcessType DEF FailWorkflow, Fit
    <3> QED BY <2>2, <3>1 DEF FailWorkflow, WorkflowStatus
  <2>3. CASE Ready(p)
    BY <1>2, <2>3 DEF Ready, WorkflowStatus
  <2>4. CASE Unready(p)
    BY <1>2, <2>4 DEF Unready, WorkflowStatus
  <2> QED BY <1>1, <2>1, <2>2, <2>3, <2>4
<1>4. wf' \in [Workflow -> WorkflowRow]
  BY <1>1, <1>3, WrittenMoves
<1>5. raced' \subseteq Workflow
  <2>1. raced' = raced \/ Races(p, {proc[p].wf})
    BY DEF KeepProgress, FailWorkflow, Ready, Unready
  <2>2. {proc[p].wf} \in SUBSET Workflow
    BY <1>2
  <2> QED BY <2>1, <2>2, RacesMoves DEF TypeInv, TypeOK
<1>6. RowsMove /\ CountersMove
  BY <1>1, <1>4, <1>5, SameCounters DEF RowsMove, TypeInv, TypeOK
<1> QED BY <1>1, <1>6, DoneMoves, SameChildren, SameBook, SameLinks, MovesType

LEMMA MarkType == ASSUME TypeInv, NEW p \in Proc, MarkRetried(p) PROVE TypeInv'
<1> DEFINE x == [proc[p] EXCEPT !.pc = "retry", !.target = None, !.failed = None, !.missing = {}]
<1>1. /\ proc[p].pc = "mark" /\ Written(p, "running", None) /\ raced' = raced \ {proc[p].wf}
      /\ UNCHANGED <<child, link, book, landed, retries, upsets, edits>>
      /\ proc' = [proc EXCEPT ![p] = IF proc[p].todo = {} THEN GoesOn({proc[p].wf}) ELSE x]
  BY DEF MarkRetried, Forgets
<1>2. CountersMove /\ proc[p].wf \in Workflow
  BY <1>1, SameCounters, ProcessType DEF Fit
<1>3. RowsMove
  BY <1>1, WrittenMoves DEF RowsMove, TypeInv, TypeOK, WorkflowStatus
<1>4. x \in Process /\ x.goal = proc[p].goal /\ Fit(x)
  BY <1>1, <1>2, ProcessType, ZenonT(40) DEF Process, Pc, Fit
<1>5. GoesOn({proc[p].wf}) \in Process /\ Fit(GoesOn({proc[p].wf})) /\ GoesOn({proc[p].wf}).goal = "advance"
  BY <1>2, GoesOnType
<1> HIDE DEF x
<1>6. ProcsMove
  <2>1. CASE proc[p].todo = {}
    BY <1>1, <1>2, <1>5, <2>1, OneMoves
  <2>2. CASE proc[p].todo # {}
    <3>1. proc' = [proc EXCEPT ![p] = x]
      BY <1>1, <2>2
    <3> QED BY <1>1, <1>2, <1>4, <3>1, ProcessType, OneMoves
  <2> QED BY <2>1, <2>2
<1> QED BY <1>1, <1>2, <1>3, <1>6, SameChildren, SameBook, SameLinks, MovesType

\* Rows of children.
LEMMA ChildRows ==
  ASSUME NEW row \in ChildRow
  PROVE  /\ Queued(row) \in ChildRow /\ Queued(row).status = "queued"
         /\ Admitted(row) \in ChildRow /\ Admitted(row).status = "running"
         /\ Inserted(row) \in ChildRow /\ Inserted(row).status \notin {"absent", "failed", "cancelled"}
         /\ Inserted(row).status = "succeeded" => row.status = "succeeded"
         /\ \A s \in Active \cup Settled : [row EXCEPT !.status = s] \in ChildRow
<1>1. Queued(row) \in ChildRow /\ Queued(row).status = "queued"
  BY DEF Queued, ChildRow, Active
<1>2. Admitted(row) \in ChildRow /\ Admitted(row).status = "running"
  <2> DEFINE k == row.count + 1
  <2>1. k \in Nat
    BY DEF ChildRow
  <2>2. Admitted(row) = [row EXCEPT !.status = "running", !.cur = k, !.count = k, !.stranded = FALSE]
    BY DEF Admitted
  <2> HIDE DEF k
  <2> QED BY <2>1, <2>2 DEF ChildRow, Active
<1>3. [Queued(row) EXCEPT !.delegated = FALSE] \in ChildRow
      /\ [Queued(row) EXCEPT !.delegated = FALSE].status = "queued"
  BY DEF Queued, ChildRow, Active
<1>4. row.status \in {"absent"} \cup Active \cup Settled
  BY DEF ChildRow
<1>5. [row EXCEPT !.status = "queued"] \in ChildRow /\ [row EXCEPT !.status = "queued"].status = "queued"
  BY DEF ChildRow, Active
<1>6. /\ row.status = "absent" => Inserted(row) = [row EXCEPT !.status = "queued"]
      /\ row.status \in {"failed", "cancelled"} => Inserted(row) = [Queued(row) EXCEPT !.delegated = FALSE]
      /\ row.status \notin {"absent", "failed", "cancelled"} => Inserted(row) = row
  BY DEF Inserted
<1>7. Inserted(row) \in ChildRow /\ Inserted(row).status \notin {"absent", "failed", "cancelled"}
      /\ (Inserted(row).status = "succeeded" => row.status = "succeeded")
  BY <1>3, <1>5, <1>6
<1> QED BY <1>1, <1>2, <1>7 DEF ChildRow

LEMMA OneChild ==
  ASSUME TypeInv, NEW j \in Job, NEW row \in ChildRow, row.status # "absent", child' = [child EXCEPT ![j] = row]
  PROVE  ChildMoves
BY DEF ChildMoves, TypeInv, TypeOK

LEMMA LinkType ==
  ASSUME TypeInv, NEW p \in Proc, NEW j \in Job, proc[p].pc \in {"enqueue", "repair"}, proc[p].wf = j.wf,
         j.graph <= book.graph, NEW replaced, Link(p, j, replaced),
         j.stage # "repair" => \A k \in link[j.wf] : k.stage = j.stage /\ k.n = j.n => k \in replaced
  PROVE  TypeInv'
<1> DEFINE w == j.wf
           pc == IF child'[j].status = "queued" THEN "admit" ELSE "reload"
           x == [proc[p] EXCEPT !.pc = pc, !.target = j, !.failed = None, !.missing = {}]
<1>1. /\ child' = [child EXCEPT ![j] = Inserted(child[j])]
      /\ link' = [link EXCEPT ![w] = (link[w] \ replaced) \cup {j}]
      /\ Written(p, SameStatus(p), proc[p].failed) /\ proc' = [proc EXCEPT ![p] = x]
      /\ UNCHANGED <<book, landed, raced, retries, upsets, edits>>
  BY DEF Link, Forgets
<1>2. w \in Workflow /\ CountersMove /\ BookMoves
  BY <1>1, JobFields, SameCounters, SameBook
<1>3. Inserted(child[j]) \in ChildRow /\ Inserted(child[j]).status # "absent"
  BY ChildRows DEF TypeInv, TypeOK
<1>4. ChildMoves /\ child'[j] = Inserted(child[j])
  BY <1>1, <1>3, OneChild DEF TypeInv, TypeOK
<1>5. RowsMove
  <2>1. SameStatus(p) \in WorkflowStatus /\ proc[p].failed \in Job \cup {None}
    BY <1>2, ProcessType DEF SameStatus, TypeInv, TypeOK, WorkflowRow
  <2> QED BY <1>1, <2>1, WrittenMoves DEF RowsMove, TypeInv, TypeOK
<1>6. ProcsMove
  <2>1. pc \in {"admit", "reload"}
    OBVIOUS
  <2> HIDE DEF pc
  <2>2. x \in Process /\ x.goal = proc[p].goal /\ Fit(x)
    BY <1>2, <2>1, ProcessType, ZenonT(40) DEF Process, Pc, Fit
  <2> HIDE DEF x
  <2> QED BY <1>1, <1>2, <2>2, ProcessType, OneMoves
<1>7. LinksMove
  <2>1. link' \in [Workflow -> SUBSET Job]
    BY <1>1, <1>2 DEF TypeInv, TypeOK
  <2>2. /\ link'[w] = (link[w] \ replaced) \cup {j}
        /\ \A v \in Workflow : v # w => link'[v] = link[v]
    BY <1>1, <1>2 DEF TypeInv, TypeOK
  <2>3. ASSUME NEW v \in Workflow PROVE LinksOK(v)'
    <3>1. LinksOK(v) /\ link[v] \in SUBSET Job
      BY DEF TypeInv, TypeOK
    <3>2. ASSUME NEW k \in link'[v] PROVE k.wf = v /\ child'[k].status # "absent" /\ k.graph <= book'.graph
      <4>1. CASE k = j
        BY <1>1, <1>3, <1>4, <2>2, <3>1, <3>2, <4>1 DEF LinksOK
      <4>2. CASE k # j
        <5>1. k \in link[v]
          BY <2>2, <3>2, <4>2
        <5> QED BY <1>1, <1>4, <3>1, <5>1 DEF LinksOK, ChildMoves
      <4> QED BY <4>1, <4>2
    <3>3. ASSUME NEW k \in link'[v], NEW l \in link'[v], k.stage = l.stage, k.n = l.n, k.stage # "repair"
          PROVE  k = l
      <4>1. CASE v # w
        BY <2>2, <3>1, <3>3, <4>1 DEF LinksOK
      <4>2. CASE v = w
        BY <2>2, <3>1, <3>3, <4>2 DEF LinksOK
      <4> QED BY <4>1, <4>2
    <3> QED BY <3>2, <3>3 DEF LinksOK
  <2> QED BY <2>1, <2>3 DEF LinksMove
<1> QED BY <1>2, <1>4, <1>5, <1>6, <1>7, MovesType

\* What an enqueue links.
EnqueuedJob(p) ==
  [wf |-> proc[p].wf, stage |-> proc[p].target.stage, n |-> proc[p].target.n, graph |-> book.graph]

RepairJob(p) == [proc[p].target EXCEPT !.stage = "repair"]

LEMMA EnqueuedIs ==
  ASSUME TypeInv, NEW p \in Proc, proc[p].pc = "enqueue"
  PROVE  EnqueuedJob(p) \in Job /\ proc[p].wf \in Workflow /\ proc[p].target \in Item
<1>1. proc[p].wf \in Workflow /\ proc[p].target \in Item
  BY ProcessType DEF Fit
<1>2. book.graph \in 0 .. MaxGraph
  BY DEF TypeInv, TypeOK, Book
<1> QED BY <1>1, <1>2, ItemFields, JobIs DEF EnqueuedJob

LEMMA RepairIs ==
  ASSUME TypeInv, NEW p \in Proc, proc[p].pc = "repair"
  PROVE  LET l == proc[p].target  j == RepairJob(p) IN
         /\ l \in Job /\ l.stage = "label" /\ l.wf = proc[p].wf /\ l.wf \in Workflow
         /\ j \in Job /\ j.wf = l.wf /\ j.stage = "repair" /\ j.n = l.n /\ j.graph = l.graph
<1> DEFINE l == proc[p].target
<1>1. l \in Job /\ l.stage = "label" /\ l.wf = proc[p].wf
  BY ProcessType DEF Fit
<1>2. /\ l = [wf |-> l.wf, stage |-> l.stage, n |-> l.n, graph |-> l.graph]
      /\ l.wf \in Workflow /\ l.n \in Windows("repair") /\ l.graph \in 0 .. MaxGraph
  BY <1>1, JobFields, WindowsAre
<1>3. RepairJob(p) = [wf |-> l.wf, stage |-> "repair", n |-> l.n, graph |-> l.graph]
  BY <1>2 DEF RepairJob
<1>4. "repair" \in Stage
  BY DEF Stage
<1> QED BY <1>1, <1>2, <1>3, <1>4, JobIs

LEMMA EnqueueType == ASSUME TypeInv, NEW p \in Proc, Enqueue(p) \/ EnqueueRepair(p) PROVE TypeInv'
<1>1. CASE Throw(p) /\ Unaltered
  BY <1>1, SameCounters, ThrowMoves, ProcessStepType DEF Unaltered
<1>2. ASSUME Enqueue(p), ~(Throw(p) /\ Unaltered) PROVE TypeInv'
  <2> DEFINE j == EnqueuedJob(p)
             replaced == {k \in Linked(proc[p].wf, proc[p].target.stage) : k.n = proc[p].target.n}
  <2>1. proc[p].pc = "enqueue" /\ Link(p, j, replaced)
    BY <1>2 DEF Enqueue, EnqueuedJob
  <2>2. j \in Job /\ proc[p].wf = j.wf /\ j.graph = book.graph /\ j.n = proc[p].target.n
        /\ j.stage = proc[p].target.stage
    BY <2>1, EnqueuedIs DEF EnqueuedJob
  <2>3. \A k \in link[j.wf] : k.stage = j.stage /\ k.n = j.n => k \in replaced
    BY <2>2 DEF Linked
  <2>4. book.graph <= book.graph
    BY WorkflowConstants DEF TypeInv, TypeOK, Book
  <2> HIDE DEF j, replaced
  <2> QED BY <2>1, <2>2, <2>3, <2>4, LinkType
<1>3. ASSUME EnqueueRepair(p), ~(Throw(p) /\ Unaltered) PROVE TypeInv'
  <2> DEFINE j == RepairJob(p)
  <2>1. proc[p].pc = "repair" /\ Verified(proc[p].target) /\ Link(p, j, {})
    BY <1>3 DEF EnqueueRepair, RepairJob
  <2>2. j \in Job /\ proc[p].wf = j.wf /\ j.stage = "repair" /\ j.graph = book.graph
    BY <2>1, RepairIs DEF Verified
  <2>3. book.graph <= book.graph
    BY WorkflowConstants DEF TypeInv, TypeOK, Book
  <2> HIDE DEF j
  <2> QED BY <2>1, <2>2, <2>3, LinkType
<1> QED BY <1>1, <1>2, <1>3

LEMMA RejectedMoves ==
  ASSUME TypeInv, NEW q, NEW j \in Job, Rejected(q, j), UNCHANGED <<landed, retries, edits>>
  PROVE  ChildMoves /\ RowsMove /\ CountersMove
<1> DEFINE ws == {w \in Workflow : j \in link[w] /\ wf[w].status = "running"}
<1>1. /\ upsets < MaxUpsets /\ upsets' = upsets + 1 /\ child' = [child EXCEPT ![j].status = "failed"]
      /\ Races(q, ws)
      /\ wf' = [w \in Workflow |->
           IF w \in ws THEN [wf[w] EXCEPT !.status = "needs_review", !.failed = j] ELSE wf[w]]
  BY DEF Rejected
<1>2. ws \in SUBSET Workflow
  OBVIOUS
<1> HIDE DEF ws
<1>3. ChildMoves
  <2>1. [child[j] EXCEPT !.status = "failed"] \in ChildRow /\ [child[j] EXCEPT !.status = "failed"].status = "failed"
    BY DEF TypeInv, TypeOK, ChildRow, Settled
  <2> QED BY <1>1, <2>1, OneChild
<1>4. wf' \in [Workflow -> WorkflowRow]
  BY <1>1, ZenonT(40) DEF TypeInv, TypeOK, WorkflowRow, WorkflowStatus
<1>5. raced' \subseteq Workflow
  BY <1>1, <1>2, RacesMoves
<1>6. CountersMove
  <2>1. /\ retries \in 0 .. MaxRetries /\ upsets \in 0 .. MaxUpsets /\ edits \in 0 .. MaxEdits
        /\ retries' = retries /\ edits' = edits /\ upsets' = upsets + 1 /\ upsets < MaxUpsets
    BY <1>1 DEF TypeInv, TypeOK
  <2> QED BY <2>1, WorkflowConstants DEF CountersMove
<1> QED BY <1>3, <1>4, <1>5, <1>6 DEF RowsMove, TypeInv, TypeOK

LEMMA AdmitType == ASSUME TypeInv, NEW p \in Proc, Admit(p) \/ AdmissionRejected(p) PROVE TypeInv'
<1>1. proc[p].pc = "admit" /\ proc[p].target \in Job
  BY ProcessType DEF Admit, AdmissionRejected, Fit
<1>2. CASE Admit(p)
  <2>1. UNCHANGED <<wf, link, book, landed, raced, retries, upsets, edits>> /\ CountersMove
    BY <1>2, SameCounters DEF Admit
  <2>2. ChildMoves
    <3>1. Admitted(child[proc[p].target]) \in ChildRow /\ Admitted(child[proc[p].target]).status = "running"
      BY <1>1, ChildRows DEF TypeInv, TypeOK
    <3> QED BY <1>1, <1>2, <3>1, OneChild, SameChildren DEF Admit
  <2>3. ProcsMove
    <3> DEFINE pc == IF proc[p].goal = "retry" THEN "retry" ELSE "reload"
               x == [proc[p] EXCEPT !.pc = pc]
    <3>1. Done(p) \/ proc' = [proc EXCEPT ![p] = x]
      BY <1>2 DEF Admit, GoOn, Step
    <3>2. x \in Process /\ x.goal = proc[p].goal /\ Fit(x)
      BY <1>1, ProcessType DEF Process, Pc, Fit
    <3> HIDE DEF x
    <3> QED BY <2>1, <3>1, <3>2, ProcessType, OneMoves, DoneMoves
  <2> QED BY <2>1, <2>2, <2>3, SameRows, SameBook, SameLinks, MovesType
<1>3. CASE AdmissionRejected(p)
  <2>1. /\ UNCHANGED <<link, book, landed, retries, edits>> /\ Done(p)
        /\ Rejected(p, proc[p].target)
    BY <1>3 DEF AdmissionRejected
  <2>2. ChildMoves /\ RowsMove /\ CountersMove
    BY <1>1, <2>1, RejectedMoves
  <2> QED BY <2>1, <2>2, DoneMoves, SameBook, SameLinks, MovesType
<1> QED BY <1>2, <1>3

LEMMA RetryChildType == ASSUME TypeInv, NEW p \in Proc, RetryChild(p) PROVE TypeInv'
<1>1. /\ proc[p].pc = "retry" /\ UNCHANGED <<wf, link, book, landed, raced, retries, upsets, edits>>
      /\ CountersMove
  BY SameCounters DEF RetryChild
<1>2. PICK r \in proc[p].todo :
        IF child[r.job].status = r.status /\ child[r.job].cur = r.cur
        THEN /\ child' = [child EXCEPT ![r.job] = Queued(child[r.job])]
             /\ proc' = [proc EXCEPT ![p] = [proc[p] EXCEPT !.pc = "admit", !.target = r.job, !.todo = @ \ {r}]]
        ELSE /\ UNCHANGED child
             /\ proc' = [proc EXCEPT ![p] = [proc[p] EXCEPT !.todo = @ \ {r}]]
  BY ZenonT(40) DEF RetryChild
<1>3. proc[p].todo \in SUBSET [job : Job, status : Settled, cur : Nat]
  BY ProcessType DEF Process
<1>4. r.job \in Job
  BY <1>3
<1>5. ChildMoves
  <2>1. Queued(child[r.job]) \in ChildRow /\ Queued(child[r.job]).status = "queued"
    BY <1>4, ChildRows DEF TypeInv, TypeOK
  <2> QED BY <1>2, <1>4, <2>1, OneChild, SameChildren
<1>6. ProcsMove
  <2> DEFINE x == [proc[p] EXCEPT !.pc = "admit", !.target = r.job, !.todo = @ \ {r}]
             y == [proc[p] EXCEPT !.todo = @ \ {r}]
  <2>1. proc[p] \in Process /\ Fit(proc[p]) /\ proc[p].wf \in Workflow
    BY <1>1, ProcessType DEF Fit
  <2>2. x \in Process /\ x.goal = proc[p].goal /\ Fit(x)
    BY <1>3, <1>4, <2>1 DEF Process, Pc, Fit
  <2>3. y \in Process /\ y.goal = proc[p].goal /\ Fit(y)
    BY <1>1, <1>3, <2>1 DEF Process, Pc, Fit
  <2>4. proc' = [proc EXCEPT ![p] = x] \/ proc' = [proc EXCEPT ![p] = y]
    BY <1>2
  <2> HIDE DEF x, y
  <2> QED BY <1>1, <2>2, <2>3, <2>4, ProcessType, OneMoves
<1> QED BY <1>1, <1>5, <1>6, SameRows, SameBook, SameLinks, MovesType

LEMMA CancelActiveMoves == ASSUME TypeInv, NEW js, child' = CancelActive(js) PROVE ChildMoves
<1>1. \A j \in Job : child[j] \in ChildRow /\ [child[j] EXCEPT !.status = "cancelled"] \in ChildRow
                     /\ [child[j] EXCEPT !.status = "cancelled"].status = "cancelled"
  BY DEF TypeInv, TypeOK, ChildRow, Settled
<1> QED BY <1>1 DEF CancelActive, ChildMoves

LEMMA CancelType == ASSUME TypeInv, NEW p \in Proc, CancelWorkflow(p) PROVE TypeInv'
<1>1. /\ proc[p].pc = "cancel" /\ child' = CancelActive(link[proc[p].wf]) /\ Done(p)
      /\ UNCHANGED <<link, book, landed, retries, upsets, edits>> /\ CountersMove
  BY SameCounters DEF CancelWorkflow
<1>2. proc[p].wf \in Workflow
  BY <1>1, ProcessType DEF Fit
<1>3. ChildMoves
  BY <1>1, CancelActiveMoves
<1>4. RowsMove
  <2>1. CASE UNCHANGED <<wf, raced>>
    BY <1>1, <2>1, SameRows
  <2>2. CASE wf' = [wf EXCEPT ![proc[p].wf].status = "cancelled"] /\ Races(p, {proc[p].wf})
    <3>1. {proc[p].wf} \in SUBSET Workflow
      BY <1>2
    <3>2. raced' \subseteq Workflow
      BY <2>2, <3>1, RacesMoves
    <3>3. wf' \in [Workflow -> WorkflowRow]
      BY <1>2, <2>2, ZenonT(40) DEF TypeInv, TypeOK, WorkflowRow, WorkflowStatus
    <3> QED BY <1>1, <3>2, <3>3 DEF RowsMove, TypeInv, TypeOK
  <2> QED BY <2>1, <2>2 DEF CancelWorkflow
<1> QED BY <1>1, <1>3, <1>4, DoneMoves, SameBook, SameLinks, MovesType

LEMMA OvertakenMoves == ASSUME TypeInv, CountersMove, proc' = Overtaken PROVE ProcsMove
<1>1. ASSUME NEW p \in Proc
      PROVE  /\ proc'[p] = [proc[p] EXCEPT !.overtaken = @ \/ proc[p].pc = "ready"]
             /\ proc'[p] \in Process /\ Fit(proc'[p]) /\ proc'[p].goal = proc[p].goal
  <2>1. proc'[p] = [proc[p] EXCEPT !.overtaken = @ \/ proc[p].pc = "ready"]
    BY DEF Overtaken
  <2>2. proc[p] \in Process /\ Fit(proc[p])
    BY ProcessType
  <2> DEFINE o == proc[p].overtaken \/ proc[p].pc = "ready"
             x == proc[p]
             y == proc'[p]
  <2>3. y = [x EXCEPT !.overtaken = o] /\ o \in BOOLEAN
    BY <2>1, <2>2 DEF Process
  <2>4. x \in Process /\ Fit(x)
    BY <2>2
  <2> HIDE DEF o, x, y
  <2>5. y \in Process
    BY <2>3, <2>4 DEF Process
  <2>6. /\ y.pc = x.pc /\ y.wf = x.wf /\ y.target = x.target /\ y.goal = x.goal /\ y.todo = x.todo
    BY <2>3, <2>4 DEF Process
  <2>7. Fit(y)
    BY <2>4, <2>6 DEF Fit
  <2> QED BY <2>1, <2>5, <2>6, <2>7 DEF x, y
<1>2. proc' \in [Proc -> Process]
  BY <1>1 DEF Overtaken
<1>3. ASSUME NEW p \in Proc PROVE Wired(p)'
  <2>1. Fit(proc[p])'
    BY <1>1 DEF Fit
  <2>2. proc'[p].goal = "retry" => p \in Task /\ retries' > 0
    <3>1. proc[p].goal = "retry" => p \in Task /\ retries > 0
      BY ProcessType
    <3>2. retries \in Nat /\ retries' \in Nat /\ retries <= retries'
      BY WorkflowConstants DEF TypeInv, TypeOK, CountersMove
    <3>3. retries > 0 => retries' > 0
      BY <3>2
    <3> QED BY <1>1, <3>1, <3>3
  <2> QED BY <2>1, <2>2 DEF Wired
<1> QED BY <1>2, <1>3 DEF ProcsMove

LEMMA GraphMoves ==
  ASSUME book \in Book, book.graph < MaxGraph, book' = [book EXCEPT !.graph = @ + 1] PROVE BookMoves
<1> DEFINE g == book.graph + 1
<1>1. g \in 0 .. MaxGraph /\ book.graph <= g
  BY WorkflowConstants DEF Book
<1>2. book' = [book EXCEPT !.graph = g]
  OBVIOUS
<1> HIDE DEF g
<1>3. book' \in Book /\ book'.graph = g
  BY <1>1, <1>2 DEF Book
<1> QED BY <1>1, <1>3 DEF BookMoves

LEMMA GraphStays == ASSUME book \in Book, book' \in Book, book'.graph = book.graph PROVE BookMoves
BY WorkflowConstants DEF BookMoves, Book

LEMMA SucceedsBook ==
  ASSUME TypeInv, NEW j \in Job, ChildSucceeds(j) PROVE BookMoves /\ (proc' = proc \/ proc' = Overtaken)
<1>0. book \in Book /\ j.stage \in Stage /\ j.n \in Windows(j.stage)
  BY JobFields DEF TypeInv, TypeOK
<1>1. CASE j.stage = "bundle"
  BY <1>1, SameBook DEF ChildSucceeds
<1>2. CASE j.stage = "merge"
  <2>1. book.graph < MaxGraph /\ book' = [book EXCEPT !.graph = @ + 1] /\ proc' = proc
    BY <1>2 DEF ChildSucceeds
  <2> QED BY <1>0, <2>1, GraphMoves
<1>3. CASE j.stage \notin {"bundle", "merge"}
  <2>1. PICK voiced \in BOOLEAN :
          /\ book' = [book EXCEPT !.labelled = @ \cup {j.n}, !.voices = @ /\ voiced]
          /\ proc' = IF voiced THEN proc ELSE Overtaken
    BY <1>3 DEF ChildSucceeds
  <2>2. j.n \in 1 .. LabelWindows
    BY <1>0, <1>3, WindowsAre DEF Stage
  <2> DEFINE l == book.labelled \cup {j.n}
             v == book.voices /\ voiced
  <2>3. l \in SUBSET (1 .. LabelWindows) /\ v \in BOOLEAN
    BY <1>0, <2>2 DEF Book
  <2>4. book' = [book EXCEPT !.labelled = l, !.voices = v]
    BY <2>1
  <2> HIDE DEF l, v
  <2>5. book' \in Book /\ book'.graph = book.graph
    BY <1>0, <2>3, <2>4 DEF Book
  <2> QED BY <1>0, <2>1, <2>5, GraphStays
<1> QED BY <1>1, <1>2, <1>3

LEMMA ChildStepType ==
  ASSUME TypeInv, NEW j \in Job, ChildStep(j) \/ ChildStrands(j) \/ RecoveryRejects(j) \/ ChildCancelled(j)
  PROVE  TypeInv'
<1>0. child[j] \in ChildRow
  BY DEF TypeInv, TypeOK
<1>1. CASE RecoveryAdmits(j)
  <2>1. UNCHANGED <<wf, link, book, proc, landed, raced, retries, upsets, edits>> /\ CountersMove
    BY <1>1, SameCounters DEF RecoveryAdmits
  <2>2. child' = [child EXCEPT ![j] = Admitted(child[j])]
    BY <1>1 DEF RecoveryAdmits
  <2>3. ChildMoves
    BY <1>0, <2>2, ChildRows, OneChild
  <2> QED BY <2>1, <2>3, SameRows, SameProcs, SameBook, SameLinks, MovesType
<1>2. CASE RecoveryRejects(j)
  <2>1. UNCHANGED <<link, book, proc, landed, retries, edits>> /\ Rejected(None, j)
    BY <1>2 DEF RecoveryRejects
  <2>2. ChildMoves /\ RowsMove /\ CountersMove
    BY <2>1, RejectedMoves
  <2> QED BY <2>1, <2>2, SameProcs, SameBook, SameLinks, MovesType
<1>3. CASE ChildCancelled(j)
  <2>1. /\ upsets < MaxUpsets /\ upsets' = upsets + 1
        /\ child' = [child EXCEPT ![j] = [child[j] EXCEPT !.status = "cancelled"]]
        /\ UNCHANGED <<wf, link, book, proc, landed, raced, retries, edits>>
    BY <1>3 DEF ChildCancelled
  <2>2. [child[j] EXCEPT !.status = "cancelled"] \in ChildRow
        /\ [child[j] EXCEPT !.status = "cancelled"].status = "cancelled"
    BY <1>0 DEF ChildRow, Settled
  <2>3. ChildMoves
    BY <2>1, <2>2, OneChild
  <2>4. CountersMove
    <3>1. retries \in 0 .. MaxRetries /\ upsets \in 0 .. MaxUpsets /\ edits \in 0 .. MaxEdits
      BY DEF TypeInv, TypeOK
    <3> QED BY <2>1, <3>1, WorkflowConstants DEF CountersMove
  <2> QED BY <2>1, <2>3, <2>4, SameRows, SameProcs, SameBook, SameLinks, MovesType
<1>4. CASE ChildFails(j)
  <2>1. UNCHANGED <<wf, link, book, proc, landed, raced, retries, upsets, edits>> /\ CountersMove
    BY <1>4, SameCounters DEF ChildFails
  <2>2. PICK delegated \in {child[j].delegated} \cup {j.stage = "label" /\ Verified(j)} :
          child' = [child EXCEPT ![j].status = "failed", ![j].delegated = @ \/ delegated]
    BY <1>4 DEF ChildFails
  <2> DEFINE row == [child[j] EXCEPT !.status = "failed", !.delegated = @ \/ delegated]
  <2>3. child' = [child EXCEPT ![j] = row]
    BY <1>0, <2>2 DEF TypeInv, TypeOK
  <2>4. row \in ChildRow /\ row.status = "failed"
    BY <1>0 DEF ChildRow, Settled
  <2> HIDE DEF row
  <2>5. ChildMoves
    BY <2>3, <2>4, OneChild
  <2> QED BY <2>1, <2>5, SameRows, SameProcs, SameBook, SameLinks, MovesType
<1>5. CASE ChildSucceeds(j)
  <2>1. /\ UNCHANGED <<wf, link, raced, retries, upsets, edits>> /\ CountersMove
        /\ child' = [child EXCEPT ![j] = [child[j] EXCEPT !.status = "succeeded"]]
        /\ landed' = landed \cup {j}
    BY <1>5, SameCounters DEF ChildSucceeds
  <2>2. [child[j] EXCEPT !.status = "succeeded"] \in ChildRow
        /\ [child[j] EXCEPT !.status = "succeeded"].status = "succeeded"
    BY <1>0 DEF ChildRow, Settled
  <2>3. ChildMoves
    BY <2>1, <2>2, OneChild
  <2>4. RowsMove
    BY <2>1 DEF RowsMove, TypeInv, TypeOK
  <2>5. BookMoves /\ (proc' = proc \/ proc' = Overtaken)
    BY <1>5, SucceedsBook
  <2>6. ProcsMove
    BY <2>1, <2>5, SameProcs, OvertakenMoves
  <2> QED BY <2>1, <2>3, <2>4, <2>5, <2>6, SameLinks, MovesType
<1>6. CASE ChildStrands(j)
  <2>1. /\ upsets < MaxUpsets /\ upsets' = upsets + 1 /\ child[j].status = "running"
        /\ child' = [child EXCEPT ![j] = [child[j] EXCEPT !.stranded = TRUE]]
        /\ UNCHANGED <<wf, link, book, proc, landed, raced, retries, edits>>
    BY <1>6 DEF ChildStrands, Executing
  <2>2. [child[j] EXCEPT !.stranded = TRUE] \in ChildRow
        /\ [child[j] EXCEPT !.stranded = TRUE].status = "running"
    BY <1>0, <2>1 DEF ChildRow
  <2>3. ChildMoves
    BY <2>1, <2>2, OneChild
  <2>4. CountersMove
    <3>1. retries \in 0 .. MaxRetries /\ upsets \in 0 .. MaxUpsets /\ edits \in 0 .. MaxEdits
      BY DEF TypeInv, TypeOK
    <3> QED BY <2>1, <3>1, WorkflowConstants DEF CountersMove
  <2> QED BY <2>1, <2>3, <2>4, SameRows, SameProcs, SameBook, SameLinks, MovesType
<1> QED BY <1>1, <1>2, <1>3, <1>4, <1>5, <1>6 DEF ChildStep

LEMMA BookStepType ==
  ASSUME TypeInv, GraphEdited \/ VoicesAssigned \/ BookReplaced \/ \E n \in 1 .. LabelWindows : LabelsRemoved(n)
  PROVE  TypeInv'
<1>0. /\ retries \in 0 .. MaxRetries /\ upsets \in 0 .. MaxUpsets /\ edits \in 0 .. MaxEdits
      /\ book \in Book
  BY DEF TypeInv, TypeOK
<1>1. CountersMove /\ UNCHANGED <<link, landed>>
  BY <1>0, WorkflowConstants DEF GraphEdited, VoicesAssigned, BookReplaced, LabelsRemoved, CountersMove
<1>2. BookMoves
  <2>1. CASE GraphEdited
    BY <1>0, <2>1, GraphMoves DEF GraphEdited
  <2>2. CASE VoicesAssigned
    <3>1. book' \in Book /\ book'.graph = book.graph
      BY <1>0, <2>2 DEF VoicesAssigned, Book
    <3> QED BY <1>0, <3>1, GraphStays
  <2>3. CASE BookReplaced
    <3> DEFINE f == book.fence + 1
    <3>0. f \in Nat /\ book' = [book EXCEPT !.fence = f, !.labelled = {}]
      BY <1>0, <2>3 DEF BookReplaced, Book
    <3> HIDE DEF f
    <3>1. book' \in Book /\ book'.graph = book.graph
      BY <1>0, <3>0 DEF Book
    <3> QED BY <1>0, <3>1, GraphStays
  <2>4. CASE \E n \in 1 .. LabelWindows : LabelsRemoved(n)
    <3>1. book' \in Book /\ book'.graph = book.graph
      BY <1>0, <2>4 DEF LabelsRemoved, Book
    <3> QED BY <1>0, <3>1, GraphStays
  <2> QED BY <2>1, <2>2, <2>3, <2>4
<1>3. ProcsMove
  <2>1. proc' = proc \/ proc' = Overtaken
    BY DEF GraphEdited, VoicesAssigned, BookReplaced, LabelsRemoved
  <2> QED BY <1>1, <2>1, SameProcs, OvertakenMoves
<1>4. CASE BookReplaced
  <2> DEFINE ws == {w \in Workflow : wf[w].status \in {"running", "needs_review"}}
  <2>1. /\ wf' = [w \in Workflow |-> IF w \in ws THEN [wf[w] EXCEPT !.status = "cancelled"] ELSE wf[w]]
        /\ child' = CancelActive(Job) /\ Races(None, ws)
    BY <1>4 DEF BookReplaced
  <2>2. ws \in SUBSET Workflow
    OBVIOUS
  <2> HIDE DEF ws
  <2>3. wf' \in [Workflow -> WorkflowRow]
    BY <2>1, ZenonT(40) DEF TypeInv, TypeOK, WorkflowRow, WorkflowStatus
  <2>4. raced' \subseteq Workflow
    BY <2>1, <2>2, RacesMoves
  <2>5. RowsMove
    BY <1>1, <2>3, <2>4 DEF RowsMove, TypeInv, TypeOK
  <2> QED BY <1>1, <1>2, <1>3, <2>1, <2>5, CancelActiveMoves, SameLinks, MovesType
<1>5. CASE GraphEdited \/ VoicesAssigned \/ \E n \in 1 .. LabelWindows : LabelsRemoved(n)
  <2>1. UNCHANGED <<wf, child, raced>>
    BY <1>5 DEF GraphEdited, VoicesAssigned, LabelsRemoved
  <2> QED BY <1>1, <1>2, <1>3, <2>1, SameRows, SameChildren, SameLinks, MovesType
<1> QED BY <1>4, <1>5

LEMMA InitTypes == Init => TypeInv
<1> SUFFICES ASSUME Init PROVE TypeInv
  OBVIOUS
<1>1. NoWorkflow \in WorkflowRow /\ NoChild \in ChildRow
  BY DEF NoWorkflow, WorkflowRow, WorkflowStatus, NoChild, ChildRow
<1>2. TypeOK
  BY <1>1, NoProcessType, WorkflowConstants DEF Init, TypeOK, Book
<1>3. \A p \in Proc : Wired(p)
  BY NoProcessType DEF Init, Wired
<1>4. \A w \in Workflow : LinksOK(w)
  BY DEF Init, LinksOK
<1> QED BY <1>2, <1>3, <1>4 DEF TypeInv

LEMMA TypeStep == TypeInv /\ [Next]_vars => TypeInv'
<1> SUFFICES ASSUME TypeInv, [Next]_vars PROVE TypeInv'
  OBVIOUS
<1>1. CASE UNCHANGED vars
  <2>1. CountersMove /\ Unaltered /\ UNCHANGED proc
    BY <1>1, SameCounters DEF vars, Unaltered
  <2> QED BY <2>1, SameProcs, ProcessStepType
<1>2. ASSUME NEW p \in Proc, Continues(p) PROVE TypeInv'
  <2>1. ASSUME PassNext(p) PROVE TypeInv'
    <3>1. PICK w \in proc[p].pass : Advances(p, w)
      BY <2>1 DEF PassNext
    <3>2. w \in Workflow
      BY ProcessType
    <3> QED BY <2>1, <3>2, BeginsType
  <2> QED BY <1>2, <2>1, ReadLinksType, SettleType, EnqueueType, AdmitType, ReloadType, VerifyType,
          MarkType, RetryChildType, RetryDoneType, CancelType DEF Continues
<1>3. ASSUME NEW p \in Proc, AdmissionRejected(p) \/ Crash(p) PROVE TypeInv'
  BY <1>3, AdmitType, CrashType
<1>4. ASSUME NEW p \in Task, NEW w \in Workflow, StartWorkflow(p, w) \/ UserRetries(p, w) \/ UserCancels(p, w)
      PROVE  TypeInv'
  <2>1. p \in Proc
    BY DEF Proc
  <2> QED BY <1>4, <2>1, StartType, UserRetriesType, BeginsType
<1>5. ASSUME NEW p \in Worker, NEW w \in Workflow, WorkerAdvances(p, w) PROVE TypeInv'
  BY <1>5, BeginsType DEF Proc
<1>6. ASSUME NEW p \in Reconciler, PassBegins(p) PROVE TypeInv'
  <2>1. PICK w \in Workflow : wf[w].status = "running"
    BY <1>6 DEF PassBegins
  <2> QED BY <1>6, BeginsType DEF Proc
<1> QED BY <1>1, <1>2, <1>3, <1>4, <1>5, <1>6, ChildStepType, BookStepType DEF Next


-----------------------------------------------------------------------------
(* What a step does to each process, row, child and link *)

\* A process that did not move, whose verdict of readiness still holds.
Same(q) ==
  LET x == proc[q]
      y == proc'[q]
  IN /\ y.pc = x.pc /\ y.wf = x.wf /\ y.goal = x.goal /\ y.target = x.target /\ y.todo = x.todo
     /\ y.pc = "ready" /\ ~y.overtaken => ~x.overtaken /\ (Labelled => Labelled')

Comes(q) ==
  LET x == proc[q]
      y == proc'[q]
  IN \/ y.pc \in {"idle", "next", "cancel"}
     \/ y.pc = "links" /\ y.goal = "retry" /\ wf[y.wf].status = "needs_review"
     \/ y.pc = "links" /\ y.goal = "advance" /\ wf[y.wf].status = "running"
     \/ y.pc = "enqueue" /\ y.target = [stage |-> "bundle", n |-> 1] /\ wf[y.wf].status = "absent"
     \/ x.pc = "links" /\ x.goal = "retry" /\ y.pc = "mark" /\ y.wf = x.wf /\ y.goal = x.goal
     \/ /\ x.pc = "links" /\ x.goal # "retry" /\ y.wf = x.wf /\ y.goal = x.goal
        /\ y.pc = NextStep(x.wf).do /\ y.target = NextStep(x.wf).target
     \/ x.pc \in {"enqueue", "repair"} /\ y.pc \in {"admit", "reload"} /\ y.wf = x.wf
     \/ x.pc = "admit" /\ y.pc \in {"retry", "reload"} /\ y.wf = x.wf /\ y.todo = x.todo
     \/ x.pc = "verify" /\ y.pc \in {"ready", "unready"} /\ y.wf = x.wf /\ (y.pc = "ready" => Labelled')
     \/ x.pc = "mark" /\ y.pc = "retry" /\ y.wf = x.wf /\ wf'[x.wf].status = "running"
     \/ x.pc = "retry" /\ x.todo # {} /\ y.pc \in {"retry", "admit"} /\ y.wf = x.wf

ProcsGo == \A q \in Proc : Same(q) \/ Comes(q)

RowStays(w) == wf'[w].status = wf[w].status /\ (w \in raced' <=> w \in raced)

RowRuns(w) ==
  /\ wf'[w].status = "running"
  /\ wf[w].status = "absent" \/ \E p \in Proc : proc[p].pc = "mark" /\ proc[p].wf = w /\ MarkRetried(p)

\* It says raced if another process was mid-way, and nobody else moves.
RowSettles(w) ==
  /\ \A q \in Proc : Same(q) \/ proc'[q].pc \in {"idle", "next"}
  /\ w \notin raced' => \A q \in Proc : Midway(q, w) => proc'[q].pc \in {"idle", "next"}
  /\ \/ wf'[w].status = "succeeded" /\ \E p \in Proc : proc[p].pc = "ready" /\ proc[p].wf = w
     \/ /\ wf'[w].status = "needs_review"
        /\ wf[w].status = "running" \/ \E p \in Proc : proc[p].pc \in {"fail", "unready"} /\ proc[p].wf = w
     \/ /\ wf'[w].status = "cancelled" /\ wf[w].status \in {"running", "needs_review"}
        /\ \A j \in link'[w] : child'[j].status \notin Active

RowsGo == \A w \in Workflow : RowStays(w) \/ RowRuns(w) \/ RowSettles(w)

\* A process links a child about the graph of now.
Links(p, j) ==
  /\ proc[p].wf = j.wf /\ j.graph = book.graph /\ j.n = proc[p].target.n
  /\ \/ proc[p].pc = "enqueue" /\ j.stage = proc[p].target.stage
     \/ proc[p].pc = "repair" /\ j.stage = "repair"

ChildGoes(j) ==
  LET s == child[j].status
      t == child'[j].status
  IN \/ t = s
     \/ s \in Active /\ t \in Settled \cup {"running"} /\ (t = "succeeded" => j \in landed')
     \/ s \in Settled /\ t = "queued" /\ \E p \in Proc : proc[p].pc = "retry" /\ \E r \in proc[p].todo : r.job = j
     \/ /\ s \in {"absent", "failed", "cancelled"} /\ t = "queued" /\ j \in link'[j.wf]
        /\ \E p \in Proc : Links(p, j)

ChildrenGo == landed \subseteq landed' /\ \A j \in Job : ChildGoes(j)

LinkGoes(w) ==
  \E p \in Proc, j \in Job :
    /\ Links(p, j) /\ j.wf = w
    /\ link'[w] \subseteq link[w] \cup {j} /\ j \in link'[w]
    /\ \A k \in link[w] : k \in link'[w] \/ (k.stage = j.stage /\ k.n = j.n)

LinksGo == \A w \in Workflow : link'[w] = link[w] \/ LinkGoes(w)

StepGoes == ProcsGo /\ RowsGo /\ ChildrenGo /\ LinksGo

LEMMA ProcsStay == ASSUME UNCHANGED proc, Labelled => Labelled' PROVE \A q \in Proc : Same(q)
BY DEF Same

LEMMA OthersStay ==
  ASSUME TypeInv, NEW p \in Proc, NEW x, proc' = [proc EXCEPT ![p] = x], Labelled => Labelled'
  PROVE  proc'[p] = x /\ \A q \in Proc \ {p} : Same(q)
BY DEF TypeInv, TypeOK, Same

LEMMA OvertakenStay == ASSUME TypeInv, proc' = Overtaken PROVE \A q \in Proc : Same(q)
<1> SUFFICES ASSUME NEW q \in Proc PROVE Same(q)
  OBVIOUS
<1> DEFINE x == proc[q]
           o == x.overtaken \/ x.pc = "ready"
<1>1. proc'[q] = [x EXCEPT !.overtaken = o]
  BY DEF Overtaken
<1>2. x \in Process
  BY ProcessType
<1>3. proc'[q].overtaken = o
  <2> HIDE DEF o, x
  <2> QED BY <1>1, <1>2 DEF Process
<1> HIDE DEF x
<1>4. /\ proc'[q].pc = x.pc /\ proc'[q].wf = x.wf /\ proc'[q].goal = x.goal
      /\ proc'[q].target = x.target /\ proc'[q].todo = x.todo
  <2> HIDE DEF o
  <2> QED BY <1>1, <1>2 DEF Process
<1> QED BY <1>3, <1>4 DEF x, Same

LEMMA SameBookLabelled == ASSUME UNCHANGED book PROVE Labelled => Labelled'
BY DEF Labelled

LEMMA RowsStay == ASSUME UNCHANGED <<wf, raced>> PROVE RowsGo
BY DEF RowsGo, RowStays

LEMMA ChildrenStay == ASSUME UNCHANGED <<child, landed>> PROVE ChildrenGo
BY DEF ChildrenGo, ChildGoes

LEMMA LinksStay == ASSUME UNCHANGED link PROVE LinksGo
BY DEF LinksGo

LEMMA ProcessStepGoes ==
  ASSUME UNCHANGED <<wf, child, link, landed, raced>>, ProcsGo PROVE StepGoes
BY RowsStay, ChildrenStay, LinksStay DEF StepGoes

\* The process that moves, when no other does.
LEMMA OneGoes ==
  ASSUME TypeInv, NEW p \in Proc, NEW x, proc' = [proc EXCEPT ![p] = x], UNCHANGED book,
         proc'[p] = x => Same(p) \/ Comes(p)
  PROVE  ProcsGo
BY OthersStay, SameBookLabelled DEF ProcsGo

LEMMA GoesOnPc == ASSUME NEW ws PROVE GoesOn(ws).pc \in {"idle", "next"}
BY DEF GoesOn, NoProcess

LEMMA DoneStays ==
  ASSUME TypeInv, NEW p \in Proc, Done(p) \/ Throw(p), UNCHANGED book
  PROVE  proc'[p].pc \in {"idle", "next"} /\ \A q \in Proc \ {p} : Same(q)
<1>1. CASE Done(p)
  <2>1. proc' = [proc EXCEPT ![p] = GoesOn(proc[p].pass)]
    BY <1>1 DEF Done
  <2> QED BY <2>1, OthersStay, SameBookLabelled, GoesOnPc
<1>2. CASE Throw(p)
  <2>1. proc' = [proc EXCEPT ![p] = NoProcess] /\ NoProcess.pc = "idle"
    BY <1>2 DEF Throw, NoProcess
  <2> QED BY <2>1, OthersStay, SameBookLabelled
<1> QED BY <1>1, <1>2

LEMMA DoneGoes ==
  ASSUME TypeInv, NEW p \in Proc, Done(p) \/ Throw(p), UNCHANGED book PROVE ProcsGo
BY DoneStays DEF ProcsGo, Comes

LEMMA AdvancesGoes ==
  ASSUME TypeInv, NEW p \in Proc, NEW w \in Workflow, Advances(p, w), UNCHANGED book PROVE ProcsGo
<1> DEFINE pass == proc[p].pass \ {w}
           r == Reading(w, "advance")
           x == [r EXCEPT !.pass = pass]
           y == GoesOn(pass)
<1>1. pass \in SUBSET Workflow
  BY ProcessType
<1>2. proc' = [proc EXCEPT ![p] = IF wf[w].status = "running" THEN x ELSE y]
  BY DEF Advances
<1>3. r \in Process /\ r.pc = "links" /\ r.wf = w /\ r.goal = "advance"
  BY ReadingType
<1> HIDE DEF pass, r
<1>4. x.pc = "links" /\ x.wf = w /\ x.goal = "advance"
  BY <1>3 DEF Process
<1>5. y.pc \in {"idle", "next"}
  BY GoesOnPc
<1> HIDE DEF x, y
<1>6. CASE wf[w].status = "running"
  <2>1. proc' = [proc EXCEPT ![p] = x]
    BY <1>2, <1>6
  <2> QED BY <1>4, <1>6, <2>1, OneGoes DEF Comes
<1>7. CASE wf[w].status # "running"
  <2>1. proc' = [proc EXCEPT ![p] = y]
    BY <1>2, <1>7
  <2> QED BY <1>5, <2>1, OneGoes DEF Comes
<1> QED BY <1>6, <1>7

LEMMA BeginsGoes ==
  ASSUME TypeInv, NEW p \in Proc, NEW w \in Workflow,
         UserCancels(p, w) \/ WorkerAdvances(p, w) \/ PassBegins(p) \/ PassNext(p) \/ UserRetries(p, w)
  PROVE  StepGoes
<1>0. UNCHANGED <<wf, child, link, book, landed, raced>>
  BY DEF UserCancels, WorkerAdvances, PassBegins, PassNext, UserRetries, Unaltered
<1>0a. proc[p] \in Process
  BY ProcessType
<1>1. CASE UserCancels(p, w)
  <2> DEFINE x == [proc[p] EXCEPT !.pc = "cancel", !.wf = w]
  <2>1. x.pc = "cancel" /\ proc' = [proc EXCEPT ![p] = x]
    BY <1>0a, <1>1 DEF UserCancels, Process
  <2> HIDE DEF x
  <2> QED BY <1>0, <2>1, OneGoes, ProcessStepGoes DEF Comes
<1>2. CASE WorkerAdvances(p, w)
  <2> DEFINE x == Reading(w, "advance")
  <2>1. proc' = [proc EXCEPT ![p] = x] /\ wf[w].status = "running"
    BY <1>2 DEF WorkerAdvances
  <2>2. x.pc = "links" /\ x.goal = "advance" /\ x.wf = w
    BY ReadingType
  <2> HIDE DEF x
  <2> QED BY <1>0, <2>1, <2>2, OneGoes, ProcessStepGoes DEF Comes
<1>3. CASE PassBegins(p)
  <2> DEFINE ws == {v \in Workflow : wf[v].status = "running" /\ HasTerminalChild(v)}
             x == [proc[p] EXCEPT !.pc = "next", !.pass = ws]
  <2>1. proc' = [proc EXCEPT ![p] = x]
    BY <1>3 DEF PassBegins
  <2> HIDE DEF ws
  <2>2. x.pc = "next"
    BY <1>0a DEF Process
  <2> HIDE DEF x
  <2> QED BY <1>0, <2>1, <2>2, OneGoes, ProcessStepGoes DEF Comes
<1>4. CASE PassNext(p)
  <2>1. PICK v \in proc[p].pass : Advances(p, v)
    BY <1>4 DEF PassNext
  <2>2. v \in Workflow
    BY ProcessType
  <2> QED BY <1>0, <2>1, <2>2, AdvancesGoes, ProcessStepGoes
<1>5. CASE UserRetries(p, w)
  <2> DEFINE x == Reading(w, "retry")
  <2>1. proc' = [proc EXCEPT ![p] = x] /\ wf[w].status = "needs_review"
    BY <1>5 DEF UserRetries
  <2>2. x.pc = "links" /\ x.goal = "retry" /\ x.wf = w
    BY ReadingType
  <2> HIDE DEF x
  <2> QED BY <1>0, <2>1, <2>2, OneGoes, ProcessStepGoes DEF Comes
<1> QED BY <1>1, <1>2, <1>3, <1>4, <1>5

LEMMA CrashGoes == ASSUME TypeInv, NEW p \in Proc, Crash(p) PROVE StepGoes
BY DoneGoes, ProcessStepGoes DEF Crash

LEMMA StartGoes == ASSUME TypeInv, NEW p \in Proc, NEW w \in Workflow, StartWorkflow(p, w) PROVE StepGoes
<1> DEFINE x == [NoProcess EXCEPT !.pc = "enqueue", !.wf = w, !.goal = "start",
                                  !.target = [stage |-> "bundle", n |-> 1]]
           row == [NoWorkflow EXCEPT !.status = "running", !.fence = book.fence]
<1>1. /\ wf[w].status = "absent" /\ wf' = [wf EXCEPT ![w] = row] /\ proc' = [proc EXCEPT ![p] = x]
      /\ UNCHANGED <<child, link, book, landed, raced>>
  BY DEF StartWorkflow
<1>2. x.pc = "enqueue" /\ x.target = [stage |-> "bundle", n |-> 1] /\ x.wf = w
  BY DEF NoProcess
<1>3. row.status = "running"
  BY DEF NoWorkflow
<1> HIDE DEF x, row
<1>4. ProcsGo
  BY <1>1, <1>2, OneGoes DEF Comes
<1>5. RowsGo
  BY <1>1, <1>3 DEF RowsGo, RowStays, RowRuns, TypeInv, TypeOK
<1> QED BY <1>1, <1>4, <1>5, ChildrenStay, LinksStay DEF StepGoes

LEMMA ReadLinksGoes == ASSUME TypeInv, NEW p \in Proc, ReadLinks(p) PROVE StepGoes
<1> DEFINE s == NextStep(proc[p].wf)
           todo == {[job |-> j, status |-> child[j].status, cur |-> child[j].cur] : j \in ToRetry(p)}
           x == [proc[p] EXCEPT !.pc = "mark", !.todo = todo]
           y == [proc[p] EXCEPT !.pc = s.do, !.target = s.target]
<1>1. /\ proc[p].pc = "links" /\ UNCHANGED <<wf, child, link, book, landed, raced>>
      /\ proc' = [proc EXCEPT ![p] = IF proc[p].goal = "retry" THEN x ELSE y]
  BY DEF ReadLinks, Unaltered
<1>2. proc[p] \in Process
  BY ProcessType
<1> HIDE DEF todo
<1>3. x.pc = "mark" /\ x.wf = proc[p].wf /\ x.goal = proc[p].goal
  BY <1>2 DEF Process
<1>4. y.pc = s.do /\ y.target = s.target /\ y.wf = proc[p].wf /\ y.goal = proc[p].goal
  <2> HIDE DEF s
  <2> QED BY <1>2 DEF Process
<1>5. ProcsGo
  <2>1. CASE proc[p].goal = "retry"
    <3>1. proc' = [proc EXCEPT ![p] = x]
      BY <1>1, <2>1
    <3> HIDE DEF x
    <3> QED BY <1>1, <1>3, <2>1, <3>1, OneGoes, ZenonT(40) DEF Comes
  <2>2. CASE proc[p].goal # "retry"
    <3>1. proc' = [proc EXCEPT ![p] = y]
      BY <1>1, <2>2
    <3> HIDE DEF y
    <3>2. proc'[p] = y => Comes(p)
      BY <1>1, <1>4, <2>2 DEF Comes
    <3> HIDE DEF s
    <3> QED BY <1>1, <3>1, <3>2, OneGoes
  <2> QED BY <2>1, <2>2
<1> QED BY <1>1, <1>5, ProcessStepGoes

LEMMA ReloadGoes == ASSUME TypeInv, NEW p \in Proc, Reload(p) PROVE StepGoes
<1>1. UNCHANGED <<wf, child, link, book, landed, raced>> /\ proc[p].target \in Job
  BY ProcessType DEF Reload, Unaltered, Fit
<1>2. proc[p].target.wf \in Workflow
  BY <1>1, JobFields
<1>3. Advances(p, proc[p].target.wf) \/ Done(p)
  BY DEF Reload
<1> QED BY <1>1, <1>2, <1>3, AdvancesGoes, DoneGoes, ProcessStepGoes

LEMMA VerifyGoes == ASSUME TypeInv, NEW p \in Proc, Verify(p) PROVE StepGoes
<1> DEFINE missing == (1 .. LabelWindows) \ book.labelled
           pc == IF missing = {} /\ book.voices THEN "ready" ELSE "unready"
           x == [proc[p] EXCEPT !.pc = pc, !.missing = missing]
<1>1. /\ proc[p].pc = "verify" /\ UNCHANGED <<wf, child, link, book, landed, raced>>
      /\ proc' = [proc EXCEPT ![p] = x]
  BY DEF Verify, Unaltered
<1>2. proc[p] \in Process /\ book \in Book
  BY ProcessType DEF TypeInv, TypeOK
<1>3. pc \in {"ready", "unready"} /\ (pc = "ready" => Labelled)
  BY <1>2 DEF Book, Labelled
<1> HIDE DEF missing, pc
<1>4. x.pc = pc /\ x.wf = proc[p].wf
  BY <1>2 DEF Process
<1> HIDE DEF x
<1> QED BY <1>1, <1>3, <1>4, OneGoes, SameBookLabelled, ProcessStepGoes DEF Comes

LEMMA RetryDoneGoes == ASSUME TypeInv, NEW p \in Proc, RetryDone(p) PROVE StepGoes
BY DoneGoes, ProcessStepGoes DEF RetryDone, Unaltered

\* The row that a process writes.
LEMMA WrittenRows ==
  ASSUME TypeInv, NEW p \in Proc, proc[p].wf \in Workflow, NEW status, NEW failed, Written(p, status, failed)
  PROVE  /\ wf'[proc[p].wf].status = status
         /\ \A v \in Workflow : v # proc[p].wf => wf'[v] = wf[v]
BY DEF Written, TypeInv, TypeOK, WorkflowRow

LEMMA KeepsRows ==
  ASSUME TypeInv, NEW p \in Proc, proc[p].wf \in Workflow, NEW failed, Written(p, SameStatus(p), failed),
         UNCHANGED raced
  PROVE  RowsGo
<1> DEFINE s == SameStatus(p)
<1>1. s = wf[proc[p].wf].status
  BY DEF SameStatus
<1>2. wf'[proc[p].wf].status = s /\ \A v \in Workflow : v # proc[p].wf => wf'[v] = wf[v]
  <2> HIDE DEF s
  <2> QED BY WrittenRows DEF s
<1> QED BY <1>1, <1>2 DEF RowsGo, RowStays

\* A settlement of the workflows ws by q, or by nobody.
LEMMA RacedIs ==
  ASSUME NEW q, NEW ws \in SUBSET Workflow, Races(q, ws), NEW v \in Workflow
  PROVE  /\ v \notin ws => (v \in raced' <=> v \in raced)
         /\ v \in ws /\ v \notin raced' => \A r \in Proc \ {q} : ~Midway(r, v)
BY DEF Races

LEMMA SettleGoes ==
  ASSUME TypeInv, NEW p \in Proc, KeepProgress(p) \/ FailWorkflow(p) \/ Ready(p) \/ Unready(p)
  PROVE  StepGoes
<1> DEFINE w == proc[p].wf
<1>1. /\ UNCHANGED <<child, link, book, landed>> /\ Done(p) /\ w \in Workflow
  BY ProcessType DEF KeepProgress, FailWorkflow, Ready, Unready, Fit
<1>2. ProcsGo /\ ChildrenGo /\ LinksGo
  BY <1>1, DoneGoes, ChildrenStay, LinksStay
<1>3. RowsGo
  <2>1. CASE KeepProgress(p)
    BY <1>1, <2>1, KeepsRows DEF KeepProgress
  <2>2. CASE FailWorkflow(p) \/ Ready(p) \/ Unready(p)
    <3> DEFINE ws == {w}
    <3>1. PICK status, failed : Written(p, status, failed) /\ Races(p, ws)
            /\ \/ status = "needs_review" /\ proc[p].pc \in {"fail", "unready"}
               \/ status = "succeeded" /\ proc[p].pc = "ready"
      BY <2>2 DEF FailWorkflow, Ready, Unready
    <3>2. wf'[w].status = status /\ \A v \in Workflow : v # w => wf'[v] = wf[v]
      BY <1>1, <3>1, WrittenRows
    <3>3. ws \in SUBSET Workflow
      BY <1>1
    <3>4. \A v \in Workflow : v # w => RowStays(v)
      BY <3>1, <3>2, <3>3, RacedIs DEF RowStays
    <3>5. RowSettles(w)
      <4>1. proc'[p].pc \in {"idle", "next"} /\ \A q \in Proc \ {p} : Same(q)
        BY <1>1, DoneStays
      <4>2. w \notin raced' => \A r \in Proc \ {p} : ~Midway(r, w)
        BY <1>1, <3>1, <3>3, RacedIs
      <4> QED BY <3>1, <3>2, <4>1, <4>2 DEF RowSettles
    <3> QED BY <3>4, <3>5 DEF RowsGo
  <2> QED BY <2>1, <2>2
<1> QED BY <1>2, <1>3 DEF StepGoes

LEMMA MarkGoes == ASSUME TypeInv, NEW p \in Proc, MarkRetried(p) PROVE StepGoes
<1> DEFINE w == proc[p].wf
           x == [proc[p] EXCEPT !.pc = "retry", !.target = None, !.failed = None, !.missing = {}]
<1>1. /\ proc[p].pc = "mark" /\ Written(p, "running", None) /\ raced' = raced \ {w}
      /\ UNCHANGED <<child, link, book, landed>>
      /\ proc' = [proc EXCEPT ![p] = IF proc[p].todo = {} THEN GoesOn({w}) ELSE x]
  BY DEF MarkRetried, Forgets
<1>2. w \in Workflow /\ proc[p] \in Process
  BY <1>1, ProcessType DEF Fit
<1>3. wf'[w].status = "running" /\ \A v \in Workflow : v # w => wf'[v] = wf[v]
  BY <1>1, <1>2, WrittenRows
<1>4. RowsGo
  BY <1>1, <1>2, <1>3 DEF RowsGo, RowStays, RowRuns
<1>5. x.pc = "retry" /\ x.wf = w
  BY <1>2 DEF Process
<1>6. GoesOn({w}).pc \in {"idle", "next"}
  BY GoesOnPc
<1> DEFINE y == GoesOn({w})
           z == IF proc[p].todo = {} THEN y ELSE x
<1>7. z.pc \in {"idle", "next"} \/ (z.pc = "retry" /\ z.wf = w)
  <2> HIDE DEF x, y
  <2> QED BY <1>5, <1>6 DEF y
<1>8. proc' = [proc EXCEPT ![p] = z]
  BY <1>1
<1> HIDE DEF x, y, z
<1>9. ProcsGo
  <2>1. proc'[p] = z => Comes(p)
    BY <1>1, <1>3, <1>7 DEF Comes
  <2> QED BY <1>1, <1>8, <2>1, OneGoes
<1> QED BY <1>1, <1>4, <1>9, ChildrenStay, LinksStay DEF StepGoes

\* The steps of one child.
LEMMA OneChildGoes ==
  ASSUME TypeInv, NEW j \in Job, NEW row, child' = [child EXCEPT ![j] = row], landed \subseteq landed',
         child'[j] = row => ChildGoes(j)
  PROVE  ChildrenGo
<1>1. child'[j] = row /\ \A k \in Job : k # j => child'[k] = child[k]
  BY DEF TypeInv, TypeOK
<1> QED BY <1>1 DEF ChildrenGo, ChildGoes

\* The status that a job and its row are left with.
LEMMA ChildIs == ASSUME TypeInv, NEW j \in Job PROVE child[j] \in ChildRow
BY DEF TypeInv, TypeOK

LEMMA RejectedGoes ==
  ASSUME TypeInv, NEW q \in Proc \cup {None}, NEW j \in Job, Rejected(q, j), Admissible(j),
         UNCHANGED <<link, book, landed>>, \A p \in Proc \ {q} : Same(p),
         q \in Proc => proc'[q].pc \in {"idle", "next"}
  PROVE  StepGoes
<1> DEFINE ws == {w \in Workflow : j \in link[w] /\ wf[w].status = "running"}
           row == [child[j] EXCEPT !.status = "failed"]
<1>1. /\ child' = [child EXCEPT ![j] = row]
      /\ Races(q, ws)
      /\ wf' = [w \in Workflow |->
           IF w \in ws THEN [wf[w] EXCEPT !.status = "needs_review", !.failed = j] ELSE wf[w]]
  BY DEF Rejected
<1>2. ws \in SUBSET Workflow
  OBVIOUS
<1>3. row.status = "failed" /\ child[j].status = "queued"
  BY ChildIs DEF ChildRow, Admissible
<1>4. ChildrenGo
  <2> HIDE DEF row
  <2> QED BY <1>1, <1>3, OneChildGoes DEF ChildGoes, Active, Settled
<1>5. \A w \in ws : wf[w].status = "running"
  OBVIOUS
<1> HIDE DEF ws, row
<1>6. \A w \in Workflow \ ws : RowStays(w)
  BY <1>1, <1>2, RacedIs DEF RowStays
<1>7. ASSUME NEW w \in ws PROVE RowSettles(w)
  <2>1. wf'[w].status = "needs_review" /\ wf[w].status = "running"
    BY <1>1, <1>2, <1>5 DEF TypeInv, TypeOK, WorkflowRow
  <2>2. w \notin raced' => \A r \in Proc \ {q} : ~Midway(r, w)
    BY <1>1, <1>2, RacedIs
  <2> QED BY <2>1, <2>2 DEF RowSettles
<1>8. RowsGo
  BY <1>6, <1>7 DEF RowsGo
<1>9. ProcsGo
  BY DEF ProcsGo, Comes
<1> QED BY <1>4, <1>8, <1>9, LinksStay DEF StepGoes

LEMMA AdmittedGoes ==
  ASSUME TypeInv, NEW j \in Job, Admissible(j), child' = [child EXCEPT ![j] = Admitted(@)], UNCHANGED landed
  PROVE  ChildrenGo
<1> DEFINE row == Admitted(child[j])
<1>1. row.status = "running" /\ child[j].status = "queued"
  BY ChildIs, ChildRows DEF Admissible
<1>2. child' = [child EXCEPT ![j] = row]
  OBVIOUS
<1> HIDE DEF row
<1> QED BY <1>1, <1>2, OneChildGoes DEF ChildGoes, Active

LEMMA AdmitGoes == ASSUME TypeInv, NEW p \in Proc, Admit(p) \/ AdmissionRejected(p) PROVE StepGoes
<1>1. proc[p].pc = "admit" /\ proc[p].target \in Job /\ proc[p] \in Process
  BY ProcessType DEF Admit, AdmissionRejected, Fit
<1>2. CASE Admit(p)
  <2>1. UNCHANGED <<wf, link, book, landed, raced>>
    BY <1>2 DEF Admit
  <2>2. ChildrenGo
    BY <1>1, <1>2, <2>1, AdmittedGoes, ChildrenStay DEF Admit
  <2>3. ProcsGo
    <3> DEFINE pc == IF proc[p].goal = "retry" THEN "retry" ELSE "reload"
               x == [proc[p] EXCEPT !.pc = pc]
    <3>1. Done(p) \/ proc' = [proc EXCEPT ![p] = x]
      BY <1>2 DEF Admit, GoOn, Step
    <3>2. pc \in {"retry", "reload"}
      OBVIOUS
    <3> HIDE DEF pc
    <3>3. x.pc = pc /\ x.wf = proc[p].wf /\ x.todo = proc[p].todo
      BY <1>1 DEF Process
    <3> HIDE DEF x
    <3>4. proc'[p] = x => Comes(p)
      BY <1>1, <3>2, <3>3 DEF Comes
    <3> QED BY <2>1, <3>1, <3>4, OneGoes, DoneGoes
  <2> QED BY <2>1, <2>2, <2>3, RowsStay, LinksStay DEF StepGoes
<1>3. CASE AdmissionRejected(p)
  <2>1. UNCHANGED <<link, book, landed>> /\ Done(p) /\ Rejected(p, proc[p].target) /\ Admissible(proc[p].target)
    BY <1>3 DEF AdmissionRejected
  <2>2. proc'[p].pc \in {"idle", "next"} /\ \A q \in Proc \ {p} : Same(q)
    BY <2>1, DoneStays
  <2> QED BY <1>1, <2>1, <2>2, RejectedGoes
<1> QED BY <1>2, <1>3

LEMMA RetryChildGoes == ASSUME TypeInv, NEW p \in Proc, RetryChild(p) PROVE StepGoes
<1>1. proc[p].pc = "retry" /\ UNCHANGED <<wf, link, book, landed, raced>>
  BY DEF RetryChild
<1>2. PICK r \in proc[p].todo :
        IF child[r.job].status = r.status /\ child[r.job].cur = r.cur
        THEN /\ child' = [child EXCEPT ![r.job] = Queued(child[r.job])]
             /\ proc' = [proc EXCEPT ![p] = [proc[p] EXCEPT !.pc = "admit", !.target = r.job, !.todo = @ \ {r}]]
        ELSE /\ UNCHANGED child
             /\ proc' = [proc EXCEPT ![p] = [proc[p] EXCEPT !.todo = @ \ {r}]]
  BY ZenonT(40) DEF RetryChild
<1>3. proc[p].todo \in SUBSET [job : Job, status : Settled, cur : Nat] /\ proc[p] \in Process
  BY ProcessType DEF Process
<1>4. r.job \in Job /\ r.status \in Settled
  BY <1>3
<1>5. ChildrenGo
  <2>1. CASE UNCHANGED child
    BY <1>1, <2>1, ChildrenStay
  <2>2. CASE child[r.job].status = r.status /\ child' = [child EXCEPT ![r.job] = Queued(child[r.job])]
    <3> DEFINE row == Queued(child[r.job])
    <3>1. row.status = "queued" /\ child[r.job].status \in Settled
      BY <1>4, <2>2, ChildIs, ChildRows
    <3>2. child' = [child EXCEPT ![r.job] = row]
      BY <2>2
    <3> HIDE DEF row
    <3>3. child'[r.job] = row => ChildGoes(r.job)
      BY <1>1, <3>1 DEF ChildGoes
    <3> QED BY <1>1, <1>4, <3>2, <3>3, OneChildGoes
  <2> QED BY <1>2, <2>1, <2>2
<1>6. ProcsGo
  <2> DEFINE x == [proc[p] EXCEPT !.pc = "admit", !.target = r.job, !.todo = @ \ {r}]
             y == [proc[p] EXCEPT !.todo = @ \ {r}]
  <2>1. x.pc = "admit" /\ x.wf = proc[p].wf /\ y.pc = "retry" /\ y.wf = proc[p].wf
    BY <1>1, <1>3 DEF Process
  <2>2. proc' = [proc EXCEPT ![p] = x] \/ proc' = [proc EXCEPT ![p] = y]
    BY <1>2
  <2> HIDE DEF x, y
  <2>3. proc'[p] = x \/ proc'[p] = y => Comes(p)
    BY <1>1, <2>1 DEF Comes
  <2> QED BY <1>1, <2>2, <2>3, OneGoes
<1> QED BY <1>1, <1>5, <1>6, RowsStay, LinksStay DEF StepGoes

LEMMA CancelActiveIs ==
  ASSUME TypeInv, NEW js, child' = CancelActive(js), NEW j \in Job
  PROVE  /\ j \in js => child'[j].status \notin Active
         /\ child'[j].status = child[j].status \/ (child[j].status \in Active /\ child'[j].status = "cancelled")
<1> DEFINE row == [child[j] EXCEPT !.status = "cancelled"]
<1>1. child'[j] = IF j \in js /\ child[j].status \in Active THEN row ELSE child[j]
  BY DEF CancelActive
<1>2. row.status = "cancelled" /\ "cancelled" \notin Active
  BY ChildIs DEF ChildRow, Active
<1> HIDE DEF row
<1> QED BY <1>1, <1>2

LEMMA CancelActiveGoes ==
  ASSUME TypeInv, NEW js, child' = CancelActive(js), UNCHANGED landed PROVE ChildrenGo
<1> SUFFICES ASSUME NEW j \in Job PROVE ChildGoes(j)
  BY DEF ChildrenGo
<1> QED BY CancelActiveIs DEF ChildGoes, Settled

LEMMA CancelGoes == ASSUME TypeInv, NEW p \in Proc, CancelWorkflow(p) PROVE StepGoes
<1> DEFINE w == proc[p].wf
           ws == {w}
<1>1. /\ child' = CancelActive(link[w]) /\ Done(p) /\ UNCHANGED <<link, book, landed>> /\ w \in Workflow
  BY ProcessType DEF CancelWorkflow, Fit
<1>2. ProcsGo /\ ChildrenGo /\ LinksGo
  BY <1>1, DoneGoes, CancelActiveGoes, LinksStay
<1>3. RowsGo
  <2>1. CASE UNCHANGED <<wf, raced>>
    BY <2>1, RowsStay
  <2>2. CASE wf[w].status \in {"running", "needs_review"} /\ wf' = [wf EXCEPT ![w].status = "cancelled"]
             /\ Races(p, ws)
    <3>1. wf'[w].status = "cancelled" /\ \A v \in Workflow : v # w => wf'[v] = wf[v]
      BY <1>1, <2>2 DEF TypeInv, TypeOK, WorkflowRow
    <3>2. ws \in SUBSET Workflow
      BY <1>1
    <3>3. \A v \in Workflow : v # w => RowStays(v)
      BY <2>2, <3>1, <3>2, RacedIs DEF RowStays
    <3>4. RowSettles(w)
      <4>1. proc'[p].pc \in {"idle", "next"} /\ \A q \in Proc \ {p} : Same(q)
        BY <1>1, DoneStays
      <4>2. w \notin raced' => \A r \in Proc \ {p} : ~Midway(r, w)
        BY <1>1, <2>2, <3>2, RacedIs
      <4>3. \A j \in link'[w] : child'[j].status \notin Active
        BY <1>1, CancelActiveIs DEF TypeInv, TypeOK
      <4> QED BY <2>2, <3>1, <4>1, <4>2, <4>3 DEF RowSettles
    <3> QED BY <3>3, <3>4 DEF RowsGo
  <2> QED BY <2>1, <2>2 DEF CancelWorkflow
<1> QED BY <1>2, <1>3 DEF StepGoes

LEMMA ChildStepGoes ==
  ASSUME TypeInv, NEW j \in Job, ChildStep(j) \/ ChildStrands(j) \/ RecoveryRejects(j) \/ ChildCancelled(j)
  PROVE  StepGoes
<1>0. child[j] \in ChildRow
  BY ChildIs
<1>1. CASE RecoveryAdmits(j)
  <2>1. ProcsGo
    BY <1>1, ProcsStay, SameBookLabelled DEF RecoveryAdmits, ProcsGo
  <2> QED BY <1>1, <2>1, AdmittedGoes, RowsStay, LinksStay DEF RecoveryAdmits, StepGoes
<1>2. CASE RecoveryRejects(j)
  <2>1. Rejected(None, j) /\ Admissible(j) /\ UNCHANGED <<link, book, landed, proc>>
    BY <1>2 DEF RecoveryRejects
  <2>2. None \notin Proc
    BY WorkflowConstants DEF Proc
  <2>3. \A q \in Proc \ {None} : Same(q)
    BY <2>1, ProcsStay, SameBookLabelled
  <2> QED BY <2>1, <2>2, <2>3, RejectedGoes
<1>3. CASE ChildCancelled(j)
  <2> DEFINE row == [child[j] EXCEPT !.status = "cancelled"]
  <2>1. /\ child[j].status \in Active /\ child' = [child EXCEPT ![j] = row]
        /\ UNCHANGED <<wf, link, book, proc, landed, raced>>
    BY <1>3 DEF ChildCancelled
  <2>2. row.status = "cancelled"
    BY <1>0 DEF ChildRow
  <2> HIDE DEF row
  <2>3. ChildrenGo
    BY <2>1, <2>2, OneChildGoes DEF ChildGoes, Settled
  <2>4. ProcsGo
    BY <2>1, ProcsStay, SameBookLabelled DEF ProcsGo
  <2> QED BY <2>1, <2>3, <2>4, RowsStay, LinksStay DEF StepGoes
<1>4. CASE ChildFails(j)
  <2>1. child[j].status = "running" /\ UNCHANGED <<wf, link, book, proc, landed, raced>>
    BY <1>4 DEF ChildFails, Executing
  <2>2. PICK delegated \in {child[j].delegated} \cup {j.stage = "label" /\ Verified(j)} :
          child' = [child EXCEPT ![j].status = "failed", ![j].delegated = @ \/ delegated]
    BY <1>4 DEF ChildFails
  <2> DEFINE row == [child[j] EXCEPT !.status = "failed", !.delegated = @ \/ delegated]
  <2>3. child' = [child EXCEPT ![j] = row]
    BY <1>0, <2>2 DEF TypeInv, TypeOK
  <2>4. row.status = "failed"
    BY <1>0 DEF ChildRow
  <2> HIDE DEF row
  <2>5. ChildrenGo
    BY <2>1, <2>3, <2>4, OneChildGoes DEF ChildGoes, Settled, Active
  <2>6. ProcsGo
    BY <2>1, ProcsStay, SameBookLabelled DEF ProcsGo
  <2> QED BY <2>1, <2>5, <2>6, RowsStay, LinksStay DEF StepGoes
<1>5. CASE ChildSucceeds(j)
  <2> DEFINE row == [child[j] EXCEPT !.status = "succeeded"]
  <2>1. /\ child[j].status = "running" /\ UNCHANGED <<wf, link, raced>>
        /\ child' = [child EXCEPT ![j] = row] /\ landed' = landed \cup {j}
    BY <1>5 DEF ChildSucceeds, Executing
  <2>2. row.status = "succeeded"
    BY <1>0 DEF ChildRow
  <2> HIDE DEF row
  <2>3. ChildrenGo
    BY <2>1, <2>2, OneChildGoes DEF ChildGoes, Settled, Active
  <2>4. ProcsGo
    <3>1. CASE proc' = Overtaken
      BY <3>1, OvertakenStay DEF ProcsGo
    <3>2. CASE proc' = proc /\ (Labelled => Labelled')
      BY <3>2, ProcsStay DEF ProcsGo
    <3>3. proc' = Overtaken \/ (proc' = proc /\ (Labelled => Labelled'))
      <4>1. book \in Book
        BY DEF TypeInv, TypeOK
      <4>2. CASE j.stage = "bundle"
        BY <1>5, <4>2, SameBookLabelled DEF ChildSucceeds
      <4>3. CASE j.stage = "merge"
        <5>1. book' = [book EXCEPT !.graph = @ + 1] /\ proc' = proc
          BY <1>5, <4>3 DEF ChildSucceeds
        <5>2. book'.labelled = book.labelled /\ book'.voices = book.voices
          BY <4>1, <5>1 DEF Book
        <5> QED BY <5>1, <5>2 DEF Labelled
      <4>4. CASE j.stage \notin {"bundle", "merge"}
        <5>1. PICK voiced \in BOOLEAN :
                /\ book' = [book EXCEPT !.labelled = @ \cup {j.n}, !.voices = @ /\ voiced]
                /\ proc' = IF voiced THEN proc ELSE Overtaken
          BY <1>5, <4>4 DEF ChildSucceeds
        <5>2. CASE ~voiced
          BY <5>1, <5>2
        <5>3. CASE voiced
          <6> DEFINE l == book.labelled \cup {j.n}
          <6>1. proc' = proc /\ book' = [book EXCEPT !.labelled = l, !.voices = @ /\ voiced]
            BY <5>1, <5>3
          <6>2. book'.labelled = l
            <7> HIDE DEF l
            <7> QED BY <4>1, <6>1 DEF Book
          <6>3. book.voices => book'.voices
            <7> HIDE DEF l
            <7> QED BY <4>1, <5>3, <6>1 DEF Book
          <6>4. j.n \in 1 .. LabelWindows
            BY <4>4, JobFields, WindowsAre DEF Stage
          <6>5. book.labelled = 1 .. LabelWindows => book'.labelled = 1 .. LabelWindows
            BY <6>2, <6>4
          <6> QED BY <6>1, <6>3, <6>5 DEF Labelled
        <5> QED BY <5>2, <5>3
      <4> QED BY <4>2, <4>3, <4>4
    <3> QED BY <3>1, <3>2, <3>3
  <2> QED BY <2>1, <2>3, <2>4, RowsStay, LinksStay DEF StepGoes
<1>6. CASE ChildStrands(j)
  <2> DEFINE row == [child[j] EXCEPT !.stranded = TRUE]
  <2>1. /\ child' = [child EXCEPT ![j] = row]
        /\ UNCHANGED <<wf, link, book, proc, landed, raced>>
    BY <1>6 DEF ChildStrands
  <2>2. row.status = child[j].status
    BY <1>0 DEF ChildRow
  <2> HIDE DEF row
  <2>3. ChildrenGo
    BY <2>1, <2>2, OneChildGoes DEF ChildGoes
  <2>4. ProcsGo
    BY <2>1, ProcsStay, SameBookLabelled DEF ProcsGo
  <2> QED BY <2>1, <2>3, <2>4, RowsStay, LinksStay DEF StepGoes
<1> QED BY <1>1, <1>2, <1>3, <1>4, <1>5, <1>6 DEF ChildStep

LEMMA BookStepGoes ==
  ASSUME TypeInv, GraphEdited \/ VoicesAssigned \/ BookReplaced \/ \E n \in 1 .. LabelWindows : LabelsRemoved(n)
  PROVE  StepGoes
<1>0. book \in Book
  BY DEF TypeInv, TypeOK
<1>1. CASE GraphEdited
  <2>1. book'.labelled = book.labelled /\ book'.voices = book.voices
    BY <1>0, <1>1 DEF GraphEdited, Book
  <2> QED BY <1>1, <2>1, ProcsStay, ProcessStepGoes DEF GraphEdited, Labelled, ProcsGo
<1>2. CASE VoicesAssigned
  <2>1. book'.labelled = book.labelled /\ book'.voices
    BY <1>0, <1>2 DEF VoicesAssigned, Book
  <2> QED BY <1>2, <2>1, ProcsStay, ProcessStepGoes DEF VoicesAssigned, Labelled, ProcsGo
<1>3. CASE \E n \in 1 .. LabelWindows : LabelsRemoved(n)
  BY <1>3, OvertakenStay, ProcessStepGoes DEF LabelsRemoved, ProcsGo
<1>4. CASE BookReplaced
  <2> DEFINE ws == {w \in Workflow : wf[w].status \in {"running", "needs_review"}}
  <2>1. /\ wf' = [w \in Workflow |-> IF w \in ws THEN [wf[w] EXCEPT !.status = "cancelled"] ELSE wf[w]]
        /\ child' = CancelActive(Job) /\ Races(None, ws) /\ proc' = Overtaken /\ UNCHANGED <<link, landed>>
    BY <1>4 DEF BookReplaced
  <2>2. ws \in SUBSET Workflow /\ \A w \in ws : wf[w].status \in {"running", "needs_review"}
    OBVIOUS
  <2>3. \A q \in Proc : Same(q)
    BY <2>1, OvertakenStay
  <2> HIDE DEF ws
  <2>4. \A w \in Workflow \ ws : RowStays(w)
    BY <2>1, <2>2, RacedIs DEF RowStays
  <2>5. ASSUME NEW w \in ws PROVE RowSettles(w)
    <3>1. wf'[w].status = "cancelled" /\ wf[w].status \in {"running", "needs_review"}
      BY <2>1, <2>2 DEF TypeInv, TypeOK, WorkflowRow
    <3>2. w \notin raced' => \A r \in Proc : ~Midway(r, w)
      <4>1. None \notin Proc
        BY WorkflowConstants DEF Proc
      <4> QED BY <2>1, <2>2, <4>1, RacedIs
    <3>3. \A j \in link'[w] : child'[j].status \notin Active
      BY <2>1, <2>2, CancelActiveIs DEF TypeInv, TypeOK
    <3> QED BY <2>3, <3>1, <3>2, <3>3 DEF RowSettles
  <2> QED BY <2>1, <2>3, <2>4, <2>5, CancelActiveGoes, LinksStay DEF StepGoes, ProcsGo, RowsGo
<1> QED BY <1>1, <1>2, <1>3, <1>4

LEMMA LinkedGoes ==
  ASSUME TypeInv, NEW p \in Proc, NEW j \in Job, NEW replaced, Links(p, j), Link(p, j, replaced),
         \A k \in replaced : k.stage = j.stage /\ k.n = j.n
  PROVE  StepGoes
<1> DEFINE w == j.wf
           pc == IF child'[j].status = "queued" THEN "admit" ELSE "reload"
           x == [proc[p] EXCEPT !.pc = pc, !.target = j, !.failed = None, !.missing = {}]
           row == Inserted(child[j])
<1>1. /\ child' = [child EXCEPT ![j] = row]
      /\ link' = [link EXCEPT ![w] = (link[w] \ replaced) \cup {j}]
      /\ Written(p, SameStatus(p), proc[p].failed) /\ proc' = [proc EXCEPT ![p] = x]
      /\ UNCHANGED <<book, landed, raced>>
  BY DEF Link, Forgets
<1>2. w \in Workflow /\ proc[p].wf = w /\ proc[p].pc \in {"enqueue", "repair"} /\ proc[p] \in Process
  BY JobFields, ProcessType DEF Links
<1>3. RowsGo
  BY <1>1, <1>2, KeepsRows
<1>4. ProcsGo
  <2>1. pc \in {"admit", "reload"}
    OBVIOUS
  <2> HIDE DEF pc
  <2>2. x.pc = pc /\ x.wf = w
    BY <1>2 DEF Process
  <2> HIDE DEF x
  <2>3. proc'[p] = x => Comes(p)
    BY <1>2, <2>1, <2>2 DEF Comes
  <2> QED BY <1>1, <2>3, OneGoes
<1>5. /\ link'[w] = (link[w] \ replaced) \cup {j}
      /\ \A v \in Workflow : v # w => link'[v] = link[v]
  BY <1>1, <1>2 DEF TypeInv, TypeOK
<1>6. LinksGo
  <2>1. LinkGoes(w)
    BY <1>5 DEF LinkGoes
  <2> QED BY <1>5, <2>1 DEF LinksGo
<1>7. ChildrenGo
  <2>1. \/ row.status = child[j].status
        \/ row.status = "queued" /\ child[j].status \in {"absent", "failed", "cancelled"}
    <3>1. child[j] \in ChildRow
      BY ChildIs
    <3> QED BY <3>1 DEF Inserted, Queued, ChildRow
  <2> HIDE DEF row
  <2>2. child'[j] = row => ChildGoes(j)
    BY <1>5, <2>1 DEF ChildGoes
  <2> QED BY <1>1, <2>2, OneChildGoes
<1> QED BY <1>3, <1>4, <1>6, <1>7 DEF StepGoes

LEMMA EnqueueGoes == ASSUME TypeInv, NEW p \in Proc, Enqueue(p) \/ EnqueueRepair(p) PROVE StepGoes
<1>1. CASE Throw(p) /\ Unaltered
  BY <1>1, DoneGoes, ProcessStepGoes DEF Unaltered
<1>2. ASSUME Enqueue(p), ~(Throw(p) /\ Unaltered) PROVE StepGoes
  <2> DEFINE j == EnqueuedJob(p)
             replaced == {k \in Linked(proc[p].wf, proc[p].target.stage) : k.n = proc[p].target.n}
  <2>1. proc[p].pc = "enqueue" /\ Link(p, j, replaced)
    BY <1>2 DEF Enqueue, EnqueuedJob
  <2>2. j \in Job /\ proc[p].wf = j.wf /\ j.graph = book.graph /\ j.n = proc[p].target.n
        /\ j.stage = proc[p].target.stage
    BY <2>1, EnqueuedIs DEF EnqueuedJob
  <2>3. \A k \in replaced : k.stage = j.stage /\ k.n = j.n
    BY <2>2 DEF Linked
  <2> HIDE DEF j, replaced
  <2>4. Links(p, j)
    BY <2>1, <2>2 DEF Links
  <2> QED BY <2>1, <2>2, <2>3, <2>4, LinkedGoes
<1>3. ASSUME EnqueueRepair(p), ~(Throw(p) /\ Unaltered) PROVE StepGoes
  <2> DEFINE j == RepairJob(p)
  <2>1. proc[p].pc = "repair" /\ Verified(proc[p].target) /\ Link(p, j, {})
    BY <1>3 DEF EnqueueRepair, RepairJob
  <2>2. j \in Job /\ proc[p].wf = j.wf /\ j.stage = "repair" /\ j.graph = book.graph /\ j.n = proc[p].target.n
    BY <2>1, RepairIs DEF Verified
  <2> HIDE DEF j
  <2>3. Links(p, j)
    BY <2>1, <2>2 DEF Links
  <2> QED BY <2>1, <2>2, <2>3, LinkedGoes
<1> QED BY <1>1, <1>2, <1>3

LEMMA NextGoes == ASSUME TypeInv, [Next]_vars PROVE StepGoes
<1>1. CASE UNCHANGED vars
  BY <1>1, ProcsStay, SameBookLabelled, ProcessStepGoes DEF vars, ProcsGo
<1>2. ASSUME NEW p \in Proc, Continues(p) PROVE StepGoes
  <2>1. ASSUME PassNext(p) PROVE StepGoes
    <3>1. PICK w \in proc[p].pass : Advances(p, w)
      BY <2>1 DEF PassNext
    <3>2. w \in Workflow
      BY ProcessType
    <3> QED BY <2>1, <3>2, BeginsGoes
  <2> QED BY <1>2, <2>1, ReadLinksGoes, SettleGoes, EnqueueGoes, AdmitGoes, ReloadGoes, VerifyGoes,
          MarkGoes, RetryChildGoes, RetryDoneGoes, CancelGoes DEF Continues
<1>3. ASSUME NEW p \in Proc, AdmissionRejected(p) \/ Crash(p) PROVE StepGoes
  BY <1>3, AdmitGoes, CrashGoes
<1>4. ASSUME NEW p \in Task, NEW w \in Workflow, StartWorkflow(p, w) \/ UserRetries(p, w) \/ UserCancels(p, w)
      PROVE  StepGoes
  <2>1. p \in Proc
    BY DEF Proc
  <2> QED BY <1>4, <2>1, StartGoes, BeginsGoes
<1>5. ASSUME NEW p \in Worker, NEW w \in Workflow, WorkerAdvances(p, w) PROVE StepGoes
  BY <1>5, BeginsGoes DEF Proc
<1>6. ASSUME NEW p \in Reconciler, PassBegins(p) PROVE StepGoes
  <2>1. PICK w \in Workflow : wf[w].status = "running"
    BY <1>6 DEF PassBegins
  <2> QED BY <1>6, BeginsGoes DEF Proc
<1> QED BY <1>1, <1>2, <1>3, <1>4, <1>5, <1>6, ChildStepGoes, BookStepGoes DEF Next

-----------------------------------------------------------------------------
(* Children follow the plan *)

LEMMA LandedStays ==
  ASSUME StepGoes, NEW w, NEW stages, NEW n, HasLanded(w, stages, n) PROVE HasLanded(w, stages, n)'
BY DEF StepGoes, ChildrenGo, HasLanded

LEMMA HasStays == ASSUME StepGoes, NEW w \in Workflow, NEW stage, NEW n, Has(w, stage, n) PROVE Has(w, stage, n)'
<1>1. PICK k \in link[w] : k.stage = stage /\ k.n = n
  BY DEF Has
<1>2. \E j \in link'[w] : j.stage = k.stage /\ j.n = k.n
  BY DEF StepGoes, LinksGo, LinkGoes
<1> QED BY <1>1, <1>2 DEF Has

LEMMA PlannedStays ==
  ASSUME StepGoes, NEW w \in Workflow, NEW stage, NEW n, Planned(w, stage, n) PROVE Planned(w, stage, n)'
<1>1. \A stages, m : HasLanded(w, stages, m) => HasLanded(w, stages, m)'
  BY LandedStays
<1>2. \A m : Has(w, "bundle", m) => Has(w, "bundle", m)'
  BY HasStays
<1> QED BY <1>1, <1>2 DEF Planned

\* What is linked and neither failed nor pending has been promoted.
LEMMA OverIsLanded ==
  ASSUME TypeInv, PlanInv, NEW w \in Workflow, NEW stage, ~Holds(Linked(w, stage)), NEW j \in Linked(w, stage)
  PROVE  HasLanded(w, {stage}, j.n) /\ j \in Job
<1>1. j \in Job /\ j \in link[w] /\ j.stage = stage
  BY DEF Linked, TypeInv, TypeOK
<1>2. child[j].status \notin Active \cup {"failed", "cancelled", "absent"} /\ j.wf = w
  BY <1>1 DEF Holds, Failed, Pending, TypeInv, LinksOK
<1>3. child[j].status = "succeeded"
  BY <1>1, <1>2, ChildIs DEF ChildRow, Settled
<1> QED BY <1>1, <1>2, <1>3 DEF PlanInv, HasLanded

\* The bundles that are linked are the first so many.
LEMMA BundlesInOrder ==
  ASSUME TypeInv, PlanInv, NEW w \in Workflow
  PROVE  Count(w) \in Nat /\ \A m \in 1 .. Count(w) : Has(w, "bundle", m)
<1>1. PICK N \in SUBSET (1 .. BundleWindows) :
        N = {j.n : j \in Linked(w, "bundle")} /\ IsFiniteSet(N) /\ Cardinality(N) = Count(w) /\ Count(w) \in Nat
  BY BundleNumbers
<1>2. \A m : m \in N <=> Has(w, "bundle", m)
  BY <1>1 DEF Has, Linked
<1>3. \A n \in N : \A m \in 1 .. n - 1 : m \in N
  <2>1. \A n : Has(w, "bundle", n) => \A m \in 1 .. n - 1 : Has(w, "bundle", m)
    BY DEF PlanInv, Planned, Has
  <2> QED BY <1>2, <2>1
<1>4. N \in SUBSET Nat /\ \A n \in N : n # 0
  BY WorkflowConstants
<1>5. 1 .. Cardinality(N) \subseteq N
  BY <1>1, <1>3, <1>4, NoGaps
<1> QED BY <1>1, <1>2, <1>5

LEMMA BundlesLanded ==
  ASSUME TypeInv, PlanInv, NEW w \in Workflow, ~Holds(Linked(w, "bundle")), NEW m \in 1 .. Count(w)
  PROVE  Has(w, "bundle", m) /\ HasLanded(w, {"bundle"}, m)
<1>1. Has(w, "bundle", m)
  BY BundlesInOrder
<1>2. PICK j \in Linked(w, "bundle") : j.n = m
  BY <1>1 DEF Has, Linked
<1> QED BY <1>1, <1>2, OverIsLanded

LEMMA MergingLanded ==
  ASSUME TypeInv, PlanInv, NEW w \in Workflow, Merging(w), NEW m \in 1 .. BundleWindows
  PROVE  HasLanded(w, {"bundle"}, m)
<1>1. ~Holds(Linked(w, "bundle")) /\ ~(Count(w) < BundleWindows) /\ Count(w) \in Nat
  BY BundlesInOrder DEF Merging
<1>2. m \in 1 .. Count(w)
  BY <1>1, WorkflowConstants
<1> QED BY <1>1, <1>2, BundlesLanded

LEMMA LabellingLanded ==
  ASSUME TypeInv, PlanInv, NEW w \in Workflow, Labelling(w)
  PROVE  HasLanded(w, {"merge"}, 1) /\ \A m \in 1 .. BundleWindows : HasLanded(w, {"bundle"}, m)
<1>1. PICK j \in Linked(w, "merge") : TRUE
  BY DEF Labelling
<1>2. HasLanded(w, {"merge"}, j.n) /\ j \in Job
  BY <1>1, OverIsLanded DEF Labelling
<1>3. j.n = 1
  BY <1>1, <1>2, JobFields, WindowsAre DEF Linked
<1> QED BY <1>2, <1>3, MergingLanded DEF Labelling

\* Windows that are not to do have labels, of their own or repaired.
LEMMA DoneWindows ==
  ASSUME TypeInv, PlanInv, NEW w \in Workflow, NEW m \in 1 .. LabelWindows, m \notin Todo(w)
  PROVE  HasLanded(w, {"label", "repair"}, m)
<1>1. PICK stage \in {"label", "repair"} : \E j \in Succeeded(Linked(w, stage)) : j.n = m
  BY DEF Todo, Repaired
<1>1a. PICK j \in Succeeded(Linked(w, stage)) : j.n = m
  BY <1>1
<1>2. j \in link[w] /\ j \in Job /\ j.stage = stage /\ child[j].status = "succeeded"
  BY <1>1a DEF Succeeded, Linked, TypeInv, TypeOK
<1>3. j.wf = w /\ j \in landed
  BY <1>2 DEF TypeInv, LinksOK, PlanInv
<1> QED BY <1>1, <1>1a, <1>2, <1>3 DEF HasLanded

LEMMA NextIsPlanned ==
  ASSUME TypeInv, PlanInv, NEW w \in Workflow
  PROVE  LET s == NextStep(w) IN
         /\ s.do = "enqueue" => Planned(w, s.target.stage, s.target.n)
         /\ s.do = "repair" => Planned(w, "repair", s.target.n)
<1> DEFINE s == NextStep(w)
<1>1. ASSUME NEW stage \in Stage, s = Held(Linked(w, stage)) PROVE s.do \in {"progress", "fail"}
  BY <1>1 DEF Held, Decides
<1>2. ASSUME ~Holds(Linked(w, "bundle")), s = Enqueues("bundle", Count(w) + 1)
      PROVE  s.do = "enqueue" /\ Planned(w, s.target.stage, s.target.n)
  <2> DEFINE n == Count(w) + 1
  <2>1. s.do = "enqueue" /\ s.target.stage = "bundle" /\ s.target.n = n
    BY <1>2 DEF Enqueues, Decides
  <2>2. \A m \in 1 .. n - 1 : HasLanded(w, {"bundle"}, m) /\ Has(w, "bundle", m)
    BY <1>2, BundlesLanded, BundlesInOrder
  <2> QED BY <2>1, <2>2 DEF Planned
<1>3. ASSUME Merging(w), s = Enqueues("merge", 1)
      PROVE  s.do = "enqueue" /\ Planned(w, s.target.stage, s.target.n)
  <2>1. s.do = "enqueue" /\ s.target.stage = "merge" /\ s.target.n = 1
    BY <1>3 DEF Enqueues, Decides
  <2> QED BY <1>3, <2>1, MergingLanded DEF Planned
<1>4. ASSUME Broken(w) # {}, NEW do \in {"repair", "fail"}, s = Decides(do, First(Broken(w)))
      PROVE  s.do # "enqueue" /\ Planned(w, "repair", s.target.n)
  <2>1. Broken(w) \in SUBSET Job
    BY DEF Broken, Failed, Linked, TypeInv, TypeOK
  <2>2. s.do = do /\ s.target \in Broken(w)
    BY <1>4, <2>1, FirstIs DEF Decides
  <2>3. s.target \in link[w] /\ s.target.stage = "label"
    BY <2>2 DEF Broken, Failed, Linked
  <2>4. Planned(w, "label", s.target.n)
    BY <2>3 DEF PlanInv
  <2> QED BY <1>4, <2>2, <2>4 DEF Planned
<1>5. ASSUME Labelling(w), Todo(w) # {}, s = Enqueues("label", NextWindow(Todo(w)))
      PROVE  s.do = "enqueue" /\ Planned(w, s.target.stage, s.target.n)
  <2> DEFINE n == NextWindow(Todo(w))
  <2>1. s.do = "enqueue" /\ s.target.stage = "label" /\ s.target.n = n
    BY <1>5 DEF Enqueues, Decides
  <2>2. Todo(w) \in SUBSET (1 .. LabelWindows)
    BY DEF Todo
  <2>3. n \in Todo(w) /\ \A m \in Todo(w) : n <= m
    BY <1>5, <2>2, NextWindowIs
  <2>4. \A m \in 1 .. n - 1 : m \in 1 .. LabelWindows /\ m \notin Todo(w)
    <3> HIDE DEF n
    <3> QED BY <2>2, <2>3, WorkflowConstants
  <2>5. \A m \in 1 .. n - 1 : HasLanded(w, {"label", "repair"}, m)
    BY <2>4, DoneWindows
  <2> QED BY <1>5, <2>1, <2>5, LabellingLanded DEF Planned
<1>6. ASSUME s = Decides("verify", None) PROVE s.do = "verify"
  BY <1>6 DEF Decides
<1>7. \/ \E stage \in Stage : s = Held(Linked(w, stage))
      \/ ~Holds(Linked(w, "bundle")) /\ s = Enqueues("bundle", Count(w) + 1)
      \/ Merging(w) /\ s = Enqueues("merge", 1)
      \/ Broken(w) # {} /\ \E do \in {"repair", "fail"} : s = Decides(do, First(Broken(w)))
      \/ Labelling(w) /\ Todo(w) # {} /\ s = Enqueues("label", NextWindow(Todo(w)))
      \/ s = Decides("verify", None)
  <2> HIDE DEF s
  <2> QED BY NextStepCases DEF s
<1> HIDE DEF s
<1>8. /\ s.do = "enqueue" => Planned(w, s.target.stage, s.target.n)
      /\ s.do = "repair" => Planned(w, "repair", s.target.n)
  BY <1>1, <1>2, <1>3, <1>4, <1>5, <1>6, <1>7
<1> QED BY <1>8 DEF s

LEMMA PlanStep == ASSUME TypeInv, TypeInv', PlanInv, StepGoes PROVE PlanInv'
<1>1. ASSUME NEW j \in Job, child'[j].status = "succeeded" PROVE j \in landed'
  BY <1>1 DEF StepGoes, ChildrenGo, ChildGoes, PlanInv, Active
<1>2. ASSUME NEW w \in Workflow, NEW j \in link'[w] PROVE Planned(w, j.stage, j.n)'
  <2>1. CASE j \in link[w]
    BY <2>1, PlannedStays DEF PlanInv
  <2>2. CASE j \notin link[w]
    <3>1. PICK p \in Proc : Links(p, j) /\ j.wf = w
      BY <1>2, <2>2 DEF StepGoes, LinksGo, LinkGoes
    <3>2. Planned(w, j.stage, j.n)
      BY <3>1 DEF PlanInv, Decided, Links
    <3> QED BY <3>2, PlannedStays
  <2> QED BY <2>1, <2>2
<1>3. ASSUME NEW p \in Proc PROVE Decided(p)'
  <2> DEFINE x == proc[p]
  <2>0. PICK y : y = proc'[p]
    OBVIOUS
  <2>1. y.pc \in {"enqueue", "repair"} => y.wf \in Workflow
    BY <2>0 DEF TypeInv, Wired, Fit
  <2>2. ASSUME y.pc = x.pc, y.wf = x.wf, y.target = x.target
        PROVE  /\ y.pc = "enqueue" => Planned(y.wf, y.target.stage, y.target.n)
               /\ y.pc = "repair" => Planned(y.wf, "repair", y.target.n)
    BY <2>2 DEF PlanInv, Decided
  <2>3. ASSUME Comes(p), y.pc \in {"enqueue", "repair"}
        PROVE  /\ y.pc = "enqueue" => Planned(y.wf, y.target.stage, y.target.n)
               /\ y.pc = "repair" => Planned(y.wf, "repair", y.target.n)
    <3>1. \/ y.pc = "enqueue" /\ y.target = [stage |-> "bundle", n |-> 1]
          \/ x.wf = y.wf /\ y.pc = NextStep(x.wf).do /\ y.target = NextStep(x.wf).target
      BY <2>0, <2>3 DEF Comes
    <3>2. CASE y.pc = "enqueue" /\ y.target = [stage |-> "bundle", n |-> 1]
      BY <3>2 DEF Planned
    <3>3. CASE x.wf = y.wf /\ y.pc = NextStep(x.wf).do /\ y.target = NextStep(x.wf).target
      BY <2>1, <2>3, <3>3, NextIsPlanned
    <3> QED BY <3>1, <3>2, <3>3
  <2>4. Same(p) \/ Comes(p)
    BY DEF StepGoes, ProcsGo
  <2>5. /\ y.pc = "enqueue" => Planned(y.wf, y.target.stage, y.target.n)
        /\ y.pc = "repair" => Planned(y.wf, "repair", y.target.n)
    <3>1. Same(p) => y.pc = x.pc /\ y.wf = x.wf /\ y.target = x.target
      BY <2>0 DEF Same
    <3> QED BY <2>2, <2>3, <2>4, <3>1
  <2>6. /\ y.pc = "enqueue" => Planned(y.wf, y.target.stage, y.target.n)'
        /\ y.pc = "repair" => Planned(y.wf, "repair", y.target.n)'
    BY <2>1, <2>5, PlannedStays
  <2> QED BY <2>0, <2>6 DEF Decided, Planned, HasLanded, Has
<1>4. \A j \in Job : child'[j].status = "succeeded" => j \in landed'
  BY <1>1
<1> QED BY <1>2, <1>3, <1>4 DEF PlanInv

-----------------------------------------------------------------------------
(* What runs again, what is over, what is ready *)

LEMMA ReplacedStep == ASSUME TypeInv, TypeInv', Replaced, StepGoes PROVE Replaced'
<1> SUFFICES ASSUME NEW j \in Job, child'[j].status # "absent"
             PROVE  \E k \in link'[j.wf] : k.stage = j.stage /\ k.n = j.n /\ k.graph >= j.graph
  BY DEF Replaced
<1>0. j.wf \in Workflow /\ j.graph \in Nat
  BY JobFields, WorkflowConstants
<1>1. CASE child[j].status = "absent"
  <2>1. j \in link'[j.wf]
    BY <1>1 DEF StepGoes, ChildrenGo, ChildGoes, Active, Settled
  <2> QED BY <1>0, <2>1
<1>2. CASE child[j].status # "absent"
  <2>1. PICK k \in link[j.wf] : k.stage = j.stage /\ k.n = j.n /\ k.graph >= j.graph
    BY <1>2 DEF Replaced
  <2>2. CASE k \in link'[j.wf]
    BY <2>1, <2>2
  <2>3. CASE k \notin link'[j.wf]
    <3>1. PICK p \in Proc, i \in Job : Links(p, i) /\ i \in link'[j.wf] /\ k.stage = i.stage /\ k.n = i.n
      BY <1>0, <2>1, <2>3 DEF StepGoes, LinksGo, LinkGoes
    <3>2. k \in Job /\ k.graph <= book.graph /\ i.graph = book.graph
      BY <1>0, <2>1, <3>1 DEF TypeInv, TypeOK, LinksOK, Links
    <3>3. k.graph \in Nat /\ i.graph \in Nat
      BY <3>2, JobFields, WorkflowConstants
    <3>4. i.graph >= j.graph
      BY <1>0, <2>1, <3>2, <3>3
    <3> QED BY <2>1, <3>1, <3>4
  <2> QED BY <2>2, <2>3
<1> QED BY <1>1, <1>2

LEMMA UndisturbedStep == ASSUME TypeInv, Undisturbed, StepGoes PROVE Undisturbed'
<1> SUFFICES ASSUME NEW w \in Workflow, w \notin raced',
                    wf'[w].status \in {"needs_review", "succeeded", "cancelled"}, NEW p \in Proc, proc'[p].wf = w
             PROVE  Idles(proc[p], wf[w].status)'
  BY DEF Undisturbed, Idles
<1> DEFINE x == proc[p]
<1>0. PICK y : y = proc'[p]
  OBVIOUS
<1>1. CASE RowStays(w)
  <2> DEFINE s == wf[w].status
  <2>1. w \notin raced /\ s = wf'[w].status /\ s \in {"needs_review", "succeeded", "cancelled"}
    BY <1>1 DEF RowStays
  <2>2. x.wf = w => Idles(x, s)
    BY <2>1 DEF Undisturbed
  <2>3. CASE Same(p)
    <3>1. y.pc = x.pc /\ y.wf = x.wf /\ y.goal = x.goal /\ y.todo = x.todo
      BY <1>0, <2>3 DEF Same
    <3>2. Idles(y, s)
      BY <1>0, <2>2, <3>1 DEF Idles
    <3> QED BY <1>0, <2>1, <3>2 DEF Idles
  <2>4. CASE Comes(p)
    <3>1. x.pc = "links" /\ x.goal # "retry" => x.wf # w
      BY <2>2 DEF Idles
    <3>2. Idles(y, s)
      BY <1>0, <2>1, <2>2, <2>4 DEF Comes, Idles
    <3> QED BY <1>0, <2>1, <3>2 DEF Idles
  <2> QED BY <2>3, <2>4 DEF StepGoes, ProcsGo
<1>2. CASE RowSettles(w)
  <2>1. CASE y.pc \in {"idle", "next"}
    BY <1>0, <2>1 DEF Idles
  <2>2. CASE y.pc \notin {"idle", "next"}
    <3>1. Same(p) /\ ~Midway(p, w)
      BY <1>0, <1>2, <2>2 DEF RowSettles
    <3>2. y.pc = x.pc /\ y.wf = x.wf /\ y.todo = x.todo /\ x.wf = w
      BY <1>0, <3>1 DEF Same
    <3>3. x.pc \in {"cancel", "reload"} \/ (x.pc = "admit" /\ x.todo = {})
      <4>1. x.pc \in Pc
        BY ProcessType DEF Process
      <4> QED BY <2>2, <3>1, <3>2, <4>1 DEF Midway, Pc
    <3> QED BY <1>0, <3>2, <3>3 DEF Idles
  <2> QED BY <2>1, <2>2
<1>3. CASE RowRuns(w)
  BY <1>3 DEF RowRuns
<1> QED BY <1>1, <1>2, <1>3 DEF StepGoes, RowsGo

LEMMA SeenStep == ASSUME TypeInv, SeenReady, StepGoes PROVE SeenReady'
<1> SUFFICES ASSUME NEW p \in Proc, proc'[p].pc = "ready", ~proc'[p].overtaken PROVE Labelled'
  BY DEF SeenReady
<1>1. CASE Same(p)
  BY <1>1 DEF Same, SeenReady
<1>2. CASE Comes(p)
  <2>1. \/ proc[p].pc = "verify"
        \/ proc[p].pc = "links" /\ NextStep(proc[p].wf).do = "ready"
    BY <1>2 DEF Comes
  <2>2. ASSUME proc[p].pc = "links" PROVE NextStep(proc[p].wf).do # "ready"
    <3>1. proc[p].wf \in Workflow
      BY <2>2, ProcessType DEF Fit
    <3> QED BY <3>1, NextStepType
  <2>3. proc[p].pc = "verify"
    BY <2>1, <2>2
  <2> QED BY <1>2, <2>3 DEF Comes
<1> QED BY <1>1, <1>2 DEF StepGoes, ProcsGo

Inv == TypeInv /\ PlanInv /\ Replaced /\ Undisturbed /\ SeenReady

LEMMA InitInv == Init => Inv
<1> SUFFICES ASSUME Init PROVE Inv
  OBVIOUS
<1>1. TypeInv
  BY InitTypes
<1>2. /\ \A j \in Job : child[j].status = "absent"
      /\ \A w \in Workflow : link[w] = {} /\ wf[w].status = "absent"
      /\ \A p \in Proc : proc[p].pc = "idle"
  BY DEF Init, NoChild, NoWorkflow, NoProcess
<1>3. PlanInv
  BY <1>2 DEF PlanInv, Decided
<1> QED BY <1>1, <1>2, <1>3 DEF Inv, Replaced, Undisturbed, SeenReady

LEMMA InvStep == Inv /\ [Next]_vars => Inv'
<1> SUFFICES ASSUME Inv, [Next]_vars PROVE Inv'
  OBVIOUS
<1>1. TypeInv' /\ StepGoes
  BY TypeStep, NextGoes DEF Inv
<1> QED BY <1>1, PlanStep, ReplacedStep, UndisturbedStep, SeenStep DEF Inv

LEMMA Invariant == Spec => []Inv
BY InitInv, InvStep, PTL DEF Spec

\* Every variable keeps its type.
THEOREM WorkflowTypes == Spec => []TypeOK
<1>1. Inv => TypeOK
  BY DEF Inv, TypeInv
<1> QED BY <1>1, Invariant, PTL

\* Nothing is analysed before what it builds on has been promoted.
THEOREM ChildrenFollow == Spec => []ChildrenFollowPlan
<1>1. Inv => ChildrenFollowPlan
  BY DEF Inv, PlanInv, Planned, ChildrenFollowPlan
<1> QED BY <1>1, Invariant, PTL

\* A cancelled workflow that nobody was working on leaves no child behind.
LEMMA CancelStep ==
  ASSUME TypeInv, TypeInv', Undisturbed, CancelLeavesNoChildUnlessRaced, StepGoes
  PROVE  CancelLeavesNoChildUnlessRaced'
<1> SUFFICES ASSUME NEW w \in Workflow, w \notin raced', wf'[w].status = "cancelled",
                    NEW j \in link'[w], child'[j].status \in Active
             PROVE  FALSE
  BY DEF CancelLeavesNoChildUnlessRaced, Pending
<1>0. j \in Job /\ j.wf = w
  BY DEF TypeInv, TypeOK, LinksOK
<1>1. RowStays(w)
  BY DEF StepGoes, RowsGo, RowRuns, RowSettles
<1>2. w \notin raced /\ wf[w].status = "cancelled"
  BY <1>1 DEF RowStays
<1>3. \A p \in Proc : proc[p].wf = w => Idles(proc[p], "cancelled")
  BY <1>2 DEF Undisturbed
<1>4. \A p \in Proc, i \in Job : Links(p, i) => i.wf # w
  BY <1>3 DEF Links, Idles
<1>5. j \in link[w]
  BY <1>4 DEF StepGoes, LinksGo, LinkGoes
<1>6. child[j].status \notin Active
  BY <1>2, <1>5 DEF CancelLeavesNoChildUnlessRaced, Pending
<1>7. PICK p \in Proc : proc[p].pc = "retry" /\ \E r \in proc[p].todo : r.job = j
  BY <1>0, <1>4, <1>6 DEF StepGoes, ChildrenGo, ChildGoes
<1>8. proc[p].wf = w /\ proc[p].todo # {}
  BY <1>0, <1>7, ProcessType DEF Fit
<1> QED BY <1>3, <1>7, <1>8 DEF Idles

THEOREM CancelLeavesNone == Spec => []CancelLeavesNoChildUnlessRaced
<1>1. Init => CancelLeavesNoChildUnlessRaced
  BY DEF Init, CancelLeavesNoChildUnlessRaced, NoWorkflow
<1>2. Inv /\ Inv' /\ CancelLeavesNoChildUnlessRaced /\ [Next]_vars => CancelLeavesNoChildUnlessRaced'
  BY NextGoes, CancelStep DEF Inv
<1> QED BY <1>1, <1>2, Invariant, PTL DEF Spec

\* A workflow succeeds only on readiness that was verified and still held.
THEOREM SucceedsReady == Spec => SucceedsWhenReadyUnlessOvertaken
<1>1. Inv /\ [Next]_vars =>
        \A w \in Workflow : wf[w].status # "succeeded" /\ wf'[w].status = "succeeded" =>
          \/ book.labelled = 1 .. LabelWindows /\ book.voices
          \/ \E p \in Proc : proc[p].wf = w /\ proc[p].overtaken
  <2> SUFFICES ASSUME Inv, [Next]_vars, NEW w \in Workflow, wf[w].status # "succeeded", wf'[w].status = "succeeded"
               PROVE  \/ book.labelled = 1 .. LabelWindows /\ book.voices
                      \/ \E p \in Proc : proc[p].wf = w /\ proc[p].overtaken
    OBVIOUS
  <2>1. StepGoes
    BY NextGoes DEF Inv
  <2>2. PICK p \in Proc : proc[p].pc = "ready" /\ proc[p].wf = w
    BY <2>1 DEF StepGoes, RowsGo, RowStays, RowRuns, RowSettles
  <2> QED BY <2>2 DEF Inv, SeenReady, Labelled
<1> QED BY <1>1, Invariant, PTL DEF Spec, SucceedsWhenReadyUnlessOvertaken

\* A workflow that settled undisturbed stays settled until its user retries it.
THEOREM SettledStays == Spec => SettledStaysUnlessRaced
<1>1. Inv /\ [Next]_vars =>
        \A w \in Workflow \ raced :
          wf'[w].status # wf[w].status /\ wf[w].status \in {"needs_review", "succeeded", "cancelled"} =>
            /\ wf[w].status = "needs_review"
            /\ \/ wf'[w].status = "cancelled"
               \/ wf'[w].status = "running" /\ \E p \in Task : MarkRetried(p)
  <2> SUFFICES ASSUME Inv, [Next]_vars, NEW w \in Workflow \ raced, wf'[w].status # wf[w].status,
                      wf[w].status \in {"needs_review", "succeeded", "cancelled"}
               PROVE  /\ wf[w].status = "needs_review"
                      /\ \/ wf'[w].status = "cancelled"
                         \/ wf'[w].status = "running" /\ \E p \in Task : MarkRetried(p)
    OBVIOUS
  <2>1. RowRuns(w) \/ RowSettles(w)
    BY NextGoes DEF Inv, StepGoes, RowsGo, RowStays
  <2>2. \A p \in Proc : proc[p].wf = w => Idles(proc[p], wf[w].status)
    BY DEF Inv, Undisturbed
  <2>3. CASE RowRuns(w)
    <3>1. PICK p \in Proc : proc[p].pc = "mark" /\ proc[p].wf = w /\ MarkRetried(p)
      BY <2>3 DEF RowRuns
    <3>2. wf[w].status = "needs_review" /\ proc[p].goal = "retry"
      BY <2>2, <3>1 DEF Idles
    <3>3. p \in Task
      BY <3>2, ProcessType DEF Inv
    <3> QED BY <2>3, <3>1, <3>2, <3>3 DEF RowRuns
  <2>4. CASE RowSettles(w)
    BY <2>2, <2>4 DEF RowSettles, Idles
  <2> QED BY <2>1, <2>3, <2>4
<1> QED BY <1>1, Invariant, PTL DEF Spec, SettledStaysUnlessRaced

\* A child that failed is linked again only against the links of now.
LEMMA LinksAgain ==
  ASSUME TypeInv, Replaced, NEW p \in Proc, NEW j \in Job, Links(p, j), child[j].status \in {"failed", "cancelled"}
  PROVE  NextStep(j.wf) # Decides(proc[p].pc, proc[p].target)
<1> DEFINE w == j.wf
           s == NextStep(w)
<1>1. w \in Workflow /\ j.graph \in Nat
  BY JobFields, WorkflowConstants
<1>2. j \in Linked(w, j.stage)
  <2>1. PICK k \in link[w] : k.stage = j.stage /\ k.n = j.n /\ k.graph >= j.graph
    BY DEF Replaced
  <2>2. k \in Job /\ k.wf = w /\ k.graph <= j.graph
    BY <1>1, <2>1 DEF TypeInv, TypeOK, LinksOK, Links
  <2>3. k.graph = j.graph
    BY <1>1, <2>1, <2>2, JobFields, WorkflowConstants
  <2>4. /\ j = [wf |-> j.wf, stage |-> j.stage, n |-> j.n, graph |-> j.graph]
        /\ k = [wf |-> k.wf, stage |-> k.stage, n |-> k.n, graph |-> k.graph]
    BY <2>2, JobFields
  <2>5. k = j
    BY <2>1, <2>2, <2>3, <2>4
  <2> QED BY <2>1, <2>5 DEF Linked
<1>3. Holds(Linked(w, j.stage))
  BY <1>2 DEF Holds, Failed
<1> SUFFICES ASSUME s = Decides(proc[p].pc, proc[p].target) PROVE FALSE
  OBVIOUS
<1>4. s.do = proc[p].pc /\ s.target = proc[p].target
  BY DEF Decides
<1>5. ASSUME NEW stage \in Stage, s = Held(Linked(w, stage)) PROVE FALSE
  <2>1. s.do \in {"progress", "fail"}
    BY <1>5 DEF Held, Decides
  <2> QED BY <1>4, <2>1 DEF Links
<1>6. ASSUME ~Holds(Linked(w, "bundle")), s = Enqueues("bundle", Count(w) + 1) PROVE FALSE
  <2>1. s.do = "enqueue" /\ s.target.stage = "bundle"
    BY <1>6 DEF Enqueues, Decides
  <2> QED BY <1>3, <1>4, <1>6, <2>1 DEF Links
<1>7. ASSUME Linked(w, "merge") = {}, s = Enqueues("merge", 1) PROVE FALSE
  <2>1. s.do = "enqueue" /\ s.target.stage = "merge"
    BY <1>7 DEF Enqueues, Decides
  <2> QED BY <1>2, <1>4, <1>7, <2>1 DEF Links
<1>8. ASSUME Labelling(w), NEW do \in {"repair", "fail"}, s = Decides(do, First(Broken(w))) PROVE FALSE
  <2>1. s.do \in {"repair", "fail"}
    BY <1>8 DEF Decides
  <2> QED BY <1>3, <1>4, <1>8, <2>1 DEF Links, Labelling
<1>9. ASSUME Broken(w) = {}, Todo(w) # {}, s = Enqueues("label", NextWindow(Todo(w))) PROVE FALSE
  <2>1. s.do = "enqueue" /\ s.target.stage = "label" /\ s.target.n = NextWindow(Todo(w))
    BY <1>9 DEF Enqueues, Decides
  <2>2. Todo(w) \in SUBSET (1 .. LabelWindows)
    BY DEF Todo
  <2>3. NextWindow(Todo(w)) \in Todo(w)
    BY <1>9, <2>2, NextWindowIs
  <2>4. j.n \notin Repaired(w) /\ j.stage = "label"
    BY <1>4, <2>1, <2>3 DEF Links, Todo
  <2>5. j \in Broken(w)
    BY <1>2, <2>4 DEF Broken, Failed
  <2> QED BY <1>9, <2>5
<1>10. s # Decides("verify", None)
  <2>1. Decides("verify", None).do = "verify"
    BY DEF Decides
  <2> QED BY <1>4, <2>1 DEF Links
<1>11. \/ \E stage \in Stage : s = Held(Linked(w, stage))
       \/ ~Holds(Linked(w, "bundle")) /\ s = Enqueues("bundle", Count(w) + 1)
       \/ Linked(w, "merge") = {} /\ s = Enqueues("merge", 1)
       \/ Labelling(w) /\ \E do \in {"repair", "fail"} : s = Decides(do, First(Broken(w)))
       \/ Broken(w) = {} /\ Todo(w) # {} /\ s = Enqueues("label", NextWindow(Todo(w)))
       \/ s = Decides("verify", None)
  <2> HIDE DEF s, w
  <2> QED BY NextStepCases DEF s
<1> HIDE DEF s
<1> QED BY <1>5, <1>6, <1>7, <1>8, <1>9, <1>10, <1>11

\* What failed runs again only for a user's retry, or for an advance that read
\* the links before they changed.
THEOREM RunsAgain == Spec => RunsAgainOnRetryUnlessLate
<1>1. Inv /\ [Next]_vars =>
        \A j \in Job : child[j].status \in Settled /\ child'[j].status = "queued" =>
          \/ \E p \in Task : proc[p].pc = "retry" /\ retries > 0
          \/ \E p \in Proc : proc[p].pc \in {"enqueue", "repair"} /\ proc[p].wf = j.wf
                             /\ NextStep(j.wf) # Decides(proc[p].pc, proc[p].target)
  <2> SUFFICES ASSUME Inv, [Next]_vars, NEW j \in Job, child[j].status \in Settled, child'[j].status = "queued"
               PROVE  \/ \E p \in Task : proc[p].pc = "retry" /\ retries > 0
                      \/ \E p \in Proc : proc[p].pc \in {"enqueue", "repair"} /\ proc[p].wf = j.wf
                                         /\ NextStep(j.wf) # Decides(proc[p].pc, proc[p].target)
    OBVIOUS
  <2>1. \/ \E p \in Proc : proc[p].pc = "retry"
        \/ child[j].status \in {"failed", "cancelled"} /\ \E p \in Proc : Links(p, j)
    BY NextGoes DEF Inv, StepGoes, ChildrenGo, ChildGoes, Settled, Active
  <2>2. CASE \E p \in Proc : proc[p].pc = "retry"
    <3>1. PICK p \in Proc : proc[p].pc = "retry"
      BY <2>2
    <3>2. proc[p].goal = "retry"
      BY <3>1, ProcessType DEF Inv, Fit
    <3> QED BY <3>1, <3>2, ProcessType DEF Inv
  <2>3. CASE child[j].status \in {"failed", "cancelled"} /\ \E p \in Proc : Links(p, j)
    <3>1. PICK p \in Proc : Links(p, j)
      BY <2>3
    <3>2. NextStep(j.wf) # Decides(proc[p].pc, proc[p].target)
      BY <2>3, <3>1, LinksAgain DEF Inv
    <3> QED BY <3>1, <3>2 DEF Links
  <2> QED BY <2>1, <2>2, <2>3
<1> QED BY <1>1, Invariant, PTL DEF Spec, RunsAgainOnRetryUnlessLate
=============================================================================
