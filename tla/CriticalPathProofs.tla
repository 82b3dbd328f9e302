--------------------------- MODULE CriticalPathProofs ---------------------------
(***************************************************************************)
(* Proofs about CriticalPath, for any finite set of tasks, any lags and    *)
(* any dependencies.                                                       *)
(*                                                                         *)
(* The search: a task on the stack is of a lower rank than the one that    *)
(* called for it, so a predecessor that was visited when its task is       *)
(* listed cannot be on the stack still (OrderInv).  The passes: the starts *)
(* of the tasks passed are the largest, the smallest, of what their        *)
(* predecessors, their successors, ask for (PassInv); the passes change    *)
(* none of those again, as the order is topological.  That no schedule     *)
(* does better follows at the first task in the order that would.          *)
(***************************************************************************)
EXTENDS CriticalPath, SequenceTheorems, FiniteSetTheorems,
        WellFoundedInduction, TLAPS

(* The inductive invariant. *)

OnStack(t) == \E i \in 1..Len(stack) : stack[i] = t

Listed(t) == \E i \in 1..Len(order) : order[i] = t

\* The visited tasks are on the stack or listed, and listed once; of a visited
\* one, the predecessors are visited or will be come to.
VisitInv ==
    /\ \A t \in Tasks : t \in visited <=> OnStack(t) \/ Listed(t)
    /\ \A t \in Tasks : ~(OnStack(t) /\ Listed(t))
    /\ \A i, j \in 1..Len(order) : order[i] = order[j] => i = j
    /\ \A i \in 1..Len(order) : left[order[i]] = {}
    /\ \A t \in Tasks : left[t] \subseteq Predecessors(t)
    /\ \A t \in visited \cap Tasks : Predecessors(t) \cap Tasks \subseteq left[t] \cup visited
    /\ pc \in {"forward", "backward", "done"} => stack = <<>> /\ Tasks \subseteq visited

\* Ranks fall along the stack, and a task is listed after its predecessors.
OrderInv ==
    \A rank \in [Tasks -> 1..Cardinality(Tasks)] :
        Ranks(rank) =>
            /\ \A i, j \in 1..Len(stack) : i < j => rank[stack[j]] < rank[stack[i]]
            /\ \A t \in Tasks : \A p \in Predecessors(t) \cap Tasks :
                  \A i \in 1..Len(order) :
                      order[i] = t => \E j \in 1..(i - 1) : order[j] = p

EarlyKnown(t) == ef[t] = es[t] + Duration(t) /\ IsLargest(es[t], EarliestStarts(t))

LateKnown(t) == IsSmallest(ls[t] + Duration(t), LatestFinishes(t))

\* What the passes have left behind.
PassInv ==
    /\ pc = "forward" => at \in 1..(Len(order) + 1)
    /\ pc = "backward" => at \in 0..Len(order)
    /\ pc \in {"backward", "done"} => IsLargest(length, Finishes)
    /\ Acyclic /\ pc = "forward" =>
          \A t \in Tasks : \A i \in 1..(at - 1) : order[i] = t => EarlyKnown(t)
    /\ Acyclic /\ pc \in {"backward", "done"} => \A t \in Tasks : EarlyKnown(t)
    /\ Acyclic /\ pc = "backward" =>
          \A t \in Tasks : \A i \in (at + 1)..Len(order) : order[i] = t => LateKnown(t)
    /\ Acyclic /\ pc = "done" => \A t \in Tasks : LateKnown(t)

IInv == TypeOK /\ VisitInv /\ OrderInv /\ PassInv

-------------------------------------------------------------------------------
(* Sequences, and what the type invariant says of the numbers. *)

LEMMA Pushed ==
    ASSUME NEW S, NEW q \in Seq(S), NEW x \in S
    PROVE  /\ Append(q, x) \in Seq(S)
           /\ Len(q) \in Nat
           /\ Len(Append(q, x)) = Len(q) + 1
           /\ \A i \in 1..Len(q) : Append(q, x)[i] = q[i]
           /\ Append(q, x)[Len(q) + 1] = x
  OBVIOUS

LEMMA Popped ==
    ASSUME NEW S, NEW q \in Seq(S), q # <<>>
    PROVE  /\ SubSeq(q, 1, Len(q) - 1) \in Seq(S)
           /\ Len(q) \in Nat \ {0}
           /\ Len(SubSeq(q, 1, Len(q) - 1)) = Len(q) - 1
           /\ \A i \in 1..(Len(q) - 1) : SubSeq(q, 1, Len(q) - 1)[i] = q[i]
           /\ q[Len(q)] \in S
  <1>1. /\ Len(q) \in Nat \ {0}
        /\ q[Len(q)] \in S
    OBVIOUS
  <1>2. /\ 1 \in Int /\ Len(q) - 1 \in Int
        /\ \A i \in 1..(Len(q) - 1) : q[i] \in S
    BY <1>1
  <1>3. /\ SubSeq(q, 1, Len(q) - 1) \in Seq(S)
        /\ Len(SubSeq(q, 1, Len(q) - 1)) =
             IF 1 <= Len(q) - 1 THEN (Len(q) - 1) - 1 + 1 ELSE 0
        /\ \A i \in 1..((Len(q) - 1) - 1 + 1) :
              SubSeq(q, 1, Len(q) - 1)[i] = q[1 + i - 1]
    BY <1>2, SubSeqProperties
  <1> DEFINE r == SubSeq(q, 1, Len(q) - 1)
  <1>r. /\ r \in Seq(S)
        /\ Len(r) = IF 1 <= Len(q) - 1 THEN (Len(q) - 1) - 1 + 1 ELSE 0
        /\ \A i \in 1..((Len(q) - 1) - 1 + 1) : r[i] = q[1 + i - 1]
    BY <1>3, Zenon
  <1> HIDE DEF r
  <1>4. ASSUME NEW i \in 1..(Len(q) - 1) PROVE r[i] = q[i]
    <2>1. i \in 1..((Len(q) - 1) - 1 + 1) /\ 1 + i - 1 = i
      BY <1>1
    <2> QED
      BY <1>r, <2>1
  <1>5. r \in Seq(S) /\ Len(r) = Len(q) - 1
    <2> DEFINE n == Len(q) m == Len(r)
    <2>1. n \in Nat \ {0} /\ m = IF 1 <= n - 1 THEN (n - 1) - 1 + 1 ELSE 0
      BY <1>1, <1>r
    <2> HIDE DEF n, m
    <2>2. m = n - 1
      BY <2>1
    <2> QED
      BY <1>r, <2>2 DEF n, m
  <1>6. /\ r \in Seq(S)
        /\ Len(q) \in Nat \ {0}
        /\ Len(r) = Len(q) - 1
        /\ \A i \in 1..(Len(q) - 1) : r[i] = q[i]
        /\ q[Len(q)] \in S
    BY <1>1, <1>4, <1>5
  <1> QED
    BY <1>6, Zenon DEF r

LEMMA Numbers ==
    ASSUME TypeOK
    PROVE  /\ \A t \in Tasks : Duration(t) \in Nat /\ 1 <= Duration(t)
           /\ \A t, p \in Tasks : Lag(t, p) \in Int
           /\ \A t \in Tasks : es[t] \in Int /\ ef[t] \in Int /\ ls[t] \in Int
           /\ length \in Int
  <1>1. /\ plan.duration \in [Tasks -> Nat]
        /\ plan.lag \in [Ids \X Ids -> Int]
    BY DEF TypeOK, Plan
  <1>2. \A t, p \in Tasks : <<t, p>> \in Ids \X Ids
    BY DEF Ids
  <1> QED
    BY <1>1, <1>2 DEF TypeOK, Duration, Lag

LEMMA Counted == Cardinality(Tasks) \in Nat
  BY PlanAssumption, FS_CardinalityType

-------------------------------------------------------------------------------
(* The type invariant. *)

LEMMA InitType == Init => TypeOK
  <1> SUFFICES ASSUME Init PROVE TypeOK
    OBVIOUS
  <1>1. plan \in Plan
    BY PlanAssumption DEF Init
  <1>2. stack \in Seq(Tasks) /\ order \in Seq(Tasks) /\ Len(order) = 0 /\ Len(stack) = 0
    BY DEF Init
  <1> QED
    BY <1>1, <1>2 DEF Init, TypeOK

\* A task that is entered was not on the stack.
LEMMA EnterType ==
    ASSUME TypeOK, VisitInv, NEW t \in Tasks, t \notin visited
    PROVE  /\ Append(stack, t) \in Seq(Tasks)
           /\ \A i, j \in 1..Len(Append(stack, t)) :
                 Append(stack, t)[i] = Append(stack, t)[j] => i = j
  <1> DEFINE q == Append(stack, t)
  <1>1. /\ stack \in Seq(Tasks)
        /\ \A i, j \in 1..Len(stack) : stack[i] = stack[j] => i = j
    BY DEF TypeOK
  <1>2. \A i \in 1..Len(stack) : stack[i] # t
    BY DEF VisitInv, OnStack
  <1>3. /\ q \in Seq(Tasks)
        /\ Len(stack) \in Nat
        /\ Len(q) = Len(stack) + 1
        /\ \A i \in 1..Len(stack) : q[i] = stack[i]
        /\ q[Len(stack) + 1] = t
    BY <1>1, Pushed
  <1> HIDE DEF q
  <1>4. ASSUME NEW i \in 1..Len(q), NEW j \in 1..Len(q), q[i] = q[j] PROVE i = j
    BY <1>1, <1>2, <1>3, <1>4
  <1> QED
    BY <1>3, <1>4 DEF q

LEMMA TypeStep ==
    ASSUME IInv, [Next]_vars
    PROVE  TypeOK'
  <1> USE DEF IInv
  <1>1. /\ stack \in Seq(Tasks) /\ order \in Seq(Tasks)
        /\ \A i, j \in 1..Len(stack) : stack[i] = stack[j] => i = j
        /\ left \in [Tasks -> SUBSET Ids]
        /\ Tasks \subseteq Ids
        /\ \A t \in Ids : Predecessors(t) \in SUBSET Ids
    BY DEF TypeOK, Ids, Predecessors
  <1>2. ASSUME NEW t \in Tasks, VisitTask(t) PROVE TypeOK'
    <2>1. t \notin visited
      BY <1>2 DEF VisitTask
    <2> QED
      BY <1>1, <1>2, <2>1, EnterType DEF TypeOK, VisitTask, Enter
  <1>3. ASSUME NEW p \in Ids, VisitPredecessor(p) PROVE TypeOK'
    <2>1. p \notin visited /\ p \in Tasks
      BY <1>3 DEF VisitPredecessor
    <2> QED
      BY <1>1, <1>3, <2>1, EnterType DEF TypeOK, VisitPredecessor, Enter
  <1>4. ASSUME NEW p \in Ids, SkipPredecessor(p) PROVE TypeOK'
    BY <1>1, <1>4 DEF TypeOK, SkipPredecessor
  <1>5. ASSUME NEW p \in Ids, MissPredecessor(p) PROVE TypeOK'
    BY <1>5 DEF TypeOK, MissPredecessor
  <1>6. CASE ListTask
    <2>1. stack # <<>>
      BY <1>6 DEF ListTask
    <2>2. Top \in Tasks
      BY <1>1, <2>1, Popped DEF Top
    <2>3. /\ order' \in Seq(Tasks)
          /\ Len(order) \in Nat
          /\ Len(order') = Len(order) + 1
      BY <1>1, <1>6, <2>2, Pushed DEF ListTask
    <2>4. /\ stack' \in Seq(Tasks)
          /\ Len(stack) \in Nat \ {0}
          /\ Len(stack') = Len(stack) - 1
          /\ \A i \in 1..Len(stack') : stack'[i] = stack[i]
      BY <1>1, <1>6, <2>1, Popped DEF ListTask
    <2>5. \A i, j \in 1..Len(stack') : stack'[i] = stack'[j] => i = j
      BY <1>1, <2>4
    <2>6. UNCHANGED <<plan, pc, visited, left, at, es, ef, ls, length>>
      BY <1>6 DEF ListTask
    <2>7. at' \in 0..(Len(order') + 1)
      BY <2>3, <2>6 DEF TypeOK
    <2> QED
      BY <2>3, <2>4, <2>5, <2>6, <2>7 DEF TypeOK
  <1>7. CASE EndVisits
    BY <1>1, <1>7 DEF TypeOK, EndVisits
  <1>8. CASE Forward
    <2>1. at \in 1..Len(order) /\ pc = "forward"
      BY <1>8 DEF Forward, PassInv
    <2>2. order[at] \in Tasks
      BY <1>1, <2>1
    <2>3. PICK start \in EarliestStarts(order[at]) :
             /\ es' = [es EXCEPT ![order[at]] = start]
             /\ ef' = [ef EXCEPT ![order[at]] = start + Duration(order[at])]
      BY <1>8 DEF Forward
    <2>4. start \in Int /\ Duration(order[at]) \in Int
      BY <2>2, <2>3, Numbers DEF EarliestStarts
    <2>5. es' \in [Tasks -> Int] /\ ef' \in [Tasks -> Int]
      <3>1. es \in [Tasks -> Int] /\ ef \in [Tasks -> Int]
        BY DEF TypeOK
      <3> DEFINE v == start + Duration(order[at])
      <3>2. v \in Int
        BY <2>4
      <3>3. es' = [es EXCEPT ![order[at]] = start] /\ ef' = [ef EXCEPT ![order[at]] = v]
        BY <2>3
      <3> HIDE DEF v
      <3> QED
        BY <3>1, <3>2, <3>3, <2>4
    <2>6. at' = at + 1 /\ UNCHANGED <<plan, pc, visited, stack, left, order, ls, length>>
      BY <1>8 DEF Forward
    <2>7. at' \in 0..(Len(order') + 1)
      BY <1>1, <2>1, <2>6
    <2> QED
      BY <2>5, <2>6, <2>7 DEF TypeOK
  <1>9. CASE Measure
    <2>1. \A finish \in Finishes : finish \in Int
      BY Numbers DEF Finishes
    <2>2. length' \in Int
      BY <1>9, <2>1 DEF Measure
    <2>3. pc' = "backward" /\ at' = Len(order)
          /\ UNCHANGED <<plan, visited, stack, left, order, es, ef, ls>>
      BY <1>9 DEF Measure
    <2> QED
      BY <1>1, <2>2, <2>3 DEF TypeOK
  <1>10. CASE Backward
    <2>1. at \in 1..Len(order) /\ pc = "backward"
      BY <1>1, <1>10 DEF Backward, PassInv
    <2>2. order[at] \in Tasks
      BY <1>1, <2>1
    <2>3. PICK finish \in LatestFinishes(order[at]) :
             ls' = [ls EXCEPT ![order[at]] = finish - Duration(order[at])]
      BY <1>10 DEF Backward
    <2>4. finish \in Int /\ Duration(order[at]) \in Int
      BY <2>2, <2>3, Numbers DEF LatestFinishes
    <2>5. ls' \in [Tasks -> Int]
      <3>1. ls \in [Tasks -> Int]
        BY DEF TypeOK
      <3> DEFINE v == finish - Duration(order[at])
      <3>2. v \in Int
        BY <2>4
      <3>3. ls' = [ls EXCEPT ![order[at]] = v]
        BY <2>3
      <3> HIDE DEF v
      <3> QED
        BY <3>1, <3>2, <3>3
    <2>6. at' = at - 1 /\ UNCHANGED <<plan, pc, visited, stack, left, order, es, ef, length>>
      BY <1>10 DEF Backward
    <2>7. at' \in 0..(Len(order') + 1)
      BY <1>1, <2>1, <2>6
    <2> QED
      BY <2>5, <2>6, <2>7 DEF TypeOK
  <1>11. CASE Return
    BY <1>11 DEF TypeOK, Return
  <1>12. CASE UNCHANGED vars
    BY <1>12 DEF TypeOK, vars
  <1> QED
    BY <1>2, <1>3, <1>4, <1>5, <1>6, <1>7, <1>8, <1>9, <1>10, <1>11, <1>12 DEF Next
-------------------------------------------------------------------------------
(* The search. *)

\* Where the dependencies stay what they are, so does what is read from them.
LEMMA SamePlan ==
    ASSUME plan' = plan
    PROVE  /\ \A t : Predecessors(t)' = Predecessors(t) /\ Successors(t)' = Successors(t)
           /\ \A t : Duration(t)' = Duration(t)
           /\ \A t, p : Lag(t, p)' = Lag(t, p)
           /\ Acyclic' <=> Acyclic
  BY DEF Predecessors, Successors, Duration, Lag, Acyclic, Ranks

LEMMA EnterVisits ==
    ASSUME TypeOK, VisitInv, NEW t \in Tasks, t \notin visited, pc = "visit",
           UNCHANGED <<plan, pc>>, Enter(t),
           left' \in [Tasks -> SUBSET Ids], left'[t] = Predecessors(t),
           \A u \in Tasks \ {t} : left'[u] \subseteq left[u] /\ left[u] \subseteq left'[u] \cup {t},
           \A u \in Tasks : Listed(u) => left'[u] = left[u]
    PROVE  VisitInv'
  <1>1. /\ stack \in Seq(Tasks) /\ order \in Seq(Tasks)
        /\ Len(order) \in Nat /\ Len(stack) \in Nat
    BY DEF TypeOK
  <1>2. /\ Len(stack') = Len(stack) + 1
        /\ \A i \in 1..Len(stack) : stack'[i] = stack[i]
        /\ stack'[Len(stack) + 1] = t
    BY <1>1, Pushed DEF Enter
  <1>3. visited' = visited \cup {t} /\ order' = order
    BY DEF Enter
  <1>4. ~OnStack(t) /\ ~Listed(t)
    BY DEF VisitInv
  <1>5. \A u : OnStack(u)' <=> OnStack(u) \/ u = t
    <2> SUFFICES ASSUME NEW u PROVE OnStack(u)' <=> OnStack(u) \/ u = t
      OBVIOUS
    <2>1. ASSUME NEW i \in 1..Len(stack'), stack'[i] = u PROVE OnStack(u) \/ u = t
      BY <1>1, <1>2, <2>1 DEF OnStack
    <2>2. ASSUME NEW i \in 1..Len(stack), stack[i] = u
          PROVE  i \in 1..Len(stack') /\ stack'[i] = u
      BY <1>1, <1>2, <2>2
    <2>3. Len(stack) + 1 \in 1..Len(stack')
      BY <1>1, <1>2
    <2> QED
      BY <1>2, <2>1, <2>2, <2>3 DEF OnStack
  <1>6. \A u : Listed(u)' <=> Listed(u)
    BY <1>3 DEF Listed
  <1>7. \A u \in Tasks : u \in visited' <=> OnStack(u)' \/ Listed(u)'
    BY <1>3, <1>5, <1>6 DEF VisitInv
  <1>8. \A u \in Tasks : ~(OnStack(u)' /\ Listed(u)')
    BY <1>4, <1>5, <1>6 DEF VisitInv
  <1>9. \A i \in 1..Len(order') : left'[order'[i]] = {}
    <2> TAKE i \in 1..Len(order')
    <2>1. Listed(order[i]) /\ order[i] \in Tasks
      BY <1>1, <1>3 DEF Listed
    <2>2. left[order[i]] = {}
      BY <1>3 DEF VisitInv
    <2>3. left'[order[i]] = left[order[i]]
      BY <2>1
    <2> QED
      BY <1>3, <2>2, <2>3
  <1>10. \A u \in visited' \cap Tasks :
            Predecessors(u)' \cap Tasks \subseteq left'[u] \cup visited'
    BY <1>3, SamePlan DEF VisitInv
  <1>11. \A u \in Tasks : left'[u] \subseteq Predecessors(u)'
    BY SamePlan DEF VisitInv
  <1> QED
    BY <1>3, <1>7, <1>8, <1>9, <1>10, <1>11 DEF VisitInv

LEMMA ListVisits ==
    ASSUME TypeOK, VisitInv, ListTask
    PROVE  VisitInv'
  <1>1. /\ stack \in Seq(Tasks) /\ order \in Seq(Tasks)
        /\ stack # <<>>
        /\ \A i, j \in 1..Len(stack) : stack[i] = stack[j] => i = j
        /\ Top \in Tasks
        /\ Len(order) \in Nat /\ Len(stack) \in Nat \ {0}
    <2>1. /\ stack \in Seq(Tasks) /\ order \in Seq(Tasks)
          /\ \A i, j \in 1..Len(stack) : stack[i] = stack[j] => i = j
      BY DEF TypeOK
    <2>2. stack # <<>>
      BY DEF ListTask
    <2> QED
      BY <2>1, <2>2, Popped DEF Top
  <1>2. /\ Len(stack') = Len(stack) - 1
        /\ \A i \in 1..(Len(stack) - 1) : stack'[i] = stack[i]
    BY <1>1, Popped DEF ListTask
  <1>3. /\ Len(order') = Len(order) + 1
        /\ \A i \in 1..Len(order) : order'[i] = order[i]
        /\ order'[Len(order) + 1] = Top
    BY <1>1, Pushed DEF ListTask
  <1>4. left[Top] = {} /\ UNCHANGED <<plan, pc, visited, left>> /\ pc = "visit"
    BY DEF ListTask
  <1>5. OnStack(Top) /\ ~Listed(Top)
    <2>1. Top = stack[Len(stack)] /\ Len(stack) \in 1..Len(stack)
      BY <1>1 DEF Top
    <2>2. OnStack(Top)
      BY <2>1, Zenon DEF OnStack
    <2> QED
      BY <1>1, <2>2, Zenon DEF VisitInv
  <1>6. \A u : Listed(u)' <=> Listed(u) \/ u = Top
    BY <1>1, <1>3 DEF Listed
  <1>7. \A u : OnStack(u)' <=> OnStack(u) /\ u # Top
    <2>1. \A i \in 1..(Len(stack) - 1) : stack[i] # Top
      BY <1>1 DEF Top
    <2> QED
      BY <1>1, <1>2, <2>1 DEF OnStack, Top
  <1>8. \A u \in Tasks : u \in visited' <=> OnStack(u)' \/ Listed(u)'
    BY <1>4, <1>5, <1>6, <1>7 DEF VisitInv
  <1>9. \A u \in Tasks : ~(OnStack(u)' /\ Listed(u)')
    BY <1>6, <1>7 DEF VisitInv
  <1>10. \A i, j \in 1..Len(order') : order'[i] = order'[j] => i = j
    <2>1. /\ \A i, j \in 1..Len(order) : order[i] = order[j] => i = j
          /\ \A i \in 1..Len(order) : order[i] # Top
      BY <1>5 DEF VisitInv, Listed
    <2> TAKE i, j \in 1..Len(order')
    <2> HAVE order'[i] = order'[j]
    <2>2. /\ i \in 1..Len(order) \/ i = Len(order) + 1
          /\ j \in 1..Len(order) \/ j = Len(order) + 1
      BY <1>1, <1>3
    <2> QED
      BY <1>3, <2>1, <2>2
  <1>11. \A i \in 1..Len(order') : left'[order'[i]] = {}
    <2>1. \A i \in 1..Len(order) : left[order[i]] = {}
      BY DEF VisitInv
    <2> TAKE i \in 1..Len(order')
    <2>2. i \in 1..Len(order) \/ i = Len(order) + 1
      BY <1>1, <1>3
    <2> QED
      BY <1>3, <1>4, <2>1, <2>2
  <1>12. \A u \in visited' \cap Tasks :
            Predecessors(u)' \cap Tasks \subseteq left'[u] \cup visited'
    BY <1>4, SamePlan DEF VisitInv
  <1>13. \A u \in Tasks : left'[u] \subseteq Predecessors(u)'
    BY <1>4, SamePlan DEF VisitInv
  <1> QED
    BY <1>4, <1>8, <1>9, <1>10, <1>11, <1>12, <1>13 DEF VisitInv

LEMMA InitVisits == Init => VisitInv
  <1> SUFFICES ASSUME Init PROVE VisitInv
    OBVIOUS
  <1>1. /\ Len(stack) = 0 /\ Len(order) = 0 /\ visited = {} /\ pc = "visit"
        /\ \A t \in Tasks : left[t] = {}
    BY DEF Init
  <1> QED
    BY <1>1 DEF VisitInv, OnStack, Listed

LEMMA VisitStep ==
    ASSUME TypeOK, VisitInv, [Next]_vars
    PROVE  VisitInv'
  <1>1. /\ left \in [Tasks -> SUBSET Ids]
        /\ \A t \in Ids : Predecessors(t) \in SUBSET Ids
        /\ Tasks \subseteq Ids
    BY DEF TypeOK, Predecessors, Ids
  <1>2. ASSUME NEW t \in Tasks, VisitTask(t) PROVE VisitInv'
    <2>1. /\ t \notin visited /\ pc = "visit"
          /\ UNCHANGED <<plan, pc>> /\ Enter(t)
          /\ left' = [left EXCEPT ![t] = Predecessors(t)]
      BY <1>2 DEF VisitTask
    <2>2. ~Listed(t)
      BY <2>1 DEF VisitInv
    <2>3. /\ left' \in [Tasks -> SUBSET Ids]
          /\ left'[t] = Predecessors(t)
          /\ \A u \in Tasks \ {t} : left'[u] = left[u]
      BY <1>1, <2>1
    <2>4. \A u \in Tasks : Listed(u) => left'[u] = left[u]
      BY <2>2, <2>3
    <2> QED
      BY <2>1, <2>3, <2>4, EnterVisits
  <1>3. ASSUME NEW p \in Ids, VisitPredecessor(p) PROVE VisitInv'
    <2>1. /\ p \notin visited /\ p \in Tasks /\ pc = "visit" /\ stack # <<>>
          /\ p \in left[Top]
          /\ UNCHANGED <<plan, pc>> /\ Enter(p)
          /\ left' = [left EXCEPT ![Top] = @ \ {p}, ![p] = Predecessors(p)]
      BY <1>3 DEF VisitPredecessor
    <2>2. ~Listed(p)
      BY <2>1 DEF VisitInv
    <2>3. Top \in Tasks /\ ~Listed(Top) /\ OnStack(Top)
      <3>1. stack \in Seq(Tasks) /\ Len(stack) \in 1..Len(stack)
        BY <2>1 DEF TypeOK
      <3> QED
        BY <3>1 DEF VisitInv, OnStack, Top
    <2>4. p # Top
      BY <2>1, <2>3 DEF VisitInv
    <2>5. /\ left' \in [Tasks -> SUBSET Ids]
          /\ left'[p] = Predecessors(p)
          /\ left'[Top] = left[Top] \ {p}
          /\ \A u \in Tasks \ {p, Top} : left'[u] = left[u]
      BY <1>1, <2>1, <2>3, <2>4
    <2>6. \A u \in Tasks : Listed(u) => left'[u] = left[u]
      BY <2>2, <2>3, <2>5
    <2>7. \A u \in Tasks \ {p} : left'[u] \subseteq left[u] /\ left[u] \subseteq left'[u] \cup {p}
      BY <2>5
    <2> QED
      BY <2>1, <2>5, <2>6, <2>7, EnterVisits
  <1>4. ASSUME NEW p \in Ids, SkipPredecessor(p) PROVE VisitInv'
    <2>1. /\ stack # <<>> /\ p \in visited
          /\ left' = [left EXCEPT ![Top] = @ \ {p}]
          /\ UNCHANGED <<plan, pc, visited, stack, order>>
      BY <1>4 DEF SkipPredecessor
    <2>2. \A u \in Tasks : left'[u] = left[u] \/ left'[u] = left[u] \ {p}
      BY <1>1, <2>1
    <2>3. \A u \in visited' \cap Tasks :
            Predecessors(u)' \cap Tasks \subseteq left'[u] \cup visited'
      BY <2>1, <2>2, SamePlan DEF VisitInv
    <2>4. order \in Seq(Tasks)
      BY DEF TypeOK
    <2>5. \A i \in 1..Len(order') : left'[order'[i]] = {}
      BY <2>1, <2>2, <2>4 DEF VisitInv
    <2>6. \A u \in Tasks : left'[u] \subseteq Predecessors(u)'
      BY <2>1, <2>2, SamePlan DEF VisitInv
    <2> QED
      BY <2>1, <2>3, <2>5, <2>6 DEF VisitInv, OnStack, Listed
  <1>5. ASSUME NEW p \in Ids, MissPredecessor(p) PROVE VisitInv'
    <2>1. /\ p \notin Tasks /\ visited' = visited \cup {p} /\ pc' = "failed"
          /\ UNCHANGED <<plan, stack, left, order>>
      BY <1>5 DEF MissPredecessor
    <2>2. \A u \in visited' \cap Tasks :
            Predecessors(u)' \cap Tasks \subseteq left'[u] \cup visited'
      BY <2>1, SamePlan DEF VisitInv
    <2>3. \A u \in Tasks : left'[u] \subseteq Predecessors(u)'
      BY <2>1, SamePlan DEF VisitInv
    <2> QED
      BY <2>1, <2>2, <2>3 DEF VisitInv, OnStack, Listed
  <1>6. CASE ListTask
    BY <1>6, ListVisits
  <1>7. CASE EndVisits \/ Forward \/ Measure \/ Backward \/ Return \/ UNCHANGED vars
    <2>1. UNCHANGED <<plan, visited, stack, left, order>>
      BY <1>7 DEF EndVisits, Forward, Measure, Backward, Return, vars
    <2>2. pc' \in {"forward", "backward", "done"} => stack = <<>> /\ Tasks \subseteq visited
      BY <1>7 DEF EndVisits, Forward, Measure, Backward, Return, vars, VisitInv
    <2>3. \A t : Predecessors(t)' = Predecessors(t)
      BY <2>1, SamePlan
    <2> QED
      BY <2>1, <2>2, <2>3 DEF VisitInv, OnStack, Listed
  <1> QED
    BY <1>2, <1>3, <1>4, <1>5, <1>6, <1>7 DEF Next
-------------------------------------------------------------------------------
(* The order. *)

LEMMA InitOrder == Init => OrderInv
  <1> SUFFICES ASSUME Init PROVE OrderInv
    OBVIOUS
  <1>1. Len(stack) = 0 /\ Len(order) = 0
    BY DEF Init
  <1> QED
    BY <1>1 DEF OrderInv

\* The ranks of the tasks on the stack still fall when a predecessor is entered.
LEMMA EnterRanks ==
    ASSUME TypeOK, stack # <<>>, NEW p \in Tasks, p \in Predecessors(Top), Enter(p),
           NEW rank \in [Tasks -> 1..Cardinality(Tasks)], Ranks(rank),
           \A i, j \in 1..Len(stack) : i < j => rank[stack[j]] < rank[stack[i]]
    PROVE  \A i, j \in 1..Len(stack') : i < j => rank[stack'[j]] < rank[stack'[i]]
  <1>1. /\ stack \in Seq(Tasks) /\ Len(stack) \in Nat \ {0}
        /\ Top \in Tasks /\ Top = stack[Len(stack)]
    BY Popped DEF TypeOK, Top
  <1>2. /\ Len(stack') = Len(stack) + 1
        /\ \A i \in 1..Len(stack) : stack'[i] = stack[i]
        /\ stack'[Len(stack) + 1] = p
    BY <1>1, Pushed DEF Enter
  <1>3. rank[p] < rank[Top]
    BY <1>1 DEF Ranks
  <1>4. \A t \in Tasks : rank[t] \in Int
    BY Counted
  <1>5. \A i \in 1..Len(stack) : stack[i] \in Tasks
    BY <1>1
  <1> TAKE i, j \in 1..Len(stack')
  <1> HAVE i < j
  <1>6. i \in 1..Len(stack)
    BY <1>1, <1>2
  <1>7. CASE j \in 1..Len(stack)
    BY <1>2, <1>6, <1>7
  <1>8. CASE j = Len(stack) + 1
    <2>1. rank[Top] <= rank[stack[i]]
      <3>1. CASE i = Len(stack)
        BY <1>1, <1>4, <3>1
      <3>2. CASE i < Len(stack)
        <4>1. Len(stack) \in 1..Len(stack)
          BY <1>1
        <4>2. rank[stack[Len(stack)]] < rank[stack[i]]
          BY <1>6, <3>2, <4>1
        <4> QED
          BY <1>1, <1>4, <1>5, <1>6, <4>2
      <3> QED
        BY <1>1, <1>6, <3>1, <3>2
    <2>2. rank[p] < rank[stack[i]]
      BY <1>1, <1>3, <1>4, <1>5, <1>6, <2>1
    <2> QED
      BY <1>2, <1>6, <1>8, <2>2
  <1>9. j \in 1..Len(stack) \/ j = Len(stack) + 1
    BY <1>1, <1>2
  <1> QED
    BY <1>7, <1>8, <1>9, Zenon

\* The predecessors of the task that is listed are listed: they were visited,
\* and those on the stack are of higher ranks.
LEMMA ListAfter ==
    ASSUME TypeOK, VisitInv, stack # <<>>, left[Top] = {},
           NEW rank \in [Tasks -> 1..Cardinality(Tasks)], Ranks(rank),
           \A i, j \in 1..Len(stack) : i < j => rank[stack[j]] < rank[stack[i]],
           NEW p \in Predecessors(Top) \cap Tasks
    PROVE  Listed(p)
  <1>1. /\ stack \in Seq(Tasks) /\ Len(stack) \in Nat \ {0}
        /\ Top \in Tasks /\ Top = stack[Len(stack)]
    BY Popped DEF TypeOK, Top
  <1>2. Len(stack) \in 1..Len(stack)
    BY <1>1
  <1>3. OnStack(Top)
    BY <1>1, <1>2, Zenon DEF OnStack
  <1>4. Top \in visited
    BY <1>1, <1>3, Zenon DEF VisitInv
  <1>5. Predecessors(Top) \cap Tasks \subseteq left[Top] \cup visited
    BY <1>1, <1>4, Zenon DEF VisitInv
  <1>6. OnStack(p) \/ Listed(p)
    <2>1. p \in visited /\ p \in Tasks
      BY <1>5
    <2> QED
      BY <2>1, Zenon DEF VisitInv
  <1>7. ASSUME OnStack(p) PROVE FALSE
    <2>1. PICK i \in 1..Len(stack) : stack[i] = p
      BY <1>7 DEF OnStack
    <2>2. rank[p] < rank[Top] /\ rank[p] \in Int /\ rank[Top] \in Int
      BY <1>1, Counted DEF Ranks
    <2>3. CASE i = Len(stack)
      BY <1>1, <2>1, <2>2, <2>3
    <2>4. CASE i < Len(stack)
      BY <1>1, <1>2, <2>1, <2>2, <2>4
    <2> QED
      BY <1>1, <2>3, <2>4
  <1> QED
    BY <1>6, <1>7

LEMMA OrderStep ==
    ASSUME TypeOK, VisitInv, OrderInv, [Next]_vars
    PROVE  OrderInv'
  <1>1. UNCHANGED plan
    BY DEF Next, VisitTask, VisitPredecessor, SkipPredecessor, MissPredecessor, ListTask,
           EndVisits, Forward, Measure, Backward, Return, vars
  <1> SUFFICES
        ASSUME NEW rank \in [Tasks -> 1..Cardinality(Tasks)], Ranks(rank)
        PROVE  /\ \A i, j \in 1..Len(stack') : i < j => rank[stack'[j]] < rank[stack'[i]]
               /\ \A t \in Tasks : \A p \in Predecessors(t) \cap Tasks :
                     \A i \in 1..Len(order') :
                         order'[i] = t => \E j \in 1..(i - 1) : order'[j] = p
    BY <1>1 DEF OrderInv, Ranks, Predecessors
  <1>2. \A i, j \in 1..Len(stack) : i < j => rank[stack[j]] < rank[stack[i]]
    BY DEF OrderInv
  <1>3. \A t \in Tasks : \A p \in Predecessors(t) \cap Tasks :
           \A i \in 1..Len(order) : order[i] = t => \E j \in 1..(i - 1) : order[j] = p
    BY DEF OrderInv
  <1>4. /\ stack \in Seq(Tasks) /\ order \in Seq(Tasks)
        /\ Len(order) \in Nat /\ Len(stack) \in Nat
    BY DEF TypeOK
  <1>5. ASSUME NEW t \in Tasks, VisitTask(t)
        PROVE  \A i, j \in 1..Len(stack') : i < j => rank[stack'[j]] < rank[stack'[i]]
    <2>1. Len(stack') = 1
      BY <1>5 DEF VisitTask, Enter
    <2> QED
      BY <2>1
  <1>6. ASSUME NEW p \in Ids, VisitPredecessor(p)
        PROVE  \A i, j \in 1..Len(stack') : i < j => rank[stack'[j]] < rank[stack'[i]]
    <2>1. stack # <<>> /\ p \in Tasks /\ p \in left[Top] /\ Enter(p)
      BY <1>6 DEF VisitPredecessor
    <2>2. Top \in Tasks
      BY <1>4, <2>1, Popped DEF Top
    <2>3. p \in Predecessors(Top)
      BY <2>1, <2>2 DEF VisitInv
    <2> QED
      BY <1>2, <2>1, <2>3, EnterRanks
  <1>7. CASE ListTask
    <2>1. stack # <<>> /\ left[Top] = {}
      BY <1>7 DEF ListTask
    <2>2. \A p \in Predecessors(Top) \cap Tasks : Listed(p)
      BY <1>2, <2>1, ListAfter
    <2>3. /\ Len(stack') = Len(stack) - 1
          /\ \A i \in 1..(Len(stack) - 1) : stack'[i] = stack[i]
          /\ Top \in Tasks
      BY <1>4, <1>7, <2>1, Popped DEF ListTask, Top
    <2>4. /\ Len(order') = Len(order) + 1
          /\ \A i \in 1..Len(order) : order'[i] = order[i]
          /\ order'[Len(order) + 1] = Top
      BY <1>4, <1>7, <2>3, Pushed DEF ListTask
    <2>5. \A i, j \in 1..Len(stack') : i < j => rank[stack'[j]] < rank[stack'[i]]
      <3> TAKE i, j \in 1..Len(stack')
      <3> HAVE i < j
      <3>1. i \in 1..(Len(stack) - 1) /\ j \in 1..(Len(stack) - 1)
        BY <2>3
      <3>2. i \in 1..Len(stack) /\ j \in 1..Len(stack)
        BY <1>4, <3>1
      <3>3. rank[stack[j]] < rank[stack[i]]
        BY <1>2, <3>2
      <3> QED
        BY <2>3, <3>1, <3>3
    <2>6. ASSUME NEW t \in Tasks, NEW p \in Predecessors(t) \cap Tasks,
                 NEW i \in 1..Len(order'), order'[i] = t
          PROVE  \E j \in 1..(i - 1) : order'[j] = p
      <3>1. \E j \in 1..(i - 1) : j \in 1..Len(order) /\ order[j] = p
        <4>1. CASE i \in 1..Len(order)
          <5>1. PICK j \in 1..(i - 1) : order[j] = p
            BY <1>3, <2>4, <2>6, <4>1
          <5> QED
            BY <1>4, <4>1, <5>1
        <4>2. CASE i = Len(order) + 1
          <5>1. t = Top
            BY <2>4, <2>6, <4>2
          <5>2. PICK j \in 1..Len(order) : order[j] = p
            BY <2>2, <5>1 DEF Listed
          <5> QED
            BY <1>4, <4>2, <5>2
        <4> QED
          BY <1>4, <2>4, <4>1, <4>2
      <3> QED
        BY <2>4, <3>1
    <2> QED
      BY <2>5, <2>6
  <1>8. CASE UNCHANGED <<stack, order>>
    BY <1>2, <1>3, <1>8
  <1>9. \/ \E t \in Tasks : VisitTask(t)
        \/ \E p \in Ids : VisitPredecessor(p)
        \/ ListTask
        \/ UNCHANGED <<stack, order>>
    BY DEF Next, SkipPredecessor, MissPredecessor, EndVisits, Forward, Measure, Backward,
           Return, vars
  <1>10. (\E t \in Tasks : VisitTask(t)) \/ (\E p \in Ids : VisitPredecessor(p)) => order' = order
    BY DEF VisitTask, VisitPredecessor, Enter
  <1> QED
    BY <1>3, <1>5, <1>6, <1>7, <1>8, <1>9, <1>10
-------------------------------------------------------------------------------
(* The passes. *)

\* After the search every task is listed, once, its predecessors before it.
LEMMA AllListed ==
    ASSUME TypeOK, VisitInv, OrderInv, pc \in {"forward", "backward", "done"}
    PROVE  /\ order \in Seq(Tasks) /\ Len(order) \in Nat
           /\ \A t \in Tasks : \E i \in 1..Len(order) : order[i] = t
           /\ \A i, j \in 1..Len(order) : order[i] = order[j] => i = j
           /\ Acyclic => \A i, j \in 1..Len(order) :
                            order[j] \in Predecessors(order[i]) => j < i
  <1>1. order \in Seq(Tasks) /\ Len(order) \in Nat /\ \A i \in 1..Len(order) : order[i] \in Tasks
    BY DEF TypeOK
  <1>2. \A t \in Tasks : \E i \in 1..Len(order) : order[i] = t
    BY DEF VisitInv, OnStack, Listed
  <1>3. \A i, j \in 1..Len(order) : order[i] = order[j] => i = j
    BY DEF VisitInv
  <1>4. ASSUME Acyclic, NEW i \in 1..Len(order), NEW j \in 1..Len(order),
               order[j] \in Predecessors(order[i])
        PROVE  j < i
    <2>1. PICK k \in 1..(i - 1) : order[k] = order[j]
      BY <1>1, <1>4 DEF Acyclic, OrderInv
    <2>2. k \in 1..Len(order)
      BY <1>1, <2>1
    <2>3. k = j
      BY <1>3, <2>1, <2>2
    <2> QED
      BY <1>1, <2>1, <2>3
  <1> QED
    BY <1>1, <1>2, <1>3, <1>4

\* What a task waits for, one by one.
LEMMA EarlyMeans ==
    ASSUME NEW t
    PROVE  EarlyKnown(t) <=>
             /\ ef[t] = es[t] + Duration(t)
             /\ 0 <= es[t]
             /\ \A p \in Predecessors(t) \cap Tasks : ef[p] + Lag(t, p) <= es[t]
             /\ es[t] = 0 \/ \E p \in Predecessors(t) \cap Tasks : es[t] = ef[p] + Lag(t, p)
  BY DEF EarlyKnown, IsLargest, EarliestStarts

LEMMA LateMeans ==
    ASSUME TypeOK, NEW t
    PROVE  LateKnown(t) <=>
             \/ /\ Successors(t) \cap Tasks = {}
                /\ ls[t] + Duration(t) = length
             \/ /\ \A s \in Successors(t) \cap Tasks : ls[t] + Duration(t) <= ls[s] - Lag(s, t)
                /\ \E s \in Successors(t) \cap Tasks : ls[t] + Duration(t) = ls[s] - Lag(s, t)
  <1> DEFINE starts == {ls[s] - Lag(s, t) : s \in Successors(t) \cap Tasks}
  <1>1. starts = {} <=> Successors(t) \cap Tasks = {}
    OBVIOUS
  <1>2. CASE starts = {}
    BY <1>1, <1>2, Numbers DEF LateKnown, IsSmallest, LatestFinishes
  <1>3. CASE starts # {}
    BY <1>1, <1>3 DEF LateKnown, IsSmallest, LatestFinishes
  <1> QED
    BY <1>2, <1>3

\* A step that leaves a task and its predecessors alone leaves what is known.
LEMMA EarlyStays ==
    ASSUME NEW t \in Tasks, EarlyKnown(t), UNCHANGED plan,
           es'[t] = es[t], ef'[t] = ef[t],
           \A p \in Predecessors(t) \cap Tasks : ef'[p] = ef[p]
    PROVE  EarlyKnown(t)'
  <1>1. /\ ef[t] = es[t] + Duration(t)
        /\ IsLargest(es[t], EarliestStarts(t))
    BY DEF EarlyKnown
  <1>2. /\ Predecessors(t)' = Predecessors(t) /\ Duration(t)' = Duration(t)
        /\ \A p : Lag(t, p)' = Lag(t, p)
    BY SamePlan
  <1>3. EarliestStarts(t)' = EarliestStarts(t)
    BY <1>2 DEF EarliestStarts
  <1> QED
    BY <1>1, <1>2, <1>3 DEF EarlyKnown, IsLargest

LEMMA FinishesStay ==
    ASSUME NEW t, UNCHANGED <<plan, length>>,
           \A s \in Successors(t) \cap Tasks : ls'[s] = ls[s]
    PROVE  LatestFinishes(t)' = LatestFinishes(t)
  <1>1. /\ Successors(t)' = Successors(t)
        /\ \A s : Lag(s, t)' = Lag(s, t)
    BY SamePlan
  <1> QED
    BY <1>1 DEF LatestFinishes

LEMMA LateStays ==
    ASSUME NEW t \in Tasks, LateKnown(t), UNCHANGED <<plan, length>>,
           ls'[t] = ls[t],
           \A s \in Successors(t) \cap Tasks : ls'[s] = ls[s]
    PROVE  LateKnown(t)'
  <1>1. LatestFinishes(t)' = LatestFinishes(t) /\ Duration(t)' = Duration(t)
    BY SamePlan, FinishesStay
  <1> QED
    BY <1>1 DEF LateKnown, IsSmallest

LEMMA ForwardStep ==
    ASSUME IInv, Forward, Acyclic, NEW t \in Tasks, NEW i \in 1..at, order[i] = t
    PROVE  EarlyKnown(t)'
  <1> USE DEF IInv
  <1>1. /\ pc = "forward" /\ at \in 1..Len(order) /\ Len(order) \in Nat
        /\ UNCHANGED <<plan, order>>
    BY DEF Forward, PassInv, TypeOK
  <1>2. /\ order \in Seq(Tasks)
        /\ \A j, k \in 1..Len(order) : order[j] = order[k] => j = k
        /\ \A p \in Tasks : \E j \in 1..Len(order) : order[j] = p
        /\ \A j, k \in 1..Len(order) : order[k] \in Predecessors(order[j]) => k < j
    BY <1>1, AllListed
  <1>3. order[at] \in Tasks /\ i \in 1..Len(order)
    BY <1>1, <1>2
  <1>4. PICK start \in EarliestStarts(order[at]) :
           /\ IsLargest(start, EarliestStarts(order[at]))
           /\ es' = [es EXCEPT ![order[at]] = start]
           /\ ef' = [ef EXCEPT ![order[at]] = start + Duration(order[at])]
    BY DEF Forward
  <1>5. /\ es'[order[at]] = start /\ ef'[order[at]] = start + Duration(order[at])
        /\ \A u \in Tasks : u # order[at] => es'[u] = es[u] /\ ef'[u] = ef[u]
    BY <1>3, <1>4 DEF TypeOK
  <1>6. ASSUME NEW p \in Predecessors(t) \cap Tasks
        PROVE  ef'[p] = ef[p]
    <2>1. PICK j \in 1..Len(order) : order[j] = p
      BY <1>2
    <2>2. j < i
      BY <1>2, <1>3, <2>1
    <2>3. j # at /\ at \in 1..Len(order)
      BY <1>1, <2>2
    <2> QED
      BY <1>2, <1>5, <2>1, <2>3
  <1>7. CASE i # at
    <2>1. t # order[at]
      BY <1>1, <1>2, <1>3, <1>7
    <2>2. EarlyKnown(t)
      BY <1>1, <1>7 DEF PassInv
    <2> QED
      BY <1>1, <1>5, <1>6, <2>1, <2>2, EarlyStays
  <1>8. CASE i = at
    <2>1. /\ Predecessors(t)' = Predecessors(t) /\ Duration(t)' = Duration(t)
          /\ \A p : Lag(t, p)' = Lag(t, p)
      BY <1>1, SamePlan
    <2>2. EarliestStarts(t)' = EarliestStarts(t)
      BY <1>6, <2>1 DEF EarliestStarts
    <2>3. t = order[at]
      BY <1>8
    <2> QED
      BY <1>4, <1>5, <2>1, <2>2, <2>3 DEF EarlyKnown, IsLargest
  <1> QED
    BY <1>7, <1>8

LEMMA BackwardStep ==
    ASSUME IInv, Backward, Acyclic, NEW t \in Tasks, NEW i \in at..Len(order), order[i] = t
    PROVE  LateKnown(t)'
  <1> USE DEF IInv
  <1>1. /\ pc = "backward" /\ at \in 1..Len(order) /\ Len(order) \in Nat
        /\ UNCHANGED <<plan, order, length>>
    BY DEF Backward, PassInv, TypeOK
  <1>2. /\ order \in Seq(Tasks)
        /\ \A j, k \in 1..Len(order) : order[j] = order[k] => j = k
        /\ \A p \in Tasks : \E j \in 1..Len(order) : order[j] = p
        /\ \A j, k \in 1..Len(order) : order[k] \in Predecessors(order[j]) => k < j
    BY <1>1, AllListed
  <1>3. order[at] \in Tasks /\ i \in 1..Len(order)
    BY <1>1, <1>2
  <1>4. PICK finish \in LatestFinishes(order[at]) :
           /\ IsSmallest(finish, LatestFinishes(order[at]))
           /\ ls' = [ls EXCEPT ![order[at]] = finish - Duration(order[at])]
    BY DEF Backward
  <1>5. /\ ls'[order[at]] = finish - Duration(order[at])
        /\ \A u \in Tasks : u # order[at] => ls'[u] = ls[u]
    BY <1>3, <1>4 DEF TypeOK
  <1>6. ASSUME NEW s \in Successors(t) \cap Tasks
        PROVE  ls'[s] = ls[s]
    <2>1. PICK j \in 1..Len(order) : order[j] = s
      BY <1>2
    <2>2. t \in Predecessors(s)
      BY DEF Successors, Predecessors, Ids
    <2>3. i < j
      BY <1>2, <1>3, <2>1, <2>2
    <2>4. j # at /\ at \in 1..Len(order)
      BY <1>1, <2>3
    <2> QED
      BY <1>2, <1>5, <2>1, <2>4
  <1>7. CASE i # at
    <2>1. t # order[at]
      BY <1>1, <1>2, <1>3, <1>7
    <2>2. LateKnown(t)
      <3>1. i \in (at + 1)..Len(order)
        BY <1>1, <1>7
      <3> QED
        BY <1>1, <3>1 DEF PassInv
    <2> QED
      BY <1>1, <1>5, <1>6, <2>1, <2>2, LateStays
  <1>8. CASE i = at
    <2>1. Duration(t)' = Duration(t)
      BY <1>1, SamePlan
    <2>2. LatestFinishes(t)' = LatestFinishes(t)
      <3>1. \A s \in Successors(t) \cap Tasks : ls'[s] = ls[s]
        BY <1>6
      <3>2. UNCHANGED length
        BY <1>1
      <3> QED
        BY <1>1, <3>1, <3>2, FinishesStay
    <2>3. t = order[at]
      BY <1>8
    <2>4. finish \in Int /\ Duration(t) \in Int
      <3>1. \A s \in Successors(t) \cap Tasks : ls[s] - Lag(s, t) \in Int
        BY Numbers
      <3>2. finish = length \/ \E s \in Successors(t) \cap Tasks : finish = ls[s] - Lag(s, t)
        BY <1>4, <2>3 DEF LatestFinishes
      <3> QED
        BY <3>1, <3>2, Numbers
    <2>5. ls'[t] + Duration(t) = finish
      BY <1>5, <2>3, <2>4
    <2>6. (ls[t] + Duration(t))' = finish
      BY <2>1, <2>5
    <2> QED
      BY <1>4, <2>2, <2>3, <2>6 DEF LateKnown, IsSmallest
  <1> QED
    BY <1>7, <1>8

LEMMA InitPass == Init => PassInv
  BY DEF Init, PassInv

LEMMA PassStep ==
    ASSUME IInv, [Next]_vars
    PROVE  PassInv'
  <1> USE DEF IInv
  <1>1. ASSUME NEW t \in Tasks, VisitTask(t) PROVE PassInv'
    BY <1>1 DEF VisitTask, PassInv
  <1>2. ASSUME NEW p \in Ids, VisitPredecessor(p) \/ SkipPredecessor(p) \/ MissPredecessor(p)
        PROVE  PassInv'
    BY <1>2 DEF VisitPredecessor, SkipPredecessor, MissPredecessor, PassInv
  <1>3. CASE ListTask
    BY <1>3 DEF ListTask, PassInv
  <1>4. CASE EndVisits
    BY <1>4 DEF EndVisits, PassInv, TypeOK
  <1>5. CASE Forward
    <2>1. /\ pc = "forward" /\ at \in 1..Len(order) /\ at' = at + 1
          /\ UNCHANGED <<plan, pc, order>>
      BY <1>5 DEF Forward, PassInv
    <2>2. Acyclic' <=> Acyclic
      BY <2>1, SamePlan
    <2>3. ASSUME Acyclic', NEW t \in Tasks, NEW i \in 1..(at' - 1), order'[i] = t
          PROVE  EarlyKnown(t)'
      <3>1. i \in 1..at /\ order[i] = t
        BY <2>1, <2>3
      <3> QED
        BY <1>5, <2>2, <2>3, <3>1, ForwardStep
    <2>4. at' \in 1..(Len(order') + 1)
      BY <2>1
    <2> QED
      BY <2>1, <2>3, <2>4 DEF PassInv
  <1>6. CASE Measure
    <2>1. /\ pc = "forward" /\ at > Len(order) /\ pc' = "backward" /\ at' = Len(order)
          /\ UNCHANGED <<plan, order, es, ef>>
          /\ Len(order) \in Nat /\ at = Len(order) + 1
      BY <1>6 DEF Measure, PassInv, TypeOK
    <2>2. /\ Acyclic' <=> Acyclic
          /\ \A t : Duration(t)' = Duration(t) /\ Predecessors(t)' = Predecessors(t)
          /\ \A t, p : Lag(t, p)' = Lag(t, p)
      BY <2>1, SamePlan
    <2>3. ASSUME Acyclic', NEW t \in Tasks PROVE EarlyKnown(t)'
      <3>1. PICK i \in 1..Len(order) : order[i] = t
        BY <2>1, AllListed
      <3>2. EarlyKnown(t)
        BY <2>1, <2>2, <2>3, <3>1 DEF PassInv
      <3> QED
        BY <2>1, <3>2, EarlyStays
    <2>4. IsLargest(length', Finishes')
      BY <1>6, <2>1 DEF Measure, IsLargest, Finishes
    <2> QED
      BY <2>1, <2>3, <2>4 DEF PassInv, IsLargest
  <1>7. CASE Backward
    <2>1. /\ pc = "backward" /\ at \in 1..Len(order) /\ at' = at - 1 /\ Len(order) \in Nat
          /\ UNCHANGED <<plan, pc, order, es, ef, length>>
      BY <1>7 DEF Backward, PassInv, TypeOK
    <2>2. Acyclic' <=> Acyclic
      BY <2>1, SamePlan
    <2>3. ASSUME Acyclic', NEW t \in Tasks PROVE EarlyKnown(t)'
      <3>1. EarlyKnown(t)
        BY <2>1, <2>2, <2>3 DEF PassInv
      <3> QED
        BY <2>1, <3>1, EarlyStays
    <2>4. ASSUME Acyclic', NEW t \in Tasks, NEW i \in (at' + 1)..Len(order'), order'[i] = t
          PROVE  LateKnown(t)'
      <3>1. i \in at..Len(order) /\ order[i] = t
        BY <2>1, <2>4
      <3> QED
        BY <1>7, <2>2, <2>4, <3>1, BackwardStep
    <2>5. IsLargest(length', Finishes')
      BY <2>1 DEF PassInv, IsLargest, Finishes
    <2>6. at' \in 0..Len(order')
      BY <2>1
    <2> QED
      BY <2>1, <2>3, <2>4, <2>5, <2>6 DEF PassInv, IsLargest
  <1>8. CASE Return
    <2>1. /\ pc = "backward" /\ at = 0 /\ pc' = "done" /\ Len(order) \in Nat
          /\ UNCHANGED <<plan, order, es, ef, ls, length>>
      BY <1>8 DEF Return, PassInv, TypeOK
    <2>2. Acyclic' <=> Acyclic
      BY <2>1, SamePlan
    <2>3. ASSUME Acyclic', NEW t \in Tasks PROVE EarlyKnown(t)' /\ LateKnown(t)'
      <3>1. EarlyKnown(t)
        BY <2>1, <2>2, <2>3 DEF PassInv
      <3>2. PICK i \in 1..Len(order) : order[i] = t
        BY <2>1, AllListed
      <3>3. LateKnown(t)
        BY <2>1, <2>2, <2>3, <3>2 DEF PassInv
      <3> QED
        BY <2>1, <3>1, <3>3, EarlyStays, LateStays
    <2>4. IsLargest(length', Finishes')
      BY <2>1 DEF PassInv, IsLargest, Finishes
    <2> QED
      BY <2>1, <2>3, <2>4 DEF PassInv, IsLargest
  <1>9. CASE UNCHANGED vars
    <2>1. UNCHANGED <<plan, pc, order, at, es, ef, ls, length>>
      BY <1>9 DEF vars
    <2>2. Acyclic' <=> Acyclic
      BY <2>1, SamePlan
    <2>3. \A t \in Tasks : (EarlyKnown(t) => EarlyKnown(t)') /\ (LateKnown(t) => LateKnown(t)')
      BY <2>1, EarlyStays, LateStays
    <2>4. IsLargest(length, Finishes) => IsLargest(length', Finishes')
      BY <2>1 DEF IsLargest, Finishes
    <2> QED
      BY <2>1, <2>2, <2>3, <2>4 DEF PassInv, IsLargest
  <1> QED
    BY <1>1, <1>2, <1>3, <1>4, <1>5, <1>6, <1>7, <1>8, <1>9 DEF Next
-------------------------------------------------------------------------------
(* The invariant, and the order. *)

LEMMA InvariantHolds == Spec => []IInv
  <1>1. Init => IInv
    BY InitType, InitVisits, InitOrder, InitPass DEF IInv
  <1>2. IInv /\ [Next]_vars => IInv'
    BY TypeStep, VisitStep, OrderStep, PassStep DEF IInv
  <1> QED
    BY <1>1, <1>2, PTL DEF Spec

\* Calculate: whatever the queries return, the state is of its type.
THEOREM TypeCorrect == Spec => []TypeOK
  <1>1. IInv => TypeOK
    BY DEF IInv
  <1> QED
    BY <1>1, InvariantHolds, PTL

\* Visit: the passes come by every task once, cycles or not, and without a cycle
\* by its predecessors first.
THEOREM VisitsInOrder == Spec => []OrderIsTopological
  <1>1. IInv => OrderIsTopological
    BY AllListed DEF IInv, OrderIsTopological
  <1> QED
    BY <1>1, InvariantHolds, PTL

-------------------------------------------------------------------------------
(* The earliest starts. *)

\* What the passes leave behind, in one place.
LEMMA AtTheEnd ==
    ASSUME IInv, pc = "done", Acyclic
    PROVE  /\ order \in Seq(Tasks) /\ Len(order) \in Nat
           /\ \A t \in Tasks : \E i \in 1..Len(order) : order[i] = t
           /\ \A i, j \in 1..Len(order) : order[j] \in Predecessors(order[i]) => j < i
           /\ \A t \in Tasks :
                 /\ ef[t] = es[t] + Duration(t)
                 /\ 0 <= es[t]
                 /\ \A p \in Predecessors(t) \cap Tasks : ef[p] + Lag(t, p) <= es[t]
                 /\ \/ es[t] = 0
                    \/ \E p \in Predecessors(t) \cap Tasks : es[t] = ef[p] + Lag(t, p)
           /\ \A t \in Tasks : LateKnown(t)
           /\ \A t \in Tasks : ef[t] <= length
           /\ Tasks # {} => \E t \in Tasks : ef[t] = length
  <1>1. \A t \in Tasks : EarlyKnown(t) /\ LateKnown(t)
    BY DEF IInv, PassInv
  <1>2. IsLargest(length, Finishes)
    BY DEF IInv, PassInv
  <1>3. \A t \in Tasks : ef[t] <= length
    BY <1>2 DEF IsLargest, Finishes
  <1>4. Tasks # {} => \E t \in Tasks : ef[t] = length
    BY <1>2 DEF IsLargest, Finishes
  <1> QED
    BY <1>1, <1>3, <1>4, AllListed, EarlyMeans DEF IInv

\* A nonempty set of naturals has a least element.
LEMMA LeastNat ==
    ASSUME NEW T \in SUBSET Nat, T # {}
    PROVE  \E x \in T : \A y \in T : x <= y
  <1>1. PICK x \in T : \A y \in T : ~ (<<y, x>> \in OpToRel(<, Nat))
    BY NatLessThanWellFounded, WFMin
  <1>2. OpToRel(<, Nat) = {ss \in Nat \X Nat : ss[1] < ss[2]}
    BY Zenon DEF OpToRel
  <1>3. \A y \in T : ~ (<<y, x>> \in {ss \in Nat \X Nat : ss[1] < ss[2]})
    BY <1>1, <1>2, Zenon
  <1>4. ASSUME NEW y \in T, y < x PROVE FALSE
    <2>1. <<y, x>> \in Nat \X Nat /\ <<y, x>>[1] < <<y, x>>[2]
      BY <1>4
    <2> QED
      BY <1>3, <2>1
  <1> QED
    BY <1>4

\* No schedule starts a task before its early start: else look at the first
\* task in the order that it does start earlier.
LEMMA NoEarlier ==
    ASSUME IInv, pc = "done", Acyclic, NEW s \in [Tasks -> Nat], IsSchedule(s)
    PROVE  \A t \in Tasks : es[t] <= s[t]
  <1> DEFINE Early == {i \in 1..Len(order) : s[order[i]] < es[order[i]]}
  <1>1. /\ order \in Seq(Tasks) /\ Len(order) \in Nat
        /\ \A t \in Tasks : \E i \in 1..Len(order) : order[i] = t
        /\ \A i, j \in 1..Len(order) : order[j] \in Predecessors(order[i]) => j < i
    BY AtTheEnd
  <1>2. ASSUME NEW t \in Tasks
        PROVE  /\ ef[t] = es[t] + Duration(t)
               /\ \/ es[t] = 0
                  \/ \E p \in Predecessors(t) \cap Tasks : es[t] = ef[p] + Lag(t, p)
    BY AtTheEnd
  <1>3. /\ \A t \in Tasks : es[t] \in Int /\ Duration(t) \in Int /\ s[t] \in Nat
        /\ \A t, p \in Tasks : Lag(t, p) \in Int
    BY Numbers DEF IInv
  <1>4. ASSUME Early # {} PROVE FALSE
    <2>1. PICK i \in Early : \A j \in Early : i <= j
      <3>1. Early \in SUBSET Nat
        BY <1>1
      <3> HIDE DEF Early
      <3> QED
        BY <1>4, <3>1, LeastNat
    <2>2. order[i] \in Tasks /\ s[order[i]] < es[order[i]] /\ i \in 1..Len(order)
      BY <1>1
    <2>3. es[order[i]] # 0
      BY <1>3, <2>2
    <2>4. PICK p \in Predecessors(order[i]) \cap Tasks : es[order[i]] = ef[p] + Lag(order[i], p)
      BY <1>2, <2>2, <2>3
    <2>5. PICK j \in 1..Len(order) : order[j] = p
      BY <1>1, <2>4
    <2>6. j < i
      BY <1>1, <2>2, <2>4, <2>5
    <2>7. ~ (s[p] < es[p])
      <3>1. j \notin Early
        <4>1. ~(i <= j)
          BY <1>1, <2>2, <2>5, <2>6
        <4> HIDE DEF Early
        <4> QED
          BY <2>1, <4>1
      <3> QED
        BY <2>5, <3>1
    <2>8. s[p] + Duration(p) + Lag(order[i], p) <= s[order[i]]
      BY <2>2, <2>4 DEF IsSchedule
    <2>9. ef[p] = es[p] + Duration(p)
      BY <1>2, <2>4
    <2> HIDE DEF Early
    <2> DEFINE a == es[order[i]]  b == s[order[i]]  c == es[p]  d == s[p]
               l == Lag(order[i], p)  n == Duration(p)
    <2>10. a \in Int /\ b \in Int /\ c \in Int /\ d \in Int /\ l \in Int /\ n \in Int
      BY <1>3, <2>2, <2>4
    <2>11. b < a /\ a = c + n + l /\ ~(d < c) /\ d + n + l <= b
      BY <2>2, <2>4, <2>7, <2>8, <2>9
    <2> HIDE DEF a, b, c, d, l, n
    <2> QED
      BY <2>10, <2>11
  <1> TAKE t \in Tasks
  <1>5. PICK i \in 1..Len(order) : order[i] = t
    BY <1>1
  <1> QED
    BY <1>3, <1>4, <1>5

LEMMA EarliestAtTheEnd ==
    ASSUME IInv, pc = "done", Acyclic
    PROVE  es \in InTime
  <1>1. ASSUME NEW t \in Tasks
        PROVE  /\ ef[t] = es[t] + Duration(t) /\ 0 <= es[t] /\ ef[t] <= length
               /\ \A p \in Predecessors(t) \cap Tasks : ef[p] + Lag(t, p) <= es[t]
    BY AtTheEnd
  <1>2. /\ \A t \in Tasks : es[t] \in Int /\ Duration(t) \in Nat /\ 1 <= Duration(t)
        /\ \A t, p \in Tasks : Lag(t, p) \in Int
        /\ length \in Int
        /\ es \in [Tasks -> Int]
    BY Numbers DEF IInv, TypeOK
  <1>3. \A t \in Tasks : es[t] \in 0..length
    BY <1>1, <1>2
  <1>4. es \in [Tasks -> 0..length]
    BY <1>2, <1>3
  <1>5. IsSchedule(es)
    BY <1>1 DEF IsSchedule
  <1> QED
    BY <1>1, <1>4, <1>5 DEF InTime

\* Calculate, forward: the early starts are a schedule that ends in time, no
\* schedule starts a task earlier, and none is shorter than the project.
THEOREM EarliestStartsHold == Spec => []EarlyIsEarliest
  <1>1. ASSUME IInv, pc = "done", Acyclic, NEW s \in InTime
        PROVE  /\ \A t \in Tasks : s[t] \in Nat /\ s[t] + Duration(t) <= length
               /\ \A t \in Tasks : es[t] <= s[t]
    <2>1. length \in Int
      BY <1>1, Numbers DEF IInv
    <2>2. /\ s \in [Tasks -> Nat] /\ IsSchedule(s)
          /\ \A t \in Tasks : s[t] + Duration(t) <= length
      BY <1>1, <2>1 DEF InTime
    <2> QED
      BY <1>1, <2>2, NoEarlier
  <1>2. ASSUME IInv, pc = "done", Acyclic, Tasks # {}, NEW s \in InTime
        PROVE  \E t \in Tasks : s[t] + Duration(t) = length
    <2>1. PICK t \in Tasks : ef[t] = length
      BY <1>2, AtTheEnd
    <2>2. es[t] <= s[t] /\ s[t] \in Int /\ s[t] + Duration(t) <= length
      BY <1>1, <1>2
    <2>3. ef[t] = es[t] + Duration(t) /\ es[t] \in Int /\ Duration(t) \in Int /\ length \in Int
      BY <1>2, AtTheEnd, Numbers DEF IInv
    <2>4. s[t] + Duration(t) = length
      BY <2>1, <2>2, <2>3
    <2> QED
      BY <2>4
  <1>3. IInv => EarlyIsEarliest
    BY <1>1, <1>2, EarliestAtTheEnd DEF EarlyIsEarliest
  <1> QED
    BY <1>3, InvariantHolds, PTL

-------------------------------------------------------------------------------
(* The latest starts. *)

LEMMA GreatestOf ==
    ASSUME NEW n \in Nat, NEW T \in SUBSET (1..n), T # {}
    PROVE  \E x \in T : \A y \in T : y <= x
  <1> DEFINE U == {n - x : x \in T}
  <1>1. U \in SUBSET Nat /\ U # {}
    <2>1. \A x \in T : n - x \in Nat
      OBVIOUS
    <2> QED
      BY <2>1
  <1>2. PICK u \in U : \A v \in U : u <= v
    <2> HIDE DEF U
    <2> QED
      BY <1>1, LeastNat
  <1>3. PICK x \in T : u = n - x
    OBVIOUS
  <1>4. ASSUME NEW y \in T PROVE y <= x
    <2>1. n - x <= n - y
      BY <1>2, <1>3
    <2> QED
      BY <2>1
  <1> QED
    BY <1>4

\* What waits for a task, one by one, at the end of the calculation.
LEMMA LateAtTheEnd ==
    ASSUME IInv, pc = "done", Acyclic, NEW t \in Tasks
    PROVE  /\ \A s \in Tasks : t \in Predecessors(s) => ls[t] + Duration(t) <= ls[s] - Lag(s, t)
           /\ \/ ls[t] + Duration(t) = length
              \/ \E s \in Tasks : t \in Predecessors(s) /\ ls[t] + Duration(t) = ls[s] - Lag(s, t)
  <1>1. LateKnown(t)
    BY AtTheEnd
  <1>2. \A s \in Tasks : s \in Successors(t) \cap Tasks <=> t \in Predecessors(s)
    BY DEF Successors, Predecessors, Ids
  <1> QED
    BY <1>1, <1>2, LateMeans DEF IInv

\* No schedule that ends in time starts a task after its late start: else look at
\* the last task in the order that it does start later.
LEMMA NoLater ==
    ASSUME IInv, pc = "done", Acyclic, NEW s \in InTime
    PROVE  \A t \in Tasks : s[t] <= ls[t]
  <1> DEFINE Behind == {i \in 1..Len(order) : ls[order[i]] < s[order[i]]}
  <1>1. /\ order \in Seq(Tasks) /\ Len(order) \in Nat
        /\ \A t \in Tasks : \E i \in 1..Len(order) : order[i] = t
        /\ \A i, j \in 1..Len(order) : order[j] \in Predecessors(order[i]) => j < i
    BY AtTheEnd
  <1>2. /\ \A t \in Tasks : ls[t] \in Int /\ Duration(t) \in Int
        /\ \A t, p \in Tasks : Lag(t, p) \in Int
        /\ length \in Int
    BY Numbers DEF IInv
  <1>3. /\ IsSchedule(s)
        /\ \A t \in Tasks : s[t] \in Int /\ s[t] + Duration(t) <= length
    BY <1>2 DEF InTime
  <1>4. ASSUME Behind # {} PROVE FALSE
    <2>1. PICK i \in Behind : \A j \in Behind : j <= i
      <3>1. Behind \in SUBSET (1..Len(order))
        OBVIOUS
      <3> HIDE DEF Behind
      <3> QED
        BY <1>1, <1>4, <3>1, GreatestOf
    <2>2. order[i] \in Tasks /\ ls[order[i]] < s[order[i]] /\ i \in 1..Len(order)
      BY <1>1
    <2>3. CASE ls[order[i]] + Duration(order[i]) = length
      BY <1>2, <1>3, <2>2, <2>3
    <2>4. CASE \E u \in Tasks : /\ order[i] \in Predecessors(u)
                                /\ ls[order[i]] + Duration(order[i]) = ls[u] - Lag(u, order[i])
      <3>1. PICK u \in Tasks : /\ order[i] \in Predecessors(u)
                               /\ ls[order[i]] + Duration(order[i]) = ls[u] - Lag(u, order[i])
        BY <2>4
      <3>2. PICK j \in 1..Len(order) : order[j] = u
        BY <1>1
      <3>3. i < j
        BY <1>1, <2>2, <3>1, <3>2
      <3>4. ~ (ls[u] < s[u])
        <4>1. j \notin Behind
          <5>1. ~(j <= i)
            BY <1>1, <2>2, <3>2, <3>3
          <5> HIDE DEF Behind
          <5> QED
            BY <2>1, <5>1
        <4> QED
          BY <3>2, <4>1
      <3>5. s[order[i]] + Duration(order[i]) + Lag(u, order[i]) <= s[u]
        BY <1>3, <2>2, <3>1 DEF IsSchedule
      <3> HIDE DEF Behind
      <3> DEFINE a == ls[order[i]]  b == s[order[i]]  c == ls[u]  d == s[u]
                 l == Lag(u, order[i])  n == Duration(order[i])
      <3>6. a \in Int /\ b \in Int /\ c \in Int /\ d \in Int /\ l \in Int /\ n \in Int
        BY <1>2, <1>3, <2>2, <3>1
      <3>7. a < b /\ a + n = c - l /\ ~(c < d) /\ b + n + l <= d
        BY <2>2, <3>1, <3>4, <3>5
      <3> HIDE DEF a, b, c, d, l, n
      <3> QED
        BY <3>6, <3>7
    <2> QED
      BY <2>2, <2>3, <2>4, LateAtTheEnd
  <1> TAKE t \in Tasks
  <1>5. PICK i \in 1..Len(order) : order[i] = t
    BY <1>1
  <1> QED
    BY <1>2, <1>3, <1>4, <1>5

\* Leads being gentle, a task that starts at its late start ends in time.
LEMMA LateInTime ==
    ASSUME IInv, pc = "done", Acyclic, Gentle
    PROVE  \A t \in Tasks : ls[t] + Duration(t) <= length
  <1> DEFINE Over == {i \in 1..Len(order) : length < ls[order[i]] + Duration(order[i])}
  <1>1. /\ order \in Seq(Tasks) /\ Len(order) \in Nat
        /\ \A t \in Tasks : \E i \in 1..Len(order) : order[i] = t
        /\ \A i, j \in 1..Len(order) : order[j] \in Predecessors(order[i]) => j < i
    BY AtTheEnd
  <1>2. /\ \A t \in Tasks : ls[t] \in Int /\ Duration(t) \in Int
        /\ \A t, p \in Tasks : Lag(t, p) \in Int
        /\ length \in Int
    BY Numbers DEF IInv
  <1>3. ASSUME Over # {} PROVE FALSE
    <2>1. PICK i \in Over : \A j \in Over : j <= i
      <3>1. Over \in SUBSET (1..Len(order))
        OBVIOUS
      <3> HIDE DEF Over
      <3> QED
        BY <1>1, <1>3, <3>1, GreatestOf
    <2>2. /\ order[i] \in Tasks /\ i \in 1..Len(order)
          /\ length < ls[order[i]] + Duration(order[i])
      BY <1>1
    <2>3. PICK u \in Tasks : /\ order[i] \in Predecessors(u)
                             /\ ls[order[i]] + Duration(order[i]) = ls[u] - Lag(u, order[i])
      <3>1. ls[order[i]] + Duration(order[i]) # length
        BY <1>2, <2>2
      <3> QED
        BY <2>2, <3>1, LateAtTheEnd
    <2>4. PICK j \in 1..Len(order) : order[j] = u
      BY <1>1
    <2>5. i < j
      BY <1>1, <2>2, <2>3, <2>4
    <2>6. ~ (length < ls[u] + Duration(u))
      <3>1. j \notin Over
        <4>1. ~(j <= i)
          BY <1>1, <2>2, <2>4, <2>5
        <4> HIDE DEF Over
        <4> QED
          BY <2>1, <4>1
      <3> QED
        BY <2>4, <3>1
    <2>7. 0 <= Duration(u) + Lag(u, order[i])
      BY <2>2, <2>3 DEF Gentle
    <2> HIDE DEF Over
    <2> DEFINE a == ls[order[i]] + Duration(order[i])  c == ls[u]  l == Lag(u, order[i])
               n == Duration(u)
    <2>8. a \in Int /\ c \in Int /\ l \in Int /\ n \in Int
      BY <1>2, <2>2, <2>3
    <2>9. length < a /\ a = c - l /\ ~(length < c + n) /\ 0 <= n + l
      BY <2>2, <2>3, <2>6, <2>7
    <2> HIDE DEF a, c, l, n
    <2> QED
      BY <1>2, <2>8, <2>9
  <1> TAKE t \in Tasks
  <1>4. PICK i \in 1..Len(order) : order[i] = t
    BY <1>1
  <1> QED
    BY <1>2, <1>3, <1>4

\* Calculate, backward: whoever starts a task after its late start delays the
\* project; leads being gentle, all may start at their late starts.
THEOREM LatestStartsHold == Spec => []LateIsLatest
  <1>1. ASSUME IInv, pc = "done", Acyclic
        PROVE  \A s \in InTime : \A t \in Tasks : s[t] <= ls[t]
    BY <1>1, NoLater
  <1>2. ASSUME IInv, pc = "done", Acyclic, Gentle
        PROVE  ls \in InTime
    <2>1. /\ \A t \in Tasks : /\ ls[t] \in Int /\ es[t] \in Int
                                /\ Duration(t) \in Nat /\ 1 <= Duration(t)
          /\ \A t, p \in Tasks : Lag(t, p) \in Int
          /\ length \in Int
          /\ ls \in [Tasks -> Int]
      BY <1>2, Numbers DEF IInv, TypeOK
    <2>2. \A t \in Tasks : 0 <= es[t] /\ es[t] <= ls[t]
      BY <1>2, EarliestAtTheEnd, NoLater, AtTheEnd
    <2>3. \A t \in Tasks : ls[t] + Duration(t) <= length
      BY <1>2, LateInTime
    <2>4. ls \in [Tasks -> 0..length]
      <3>1. \A t \in Tasks : ls[t] \in 0..length
        BY <2>1, <2>2, <2>3
      <3> QED
        BY <2>1, <3>1
    <2>5. IsSchedule(ls)
      <3> SUFFICES ASSUME NEW t \in Tasks, NEW p \in Predecessors(t) \cap Tasks
                   PROVE  ls[p] + Duration(p) + Lag(t, p) <= ls[t]
        BY DEF IsSchedule
      <3>1. ls[p] + Duration(p) <= ls[t] - Lag(t, p)
        BY <1>2, LateAtTheEnd
      <3> QED
        BY <2>1, <3>1
    <2> QED
      BY <2>3, <2>4, <2>5 DEF InTime
  <1>3. IInv => LateIsLatest
    BY <1>1, <1>2 DEF LateIsLatest
  <1> QED
    BY <1>3, InvariantHolds, PTL

\* GetSummary: a critical task starts at once or right after a critical one; and,
\* leads being gentle, the tasks that end the project are critical.
THEOREM CriticalPathHolds == Spec => []CriticalChain
  <1>1. ASSUME IInv, pc = "done", Acyclic
        PROVE  /\ \A t \in Tasks : es[t] <= ls[t]
               /\ \A t \in Tasks : es[t] \in Int /\ ls[t] \in Int /\ Duration(t) \in Int
               /\ \A t, p \in Tasks : Lag(t, p) \in Int
               /\ \A t \in Tasks : ef[t] = es[t] + Duration(t)
               /\ length \in Int
    <2>1. es \in InTime
      BY <1>1, EarliestAtTheEnd
    <2>2. \A t \in Tasks : es[t] <= ls[t]
      BY <1>1, <2>1, NoLater
    <2>3. /\ \A t \in Tasks : es[t] \in Int /\ ls[t] \in Int /\ Duration(t) \in Int
          /\ \A t, p \in Tasks : Lag(t, p) \in Int
          /\ length \in Int
      BY <1>1, Numbers DEF IInv
    <2>4. \A t \in Tasks : ef[t] = es[t] + Duration(t)
      BY <1>1, AtTheEnd
    <2> QED
      BY <2>2, <2>3, <2>4
  <1>2. ASSUME IInv, pc = "done", Acyclic, NEW t \in Tasks, Critical(t), es[t] # 0
        PROVE  \E p \in Predecessors(t) \cap Tasks : Critical(p) /\ ef[p] + Lag(t, p) = es[t]
    <2>1. PICK p \in Predecessors(t) \cap Tasks : es[t] = ef[p] + Lag(t, p)
      BY <1>2, AtTheEnd
    <2>2. ls[p] + Duration(p) <= ls[t] - Lag(t, p)
      BY <1>2, LateAtTheEnd
    <2>3. ls[t] = es[t]
      BY <1>1, <1>2 DEF Critical, Slack
    <2>4. ls[p] = es[p]
      <3> DEFINE a == es[p]  b == ls[p]  c == es[t]  l == Lag(t, p)  n == Duration(p)
      <3>1. a \in Int /\ b \in Int /\ c \in Int /\ l \in Int /\ n \in Int
        BY <1>1, <1>2
      <3>2. c = a + n + l /\ b + n <= c - l /\ a <= b
        BY <1>1, <1>2, <2>1, <2>2, <2>3
      <3> HIDE DEF a, b, c, l, n
      <3>3. b = a
        BY <3>1, <3>2
      <3> QED
        BY <3>3 DEF a, b
    <2>5. Critical(p)
      BY <1>1, <1>2, <2>4 DEF Critical, Slack
    <2> QED
      BY <2>1, <2>5
  <1>3. ASSUME IInv, pc = "done", Acyclic, Gentle, NEW t \in Tasks, ef[t] = length
        PROVE  Critical(t)
    <2>1. ls[t] + Duration(t) <= length
      BY <1>3, LateInTime
    <2>2. ls[t] = es[t]
      BY <1>1, <1>3, <2>1
    <2> QED
      BY <1>1, <1>3, <2>2 DEF Critical, Slack
  <1>4. IInv => CriticalChain
    BY <1>2, <1>3 DEF CriticalChain
  <1> QED
    BY <1>4, InvariantHolds, PTL

=================================================================================
