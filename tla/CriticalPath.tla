----------------------------- MODULE CriticalPath -----------------------------
(***************************************************************************)
(* CriticalPathCalculator.Calculate: the tasks of a project are put in an  *)
(* order by a depth-first search, a pass forward over the order gives each *)
(* its earliest start, a pass backward its latest.                         *)
(*                                                                         *)
(* The tasks and the dependencies come from two queries.  A dependency may *)
(* name a task the first did not return: one that was removed, is of       *)
(* another project, or was added between the two.  The lists have some     *)
(* order, which the model leaves open.                                     *)
(***************************************************************************)
EXTENDS Integers, Sequences, FiniteSets

CONSTANTS
    Tasks,     \* the ids of the tasks that were read
    Outside,   \* other ids that dependencies may name
    Plans      \* what the two queries may return

Ids == Tasks \cup Outside

\* Dependencies are pairs of a task and what it depends on; uk_dependency
\* leaves one of each, so one lag.
Plan == [duration : [Tasks -> Nat], deps : SUBSET (Ids \X Ids), lag : [Ids \X Ids -> Int]]

ASSUME PlanAssumption ==
    /\ IsFiniteSet(Tasks)
    /\ Tasks \cap Outside = {}
    /\ Plans \subseteq Plan

VARIABLES
    plan,      \* tasks and dependencies
    pc,        \* "visit", "forward", "backward", "done", or "failed" (an exception)
    visited,   \* visited
    stack,     \* the calls of Visit under way, the last one innermost
    left,      \* left[t]: predecessors that Visit(t) has yet to come to
    order,     \* topologicalOrder
    at,        \* where a pass is in the order
    es, ef,    \* EarlyStart, EarlyFinish
    ls,        \* LateStart
    length     \* projectDuration

vars == <<plan, pc, visited, stack, left, order, at, es, ef, ls, length>>

Predecessors(t) == {p \in Ids : <<t, p>> \in plan.deps}

Successors(t) == {s \in Ids : <<s, t>> \in plan.deps}

Duration(t) == IF plan.duration[t] = 0 THEN 1 ELSE plan.duration[t]

Lag(t, p) == plan.lag[<<t, p>>]

Slack(t) == ls[t] - es[t]

Critical(t) == Slack(t) = 0

Top == stack[Len(stack)]

\* The largest and the smallest value of a set.
IsLargest(x, S) == x \in S /\ \A y \in S : y <= x

IsSmallest(x, S) == x \in S /\ \A y \in S : x <= y

-------------------------------------------------------------------------------
(* The depth-first search. *)

\* Slip: the task is not marked.
EnterUnmarked(t) ==
    /\ visited' = visited
    /\ stack' = Append(stack, t)
    /\ order' = order

\* Visit(t) begins.
Enter(t) ==
    /\ visited' = visited \cup {t}
    /\ stack' = Append(stack, t)
    /\ order' = order

\* The loop over the tasks calls Visit; of a visited task it returns at once.
VisitTask(t) ==
    /\ pc = "visit"
    /\ stack = <<>>
    /\ t \notin visited
    /\ Enter(t)
    /\ left' = [left EXCEPT ![t] = Predecessors(t)]
    /\ UNCHANGED <<plan, pc, at, es, ef, ls, length>>

\* Visit(Top) calls Visit(p) ...
VisitPredecessor(p) ==
    /\ pc = "visit"
    /\ stack # <<>>
    /\ p \in left[Top] \ visited
    /\ p \in Tasks
    /\ Enter(p)
    /\ left' = [left EXCEPT ![Top] = @ \ {p}, ![p] = Predecessors(p)]
    /\ UNCHANGED <<plan, pc, at, es, ef, ls, length>>

\* Slip: the loop looks at the same predecessor again.
SkipNothing(p) ==
    /\ pc = "visit"
    /\ stack # <<>>
    /\ p \in left[Top] \cap visited
    /\ UNCHANGED vars

\* ... which returns at once if p is visited ...
SkipPredecessor(p) ==
    /\ pc = "visit"
    /\ stack # <<>>
    /\ p \in left[Top] \cap visited
    /\ left' = [left EXCEPT ![Top] = @ \ {p}]
    /\ UNCHANGED <<plan, pc, visited, stack, order, at, es, ef, ls, length>>

\* ... and throws if p is not among the tasks: predecessors[p] has no entry.
MissPredecessor(p) ==
    /\ pc = "visit"
    /\ stack # <<>>
    /\ p \in left[Top] \ visited
    /\ p \notin Tasks
    /\ visited' = visited \cup {p}
    /\ pc' = "failed"
    /\ UNCHANGED <<plan, stack, left, order, at, es, ef, ls, length>>

\* Slip: a task is listed before its predecessors are.
ListEarly ==
    /\ pc = "visit"
    /\ stack # <<>>
    /\ order' = Append(order, Top)
    /\ stack' = SubSeq(stack, 1, Len(stack) - 1)
    /\ UNCHANGED <<plan, pc, visited, left, at, es, ef, ls, length>>

\* Visit(Top) has come to all predecessors.
ListTask ==
    /\ pc = "visit"
    /\ stack # <<>>
    /\ left[Top] = {}
    /\ order' = Append(order, Top)
    /\ stack' = SubSeq(stack, 1, Len(stack) - 1)
    /\ UNCHANGED <<plan, pc, visited, left, at, es, ef, ls, length>>

EndVisits ==
    /\ pc = "visit"
    /\ stack = <<>>
    /\ Tasks \subseteq visited
    /\ pc' = "forward"
    /\ at' = 1
    /\ UNCHANGED <<plan, visited, stack, left, order, es, ef, ls, length>>

-------------------------------------------------------------------------------
(* The two passes. *)

\* Slip: a predecessor holds a task up by its duration only.
EarliestWithoutLag(t) == {0} \cup {ef[p] : p \in Predecessors(t) \cap Tasks}

\* What a task has to wait for.
EarliestStarts(t) == {0} \cup {ef[p] + Lag(t, p) : p \in Predecessors(t) \cap Tasks}

Forward ==
    /\ pc = "forward"
    /\ at <= Len(order)
    /\ LET t == order[at]
       IN  \E start \in EarliestStarts(t) :
             /\ IsLargest(start, EarliestStarts(t))
             /\ es' = [es EXCEPT ![t] = start]
             /\ ef' = [ef EXCEPT ![t] = start + Duration(t)]
    /\ at' = at + 1
    /\ UNCHANGED <<plan, pc, visited, stack, left, order, ls, length>>

Finishes == IF Tasks = {} THEN {0} ELSE {ef[t] : t \in Tasks}

Measure ==
    /\ pc = "forward"
    /\ at > Len(order)
    /\ \E finish \in Finishes : IsLargest(finish, Finishes) /\ length' = finish
    /\ pc' = "backward"
    /\ at' = Len(order)
    /\ UNCHANGED <<plan, visited, stack, left, order, es, ef, ls>>

\* Slip: the last successor to start decides.
LatestByLast(t) ==
    LET starts == {ls[s] - Lag(s, t) : s \in Successors(t) \cap Tasks}
    IN  IF starts = {} THEN {length} ELSE {x \in starts : IsLargest(x, starts)}

\* What waits for a task; the end of the project, if no task does.
LatestFinishes(t) ==
    LET starts == {ls[s] - Lag(s, t) : s \in Successors(t) \cap Tasks}
    IN  IF starts = {} THEN {length} ELSE starts

Backward ==
    /\ pc = "backward"
    /\ at >= 1
    /\ LET t == order[at]
       IN  \E finish \in LatestFinishes(t) :
             /\ IsSmallest(finish, LatestFinishes(t))
             /\ ls' = [ls EXCEPT ![t] = finish - Duration(t)]
    /\ at' = at - 1
    /\ UNCHANGED <<plan, pc, visited, stack, left, order, es, ef, length>>

Return ==
    /\ pc = "backward"
    /\ at = 0
    /\ pc' = "done"
    /\ UNCHANGED <<plan, visited, stack, left, order, at, es, ef, ls, length>>

-------------------------------------------------------------------------------

Init ==
    /\ plan \in Plans
    /\ pc = "visit"
    /\ visited = {}
    /\ stack = <<>>
    /\ left = [t \in Tasks |-> {}]
    /\ order = <<>>
    /\ at = 0
    /\ es = [t \in Tasks |-> 0]
    /\ ef = [t \in Tasks |-> 0]
    /\ ls = [t \in Tasks |-> 0]
    /\ length = 0

Next ==
    \/ \E t \in Tasks : VisitTask(t)
    \/ \E p \in Ids : VisitPredecessor(p) \/ SkipPredecessor(p) \/ MissPredecessor(p)
    \/ ListTask
    \/ EndVisits
    \/ Forward
    \/ Measure
    \/ Backward
    \/ Return

Spec == Init /\ [][Next]_vars

\* The calculation waits for nothing.
FairSpec == Spec /\ WF_vars(Next)

-------------------------------------------------------------------------------
(* What is calculated, said without an order. *)

\* A start for every task that respects every dependency among them.
IsSchedule(s) ==
    \A t \in Tasks :
        \A p \in Predecessors(t) \cap Tasks : s[p] + Duration(p) + Lag(t, p) <= s[t]

\* The schedules that end within the project duration.
InTime ==
    {s \in [Tasks -> 0..length] : IsSchedule(s) /\ \A t \in Tasks : s[t] + Duration(t) <= length}

\* Tasks can be numbered such that none depends on a later one.
Ranks(rank) ==
    \A t \in Tasks : \A p \in Predecessors(t) \cap Tasks : rank[p] < rank[t]

Acyclic == \E rank \in [Tasks -> 1..Cardinality(Tasks)] : Ranks(rank)

\* No lead (a negative lag) is longer than the task it lets begin early.
Gentle ==
    \A t \in Tasks :
        \A p \in Predecessors(t) \cap Tasks : 0 <= Duration(t) + Lag(t, p)

-------------------------------------------------------------------------------
(* Properties. *)

TypeOK ==
    /\ plan \in Plan
    /\ pc \in {"visit", "forward", "backward", "done", "failed"}
    /\ visited \subseteq Ids
    /\ stack \in Seq(Tasks) /\ \A i, j \in 1..Len(stack) : stack[i] = stack[j] => i = j
    /\ left \in [Tasks -> SUBSET Ids]
    /\ order \in Seq(Tasks)
    /\ at \in 0..(Len(order) + 1)
    /\ es \in [Tasks -> Int] /\ ef \in [Tasks -> Int] /\ ls \in [Tasks -> Int]
    /\ length \in Int

\* Whatever the dependencies, cycles included, the passes come by every task
\* once; without a cycle, by its predecessors first.
OrderIsTopological ==
    pc \in {"forward", "backward", "done"} =>
        /\ \A t \in Tasks : \E i \in 1..Len(order) : order[i] = t
        /\ \A i, j \in 1..Len(order) :
              /\ order[i] = order[j] => i = j
              /\ Acyclic /\ order[j] \in Predecessors(order[i]) => j < i

\* The early starts are the earliest at which everything can start, and no
\* schedule of the project is shorter than its duration.
EarlyIsEarliest ==
    pc = "done" /\ Acyclic =>
        /\ es \in InTime
        /\ \A s \in InTime : \A t \in Tasks : es[t] <= s[t]
        /\ Tasks # {} => \A s \in InTime : \E t \in Tasks : s[t] + Duration(t) = length

\* Whoever starts a task after its late start delays the project; and, leads
\* being gentle, all tasks may start at their late starts.
LateIsLatest ==
    pc = "done" /\ Acyclic =>
        /\ \A s \in InTime : \A t \in Tasks : s[t] <= ls[t]
        /\ Gentle => ls \in InTime

\* The critical tasks make up paths: each starts at once or right after another
\* one, and, leads being gentle, those that end the project are among them.
CriticalChain ==
    pc = "done" /\ Acyclic =>
        /\ \A t \in Tasks :
              Critical(t) /\ es[t] # 0 =>
                  \E p \in Predecessors(t) \cap Tasks : Critical(p) /\ ef[p] + Lag(t, p) = es[t]
        /\ Gentle => \A t \in Tasks : ef[t] = length => Critical(t)

\* Cycles do not keep the calculation from ending.
CalculationEnds == <>(pc \in {"done", "failed"})

\* The passes look predecessors up among the tasks before they use them, and
\* the endpoint is for any project: a dependency on a task that was removed,
\* or is of another project, does not make the calculation fail.
UnknownPredecessorsAreSkipped == pc # "failed"

===============================================================================
