---------------------------- MODULE StatePathSearch ----------------------------
(***************************************************************************)
(* TfsProjectReader.FindStatePathAsync: the breadth-first search, in the   *)
(* transitions TFS lists for a work item type, for the states to pass      *)
(* through from the current one to the one a request asks for.             *)
(*                                                                         *)
(* A state stands for a name up to letter case, as the search compares     *)
(* them.  TFS may list the transitions of a state in any order.            *)
(***************************************************************************)
EXTENDS StateGraph, SequencesExt

CONSTANTS
    TypeStates,  \* the states of the work item type
    Workflows,   \* the sets of transitions its process template may have
    Changes      \* the state changes asked for: present and wanted state

\* Both callers search only when the item is not in the wanted state already.
ASSUME SearchAssumption ==
    /\ IsFiniteSet(TypeStates)
    /\ Workflows \subseteq SUBSET (TypeStates \X TypeStates)
    /\ Changes \subseteq {c \in TypeStates \X TypeStates : c[1] # c[2]}

VARIABLES
    edges,       \* type.Transitions
    from,        \* the state the item is in
    to,          \* the state the request asks for
    queue,       \* paths to states seen and not yet looked at
    visited,     \* states seen
    depth,       \* history: length of the path a state was queued with, or 0
    found,       \* the path returned
    status       \* "searching", then "found" or "none" (an exception)

searchVars == <<edges, from, to, queue, visited, depth, found, status>>

Successors(s) == {t \in TypeStates : <<s, t>> \in edges}

\* Slip: only the first listed transition that leads somewhere new is kept.
FirstNew(s) ==
    IF Successors(s) \subseteq visited THEN {} ELSE {CHOOSE t \in Successors(s) : t \notin visited}

\* The states that visited.Add accepts.
New(s) == Successors(s) \ visited

\* Slip: the newest path is looked at first.
Pushed(q, new) == new \o q

\* queue.Enqueue, one path after the other.
Enqueued(q, new) == q \o new

SearchInit ==
    /\ edges \in Workflows
    /\ \E c \in Changes : from = c[1] /\ to = c[2]
    /\ queue = <<<<from>>>>
    /\ visited = {from}
    /\ depth = [s \in TypeStates |-> IF s = from THEN 1 ELSE 0]
    /\ found = <<>>
    /\ status = "searching"

\* The path at the head of the queue ends in the wanted state.
Return ==
    /\ status = "searching"
    /\ queue # <<>>
    /\ Last(Head(queue)) = to
    /\ found' = Head(queue)
    /\ status' = "found"
    /\ queue' = Tail(queue)
    /\ UNCHANGED <<edges, from, to, visited, depth>>

\* Slip: Peek for Dequeue.
ExtendPeek ==
    /\ status = "searching"
    /\ queue # <<>>
    /\ Last(Head(queue)) # to
    /\ \E order \in SetToSeqs(New(Last(Head(queue)))) :
         queue' = Enqueued(queue, [k \in DOMAIN order |-> Append(Head(queue), order[k])])
    /\ visited' = visited \cup New(Last(Head(queue)))
    /\ depth' = [s \in TypeStates |-> IF s \in New(Last(Head(queue)))
                                   THEN Len(Head(queue)) + 1 ELSE depth[s]]
    /\ UNCHANGED <<edges, from, to, found, status>>

\* It does not: queue its extensions to the states not seen before.
Extend ==
    /\ status = "searching"
    /\ queue # <<>>
    /\ Last(Head(queue)) # to
    /\ \E order \in SetToSeqs(New(Last(Head(queue)))) :
         queue' = Enqueued(Tail(queue),
                           [k \in DOMAIN order |-> Append(Head(queue), order[k])])
    /\ visited' = visited \cup New(Last(Head(queue)))
    /\ depth' = [s \in TypeStates |-> IF s \in New(Last(Head(queue)))
                                   THEN Len(Head(queue)) + 1 ELSE depth[s]]
    /\ UNCHANGED <<edges, from, to, found, status>>

\* TFS_STATE_TRANSITION_UNAVAILABLE.
Fail ==
    /\ status = "searching"
    /\ queue = <<>>
    /\ status' = "none"
    /\ UNCHANGED <<edges, from, to, queue, visited, depth, found>>

SearchNext == Return \/ Extend \/ Fail

SearchSpec == SearchInit /\ [][SearchNext]_searchVars

\* The loop awaits nothing: it runs to its end.
FairSearch == SearchSpec /\ WF_searchVars(SearchNext)

-------------------------------------------------------------------------------
(* Properties. *)

\* The search returns a shortest walk of the workflow from the present state
\* to the wanted one, the result the update handler is modelled with.
FoundIsShortest ==
    status = "found" => found \in ShortestWalks(TypeStates, edges, from, to)

\* The request is refused only when no walk exists.
NoneIsUnreachable ==
    status = "none" => ~Reachable(TypeStates, edges, from, to)

\* A workflow with cycles does not keep the search from ending.
SearchEnds == <>(status # "searching")

-------------------------------------------------------------------------------
(* The inductive invariant. *)

SearchTypeOK ==
    /\ edges \in Workflows
    /\ <<from, to>> \in Changes
    /\ queue \in Seq(Seq(TypeStates) \ {<<>>})
    /\ visited = {s \in TypeStates : depth[s] > 0}
    /\ depth \in [TypeStates -> Nat]
    /\ found \in Seq(TypeStates)
    /\ status \in {"searching", "found", "none"}

\* A walk from the present state, each state on it first seen there.
FirstWalk(p) ==
    /\ p # <<>>
    /\ p[1] = from
    /\ \A k \in 1..(Len(p) - 1) : <<p[k], p[k + 1]>> \in edges
    /\ \A k \in 1..Len(p) : depth[p[k]] = k

QueuedWalks == \A k \in DOMAIN queue : FirstWalk(queue[k])

\* The queue holds paths of one length and then of the next, and nothing seen
\* so far lies deeper than that.
Levels ==
    /\ \A j, k \in DOMAIN queue : j <= k => Len(queue[j]) <= Len(queue[k])
    /\ \A j \in DOMAIN queue : \A s \in visited : depth[s] <= Len(queue[j]) + 1

Queued(s) == \E k \in DOMAIN queue : Last(queue[k]) = s

LookedAt(s) ==
    /\ s # to
    /\ \A t \in Successors(s) : t \in visited /\ depth[t] <= depth[s] + 1

\* A state that was seen still waits in the queue or has been looked at.
Frontier == status # "found" => \A s \in visited : Queued(s) \/ LookedAt(s)

Result ==
    /\ status = "found" =>
         /\ FirstWalk(found)
         /\ found[Len(found)] = to
         /\ \A n \in 1..(Len(found) - 1) : WalksOfLength(n, TypeStates, edges, from, to) = {}
    /\ status = "none" => queue = <<>>

\* The queue is a frontier that every walk to the wanted state must cross, no
\* later than the search has reached it; the search's results follow from it.
SearchInv ==
    /\ SearchTypeOK
    /\ depth[from] = 1
    /\ QueuedWalks
    /\ Levels
    /\ Frontier
    /\ Result

===============================================================================
