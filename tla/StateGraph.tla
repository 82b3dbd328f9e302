------------------------------ MODULE StateGraph ------------------------------
(***************************************************************************)
(* The workflow of one TFS work item type: a directed graph whose edges    *)
(* are the state transitions TFS lists for the type (TfsWorkItemTypeDto    *)
(* .Transitions).  A "state path" is what FindStatePathAsync hands to the  *)
(* writers: the states to pass through, the current one first.             *)
(***************************************************************************)
EXTENDS Naturals, Sequences, FiniteSets

\* The walks of n states from a to b along the edges E.
WalksOfLength(n, S, E, a, b) ==
    {p \in [1..n -> S] : /\ p[1] = a
                         /\ p[n] = b
                         /\ \A i \in 1..(n - 1) : <<p[i], p[i + 1]>> \in E}

Reachable(S, E, a, b) ==
    \E n \in 1..Cardinality(S) : WalksOfLength(n, S, E, a, b) # {}

\* The shortest walks from a to b: what a breadth-first search may return,
\* whatever order TFS lists the transitions in.  Empty when b is unreachable.
ShortestWalks(S, E, a, b) ==
    LET lengths == {n \in 1..Cardinality(S) : WalksOfLength(n, S, E, a, b) # {}}
    IN UNION {WalksOfLength(n, S, E, a, b) :
                n \in {m \in lengths : \A k \in lengths : m <= k}}

===============================================================================
