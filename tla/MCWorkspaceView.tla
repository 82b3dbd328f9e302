---------------------------- MODULE MCWorkspaceView ----------------------------
(* Answers of three families: trees of tasks to collapse, dates to draw,   *)
(* and projects and PMBOK tables at the edges of what PM Flow counts.      *)
EXTENDS WorkspaceView

Project(id, filled, budget, hasSource, ts) ==
    [id |-> id, filled |-> filled, budget |-> budget, hasSource |-> hasSource,
     tasks |-> ts]

Row(parent, start, end, milestone, progress) ==
    [parent |-> parent, start |-> start, end |-> end, milestone |-> milestone,
     progress |-> progress]

\* Parents: in the list, gone from it or of another project, or the task
\* itself.
Trees(S, gone) == {[t \in S |-> Row(parents[t], Null, Null, FALSE, 0)] :
                      parents \in [S -> S \cup {gone, Null}]}

\* A group in a group in a group.
Chain == [t \in 1..4 |-> Row(IF t = 1 THEN Null ELSE t - 1, Null, Null, FALSE, 0)]

TreeAnswers ==
    {[first |-> Project(1, 0, 0, TRUE, ts), pmbok |-> Null, again |-> Null] :
        ts \in Trees(1..3, 9) \cup {Chain}}
    \cup
    {[first |-> Project(1, 0, 0, TRUE, ts), pmbok |-> Null,
      again |-> Project(id, 0, 0, TRUE, rest)] :
        ts \in Trees(1..3, 9), id \in 1..2, rest \in Trees(2..3, 1)}

\* Dates within a week, in order or not, or far apart, and no tasks at all.
Dates == {Null, 10, 12, 40}

DateAnswers ==
    {[first |-> Project(1, 0, 0, TRUE, ts), pmbok |-> Null, again |-> Null] :
        ts \in [1..2 -> {Row(Null, s, e, m, 0) :
                            s \in Dates, e \in Dates, m \in BOOLEAN}] \cup {<<>>}}

\* n of m tasks with dates.  26 of 27 is 96 %.
Dated(n, m) == [t \in 1..m |-> Row(Null, 1, IF t <= n THEN 1 ELSE Null, FALSE,
                                   IF t <= n THEN 100 ELSE 40)]

Workspaces == {Project(1, f, b, s, ts) : f \in {0, 2, 3, 5}, b \in {0, 100},
                  s \in BOOLEAN, ts \in {<<>>, Dated(0, 2), Dated(1, 2), Dated(2, 2)}}

Large == {Project(1, 5, 100, TRUE, Dated(n, 27)) : n \in {26, 27}}

Tables ==
    [charterApproved : BOOLEAN, charterFilled : {0, 6, 7},
     stakeholders : {0, 4}, resources : {1}, raci : {0, 2},
     costPlans : {0, 1}, costs : {100}, contingency : {10},
     risks : {2}, risksIncomplete : {0, 1},
     qualityPlans : {0, 1}, definitionOfDone : {1, 3},
     communicationPlans : {3}, changeLogs : {1}]
    \cup
    [charterApproved : {TRUE}, charterFilled : {7},
     stakeholders : {1, 5}, resources : {0}, raci : {1},
     costPlans : {1}, costs : {100}, contingency : {0},
     risks : {0}, risksIncomplete : {0},
     qualityPlans : {0, 1}, definitionOfDone : 0..3,
     communicationPlans : 0..4, changeLogs : 0..1]

Complete == {b \in Tables : b.charterFilled >= 6 /\ b.stakeholders >= 4
                /\ b.raci > 0 /\ b.costPlans > 0 /\ b.qualityPlans > 0}

FlowAnswers ==
    {[first |-> w, pmbok |-> Null, again |-> Null] : w \in Workspaces \cup Large}
    \cup
    {[first |-> w, pmbok |-> b, again |-> Null] :
        w \in {v \in Workspaces : v.filled = 5 /\ v.hasSource}, b \in Tables}
    \cup
    {[first |-> w, pmbok |-> b, again |-> Null] : w \in Large, b \in Complete}

AnswersMC == TreeAnswers \cup DateAnswers \cup FlowAnswers

\* A morning and noon among the dates and an afternoon long after them.
MomentsMC == {45, 46, 403}
================================================================================
