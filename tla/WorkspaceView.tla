----------------------------- MODULE WorkspaceView -----------------------------
(***************************************************************************)
(* What the page of a local project shows of the answers it holds: the     *)
(* rows of the WBS table, the Gantt chart and PM Flow (TaskChart,          *)
(* ProjectFlow), as the workspace arrives, PMBOK after it or not, groups   *)
(* of tasks are collapsed, and the workspace is read again when the user   *)
(* comes back to the project.  LocalProjectPage says when answers are      *)
(* taken; here one is taken in one step.                                   *)
(***************************************************************************)
EXTENDS ProjectFlow

CONSTANTS
    Answers,  \* bound: what the API may answer in one behaviour
    Moments   \* when the chart is rendered, in quarters of a day

\* What answers hold: days and numbers of rows, as the schema has them.
IsWorkspace(w) ==
    /\ w.filled \in 0..5
    /\ IsFiniteSet(DOMAIN w.tasks) /\ Null \notin DOMAIN w.tasks
    /\ \A t \in DOMAIN w.tasks :
          {w.tasks[t].start, w.tasks[t].end} \subseteq Int \cup {Null}

IsTables(b) ==
    {b.charterFilled, b.stakeholders, b.resources, b.raci, b.costPlans, b.risks,
     b.risksIncomplete, b.qualityPlans, b.definitionOfDone, b.communicationPlans,
     b.changeLogs} \subseteq Nat

IsAnswers(a) ==
    /\ a = [first |-> a.first, pmbok |-> a.pmbok, again |-> a.again]
    /\ IsWorkspace(a.first)
    /\ a.again = Null \/ IsWorkspace(a.again)
    /\ a.pmbok = Null \/ IsTables(a.pmbok)

ASSUME ViewAssumption ==
    /\ Null \notin Int
    /\ Moments \subseteq Int
    /\ \A a \in Answers : IsAnswers(a)

VARIABLES
    workspace,  \* the project and its tasks
    pmbok,      \* its PMBOK tables, Null before they have come
    collapsed,  \* collapsedTaskIds
    answers     \* what this behaviour is answered with

viewVars == <<workspace, pmbok, collapsed, answers>>

tasks == workspace.tasks

-------------------------------------------------------------------------------

ViewInit ==
    /\ answers \in Answers
    /\ workspace = answers.first
    /\ pmbok = Null
    /\ collapsed = {}

PmbokArrives ==
    /\ pmbok = Null /\ answers.pmbok # Null
    /\ pmbok' = answers.pmbok
    /\ UNCHANGED <<workspace, collapsed, answers>>

\* The arrow of a row, which has one if it has children.
ToggleTask(t) ==
    /\ t \in Visible(tasks, collapsed) /\ HasChildren(tasks, t)
    /\ collapsed' = IF t \in collapsed THEN collapsed \ {t}
                                       ELSE collapsed \cup {t}
    /\ UNCHANGED <<workspace, pmbok, answers>>

\* Slip: they are never opened.
CollapsedForEver(w) == collapsed

\* The groups collapsed under the workspace before: they are opened only if
\* the project is another one.
CollapsedUnder(w) == IF w.id = workspace.id THEN collapsed ELSE {}

\* The user selected a project, perhaps another one and this one again.
WorkspaceReadAgain ==
    /\ answers.again # Null
    /\ workspace' = answers.again
    /\ collapsed' = CollapsedUnder(answers.again)
    /\ pmbok' = Null
    /\ answers' = [answers EXCEPT !.again = Null]

ViewNext == PmbokArrives \/ WorkspaceReadAgain \/ \E t \in DOMAIN tasks : ToggleTask(t)

ViewSpec == ViewInit /\ [][ViewNext]_viewVars

-------------------------------------------------------------------------------
(* Properties. *)

\* Folding the tree hides a row exactly when a group above it, at any
\* distance, is collapsed, and loses none: above a hidden row there is one in
\* view with an arrow that opens its group.  Excepted are parents that go
\* round, and groups whose row has gone from the project while another was
\* selected.  A row is indented once for every task above it; where parents
\* go round, the walks up end.  (taskDepth and visibleTasks of
\* LocalProjectManagementPage, depthById of the Gantt chart.)
FoldingFollowsTheTree ==
    \A t \in DOMAIN tasks :
        LET above  == Ancestors(tasks, t)
            shown  == Visible(tasks, collapsed)
            closed == above \cap collapsed
        IN  /\ t \in shown <=> closed = {}
            /\ Depth(tasks, t) = Cardinality(IF GoesRound(tasks, t)
                                             THEN above \cup {t} ELSE above)
            /\ \/ t \in shown \/ GoesRound(tasks, t)
               \/ /\ workspace # answers.first
                  /\ workspace.id = answers.first.id
                  /\ ~(closed \subseteq DOMAIN tasks)
               \/ \E a \in closed \cap shown : HasChildren(tasks, a)

\* Every bar whose task does not end before it starts lies inside the chart,
\* whatever dates other tasks lack or have reversed, and so do the lines of
\* the dependencies between such bars.  The line of today is under today,
\* except past noon while no task has a start: the columns begin at the time of
\* day then, and the line is a day early (timeline, geometryById,
\* dependencyLines and todayLeft of LocalProjectManagementGantt).
ChartIsInScale ==
    \A now \in Moments :
        LET line   == Timeline(tasks, now)
            today  == TodayLeft(line, now)
            inTime == {t \in DOMAIN tasks : HasBar(tasks, t)
                                 /\ tasks[t].start <= tasks[t].end}
        IN  /\ \A t \in inTime :
                  LET bar == Bar(tasks, line, t)
                  IN  0 <= bar.left /\ bar.left + bar.width <= Width(line)
            /\ \A s, t \in inTime : Elbow(tasks, line, s, t) <= Width(line)
            /\ \/ today = Null
               \/ DayOfCell(line, today \div CELL_WIDTH) = now \div 4
               \/ now % 4 = 3 /\ \A t \in DOMAIN tasks : tasks[t].start = Null

flow == Flow(workspace, pmbok)

\* The page shows 100 % set up only when every step that PMBOK is read for
\* has been read and counts 100 %, and of the dates of the tasks no more is
\* missing than rounding hides (setupPercent of LocalProjectManagementPage).
\* It does not say that every step is done: a charter with all its fields but no
\* approval, and cost plans above the budget, count 100 % and are in progress.
FullSetupIsFull ==
    SetupPercent(flow) = 100 =>
        /\ \A k \in PmbokSteps \cup {"charter"} : flow[k].percent = 100
        /\ flow["wbs"].percent >= 96
================================================================================
