------------------------------ MODULE ProjectFlow ------------------------------
(***************************************************************************)
(* The eleven steps of PM Flow (buildFlow of LocalProjectManagementFlow):  *)
(* the status and percentage of each, from the workspace of a project and  *)
(* its PMBOK tables, which are read by another request and may never come. *)
(*                                                                         *)
(* A table of PMBOK counts its rows that are not removed (status 9); of    *)
(* the text fields of charter and project, the number that is filled in.   *)
(***************************************************************************)
EXTENDS TaskChart

\* Percentages are computed on numbers with fractions: Percent(n, d) is
\* Math.round(n / d * 100), cut off at 100.
Percent(n, d) == Min({100, (200 * n + d) \div (2 * d)})

Step(kind, status, percent) ==
    [kind |-> kind, status |-> status, percent |-> percent]

-------------------------------------------------------------------------------
(* The steps that PMBOK is read for.  w is the workspace, b the tables.   *)

Charter(w, b) ==
    IF b = Null
    THEN Step("setup", IF w.filled >= 3 THEN "progress" ELSE "todo",
              Percent(w.filled, 5))
    ELSE Step("setup",
              CASE b.charterApproved -> "done"
                [] ~b.charterApproved /\ b.charterFilled > 0 -> "progress"
                [] OTHER -> "todo",
              Percent(b.charterFilled, 7))

Unavailable == Step("setup", "na", 0)

Stakeholder(b) ==
    Step("setup", IF b.stakeholders > 0 THEN "progress" ELSE "todo",
         Percent(b.stakeholders, 4))

Resource(b) ==
    LET parts == Cardinality({k \in {"resources", "raci"} : b[k] > 0})
    IN  Step("setup", <<"todo", "progress", "done">>[parts + 1], 50 * parts)

\* Lines of cost: their amounts, and the highest contingency on top, in %.
Cost(w, b) ==
    LET overBudget == /\ w.budget > 0
                      /\ b.costs * (100 + b.contingency) > 100 * w.budget
    IN  CASE b.costPlans > 0 ->
               Step("setup", IF overBudget THEN "progress" ELSE "done", 100)
          [] b.costPlans = 0 /\ w.budget > 0 -> Step("setup", "progress", 50)
          [] OTHER -> Step("setup", "todo", 0)

\* Incomplete: without a response or an owner.
Risk(b) ==
    CASE b.risks = 0 -> Step("setup", "todo", 0)
      [] b.risks > 0 /\ b.risksIncomplete = 0 -> Step("setup", "done", 100)
      [] OTHER -> Step("setup", "progress", 70)

Quality(b) ==
    LET plans == b.qualityPlans > 0
        dod   == b.definitionOfDone
    IN  Step("setup",
             CASE plans /\ dod >= 3 -> "done"
               [] ~plans /\ dod = 0 -> "todo"
               [] OTHER -> "progress",
             (IF plans THEN 50 ELSE 0)
               + (IF dod >= 3 THEN 50 ELSE IF dod > 0 THEN 25 ELSE 0))

Communication(b) ==
    Step("setup",
         CASE b.communicationPlans >= 3 -> "done"
           [] b.communicationPlans \in 1..2 -> "progress"
           [] OTHER -> "todo",
         Percent(b.communicationPlans, 3))

ChangeLog(b) ==
    IF b.changeLogs > 0 THEN Step("setup", "done", 100)
                        ELSE Step("setup", "todo", 0)

-------------------------------------------------------------------------------
(* The steps that are read off the tasks. *)

Scheduled(w) == {t \in DOMAIN w.tasks : HasBar(w.tasks, t)}

AverageProgress(w) ==
    IF DOMAIN w.tasks = {} THEN 0
    ELSE Percent(MapThenSumSet(LAMBDA t : w.tasks[t].progress, DOMAIN w.tasks),
                 100 * Cardinality(DOMAIN w.tasks))

Wbs(w) ==
    CASE ~w.hasSource -> Unavailable
      [] w.hasSource /\ DOMAIN w.tasks = {} -> Step("setup", "todo", 0)
      [] OTHER -> Step("setup", "progress", Percent(Cardinality(Scheduled(w)),
                                                    Cardinality(DOMAIN w.tasks)))

Schedule(w) ==
    IF ~w.hasSource THEN Step("execution", "na", 0)
    ELSE Step("execution", IF Scheduled(w) # {} THEN "progress" ELSE "todo",
              AverageProgress(w))

\* The steps that are "na" until PMBOK has come.
PmbokSteps == {"stakeholder", "resource", "cost", "risk", "quality",
               "communication", "change_log"}

Unread == [k \in PmbokSteps |-> Unavailable]

\* buildFlow.
Flow(w, b) ==
    LET ofProject == [charter   |-> Charter(w, b), wbs |-> Wbs(w),
                      schedule  |-> Schedule(w),
                      dashboard |-> Step("auto", "auto", AverageProgress(w))]
        ofTables  == IF b = Null THEN Unread
                     ELSE [stakeholder   |-> Stakeholder(b), resource   |-> Resource(b),
                           cost          |-> Cost(w, b),     risk       |-> Risk(b),
                           quality       |-> Quality(b),     change_log |-> ChangeLog(b),
                           communication |-> Communication(b)]
    IN  [k \in DOMAIN ofProject \cup PmbokSteps |->
            IF k \in PmbokSteps THEN ofTables[k] ELSE ofProject[k]]

-------------------------------------------------------------------------------

\* Slip: what is not available does not count.
AvailableSteps(flow) ==
    {k \in DOMAIN flow : flow[k].kind = "setup" /\ flow[k].status # "na"}

SetupSteps(flow) == {k \in DOMAIN flow : flow[k].kind = "setup"}

\* The number at the top of the page.
SetupPercent(flow) ==
    Percent(MapThenSumSet(LAMBDA k : flow[k].percent, SetupSteps(flow)),
            100 * Cardinality(SetupSteps(flow)))
================================================================================
