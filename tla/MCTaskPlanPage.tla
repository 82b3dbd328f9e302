---------------------------- MODULE MCTaskPlanPage ----------------------------
(* The turn of 2020, which has 53 weeks, to 2021: week 2 has progress, which *)
(* takes several pages of the list, week 1 a Next Plan only, week 53 others. *)
EXTENDS TaskPlanPage

CONSTANTS pA, pB, cA, cB, mA, mB

MCProjects == {pA, pB}
MCCustomers == {cA, cB}
MCManagers == {mA, mB}
MCCustomerOf == pA :> cA @@ pB :> cB
MCThisWeek == [year |-> 2021, week |-> 2]

Plan(id, y, w, s, p, creator, st) ==
    [id |-> id, year |-> y, week |-> w, section |-> s, project |-> p,
     customer |-> MCCustomerOf[p], manager |-> IF p = pA THEN mA ELSE mB,
     createdBy |-> creator, status |-> st]

MCPlans ==
    {Plan(1, 2020, 53, 2, pA, mA, 1), Plan(2, 2020, 53, 2, pB, mA, 1),
     Plan(3, 2020, 52, 2, pA, mB, 1), Plan(4, 2020, 52, 1, pA, mA, 9),
     Plan(5, 2021, 1, 2, pA, mA, 1), Plan(6, 2021, 2, 1, pA, mB, 1),
     Plan(7, 2021, 2, 1, pB, mB, 1), Plan(8, 2021, 2, 1, pB, mA, 1)}

Play(m, fields) == [mode |-> m, filters |-> fields]

MCInPlay ==
    {Play("list", {"section", "order"}), Play("list", {"project", "customer"}),
     Play("list", {"manager", "status"}), Play("week", {"week", "section"}),
     Play("week", {"week", "status"}), Play("week", {"project", "manager"})}

\* What the proofs about the calendar ask of the plans holds of these.
ASSUME MCInRealWeeks == InRealWeeks

===============================================================================
