------------------------------- MODULE MCAppTabs -------------------------------
(* Two users in turn; one user with many tabs; one with projects.           *)
EXTENDS AppTabs

CONSTANTS uA, uB, p1, p2, dashboard, local, plans, wiki

MCUsers == {uA, uB}
MCProjects == {p1, p2}
MCPages == {dashboard, local, plans, wiki}
MCPlans == {plans}

MCInPlay ==
    {[users |-> {uA, uB}, paths |-> {dashboard, local, wiki}, projects |-> {}],
     [users |-> {uA}, paths |-> MCPages, projects |-> {}],
     [users |-> {uA}, paths |-> {dashboard, local, plans},
      projects |-> {p1, p2}]}

===============================================================================
