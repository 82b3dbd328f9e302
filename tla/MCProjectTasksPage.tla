-------------------------- MODULE MCProjectTasksPage --------------------------
(* A small instance of ProjectTasksPage for TLC. *)
EXTENDS ProjectTasksPage, TLC

TwoTasks == <<1, 2>>

OneTask == <<1>>

NoTask == <<>>

Symmetry == Permutations(Projects) \cup Permutations(Slots)

===============================================================================
