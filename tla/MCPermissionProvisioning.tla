------------------------ MODULE MCPermissionProvisioning ------------------------
(* Small instances of PermissionProvisioning for TLC. *)
EXTENDS PermissionProvisioning, TLC

OneForm == <<"project-tasks">>

TwoForms == <<"projectmanagement", "project-tasks">>

Symmetry == Permutations(Runs)

===============================================================================
