------------------------ MODULE PermissionProvisioning ------------------------
(***************************************************************************)
(* backend.PermissionProvisioner: runs of the console tool that puts an    *)
(* existing user into one of three shared roles and fills that role with   *)
(* permissions, each find and each insert a statement of its own and none  *)
(* of them in a transaction.                                               *)
(*                                                                         *)
(* Runs overlap, stop between any two statements, and are repeated.  The   *)
(* tables are sets of rows without their ids: the unique keys on the code  *)
(* of a role and on the resource and action of a permission leave one row  *)
(* each, and a second insert of it ends the tool with an exception.        *)
(***************************************************************************)
EXTENDS Naturals, Sequences

CONSTANTS
    Runs,     \* runs of the tool
    Users,    \* the active users of app_users
    Nobody,   \* a name that is not in app_users
    Forms     \* the form codes, in the order of the tool's loop

Codes == {"TFS_READONLY", "TFS_TASK_CREATOR", "TFS_TASK_EDITOR"}

Actions == {"ACCESS", "VIEW", "ADD", "EDIT"}

FormCodes == {Forms[k] : k \in DOMAIN Forms}

Permission == FormCodes \X Actions

ASSUME ProvisioningAssumption ==
    /\ Forms \in Seq(STRING)
    /\ \A j, k \in DOMAIN Forms : Forms[j] = Forms[k] => j = k
    /\ Nobody \notin Users

VARIABLES
    roles,         \* app_roles, by code
    permissions,   \* app_permissions, by resource and action
    grants,        \* app_role_permissions
    members,       \* app_user_roles
    opts,          \* opts[r]: the options of run r
    pc,            \* pc[r]: the statement run r sends next, or how it ended
    at,            \* at[r]: how many permissions run r has seen to
    met            \* history: met[r], the runs that overlapped with r

vars == <<roles, permissions, grants, members, opts, pc, at, met>>

Options == [user : Users \cup {Nobody}, allowAdd : BOOLEAN, allowEdit : BOOLEAN]

\* Slip: the role of a run that only adds.
CodeByEdit(o) == IF o.allowEdit THEN "TFS_TASK_EDITOR" ELSE "TFS_READONLY"

\* The role a run fills.
Code(o) ==
    IF o.allowEdit THEN "TFS_TASK_EDITOR"
    ELSE IF o.allowAdd THEN "TFS_TASK_CREATOR"
    ELSE "TFS_READONLY"

\* The actions a run grants on each form, in the order it does.
ActionList(o) ==
    CASE o.allowAdd  /\ o.allowEdit   -> <<"ACCESS", "VIEW", "ADD", "EDIT">>
      [] o.allowAdd  /\ ~o.allowEdit  -> <<"ACCESS", "VIEW", "ADD">>
      [] ~o.allowAdd /\ o.allowEdit   -> <<"ACCESS", "VIEW", "EDIT">>
      [] ~o.allowAdd /\ ~o.allowEdit  -> <<"ACCESS", "VIEW">>

ActionCount(o) == Len(ActionList(o))

\* The n-th permission of the two nested loops, counted from zero.
Nth(o, n) ==
    <<Forms[(n \div ActionCount(o)) + 1], ActionList(o)[(n % ActionCount(o)) + 1]>>

Total(o) == Len(Forms) * ActionCount(o)

Asked(o) == {Nth(o, n) : n \in 0..(Total(o) - 1)}

\* The join of GetPermissionsAsync.
RightsOf(u) == {p \in Permission : \E c \in Codes : <<u, c>> \in members /\ <<c, p>> \in grants}

Ended == {"unused", "done", "collided", "stopped"}

Active(r) == pc[r] \notin Ended

-------------------------------------------------------------------------------

Goto(r, where) == pc' = [pc EXCEPT ![r] = where]

\* Slip: a user that is not found does not stop the tool.
StartUnchecked(r) ==
    /\ pc[r] = "unused"
    /\ \E o \in Options : opts' = [opts EXCEPT ![r] = o]
    /\ Goto(r, "findRole")
    /\ met' = [met EXCEPT ![r] = {p \in Runs : Active(p)}]
    /\ UNCHANGED <<roles, permissions, grants, members, at>>

\* The tool starts and looks the user up.
Start(r) ==
    /\ pc[r] = "unused"
    /\ \E o \in Options :
         /\ opts' = [opts EXCEPT ![r] = o]
         /\ Goto(r, IF o.user \in Users THEN "findRole" ELSE "stopped")
    /\ met' = [q \in Runs |->
                 IF q = r THEN {p \in Runs : Active(p)}
                 ELSE IF Active(q) THEN met[q] \cup {r}
                 ELSE met[q]]
    /\ UNCHANGED <<roles, permissions, grants, members, at>>

FindRole(r) ==
    /\ pc[r] = "findRole"
    /\ Goto(r, IF Code(opts[r]) \in roles THEN "findPermission" ELSE "insertRole")
    /\ UNCHANGED <<roles, permissions, grants, members, opts, at, met>>

\* The insert of EnsureRoleAsync; ux_app_roles_code refuses a second one.
InsertRole(r) ==
    /\ pc[r] = "insertRole"
    /\ Goto(r, IF Code(opts[r]) \in roles THEN "collided" ELSE "findPermission")
    /\ roles' = roles \cup {Code(opts[r])}
    /\ UNCHANGED <<permissions, grants, members, opts, at, met>>

Present(r) == Nth(opts[r], at[r]) \in permissions

\* Slip: the permission is inserted without a look.
NeverPresent(r) == FALSE

\* What the first statement of EnsurePermissionAsync says of the permission.
Known(r) == Present(r)

FindPermission(r) ==
    /\ pc[r] = "findPermission"
    /\ at[r] < Total(opts[r])
    /\ Goto(r, IF Known(r) THEN "link" ELSE "insertPermission")
    /\ UNCHANGED <<roles, permissions, grants, members, opts, at, met>>

\* InsertPermissionAsync; ux_app_permissions_resource_action.
InsertPermission(r) ==
    /\ pc[r] = "insertPermission"
    /\ Goto(r, IF Present(r) THEN "collided" ELSE "link")
    /\ permissions' = permissions \cup {Nth(opts[r], at[r])}
    /\ UNCHANGED <<roles, grants, members, opts, at, met>>

\* Slip: a permission that some role holds already is not linked again.
LinkNew(r) ==
    /\ pc[r] = "link"
    /\ grants' = IF \E c \in Codes : <<c, Nth(opts[r], at[r])>> \in grants THEN grants
                 ELSE grants \cup {<<Code(opts[r]), Nth(opts[r], at[r])>>}
    /\ at' = [at EXCEPT ![r] = @ + 1]
    /\ Goto(r, "findPermission")
    /\ UNCHANGED <<roles, permissions, members, opts, met>>

\* INSERT IGNORE INTO app_role_permissions, then the next permission.
Link(r) ==
    /\ pc[r] = "link"
    /\ grants' = grants \cup {<<Code(opts[r]), Nth(opts[r], at[r])>>}
    /\ at' = [at EXCEPT ![r] = @ + 1]
    /\ Goto(r, "findPermission")
    /\ UNCHANGED <<roles, permissions, members, opts, met>>

\* Slip: the user joins the role first.
JoinEarly(r) ==
    /\ pc[r] = "findPermission"
    /\ members' = members \cup {<<opts[r].user, Code(opts[r])>>}
    /\ Goto(r, IF at[r] = Total(opts[r]) THEN "done" ELSE pc[r])
    /\ UNCHANGED <<roles, permissions, grants, opts, at, met>>

\* EnsureUserRoleAsync, after the last permission.
Join(r) ==
    /\ pc[r] = "findPermission"
    /\ at[r] = Total(opts[r])
    /\ members' = members \cup {<<opts[r].user, Code(opts[r])>>}
    /\ Goto(r, "done")
    /\ UNCHANGED <<roles, permissions, grants, opts, at, met>>

\* The tool is killed or loses its connection.
Stop(r) ==
    /\ Active(r)
    /\ Goto(r, "stopped")
    /\ UNCHANGED <<roles, permissions, grants, members, opts, at, met>>

-------------------------------------------------------------------------------

Init ==
    /\ roles = {} /\ permissions = {} /\ grants = {} /\ members = {}
    /\ opts = [r \in Runs |-> [user |-> Nobody, allowAdd |-> FALSE, allowEdit |-> FALSE]]
    /\ pc = [r \in Runs |-> "unused"]
    /\ at = [r \in Runs |-> 0]
    /\ met = [r \in Runs |-> {}]

Step(r) ==
    \/ Start(r)
    \/ FindRole(r)
    \/ InsertRole(r)
    \/ FindPermission(r)
    \/ InsertPermission(r)
    \/ Link(r)
    \/ Join(r)
    \/ Stop(r)

Next == \E r \in Runs : Step(r)

Spec == Init /\ [][Next]_vars

-------------------------------------------------------------------------------
(* Properties. *)

TypeOK ==
    /\ roles \subseteq Codes
    /\ permissions \subseteq Permission
    /\ grants \subseteq Codes \X Permission
    /\ members \subseteq Users \X Codes
    /\ opts \in [Runs -> Options]
    /\ pc \in [Runs -> Ended \cup {"findRole", "insertRole", "findPermission",
                                   "insertPermission", "link"}]
    /\ at \in [Runs -> Nat]
    /\ \A r \in Runs : Active(r) => opts[r].user \in Users
    /\ \A r \in Runs : pc[r] \in {"insertPermission", "link"} => at[r] < Total(opts[r])
    /\ met \in [Runs -> SUBSET Runs]

\* A run that reports success has given its user every permission it names,
\* whatever interrupted or overlapping runs left in the tables before.
Delivered ==
    \A r \in Runs : pc[r] = "done" => Asked(opts[r]) \subseteq RightsOf(opts[r].user)

\* However runs are interrupted, nobody is ever member of a role that lacks
\* the permissions every role has: the user joins last.
MembersCanView ==
    \A m \in members : \A f \in FormCodes : {<<f, "ACCESS">>, <<f, "VIEW">>} \subseteq RightsOf(m[1])

\* What each role may hold at most.
RoleActions(c) ==
    CASE c = "TFS_READONLY"     -> {"ACCESS", "VIEW"}
      [] c = "TFS_TASK_CREATOR" -> {"ACCESS", "VIEW", "ADD"}
      [] c = "TFS_TASK_EDITOR"  -> {"ACCESS", "VIEW", "ADD", "EDIT"}

\* Roles are shared by all runs, yet none puts more into a role than its name
\* stands for: the read-only role stays read-only.
RolesKeepTheirBounds ==
    \A g \in grants : g[2][2] \in RoleActions(g[1])

\* A run fails on a row that is already there only if another run overlapped
\* with it: what a stopped run left behind never makes a repeated run fail.
OnlyOverlapsCollide ==
    \A r \in Runs : pc[r] = "collided" => met[r] # {}

\* The tool's report, "Granted actions: ACCESS, VIEW, EDIT" with no ADD, holds
\* of its user's rights, unless another run asked for ADD for the same user.
EditAloneAddsNothing ==
    \A u \in Users :
        (\A r \in Runs : opts[r].user = u => ~opts[r].allowAdd) =>
            \A f \in FormCodes : <<f, "ADD">> \notin RightsOf(u)

===============================================================================
