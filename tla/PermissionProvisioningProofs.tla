--------------------- MODULE PermissionProvisioningProofs ---------------------
(***************************************************************************)
(* What holds of the permission provisioner for any number of runs, users  *)
(* and forms.                                                              *)
(***************************************************************************)
EXTENDS PermissionProvisioning, TLAPS

\* The first n permissions of run r are granted to its role.
Filled(r, n) ==
    \A i \in 0..(n - 1) : <<Code(opts[r]), Nth(opts[r], i)>> \in grants

\* How far a run has come.
Progress(r) ==
    /\ pc[r] \in {"unused", "findRole", "insertRole"} => at[r] = 0
    /\ pc[r] \in {"findPermission", "insertPermission", "link"} =>
          at[r] <= Total(opts[r]) /\ Filled(r, at[r])
    /\ pc[r] = "done" =>
          /\ opts[r].user \in Users
          /\ <<opts[r].user, Code(opts[r])>> \in members
          /\ Filled(r, Total(opts[r]))

\* A role that has members has what every role has.
RolesWithMembers ==
    \A m \in members : \A f \in FormCodes : \A a \in {"ACCESS", "VIEW"} :
        <<m[2], <<f, a>>>> \in grants

\* Two runs under way have met.
AllMet ==
    \A p, q \in Runs : Active(p) /\ Active(q) /\ p # q => q \in met[p]

\* A row that came between the look of a run and its insert is another's.
RacesAreMet(r) ==
    /\ pc[r] = "insertRole" /\ Code(opts[r]) \in roles => met[r] # {}
    /\ pc[r] = "insertPermission" /\ Present(r) => met[r] # {}
    /\ pc[r] = "collided" => met[r] # {}

IInv ==
    /\ TypeOK
    /\ \A r \in Runs : Progress(r)
    /\ RolesWithMembers
    /\ RolesKeepTheirBounds
    /\ AllMet
    /\ \A r \in Runs : RacesAreMet(r)

-------------------------------------------------------------------------------
(* The permissions of a run, counted. *)

\* The actions of a run begin with ACCESS and VIEW and stay within the bounds
\* of its role.
LEMMA ListedActions ==
    ASSUME NEW o \in Options
    PROVE  /\ ActionCount(o) \in 2..4
           /\ \A k \in 1..ActionCount(o) :
                ActionList(o)[k] \in Actions \cap RoleActions(Code(o))
           /\ ActionList(o)[1] = "ACCESS"
           /\ ActionList(o)[2] = "VIEW"
<1>1. CASE ~o.allowAdd /\ ~o.allowEdit
  <2>1. ActionList(o) = <<"ACCESS", "VIEW">>
    BY <1>1 DEF ActionList
  <2> QED BY <1>1, <2>1 DEF ActionCount, Actions, RoleActions, Code
<1>2. CASE o.allowAdd /\ ~o.allowEdit
  <2>1. ActionList(o) = <<"ACCESS", "VIEW", "ADD">>
    BY <1>2 DEF ActionList
  <2> QED BY <1>2, <2>1 DEF ActionCount, Actions, RoleActions, Code
<1>3. CASE ~o.allowAdd /\ o.allowEdit
  <2>1. ActionList(o) = <<"ACCESS", "VIEW", "EDIT">>
    BY <1>3 DEF ActionList
  <2> QED BY <1>3, <2>1 DEF ActionCount, Actions, RoleActions, Code
<1>4. CASE o.allowAdd /\ o.allowEdit
  <2>1. ActionList(o) = <<"ACCESS", "VIEW", "ADD", "EDIT">>
    BY <1>4 DEF ActionList
  <2> QED BY <1>4, <2>1 DEF ActionCount, Actions, RoleActions, Code
<1> QED BY <1>1, <1>2, <1>3, <1>4 DEF Options

\* Every place of the loops before the last is a permission within those bounds.
LEMMA NthInBounds ==
    ASSUME NEW o \in Options, NEW n \in Nat, n < Total(o)
    PROVE  /\ Nth(o, n) \in Permission
           /\ Nth(o, n)[2] \in RoleActions(Code(o))
<1> DEFINE c == ActionCount(o)
           l == Len(Forms)
<1>1. c \in 2..4 /\ \A k \in 1..c : ActionList(o)[k] \in Actions \cap RoleActions(Code(o))
  BY ListedActions
<1>2. l \in Nat /\ n < l * c
  BY ProvisioningAssumption DEF Total
<1>3. (n \div c) + 1 \in 1..l /\ (n % c) + 1 \in 1..c
  <2> HIDE DEF c, l
  <2>1. CASE c = 2 BY <1>2, <2>1
  <2>2. CASE c = 3 BY <1>2, <2>2
  <2>3. CASE c = 4 BY <1>2, <2>3
  <2> QED BY <1>1, <2>1, <2>2, <2>3
<1>4. Forms[(n \div c) + 1] \in FormCodes
  BY <1>3, ProvisioningAssumption DEF FormCodes
<1> QED BY <1>1, <1>3, <1>4 DEF Nth, Permission

\* The loops come by ACCESS and VIEW of every form.
LEMMA ViewIsAsked ==
    ASSUME NEW o \in Options, NEW f \in FormCodes, NEW a \in {"ACCESS", "VIEW"}
    PROVE  \E n \in Nat : n < Total(o) /\ Nth(o, n) = <<f, a>>
<1> DEFINE c == ActionCount(o)
           l == Len(Forms)
<1>1. c \in 2..4 /\ ActionList(o)[1] = "ACCESS" /\ ActionList(o)[2] = "VIEW"
  BY ListedActions
<1>2. PICK k \in 1..l : Forms[k] = f
  BY ProvisioningAssumption DEF FormCodes
<1> DEFINE n(i) == (k - 1) * c + i
<1>3. \A i \in {0, 1} : /\ n(i) \in Nat
                        /\ n(i) < l * c
                        /\ (n(i) \div c) + 1 = k
                        /\ (n(i) % c) + 1 = i + 1
  <2>0. l \in Nat BY ProvisioningAssumption
  <2> HIDE DEF c, l
  <2>1. CASE c = 2 BY <2>0, <2>1
  <2>2. CASE c = 3 BY <2>0, <2>2
  <2>3. CASE c = 4 BY <2>0, <2>3
  <2> QED BY <1>1, <2>1, <2>2, <2>3
<1>4. Nth(o, n(0)) = <<f, "ACCESS">> /\ Nth(o, n(1)) = <<f, "VIEW">>
  <2> HIDE DEF n, l
  <2>1. /\ (n(0) \div ActionCount(o)) + 1 = k /\ (n(0) % ActionCount(o)) + 1 = 1
        /\ (n(1) \div ActionCount(o)) + 1 = k /\ (n(1) % ActionCount(o)) + 1 = 2
    BY <1>3
  <2> QED BY <1>1, <1>2, <2>1 DEF Nth
<1>5. n(0) \in Nat /\ n(0) < Total(o) /\ n(1) \in Nat /\ n(1) < Total(o)
  BY <1>3 DEF Total
<1> QED BY <1>4, <1>5

-------------------------------------------------------------------------------
(* The invariant. *)

\* The loops are finite, and Code is the code of a role.
LEMMA TotalType ==
    ASSUME NEW o \in Options
    PROVE  Total(o) \in Nat /\ Code(o) \in Codes
<1>1. ActionCount(o) \in 2..4 /\ Len(Forms) \in Nat
  BY ListedActions, ProvisioningAssumption
<1> HIDE DEF ActionCount
<1>2. ActionCount(o) = 2 \/ ActionCount(o) = 3 \/ ActionCount(o) = 4
  BY <1>1
<1>3. Total(o) \in Nat
  BY <1>1, <1>2 DEF Total
<1> QED BY <1>3 DEF Code, Codes

\* The invariant holds before the first run.
LEMMA InitInv == Init => IInv
<1> SUFFICES ASSUME Init PROVE IInv
  OBVIOUS
<1>1. \A r \in Runs : pc[r] = "unused" /\ at[r] = 0 /\ met[r] = {}
  BY DEF Init
<1>2. opts \in [Runs -> Options]
  BY DEF Init, Options
<1>3. TypeOK
  BY <1>1, <1>2 DEF Init, TypeOK, Ended, Active
<1> QED
  BY <1>1, <1>3 DEF Init, IInv, Progress, RolesWithMembers, RolesKeepTheirBounds,
     AllMet, Active, Ended, RacesAreMet

\* No step takes a variable out of its type.
LEMMA NextType == IInv /\ [Next]_vars => TypeOK'
<1> SUFFICES ASSUME IInv, [Next]_vars PROVE TypeOK'
  OBVIOUS
<1> USE DEF IInv, TypeOK
<1>1. ASSUME NEW r \in Runs, Start(r) PROVE TypeOK'
  <2>1. PICK o \in Options :
          /\ opts' = [opts EXCEPT ![r] = o]
          /\ pc' = [pc EXCEPT ![r] = IF o.user \in Users THEN "findRole" ELSE "stopped"]
    BY <1>1 DEF Start, Goto
  <2>2. met' \in [Runs -> SUBSET Runs]
    BY <1>1 DEF Start
  <2>3. \A q \in Runs \ {r} : opts'[q] = opts[q] /\ pc'[q] = pc[q]
    BY <2>1
  <2>4. opts'[r] = o /\ pc'[r] = IF o.user \in Users THEN "findRole" ELSE "stopped"
    BY <2>1
  <2> QED BY <1>1, <2>1, <2>2, <2>3, <2>4 DEF Start, Active, Ended
<1>2. ASSUME NEW r \in Runs, FindRole(r) PROVE TypeOK'
  BY <1>2 DEF FindRole, Goto, Active, Ended
<1>3. ASSUME NEW r \in Runs, InsertRole(r) PROVE TypeOK'
  <2>1. Code(opts[r]) \in Codes
    BY TotalType
  <2> QED BY <1>3, <2>1 DEF InsertRole, Goto, Active, Ended
<1>4. ASSUME NEW r \in Runs, FindPermission(r) PROVE TypeOK'
  BY <1>4 DEF FindPermission, Goto, Active, Ended
<1>5. ASSUME NEW r \in Runs, InsertPermission(r) PROVE TypeOK'
  <2>1. Nth(opts[r], at[r]) \in Permission
    BY <1>5, NthInBounds DEF InsertPermission
  <2> QED BY <1>5, <2>1 DEF InsertPermission, Goto, Active, Ended
<1>6. ASSUME NEW r \in Runs, Link(r) PROVE TypeOK'
  <2>1. Nth(opts[r], at[r]) \in Permission /\ Code(opts[r]) \in Codes
    BY <1>6, NthInBounds, TotalType DEF Link
  <2> QED BY <1>6, <2>1 DEF Link, Goto, Active, Ended
<1>7. ASSUME NEW r \in Runs, Join(r) PROVE TypeOK'
  <2>1. Code(opts[r]) \in Codes /\ opts[r].user \in Users
    BY <1>7, TotalType DEF Join, Active, Ended
  <2> QED BY <1>7, <2>1 DEF Join, Goto, Active, Ended
<1>8. ASSUME NEW r \in Runs, Stop(r) PROVE TypeOK'
  BY <1>8 DEF Stop, Goto, Active, Ended
<1>9. CASE UNCHANGED vars
  BY <1>9 DEF vars, Active, Ended
<1> QED
  BY <1>1, <1>2, <1>3, <1>4, <1>5, <1>6, <1>7, <1>8, <1>9 DEF Next, Step

\* Tables only grow and other runs keep what they hold: what a run has filled
\* stays filled.
LEMMA OthersKeep ==
    ASSUME NEW r \in Runs, Progress(r), grants \subseteq grants', members \subseteq members',
           opts'[r] = opts[r], pc'[r] = pc[r], at'[r] = at[r]
    PROVE  Progress(r)'
BY DEF Progress, Filled

\* No step breaks the invariant.
LEMMA NextInv == IInv /\ [Next]_vars => IInv'
<1> SUFFICES ASSUME IInv, [Next]_vars PROVE IInv'
  OBVIOUS
<1>0. TypeOK /\ TypeOK'
  BY NextType DEF IInv
<1> DEFINE Safe == /\ \A r \in Runs : Progress(r)'
                   /\ RolesWithMembers'
                   /\ RolesKeepTheirBounds'
                   /\ AllMet'
                   /\ \A r \in Runs : RacesAreMet(r)'
<1>1. ASSUME NEW r \in Runs, Start(r) PROVE Safe
  <2>1. /\ UNCHANGED <<roles, permissions, grants, members, at>>
        /\ pc[r] = "unused" /\ pc'[r] \in {"findRole", "stopped"}
        /\ \A q \in Runs \ {r} : pc'[q] = pc[q] /\ opts'[q] = opts[q]
        /\ \A q \in Runs : met'[q] = IF q = r THEN {p \in Runs : Active(p)}
                                       ELSE IF Active(q) THEN met[q] \cup {r}
                                       ELSE met[q]
    BY <1>0, <1>1 DEF Start, Goto, TypeOK
  <2>2. \A q \in Runs : Progress(q)'
    <3>1. Progress(r)'
      BY <2>1 DEF IInv, Progress
    <3>2. \A q \in Runs \ {r} : Progress(q)'
      BY <2>1, OthersKeep DEF IInv
    <3> QED BY <3>1, <3>2
  <2>3. RolesWithMembers' /\ RolesKeepTheirBounds'
    BY <2>1 DEF IInv, RolesWithMembers, RolesKeepTheirBounds
  <2>4. AllMet'
    BY <2>1 DEF IInv, AllMet, Active, Ended
  <2>5. \A q \in Runs : RacesAreMet(q)'
    BY <2>1 DEF IInv, RacesAreMet, Present
  <2> QED BY <2>2, <2>3, <2>4, <2>5
<1>2. ASSUME NEW r \in Runs, FindRole(r) PROVE Safe
  <2>1. /\ UNCHANGED <<roles, permissions, grants, members, opts, at, met>>
        /\ pc[r] = "findRole"
        /\ pc'[r] = IF Code(opts[r]) \in roles THEN "findPermission" ELSE "insertRole"
        /\ \A q \in Runs \ {r} : pc'[q] = pc[q]
    BY <1>0, <1>2 DEF FindRole, Goto, TypeOK
  <2>2. \A q \in Runs : Progress(q)'
    <3>1. Progress(r)'
      <4>1. at'[r] = 0 /\ Total(opts[r]) \in Nat
        BY <1>0, <2>1, TotalType DEF IInv, Progress, TypeOK
      <4>2. 0 <= Total(opts[r]) /\ Filled(r, 0)
        BY <4>1 DEF Filled
      <4> QED BY <2>1, <4>1, <4>2 DEF Progress, Filled
    <3>2. \A q \in Runs \ {r} : Progress(q)'
      BY <2>1, OthersKeep DEF IInv
    <3> QED BY <3>1, <3>2
  <2>3. RolesWithMembers' /\ RolesKeepTheirBounds'
    BY <2>1 DEF IInv, RolesWithMembers, RolesKeepTheirBounds
  <2>4. AllMet'
    BY <2>1 DEF IInv, AllMet, Active, Ended
  <2>5. \A q \in Runs : RacesAreMet(q)'
    BY <2>1 DEF IInv, RacesAreMet, Present
  <2> QED BY <2>2, <2>3, <2>4, <2>5
<1>3. ASSUME NEW r \in Runs, InsertRole(r) PROVE Safe
  <2>1. /\ UNCHANGED <<permissions, grants, members, opts, at, met>>
        /\ pc[r] = "insertRole"
        /\ pc'[r] = IF Code(opts[r]) \in roles THEN "collided" ELSE "findPermission"
        /\ roles' = roles \cup {Code(opts[r])}
        /\ \A q \in Runs \ {r} : pc'[q] = pc[q]
    BY <1>0, <1>3 DEF InsertRole, Goto, TypeOK
  <2>2. \A q \in Runs : Progress(q)'
    <3>1. Progress(r)'
      <4>1. at'[r] = 0 /\ Total(opts[r]) \in Nat
        BY <1>0, <2>1, TotalType DEF IInv, Progress, TypeOK
      <4>2. 0 <= Total(opts[r]) /\ Filled(r, 0)
        BY <4>1 DEF Filled
      <4> QED BY <2>1, <4>1, <4>2 DEF Progress, Filled
    <3>2. \A q \in Runs \ {r} : Progress(q)'
      BY <2>1, OthersKeep DEF IInv
    <3> QED BY <3>1, <3>2
  <2>3. RolesWithMembers' /\ RolesKeepTheirBounds'
    BY <2>1 DEF IInv, RolesWithMembers, RolesKeepTheirBounds
  <2>4. AllMet'
    BY <2>1 DEF IInv, AllMet, Active, Ended
  <2>5. \A q \in Runs : RacesAreMet(q)'
    <3>1. RacesAreMet(r)'
      BY <2>1 DEF IInv, RacesAreMet
    <3>2. ASSUME NEW q \in Runs \ {r}, pc[q] = "insertRole" PROVE met[q] # {}
      BY <2>1, <3>2 DEF IInv, AllMet, Active, Ended
    <3>3. \A q \in Runs \ {r} : RacesAreMet(q)'
      BY <2>1, <3>2 DEF IInv, RacesAreMet, Present
    <3> QED BY <3>1, <3>3
  <2> QED BY <2>2, <2>3, <2>4, <2>5
<1>4. ASSUME NEW r \in Runs, FindPermission(r) PROVE Safe
  <2>1. /\ UNCHANGED <<roles, permissions, grants, members, opts, at, met>>
        /\ pc[r] = "findPermission"
        /\ pc'[r] = IF Present(r) THEN "link" ELSE "insertPermission"
        /\ \A q \in Runs \ {r} : pc'[q] = pc[q]
    BY <1>0, <1>4 DEF FindPermission, Known, Goto, TypeOK
  <2>2. \A q \in Runs : Progress(q)'
    <3>1. Progress(r)'
      BY <2>1 DEF IInv, Progress, Filled
    <3>2. \A q \in Runs \ {r} : Progress(q)'
      BY <2>1, OthersKeep DEF IInv
    <3> QED BY <3>1, <3>2
  <2>3. RolesWithMembers' /\ RolesKeepTheirBounds'
    BY <2>1 DEF IInv, RolesWithMembers, RolesKeepTheirBounds
  <2>4. AllMet'
    BY <2>1 DEF IInv, AllMet, Active, Ended
  <2>5. \A q \in Runs : RacesAreMet(q)'
    BY <2>1 DEF IInv, RacesAreMet, Present
  <2> QED BY <2>2, <2>3, <2>4, <2>5
<1>5. ASSUME NEW r \in Runs, InsertPermission(r) PROVE Safe
  <2>1. /\ UNCHANGED <<roles, grants, members, opts, at, met>>
        /\ pc[r] = "insertPermission"
        /\ pc'[r] = IF Present(r) THEN "collided" ELSE "link"
        /\ \A q \in Runs \ {r} : pc'[q] = pc[q]
    BY <1>0, <1>5 DEF InsertPermission, Goto, TypeOK
  <2>2. \A q \in Runs : Progress(q)'
    <3>1. Progress(r)'
      BY <2>1 DEF IInv, Progress, Filled
    <3>2. \A q \in Runs \ {r} : Progress(q)'
      BY <2>1, OthersKeep DEF IInv
    <3> QED BY <3>1, <3>2
  <2>3. RolesWithMembers' /\ RolesKeepTheirBounds'
    BY <2>1 DEF IInv, RolesWithMembers, RolesKeepTheirBounds
  <2>4. AllMet'
    BY <2>1 DEF IInv, AllMet, Active, Ended
  <2>5. \A q \in Runs : RacesAreMet(q)'
    <3>1. RacesAreMet(r)'
      BY <2>1 DEF IInv, RacesAreMet
    <3>2. ASSUME NEW q \in Runs \ {r}, pc[q] = "insertPermission" PROVE met[q] # {}
      BY <2>1, <3>2 DEF IInv, AllMet, Active, Ended
    <3>3. \A q \in Runs \ {r} : RacesAreMet(q)'
      BY <2>1, <3>2 DEF IInv, RacesAreMet
    <3> QED BY <3>1, <3>3
  <2> QED BY <2>2, <2>3, <2>4, <2>5
<1>6. ASSUME NEW r \in Runs, Link(r) PROVE Safe
  <2>1. /\ UNCHANGED <<roles, permissions, members, opts, met>>
        /\ pc[r] = "link" /\ pc'[r] = "findPermission"
        /\ at[r] \in Nat /\ at'[r] = at[r] + 1
        /\ grants' = grants \cup {<<Code(opts[r]), Nth(opts[r], at[r])>>}
        /\ \A q \in Runs \ {r} : pc'[q] = pc[q] /\ at'[q] = at[q]
    BY <1>0, <1>6 DEF Link, Goto, TypeOK
  <2>2. opts[r] \in Options /\ at[r] < Total(opts[r])
    BY <1>0, <2>1 DEF TypeOK
  <2>3. \A q \in Runs : Progress(q)'
    <3>1. Filled(r, at[r])
      BY <2>1 DEF IInv, Progress
    <3>2. \A i \in 0..at[r] : <<Code(opts[r]), Nth(opts[r], i)>> \in grants'
      BY <2>1, <3>1 DEF Filled
    <3>3. at'[r] <= Total(opts[r]) /\ at'[r] - 1 = at[r]
      BY <2>1, <2>2, TotalType
    <3>4. Progress(r)'
      BY <2>1, <3>2, <3>3 DEF Progress, Filled
    <3>5. \A q \in Runs \ {r} : Progress(q)'
      BY <2>1, OthersKeep DEF IInv
    <3> QED BY <3>4, <3>5
  <2>4. RolesWithMembers'
    BY <2>1 DEF IInv, RolesWithMembers
  <2>5. RolesKeepTheirBounds'
    <3>1. Nth(opts[r], at[r])[2] \in RoleActions(Code(opts[r]))
      BY <2>1, <2>2, NthInBounds
    <3> QED BY <2>1, <3>1 DEF IInv, RolesKeepTheirBounds
  <2>6. AllMet'
    BY <2>1 DEF IInv, AllMet, Active, Ended
  <2>7. \A q \in Runs : RacesAreMet(q)'
    BY <2>1 DEF IInv, RacesAreMet, Present
  <2> QED BY <2>3, <2>4, <2>5, <2>6, <2>7
<1>7. ASSUME NEW r \in Runs, Join(r) PROVE Safe
  <2>1. /\ UNCHANGED <<roles, permissions, grants, opts, at, met>>
        /\ pc[r] = "findPermission" /\ pc'[r] = "done"
        /\ at[r] = Total(opts[r])
        /\ members' = members \cup {<<opts[r].user, Code(opts[r])>>}
        /\ \A q \in Runs \ {r} : pc'[q] = pc[q]
    BY <1>0, <1>7 DEF Join, Goto, TypeOK
  <2>2. Filled(r, Total(opts[r])) /\ opts[r].user \in Users
    BY <1>0, <2>1 DEF IInv, Progress, TypeOK, Active, Ended
  <2>3. \A q \in Runs : Progress(q)'
    <3>1. Progress(r)'
      BY <2>1, <2>2 DEF Progress, Filled
    <3>2. \A q \in Runs \ {r} : Progress(q)'
      BY <2>1, OthersKeep DEF IInv
    <3> QED BY <3>1, <3>2
  <2>4. RolesWithMembers'
    <3>1. ASSUME NEW f \in FormCodes, NEW a \in {"ACCESS", "VIEW"}
          PROVE  <<Code(opts[r]), <<f, a>>>> \in grants
      <4>1. PICK n \in Nat : n < Total(opts[r]) /\ Nth(opts[r], n) = <<f, a>>
        BY <1>0, ViewIsAsked DEF TypeOK
      <4>2. n \in 0..(Total(opts[r]) - 1)
        BY <1>0, <4>1, TotalType DEF TypeOK
      <4> QED BY <2>2, <4>1, <4>2 DEF Filled
    <3>2. \A m \in members' : m \in members \/ m[2] = Code(opts[r])
      BY <2>1
    <3> QED BY <2>1, <3>1, <3>2 DEF IInv, RolesWithMembers
  <2>5. RolesKeepTheirBounds'
    BY <2>1 DEF IInv, RolesKeepTheirBounds
  <2>6. AllMet'
    BY <2>1 DEF IInv, AllMet, Active, Ended
  <2>7. \A q \in Runs : RacesAreMet(q)'
    BY <2>1 DEF IInv, RacesAreMet, Present
  <2> QED BY <2>3, <2>4, <2>5, <2>6, <2>7
<1>8. ASSUME NEW r \in Runs, Stop(r) PROVE Safe
  <2>1. /\ UNCHANGED <<roles, permissions, grants, members, opts, at, met>>
        /\ pc'[r] = "stopped"
        /\ \A q \in Runs \ {r} : pc'[q] = pc[q]
    BY <1>0, <1>8 DEF Stop, Goto, TypeOK
  <2>2. \A q \in Runs : Progress(q)'
    <3>1. Progress(r)'
      BY <2>1 DEF Progress
    <3>2. \A q \in Runs \ {r} : Progress(q)'
      BY <2>1, OthersKeep DEF IInv
    <3> QED BY <3>1, <3>2
  <2>3. RolesWithMembers' /\ RolesKeepTheirBounds'
    BY <2>1 DEF IInv, RolesWithMembers, RolesKeepTheirBounds
  <2>4. AllMet'
    BY <2>1 DEF IInv, AllMet, Active, Ended
  <2>5. \A q \in Runs : RacesAreMet(q)'
    BY <2>1 DEF IInv, RacesAreMet, Present
  <2> QED BY <2>2, <2>3, <2>4, <2>5
<1>9. ASSUME UNCHANGED vars PROVE Safe
  BY <1>9 DEF vars, IInv, Progress, Filled, RolesWithMembers, RolesKeepTheirBounds,
     AllMet, Active, RacesAreMet, Present
<1>10. ASSUME Next PROVE Safe
  BY <1>1, <1>2, <1>3, <1>4, <1>5, <1>6, <1>7, <1>8, <1>10 DEF Next, Step
<1> QED BY <1>0, <1>9, <1>10 DEF IInv

-------------------------------------------------------------------------------
(* What it gives. *)

\* The invariant holds in every state, of any number of runs.
THEOREM Invariance == Spec => []IInv
BY InitInv, NextInv, PTL DEF Spec

\* Types, and that a run looks no permission up behind its last one.
THEOREM TypeCorrect == Spec => []TypeOK
<1>1. IInv => TypeOK
  BY DEF IInv
<1> QED BY <1>1, Invariance, PTL

\* A run that reports success has given its user all it names, whatever other
\* runs did or left undone: EnsurePermissionAsync links what it finds.
THEOREM SuccessIsDelivered == Spec => []Delivered
<1>1. IInv => Delivered
  <2> SUFFICES ASSUME IInv, NEW r \in Runs, pc[r] = "done", NEW p \in Asked(opts[r])
               PROVE  p \in RightsOf(opts[r].user)
    BY DEF Delivered
  <2>1. opts[r] \in Options
    BY DEF IInv, TypeOK
  <2>2. Total(opts[r]) \in Nat /\ Code(opts[r]) \in Codes
    BY <2>1, TotalType
  <2>3. PICK n \in 0..(Total(opts[r]) - 1) : p = Nth(opts[r], n)
    BY DEF Asked
  <2>4. p \in Permission
    BY <2>1, <2>2, <2>3, NthInBounds
  <2>5. /\ <<opts[r].user, Code(opts[r])>> \in members
        /\ <<Code(opts[r]), p>> \in grants
    BY <2>3 DEF IInv, Progress, Filled
  <2> QED BY <2>2, <2>4, <2>5 DEF RightsOf
<1> QED BY <1>1, Invariance, PTL

\* Whoever is member of a role sees every form: EnsureUserRoleAsync is the last
\* statement, and the role was filled before it.
THEOREM MembersSeeEveryForm == Spec => []MembersCanView
<1>1. IInv => MembersCanView
  <2> SUFFICES ASSUME IInv, NEW m \in members, NEW f \in FormCodes,
                      NEW a \in {"ACCESS", "VIEW"}
               PROVE  <<f, a>> \in RightsOf(m[1])
    BY DEF MembersCanView
  <2>1. m[2] \in Codes /\ m = <<m[1], m[2]>>
    BY DEF IInv, TypeOK
  <2>2. <<m[2], <<f, a>>>> \in grants
    BY DEF IInv, RolesWithMembers
  <2>3. <<f, a>> \in Permission
    BY DEF Permission, Actions
  <2> QED BY <2>1, <2>2, <2>3 DEF RightsOf
<1> QED BY <1>1, Invariance, PTL

\* However many runs share a role, none puts an action into it that its name
\* does not stand for.
THEOREM RolesAreBounded == Spec => []RolesKeepTheirBounds
<1>1. IInv => RolesKeepTheirBounds
  BY DEF IInv
<1> QED BY <1>1, Invariance, PTL

\* The exception of a duplicate key needs two runs at once: a run after one
\* that stopped half way completes it.
THEOREM RepeatsSucceed == Spec => []OnlyOverlapsCollide
<1>1. IInv => OnlyOverlapsCollide
  BY DEF IInv, RacesAreMet, OnlyOverlapsCollide
<1> QED BY <1>1, Invariance, PTL

===============================================================================
