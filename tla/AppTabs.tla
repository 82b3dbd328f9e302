-------------------------------- MODULE AppTabs --------------------------------
(***************************************************************************)
(* The shell of the application (App): the tabs of the pages that are      *)
(* open, kept in localStorage under a key of the user, and the page in     *)
(* view.  All open pages stay mounted, hidden but one, and share the query *)
(* string; what matters of it is projectId.                                *)
(*                                                                         *)
(* A render and its effects, the redirect from "/" among them, are one     *)
(* step.  Before login the key is that of an anonymous user, whose tabs    *)
(* nobody sees.  Of a page only its project is modelled: the project       *)
(* selected on the page of local projects, and the filter of the pages of  *)
(* task plans.  Not modelled: the sidebar, scrolling, dragging but for the *)
(* drop, other windows of the same user.                                   *)
(***************************************************************************)
EXTENDS Integers, FiniteSets, Sequences, SequencesExt

CONSTANTS
    Users,
    Anonymous,  \* whose key is used without a user
    Projects,
    None,       \* no projectId, no project
    Pages,      \* paths with a label: a bound, 11 in the code
    Dashboard,  \* the pinned one
    Root,       \* the path "/"
    Plans,      \* paths of task plans
    Local,      \* path of local projects
    InPlay      \* bound: users, paths and projects of one behaviour

Keys == Users \cup {Anonymous}

ASSUME AppTabsAssumption ==
    /\ Anonymous \notin Users
    /\ Dashboard \in Pages /\ Root \notin Pages /\ None \notin Pages
    /\ Plans \subseteq Pages /\ Local \in Pages \ Plans
    /\ Dashboard \notin Plans \cup {Local}
    /\ InPlay \subseteq [users : SUBSET Users, paths : SUBSET Pages,
                         projects : SUBSET Projects]

VARIABLES
    user,       \* auth.user, or Anonymous
    location,   \* path and projectId
    openTabs,
    tabsOf,     \* localStorage: jarvis_open_tabs_<user>
    activeOf,   \* localStorage: jarvis_active_tab_<user>
    project,    \* the project of each page, None for one not mounted
    opened,     \* history: the paths in view while a user was logged in
    inPlay      \* the users, paths and projects this behaviour may use

vars == <<user, location, openTabs, tabsOf, activeOf, project, opened, inPlay>>

-------------------------------------------------------------------------------

Authenticated == user # Anonymous

Place(p, id) == [path |-> p, projectId |-> id]

\* What filter has kept of the first k tabs: those in S, in their order.
KeptOf(tabs, S) ==
    LET kept[k \in 0..Len(tabs)] ==
          IF k = 0 THEN <<>>
          ELSE IF tabs[k] \in S THEN Append(kept[k - 1], tabs[k]) ELSE kept[k - 1]
    IN  kept

Kept(tabs, S) == KeptOf(tabs, S)[Len(tabs)]

\* The valid tabs that were saved, behind the dashboard, each once.
Loaded(saved) == <<Dashboard>> \o Kept(saved, Pages \ {Dashboard})

WithTab(tabs, path) ==
    IF path \in Range(tabs) THEN tabs ELSE Append(tabs, path)

\* Slip: the page of local projects gives its project up with the query's.
FollowedAlways(mounted, was, from, to) ==
    [p \in Pages |->
        IF p \notin mounted THEN None
        ELSE IF p \in Plans \cup {Local} /\ to # from THEN to
        ELSE was[p]]

\* The pages that are mounted, with their projects.  A page of plans takes
\* over any other projectId of the query, none included; that of local
\* projects one that is there.
Followed(mounted, was, from, to) ==
    [p \in Pages |->
        IF p \notin mounted THEN None
        ELSE IF p \in Plans /\ to # from THEN to
        ELSE IF p = Local /\ to # None /\ to # from THEN to
        ELSE was[p]]

\* The pages just mounted take the projectId of the query, if they do.
Mounted(mounted, to) ==
    [p \in Pages |-> IF p \in mounted \cap (Plans \cup {Local}) THEN to
                     ELSE None]

\* Slip: the pages of a user's tabs are those of the tabs in view before.
PagesUnsaved(u, path) == WithTab(openTabs, path)

\* The effects on a new key of tabs: those saved are loaded, and the page
\* in view is added to them.
TabsFor(u, path) == WithTab(Loaded(tabsOf[u]), path)

\* The effects of the key of u at location to.  The tabs are stored only
\* when the page in view is added to them.
SwitchKey(u, to) ==
    LET tabs == TabsFor(u, to.path)
    IN  /\ user' = u
        /\ location' = to
        /\ openTabs' = tabs
        /\ tabsOf' = IF to.path \in Pages /\ tabs # Loaded(tabsOf[u])
                     THEN [tabsOf EXCEPT ![u] = tabs] ELSE tabsOf
        /\ activeOf' = IF to.path \in Pages
                       THEN [activeOf EXCEPT ![u] = to.path] ELSE activeOf
        /\ opened' = IF u = Anonymous THEN opened
                     ELSE [opened EXCEPT ![u] = @ \cup {to.path}]

\* From "/" a user is sent to the page that was in view last.
Landing(u) ==
    IF location.path # Root THEN location
    ELSE Place(IF activeOf[u] # None THEN activeOf[u] ELSE Dashboard, None)

\* A login, or a session restored after a reload: the shell is mounted.
Login(u) ==
    /\ ~Authenticated
    /\ u \in inPlay.users
    /\ SwitchKey(u, Landing(u))
    /\ project' = Mounted(Range(openTabs'), location'.projectId)
    /\ UNCHANGED inPlay

\* The effects without a user: "/" has no label, and stands for the
\* dashboard, which is always there.
Unmounted(to) ==
    LET path == IF to.path \in Pages THEN to.path ELSE Dashboard
    IN  /\ user' = Anonymous
        /\ location' = to
        /\ openTabs' = TabsFor(Anonymous, path)
        /\ tabsOf' = IF path \in Range(Loaded(tabsOf[Anonymous])) THEN tabsOf
                     ELSE [tabsOf EXCEPT ![Anonymous] = openTabs']
        /\ activeOf' = IF to.path \in Pages
                       THEN [activeOf EXCEPT ![Anonymous] = to.path]
                       ELSE activeOf
        /\ project' = [p \in Pages |-> None]
        /\ UNCHANGED <<opened, inPlay>>

\* The login form replaces the shell; the location stays.
Logout == Authenticated /\ Unmounted(location)

\* The browser loads the application anew, here or at "/".
Reload == \E to \in {location, Place(Root, None)} : Unmounted(to)

-------------------------------------------------------------------------------
(* Navigation. *)

\* A new location of the mounted shell, with tabs as they are then.
Show(to, tabs) ==
    LET all == WithTab(tabs, to.path)
    IN  /\ location' = to
        /\ openTabs' = all
        /\ tabsOf' = IF all # openTabs THEN [tabsOf EXCEPT ![user] = all]
                     ELSE tabsOf
        /\ activeOf' = [activeOf EXCEPT ![user] = to.path]
        /\ opened' = [opened EXCEPT ![user] = @ \cup {to.path}]
        /\ project' = Followed(Range(all), [p \in Pages |->
                          IF p \in Range(openTabs) THEN project[p]
                          ELSE IF p \in Plans \cup {Local}
                               THEN to.projectId ELSE None],
                          location.projectId, to.projectId)
        /\ UNCHANGED <<user, inPlay>>

\* A link of a page or of the sidebar, or the browser's back button.
Visit(to) ==
    /\ Authenticated
    /\ to # location
    /\ Show(to, openTabs)

\* A click on a tab: its path without a query.
ClickTab(path) ==
    /\ Authenticated
    /\ path \in Range(openTabs)
    /\ Show(Place(path, None), openTabs)

\* A project is chosen on the page in view.
ChooseProject(id) ==
    /\ Authenticated
    /\ location.path \in Plans \cup {Local}
    /\ project' = [project EXCEPT ![location.path] = id]
    /\ UNCHANGED <<user, location, openTabs, tabsOf, activeOf, opened, inPlay>>

-------------------------------------------------------------------------------
(* Closing and moving tabs. *)

\* Slip: the tab of the old index, which may be behind the last.
NextInView(tabs, next) ==
    LET index == CHOOSE i \in 1..Len(tabs) : tabs[i] = location.path
    IN  IF index <= Len(next) THEN next[index] ELSE Dashboard

\* Of the tabs next that stay of tabs: the one that is now where the one in
\* view was, or the last.
InView(tabs, next) ==
    LET index == CHOOSE i \in 1..Len(tabs) : tabs[i] = location.path
    IN  next[IF index <= Len(next) THEN index ELSE Len(next)]

\* The dashboard is never closed.
Closes(paths) == paths \ {Dashboard}

\* closeTabSet.
CloseTabSet(paths) ==
    /\ Authenticated
    /\ Closes(paths) # {}
    /\ LET next == Kept(openTabs, Pages \ Closes(paths))
       IN  IF location.path \in Closes(paths)
           THEN Show(Place(InView(openTabs, next), None), next)
           ELSE /\ openTabs' = next
                /\ tabsOf' = [tabsOf EXCEPT ![user] = next]
                /\ project' = [p \in Pages |-> IF p \in Range(next)
                                               THEN project[p] ELSE None]
                /\ UNCHANGED <<user, location, activeOf, opened, inPlay>>

\* The cross of a tab, a middle click on it, or "close" of its menu.
CloseTab(path) == path \in Range(openTabs) /\ CloseTabSet({path})

\* The tabs on either side of the one at index i, and all others.
CloseLeft(i) == CloseTabSet({openTabs[j] : j \in 1..(i - 1)})
CloseRight(i) == CloseTabSet({openTabs[j] : j \in (i + 1)..Len(openTabs)})
CloseOthers(i) ==
    CloseTabSet({openTabs[j] : j \in (1..Len(openTabs)) \ {i}})
CloseAll == CloseTabSet(Range(openTabs))

\* reorderTab: the dragged tab is taken out and put before the target,
\* where the target is then.
Reordered(from, target) ==
    LET rest == RemoveAt(openTabs, from)
        at == CHOOSE i \in 1..Len(rest) : rest[i] = openTabs[target]
    IN  InsertAt(rest, at, openTabs[from])

\* Slip: the dashboard can be moved, too.
ReorderAny(from, target) ==
    /\ Authenticated
    /\ from # target
    /\ openTabs' = Reordered(from, target)
    /\ tabsOf' = [tabsOf EXCEPT ![user] = openTabs']
    /\ UNCHANGED <<user, location, activeOf, project, opened, inPlay>>

Reorder(from, target) ==
    /\ Authenticated
    /\ from # target /\ 1 \notin {from, target}
    /\ openTabs' = Reordered(from, target)
    /\ tabsOf' = [tabsOf EXCEPT ![user] = openTabs']
    /\ UNCHANGED <<user, location, activeOf, project, opened, inPlay>>

-------------------------------------------------------------------------------

Init ==
    /\ inPlay \in InPlay
    /\ user = Anonymous
    /\ location \in {Place(Root, None)} \cup
                    {Place(p, None) : p \in inPlay.paths}
    /\ openTabs = WithTab(<<Dashboard>>, IF location.path = Root THEN Dashboard
                                         ELSE location.path)
    /\ tabsOf = [k \in Keys |-> IF k = Anonymous /\ Len(openTabs) > 1
                                THEN openTabs ELSE <<>>]
    /\ activeOf = [k \in Keys |-> IF k = Anonymous /\ location.path # Root
                                  THEN location.path ELSE None]
    /\ project = [p \in Pages |-> None]
    /\ opened = [u \in Users |-> {}]

Next ==
    \/ \E u \in Users : Login(u)
    \/ Logout
    \/ Reload
    \/ \E p \in inPlay.paths, id \in inPlay.projects \cup {None} :
           Visit(Place(p, id))
    \/ \E p \in Pages : ClickTab(p)
    \/ \E id \in inPlay.projects \cup {None} : ChooseProject(id)
    \/ \E p \in Pages : CloseTab(p)
    \/ \E i \in 1..Len(openTabs) :
           CloseLeft(i) \/ CloseRight(i) \/ CloseOthers(i)
    \/ CloseAll
    \/ \E i, j \in 1..Len(openTabs) : Reorder(i, j)

Spec == Init /\ [][Next]_vars

-------------------------------------------------------------------------------

\* Whatever was opened, closed and moved, by whichever user: the page in
\* view has a tab, no page has two, the dashboard is first, and what
\* localStorage holds for the user brings back these tabs in this order
\* and this page.
TabsAreRestored ==
    Authenticated =>
        /\ openTabs[1] = Dashboard
        /\ location.path \in Range(openTabs)
        /\ IsInjective(openTabs)
        /\ Loaded(tabsOf[user]) = openTabs
        /\ activeOf[user] = location.path

\* A user gets no tab of another user's, but for the page in view at the
\* login.  (The keys of localStorage carry the user.)
OnlyOwnTabs ==
    \A u \in Users : Range(tabsOf[u]) \subseteq opened[u] \cup {Dashboard}

\* Closing a tab, by itself or by the menu of another, shows what a user
\* expects: the page in view stays unless its tab goes, and then the tab
\* beside a closed one comes into view, that of the menu when all to its
\* right or all others go.
ClosingShowsTheNextTab ==
    [][ /\ \A i \in 1..Len(openTabs) :
            CloseTab(openTabs[i]) =>
                /\ openTabs' = RemoveAt(openTabs, i)
                /\ location'.path =
                    IF location.path # openTabs[i] THEN location.path
                    ELSE openTabs[IF i < Len(openTabs) THEN i + 1 ELSE i - 1]
        /\ \A i \in 1..Len(openTabs) :
            LET kept == SubSeq(openTabs, 1, i)
            IN  /\ CloseRight(i) =>
                    /\ openTabs' = kept
                    /\ location'.path =
                        IF location.path \in Range(kept) THEN location.path
                        ELSE openTabs[i]
                /\ CloseOthers(i) =>
                    location'.path = IF location.path = Dashboard
                                     THEN Dashboard ELSE openTabs[i] ]_vars

\* A click on a tab changes the project of no page: the one chosen on the
\* page of local projects stays, and that of a page of plans, unless the
\* query being left had a project.
SwitchKeepsProjects ==
    [][ \A p \in Pages : ClickTab(p) =>
            \A q \in Pages : q \in Range(openTabs) =>
                \/ project'[q] = project[q]
                \/ q \in Plans /\ location.projectId # None ]_vars

===============================================================================
