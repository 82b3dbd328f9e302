# FiinGroupApp in TLA+

A verification project for FiinGroupApp: an ASP.NET Core 8 API (`src/backend`), four
console tools that maintain its identity database (`src/backend.*`) and a React
frontend (`src/frontend`). The API fronts an on-premises TFS server with the
credential of the logged-in user, reads two MariaDB databases, and keeps its login
sessions in memory. The modules here are translated from the code at the lines
`PROJECT.json` names; this file says what they say, what checks and proves them, and
what is still open.

## 1. Inventory

| Part | State it keeps | Operations | Talks to |
|---|---|---|---|
| **TFS reader/writer** (`backend/Tfs/TfsProjectReader.cs`) | none of its own; one `HttpClient` per call, with a timeout | list projects, teams, iterations, work items; get one item; create, update, soft-remove an item; find a state path | TFS REST, JSON-patch with `If-Match` |
| **Target sessions** (`backend/Auth/TargetSession.cs`, routes in `backend/Program.cs`) | a concurrent dictionary: user, permissions copied at login, TFS credential, expiry | create, get, get credential, remove; every route looks up, checks a permission, looks up again | the two above, the identity store |
| **Identity store** (`backend/Auth/MySqlUserStore.cs`) | users, external identities, roles, permissions | resolve a TFS identity, verify a password, read permissions | MariaDB |
| **Refresh sessions** (`backend/Auth/MySqlSessionStore.cs`) | rows of `app_sessions` | create, rotate under a row lock, check, revoke | MariaDB; registered by no route |
| **Provisioners** (`backend.PermissionProvisioner`, `backend.IdentityMappingProvisioner`, `backend.IdentityProvisioner`) | the rows they insert | find-then-insert, no transaction | MariaDB |
| **Migrator** (`backend.DatabaseMigrator`) | `app_schema_migrations` | apply the statements of a migration, then record it | MariaDB |
| **Project management reader** (`backend/ProjectManagement`) | none | reads of several queries each, task plans by filter, order and page among them; critical path | MariaDB |
| **Dashboard** (`backend/Dashboard`) | none | aggregations | MariaDB |
| **Project tasks page** (`frontend/.../TfsProjectsPage.tsx`) | selection, paged list, dialogs, forms, a request token | select, page, refresh, open, edit, create, remove | the TFS routes |
| **Auth provider** (`frontend/.../AuthProvider.tsx`) | who is logged in | restore, login, logout | the auth routes |
| **Local project page** (`LocalProjectManagementPage.tsx`) | the selected project, its workspace, twelve panels with a loading flag and an error each, documents, one task's comments and replies; in localStorage the project of last time and the one confirmed for each TFS project | select, follow a link, load a panel, export, open a task, collapse a group | the project management routes |
| **What that page computes** (`LocalProjectManagementGantt.tsx`, `LocalProjectManagementFlow.tsx`) | none | the WBS tree, bars and dependency lines, the eleven steps of PM Flow | – |
| **Task plan pages** (`TargetTaskPlanPage.tsx`) | eight filters, rows, the detail | filter, sort, move by a week, load more | the task plan route |
| **Project summary page** (`TargetProjectSummaryPage.tsx`) | a list and filters | load | the project management routes |
| **App shell** (`app/App.tsx`) | open tabs, mounted pages; in localStorage the tabs and the page in view, per user | open, close, move, switch tabs; log in, reload | the router, all pages |
| **Static pages, scripts** | none | presentation, start-up | – |

What is hard, and what makes each part correct:

* *Concurrency with TFS.* A work item is read by the page, later read again by the
  handler, later still patched, in several PATCHes when a state path is walked.
  Other TFS users write in between. Correct means: nothing is overwritten that the
  user had not seen, link indices hit the links they were computed for, one save
  takes effect at most once, and the answer reports what was asked.
* *Failure.* Any call may time out while TFS still applies it; any answer may be
  lost; users save again. Nothing is persisted by the API, so a restart of it is, to
  TFS, the same as a timeout; to the browsers it is a logout.
* *Late answers in the page.* Every fetch may be overtaken by a selection, a
  dismissal, another fetch or a save. Correct means: what is on screen belongs to
  the project, the task or the filters that are selected, and a loading state ends.
  Three pages have this problem and guard against it in four ways: a token, a flag
  that the cleanup of an effect clears, a comparison of project ids, and nothing.
* *Several places for one fact.* The query string, localStorage and the state of the
  pages all say which project, page and tabs are in view; hidden pages stay mounted and
  follow the query string of the one that is not. Correct means: they agree, nobody
  gets another user's tabs, and no project is inferred that its user did not confirm.
* *Numbers at their edges.* Weeks across the turn of a year of 53 weeks, dates that are
  absent or reversed, parents that are missing or go round, hours shared out by a
  percentage, percentages that are rounded.
* *Check-then-act on the databases.* Provisioners and the migrator find, then insert,
  outside transactions; correct means that a retry completes what an interrupted run
  began, and that two runs do not both insert.
* *Snapshots.* Permissions are copied at login and used until the session ends.

The line-by-line list of hazards, with the property that guards each, is in
`PROJECT.json` under `hazards`.

## 2. Modules

| Module | Models | Kind |
|---|---|---|
| `StateGraph` | walks, reachability and shortest walks in a workflow | definitions |
| `WorkItemUpdate` | PUT and DELETE of one work item, form to answer, with TFS and other users | state machine |
| `CheckedEdits` | what those two routes promise | abstract specification |
| `StatePathSearch` | the search loop of `FindStatePathAsync` | state machine |
| `ProjectTasksPage` | the tasks page of one browser tab, its API calls and the boards they read | state machine |
| `PermissionProvisioning` | runs of the permission provisioner over the identity database, and the rights users get | state machine |
| `CriticalPath` | the critical path calculator: depth-first order, forward pass, backward pass | state machine |
| `TargetSessions` | the session store, login and logout, and the lookups every route makes | state machine |
| `AuthProvider` | a browser, its cookie and the React component, in front of `TargetSessions` | composition |
| `LocalProjectPage` | the page of local projects: links, choices, panels, task detail and the answers to their fetches | state machine |
| `TaskPlanPage` | the pages of task plans, with the calendar of ISO weeks and the query of the reader | state machine |
| `AppTabs` | tabs, location, localStorage and mounted pages of the shell, for users in turn | state machine |
| `TaskChart` | the WBS tree and the Gantt chart, as functions of an answer | definitions |
| `ProjectFlow` | the steps of PM Flow, as functions of two answers | definitions |
| `WorkspaceView` | groups collapsed and answers replaced, over those two | state machine |
| `MC...` | small instances of the ten state machines that run for TLC | configurations |
| `WorkItemUpdateProofs` (with `StatePathSearch`), `PermissionProvisioningProofs`, `AuthProviderProofs` (with `TargetSessions`), `LocalProjectPageProofs` (with `WorkspaceView`), `ProjectTasksPageProofs`, `TaskPlanPageProofs`, `CriticalPathProofs`, `AppTabsProofs` | theorems | proofs |

### WorkItemUpdate and the code

A request `q` is one run of a handler; `pc[q]` is how far it has come.

| Model | Code |
|---|---|
| `item` | the work item as TFS stores it: revision, scalar fields, completed and remaining work (or one of them missing, `NoHours`), state, ordered relations |
| `form[q]` | the version the edit form or the row of the list was filled from; its `rev` is `request.Revision` |
| `want[q]` | the body of the PUT, entry by entry (null is `Keep`, no parent is `NoParent`, an entry the handler skips is `Unusable`), or a DELETE |
| `known[q]` | `currentItem`, later `item`: what the handler last read |
| `path[q]`, `hop[q]` | `statePath` and the loop variable, one-based |
| `net[q]` | the PATCH in flight with its `If-Match`, or TFS's answer |
| `wrote[q]` | history: the revisions made by `q` |
| `OpenForm`, `SaveAgain` | `openEditTask`; saving a form that is still open after an error |
| `SubmitUpdate`, `SubmitRemove` | validation up to the first await of each handler |
| `ReadAndPatch`, `ReadAndReject` | from the answer of the GET to the first PATCH, or to `TFS_STATE_TRANSITION_UNAVAILABLE` / `TFS_WORK_ITEM_UPDATE_EMPTY` |
| `ReceiveAnswer`, `ReceiveRefusal`, `CallFails` | the continuation of a PATCH; `EnsureResponse`; timeout or lost connection |
| `Accept`, `Refuse`, `ForeignEdit` | TFS (external) |

The GET of the item and the GET of its type, which follows it at once and whose
answer does not depend on the item's version, are one step. The document is built by
`UpdateDocument` in the order of the code (fields, first hop, hours, removals from the
highest index down, additions) and TFS applies it operation by operation.

What a PUT writes depends on its entries and on the item just read, and it is silent
about what it leaves out: a blank title, a priority outside 1..4, a negative effort and a
progress outside 0..100 are skipped (`Unusable`; lines 205, 213-216, 228), as is any
progress of an item whose completed or remaining work is missing, or both zero
(`SetHours`; lines 413-417). If something else was asked for, the PUT succeeds all the
same; a body without any usable field, parent or dependency is refused, whatever state and
progress it has (`NothingAsked`), and so is one whose document turns out empty. Progress is not stored: the work there is is shared out anew between completed
and remaining (`HoursAt`, rounded to hundredths, ties to even). So what a success reports
is not simply what was asked, and the properties below are about usable entries and
about hours. Hours are natural numbers of hundredths, percentages whole numbers.

TFS is outside the repository and is modelled from what the code relies on: each
accepted PATCH makes a new revision, an `If-Match` that is not the current revision
is refused, a document is applied whole or not at all, and it may refuse anything for
reasons of its own. An accepted PATCH may be applied after its handler gave up. Rules
of a process template by which TFS changes fields of its own accord (a transition that
sets a reason or clears the remaining work) are not modelled.

### StatePathSearch and the code

One step is one turn of the `while` loop: `Return` (the head ends in the wanted
state), `Extend` (its new successors are queued, in any order, as TFS lists them in
any order) or `Fail` (the queue is empty); `found` is the path returned. Names are compared without case in the
code; a state of the model is a name up to case. `depth` is a history variable.

`WorkItemUpdate` does not run the loop: its handler takes any shortest walk
(`ShortestWalks`). `FoundIsShortest` and `NoneIsUnreachable` are what justify that,
and both are proved for every finite workflow.

### ProjectTasksPage and the code

`page` is the React state of the component, `token` is `projectRequestRef.current`,
`calls` are the fetches under way with what their closures captured (project, token,
and the `dataLoading` of the render they began in), `board` is what TFS holds.
A fetch is three steps, sent (`Send`), served (`ServeRead`, `ServeWrite`,
`FailCall`) and continued, so that both the moment it reads the board and the moment
its continuation runs are free. There is one action for each thing the user can do
and one for each continuation; a `finally` belongs to its continuation.

### PermissionProvisioning and the code

A run `r` is one execution of `backend.PermissionProvisioner`; `pc[r]` is the statement
it sends next and `at[r]` the place of its two nested loops, counted through. Every
`SELECT` and every `INSERT` is a step, as none of them is in a transaction, and `Stop`
may end a run before any of them. A table is the set of its rows without their ids:
the unique keys leave one row of each code, and what a second insert does is in
`InsertRole` and `InsertPermission` ("collided", the exception ends the tool).
`INSERT IGNORE` is a union. `RightsOf` is the join of `GetPermissionsAsync`, which is
what a login copies. `met` is history: which runs overlapped.

### CriticalPath and the code

`plan` is what the two queries of `GetCriticalPathAsync` returned. The recursion
`Visit` is `stack`, and `left[t]` the rest of its loop; the loops over tasks and
predecessors follow the order of their rows, which the model leaves open. Each turn of
a pass is a step; `ls` before its task is reached is zero, as in `Node`, which is what a
cycle makes the backward pass read. `LateFinish` is `ls[t] + Duration(t)` and not kept.
`MissPredecessor` is the `KeyNotFoundException` of `predecessors[taskId]`.

What comes out is compared with `InTime`, all assignments of starts that respect the
dependencies and end within the calculated duration: a definition without an order,
a pass or a maximum.

### TargetSessions, AuthProvider and the code

| Model | Code |
|---|---|
| `store[s]` | `InMemoryTargetSessionStore.sessions`: user, permissions, TFS credential, `ExpiresAt`. An id is drawn from 32 random bytes, hence never drawn twice: `issued` counts them |
| `call[c]` | a request: the cookie it came with, and what its handler holds in local variables |
| `roles[u]` | what `GetPermissionsAsync` would read now; it changes at any time |
| `options` | `Tfs:WriteEnabled`, `Tfs:RequireIdentityMapping` |
| `Verify`, `ReadRights` or `GrantDirectly`, `CreateSession` | the awaits of the login and what follows them |
| `ServeTfs`, `ServeData` | a route of `tfs/...`, a route of `project-management/...` or `dashboard/...`: the steps of the next line, in this order; what the reader finds is left out |
| `PassGate`, `TakeCredential`, `Answer` | the two lookups of a route and its reader; "data" routes, which read MariaDB, make the first only |
| `ServeSession`, `ServeLogout` | `auth/session` (`auth/me` and `auth/permissions` answer alike), `auth/logout` |
| `cookie`, `ui` | the cookie of the browser, the state of `AuthProvider` |
| `Deliver`, `Finish` | an answer comes in two steps, as the browser takes its cookie from the head and the page goes on with the body |

The permissions are those of one form, of four actions: every check is of one form at a
time, and the forms of a route are alternatives. Whose password is right is up to
`Verify` and `Reject`. Any request or answer may be lost (`Lose`), and a restart loses
all of them with the dictionary. The model keeps a cookie beyond its `Max-Age`; it then
names an expired session, which every route treats as it treats no cookie. What the
routes do once they are through their lookups is in `WorkItemUpdate` and
`ProjectTasksPage`. `ServerSpec` lets any client send anything with any cookie that was
ever set; `Spec` has one page of one browser, which finds the session that an earlier
page left behind, or none.

### LocalProjectPage and the code

| Model | Code |
|---|---|
| `page` | the React state of the page; a panel holds the project it was read for, and which page of the log, baseline or payment |
| `page.busy`, `page.errors` | the loading flags and errors of the panels; a comparison shares those of the baselines (`Flag`) |
| `detail` | the state of `TaskDetail`, `None` when it is not mounted |
| `calls` | fetches under way, with what their closures captured; `copy` tells two alike apart |
| `url`, `mapping` | the query string; the `localStorage` entry of the TFS project |
| `Select`, `Deselected`, `Selected` | the effects of a changed selection: what is emptied, what is loaded, what is not |
| `ListArrives`, `Navigate` | `loadProjects` and the effect on projects; the effects on the query |
| `PressPanel`, `PanelArrives`, `PanelFails` | a loader: its start, `then`, `catch` and `finally` |
| `SelectTask`, `DetailArrives`, `ToggleReplies`, `RepliesArrive` | a row of the table or chart and the three fetches of `TaskDetail` |

A render and the effects it causes are one step, as React runs them before the next
event. The workspace and the task detail are guarded by the `active` flag of their
effect, which `Cleanup` stands for: what it guards is dropped with the effect. The
panels compare the project asked for with the one selected now (`Current`), hence an
answer of an earlier visit to the same project counts. Replies are guarded by nothing.
`inPlay` bounds which fetches, links and stored mappings a behaviour uses.

### TaskPlanPage and the code

`filters` is the query of the page; a change of it (`Change`) ends the effect that awaits
an answer and begins another, in `asking`; "load more" is not ended (`more`). The store
does not change, as the application only reads it, so an answer is computed when it
comes: `Matching` is `BuildPlanWhere`, `Ordered` is `BuildPlanOrderBy`, `PageOf` the
`LIMIT` and `hasMore`. A week without rows is asked for again one week earlier, for its
Next Plan (`PreviousQuery`). Days are counted, so that `getIsoWeekInfo`, `getWeekRange`
and `getPreviousIsoWeek` are arithmetic; `West` is the time zone they forget.

### AppTabs and the code

`openTabs` is the state, `tabsOf` and `activeOf` are localStorage by user, `opened` is
history. `SwitchKey` is what the effects do when the user, and with it the key, changes
under the mounted shell; `Show` is a new location of it. All pages with a tab are
mounted and see the query of the one in view: `Followed` says which of them take its
`projectId` over.

### TaskChart, ProjectFlow, WorkspaceView and the code

The functions are those of `LocalProjectManagementPage` (`taskDepth`, `visibleTasks`),
`LocalProjectManagementGantt` (`timeline`, `geometryById`, `dependencyLines`,
`todayLeft`) and `LocalProjectManagementFlow` (`buildFlow`, step by step).
`WorkspaceView` has the state they depend on: the workspace and PMBOK answers in view
and the groups collapsed, which are kept while the same project is read again.

## 3. Runs

| Run | Question | Result |
|---|---|---|
| `work_item` | two requests, another user, lost/late/refused PATCHes: six invariants, the refinement of `CheckedEdits`, and an answer for everybody | holds |
| `state_path` | every workflow of four states, every sparse one of five, every listing order: correct and ending | holds |
| `tasks_reader` | read-only session, two projects, paging: rows belong to the selected project, loading ends | holds |
| `tasks_editor` | session that creates, edits and removes: the detail belongs to the selected project | holds |
| `provisioning` | two runs, overlapping, stopped and repeated: what success means, who may see, which runs fail | holds |
| `critical_path` | order, earliest starts, latest starts, critical tasks and ending, over small plans | holds |
| `unknown_predecessor` | a dependency on a task that was not read does not fail the calculation | violated: the finding |
| `sessions` | logins, logouts, lookups, expiry and restarts, and a page that believes what it was told | holds |
| `local_page` | links, choices, mappings and answers that come late, twice or as errors: what is shown, what is loading, what is inferred | holds |
| `plan_page` | filters changed while weeks, the weeks before them and further pages are read: rows, detail, arrows | holds |
| `app_tabs` | two users in turn, many tabs, pages with projects: tabs stored, closed and switched | holds |
| `workspace_view` | trees, dates and PMBOK tables at their edges, read again with groups collapsed | holds |

Each property of a passing run has a mutant, a slip of the kind the code could have
had (`RemovalAscending`, `NextWithoutHeader`, `OneHopTooMany`, ...), under which TLC
finds it violated. Those operators stand beside the definitions they replace, marked
"Slip".

What the properties of `work_item` say: `FreshDocument`, any document TFS would accept
was computed from the version it meets; `NoBlindOverwrite`, the first PATCH lands only
on the version its user saw (the promise of
`src/docs/tfs-permission-provisioning-runbook.md:64-66`); `SavedOnce`, a form saved again
after an error is not applied twice; `AcknowledgedAsAsked`, a success reports the version
its user was shown with the request made of it and nothing else: usable entries as they were
entered, every other field as it was, hours shared out by the progress, links and state as
asked, other links in their places; `HalfwayIsOnPath`, the same of every version a request
leaves behind, in the state of the path that it has reached, also when a later hop was
refused, its answer lost, or it was applied after an error had been reported;
`NeverMalformed`, removals by index never leave two parents and hops are legal;
`KeepsPromise`, every write is a step of `CheckedEdits`: made from the version its form
showed, at most once, as one of the submitted bodies asks, then hop by hop along the
workflow while nobody else writes. `CheckedEdits` says nothing of replies (a reply is a
stutter), nor which of the bodies is whose, nor that a path is walked to its end: the
first two are `AcknowledgedAsAsked`, and an item left half-way after an error, which the
code allows, is what `HalfwayIsOnPath` is about. `EveryRequestAnswered`.

Those of `provisioning`: `Delivered`, a run that reports success has given its
user all it names; `MembersCanView`, wherever runs stop, nobody is member of a role
that is still being filled for the first time; `OnlyOverlapsCollide`, the "idempotent" of
`src/docs/tfs-permission-provisioning-runbook.md:13` for runs one after the other, also
after one that stopped half way: a duplicate key needs two runs at once.

Those of `critical_path`: `OrderIsTopological`, the passes come by every task
once, and after its predecessors unless there is a cycle; `EarlyIsEarliest`, the early
starts are a schedule, no schedule has an earlier start anywhere, and none is shorter;
`LateIsLatest`, whoever starts later than the late start delays the project, and, if no
lead is longer than its task (`Gentle`), all tasks may be that late at once;
`CriticalChain`, every critical task starts at once or right after another critical
one, and under `Gentle` those that end the project are critical; `CalculationEnds`. Without
`Gentle` the parts under it do fail, as in any calculation of this kind: a task may then
end after everything that depends on it. Nothing is claimed of the numbers of a plan with a
cycle, for which the code has none to offer.

Those of `sessions`: `OwnCredential`, the second lookup of a route finds the
credential of the user whose permissions the first one checked, whatever came between;
`RightsWereGranted`, what a session holds its user held at some moment of the login, but
for the right to write that `GrantTfsWriteCapability` adds; `EndedIsOver`, no lookup
finds a session after its logout, a restart or its lifetime; `ShownIsLoggedIn`, the user
and the permissions on the page are those of the session that the cookie names, through
lost answers and failed logouts, as long as restore, login and logout do not overlap
(with an overlap it fails: the restore of `AuthProvider.tsx:21-23` may be answered after
a login and then shows the earlier user; no document says otherwise, so it is a hazard
and not a finding).

Those of `local_page`: `PanelsOfSelected`, each panel and document is of the selected
project and each comment of the open task, however many projects were visited while
answers were under way; `WorkspaceOfSelected`, another project's workspace is in view at
most beside an error; `LoadingHasACall`, whatever shows that it is loading has a fetch
that will end it, although a loader clears its flag only for the project of the moment;
`NeverInferred`, in the context of a TFS project only the project its user confirmed is
ever shown, whichever of list, link and choice came last.

Those of `plan_page`: `RowsOfFilters`, rows are those of the filters, in order, without
gap or repetition, and an empty week shows what the week before left to do, by the
calendar; it excepts an error in view and rows that were added late (see below);
`DetailOfRows`; `ArrowMovesOneWeek`, seven days, over the end of a year and from a week 53
that its year does not have.

Those of `app_tabs`: `TabsAreRestored`, what localStorage holds would bring back the tabs
and the page in view, at every moment; `OnlyOwnTabs`, across logouts and logins a user
gets no tab of another's; `ClosingShowsTheNextTab`, which tab follows a closed one, by any
of the five ways to close; `SwitchKeepsProjects`, a click on a tab changes the project of
no page, with the exception told below.

Those of `workspace_view`: `FoldingFollowsTheTree`, a row is hidden exactly by a collapsed
group above it, indented once for each, and can be opened again; `ChartIsInScale`, bars
and dependency lines lie in the chart, today's line under today, but for the afternoons
told below; `FullSetupIsFull`, 100 % set up leaves out no step that PMBOK is read for and hides
nothing but a rounding. It is about percentages: a charter with all its fields but no
approval and cost plans above the budget count 100 % and are not "done".

**Finding.** `Visit` (`CriticalPathCalculator.cs:30`) looks every predecessor up among the
tasks that were read. The reader leaves out removed tasks (`status <> 9`) but not the
dependencies on them, nor those on tasks of other projects: one such row and the
calculation throws an exception that neither the reader nor the route catches, although
the forward pass (line 42) is written to skip such a predecessor.

### Divergences without a run

Five more places where the code does not do what a document says. Their properties are
defined beside the models and are violated under the constants given here; no run of
its own is kept for them.

| Property | Constants | What happens, and what is written |
|---|---|---|
| `ProjectTasksPage!RowsOfSelected` | `Projects = {p1, p2}`, `Slots = {c1, c2}`, `PageSize = 1`, `FirstBoard <- OneTask`, `MaxId = 2`, `MaxToken = 2`, `CanAdd = TRUE`, `CanEdit = FALSE` | After a task is created, `onCreated` (`TfsProjectsPage.tsx:884`) reloads the list of the project of its own render under the token of the moment: a project chosen meanwhile shows the first one's items. The second guard in `loadProjectData`, on `projectKey`, compares a closure with itself. `src/aidlc-docs/audit.md:727-728` says stale requests are invalidated. |
| `ProjectTasksPage!FormOfSelected` | as above, with `MaxId = 1`, `CanAdd = FALSE`, `CanEdit = TRUE` | `openEditTask` (line 577) compares no token: the form of an item of the first project opens under the second and would be saved into its collection. The same document. |
| `ProjectTasksPage!NoDuplicateRows` | one project, three slots, `FirstBoard <- TwoTasks`, `MaxId = 2`, `MaxToken = 1`, neither permission | "Refresh" is enabled while `selectProject` awaits the project's detail, so two list loads share one token; the first to end re-enables "load more", the other resets the list, and the page asked for is appended to rows it holds already. `src/aidlc-docs/construction/tfs-project-management-ui.md:80-81`. |
| `PermissionProvisioning!EditAloneAddsNothing` | `Runs = {r1, r2}`, `Users = {ann, bob}`, `Forms <- OneForm` | Runs with `--allow-edit` alone and with both flags fill one role, `TFS_TASK_EDITOR` (`backend.PermissionProvisioner/Program.cs:64`); after one with both, everyone in it may add. The runbook (lines 34 and 54) keeps ADD apart from EDIT, and the tool reported "Granted actions: ACCESS, VIEW, EDIT". |
| `TaskPlanPage!InheritsIntoEmptyWeeks` | those of `plan_page` | "No rows at all" (`TargetTaskPlanPage.tsx:253-255`; `audit.md:1088-1090`: a week with Progress or Next Plan inherits nothing) is decided on the filtered answer: with the section filter on Progress, a week that has a Next Plan inherits one. |

### Observations

Met while modelling; each is either excepted in a property, by name, or concerns
something no document promises:

* A click on a tab leaves the query string behind. If it had a `projectId`, the page of
  task plans takes "no project" over and loses its filter, which `audit.md:736-738` says
  survives (the exception of `SwitchKeepsProjects`). A link's `projectId` is also put
  beside a customer filter that excludes it, and the list is then empty.
* West of Greenwich `getIsoWeekInfo` reads a midnight of UTC as the day before:
  `ArrowMovesOneWeek` fails with `West = TRUE`, for the arrows then stay or jump two weeks.
* Rows of "load more" are appended whatever the filters are by then
  (`TargetTaskPlanPage.tsx:314`; the variable `late`), and a week before that could not be
  read looks like one with nothing to inherit (line 271).
* After a failed load the workspace of the project before is back in view, beside the
  error and among the panels of the project selected now
  (`LocalProjectManagementPage.tsx:417`).
* Groups stay collapsed when the same project is read again without another in between
  (selected back before the other has come, or after it has failed). If the row of such a
  group is gone by then, its children stay hidden and no arrow shows them (line 620); rows
  whose parents go round are hidden together.
* Without any start date the columns of the chart begin at the time of day, and past noon
  the line of today is a day early (`audit.md:990-991` asks for the line): the case that
  `ChartIsInScale` excepts, and that the last of the three moments of the run meets. Bars of
  reversed dates may stick out of the chart.
* A project without a source has "na" in WBS and Schedule, which `audit.md:1083-1084` wants
  so as not to show progress that is none; but the dashboard step shows the average
  progress of the tasks whatever the source (`LocalProjectManagementFlow.tsx:222-226`), and so
  do the metrics of Schedule (line 149).
* An edit form that is saved unchanged does not leave the item unchanged, as it is filled
  with derived values and they are written back: the priority, which the reader inverts
  (`TfsProjectReader.cs:560`) and the writer does not (213-214); start and finish, which fall back to the dates
  of creation and change (570-578); the product, which falls back to the area and is
  written among the tags (211-212); the progress, which is rounded when read and shares the hours out anew when
  written (405-419). The properties of `work_item` are about the body of the request,
  however the form came by it.
* In PM Flow an approved charter is "done" with fields missing; a schedule may be "todo"
  with a percentage above zero; 99.5 % rounds to 100 %.

### Bounds

* `work_item`: two requests meet in every way that matters to a property that
  compares two requests, or one with the rest of the world; `MaxForeignRev = 3` lets
  others edit before a form is opened, between form and GET, and between GET and PATCH
  or between two PATCHes. The first version has all three kinds of link, with a parent
  and two predecessors around a foreign link, so that a wrong removal order shows; the
  workflow has a path of two hops and a cycle. Of the versions, two have hours, one has
  none of them, one zero; two fields stand for those that null or a blank leaves alone
  and those that it may clear. The six bodies: a blank title beside usable entries, and
  beside nothing but a state and a progress, which is refused; nothing but links; a
  progress that rounds up and one that rounds down at a tie, one out of range; links
  replaced, cleared and kept; a removal.
* `state_path`: every workflow of four states, and every one of five with at most two
  transitions out of a state (none into the first or out of the last, where the search
  would not use them): walks of up to four hops, two of different length to one state,
  side branches and cycles.
* `tasks_*`: two projects, two calls in flight, `MaxToken` three or two selections or
  dismissals, one item per page, two items or one that is created.
* `provisioning`: two runs are what a collision, a repetition and a shared
  role need; two users; two of the three forms, enough for a role
  that holds all of one and nothing of another. Symmetry on runs.
* `critical_path`, `unknown_predecessor`: three tasks and one id outside; every set of two
  dependencies, of any kind, and of three between tasks: chains, forks, joins, a short
  cut beside a chain, cycles and self-dependencies; durations 0 (counted as 1) and 3;
  lags of 1 and leads of 2, which are longer than a task of duration 0.
* `sessions`: two requests under way, so that a login, a logout or a restart falls
  between the lookups of another request; a user of the identity store and one whom only
  TFS knows; a route that needs the credential and one that does not; two sessions, one
  tick of the clock and a lifetime of one, so that each may expire. Symmetry on requests.
* `local_page`: two projects in the list and one that is no longer there (a link or a
  mapping may still name it); four fetches under way, enough for two visits to one
  project with another between them; `MaxPage = 1`, two pages of the log, baselines and
  payments; no query with both a project and a TFS project, nor with a `sourceProjectId`
  (lines 225-226, 324-325), which no link of the application has: with both, the project
  of the query would be taken without a confirmation. A link that changes project and analysis at
  once also sends the analysis of the project it leaves (lines 584-591); that call is left out,
  as it is one more pressed just before the link. Loaders touch no panel but their own, so each behaviour (`InPlay`) uses one of
  seven sets of them, each with what interferes: two panels and all links; baselines with
  comparisons; the log; detail with replies; the chart, which may select a task; payments
  with documents; an export.
* `plan_page`: rows by id, up or down (the other columns of `BuildPlanOrderBy` end on the
  id, so that they order rows without ties, too); the turn of 2020, which has 53 weeks, to 2021; weeks 1, 2, 52 and 53; eight
  plans, one of them deleted, among them an empty week after one with a Next Plan on
  both sides of the turn; one row per page; two filters vary in a behaviour, each with
  another that interferes with it.
* `app_tabs`: two users with three pages; one with four, the fewest for a tab with two
  neighbours besides the pinned one; one with two projects and the pages that have one.
* `workspace_view`: every tree of three tasks, with parents missing, foreign or circular,
  before and after a change, and a chain of four; two tasks with every combination of four
  dates and none; PMBOK tables with each count at the edges of its branches; a morning
  and a noon among the dates, and an afternoon long after them.

`MaxForeignRev`, `MaxToken`, `MaxId`, `Slots`, `MaxSessions`, `MaxTime`, `MaxCalls`,
`MaxPage`, `Years`, `Weeks`, `Answers` and the three `InPlay` are the only caps on behaviour.
`CHECK_DEADLOCK FALSE` is set where requests, selections, the search or runs really end,
and where nothing is left to press or to fold.

### Fairness

* `WorkItemUpdate!FairSpec`: weak fairness of each handler. `HttpClient.Timeout`
  (`TfsProjectReader.cs:447`) ends every awaited call. TFS and users owe nothing.
* `StatePathSearch!FairSearch`: weak fairness of the loop, which awaits nothing.
* `CriticalPath!FairSpec`: weak fairness of the calculation, which awaits nothing.
* `ProjectTasksPage!FairSpec`: each fetch is answered or fails (the API bounds its own
  calls) and the browser runs its continuation. The user owes nothing, and
  `LoadingEnds` excepts a dismissed dialog: Escape changes the token and leaves
  `dataLoading` set (`TfsProjectsPage.tsx:291-302`), after which nothing clears it but
  another selection.
* The other pages have none. That what loads also ends is said of the local page by the
  invariant `LoadingHasACall`, and that a login ends by `WaitingIsForLogin`, of their
  ways to end rather than of time.

## 4. Theorems

Constants are arbitrary up to the named assumptions (`ConstantsOK`,
`SearchAssumption`, `ProvisioningAssumption`, `SessionAssumption`, `LocalPageAssumption`,
`ViewAssumption`, `TasksPageAssumption`, `PlanPageAssumption`, `PlanAssumption`, `AppTabsAssumption`): any set of requests,
any workflow over a finite set of states, any bodies and versions, any runs, users and
list of forms, any lifetime and number of sessions, any projects, links, boards and pages,
any number of calls in flight, any finite set of plans, any finite set of tasks with
any dependencies, durations and lags, any answers with finitely many tasks. What they ask of data is what the schema or the other
side guarantees: a work item starts with one parent at most, as TFS stores no second one
(`ConstantsOK`), and a task plan has an id of its own, the primary key of `pm_task_plan`
(`PlanPageAssumption`); dates are days or absent, counts of rows natural numbers, and a
charter has five fields in the project (`ViewAssumption`; missing parents, circles and
reversed dates it allows).

* **`WorkItemUpdateProofs`**: `TypeCorrect`, `DocumentsAreFresh`, `NoLostUpdate`,
  `ChainsAreUnbroken` (nobody's change falls between two hops), `FormsAreSavedOnce`,
  `RepliesAreAsAsked`, `HalfwayStopsOnPath`, `DocumentsAreStorable`, `PromiseIsKept`. None
  of the safety properties is inductive alone. The invariant `IInv` adds, per request,
  that its copies of the item
  are past versions (`CopiesPast`: an equal revision is the same version), what holds
  before it has sent anything (`NotYetSent`), that the `If-Match` of a PATCH in flight
  is the revision of the form until the request has written, and the one it wrote last
  after that (`Guarded`), and how its writes continue its form (`Written`); and over all requests that a revision
  has one author (`OneAuthor`). Every step either leaves the item alone or raises its
  revision, so `CopiesPast` survives, and `RevisionAccepted` then turns equality of
  numbers into equality of versions.

  The last four are about what a document does to an item. `UpdateOutcome` says it
  for every version and every body: fields with a usable entry are written and no others
  (`FieldsSet`), hours are shared out to the nearest hundredth or stay (`HoursSet`,
  `ShareIsNearest`); the removals, from the highest index down, take out the
  first parent and, if the body lists dependencies, all predecessors (`LinksReplaced`: no
  index has moved when its turn comes), the additions stand behind what is left, and the
  number of other links is the same (`SameOthers`). `OutcomeInv` carries this through a
  request: its state path is legal, a PATCH in flight meets the version its document was
  computed from or none (`InFlightAsAsked`), and what was answered last is as asked but for
  the hops that are left (`AnsweredAsAsked`, `DoneAsAsked`); the item has one parent at most.
  `HalfwayInv` says it of the item itself as long as its last author is the request: how
  many hops were accepted is how far its state is on the path.
  `PromiseIsKept` maps every step to `CheckedEdits`: an accepted first PATCH is its checked
  write, an accepted hop its hop, another user's edit its own, all else, replies
  included, a stutter.

  The same module proves what the handlers take for granted of the search (`SearchSpec`):
  `SearchInvariant`, `RefusalsAreJustified`, `PathsAreShortest`. The invariant is that queued paths are walks on which every state
  was first seen at its place, that the queue spans two levels, and that a state seen is
  queued or has been looked at. Any walk to the wanted state therefore meets the queue
  (`WalkMeetsQueue`), no deeper than the walk's own length; an empty queue leaves no
  walk, and a head that ends there leaves no shorter one.
* **`PermissionProvisioningProofs`**: `TypeCorrect`, `SuccessIsDelivered`,
  `MembersSeeEveryForm`, `RolesAreBounded` (a shared role never holds more than its name
  stands for), `RepeatsSucceed`. The invariant counts what
  a run has granted (`Progress`: the first `at[r]` permissions of its loops), says that
  runs under way have met (`AllMet`) and that a row found by an insert, and not by the
  look before it, is that of a run met (`RacesAreMet`). `ViewIsAsked` shows that the
  loops come by ACCESS and VIEW of every form, for lists of any length.
* **`AuthProviderProofs`**: `TypeCorrect`, `CredentialIsOwn`, `RightsAreGranted`,
  `EndedSessionsAreOver`, `LoginEnds` (the form waits only for a login under way),
  `ShownIsTrue`, and `ServerInvariance` and
  `CredentialForAnyClient` for `ServerSpec`. The invariant `ServerInv` says of a session
  that it is of its owner, holds nobody else's credential, is not closed, expires a
  lifetime after it began and has `Justified` rights; and of a request how far along each
  of these is: `CallOK`. A step of a handler changes one request and at most takes
  sessions out (`OneRequest`), and that keeps all of it; what is left are a new session
  and the steps of the world. `ShownInv` is what the page adds: every answer that says
  who is logged in names a session it describes (`AnswersName`), whatever the page does;
  and as long as restore, login and logout have not overlapped, at most one of them is
  under way, none but a logout while a user is shown, and the cookie is that of the
  answer the page is about to take (`OneAtATime`). `Outcomes` sums up what the API can
  make of a request, and `NamesStay` that a session once named keeps its owner and its
  rights.
* **`LocalProjectPageProofs`**: `TypeCorrect`, `PanelsAreOfSelected`,
  `WorkspaceIsOfSelected`, `LoadingIsUnderWay`, `NothingIsInferred`: all four properties of
  `local_page`. The invariant `Good` is said of a page, a detail and a set of calls, so
  that it can be used twice where the list of projects selects by two queries in one
  step: a project is selected only once the list is there, the workspace on its way is that
  of the selection (`WorkspaceOK`), what the detail shows is of its task and its calls are
  those of the present one (`DetailOK`), and each flag has its call (`BusyOK`,
  `DetailBusyOK`). Selecting keeps it because what its cleanup drops is what nothing
  waits for any more.

  The same module proves the three of `workspace_view` (`ViewSpec`): `ChartsAreInScale`,
  `FullSetupsAreFull`, `FoldingIsOfTheTree`. They are about what is computed
  from an answer; the state adds only that groups collapsed without a row are left over from
  the first answer, and only by another of the same project (`FoldInv`). The chart: the
  first and last day are found among finitely many dates (`TimelineIs`), and `BarIs`
  keeps a bar with its dates in order between them. 100 %: nine steps count, none with more than
  100 (`SumBounds`), so rounding leaves four points to one of them at most, and only the
  tasks with dates have a percentage that close below 100 (`CountedStep`). The tree: what
  is above a task is the least set closed under parents (`AncestorsLeast`,
  `AncestorsClosed`: a walk as long as there are ids meets them all, or one of them twice).
  The two walks of the code with their sets of ids seen are defined whatever the parents are
  (`HiddenDefined`, `DepthsDefined`); a walk with a wrong result would go on to another
  that has seen an id more, without end (`WalksEnd`); and the collapsed group with the
  fewest tasks above it is in view (`HiddenCanBeOpened`).
* **`ProjectTasksPageProofs`**: `DetailIsOfSelected` for every session, and
  `RowsAreOfSelected` for a session with neither permission, without which it is false (see
  above). Calls under the present token, but for reloads ("rows"), are of the selected
  project (`CallOK`), because each selection brings a new token; the reader has no
  reload of any other project (`ReadOK`), and what TFS answers is of the project asked
  for (`PageAfterOK`).
* **`TaskPlanPageProofs`**: `DetailIsOfRows`, `ArrowsMoveOneWeek`, `RowsAreOfFilters`: all
  of `plan_page`. Pages are sequences, so what "load more"
  appends leaves each row in its place (`Appended`), and each other answer takes the
  detail away (`Good`). `PageInv` says that what the effect awaits belongs to the filters
  of the moment, that a week before is asked for only if this one has no rows, and that an
  answer to "load more" that no change has overtaken continues the rows shown;
  `RowsOfFilters` is inductive with the two. `Ranked` shows that the order by id lists every plan that
  matches once, `FirstPage` and `NextRows` that pages follow each other without gap or
  repetition. The calendar is proved from the arithmetic of leap years: `YearFound` (the
  search for a year ends at the right one), `OneYear`, `WeekOfMonday` (the week number of a
  Monday leads back to it), `WeekMoved`, `PreviousIsBefore` (`getPreviousIsoWeek` is the week
  that begins seven days earlier, 52 or 53). Both theorems on weeks ask for a browser not west
  of Greenwich; west of it the first is false (see above). `RowsAreOfFilters` also asks for
  plans in weeks that their years have (`InRealWeeks`; the schema would take a
  week 60, and what `plan_page` checks satisfies it): a plan stored in week 53 of a year of 52
  would otherwise be left out of the week that the calendar puts it before.
* **`CriticalPathProofs`**: `TypeCorrect`, `VisitsInOrder`, `EarliestStartsHold`,
  `LatestStartsHold`, `CriticalPathHolds`: all safety of `critical_path`. The search
  (`VisitInv`): a task visited is on the stack or listed, once, and its predecessors
  are visited or still to come; without a cycle (a rank falls along dependencies) ranks fall along
  the stack, so a predecessor that is visited when its task is listed cannot be on the
  stack: it is listed (`OrderInv`). The passes (`PassInv`): the starts of the tasks passed are the largest,
  the smallest, that their predecessors, their successors, ask for, and stay so, as the
  order is topological. No schedule does better: the first task in the order that would start
  earlier than its early start, or the last that could start later than its late start,
  is contradicted by the one that holds it back.
* **`AppTabsProofs`**: `TabInvariance`, `StoredTabsComeBack`, `TabsAreOwn`,
  `ClosingIsExpected`, `SwitchingKeeps`: all of `app_tabs`. `TabInv`
  says that tabs are tidy (the dashboard first, none twice), those in localStorage
  too or not there, and that those of the user in view are stored. `KeptPlaces`
  and `KeptIs` are about filtering a list: what is kept stands at increasing places, and
  the list of those places, in their order, is the only one. So tidy tabs are loaded as
  they were stored (`LoadedIs`), and what a menu leaves can be said without the filter
  (`KeptWithout`, `KeptUpTo`, `KeptAlone`), from which follows which tab comes into view.
  A drop permutes the tabs behind the dashboard (`ReorderedTidy`).

The invariants were first checked by TLC.

Checked by TLC only: liveness (`EveryRequestAnswered`, `SearchEnds`, `LoadingEnds`,
`CalculationEnds`), which the prover does not handle under fairness. Every safety
property of a passing run is stated by a theorem; `RowsAreOfSelected` and those on weeks
have the conditions told above.
Facts that need induction over data are either proved through a least
counterexample (`LeastNat`; the versions a document goes through, `VersionsDefined`, and what
a filter keeps, `KeptDefined`, what is above a task and the walks of the tree are recursive functions and their values are found that way
too) or left to TLC; no module that is proved about declares a recursive operator.

## 5. Not modelled, and the plan

In this order:

1. `WorkItemCreate`: the POST, the state walk after it, and what a failure between the
   two leaves behind; it reuses `StateGraph` and the revision argument.
2. `Migrator`: crashes between statements, two migrators at once.
3. The project summary page, which loads without a guard.

Left out for good, because they hold no state between calls: SQL aggregation and mapping of
the project management reader and the dashboard, parsing in `projectManagementClient.ts`,
the component of PMBOK tables, layout, static pages and scripts. The refresh session store
is registered by no route. The identity provisioners find and insert as the permission
provisioner does. The several reads of one answer outside a transaction
(`MySqlProjectManagementReader.cs:747`) are read-only: what they can mix is seen only where
a calculation relies on it, as in the finding above.
