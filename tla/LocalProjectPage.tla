--------------------------- MODULE LocalProjectPage ---------------------------
(***************************************************************************)
(* The page /projectmanagement-local (LocalProjectManagementPage): one     *)
(* selected project, its workspace, a dozen panels that are loaded on      *)
(* demand, and the collaboration of one task (TaskDetail).                 *)
(*                                                                         *)
(* A fetch is sent in one step and its continuation runs in another, after *)
(* any number of other events, with an answer or an error.  Three kinds of *)
(* guard are in use: the workspace and the task detail are guarded by a    *)
(* flag of their effect (active), which its cleanup clears; the panels by  *)
(* a comparison of the project asked for with the one selected now         *)
(* (isCurrentProject); the replies to a comment by nothing.                *)
(*                                                                         *)
(* A change of state, the rendering it causes and the effects of that      *)
(* rendering are one step.  What a panel holds is the project it was read  *)
(* for, and which of its pages.  Not modelled: scrolling, labels, and      *)
(* browsers that refuse localStorage.                                      *)
(***************************************************************************)
EXTENDS Integers, FiniteSets

CONSTANTS
    Projects,   \* ids of projects, in the list or not
    Listed,     \* those GET /projects answers with
    None,       \* null
    MaxPage,    \* pages of the activity log, names of baselines, payments
    MaxCalls,   \* bound: fetches under way together
    InPlay      \* bound: the fetches, links and first mappings of a behaviour

\* Panels with a loading flag and an error of their own; comparison shares
\* those of baselines.
Panels == {"pmbok", "criticalPath", "gantt", "baselines", "comparison",
           "activity", "workload", "payments", "otherCosts", "pdca",
           "requests", "commissions"}

Flag(k) == IF k = "comparison" THEN "baselines" ELSE k

\* The panels that the page also empties when no project is selected.
Core == {"pmbok", "criticalPath", "gantt", "baselines", "comparison",
         "activity"}

Analyses == {"workload", "criticalPath", "baselines", "activity", "export"}

\* Charter, stakeholder, ... change log are the sheet "pmbok"; the others,
\* which need no data of theirs, are "overview".
Sheets == {"overview", "pmbok"}

Pages == 0..MaxPage

\* The query string: a project of the target store, or a TFS project, or
\* neither.  Bound: not both, and no sourceProjectId, an external project that
\* nothing is mapped for; the links of the application have no such query.
Urls == {u \in [projectId : Projects \cup {None}, tfsProjectRef : BOOLEAN,
                sheet : Sheets, analysis : Analyses \cup {None}] :
            u.projectId # None => ~u.tfsProjectRef}

Task == [of : Projects, n : Pages]

\* The state of TaskDetail; null is none.
DetailType ==
    [task : Task, comments : Task \cup {None}, loading : BOOLEAN,
     error : BOOLEAN, replies : SUBSET Task,
     open : Task \cup {None}, repliesLoading : Task \cup {None}]

Kinds == Panels \cup {"projects", "workspace", "documents", "export",
                      "detail", "replies"}

ASSUME LocalPageAssumption ==
    /\ Listed \subseteq Projects
    /\ None \notin Projects \cup Task \cup DetailType \cup Kinds
    /\ MaxPage \in Nat /\ MaxCalls \in Nat
    /\ InPlay \subseteq [calls : SUBSET Kinds, links : SUBSET Urls,
                   mappings : SUBSET (Projects \cup {None})]

VARIABLES
    page,     \* the React state of the page
    detail,   \* the React state of TaskDetail, None when it is not mounted
    calls,    \* the fetches under way
    url,      \* the query string
    mapping,  \* localStorage: the project confirmed for the TFS project
    inPlay    \* the fetches, links and mappings this behaviour may use

vars == <<page, detail, calls, url, mapping, inPlay>>

-------------------------------------------------------------------------------

\* What a panel holds: the answer for a project, and for a page of its log, a
\* name of a baseline or a payment.
Content == [of : Projects, at : Pages]

\* The first render, with the list of projects on its way.  loadProjects
\* goes by the query of that render and by the project that localStorage
\* remembers, which is not read again.
Mounted(u, last) ==
    [opened |-> u, lastProjectId |-> last, loading |-> TRUE, listed |-> FALSE,
     selected |-> None, sheet |-> u.sheet,
     workspace |-> None, workspaceLoading |-> FALSE, error |-> FALSE,
     panels |-> [k \in Panels |-> None], busy |-> {}, errors |-> {},
     docs |-> {}, docsLoading |-> None,
     exportLoading |-> FALSE, exportError |-> None, task |-> None]

\* The collaboration of task t, on its way.  A reply that was loading for
\* the task before goes on doing so.
DetailOf(t, repliesLoading) ==
    [task |-> t, comments |-> None, loading |-> TRUE, error |-> FALSE,
     replies |-> {}, open |-> None, repliesLoading |-> repliesLoading]

\* copy tells apart two fetches under way that ask the same.
Call(kind, p, n) == [kind |-> kind, of |-> p, n |-> n, copy |-> FALSE]

With(cs, c) == cs \cup {IF c \in cs THEN [c EXCEPT !.copy = TRUE] ELSE c}

\* There is room for c: at most two alike, and MaxCalls in all.
Send(c) ==
    /\ c \notin calls \/ [c EXCEPT !.copy = TRUE] \notin calls
    /\ Cardinality(calls) < MaxCalls
    /\ calls' = With(calls, c)

\* The block of the page that holds everything but the selector.
Shown == page.workspace # None /\ ~page.workspaceLoading

-------------------------------------------------------------------------------
(* A changed selection and its effects. *)

\* Slip: the cleanup of the workspace's effect is missing.
CleanupOfDetail(cs) == {c \in cs : c.kind \notin {"detail", "replies"}}

\* The cleanup of the effects that have one, and the end of TaskDetail:
\* what these fetches bring is ignored from now on, so they are dropped.
Cleanup(cs) == {c \in cs : c.kind \notin {"workspace", "detail", "replies"}}

\* Slip: the loading flags of the panels stay.
DeselectedBusy(pg) ==
    [pg EXCEPT !.selected = None, !.docsLoading = None,
               !.exportLoading = FALSE, !.workspaceLoading = FALSE,
               !.workspace = None,
               !.panels = [k \in Panels |-> IF k \in Core THEN None
                                            ELSE pg.panels[k]],
               !.errors = {f \in pg.errors : f = "pmbok" \/ f \notin Core}]

\* Without a project only the core panels are emptied.
Deselected(pg) ==
    [pg EXCEPT !.selected = None, !.busy = {}, !.docsLoading = None,
               !.exportLoading = FALSE, !.workspaceLoading = FALSE,
               !.workspace = None,
               !.panels = [k \in Panels |-> IF k \in Core THEN None
                                            ELSE pg.panels[k]],
               !.errors = {f \in pg.errors : f = "pmbok" \/ f \notin Core}]

\* Slip: the panels opened for the project before stay.
KeepsPanels(pg, p) ==
    [pg EXCEPT !.selected = p, !.busy = {"pmbok"}, !.docsLoading = None,
               !.exportLoading = FALSE, !.workspaceLoading = TRUE,
               !.error = FALSE, !.errors = {}, !.docs = {}, !.task = None]

\* With one, everything is emptied but the workspace of the project before,
\* which the loading flag hides, and the error of an export.
Selected(pg, p) ==
    [pg EXCEPT !.selected = p, !.busy = {"pmbok"}, !.docsLoading = None,
               !.exportLoading = FALSE, !.workspaceLoading = TRUE,
               !.error = FALSE, !.panels = [k \in Panels |-> None],
               !.errors = {}, !.docs = {}, !.task = None]

\* The analysis that the link asks for: its loader is called.
Analysed(pg, u) ==
    IF u.analysis = None THEN pg
    ELSE [pg EXCEPT !.sheet = "overview",
                    !.busy = pg.busy \cup ({u.analysis} \ {"export"}),
                    !.errors = pg.errors \ {u.analysis}]

AnalysisSent(cs, p, u) ==
    IF u.analysis \in Panels THEN With(cs, Call(u.analysis, p, 0)) ELSE cs

\* The page, and the fetches under way, once p is selected under query u.
PageWith(pg, p, u) ==
    IF p = pg.selected THEN pg
    ELSE IF p = None THEN Deselected(pg) ELSE Analysed(Selected(pg, p), u)

CallsWith(cs, from, p, u) ==
    IF p = from THEN cs
    ELSE IF p = None THEN Cleanup(cs)
    ELSE AnalysisSent(With(With(Cleanup(cs), Call("pmbok", p, 0)),
                           Call("workspace", p, 0)), p, u)

\* The bounds, for the fetches of a selection.
Room(cs) == Cardinality(cs) <= MaxCalls /\ \A c \in calls : ~c.copy

Select(pg, p, u) ==
    /\ page' = PageWith(pg, p, u)
    /\ calls' = CallsWith(calls, page.selected, p, u)
    /\ p # page.selected => Room(calls')
    /\ detail' = IF p = page.selected THEN detail ELSE None

-------------------------------------------------------------------------------
(* The list of projects, links and the selector. *)

InList(p) == IF p \in Listed THEN p ELSE None

\* readTfsProjectMapping: nothing without a TFS project.
ReadMapping(u) == IF u.tfsProjectRef THEN mapping ELSE None

\* Slip: a TFS project without a mapping gets the project of last time.
WantedOrLast(u) ==
    InList(IF u.projectId # None THEN u.projectId
           ELSE IF ReadMapping(u) # None THEN ReadMapping(u)
           ELSE page.lastProjectId)

\* A link comes first, then the project of last time.
Wanted(u) ==
    InList(IF u.projectId # None THEN u.projectId
           ELSE IF u.tfsProjectRef THEN ReadMapping(u)
           ELSE page.lastProjectId)

Linked(u) == u.projectId # None \/ u.tfsProjectRef

\* The list is there: loadProjects selects by the query of the first
\* render, then the effect on projects by the link of the present one.
ListArrives(c) ==
    /\ c.kind = "projects"
    /\ LET rest == calls \ {c}
           pg == [page EXCEPT !.loading = FALSE, !.listed = TRUE,
                              !.opened = None,
                              !.lastProjectId = None]
           p == Wanted(page.opened)
           q == IF Linked(url) THEN Wanted(url) ELSE p
           first == PageWith(pg, p, url)
           sent == CallsWith(rest, None, p, url)
       IN  /\ page' = [PageWith(first, q, url) EXCEPT
                          !.sheet = IF Linked(url) /\ url.analysis = None
                                    THEN url.sheet ELSE @]
           /\ calls' = CallsWith(sent, p, q, url)
    /\ UNCHANGED <<detail, url, mapping, inPlay>>

ListFails(c) ==
    /\ c.kind = "projects"
    /\ page' = [page EXCEPT !.loading = FALSE, !.error = TRUE, !.opened = None,
                              !.lastProjectId = None]
    /\ calls' = calls \ {c}
    /\ UNCHANGED <<detail, url, mapping, inPlay>>

\* The sheet after a choice.  In the context of a TFS project the mapping
\* has changed, and the effect that follows links runs once more.
SheetOfChoice == IF url.tfsProjectRef THEN url.sheet ELSE "overview"

\* Slip: the choice is not stored as the mapping of the TFS project.
ChooseUnmapped(p) ==
    /\ page.listed /\ p # page.selected
    /\ Select([page EXCEPT !.sheet = SheetOfChoice], p, url)
    /\ UNCHANGED <<url, mapping, inPlay>>

\* A project is chosen in the selector.
ChooseProject(p) ==
    /\ page.listed /\ p # page.selected
    /\ Select([page EXCEPT !.sheet = SheetOfChoice], p, url)
    /\ mapping' = IF url.tfsProjectRef THEN p ELSE mapping
    /\ UNCHANGED <<url, inPlay>>

\* The empty option of the selector.
ClearProject ==
    /\ page.listed /\ page.selected # None
    /\ page' = Deselected([page EXCEPT !.sheet = SheetOfChoice])
    /\ calls' = Cleanup(calls)
    /\ detail' = None
    /\ mapping' = IF url.tfsProjectRef THEN None ELSE mapping
    /\ UNCHANGED <<url, inPlay>>

\* The query changes under the mounted page: a link, or another tab of the
\* application.  A new analysis of the same project is loaded, too.  (If the
\* project changes with it, the code first asks for the analysis of the project
\* that is left; that call is left out, it is one more pressed before the link.)
Navigate(u) ==
    /\ u # url
    /\ url' = u
    /\ LET followed == Linked(u) /\ u # [url EXCEPT !.analysis = u.analysis]
           p == IF ~followed THEN page.selected
                ELSE IF page.listed THEN Wanted(u) ELSE None
           pg == IF followed THEN [page EXCEPT !.sheet = u.sheet] ELSE page
       IN  \/ /\ p # page.selected \/ p = None
              /\ Select(pg, p, u)
           \/ /\ p = page.selected /\ p # None
              /\ IF u.analysis \in (Analyses \ {url.analysis})
                 THEN /\ page' = Analysed(pg, u)
                      /\ calls' = AnalysisSent(calls, p, u)
                      /\ Room(calls')
                 ELSE page' = pg /\ UNCHANGED calls
              /\ UNCHANGED <<detail>>
    /\ UNCHANGED <<mapping, inPlay>>

-------------------------------------------------------------------------------
(* The panels. *)

\* loadCriticalPath, loadGantt, ..., compareBaseline, loadActivity.
LoadPanel(k, n) ==
    /\ k \in Panels \cap inPlay.calls
    /\ page' = [page EXCEPT !.busy = @ \cup {Flag(k)},
                            !.errors = @ \ {Flag(k)}]
    /\ Send(Call(k, page.selected, n))
    /\ UNCHANGED <<detail, url, mapping, inPlay>>

\* A button of the block, off while its panel loads.  The list of baselines
\* is not: several comparisons may be under way.
PressPanel(k, n) ==
    /\ Shown /\ page.selected # None
    /\ \/ k \in Panels \ {"pmbok", "comparison"} /\ n = 0
       \/ k = "comparison" /\ page.panels["baselines"] # None
       \/ /\ k = "activity" /\ page.panels[k] # None
          /\ n \in {page.panels[k].at - 1, page.panels[k].at + 1}
    /\ Flag(k) \notin page.busy \/ k = "comparison"
    /\ LoadPanel(k, n)

\* openSheet: a PMBOK sheet loads its panel if it is neither there nor on
\* its way.
OpenSheet(s) ==
    /\ s # page.sheet
    /\ "pmbok" \in inPlay.calls
    /\ IF /\ s = "pmbok" /\ page.selected # None
          /\ page.panels["pmbok"] = None /\ "pmbok" \notin page.busy
       THEN /\ page' = [page EXCEPT !.sheet = s, !.busy = @ \cup {"pmbok"},
                                    !.errors = @ \ {"pmbok"}]
            /\ Send(Call("pmbok", page.selected, 0))
       ELSE page' = [page EXCEPT !.sheet = s] /\ UNCHANGED calls
    /\ UNCHANGED <<detail, url, mapping, inPlay>>

\* The buttons that hide a panel.
HidePanel(k) ==
    /\ k \in {"criticalPath", "baselines"}
    /\ Shown /\ page.panels[k] # None
    /\ page' = [page EXCEPT !.panels = [j \in Panels |->
                    IF Flag(j) = k THEN None ELSE @[j]]]
    /\ UNCHANGED <<detail, calls, url, mapping, inPlay>>

\* Slip: whatever arrives is shown.
CurrentIsAny(c) == TRUE

\* isCurrentProject.
Current(c) == page.selected = c.of

\* The then and the finally of a loader, for the project selected now.
PanelArrives(c) ==
    /\ c.kind \in Panels
    /\ page' = IF Current(c)
               THEN [page EXCEPT !.panels[c.kind] = [of |-> c.of, at |-> c.n],
                                 !.busy = @ \ {Flag(c.kind)}]
               ELSE page
    /\ calls' = calls \ {c}
    /\ UNCHANGED <<detail, url, mapping, inPlay>>

\* Its catch and finally.
PanelFails(c) ==
    /\ c.kind \in Panels
    /\ page' = IF Current(c)
               THEN [page EXCEPT !.errors = @ \cup {Flag(c.kind)},
                                 !.busy = @ \ {Flag(c.kind)}]
               ELSE page
    /\ calls' = calls \ {c}
    /\ UNCHANGED <<detail, url, mapping, inPlay>>

WorkspaceArrives(c) ==
    /\ c.kind = "workspace"
    /\ page' = [page EXCEPT !.workspace = c.of, !.workspaceLoading = FALSE]
    /\ calls' = calls \ {c}
    /\ UNCHANGED <<detail, url, mapping, inPlay>>

\* Slip: a failed load is not reported.
WorkspaceFailsSilently(c) ==
    /\ c.kind = "workspace"
    /\ page' = [page EXCEPT !.workspaceLoading = FALSE]
    /\ calls' = calls \ {c}
    /\ UNCHANGED <<detail, url, mapping, inPlay>>

\* The workspace of the project before comes back into view, with an error.
WorkspaceFails(c) ==
    /\ c.kind = "workspace"
    /\ page' = [page EXCEPT !.error = TRUE, !.workspaceLoading = FALSE]
    /\ calls' = calls \ {c}
    /\ UNCHANGED <<detail, url, mapping, inPlay>>

\* loadPaymentDocuments: what is there is not loaded again, and one flag
\* names the payment asked for last.
PressDocuments(n) ==
    /\ Shown /\ page.panels["payments"] # None
    /\ "documents" \in inPlay.calls
    /\ page.docsLoading # n
    /\ \A d \in page.docs : d.at # n
    /\ page.selected # None
    /\ page' = [page EXCEPT !.docsLoading = n]
    /\ Send(Call("documents", page.selected, n))
    /\ UNCHANGED <<detail, url, mapping, inPlay>>

DocumentsArrive(c) ==
    /\ c.kind = "documents"
    /\ page' = IF Current(c)
               THEN [page EXCEPT !.docs = @ \cup {[of |-> c.of, at |-> c.n]},
                                 !.docsLoading = None]
               ELSE page
    /\ calls' = calls \ {c}
    /\ UNCHANGED <<detail, url, mapping, inPlay>>

\* exportTasks, in either format.
PressExport ==
    /\ Shown /\ page.selected # None
    /\ "export" \in inPlay.calls
    /\ ~page.exportLoading
    /\ page' = [page EXCEPT !.exportLoading = TRUE, !.exportError = None]
    /\ Send(Call("export", page.selected, 0))
    /\ UNCHANGED <<detail, url, mapping, inPlay>>

\* A file is saved, or an error shown that no later selection removes.
ExportEnds(c, failed) ==
    /\ c.kind = "export"
    /\ page' = IF Current(c)
               THEN [page EXCEPT !.exportLoading = FALSE,
                                 !.exportError = IF failed THEN c.of ELSE @]
               ELSE page
    /\ calls' = calls \ {c}
    /\ UNCHANGED <<detail, url, mapping, inPlay>>

\* Documents have no catch: a failure only ends the loading.
DocumentsFail(c) ==
    /\ c.kind = "documents"
    /\ page' = IF Current(c) THEN [page EXCEPT !.docsLoading = None] ELSE page
    /\ calls' = calls \ {c}
    /\ UNCHANGED <<detail, url, mapping, inPlay>>

-------------------------------------------------------------------------------
(* The collaboration of a task. *)

\* A row of the list, or of the Gantt chart, which may show another project
\* than the list: a task that is not in the workspace has no detail.
SelectTask(t) ==
    /\ Shown /\ "detail" \in inPlay.calls
    /\ \/ t.of = page.workspace
       \/ page.panels["gantt"] # None /\ t.of = page.panels["gantt"].of
    /\ page.task # t
    /\ page' = [page EXCEPT !.task = t]
    /\ LET kept == {c \in calls : c.kind # "detail"}
       IN  IF t.of = page.workspace
           THEN /\ Cardinality(kept) < MaxCalls
                /\ detail' = DetailOf(t, IF detail = None THEN None
                                         ELSE detail.repliesLoading)
                /\ calls' = kept \cup {Call("detail", t.of, t.n)}
           ELSE detail' = None /\ calls' = {c \in kept : c.kind # "replies"}
    /\ UNCHANGED <<url, mapping, inPlay>>

\* Comments, attachments and activity arrive together, or not at all.
DetailArrives(c) ==
    /\ c.kind = "detail"
    /\ detail' = [detail EXCEPT !.comments = [of |-> c.of, n |-> c.n],
                                !.loading = FALSE]
    /\ calls' = calls \ {c}
    /\ UNCHANGED <<page, url, mapping, inPlay>>

DetailFails(c) ==
    /\ c.kind = "detail"
    /\ detail' = [detail EXCEPT !.error = TRUE,
                                !.loading = FALSE]
    /\ calls' = calls \ {c}
    /\ UNCHANGED <<page, url, mapping, inPlay>>

\* toggleReplies, of the one comment of each task.
ToggleReplies ==
    /\ detail # None /\ "replies" \in inPlay.calls
    /\ detail.comments # None
    /\ IF detail.open # None
       THEN detail' = [detail EXCEPT !.open = None] /\ UNCHANGED calls
       ELSE IF detail.comments \in detail.replies
       THEN detail' = [detail EXCEPT !.open = detail.comments]
            /\ UNCHANGED calls
       ELSE /\ detail' = [detail EXCEPT !.open = detail.comments,
                                        !.repliesLoading = detail.comments]
            /\ Send(Call("replies", detail.comments.of, detail.comments.n))
    /\ UNCHANGED <<page, url, mapping, inPlay>>

\* Nothing guards the answer but that the component is still there.
RepliesArrive(c) ==
    /\ c.kind = "replies"
    /\ detail' = [detail EXCEPT !.replies = @ \cup {[of |-> c.of, n |-> c.n]},
                                !.repliesLoading = None]
    /\ calls' = calls \ {c}
    /\ UNCHANGED <<page, url, mapping, inPlay>>

RepliesFail(c) ==
    /\ c.kind = "replies"
    /\ detail' = [detail EXCEPT !.error = TRUE,
                                !.repliesLoading = None]
    /\ calls' = calls \ {c}
    /\ UNCHANGED <<page, url, mapping, inPlay>>

-------------------------------------------------------------------------------

Init ==
    /\ inPlay \in InPlay
    /\ url \in inPlay.links
    /\ mapping \in inPlay.mappings
    /\ \E last \in Projects \cup {None} : page = Mounted(url, last)
    /\ detail = None
    /\ calls = {Call("projects", None, 0)}

User ==
    \/ \E p \in Listed : ChooseProject(p)
    \/ ClearProject
    \/ \E u \in inPlay.links : Navigate(u)
    \/ \E s \in Sheets : OpenSheet(s)
    \/ \E k \in Panels, n \in Pages : PressPanel(k, n)
    \/ \E k \in Panels : HidePanel(k)
    \/ \E n \in Pages : PressDocuments(n)
    \/ PressExport
    \/ \E t \in Task : SelectTask(t)
    \/ ToggleReplies

Answer(c) ==
    \/ ListArrives(c) \/ ListFails(c)
    \/ WorkspaceArrives(c) \/ WorkspaceFails(c)
    \/ PanelArrives(c) \/ PanelFails(c)
    \/ DocumentsArrive(c) \/ DocumentsFail(c)
    \/ \E failed \in BOOLEAN : ExportEnds(c, failed)
    \/ DetailArrives(c) \/ DetailFails(c)
    \/ RepliesArrive(c) \/ RepliesFail(c)

Next == User \/ \E c \in calls : Answer(c)

Spec == Init /\ [][Next]_vars

-------------------------------------------------------------------------------

Calls == [kind : Kinds, of : Projects \cup {None}, n : Pages, copy : BOOLEAN]

PageType ==
    [opened : Urls \cup {None}, lastProjectId : Projects \cup {None},
     loading : BOOLEAN, listed : BOOLEAN,
     selected : Projects \cup {None}, sheet : Sheets,
     workspace : Projects \cup {None}, workspaceLoading : BOOLEAN,
     error : BOOLEAN, panels : [Panels -> Content \cup {None}],
     busy : SUBSET Panels, errors : SUBSET Panels, docs : SUBSET Content,
     docsLoading : Pages \cup {None}, exportLoading : BOOLEAN,
     exportError : Projects \cup {None}, task : Task \cup {None}]

\* The variables have their types.
TypeOK ==
    /\ page \in PageType
    /\ detail \in DetailType \cup {None}
    /\ calls \subseteq Calls
    /\ url \in Urls
    /\ mapping \in Projects \cup {None}
    /\ inPlay \in InPlay

\* Whatever was opened, for which project, and however late its answer
\* came: with a project selected, every panel and the documents of payments
\* are its own, and the task detail shows comments of its task.  (The
\* loaders that compare projects after their await.)
PanelsOfSelected ==
    /\ page.selected # None =>
        /\ \A k \in Panels : page.panels[k] # None =>
               page.panels[k].of = page.selected
        /\ \A d \in page.docs : d.of = page.selected
    /\ detail # None =>
        /\ detail.task = page.task
        /\ detail.task.of = page.workspace
        /\ detail.comments \in {None, detail.task}
        /\ detail.open \in {None, detail.task}

\* The workspace in view is that of the selected project, or an error is
\* in view with it: after a failed load it is that of the project before,
\* among panels of the one selected now.
WorkspaceOfSelected ==
    Shown => page.workspace = page.selected \/ page.error

\* Whatever shows that it is loading has a fetch under way that will end
\* it: no answer for a project or a task left meanwhile takes it along, and
\* none is waited for that was sent for another.
LoadingHasACall ==
    LET UnderWay(kind, p) == \E c \in calls : c.kind = kind /\ c.of = p
    IN  /\ page.loading => UnderWay("projects", None)
        /\ page.workspaceLoading => UnderWay("workspace", page.selected)
        /\ \A f \in page.busy : \E k \in Panels :
               Flag(k) = f /\ UnderWay(k, page.selected)
        /\ page.docsLoading # None => UnderWay("documents", page.selected)
        /\ page.exportLoading => UnderWay("export", page.selected)
        /\ detail # None /\ detail.loading =>
               UnderWay("detail", detail.task.of)
        /\ detail # None /\ detail.repliesLoading # None =>
               UnderWay("replies", detail.repliesLoading.of)

\* In the context of a TFS project, the project selected is the one its
\* user confirmed for it, however the page came there and whatever was
\* selected before: it is never inferred.
NeverInferred ==
    url.tfsProjectRef /\ page.selected # None => mapping = page.selected

=============================================================================
