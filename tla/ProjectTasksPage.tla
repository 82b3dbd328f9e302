--------------------------- MODULE ProjectTasksPage ---------------------------
(***************************************************************************)
(* The page /project-tasks (TfsProjectsPage with pageKind "tasks") in one  *)
(* browser tab: choosing a project, its paged list of work items, the      *)
(* detail dialog, the create and edit forms and the delete dialog.         *)
(*                                                                         *)
(* Every fetch is asynchronous: a call is sent, served by the API and TFS  *)
(* at some later moment, and its continuation runs later still, after any  *)
(* number of other events of the page.  The page defends itself with       *)
(* projectRequestRef, here token: a continuation that finds another token  *)
(* than the one its call captured should change nothing.                   *)
(*                                                                         *)
(* Not modelled: filters, Gantt view, notices, the tools menu (it can be   *)
(* opened at any time, so Escape always has something to close), and       *)
(* detailLoading, which this page kind does not show.                      *)
(***************************************************************************)
EXTENDS Integers, Sequences, FiniteSets

CONSTANTS
    Projects,    \* the projects of the drop-down list, one per collection
    None,        \* null: no project, no dialog, no form
    Slots,       \* bound: calls that may be in flight together
    PageSize,    \* work items per page (100 in the code)
    FirstBoard,  \* the active work items of a project when the tab opens
    MaxId,       \* bound: largest work item id of a collection
    MaxToken,    \* bound: selections and dismissals
    CanAdd,      \* the permissions of the session
    CanEdit

Ids == 1..MaxId

Row == [of : Projects, id : Ids]

\* An edit form saves values that were read from one item into an item.
EditForm == [of : Projects, id : Ids, values : Row, saving : Slots \cup {None}]

CreateForm == [saving : Slots \cup {None}]

ASSUME TasksPageAssumption ==
    /\ PageSize \in Nat \ {0}
    /\ MaxId \in Nat /\ MaxToken \in Nat
    /\ FirstBoard \in Seq(Ids)
    /\ CanAdd \in BOOLEAN /\ CanEdit \in BOOLEAN
    /\ None \notin Projects \cup Slots \cup Row \cup EditForm \cup CreateForm

VARIABLES
    board,      \* TFS: board[p], the ids of p's active work items, ascending
    page,       \* what the page shows: the React state of the component
    token,      \* projectRequestRef.current
    calls,      \* calls[c]: the fetch in slot c, or None
    dismissed   \* history: Escape or a backdrop was used since the selection

vars == <<board, page, token, calls, dismissed>>

-------------------------------------------------------------------------------

\* The state of the page with project p selected and nothing loaded.
Blank(p) ==
    [selected |-> p, rows |-> <<>>, total |-> 0, offset |-> 0,
     dataLoading |-> FALSE, itemLoading |-> FALSE, detail |-> None,
     editForm |-> None, createForm |-> None, deleteTask |-> None,
     deletingTask |-> None]

Pending == [state |-> "pending"]
Failed == [state |-> "failed"]
Loaded(rs, n) == [state |-> "loaded", rows |-> rs, total |-> n]

\* A fetch: what it asks, of which project, and what its closure captured:
\* the token, and the dataLoading of the render it was started from.
Call(kind, p, id) ==
    [kind |-> kind, of |-> p, id |-> id, from |-> page.offset,
     busy |-> page.dataLoading, token |-> token, reply |-> Pending]

Send(c, call) == calls' = [calls EXCEPT ![c] = call]

Free(c) == calls[c] = None

Forget(c) == calls' = [calls EXCEPT ![c] = None]

\* The list is drawn only while no list is being loaded.
RowShown(r) == ~page.dataLoading /\ \E k \in DOMAIN page.rows : page.rows[k] = r

\* Task r was chosen in the list, or in the detail dialog, which closes.
Chosen(r, detail) ==
    \/ RowShown(r) /\ detail = page.detail
    \/ page.detail = r /\ detail = None

-------------------------------------------------------------------------------
(* What the user does. *)

\* selectProject: everything is reset and the project's detail is fetched.
SelectProject(c, p) ==
    /\ Free(c)
    /\ token < MaxToken
    /\ page.selected # p
    /\ token' = token + 1
    /\ page' = Blank(p)
    /\ Send(c, [Call("project", p, 0) EXCEPT !.token = token + 1])
    /\ dismissed' = FALSE
    /\ UNCHANGED board

\* Slip: the empty option resets the page and leaves the token.
ClearKeepsToken ==
    /\ page.selected # None
    /\ page' = Blank(None)
    /\ dismissed' = FALSE
    /\ UNCHANGED <<board, token, calls>>

\* clearProjectSelection, the empty option of the list.
ClearProjectSelection ==
    /\ token < MaxToken
    /\ page.selected # None
    /\ token' = token + 1
    /\ page' = Blank(None)
    /\ dismissed' = FALSE
    /\ UNCHANGED <<board, calls>>

\* Escape closes every dialog and invalidates what is in flight.
Escape ==
    /\ token < MaxToken
    /\ token' = token + 1
    /\ page' = [page EXCEPT !.detail = None, !.itemLoading = FALSE,
                            !.createForm = None, !.editForm = None,
                            !.deleteTask = None, !.deletingTask = None]
    /\ dismissed' = TRUE
    /\ UNCHANGED <<board, calls>>

\* A click beside the "loading work item" dialog.
DismissLoading ==
    /\ page.itemLoading
    /\ token < MaxToken
    /\ token' = token + 1
    /\ page' = [page EXCEPT !.itemLoading = FALSE]
    /\ dismissed' = TRUE
    /\ UNCHANGED <<board, calls>>

\* The close buttons of the detail, the forms and the delete dialog: none
\* of them waits for a save or a removal under way.
Close(dialog) ==
    /\ dialog \in {"detail", "editForm", "createForm", "deleteTask"}
    /\ page[dialog] # None
    /\ page' = [page EXCEPT ![dialog] = None]
    /\ UNCHANGED <<board, token, calls, dismissed>>

\* loadProjectData('work-items') from the tools menu.
Refresh(c) ==
    /\ Free(c)
    /\ page.selected # None
    /\ ~page.dataLoading
    /\ page' = [page EXCEPT !.dataLoading = TRUE]
    /\ Send(c, Call("rows", page.selected, 0))
    /\ UNCHANGED <<board, token, dismissed>>

LoadMoreWorkItems(c) ==
    /\ Free(c)
    /\ page.selected # None
    /\ ~page.dataLoading
    /\ page.offset < page.total
    /\ page.rows # <<>>
    /\ page' = [page EXCEPT !.dataLoading = TRUE]
    /\ Send(c, Call("more", page.selected, 0))
    /\ UNCHANGED <<board, token, dismissed>>

OpenWorkItem(c, r) ==
    /\ Free(c)
    /\ RowShown(r)
    /\ page.selected # None
    /\ ~page.itemLoading
    /\ page' = [page EXCEPT !.itemLoading = TRUE, !.detail = None]
    /\ Send(c, Call("detail", page.selected, r.id))
    /\ UNCHANGED <<board, token, dismissed>>

\* openEditTask, from a row of the list or from the detail dialog.
OpenEditTask(c, r, detail) ==
    /\ Free(c)
    /\ CanEdit
    /\ Chosen(r, detail)
    /\ page.selected # None
    /\ ~page.itemLoading
    /\ page' = [page EXCEPT !.itemLoading = TRUE, !.editForm = None,
                            !.detail = detail]
    /\ Send(c, Call("edit", page.selected, r.id))
    /\ UNCHANGED <<board, token, dismissed>>

OpenCreateTask ==
    /\ CanAdd
    /\ page.selected # None
    /\ page.createForm = None
    /\ page' = [page EXCEPT !.createForm = [saving |-> None]]
    /\ UNCHANGED <<board, token, calls, dismissed>>

OpenDeleteTask(r, detail) ==
    /\ CanEdit
    /\ Chosen(r, detail)
    /\ page' = [page EXCEPT !.deleteTask = r, !.detail = detail]
    /\ UNCHANGED <<board, token, calls, dismissed>>

\* submit of TfsTaskCreateModal: the form stays open, its save button is off.
SubmitEdit(c) ==
    /\ Free(c)
    /\ page.selected # None
    /\ page.editForm # None
    /\ page.editForm.saving = None
    /\ page' = [page EXCEPT !.editForm.saving = c]
    /\ Send(c, Call("save", page.selected, page.editForm.id))
    /\ UNCHANGED <<board, token, dismissed>>

SubmitCreate(c) ==
    /\ Free(c)
    /\ page.selected # None
    /\ page.createForm # None
    /\ page.createForm.saving = None
    /\ page' = [page EXCEPT !.createForm.saving = c]
    /\ Send(c, Call("create", page.selected, 0))
    /\ UNCHANGED <<board, token, dismissed>>

ConfirmDeleteTask(c) ==
    /\ Free(c)
    /\ page.selected # None
    /\ page.deleteTask # None
    /\ page.deletingTask = None
    /\ page' = [page EXCEPT !.deletingTask = page.deleteTask]
    /\ Send(c, Call("delete", page.selected, page.deleteTask.id))
    /\ UNCHANGED <<board, token, dismissed>>

-------------------------------------------------------------------------------
(* The API and TFS. *)

Asked(c, kinds) ==
    calls[c] # None /\ calls[c].kind \in kinds /\ calls[c].reply = Pending

Reply(c, r) == calls' = [calls EXCEPT ![c].reply = r]

\* The page of p's work items after the first n, in the order of their ids.
PageAfter(p, n) ==
    LET end == IF n + PageSize < Len(board[p]) THEN n + PageSize ELSE Len(board[p])
    IN [k \in 1..(end - n) |-> [of |-> p, id |-> board[p][n + k]]]

ServeRead(c) ==
    /\ Asked(c, {"project", "firstRows", "rows", "more", "detail", "edit"})
    /\ LET k == calls[c]
       IN Reply(c,
            CASE k.kind \in {"firstRows", "rows"} ->
                   Loaded(PageAfter(k.of, 0), Len(board[k.of]))
              [] k.kind = "more" ->
                   Loaded(PageAfter(k.of, k.from), Len(board[k.of]))
              [] k.kind \in {"detail", "edit"} ->
                   Loaded(<<[of |-> k.of, id |-> k.id]>>, 0)
              [] OTHER -> Loaded(<<>>, 0))
    /\ UNCHANGED <<board, page, token, dismissed>>

\* A write takes effect; its answer may still be lost.
ServeWrite(c) ==
    /\ Asked(c, {"save", "create", "delete"})
    /\ LET k == calls[c]
           b == board[k.of]
       IN CASE k.kind = "create" ->
                 \E id \in Ids : /\ \A p \in DOMAIN b : b[p] < id
                                 /\ board' = [board EXCEPT ![k.of] = Append(b, id)]
            [] k.kind = "delete" ->
                 board' = [board EXCEPT ![k.of] = SelectSeq(b, LAMBDA id : id # k.id)]
            [] OTHER -> UNCHANGED board
    /\ Reply(c, Loaded(<<>>, 0)) \/ Reply(c, Failed)
    /\ UNCHANGED <<page, token, dismissed>>

\* Refused, timed out or unreachable before it took effect.
FailCall(c) ==
    /\ calls[c] # None /\ calls[c].reply = Pending
    /\ Reply(c, Failed)
    /\ UNCHANGED <<board, page, token, dismissed>>

-------------------------------------------------------------------------------
(* The continuations. *)

Came(c, kinds, state) ==
    calls[c] # None /\ calls[c].kind \in kinds /\ calls[c].reply.state = state

\* Slip: no comparison after the await.
CurrentUnchecked(c) == TRUE

\* requestId === projectRequestRef.current
Current(c) == calls[c].token = token

\* selectProject goes on to load the first page.
ProjectLoaded(c) ==
    /\ Came(c, {"project"}, "loaded")
    /\ IF Current(c)
         THEN /\ page' = [page EXCEPT !.selected = calls[c].of, !.dataLoading = TRUE]
              /\ Send(c, Call("firstRows", calls[c].of, 0))
         ELSE /\ Forget(c)
              /\ UNCHANGED page
    /\ UNCHANGED <<board, token, dismissed>>

RowsLoaded(c) ==
    /\ Came(c, {"firstRows", "rows"}, "loaded")
    /\ page' = IF Current(c)
                 THEN LET r == calls[c].reply
                      IN [page EXCEPT !.rows = r.rows, !.total = r.total,
                                      !.offset = Len(r.rows), !.dataLoading = FALSE]
                 ELSE page
    /\ Forget(c)
    /\ UNCHANGED <<board, token, dismissed>>

MoreRowsLoaded(c) ==
    /\ Came(c, {"more"}, "loaded")
    /\ page' = IF Current(c)
                 THEN LET r == calls[c].reply
                      IN [page EXCEPT !.rows = @ \o r.rows, !.total = r.total,
                                      !.offset = @ + Len(r.rows), !.dataLoading = FALSE]
                 ELSE page
    /\ Forget(c)
    /\ UNCHANGED <<board, token, dismissed>>

\* Slip: the error path forgets the loading state.
LoadFailedStillLoading(c) ==
    /\ Came(c, {"project", "firstRows", "rows", "more"}, "failed")
    /\ Forget(c)
    /\ UNCHANGED <<board, page, token, dismissed>>

LoadFailed(c) ==
    /\ Came(c, {"project", "firstRows", "rows", "more"}, "failed")
    /\ page' = IF Current(c) THEN [page EXCEPT !.dataLoading = FALSE] ELSE page
    /\ Forget(c)
    /\ UNCHANGED <<board, token, dismissed>>

DetailLoaded(c) ==
    /\ Came(c, {"detail"}, "loaded")
    /\ page' = IF Current(c)
                 THEN [page EXCEPT !.detail = calls[c].reply.rows[1], !.itemLoading = FALSE]
                 ELSE page
    /\ Forget(c)
    /\ UNCHANGED <<board, token, dismissed>>

DetailFailed(c) ==
    /\ Came(c, {"detail"}, "failed")
    /\ page' = IF Current(c) THEN [page EXCEPT !.itemLoading = FALSE] ELSE page
    /\ Forget(c)
    /\ UNCHANGED <<board, token, dismissed>>

\* openEditTask looks at no token.  A form that is already mounted keeps the
\* values it was mounted with and only takes the new item to save into.
EditLoaded(c) ==
    /\ Came(c, {"edit"}, "loaded")
    /\ LET r == calls[c].reply.rows[1]
       IN page' = [page EXCEPT
             !.editForm = IF @ = None
                            THEN [of |-> r.of, id |-> r.id, values |-> r, saving |-> None]
                            ELSE [@ EXCEPT !.of = r.of, !.id = r.id],
             !.itemLoading = FALSE]
    /\ Forget(c)
    /\ UNCHANGED <<board, token, dismissed>>

EditFailed(c) ==
    /\ Came(c, {"edit"}, "failed")
    /\ page' = [page EXCEPT !.itemLoading = FALSE]
    /\ Forget(c)
    /\ UNCHANGED <<board, token, dismissed>>

\* onCreated: the form closes, whichever it is by now, and the list of the
\* project that was selected at the save is loaded again, under today's token.
Saved(c) ==
    /\ Came(c, {"save", "create"}, "loaded")
    /\ LET form == IF calls[c].kind = "save" THEN "editForm" ELSE "createForm"
       IN IF calls[c].busy
            THEN /\ page' = [page EXCEPT ![form] = None]
                 /\ Forget(c)
            ELSE /\ page' = [page EXCEPT ![form] = None, !.dataLoading = TRUE]
                 /\ Send(c, Call("rows", calls[c].of, 0))
    /\ UNCHANGED <<board, token, dismissed>>

SaveFailed(c) ==
    /\ Came(c, {"save", "create"}, "failed")
    /\ LET form == IF calls[c].kind = "save" THEN "editForm" ELSE "createForm"
       IN page' = IF page[form] # None /\ page[form].saving = c
                    THEN [page EXCEPT ![form].saving = None]
                    ELSE page
    /\ Forget(c)
    /\ UNCHANGED <<board, token, dismissed>>

\* Slip: no Math.max(0, ...).
OneLessUnclamped(n) == n - 1

OneLess(n) == IF n = 0 THEN 0 ELSE n - 1

TaskRemoved(c) ==
    /\ Came(c, {"delete"}, "loaded")
    /\ page' = [page EXCEPT !.deleteTask = None,
                            !.rows = SelectSeq(@, LAMBDA r : r.id # calls[c].id),
                            !.total = OneLess(@), !.offset = OneLess(@),
                            !.deletingTask = None]
    /\ Forget(c)
    /\ UNCHANGED <<board, token, dismissed>>

RemoveFailed(c) ==
    /\ Came(c, {"delete"}, "failed")
    /\ page' = [page EXCEPT !.deletingTask = None]
    /\ Forget(c)
    /\ UNCHANGED <<board, token, dismissed>>

-------------------------------------------------------------------------------

Init ==
    /\ board = [p \in Projects |-> FirstBoard]
    /\ page = Blank(None)
    /\ token = 0
    /\ calls = [c \in Slots |-> None]
    /\ dismissed = FALSE

User ==
    \/ ClearProjectSelection
    \/ Escape
    \/ DismissLoading
    \/ \E dialog \in {"detail", "editForm", "createForm", "deleteTask"} : Close(dialog)
    \/ OpenCreateTask
    \/ \E r \in Row, d \in {page.detail, None} : OpenDeleteTask(r, d)
    \/ \E c \in Slots :
         \/ \E p \in Projects : SelectProject(c, p)
         \/ Refresh(c)
         \/ LoadMoreWorkItems(c)
         \/ \E r \in Row : OpenWorkItem(c, r)
         \/ \E r \in Row, d \in {page.detail, None} : OpenEditTask(c, r, d)
         \/ SubmitEdit(c)
         \/ SubmitCreate(c)
         \/ ConfirmDeleteTask(c)

Continue(c) ==
    \/ ProjectLoaded(c)
    \/ RowsLoaded(c)
    \/ MoreRowsLoaded(c)
    \/ LoadFailed(c)
    \/ DetailLoaded(c)
    \/ DetailFailed(c)
    \/ EditLoaded(c)
    \/ EditFailed(c)
    \/ Saved(c)
    \/ SaveFailed(c)
    \/ TaskRemoved(c)
    \/ RemoveFailed(c)

Serve(c) == ServeRead(c) \/ ServeWrite(c) \/ FailCall(c)

Next == User \/ \E c \in Slots : Serve(c) \/ Continue(c)

Spec == Init /\ [][Next]_vars

\* Every fetch is answered or fails (the API bounds its calls to TFS), and the
\* browser runs the continuation.  The user owes nothing.
FairSpec == Spec /\ \A c \in Slots : WF_vars(Serve(c)) /\ WF_vars(Continue(c))

-------------------------------------------------------------------------------
(* Properties. *)

Tasks == Row \cup {None}

\* The types of the variables; the counters of the list never go below zero.
TypeOK ==
    /\ board \in [Projects -> Seq(Ids)]
    /\ token \in 0..MaxToken
    /\ dismissed \in BOOLEAN
    /\ page.selected \in Projects \cup {None}
    /\ page.rows \in Seq(Row)
    /\ page.total \in Nat /\ page.offset \in Nat
    /\ page.dataLoading \in BOOLEAN /\ page.itemLoading \in BOOLEAN
    /\ page.detail \in Tasks /\ page.deleteTask \in Tasks /\ page.deletingTask \in Tasks
    /\ page.editForm \in EditForm \cup {None}
    /\ page.createForm \in CreateForm \cup {None}
    /\ \A c \in Slots : calls[c] # None => calls[c].of \in Projects /\ calls[c].token <= token

\* Only the user changes the selected project: the answer to an earlier
\* selectProject, arriving late, never brings its project back.
SelectionIsUsers ==
    [][page'.selected # page.selected => token' # token]_vars

\* The detail dialog shows an item of the selected project, whatever was
\* selected or dismissed while it was being fetched.
DetailOfSelected ==
    page.detail # None => page.detail.of = page.selected

\* The list holds work items of the selected project only, and none when no
\* project is selected.
RowsOfSelected ==
    \A k \in DOMAIN page.rows : page.rows[k].of = page.selected

\* The edit form on screen saves into an item of the selected project.
FormOfSelected ==
    page.selected # None /\ page.editForm # None => page.editForm.of = page.selected

\* "Load more" never shows a work item twice.
NoDuplicateRows ==
    \A j, k \in DOMAIN page.rows : page.rows[j] = page.rows[k] => j = k

\* The loading state of the list has a fetch behind it that will end it,
\* unless the user dismissed a dialog since the project was selected.
LoadingIsOwned ==
    page.dataLoading /\ ~dismissed =>
        \E c \in Slots : /\ calls[c] # None
                         /\ calls[c].kind \in {"firstRows", "rows", "more"}
                         /\ calls[c].token = token

\* The list does not stay in its loading state, unless the user dismissed a
\* dialog meanwhile.
LoadingEnds == page.dataLoading ~> (~page.dataLoading \/ dismissed)

===============================================================================
