------------------------- MODULE ProjectTasksPageProofs -------------------------
(***************************************************************************)
(* What arrives late on the tasks page: the detail dialog shows an item of *)
(* the selected project in every session, and the list holds items of the  *)
(* selected project in every session that only reads.  Any projects, any   *)
(* number of calls in flight, any boards and pages of any size.            *)
(***************************************************************************)
EXTENDS ProjectTasksPage, SequenceTheorems, TLAPS

\* Reads of what belongs to the selected project, as long as the token is
\* the one they were sent with.  A reload ("rows") may be of another one.
OwnReads == {"project", "firstRows", "more", "detail"}

Writes == {"save", "create", "delete"}

Kinds == OwnReads \cup Writes \cup {"rows", "edit"}

Lists == {"firstRows", "rows", "more"}

\* The fields of the page, the types of those the detail depends on.
PageOK ==
    page \in [selected : Projects \cup {None}, rows : {page.rows},
              total : {page.total}, offset : {page.offset},
              dataLoading : BOOLEAN, itemLoading : BOOLEAN, detail : Tasks,
              editForm : {page.editForm}, createForm : {page.createForm},
              deleteTask : {page.deleteTask},
              deletingTask : {page.deletingTask}]

CallOK(k) ==
    /\ k \in [kind : Kinds, of : Projects, id : {k.id}, from : {k.from},
              busy : BOOLEAN, token : Nat, reply : {k.reply}]
    /\ k.token <= token
    /\ k.token = token /\ k.kind \in OwnReads => k.of = page.selected
    /\ k.kind = "detail" => k.id \in Ids
    /\ k.kind = "detail" /\ k.reply.state = "loaded" =>
            k.reply.rows[1] = [of |-> k.of, id |-> k.id]

CallsOK ==
    /\ calls = [c \in Slots |-> calls[c]]
    /\ \A c \in Slots : calls[c] # None => CallOK(calls[c])

Good ==
    /\ token \in Nat
    /\ PageOK
    /\ CallsOK
    /\ DetailOfSelected

-------------------------------------------------------------------------------

LEMMA InitGood == Init => Good
<1> SUFFICES ASSUME Init PROVE Good
  OBVIOUS
<1>1. PageOK
  BY DEF Init, Blank, PageOK, Tasks
<1>2. CallsOK
  BY DEF Init, CallsOK
<1> QED
  BY <1>1, <1>2 DEF Init, Good, Blank, DetailOfSelected

\* A page that keeps its selection, and its detail or none.
Keeps ==
    /\ page'.selected = page.selected
    /\ page'.detail \in {page.detail, None}

LEMMA KeepsDetail ==
    ASSUME Good, Keeps
    PROVE  DetailOfSelected'
BY DEF Good, Keeps, DetailOfSelected

\* What was sent under the present token still is of the selected project, and
\* after the next selection nothing is under the present token.
LEMMA CallStaysOK ==
    ASSUME Good, \/ token' = token /\ page'.selected = page.selected
                 \/ token' = token + 1,
           NEW k, CallOK(k)
    PROVE  /\ k.token <= token'
           /\ k.token = token' /\ k.kind \in OwnReads => k.of = page'.selected
BY DEF Good, CallOK, OwnReads

LEMMA SameCallsOK ==
    ASSUME Good, calls' = calls,
           \/ token' = token /\ page'.selected = page.selected
           \/ token' = token + 1
    PROVE  CallsOK'
<1>1. ASSUME NEW c \in Slots, calls[c] # None PROVE CallOK(calls[c])'
  <2>1. CallOK(calls[c])
    BY <1>1 DEF Good, CallsOK
  <2> QED
    BY <2>1, CallStaysOK DEF CallOK
<1> QED
  BY <1>1 DEF Good, CallsOK

\* One call is sent, answered or forgotten.
LEMMA OneCallOK ==
    ASSUME Good, NEW c \in Slots, NEW k,
           calls' = [calls EXCEPT ![c] = k],
           \/ token' = token /\ page'.selected = page.selected
           \/ token' = token + 1,
           /\ k # None
              => /\ k \in [kind : Kinds, of : Projects, id : {k.id},
                           from : {k.from}, busy : BOOLEAN, token : Nat,
                           reply : {k.reply}]
                 /\ k.token <= token'
                 /\ k.token = token' /\ k.kind \in OwnReads
                    => k.of = page'.selected
                 /\ k.kind = "detail" => k.id \in Ids
                 /\ k.kind = "detail" /\ k.reply.state = "loaded"
                    => k.reply.rows[1] = [of |-> k.of, id |-> k.id]
    PROVE  CallsOK'
<1>1. ASSUME NEW d \in Slots, d # c, calls[d] # None
      PROVE  CallOK(calls[d])'
  <2>1. calls'[d] = calls[d]
    BY <1>1 DEF Good, CallsOK
  <2>2. CallOK(calls[d])
    BY <1>1 DEF Good, CallsOK
  <2> QED
    BY <2>1, <2>2, CallStaysOK DEF CallOK
<1>2. calls'[c] = k
  BY DEF Good, CallsOK
<1>3. calls'[c] # None => CallOK(calls[c])'
  BY <1>2 DEF CallOK
<1>4. \A d \in Slots : d # c => calls'[d] = calls[d]
  BY DEF Good, CallsOK
<1>5. calls' = [d \in Slots |-> calls'[d]]
  BY DEF Good, CallsOK
<1> QED
  BY <1>1, <1>3, <1>4, <1>5 DEF CallsOK

\* A call of the selected project is sent.
LEMMA SentOK ==
    ASSUME Good, NEW c \in Slots, NEW kind \in Kinds, NEW id,
           kind = "detail" => id \in Ids,
           page.selected # None,
           page'.selected = page.selected, token' = token,
           Send(c, Call(kind, page.selected, id))
    PROVE  CallsOK'
<1> DEFINE k == Call(kind, page.selected, id)
<1>1. /\ k = [kind |-> kind, of |-> page.selected, id |-> id,
              from |-> page.offset, busy |-> page.dataLoading,
              token |-> token, reply |-> Pending]
      /\ k.reply.state # "loaded"
  BY DEF Call, Pending
<1>2. page.selected \in Projects /\ page.dataLoading \in BOOLEAN /\ token \in Nat
  BY DEF Good, PageOK
<1>3. calls' = [calls EXCEPT ![c] = k]
  BY DEF Send
<1>4. /\ k \in [kind : Kinds, of : Projects, id : {k.id}, from : {k.from},
                busy : BOOLEAN, token : Nat, reply : {k.reply}]
      /\ k.token = token /\ k.of = page.selected
      /\ k.kind = "detail" => k.id \in Ids
  BY <1>1, <1>2
<1>5. /\ k.token <= token'
      /\ k.token = token' /\ k.kind \in OwnReads => k.of = page'.selected
      /\ k.kind = "detail" /\ k.reply.state = "loaded"
         => k.reply.rows[1] = [of |-> k.of, id |-> k.id]
  BY <1>1, <1>2, <1>4
<1> HIDE DEF k
<1> QED
  BY <1>3, <1>4, <1>5, OneCallOK

LEMMA ForgottenOK ==
    ASSUME Good, NEW c \in Slots, Forget(c), token' = token,
           page'.selected = page.selected
    PROVE  CallsOK'
BY OneCallOK DEF Forget

-------------------------------------------------------------------------------
(* What the user does. *)

LEMMA DismissalGood ==
    Good /\ (ClearProjectSelection \/ Escape \/ DismissLoading) => Good'
<1> SUFFICES ASSUME Good, ClearProjectSelection \/ Escape \/ DismissLoading
             PROVE  Good'
  OBVIOUS
<1> USE DEF ClearProjectSelection, Escape, DismissLoading
<1>1. token' = token + 1 /\ token' \in Nat /\ calls' = calls
  BY DEF Good
<1>2. CallsOK'
  BY <1>1, SameCallsOK
<1>3. PageOK' /\ DetailOfSelected'
  <2> USE DEF Good, PageOK, Tasks, DetailOfSelected
  <2>1. CASE ClearProjectSelection
    BY <2>1 DEF Blank
  <2>2. CASE Escape
    BY <2>2
  <2>3. CASE DismissLoading
    BY <2>3
  <2> QED
    BY <2>1, <2>2, <2>3
<1> QED
  BY <1>1, <1>2, <1>3 DEF Good

\* Steps of the user that send nothing and leave the token.
LEMMA LocalGood ==
    ASSUME Good,
           \/ \E dialog \in {"detail", "editForm", "createForm", "deleteTask"} :
                  Close(dialog)
           \/ OpenCreateTask
           \/ \E r \in Row, d \in {page.detail, None} : OpenDeleteTask(r, d)
    PROVE  Good'
<1>1. /\ token' = token /\ calls' = calls
      /\ PageOK' /\ Keeps
  <2>1. ASSUME NEW dialog \in {"detail", "editForm", "createForm", "deleteTask"},
               Close(dialog)
        PROVE  <1>1!:
    <3>1. token' = token /\ calls' = calls
      BY <2>1 DEF Close
    <3>2. page' = [page EXCEPT ![dialog] = None]
      BY <2>1 DEF Close
    <3>3. CASE dialog = "detail"
      BY <3>1, <3>2, <3>3 DEF Good, PageOK, Keeps, Tasks
    <3>4. CASE dialog = "editForm"
      BY <3>1, <3>2, <3>4 DEF Good, PageOK, Keeps, Tasks
    <3>5. CASE dialog = "createForm"
      BY <3>1, <3>2, <3>5 DEF Good, PageOK, Keeps, Tasks
    <3>6. CASE dialog = "deleteTask"
      BY <3>1, <3>2, <3>6 DEF Good, PageOK, Keeps, Tasks
    <3> QED
      BY <3>3, <3>4, <3>5, <3>6
  <2>2. CASE OpenCreateTask
    BY <2>2 DEF OpenCreateTask, Good, PageOK, Keeps, Tasks
  <2>3. ASSUME NEW r \in Row, NEW d \in {page.detail, None},
               OpenDeleteTask(r, d)
        PROVE  <1>1!:
    BY <2>3 DEF OpenDeleteTask, Good, PageOK, Keeps, Tasks
  <2> QED
    BY <2>1, <2>2, <2>3
<1>2. CallsOK'
  BY <1>1, SameCallsOK DEF Keeps
<1> QED
  BY <1>1, <1>2, KeepsDetail DEF Good

LEMMA SelectGood ==
    ASSUME Good, NEW c \in Slots, NEW p \in Projects, SelectProject(c, p)
    PROVE  Good'
<1> DEFINE k == [kind |-> "project", of |-> p, id |-> 0, from |-> page.offset,
                 busy |-> page.dataLoading, token |-> token + 1,
                 reply |-> Pending]
<1>0. [Call("project", p, 0) EXCEPT !.token = token + 1] = k
  BY DEF Call
<1>1. /\ token' = token + 1 /\ token' \in Nat
      /\ page' = Blank(p)
      /\ calls' = [calls EXCEPT ![c] = k]
  <2>1. token' = token + 1 /\ token' \in Nat /\ page' = Blank(p)
    BY DEF Good, SelectProject
  <2>2. Send(c, [Call("project", p, 0) EXCEPT !.token = token + 1])
    BY DEF SelectProject
  <2>3. Send(c, k)
    BY <1>0, <2>2
  <2> QED
    BY <2>1, <2>3 DEF Send
<1>2. PageOK'
  BY <1>1 DEF PageOK, Blank, Tasks
<1>3. DetailOfSelected'
  BY <1>1 DEF DetailOfSelected, Blank
<1>4. /\ k \in [kind : Kinds, of : Projects, id : {k.id}, from : {k.from},
                busy : BOOLEAN, token : Nat, reply : {k.reply}]
      /\ k.token <= token' /\ k.of = page'.selected /\ k.kind # "detail"
  BY <1>1 DEF Good, PageOK, Kinds, OwnReads, Blank
<1> HIDE DEF k
<1>5. CallsOK'
  BY <1>1, <1>4, OneCallOK
<1> QED
  BY <1>1, <1>2, <1>3, <1>5 DEF Good

\* Fetches that are sent for the selected project.
LEMMA SendGood ==
    ASSUME Good, NEW c \in Slots,
           \/ Refresh(c) \/ LoadMoreWorkItems(c)
           \/ \E r \in Row : OpenWorkItem(c, r)
           \/ \E r \in Row, d \in {page.detail, None} : OpenEditTask(c, r, d)
           \/ SubmitEdit(c) \/ SubmitCreate(c) \/ ConfirmDeleteTask(c)
    PROVE  Good'
<1>1. /\ token' = token
      /\ PageOK' /\ Keeps
      /\ page.selected # None
      /\ \E kind \in Kinds : \E id :
             /\ kind = "detail" => id \in Ids
             /\ Send(c, Call(kind, page.selected, id))
  <2> USE DEF Good, PageOK, Keeps, Tasks, Kinds, OwnReads, Writes
  <2>1. CASE Refresh(c)
    <3>1. Send(c, Call("rows", page.selected, 0)) /\ page.selected # None
      BY <2>1 DEF Refresh
    <3>2. token' = token /\ PageOK' /\ Keeps
      BY <2>1 DEF Refresh
    <3> QED
      BY <3>1, <3>2
  <2>2. CASE LoadMoreWorkItems(c)
    <3>1. Send(c, Call("more", page.selected, 0)) /\ page.selected # None
      BY <2>2 DEF LoadMoreWorkItems
    <3>2. token' = token /\ PageOK' /\ Keeps
      BY <2>2 DEF LoadMoreWorkItems
    <3> QED
      BY <3>1, <3>2
  <2>3. CASE SubmitCreate(c)
    <3>1. Send(c, Call("create", page.selected, 0)) /\ page.selected # None
      BY <2>3 DEF SubmitCreate
    <3>2. token' = token /\ PageOK' /\ Keeps
      BY <2>3 DEF SubmitCreate
    <3> QED
      BY <3>1, <3>2
  <2>4. CASE SubmitEdit(c)
    <3>1. Send(c, Call("save", page.selected, page.editForm.id)) /\ page.selected # None
      BY <2>4 DEF SubmitEdit
    <3>2. token' = token /\ PageOK' /\ Keeps
      BY <2>4 DEF SubmitEdit
    <3> QED
      BY <3>1, <3>2
  <2>5. CASE ConfirmDeleteTask(c)
    <3>1. Send(c, Call("delete", page.selected, page.deleteTask.id)) /\ page.selected # None
      BY <2>5 DEF ConfirmDeleteTask
    <3>2. token' = token /\ PageOK' /\ Keeps
      BY <2>5 DEF ConfirmDeleteTask
    <3> QED
      BY <3>1, <3>2
  <2>6. ASSUME NEW r \in Row, OpenWorkItem(c, r)
        PROVE  <1>1!:
    <3>1. Send(c, Call("detail", page.selected, r.id)) /\ page.selected # None
      BY <2>6 DEF OpenWorkItem
    <3>2. token' = token /\ PageOK' /\ Keeps
      BY <2>6 DEF OpenWorkItem
    <3>3. r.id \in Ids
      BY DEF Row
    <3> QED
      BY <3>1, <3>2, <3>3
  <2>7. ASSUME NEW r \in Row, NEW d \in {page.detail, None},
               OpenEditTask(c, r, d)
        PROVE  <1>1!:
    <3>1. Send(c, Call("edit", page.selected, r.id)) /\ page.selected # None
      BY <2>7 DEF OpenEditTask
    <3>2. token' = token /\ PageOK' /\ Keeps
      BY <2>7 DEF OpenEditTask
    <3> QED
      BY <3>1, <3>2
  <2> QED
    BY <2>1, <2>2, <2>3, <2>4, <2>5, <2>6, <2>7
<1>2. CallsOK'
  BY <1>1, SentOK DEF Keeps
<1> QED
  BY <1>1, <1>2, KeepsDetail DEF Good

-------------------------------------------------------------------------------
(* The API and TFS. *)

LEMMA AnsweredGood ==
    ASSUME Good, NEW c \in Slots, NEW r, calls[c] # None, Reply(c, r),
           calls[c].kind = "detail" /\ r.state = "loaded"
               => r.rows[1] = [of |-> calls[c].of, id |-> calls[c].id],
           page' = page, token' = token
    PROVE  Good'
<1> DEFINE k == [calls[c] EXCEPT !.reply = r]
<1>1. CallOK(calls[c])
  BY DEF Good, CallsOK
<1>2. calls' = [calls EXCEPT ![c] = k]
  BY DEF Reply
<1>3. /\ k = [kind |-> calls[c].kind, of |-> calls[c].of, id |-> calls[c].id,
              from |-> calls[c].from, busy |-> calls[c].busy,
              token |-> calls[c].token, reply |-> r]
      /\ calls[c].kind \in Kinds /\ calls[c].of \in Projects
      /\ calls[c].busy \in BOOLEAN /\ calls[c].token \in Nat
  BY <1>1 DEF CallOK
<1>4. /\ k \in [kind : Kinds, of : Projects, id : {k.id}, from : {k.from},
                busy : BOOLEAN, token : Nat, reply : {k.reply}]
      /\ k.kind = calls[c].kind /\ k.of = calls[c].of /\ k.id = calls[c].id
      /\ k.token = calls[c].token /\ k.reply = r
  BY <1>3
<1> HIDE DEF k
<1>5. /\ k.token <= token'
      /\ k.token = token' /\ k.kind \in OwnReads => k.of = page'.selected
      /\ k.kind = "detail" => k.id \in Ids
      /\ k.kind = "detail" /\ k.reply.state = "loaded"
         => k.reply.rows[1] = [of |-> k.of, id |-> k.id]
  BY <1>1, <1>4 DEF CallOK
<1>6. CallsOK'
  BY <1>2, <1>4, <1>5, OneCallOK
<1> QED
  BY <1>6 DEF Good, PageOK, DetailOfSelected

LEMMA ServeGood ==
    ASSUME Good, NEW c \in Slots, Serve(c)
    PROVE  Good'
<1>1. CASE ServeRead(c)
  <2>1. calls[c] # None /\ page' = page /\ token' = token
    BY <1>1 DEF ServeRead, Asked
  <2>2. PICK r : /\ Reply(c, r)
                 /\ calls[c].kind = "detail"
                    => r = Loaded(<<[of |-> calls[c].of, id |-> calls[c].id]>>, 0)
    BY <1>1 DEF ServeRead
  <2>3. calls[c].kind = "detail"
        => r.rows[1] = [of |-> calls[c].of, id |-> calls[c].id]
    BY <2>2 DEF Loaded
  <2> QED
    BY <2>1, <2>2, <2>3, AnsweredGood
<1>2. CASE ServeWrite(c)
  <2>1. /\ calls[c] # None /\ page' = page /\ token' = token
        /\ calls[c].kind # "detail"
        /\ \E r : Reply(c, r)
    BY <1>2 DEF ServeWrite, Asked
  <2> QED
    BY <2>1, AnsweredGood
<1>3. CASE FailCall(c)
  <2>1. /\ calls[c] # None /\ page' = page /\ token' = token
        /\ Reply(c, Failed) /\ Failed.state # "loaded"
    BY <1>3 DEF FailCall, Failed
  <2> QED
    BY <2>1, AnsweredGood
<1> QED
  BY <1>1, <1>2, <1>3 DEF Serve

-------------------------------------------------------------------------------
(* The continuations. *)

\* Answers that change neither selection nor detail.
LEMMA PlainGood ==
    ASSUME Good, NEW c \in Slots,
           \/ RowsLoaded(c) \/ MoreRowsLoaded(c) \/ LoadFailed(c)
           \/ DetailFailed(c) \/ EditLoaded(c) \/ EditFailed(c)
           \/ SaveFailed(c) \/ TaskRemoved(c) \/ RemoveFailed(c)
    PROVE  Good'
<1>1. token' = token /\ Forget(c)
  BY DEF RowsLoaded, MoreRowsLoaded, LoadFailed, DetailFailed, EditLoaded,
         EditFailed, SaveFailed, TaskRemoved, RemoveFailed
<1>2. PageOK' /\ Keeps
  <2> USE DEF Good, PageOK, Keeps, Tasks
  <2>1. CASE RowsLoaded(c)
    BY <2>1 DEF RowsLoaded
  <2>2. CASE MoreRowsLoaded(c)
    BY <2>2 DEF MoreRowsLoaded
  <2>3. CASE LoadFailed(c)
    BY <2>3 DEF LoadFailed
  <2>4. CASE DetailFailed(c)
    BY <2>4 DEF DetailFailed
  <2>5. CASE EditLoaded(c)
    BY <2>5 DEF EditLoaded
  <2>6. CASE EditFailed(c)
    BY <2>6 DEF EditFailed
  <2>7. CASE TaskRemoved(c)
    BY <2>7 DEF TaskRemoved
  <2>8. CASE RemoveFailed(c)
    BY <2>8 DEF RemoveFailed
  <2>9. CASE SaveFailed(c)
    <3>1. CASE page' = page
      BY <3>1
    <3>2. CASE page' = [page EXCEPT !["editForm"].saving = None]
      BY <3>2
    <3>3. CASE page' = [page EXCEPT !["createForm"].saving = None]
      BY <3>3
    <3> QED
      BY <2>9, <3>1, <3>2, <3>3 DEF SaveFailed
  <2> QED
    BY <2>1, <2>2, <2>3, <2>4, <2>5, <2>6, <2>7, <2>8, <2>9
<1>3. CallsOK'
  BY <1>1, <1>2, ForgottenOK DEF Keeps
<1> QED
  BY <1>1, <1>2, <1>3, KeepsDetail DEF Good

\* The project selected by an answer is the one that is selected.
LEMMA ProjectLoadedGood ==
    ASSUME Good, NEW c \in Slots, ProjectLoaded(c)
    PROVE  Good'
<1>1. CallOK(calls[c]) /\ calls[c].kind = "project" /\ token' = token
  BY DEF ProjectLoaded, Came, Good, CallsOK
<1>2. CASE Current(c)
  <2>1. calls[c].of = page.selected /\ page.selected # None
    BY <1>1, <1>2, TasksPageAssumption DEF Current, CallOK, OwnReads
  <2>2. /\ page' = [page EXCEPT !.selected = calls[c].of, !.dataLoading = TRUE]
        /\ Send(c, Call("firstRows", page.selected, 0))
    BY <1>2, <2>1 DEF ProjectLoaded
  <2>3. PageOK' /\ Keeps
    BY <2>1, <2>2 DEF Good, PageOK, Keeps, Tasks
  <2>4. CallsOK'
    BY <1>1, <2>1, <2>2, <2>3, SentOK DEF Keeps, Kinds, OwnReads
  <2> QED
    BY <1>1, <2>3, <2>4, KeepsDetail DEF Good
<1>3. CASE ~Current(c)
  <2>1. Forget(c) /\ page' = page
    BY <1>3 DEF ProjectLoaded
  <2>2. CallsOK'
    BY <1>1, <2>1, ForgottenOK
  <2> QED
    BY <1>1, <2>1, <2>2 DEF Good, PageOK, DetailOfSelected
<1> QED
  BY <1>2, <1>3

\* A detail is shown under the token it was asked with only.
LEMMA DetailLoadedGood ==
    ASSUME Good, NEW c \in Slots, DetailLoaded(c)
    PROVE  Good'
<1>1. /\ CallOK(calls[c]) /\ calls[c].kind = "detail"
      /\ calls[c].reply.state = "loaded"
      /\ token' = token /\ Forget(c)
  BY DEF DetailLoaded, Came, Good, CallsOK
<1>2. CASE Current(c)
  <2> DEFINE r == calls[c].reply.rows[1]
  <2>1. /\ r = [of |-> calls[c].of, id |-> calls[c].id]
        /\ calls[c].of \in Projects /\ calls[c].id \in Ids
        /\ calls[c].of = page.selected
    BY <1>1, <1>2 DEF Current, CallOK, OwnReads
  <2>2. r \in Row /\ r.of = page.selected
    BY <2>1 DEF Row
  <2>3. page' = [page EXCEPT !.detail = r, !.itemLoading = FALSE]
    BY <1>2 DEF DetailLoaded
  <2> HIDE DEF r
  <2>4. PageOK' /\ page'.selected = page.selected /\ page'.detail = r
    BY <2>2, <2>3 DEF Good, PageOK, Tasks
  <2>5. CallsOK'
    BY <1>1, <2>4, ForgottenOK
  <2> QED
    BY <1>1, <2>2, <2>4, <2>5 DEF Good, DetailOfSelected
<1>3. CASE ~Current(c)
  <2>1. page' = page
    BY <1>3 DEF DetailLoaded
  <2>2. CallsOK'
    BY <1>1, <2>1, ForgottenOK
  <2> QED
    BY <1>1, <2>1, <2>2 DEF Good, PageOK, DetailOfSelected
<1> QED
  BY <1>2, <1>3

\* The reload after a save may be of another project, but is no detail.
LEMMA SavedGood ==
    ASSUME Good, NEW c \in Slots, Saved(c)
    PROVE  Good'
<1>1. /\ CallOK(calls[c]) /\ token' = token /\ token \in Nat
  BY DEF Saved, Came, Good, CallsOK
<1>2. PageOK' /\ Keeps
  <2> USE DEF Good, PageOK, Keeps, Tasks
  <2>1. CASE page' = [page EXCEPT !["editForm"] = None]
    BY <2>1
  <2>2. CASE page' = [page EXCEPT !["createForm"] = None]
    BY <2>2
  <2>3. CASE page' = [page EXCEPT !["editForm"] = None, !.dataLoading = TRUE]
    BY <2>3
  <2>4. CASE page' = [page EXCEPT !["createForm"] = None, !.dataLoading = TRUE]
    BY <2>4
  <2> QED
    BY <2>1, <2>2, <2>3, <2>4 DEF Saved
<1>3. CASE Forget(c)
  <2>1. CallsOK'
    BY <1>1, <1>2, <1>3, ForgottenOK DEF Keeps
  <2> QED
    BY <1>1, <1>2, <2>1, KeepsDetail DEF Good
<1>4. CASE Send(c, Call("rows", calls[c].of, 0))
  <2> DEFINE k == Call("rows", calls[c].of, 0)
  <2>1. k = [kind |-> "rows", of |-> calls[c].of, id |-> 0,
             from |-> page.offset, busy |-> page.dataLoading,
             token |-> token, reply |-> Pending]
    BY DEF Call
  <2>2. calls[c].of \in Projects /\ page.dataLoading \in BOOLEAN
    BY <1>1 DEF CallOK, Good, PageOK
  <2>3. /\ k \in [kind : Kinds, of : Projects, id : {k.id}, from : {k.from},
                  busy : BOOLEAN, token : Nat, reply : {k.reply}]
        /\ k.token <= token' /\ k.kind = "rows"
    BY <1>1, <2>1, <2>2 DEF Kinds
  <2>4. calls' = [calls EXCEPT ![c] = k]
    BY <1>4 DEF Send
  <2> HIDE DEF k
  <2>5. k.kind \notin OwnReads /\ k.kind # "detail"
    BY <2>3 DEF OwnReads
  <2>6. CallsOK'
    BY <1>1, <1>2, <2>3, <2>4, <2>5, OneCallOK DEF Keeps
  <2> QED
    BY <1>1, <1>2, <2>6, KeepsDetail DEF Good
<1> QED
  BY <1>3, <1>4 DEF Saved

-------------------------------------------------------------------------------

LEMMA NextGood == Good /\ [Next]_vars => Good'
<1> SUFFICES ASSUME Good, [Next]_vars PROVE Good'
  OBVIOUS
<1>1. CASE UNCHANGED vars
  BY <1>1 DEF vars, Good, PageOK, CallsOK, CallOK, DetailOfSelected
<1>2. CASE User
  BY <1>2, DismissalGood, LocalGood, SelectGood, SendGood DEF User
<1>3. ASSUME NEW c \in Slots, Serve(c) PROVE Good'
  BY <1>3, ServeGood
<1>4. ASSUME NEW c \in Slots, Continue(c) PROVE Good'
  BY <1>4, PlainGood, ProjectLoadedGood, DetailLoadedGood, SavedGood
     DEF Continue
<1> QED
  BY <1>1, <1>2, <1>3, <1>4 DEF Next

\* The page, its calls and the detail are in order in every behaviour, of any
\* session.
THEOREM Invariance == Spec => []Good
BY InitGood, NextGood, PTL DEF Spec

\* The detail dialog shows an item of the selected project, whatever was
\* selected, dismissed or saved while it was being fetched.
THEOREM DetailIsOfSelected == Spec => []DetailOfSelected
<1>1. Good => DetailOfSelected
  BY DEF Good
<1> QED
  BY <1>1, Invariance, PTL

-------------------------------------------------------------------------------
(* A session that only reads. *)

RowsOf(rs, p) == rs \in Seq(Row) /\ \A i \in DOMAIN rs : rs[i].of = p

\* A call of such a session: reloads, too, are of the selected project.
ReadOK(k) ==
    /\ k.kind \in OwnReads \cup {"rows"}
    /\ k.kind = "rows" /\ k.token = token => k.of = page.selected
    /\ k.from \in Nat
    /\ k.kind \in Lists /\ k.reply.state = "loaded" => RowsOf(k.reply.rows, k.of)

ReadsOK == \A c \in Slots : calls[c] # None => ReadOK(calls[c])

NoWrites ==
    /\ page.editForm = None
    /\ page.createForm = None
    /\ page.deleteTask = None

ListOK == page.offset \in Nat /\ RowsOf(page.rows, page.selected)

Reader ==
    /\ Good
    /\ board \in [Projects -> Seq(Ids)]
    /\ NoWrites
    /\ ListOK
    /\ ReadsOK

LEMMA NoneIsRowsOf == ASSUME NEW p PROVE RowsOf(<<>>, p)
BY DEF RowsOf

LEMMA InitReader == Init => Reader
<1> SUFFICES ASSUME Init PROVE Reader
  OBVIOUS
<1>1. ListOK
  BY NoneIsRowsOf DEF Init, Blank, ListOK
<1> QED
  BY <1>1, InitGood, TasksPageAssumption
     DEF Init, Blank, Reader, NoWrites, ReadsOK

\* The page of the API is of the project asked for.
LEMMA PageAfterOK ==
    ASSUME NEW p \in Projects, NEW n \in Nat, board \in [Projects -> Seq(Ids)]
    PROVE  RowsOf(PageAfter(p, n), p)
<1> DEFINE b == board[p]
           end == IF n + PageSize < Len(b) THEN n + PageSize ELSE Len(b)
<1>1. b \in Seq(Ids) /\ Len(b) \in Nat /\ PageSize \in Nat
  BY TasksPageAssumption
<1>2. end \in Nat /\ end <= Len(b)
  BY <1>1
<1>3. PageAfter(p, n) = [k \in 1..(end - n) |-> [of |-> p, id |-> b[n + k]]]
  BY DEF PageAfter
<1> HIDE DEF b, end
<1> DEFINE rs == [k \in 1..(end - n) |-> [of |-> p, id |-> b[n + k]]]
<1>4. ASSUME NEW k \in 1..(end - n)
      PROVE  rs[k] \in Row /\ rs[k].of = p
  <2>1. n + k \in 1..Len(b)
    BY <1>1, <1>2
  <2>2. b[n + k] \in Ids
    BY <1>1, <2>1
  <2> QED
    BY <2>2 DEF Row
<1>5. DOMAIN rs = 1..(end - n)
  OBVIOUS
<1>6. rs \in Seq(Row)
  <2>1. rs \in [1..(end - n) -> Row]
    BY <1>4
  <2> HIDE DEF rs
  <2>2. PICK m \in Nat : 1..(end - n) = 1..m
    <3>1. CASE end - n \in Nat
      BY <3>1
    <3>2. CASE end - n \notin Nat
      <4>1. 1..(end - n) = 1..0
        BY <1>2, <3>2
      <4> QED
        BY <4>1
    <3> QED
      BY <3>1, <3>2
  <2>3. rs \in [1..m -> Row]
    BY <2>1, <2>2
  <2>4. rs \in UNION {[1..j -> Row] : j \in Nat}
    BY <2>3, Zenon
  <2> QED
    BY <2>4, SeqDef, Zenon
<1> HIDE DEF rs
<1>7. RowsOf(rs, p)
  BY <1>4, <1>5, <1>6 DEF RowsOf
<1> QED
  BY <1>3, <1>7 DEF rs

\* "Load more" appends rows of one project to rows of the same.
LEMMA AppendedRows ==
    ASSUME NEW p, NEW rs, NEW more, RowsOf(rs, p), RowsOf(more, p)
    PROVE  RowsOf(rs \o more, p)
<1>1. rs \in Seq(Row) /\ more \in Seq(Row) /\ rs \o more \in Seq(Row)
  BY DEF RowsOf
<1>2. ASSUME NEW i \in DOMAIN (rs \o more) PROVE (rs \o more)[i].of = p
  <2>1. i \in 1..(Len(rs) + Len(more)) /\ Len(rs) \in Nat /\ Len(more) \in Nat
    BY <1>1, <1>2
  <2>2. CASE i <= Len(rs)
    <3>1. i \in DOMAIN rs /\ (rs \o more)[i] = rs[i]
      BY <1>1, <2>1, <2>2
    <3> QED
      BY <3>1 DEF RowsOf
  <2>3. CASE i > Len(rs)
    <3>1. i - Len(rs) \in DOMAIN more /\ (rs \o more)[i] = more[i - Len(rs)]
      BY <1>1, <2>1, <2>3
    <3> QED
      BY <3>1 DEF RowsOf
  <2> QED
    BY <2>1, <2>2, <2>3
<1> QED
  BY <1>1, <1>2 DEF RowsOf

LEMMA OneReadOK ==
    ASSUME Reader, NEW c \in Slots, NEW k,
           calls' = [calls EXCEPT ![c] = k],
           \/ token' = token /\ page'.selected = page.selected
           \/ token' = token + 1,
           /\ k # None
              => /\ k.kind \in OwnReads \cup {"rows"}
                 /\ k.kind = "rows" /\ k.token = token'
                    => k.of = page'.selected
                 /\ k.from \in Nat
                 /\ k.kind \in Lists /\ k.reply.state = "loaded"
                    => RowsOf(k.reply.rows, k.of)
    PROVE  ReadsOK'
<1>1. ASSUME NEW d \in Slots, d # c, calls[d] # None
      PROVE  ReadOK(calls[d])'
  <2>1. calls'[d] = calls[d]
    BY <1>1 DEF Reader, Good, CallsOK
  <2>2. ReadOK(calls[d]) /\ CallOK(calls[d])
    BY <1>1 DEF Reader, Good, CallsOK, ReadsOK
  <2>3. calls[d].kind = "rows" /\ calls[d].token = token'
        => calls[d].of = page'.selected
    BY <2>2 DEF ReadOK, CallOK, Reader, Good
  <2> QED
    BY <2>1, <2>2, <2>3 DEF ReadOK
<1>2. calls'[c] = k
  BY DEF Reader, Good, CallsOK
<1>3. calls'[c] # None => ReadOK(calls[c])'
  BY <1>2 DEF ReadOK
<1>4. \A d \in Slots : d # c => calls'[d] = calls[d]
  BY DEF Reader, Good, CallsOK
<1> QED
  BY <1>1, <1>3, <1>4 DEF ReadsOK

LEMMA SameReadsOK ==
    ASSUME Reader, calls' = calls,
           \/ token' = token /\ page'.selected = page.selected
           \/ token' = token + 1
    PROVE  ReadsOK'
<1>1. ASSUME NEW c \in Slots, calls[c] # None PROVE ReadOK(calls[c])'
  <2>1. ReadOK(calls[c]) /\ CallOK(calls[c])
    BY <1>1 DEF Reader, Good, CallsOK, ReadsOK
  <2>2. calls[c].kind = "rows" /\ calls[c].token = token'
        => calls[c].of = page'.selected
    BY <2>1 DEF ReadOK, CallOK, Reader, Good
  <2> QED
    BY <2>1, <2>2 DEF ReadOK
<1> QED
  BY <1>1 DEF ReadsOK

LEMMA ForgottenRead ==
    ASSUME Reader, NEW c \in Slots, Forget(c), token' = token,
           page'.selected = page.selected
    PROVE  ReadsOK'
BY OneReadOK DEF Forget

\* What the user of such a session does.
LEMMA UserReads ==
    ASSUME ~CanAdd, ~CanEdit, Reader, User
    PROVE  board' = board /\ NoWrites' /\ ListOK' /\ ReadsOK'
<1> USE DEF Reader, Good, PageOK, NoWrites, ListOK
<1>1. CASE ClearProjectSelection
  <2>1. /\ board' = board /\ calls' = calls /\ token' = token + 1
        /\ page' = Blank(None)
    BY <1>1 DEF ClearProjectSelection
  <2>2. NoWrites' /\ ListOK'
    BY <2>1, NoneIsRowsOf DEF Blank
  <2> QED
    BY <2>1, <2>2, SameReadsOK
<1>2. CASE Escape
  <2>1. board' = board /\ calls' = calls /\ token' = token + 1
    BY <1>2 DEF Escape
  <2>2. NoWrites' /\ ListOK'
    BY <1>2 DEF Escape
  <2> QED
    BY <2>1, <2>2, SameReadsOK
<1>3. CASE DismissLoading
  <2>1. board' = board /\ calls' = calls /\ token' = token + 1
    BY <1>3 DEF DismissLoading
  <2>2. NoWrites' /\ ListOK'
    BY <1>3 DEF DismissLoading
  <2> QED
    BY <2>1, <2>2, SameReadsOK
<1>4. ASSUME NEW dialog \in {"detail", "editForm", "createForm", "deleteTask"},
             Close(dialog)
      PROVE  board' = board /\ NoWrites' /\ ListOK' /\ ReadsOK'
  <2>1. dialog = "detail"
    BY <1>4 DEF Close
  <2>2. /\ board' = board /\ calls' = calls /\ token' = token
        /\ page' = [page EXCEPT !["detail"] = None]
    BY <1>4, <2>1 DEF Close
  <2>3. NoWrites' /\ ListOK' /\ page'.selected = page.selected
    BY <2>2
  <2> QED
    BY <2>2, <2>3, SameReadsOK
<1>5. ~OpenCreateTask /\ \A r, d : ~OpenDeleteTask(r, d)
  BY DEF OpenCreateTask, OpenDeleteTask
<1>6. \A c : /\ ~SubmitEdit(c) /\ ~SubmitCreate(c) /\ ~ConfirmDeleteTask(c)
             /\ \A r, d : ~OpenEditTask(c, r, d)
  BY DEF SubmitEdit, SubmitCreate, ConfirmDeleteTask, OpenEditTask
<1>7. ASSUME NEW c \in Slots, NEW p \in Projects, SelectProject(c, p)
      PROVE  board' = board /\ NoWrites' /\ ListOK' /\ ReadsOK'
  <2> DEFINE k == [Call("project", p, 0) EXCEPT !.token = token + 1]
  <2>1. /\ board' = board /\ token' = token + 1 /\ page' = Blank(p)
        /\ calls' = [calls EXCEPT ![c] = k]
    BY <1>7 DEF SelectProject, Send
  <2>2. k.kind = "project" /\ k.from = page.offset
    BY DEF Call
  <2> HIDE DEF k
  <2>3. NoWrites' /\ ListOK'
    BY <2>1, NoneIsRowsOf DEF Blank
  <2>4. ReadsOK'
    BY <2>1, <2>2, OneReadOK DEF OwnReads, Lists
  <2> QED
    BY <2>1, <2>3, <2>4
<1>8. ASSUME NEW c \in Slots, NEW kind \in {"rows", "more", "detail"}, NEW id,
             Send(c, Call(kind, page.selected, id)),
             board' = board /\ token' = token,
             \/ page' = [page EXCEPT !.dataLoading = TRUE]
             \/ page' = [page EXCEPT !.itemLoading = TRUE, !.detail = None]
      PROVE  board' = board /\ NoWrites' /\ ListOK' /\ ReadsOK'
  <2> DEFINE k == Call(kind, page.selected, id)
  <2>1. calls' = [calls EXCEPT ![c] = k]
    BY <1>8 DEF Send
  <2>2. /\ k.kind = kind /\ k.of = page.selected /\ k.from = page.offset
        /\ k.reply.state # "loaded"
    BY DEF Call, Pending
  <2> HIDE DEF k
  <2>3. NoWrites' /\ ListOK' /\ page'.selected = page.selected
    BY <1>8
  <2>4. ReadsOK'
    BY <1>8, <2>1, <2>2, <2>3, OneReadOK DEF OwnReads
  <2> QED
    BY <1>8, <2>3, <2>4
<1>9. ASSUME NEW c \in Slots, Refresh(c)
      PROVE  board' = board /\ NoWrites' /\ ListOK' /\ ReadsOK'
  BY <1>8, <1>9 DEF Refresh
<1>10. ASSUME NEW c \in Slots, LoadMoreWorkItems(c)
       PROVE  board' = board /\ NoWrites' /\ ListOK' /\ ReadsOK'
  BY <1>8, <1>10 DEF LoadMoreWorkItems
<1>11. ASSUME NEW c \in Slots, NEW r \in Row, OpenWorkItem(c, r)
       PROVE  board' = board /\ NoWrites' /\ ListOK' /\ ReadsOK'
  BY <1>8, <1>11 DEF OpenWorkItem
<1> HIDE DEF Reader, Good, PageOK, NoWrites, ListOK
<1> QED
  BY <1>1, <1>2, <1>3, <1>4, <1>5, <1>6, <1>7, <1>9, <1>10, <1>11 DEF User

\* What the API answers it.
LEMMA ServeReads ==
    ASSUME Reader, NEW c \in Slots, Serve(c)
    PROVE  board' = board /\ NoWrites' /\ ListOK' /\ ReadsOK'
<1>1. calls[c] # None /\ ReadOK(calls[c]) /\ CallOK(calls[c])
  BY DEF Serve, ServeRead, ServeWrite, FailCall, Asked, Reader, ReadsOK,
         Good, CallsOK
<1>2. ~ServeWrite(c)
  BY <1>1 DEF ServeWrite, Asked, ReadOK, OwnReads
<1>3. board' = board /\ page' = page /\ token' = token
  BY <1>2 DEF Serve, ServeRead, FailCall
<1>4. PICK r : /\ Reply(c, r)
               /\ calls[c].kind \in Lists /\ r.state = "loaded"
                  => RowsOf(r.rows, calls[c].of)
  <2>1. CASE FailCall(c)
    <3>1. Reply(c, Failed) /\ Failed.state # "loaded"
      BY <2>1 DEF FailCall, Failed
    <3> QED
      BY <3>1
  <2>2. CASE ServeRead(c) /\ calls[c].kind \in {"firstRows", "rows"}
    <3>1. Reply(c, Loaded(PageAfter(calls[c].of, 0), Len(board[calls[c].of])))
      BY <2>2 DEF ServeRead
    <3>2. RowsOf(PageAfter(calls[c].of, 0), calls[c].of)
      BY <1>1, PageAfterOK DEF CallOK, Reader
    <3>3. Loaded(PageAfter(calls[c].of, 0), Len(board[calls[c].of])).rows
            = PageAfter(calls[c].of, 0)
      BY DEF Loaded
    <3> QED
      BY <3>1, <3>2, <3>3
  <2>3. CASE ServeRead(c) /\ calls[c].kind = "more"
    <3> DEFINE n == calls[c].from
    <3>1. Reply(c, Loaded(PageAfter(calls[c].of, n), Len(board[calls[c].of])))
      BY <2>3 DEF ServeRead
    <3>2. RowsOf(PageAfter(calls[c].of, n), calls[c].of)
      BY <1>1, PageAfterOK DEF CallOK, ReadOK, Reader
    <3>3. Loaded(PageAfter(calls[c].of, n), Len(board[calls[c].of])).rows
            = PageAfter(calls[c].of, n)
      BY DEF Loaded
    <3> QED
      BY <3>1, <3>2, <3>3
  <2>4. CASE ServeRead(c) /\ calls[c].kind \notin Lists
    BY <2>4 DEF ServeRead
  <2> QED
    BY <1>2, <2>1, <2>2, <2>3, <2>4 DEF Serve, Lists
<1> DEFINE k == [calls[c] EXCEPT !.reply = r]
<1>5. calls' = [calls EXCEPT ![c] = k]
  BY <1>4 DEF Reply
<1>6. /\ k.kind = calls[c].kind /\ k.of = calls[c].of
      /\ k.from = calls[c].from /\ k.token = calls[c].token
      /\ k.reply = r
  BY <1>1 DEF CallOK
<1> HIDE DEF k
<1>7. ReadsOK'
  BY <1>1, <1>3, <1>4, <1>5, <1>6, OneReadOK DEF ReadOK
<1> QED
  BY <1>3, <1>7 DEF Reader, NoWrites, ListOK

\* What it does with the answers.
LEMMA ContinueReads ==
    ASSUME Reader, NEW c \in Slots, Continue(c)
    PROVE  board' = board /\ NoWrites' /\ ListOK' /\ ReadsOK'
<1>1. calls[c] # None /\ ReadOK(calls[c]) /\ CallOK(calls[c])
  BY DEF Continue, ProjectLoaded, RowsLoaded, MoreRowsLoaded, LoadFailed,
         DetailLoaded, DetailFailed, EditLoaded, EditFailed, Saved,
         SaveFailed, TaskRemoved, RemoveFailed, Came, Reader, ReadsOK,
         Good, CallsOK
<1>2. /\ ~EditLoaded(c) /\ ~EditFailed(c) /\ ~Saved(c) /\ ~SaveFailed(c)
      /\ ~TaskRemoved(c) /\ ~RemoveFailed(c)
  BY <1>1 DEF EditLoaded, EditFailed, Saved, SaveFailed, TaskRemoved,
              RemoveFailed, Came, ReadOK, OwnReads
<1>3. board' = board /\ token' = token
  BY <1>2 DEF Continue, ProjectLoaded, RowsLoaded, MoreRowsLoaded,
              LoadFailed, DetailLoaded, DetailFailed
<1>4. ASSUME Forget(c), page'.selected = page.selected
      PROVE  ReadsOK'
  BY <1>3, <1>4, ForgottenRead
<1>5. ASSUME Forget(c), page' = page
      PROVE  NoWrites' /\ ListOK' /\ ReadsOK'
  BY <1>4, <1>5 DEF Reader, NoWrites, ListOK
<1>6. Current(c) => calls[c].of = page.selected
  BY <1>1 DEF Current, CallOK, ReadOK
<1> USE DEF Reader, Good, PageOK, NoWrites, ListOK
<1>7. CASE ProjectLoaded(c)
  <2>1. CASE Current(c)
    <3> DEFINE k == Call("firstRows", calls[c].of, 0)
    <3>1. /\ page' = [page EXCEPT !.selected = calls[c].of, !.dataLoading = TRUE]
          /\ calls' = [calls EXCEPT ![c] = k]
      BY <1>7, <2>1 DEF ProjectLoaded, Send
    <3>2. NoWrites' /\ ListOK' /\ page'.selected = page.selected
      BY <1>6, <2>1, <3>1
    <3>3. k.kind = "firstRows" /\ k.from = page.offset
          /\ k.reply.state # "loaded"
      BY DEF Call, Pending
    <3> HIDE DEF k
    <3>4. ReadsOK'
      BY <1>3, <3>1, <3>2, <3>3, OneReadOK DEF OwnReads
    <3> QED
      BY <1>3, <3>2, <3>4
  <2>2. CASE ~Current(c)
    BY <1>3, <1>5, <1>7, <2>2 DEF ProjectLoaded
  <2> QED
    BY <2>1, <2>2
<1>8. CASE RowsLoaded(c)
  <2>1. CASE Current(c)
    <3> DEFINE r == calls[c].reply
    <3>1. /\ page' = [page EXCEPT !.rows = r.rows, !.total = r.total,
                                  !.offset = Len(r.rows), !.dataLoading = FALSE]
          /\ Forget(c)
          /\ RowsOf(r.rows, page.selected)
      BY <1>1, <1>6, <1>8, <2>1 DEF RowsLoaded, Came, ReadOK, Lists
    <3>2. Len(r.rows) \in Nat
      BY <3>1 DEF RowsOf
    <3> HIDE DEF r
    <3>3. NoWrites' /\ ListOK' /\ page'.selected = page.selected
      BY <3>1, <3>2
    <3> QED
      BY <1>3, <1>4, <3>1, <3>3
  <2>2. CASE ~Current(c)
    BY <1>3, <1>5, <1>8, <2>2 DEF RowsLoaded
  <2> QED
    BY <2>1, <2>2
<1>9. CASE MoreRowsLoaded(c)
  <2>1. CASE Current(c)
    <3> DEFINE r == calls[c].reply
               all == page.rows \o r.rows
               next == page.offset + Len(r.rows)
    <3>1. /\ page' = [page EXCEPT !.rows = all, !.total = r.total,
                                  !.offset = next, !.dataLoading = FALSE]
          /\ Forget(c)
          /\ RowsOf(r.rows, page.selected)
      BY <1>1, <1>6, <1>9, <2>1 DEF MoreRowsLoaded, Came, ReadOK, Lists
    <3>2. next \in Nat
      <4>1. page.offset \in Nat
        OBVIOUS
      <4>2. Len(r.rows) \in Nat
        BY <3>1 DEF RowsOf
      <4> HIDE DEF r, Reader, ListOK
      <4> QED
        BY <4>1, <4>2
    <3>3. RowsOf(all, page.selected)
      BY <3>1, AppendedRows
    <3> HIDE DEF r, all, next
    <3>4. NoWrites' /\ ListOK' /\ page'.selected = page.selected
      BY <3>1, <3>2, <3>3
    <3> QED
      BY <1>3, <1>4, <3>1, <3>4
  <2>2. CASE ~Current(c)
    BY <1>3, <1>5, <1>9, <2>2 DEF MoreRowsLoaded
  <2> QED
    BY <2>1, <2>2
<1>10. CASE LoadFailed(c) \/ DetailLoaded(c) \/ DetailFailed(c)
  <2>1. Forget(c)
    BY <1>10 DEF LoadFailed, DetailLoaded, DetailFailed
  <2>2. NoWrites' /\ ListOK' /\ page'.selected = page.selected
    <3>1. CASE page' = page
      BY <3>1
    <3>2. CASE page' = [page EXCEPT !.dataLoading = FALSE]
      BY <3>2
    <3>3. CASE page' = [page EXCEPT !.detail = calls[c].reply.rows[1],
                                    !.itemLoading = FALSE]
      BY <3>3
    <3>4. CASE page' = [page EXCEPT !.itemLoading = FALSE]
      BY <3>4
    <3> QED
      BY <1>10, <3>1, <3>2, <3>3, <3>4
         DEF LoadFailed, DetailLoaded, DetailFailed
  <2> QED
    BY <1>3, <1>4, <2>1, <2>2
<1> HIDE DEF Reader, Good, PageOK, NoWrites, ListOK
<1> QED
  BY <1>2, <1>7, <1>8, <1>9, <1>10 DEF Continue

LEMMA NextReader ==
    ASSUME ~CanAdd, ~CanEdit
    PROVE  Reader /\ [Next]_vars => Reader'
<1> SUFFICES ASSUME Reader, [Next]_vars PROVE Reader'
  OBVIOUS
<1>1. Good'
  BY NextGood DEF Reader
<1>2. board' = board /\ NoWrites' /\ ListOK' /\ ReadsOK'
  <2>1. CASE UNCHANGED vars
    BY <2>1 DEF vars, Reader, NoWrites, ListOK, ReadsOK, ReadOK
  <2>2. CASE User
    BY <2>2, UserReads
  <2>3. ASSUME NEW c \in Slots, Serve(c) \/ Continue(c)
        PROVE  <1>2!:
    BY <2>3, ServeReads, ContinueReads
  <2> QED
    BY <2>1, <2>2, <2>3 DEF Next
<1> QED
  BY <1>1, <1>2 DEF Reader

\* In a session that only reads, the list shows work items of the selected
\* project, whatever lists of other projects arrive late.
THEOREM RowsAreOfSelected ==
    ASSUME ~CanAdd, ~CanEdit
    PROVE  Spec => []RowsOfSelected
<1>1. Init => Reader
  BY InitReader
<1>2. Reader /\ [Next]_vars => Reader'
  BY NextReader
<1>3. Reader => RowsOfSelected
  BY DEF Reader, ListOK, RowsOf, RowsOfSelected
<1> QED
  BY <1>1, <1>2, <1>3, PTL DEF Spec

===============================================================================
