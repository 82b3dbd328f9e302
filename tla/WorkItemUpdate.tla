---------------------------- MODULE WorkItemUpdate ----------------------------
(***************************************************************************)
(* Update and soft removal of one TFS work item through the target API:    *)
(* TfsProjectReader.UpdateWorkItemAsync and RemoveWorkItemAsync, driven by *)
(* the edit form and the delete dialog of TfsProjectsPage.                 *)
(*                                                                         *)
(* A request is one PUT or DELETE handler.  Its life is                    *)
(*                                                                         *)
(*   unused -> editing -> reading -> patching -> done | failed             *)
(*                                                                         *)
(* where "editing" is the form (or list row) opened on a version of the    *)
(* item, "reading" the handler's own GET of the item and of its type, and  *)
(* "patching" each conditional PATCH it awaits.  Between any two of these  *)
(* steps other requests and other TFS users change the item, a PATCH may   *)
(* be lost, applied after the handler has timed out, or applied with its   *)
(* answer lost.                                                            *)
(*                                                                         *)
(* TFS itself (item, Accept, Refuse, ForeignEdit) is external: it is       *)
(* modelled from what the code relies on, a revision that grows with every *)
(* accepted change and an If-Match header that is honoured.                *)
(***************************************************************************)
EXTENDS Naturals, Sequences, SequencesExt, StateGraph

CONSTANTS
    Nobody,         \* the author of a version no request of ours wrote
    Requests,       \* handlers of PUT and DELETE requests
    Fields,         \* the scalar fields of an item (title, tags, dates, ...)
    FieldValues,    \* their values
    States,         \* workflow states of the work item type
    Transitions,    \* its transitions, pairs of States
    Removed,        \* the state a soft removal asks for
    Items,          \* ids of other work items, targets of links
    Wants,          \* the request bodies users submit
    FirstVersions,  \* the versions the item may start from
    Contents,       \* the contents other TFS users may give the item
    MaxForeignRev,  \* bound: revision above which nobody else edits
    Keep,           \* "not supplied" in a request body (null)
    Unusable,       \* an entry the handler skips without a word: a blank
                    \* title, a priority outside 1..4, a negative effort, a
                    \* progress outside 0..100
    NoHours,        \* an item without completed or without remaining work
    NoParent,       \* no parent selected in a request body (null)
    NoItem          \* no work item read yet

Link == [rel : {"parent", "predecessor", "related"}, to : Items]

\* Completed and remaining work, in hundredths of an hour.
Hours == [completed : Nat, remaining : Nat]

Content == [fields : [Fields -> FieldValues], hours : Hours \cup {NoHours},
            state : States, links : Seq(Link)]

Item == [rev : Nat, fields : [Fields -> FieldValues], hours : Hours \cup {NoHours},
         state : States, links : Seq(Link)]

Want == [kind : {"update", "remove"},
         fields : [Fields -> FieldValues \cup {Keep, Unusable}],
         progress : (0..100) \cup {Keep, Unusable},
         parent : Items \cup {NoParent},
         preds : Seq(Items) \cup {Keep},
         state : States \cup {Keep}]

ASSUME ConstantsOK ==
    /\ Transitions \subseteq States \X States
    /\ Removed \in States
    /\ Wants \subseteq Want
    /\ Contents \subseteq Content
    /\ FirstVersions \subseteq Item
    /\ \A i \in FirstVersions :
          /\ i.rev > 0
          /\ \A j, k \in DOMAIN i.links :     \* TFS stores one parent at most
                i.links[j].rel = "parent" /\ i.links[k].rel = "parent" => j = k
    /\ IsFiniteSet(States)
    /\ MaxForeignRev \in Nat
    /\ Keep \notin FieldValues \cup States
    /\ Unusable \notin FieldValues
    /\ NoHours \notin Hours
    /\ NoParent \notin Items
    /\ NoItem \notin Item
    /\ Nobody \notin Requests

VARIABLES
    item,    \* TFS: the current version of the work item
    pc,      \* pc[q]: how far request q has come
    form,    \* form[q]: the version the user was shown
    want,    \* want[q]: the request body
    known,   \* known[q]: the version the handler read or was last answered
    path,    \* path[q]: the state path found for the request
    hop,     \* hop[q]: index in path[q] of the state the PATCH in flight sets
    net,     \* net[q]: the PATCH in flight or its answer
    wrote    \* history: wrote[q], the revisions q's PATCHes produced

vars == <<item, pc, form, want, known, path, hop, net, wrote>>

-------------------------------------------------------------------------------
(* The JSON-patch documents the handlers build. *)

IsRel(i, rel) == {k \in DOMAIN i.links : i.links[k].rel = rel}

\* RelationIndex: the first link of that kind, as a set of at most one index.
FirstRel(i, rel) == {k \in IsRel(i, rel) : \A j \in IsRel(i, rel) : k <= j}

\* Slip: an update that names no parent leaves the parent link alone.
RemovalsKeepParent(i, w) ==
    (IF w.parent = NoParent THEN {} ELSE FirstRel(i, "parent"))
      \cup (IF w.preds = Keep THEN {} ELSE IsRel(i, "predecessor"))

\* The links an update replaces: the parent always (a null parent clears it),
\* the predecessors when the body lists dependencies.
RelationRemovals(i, w) ==
    FirstRel(i, "parent")
      \cup (IF w.preds = Keep THEN {} ELSE IsRel(i, "predecessor"))

\* Slip: removals in the order they were found, lowest index first.
RemovalAscending(S) ==
    CHOOSE s \in [1..Cardinality(S) -> S] : \A j, k \in DOMAIN s : j < k => s[j] < s[k]

\* relationRemovals.Distinct().OrderDescending()
RemovalOrder(S) ==
    CHOOSE s \in [1..Cardinality(S) -> S] : \A j, k \in DOMAIN s : j < k => s[j] > s[k]

\* AddDependencyOperations and the parent link before it.
RelationAdds(w) ==
    (IF w.parent = NoParent THEN <<>>
     ELSE <<[rel |-> "parent", to |-> w.parent]>>)
      \o (IF w.preds = Keep THEN <<>>
          ELSE [k \in DOMAIN w.preds |-> [rel |-> "predecessor", to |-> w.preds[k]]])

SetState(s) == <<[op |-> "state", to |-> s]>>

\* The fields whose entry the handler writes: supplied and usable.
Supplied(w) == {f \in Fields : w.fields[f] \in FieldValues}

SetFields(w) ==
    IF Supplied(w) = {} THEN <<>>
    ELSE <<[op |-> "fields", to |-> [f \in Supplied(w) |-> w.fields[f]]]>>

\* Math.Round(total * percent / 100, 2): the nearest hundredth, ties to even.
Share(total, percent) ==
    LET n == total * percent
        down == n \div 100
    IN IF n % 100 > 50 \/ (n % 100 = 50 /\ down % 2 = 1) THEN down + 1 ELSE down

\* Slip: the progress moves the completed work only.
HoursDone(h, percent) ==
    [h EXCEPT !.completed = Share(h.completed + h.remaining, percent)]

\* The work there is, shared out anew between completed and remaining.
HoursAt(h, percent) ==
    LET total == h.completed + h.remaining
        completed == Share(total, percent)
    IN [completed |-> completed,
        remaining |-> IF completed < total THEN total - completed ELSE 0]

\* AddProgressOperations: progress is not stored, it becomes hours, and only
\* for an item that has both kinds of them and more than none.
SetHours(i, w) ==
    IF w.progress \in 0..100 /\ i.hours # NoHours
    THEN IF i.hours.completed + i.hours.remaining > 0
         THEN <<[op |-> "hours", to |-> HoursAt(i.hours, w.progress)]>>
         ELSE <<>>
    ELSE <<>>

\* The document of the first PATCH of an update: fields, first hop of the
\* state path, hours, removals by index into the links just read, additions.
UpdateDocument(i, w, p) ==
    SetFields(w)
      \o (IF Len(p) > 1 THEN SetState(p[2]) ELSE <<>>)
      \o SetHours(i, w)
      \o [k \in DOMAIN RemovalOrder(RelationRemovals(i, w)) |->
            [op |-> "unlink", at |-> RemovalOrder(RelationRemovals(i, w))[k]]]
      \o [k \in DOMAIN RelationAdds(w) |->
            [op |-> "link", link |-> RelationAdds(w)[k]]]

\* The document q has in flight, or would send next.
Document(q) ==
    IF want[q].kind = "remove" THEN SetState(Removed)
    ELSE IF hop[q] > 2 THEN SetState(path[q][hop[q]])
    ELSE UpdateDocument(known[q], want[q], path[q])

\* TFS applies the operations of a document one after the other.
ApplyOperation(i, o) ==
    CASE o.op = "fields" -> [i EXCEPT !.fields =
                               [f \in Fields |-> IF f \in DOMAIN o.to THEN o.to[f] ELSE @[f]]]
      [] o.op = "hours"  -> [i EXCEPT !.hours = o.to]
      [] o.op = "state"  -> [i EXCEPT !.state = o.to]
      [] o.op = "unlink" -> [i EXCEPT !.links =
                               IF o.at \in DOMAIN @ THEN RemoveAt(@, o.at) ELSE @]
      [] o.op = "link"   -> [i EXCEPT !.links = Append(@, o.link)]

\* What the item is before a document and after each of its operations.
Versions(i, doc) ==
    LET after[k \in 0..Len(doc)] ==
          IF k = 0 THEN i ELSE ApplyOperation(after[k - 1], doc[k])
    IN after

Patched(i, doc) ==
    LET p == Versions(i, doc)[Len(doc)]
    IN [rev |-> i.rev + 1, fields |-> p.fields, hours |-> p.hours,
        state |-> p.state, links |-> p.links]

-------------------------------------------------------------------------------
(* TFS. *)

NoMessage == [kind |-> "none"]
Patch(rev) == [kind |-> "patch", ifMatch |-> rev]
Answer(i) == [kind |-> "answer", item |-> i]
Refusal == [kind |-> "refusal"]

Message == {NoMessage, Refusal}
             \cup [kind : {"patch"}, ifMatch : Nat]
             \cup [kind : {"answer"}, item : Item]

NoHeader == 0       \* a PATCH without If-Match; revisions start at 1

InFlight(q) == net[q].kind = "patch"

\* The revision guard.
RevisionAccepted(q) == net[q].ifMatch \in {NoHeader, item.rev}

\* A version TFS stores: well formed, at most one parent, and a state that
\* the workflow lets the present one move to.
Storable(i) ==
    /\ i \in Item
    /\ \A j, k \in IsRel(i, "parent") : j = k
    /\ i.state = item.state \/ <<item.state, i.state>> \in Transitions

\* TFS applies the PATCH of q, whether or not its handler still waits.
Accept(q) ==
    /\ InFlight(q)
    /\ RevisionAccepted(q)
    /\ Storable(Patched(item, Document(q)))
    /\ item' = Patched(item, Document(q))
    /\ net' = [net EXCEPT ![q] = Answer(item')]
    /\ wrote' = [wrote EXCEPT ![q] = @ \cup {item'.rev}]
    /\ UNCHANGED <<pc, form, want, known, path, hop>>

\* TFS refuses it: stale revision, workflow rule, permission, outage.
Refuse(q) ==
    /\ InFlight(q)
    /\ net' = [net EXCEPT ![q] = Refusal]
    /\ UNCHANGED <<item, pc, form, want, known, path, hop, wrote>>

\* Another TFS user changes the item.
ForeignEdit ==
    /\ item.rev < MaxForeignRev
    /\ \E c \in Contents :
         LET i == [rev |-> item.rev + 1, fields |-> c.fields, hours |-> c.hours,
                   state |-> c.state, links |-> c.links]
         IN Storable(i) /\ item' = i
    /\ UNCHANGED <<pc, form, want, known, path, hop, net, wrote>>

-------------------------------------------------------------------------------
(* The browser. *)

\* openEditTask, or a row of the task grid: the form holds a version of the
\* item, its revision included.
OpenForm(q) ==
    /\ pc[q] = "unused"
    /\ form' = [form EXCEPT ![q] = item]
    /\ pc' = [pc EXCEPT ![q] = "editing"]
    /\ UNCHANGED <<item, want, known, path, hop, net, wrote>>

\* The save failed, the form is still open on the same version: the user
\* saves again, perhaps after changing the entries.
SaveAgain(q, p) ==
    /\ pc[q] = "unused"
    /\ pc[p] = "failed"
    /\ form' = [form EXCEPT ![q] = form[p]]
    /\ pc' = [pc EXCEPT ![q] = "editing"]
    /\ UNCHANGED <<item, want, known, path, hop, net, wrote>>

-------------------------------------------------------------------------------
(* The handlers. *)

\* The first TFS_WORK_ITEM_UPDATE_EMPTY check, made before TFS is called; a
\* state or a progress alone does not count.
NothingAsked(w) == Supplied(w) = {} /\ w.parent = NoParent /\ w.preds = Keep

\* Slip: no If-Match, as SendJsonPatchAsync does for a blank revision.
FirstWithoutHeader(q) == NoHeader

\* Slip: the revision the server has now instead of the client's.
FirstLatest(q) == item.rev

\* If-Match of the first PATCH: the revision the client sent.
FirstIfMatch(q) == form[q].rev

\* PUT: validated, then the handler awaits its GET of the item.
SubmitUpdate(q) ==
    /\ pc[q] = "editing"
    /\ \E w \in Wants :
         /\ w.kind = "update"
         /\ want' = [want EXCEPT ![q] = w]
         /\ pc' = [pc EXCEPT ![q] = IF NothingAsked(w) THEN "failed" ELSE "reading"]
    /\ UNCHANGED <<item, form, known, path, hop, net, wrote>>

\* DELETE: no read, one PATCH to Removed guarded by the client's revision.
SubmitRemove(q) ==
    /\ pc[q] = "editing"
    /\ \E w \in Wants :
         /\ w.kind = "remove"
         /\ want' = [want EXCEPT ![q] = w]
    /\ net' = [net EXCEPT ![q] = Patch(FirstIfMatch(q))]
    /\ pc' = [pc EXCEPT ![q] = "patching"]
    /\ UNCHANGED <<item, form, known, path, hop, wrote>>

\* The state paths FindStatePathAsync may return for the item just read.
StatePaths(i, w) ==
    IF w.state \in {Keep, i.state} THEN {<<>>}
    ELSE ShortestWalks(States, Transitions, i.state, w.state)

\* GET answered and a path found: build the document and send the first PATCH.
ReadAndPatch(q) ==
    /\ pc[q] = "reading"
    /\ \E p \in StatePaths(item, want[q]) :
         /\ UpdateDocument(item, want[q], p) # <<>>
         /\ path' = [path EXCEPT ![q] = p]
    /\ known' = [known EXCEPT ![q] = item]
    /\ hop' = [hop EXCEPT ![q] = 2]
    /\ net' = [net EXCEPT ![q] = Patch(FirstIfMatch(q))]
    /\ pc' = [pc EXCEPT ![q] = "patching"]
    /\ UNCHANGED <<item, form, want, wrote>>

\* No transition to the wanted state, or nothing left to change.
ReadAndReject(q) ==
    /\ pc[q] = "reading"
    /\ \/ StatePaths(item, want[q]) = {}
       \/ \E p \in StatePaths(item, want[q]) : UpdateDocument(item, want[q], p) = <<>>
    /\ pc' = [pc EXCEPT ![q] = "failed"]
    /\ UNCHANGED <<item, form, want, known, path, hop, net, wrote>>

\* Slip: no timeout on PATCH calls.
CallFailsOnRead(q) ==
    /\ pc[q] = "reading"
    /\ pc' = [pc EXCEPT ![q] = "failed"]
    /\ UNCHANGED <<item, form, want, known, path, hop, net, wrote>>

\* A call to TFS times out or loses its connection (TFS_PROJECTS_TIMEOUT,
\* TFS_PROJECTS_UNAVAILABLE).  A PATCH in flight stays in flight.
CallFails(q) ==
    /\ pc[q] \in {"reading", "patching"}
    /\ pc' = [pc EXCEPT ![q] = "failed"]
    /\ UNCHANGED <<item, form, want, known, path, hop, net, wrote>>

\* Slip: the loop over the state path runs once too often.
OneHopTooMany(q) == want[q].kind = "update" /\ hop[q] <= Len(path[q])

\* for (var index = 2; index < statePath.Length; index++), one-based here.
MoreHops(q) == want[q].kind = "update" /\ hop[q] < Len(path[q])

\* Slip: the later PATCHes of a state path are sent unconditionally.
NextWithoutHeader(q, answered) == NoHeader

\* If-Match of a later PATCH: the revision TFS just answered with.
NextIfMatch(q, answered) == answered.rev

\* TFS answered: send the next hop of the state path, or reply to the client.
ReceiveAnswer(q) ==
    /\ pc[q] = "patching"
    /\ net[q].kind = "answer"
    /\ known' = [known EXCEPT ![q] = net[q].item]
    /\ IF MoreHops(q)
         THEN /\ hop' = [hop EXCEPT ![q] = @ + 1]
              /\ net' = [net EXCEPT ![q] = Patch(NextIfMatch(q, net[q].item))]
              /\ UNCHANGED pc
         ELSE /\ pc' = [pc EXCEPT ![q] = "done"]
              /\ net' = [net EXCEPT ![q] = NoMessage]
              /\ UNCHANGED hop
    /\ UNCHANGED <<item, form, want, path, wrote>>

ReceiveRefusal(q) ==
    /\ pc[q] = "patching"
    /\ net[q].kind = "refusal"
    /\ pc' = [pc EXCEPT ![q] = "failed"]
    /\ UNCHANGED <<item, form, want, known, path, hop, net, wrote>>

-------------------------------------------------------------------------------

Init ==
    /\ item \in FirstVersions
    /\ pc = [q \in Requests |-> "unused"]
    /\ form = [q \in Requests |-> NoItem]
    /\ want = [q \in Requests |-> Keep]
    /\ known = [q \in Requests |-> NoItem]
    /\ path = [q \in Requests |-> <<>>]
    /\ hop = [q \in Requests |-> 2]
    /\ net = [q \in Requests |-> NoMessage]
    /\ wrote = [q \in Requests |-> {}]

Handler(q) ==
    \/ ReadAndPatch(q)
    \/ ReadAndReject(q)
    \/ CallFails(q)
    \/ ReceiveAnswer(q)
    \/ ReceiveRefusal(q)

Next ==
    \/ ForeignEdit
    \/ \E q \in Requests :
         \/ OpenForm(q)
         \/ \E p \in Requests : SaveAgain(q, p)
         \/ SubmitUpdate(q)
         \/ SubmitRemove(q)
         \/ Handler(q)
         \/ Accept(q)
         \/ Refuse(q)

Spec == Init /\ [][Next]_vars

\* Every awaited call of a handler completes or times out (HttpClient.Timeout),
\* so a handler that can move does.  Nothing is assumed of users or of TFS.
FairSpec == Spec /\ \A q \in Requests : WF_vars(Handler(q))

-------------------------------------------------------------------------------
(* What users see of an item, and the promise CheckedEdits makes about it. *)

LinksTo(i, rel) == {i.links[k].to : k \in IsRel(i, rel)}

\* The links of other kinds, each with its place among them.
Others(i) ==
    {<<Cardinality({j \in IsRel(i, "related") : j <= k}), i.links[k].to>> :
        k \in IsRel(i, "related")}

View(i) == [fields |-> i.fields, hours |-> i.hours, state |-> i.state,
            parents |-> LinksTo(i, "parent"),
            preds |-> LinksTo(i, "predecessor"),
            others |-> Others(i)]

Author(r) ==
    IF \E q \in Requests : r \in wrote[q]
    THEN CHOOSE q \in Requests : r \in wrote[q]
    ELSE Nobody

Promise == INSTANCE CheckedEdits WITH
    ForeignDocs <- {View(c) : c \in Contents},
    FirstDocs <- {View(i) : i \in FirstVersions},
    rev <- item.rev,
    doc <- View(item),
    base <- [q \in Requests |-> IF form[q] = NoItem THEN 0 ELSE form[q].rev],
    taken <- {q \in Requests : wrote[q] # {}},
    owner <- Author(item.rev)

-------------------------------------------------------------------------------
(* Properties. *)

\* The types of the variables; a hop never leaves the state path.
TypeOK ==
    /\ item \in Item
    /\ pc \in [Requests -> {"unused", "editing", "reading", "patching", "done", "failed"}]
    /\ form \in [Requests -> Item \cup {NoItem}]
    /\ want \in [Requests -> Wants \cup {Keep}]
    /\ known \in [Requests -> Item \cup {NoItem}]
    /\ path \in [Requests -> Seq(States)]
    /\ hop \in [Requests -> Nat]
    /\ \A q \in Requests : hop[q] = 2 \/ hop[q] \in 3..Len(path[q])
    /\ net \in [Requests -> Message]
    /\ wrote \in [Requests -> SUBSET Nat]

\* The version a PATCH in flight was computed from.
Basis(q) == IF want[q].kind = "remove" THEN form[q] ELSE known[q]

FirstPatch(q) == wrote[q] = {}

\* Whenever TFS would accept a PATCH of ours, the document was computed from
\* exactly the version it is applied to: link indices point where the handler
\* looked, and the state hop starts where the path says.
FreshDocument ==
    \A q \in Requests :
        InFlight(q) /\ RevisionAccepted(q) => Basis(q) = item

\* No lost update: the first PATCH of a request is accepted only on the very
\* version the user was shown, although the handler re-reads the item and the
\* form may have been open, or saved before, any number of versions ago.
NoBlindOverwrite ==
    \A q \in Requests :
        InFlight(q) /\ FirstPatch(q) /\ RevisionAccepted(q) => form[q] = item

\* The writes of one request are consecutive versions starting right after the
\* one the user saw: nobody's change is squeezed between two hops of a path.
UnbrokenChain ==
    \A q \in Requests :
        wrote[q] # {} =>
            wrote[q] = (form[q].rev + 1) .. (form[q].rev + Cardinality(wrote[q]))

\* Saving the same form again after an error never applies it twice, even when
\* the first PATCH is applied after its handler had given up on it.
SavedOnce ==
    \A p, q \in Requests :
        p # q /\ wrote[p] # {} /\ wrote[q] # {} => form[p].rev # form[q].rev

\* A successful PUT or DELETE reports the version the user was shown with the
\* request made of it and nothing else: every usable entry as it was entered,
\* every field without one as it was on the form, the work that was there shared
\* out by the progress asked for (where there is work to share out), the links
\* asked for and all others in their places, and the state at the end of its path.
AcknowledgedAsAsked ==
    \A q \in Requests :
        pc[q] = "done" =>
            View(known[q]) \in Promise!Made(View(form[q]), want[q],
                                  IF want[q].kind = "remove" THEN Removed
                                  ELSE IF want[q].state = Keep THEN form[q].state
                                  ELSE want[q].state)

\* The state the last PATCH of q accepted has set, told by the number of them.
StateWritten(q) ==
    IF want[q].kind = "remove" THEN {Removed}
    ELSE IF path[q] = <<>> THEN {form[q].state}
    ELSE {path[q][k] : k \in DOMAIN path[q] \cap {item.rev - form[q].rev + 1}}

\* Half-way is on the path.  As long as nobody else touches what a request wrote
\* last, the item is what the request asked for, in the state its path has
\* reached, wherever the request stopped: between two PATCHes, with the answer of
\* one lost, or with one applied after the handler had reported an error.
HalfwayIsOnPath ==
    \A q \in Requests :
        item.rev \in wrote[q] =>
            \E s \in StateWritten(q) :
                View(item) \in Promise!Made(View(form[q]), want[q], s)

\* A document TFS would accept by revision is one it can store: the removals by
\* index leave at most one parent and the state hop is a legal transition.  (A
\* soft removal asks for Removed from any state, so it is left to TFS.)
NeverMalformed ==
    \A q \in Requests :
        InFlight(q) /\ RevisionAccepted(q) /\ want[q].kind = "update"
            => Storable(Patched(item, Document(q)))

\* Every submitted request is answered.
EveryRequestAnswered ==
    \A q \in Requests :
        pc[q] \in {"reading", "patching"} ~> pc[q] \in {"done", "failed"}

\* Every step of the handlers, of TFS and of the browser is a step of
\* CheckedEdits or changes nothing it speaks of: an edit takes effect at most
\* once, on the version it was made from, and as one of the submitted bodies asks.
KeepsPromise == Promise!Spec
===============================================================================
