------------------------- MODULE WorkItemUpdateProofs -------------------------
(***************************************************************************)
(* Proofs about WorkItemUpdate, for any number of requests, any workflow   *)
(* and any request bodies, and, at the end, about StatePathSearch, the     *)
(* search whose result the handlers of WorkItemUpdate walk, for every      *)
(* finite set of states and every set of workflows over them.              *)
(*                                                                         *)
(* None of the properties is inductive by itself: that a document is fresh *)
(* when TFS would accept it depends on what every stored copy of the item  *)
(* is worth.  The strengthening IInv says it of revisions: a copy is of an *)
(* earlier revision, or it is the current version (Past).  OutcomeInv says *)
(* it of contents: a version in an answer, or under a PATCH in flight, is  *)
(* what the request body makes of the version on the form, as far as the   *)
(* state path has been walked.  UpdateOutcome, what one PATCH document     *)
(* makes of the version it was computed from, links the two.               *)
(***************************************************************************)
EXTENDS WorkItemUpdate, StatePathSearch, FiniteSetTheorems, SequenceTheorems,
        WellFoundedInduction, TLAPS

\* A copy of the item somebody holds: old, or exactly the current version.
Past(i, current) ==
    /\ i \in Item
    /\ i.rev > 0
    /\ i.rev <= current.rev
    /\ i.rev = current.rev => i = current

\* The revisions q wrote run from the one after its form's to n.
Wrote(q, n) ==
    /\ n \in Nat
    /\ form[q].rev < n
    /\ n <= item.rev
    /\ wrote[q] = (form[q].rev + 1) .. n

\* Every copy is past.
CopiesPast(q) ==
    /\ form[q] # NoItem => Past(form[q], item)
    /\ known[q] # NoItem => Past(known[q], item)
    /\ net[q].kind = "answer" => Past(net[q].item, item)

\* A request that has not sent a PATCH has none in flight and wrote nothing.
NotYetSent(q) ==
    /\ pc[q] # "unused" => form[q] # NoItem
    /\ pc[q] \in {"unused", "editing", "reading"} =>
          net[q] = NoMessage /\ wrote[q] = {}
    /\ pc[q] \in {"reading", "patching"} => want[q] \in Wants
    /\ pc[q] = "reading" => want[q].kind = "update"

\* What a PATCH in flight is guarded by: the revision of the form, as long as
\* the request wrote nothing, and the revision it wrote last after that.
Guarded(q) ==
    InFlight(q) =>
        /\ form[q] # NoItem
        /\ want[q] \in Wants
        /\ want[q].kind = "update" => known[q] # NoItem
        /\ \/ /\ wrote[q] = {}
              /\ net[q].ifMatch = form[q].rev
              /\ want[q].kind = "update" => form[q].rev <= known[q].rev
           \/ /\ want[q].kind = "update"
              /\ net[q].ifMatch = known[q].rev
              /\ Wrote(q, known[q].rev)

\* What was written, and that an answer reports the last of it.
Written(q) ==
    /\ wrote[q] # {} => form[q] # NoItem /\ \E n \in Nat : Wrote(q, n)
    /\ net[q].kind = "answer" =>
          form[q] # NoItem /\ want[q] \in Wants /\ Wrote(q, net[q].item.rev)

\* All of it, for one request.
Consistent(q) == CopiesPast(q) /\ NotYetSent(q) /\ Guarded(q) /\ Written(q)

\* A version has one author.
OneAuthor ==
    \A p, q \in Requests : p # q => wrote[p] \cap wrote[q] = {}

\* The inductive invariant.
IInv ==
    /\ TypeOK
    /\ item.rev > 0
    /\ \A q \in Requests : Consistent(q)
    /\ OneAuthor

-------------------------------------------------------------------------------
(* Types. *)

\* A state path is a sequence of states.
LEMMA PathType ==
    ASSUME NEW i, NEW w, NEW p \in StatePaths(i, w)
    PROVE  p \in Seq(States)
<1>1. CASE p = <<>>
  BY <1>1
<1>2. CASE p # <<>>
  <2>1. Cardinality(States) \in Nat
    BY ConstantsOK, FS_CardinalityType DEF ConstantsOK
  <2>2. PICK n \in 1..Cardinality(States) : p \in [1..n -> States]
    BY <1>2, <2>1 DEF StatePaths, ShortestWalks, WalksOfLength
  <2>3. n \in Nat
    BY <2>1, <2>2
  <2> QED
    BY <2>2, <2>3
<1> QED
  BY <1>1, <1>2

\* The initial values have their types.
LEMMA InitType == Init => TypeOK
BY ConstantsOK DEF Init, TypeOK, ConstantsOK, Message

\* What a message carries.
LEMMA MessageType ==
    /\ NoMessage \in Message
    /\ Refusal \in Message
    /\ \A n \in Nat : Patch(n) \in Message
    /\ \A i \in Item : Answer(i) \in Message
    /\ \A m \in Message : m.kind = "answer" => m.item \in Item
    /\ \A m \in Message : m.kind = "patch" => m.ifMatch \in Nat
BY DEF Message, NoMessage, Refusal, Patch, Answer

\* TFS only moves to the next revision.
LEMMA AcceptType ==
    ASSUME TypeOK, NEW q \in Requests, Accept(q)
    PROVE  /\ item' \in Item
           /\ item'.rev = item.rev + 1
BY DEF Accept, Storable, Patched, TypeOK

\* So it does when somebody else edits.
LEMMA ForeignType ==
    ASSUME TypeOK, ForeignEdit
    PROVE  /\ item' \in Item
           /\ item'.rev = item.rev + 1
BY DEF ForeignEdit, Storable, TypeOK

\* Every step keeps the types.
LEMMA NextType == IInv /\ [Next]_vars => TypeOK'
<1> SUFFICES ASSUME TypeOK, \A q \in Requests : NotYetSent(q), [Next]_vars
             PROVE  TypeOK'
  BY DEF IInv, Consistent
<1>1. CASE ForeignEdit
  BY <1>1, ForeignType DEF ForeignEdit, TypeOK
<1>2. ASSUME NEW q \in Requests, OpenForm(q) PROVE TypeOK'
  BY <1>2 DEF OpenForm, TypeOK
<1>3. ASSUME NEW q \in Requests, NEW p \in Requests, SaveAgain(q, p) PROVE TypeOK'
  BY <1>3 DEF SaveAgain, TypeOK
<1>4. ASSUME NEW q \in Requests, SubmitUpdate(q) PROVE TypeOK'
  BY <1>4 DEF SubmitUpdate, TypeOK
<1>5. ASSUME NEW q \in Requests, SubmitRemove(q) PROVE TypeOK'
  <2>1. Patch(FirstIfMatch(q)) \in Message
    BY <1>5, MessageType DEF SubmitRemove, FirstIfMatch, TypeOK, NotYetSent, Item
  <2> QED
    BY <1>5, <2>1 DEF SubmitRemove, TypeOK
<1>6. ASSUME NEW q \in Requests, ReadAndPatch(q) PROVE TypeOK'
  <2>1. Patch(FirstIfMatch(q)) \in Message
    BY <1>6, MessageType DEF ReadAndPatch, FirstIfMatch, TypeOK, NotYetSent, Item
  <2>2. path' \in [Requests -> Seq(States)]
    BY <1>6, PathType DEF ReadAndPatch, TypeOK
  <2> QED
    BY <1>6, <2>1, <2>2 DEF ReadAndPatch, TypeOK
<1>7. ASSUME NEW q \in Requests, ReadAndReject(q) PROVE TypeOK'
  BY <1>7 DEF ReadAndReject, TypeOK
<1>8. ASSUME NEW q \in Requests, CallFails(q) PROVE TypeOK'
  BY <1>8 DEF CallFails, TypeOK
<1>9. ASSUME NEW q \in Requests, ReceiveAnswer(q) PROVE TypeOK'
  <2>1. net[q].item \in Item
    BY <1>9, MessageType DEF ReceiveAnswer, TypeOK
  <2>2. Patch(NextIfMatch(q, net[q].item)) \in Message
    BY <2>1, MessageType DEF NextIfMatch, Item
  <2>3. known' \in [Requests -> Item \cup {NoItem}]
    BY <1>9, <2>1 DEF ReceiveAnswer, TypeOK
  <2>4. /\ hop' \in [Requests -> Nat]
        /\ \A r \in Requests : hop'[r] = 2 \/ hop'[r] \in 3..Len(path'[r])
    <3>1. CASE MoreHops(q)
      <4>1. hop[q] + 1 \in 3..Len(path[q])
        <5>1. Len(path[q]) \in Nat
          BY DEF TypeOK
        <5>2. hop[q] \in Nat /\ (hop[q] = 2 \/ hop[q] >= 3)
          <6>1. hop[q] = 2 \/ hop[q] \in 3..Len(path[q])
            BY DEF TypeOK
          <6> QED
            BY <5>1, <6>1
        <5> QED
          BY <3>1, <5>1, <5>2 DEF MoreHops
      <4>2. hop' = [hop EXCEPT ![q] = hop[q] + 1] /\ path' = path
        BY <1>9, <3>1 DEF ReceiveAnswer
      <4> QED
        BY <4>1, <4>2 DEF TypeOK
    <3>2. CASE ~MoreHops(q)
      BY <1>9, <3>2 DEF ReceiveAnswer, TypeOK
    <3> QED
      BY <3>1, <3>2
  <2>5. net' \in [Requests -> Message]
    <3>1. CASE MoreHops(q)
      BY <1>9, <2>2, <3>1 DEF ReceiveAnswer, TypeOK
    <3>2. CASE ~MoreHops(q)
      BY <1>9, <3>2, MessageType DEF ReceiveAnswer, TypeOK
    <3> QED
      BY <3>1, <3>2
  <2>6. pc' \in [Requests -> {"unused", "editing", "reading", "patching", "done", "failed"}]
    BY <1>9 DEF ReceiveAnswer, TypeOK
  <2> QED
    BY <1>9, <2>3, <2>4, <2>5, <2>6 DEF ReceiveAnswer, TypeOK
<1>10. ASSUME NEW q \in Requests, ReceiveRefusal(q) PROVE TypeOK'
  BY <1>10 DEF ReceiveRefusal, TypeOK
<1>11. ASSUME NEW q \in Requests, Accept(q) PROVE TypeOK'
  <2>1. net' \in [Requests -> Message]
    BY <1>11, AcceptType, MessageType DEF Accept, TypeOK
  <2>2. wrote' \in [Requests -> SUBSET Nat]
    BY <1>11, AcceptType DEF Accept, TypeOK, Item
  <2> QED
    BY <1>11, <2>1, <2>2, AcceptType DEF Accept, TypeOK
<1>12. ASSUME NEW q \in Requests, Refuse(q) PROVE TypeOK'
  BY <1>12, MessageType DEF Refuse, TypeOK
<1>13. CASE UNCHANGED vars
  BY <1>13 DEF vars, TypeOK
<1> QED
  BY <1>1, <1>2, <1>3, <1>4, <1>5, <1>6, <1>7, <1>8, <1>9, <1>10, <1>11,
     <1>12, <1>13 DEF Next, Handler

-------------------------------------------------------------------------------
(* The invariant is inductive. *)

\* TFS moved to the next revision, or did not move.
Advanced == item' \in Item /\ (item' = item \/ item'.rev = item.rev + 1)

\* The part of the state only request q's own steps touch.
Unmoved(q) ==
    /\ pc'[q] = pc[q] /\ form'[q] = form[q] /\ want'[q] = want[q]
    /\ known'[q] = known[q] /\ net'[q] = net[q] /\ wrote'[q] = wrote[q]

\* A copy that is past stays past.
LEMMA PastStays ==
    ASSUME TypeOK, Advanced, NEW i, Past(i, item)
    PROVE  Past(i, item')
BY DEF TypeOK, Advanced, Past, Item

\* What was written stays written.
LEMMA WroteStays ==
    ASSUME TypeOK, Advanced, NEW q, NEW n, Wrote(q, n),
           form'[q] = form[q], wrote'[q] = wrote[q]
    PROVE  Wrote(q, n)'
BY DEF TypeOK, Advanced, Wrote, Item

\* What others do leaves q consistent.
LEMMA OthersHarmless ==
    ASSUME TypeOK, Advanced, NEW q \in Requests, Consistent(q), Unmoved(q)
    PROVE  Consistent(q)'
<1>1. CopiesPast(q)'
  BY PastStays DEF Consistent, CopiesPast, Unmoved
<1>2. NotYetSent(q)'
  BY DEF Consistent, NotYetSent, Unmoved
<1>3. Guarded(q)'
  BY WroteStays DEF Consistent, Guarded, InFlight, Unmoved
<1>4. Written(q)'
  BY WroteStays DEF Consistent, Written, Unmoved
<1> QED
  BY <1>1, <1>2, <1>3, <1>4 DEF Consistent

\* The invariant holds at first.
LEMMA InitInv == Init => IInv
<1> SUFFICES ASSUME Init PROVE IInv
  OBVIOUS
<1>1. TypeOK
  BY InitType
<1>2. item.rev > 0
  BY ConstantsOK DEF Init, ConstantsOK
<1>3. ASSUME NEW q \in Requests PROVE Consistent(q)
  BY <1>3 DEF Init, Consistent, CopiesPast, NotYetSent, Guarded, InFlight, Written,
     NoMessage
<1>4. OneAuthor
  BY DEF Init, OneAuthor
<1> QED
  BY <1>1, <1>2, <1>3, <1>4 DEF IInv

\* Nobody wrote the next version yet.
LEMMA NextUnwritten ==
    ASSUME IInv, NEW q \in Requests
    PROVE  item.rev + 1 \notin wrote[q]
<1>1. wrote[q] = {} \/ \E n \in Nat : Wrote(q, n)
  BY DEF IInv, Consistent, Written
<1>2. item.rev \in Nat
  BY DEF IInv, TypeOK, Item
<1>3. ASSUME NEW n \in Nat, Wrote(q, n) PROVE item.rev + 1 \notin wrote[q]
  BY <1>2, <1>3 DEF Wrote
<1> QED
  BY <1>1, <1>3

\* One request moved, the others did not: it is enough to look at that one.
LEMMA OneMoves ==
    ASSUME IInv, TypeOK', Advanced, NEW q \in Requests,
           \A p \in Requests \ {q} : Unmoved(p),
           Consistent(q)',
           wrote'[q] = wrote[q] \/ wrote'[q] = wrote[q] \cup {item.rev + 1}
    PROVE  IInv'
<1>1. (item.rev > 0)'
  BY DEF IInv, TypeOK, Advanced, Item
<1>2. ASSUME NEW p \in Requests PROVE Consistent(p)'
  BY OthersHarmless DEF IInv
<1>3. \A p \in Requests : item.rev + 1 \notin wrote[p]
  BY NextUnwritten
<1>4. OneAuthor'
  BY <1>3 DEF IInv, OneAuthor, Unmoved
<1> QED
  BY <1>1, <1>2, <1>4 DEF IInv

\* Every step keeps the invariant.
LEMMA NextInv == IInv /\ [Next]_vars => IInv'
<1> SUFFICES ASSUME IInv, [Next]_vars PROVE IInv'
  OBVIOUS
<1>a. TypeOK'
  BY NextType
<1>b. TypeOK /\ item \in Item /\ item.rev \in Nat /\ item.rev > 0
  BY DEF IInv, TypeOK, Item
<1>c. \A q \in Requests : Consistent(q)
  BY DEF IInv
<1>1. CASE ForeignEdit
  <2>1. Advanced
    BY <1>1, <1>b, ForeignType DEF Advanced
  <2>2. \A q \in Requests : Unmoved(q)
    BY <1>1 DEF ForeignEdit, Unmoved
  <2>3. \A q \in Requests : Consistent(q)'
    BY <2>1, <2>2, <1>b, <1>c, OthersHarmless
  <2> QED
    BY <1>1, <1>a, <1>b, <2>1, <2>3 DEF IInv, Advanced, ForeignEdit, OneAuthor
<1>2. ASSUME NEW q \in Requests, OpenForm(q) PROVE IInv'
  <2>1. Advanced /\ \A p \in Requests \ {q} : Unmoved(p)
    BY <1>2, <1>b DEF OpenForm, Unmoved, Advanced, TypeOK
  <2>2. form'[q] = item /\ item' = item /\ pc'[q] = "editing"
    BY <1>2, <1>b DEF OpenForm, TypeOK
  <2>3. net[q] = NoMessage /\ wrote[q] = {} /\ net'[q] = net[q] /\ wrote'[q] = wrote[q]
    BY <1>2, <1>c DEF OpenForm, Consistent, NotYetSent
  <2>4. Consistent(q)'
    BY <1>2, <1>b, <1>c, <2>2, <2>3, ConstantsOK
    DEF OpenForm, Consistent, CopiesPast, NotYetSent, Guarded, Written, InFlight,
        NoMessage, Past, Item, ConstantsOK
  <2> QED
    BY <1>a, <2>1, <2>3, <2>4, OneMoves
<1>3. ASSUME NEW q \in Requests, NEW p \in Requests, SaveAgain(q, p) PROVE IInv'
  <2>1. Advanced /\ \A r \in Requests \ {q} : Unmoved(r)
    BY <1>3, <1>b DEF SaveAgain, Unmoved, Advanced, TypeOK
  <2>2. /\ form'[q] = form[p] /\ item' = item /\ pc'[q] = "editing"
        /\ form[p] # NoItem /\ Past(form[p], item)
    BY <1>3, <1>b, <1>c DEF SaveAgain, TypeOK, Consistent, CopiesPast, NotYetSent
  <2>3. net[q] = NoMessage /\ wrote[q] = {} /\ net'[q] = net[q] /\ wrote'[q] = wrote[q]
    BY <1>3, <1>c DEF SaveAgain, Consistent, NotYetSent
  <2>4. Consistent(q)'
    BY <1>3, <1>b, <1>c, <2>2, <2>3
    DEF SaveAgain, Consistent, CopiesPast, NotYetSent, Guarded, Written, InFlight,
        NoMessage
  <2> QED
    BY <1>a, <2>1, <2>3, <2>4, OneMoves
<1>4. ASSUME NEW q \in Requests, SubmitUpdate(q) PROVE IInv'
  <2>1. Advanced /\ \A p \in Requests \ {q} : Unmoved(p)
    BY <1>4, <1>b DEF SubmitUpdate, Unmoved, Advanced, TypeOK
  <2>2. /\ want'[q] \in Wants /\ want'[q].kind = "update" /\ item' = item
        /\ pc'[q] \in {"failed", "reading"}
    BY <1>4, <1>b DEF SubmitUpdate, TypeOK
  <2>3. net[q] = NoMessage /\ wrote[q] = {} /\ net'[q] = net[q] /\ wrote'[q] = wrote[q]
    BY <1>4, <1>c DEF SubmitUpdate, Consistent, NotYetSent
  <2>4. Consistent(q)'
    BY <1>4, <1>b, <1>c, <2>2, <2>3
    DEF SubmitUpdate, Consistent, CopiesPast, NotYetSent, Guarded, Written, InFlight,
        NoMessage
  <2> QED
    BY <1>a, <2>1, <2>3, <2>4, OneMoves
<1>5. ASSUME NEW q \in Requests, SubmitRemove(q) PROVE IInv'
  <2>1. Advanced /\ \A p \in Requests \ {q} : Unmoved(p)
    BY <1>5, <1>b DEF SubmitRemove, Unmoved, Advanced, TypeOK
  <2>2. /\ want'[q] \in Wants /\ want'[q].kind = "remove" /\ item' = item
        /\ pc'[q] = "patching" /\ net'[q] = Patch(form[q].rev)
    BY <1>5, <1>b DEF SubmitRemove, FirstIfMatch, TypeOK
  <2>3. wrote[q] = {} /\ wrote'[q] = wrote[q] /\ form[q] # NoItem /\ form'[q] = form[q]
    BY <1>5, <1>c DEF SubmitRemove, Consistent, NotYetSent
  <2>4. Consistent(q)'
    BY <1>5, <1>b, <1>c, <2>2, <2>3
    DEF SubmitRemove, Consistent, CopiesPast, NotYetSent, Guarded, Written, InFlight,
        Patch
  <2> QED
    BY <1>a, <2>1, <2>3, <2>4, OneMoves
<1>6. ASSUME NEW q \in Requests, ReadAndPatch(q) PROVE IInv'
  <2>1. Advanced /\ \A p \in Requests \ {q} : Unmoved(p)
    BY <1>6, <1>b DEF ReadAndPatch, Unmoved, Advanced, TypeOK
  <2>2. /\ known'[q] = item /\ item' = item /\ item # NoItem
        /\ pc'[q] = "patching" /\ net'[q] = Patch(form[q].rev)
    BY <1>6, <1>b, ConstantsOK DEF ReadAndPatch, FirstIfMatch, TypeOK, ConstantsOK
  <2>3. /\ wrote[q] = {} /\ wrote'[q] = wrote[q]
        /\ form[q] # NoItem /\ form'[q] = form[q] /\ form[q].rev <= item.rev
        /\ want[q] \in Wants /\ want'[q] = want[q]
    BY <1>6, <1>c DEF ReadAndPatch, Consistent, NotYetSent, CopiesPast, Past
  <2>4. Consistent(q)'
    BY <1>6, <1>b, <1>c, <2>2, <2>3
    DEF ReadAndPatch, Consistent, CopiesPast, Past, NotYetSent, Guarded, Written,
        InFlight, Patch
  <2> QED
    BY <1>a, <2>1, <2>3, <2>4, OneMoves
<1>7. ASSUME NEW q \in Requests, ReadAndReject(q) PROVE IInv'
  <2>1. Advanced /\ \A p \in Requests \ {q} : Unmoved(p)
    BY <1>7, <1>b DEF ReadAndReject, Unmoved, Advanced, TypeOK
  <2>2. Consistent(q)' /\ wrote'[q] = wrote[q]
    BY <1>7, <1>b, <1>c
    DEF ReadAndReject, Consistent, CopiesPast, NotYetSent, Guarded, Written, Wrote,
        InFlight, TypeOK
  <2> QED
    BY <1>a, <2>1, <2>2, OneMoves
<1>8. ASSUME NEW q \in Requests, CallFails(q) PROVE IInv'
  <2>1. Advanced /\ \A p \in Requests \ {q} : Unmoved(p)
    BY <1>8, <1>b DEF CallFails, Unmoved, Advanced, TypeOK
  <2>2. Consistent(q)' /\ wrote'[q] = wrote[q]
    BY <1>8, <1>b, <1>c
    DEF CallFails, Consistent, CopiesPast, NotYetSent, Guarded, Written, Wrote,
        InFlight, TypeOK
  <2> QED
    BY <1>a, <2>1, <2>2, OneMoves
<1>9. ASSUME NEW q \in Requests, ReceiveAnswer(q) PROVE IInv'
  <2>1. Advanced /\ \A p \in Requests \ {q} : Unmoved(p)
    BY <1>9, <1>b DEF ReceiveAnswer, Unmoved, Advanced, TypeOK
  <2>2. /\ form[q] # NoItem /\ want[q] \in Wants /\ Wrote(q, net[q].item.rev)
        /\ Past(net[q].item, item) /\ net[q].item \in Item /\ net[q].item # NoItem
    BY <1>9, <1>c, ConstantsOK
    DEF ReceiveAnswer, Consistent, CopiesPast, Written, Past, ConstantsOK
  <2>3. /\ known'[q] = net[q].item /\ item' = item /\ form' = form /\ want' = want
        /\ wrote' = wrote
    BY <1>9, <1>b DEF ReceiveAnswer, TypeOK
  <2>4. CASE MoreHops(q)
    <3>1. /\ net'[q] = Patch(net[q].item.rev) /\ pc'[q] = "patching"
          /\ want[q].kind = "update"
      BY <1>9, <1>b, <2>4 DEF ReceiveAnswer, NextIfMatch, MoreHops, TypeOK
    <3>2. Consistent(q)'
      BY <1>c, <2>2, <2>3, <3>1
      DEF Consistent, CopiesPast, NotYetSent, Guarded, Written, Wrote, InFlight, Patch
    <3> QED
      BY <1>a, <2>1, <2>3, <3>2, OneMoves
  <2>5. CASE ~MoreHops(q)
    <3>1. net'[q] = NoMessage /\ pc'[q] = "done"
      BY <1>9, <1>b, <2>5 DEF ReceiveAnswer, TypeOK
    <3>2. Consistent(q)'
      BY <1>c, <2>2, <2>3, <3>1
      DEF Consistent, CopiesPast, NotYetSent, Guarded, Written, Wrote, InFlight,
          NoMessage
    <3> QED
      BY <1>a, <2>1, <2>3, <3>2, OneMoves
  <2> QED
    BY <2>4, <2>5
<1>10. ASSUME NEW q \in Requests, ReceiveRefusal(q) PROVE IInv'
  <2>1. Advanced /\ \A p \in Requests \ {q} : Unmoved(p)
    BY <1>10, <1>b DEF ReceiveRefusal, Unmoved, Advanced, TypeOK
  <2>2. Consistent(q)' /\ wrote'[q] = wrote[q]
    BY <1>10, <1>b, <1>c
    DEF ReceiveRefusal, Consistent, CopiesPast, NotYetSent, Guarded, Written, Wrote,
        InFlight, TypeOK
  <2> QED
    BY <1>a, <2>1, <2>2, OneMoves
<1>11. ASSUME NEW q \in Requests, Accept(q) PROVE IInv'
  <2>1. Advanced /\ item'.rev = item.rev + 1 /\ item' \in Item
    BY <1>11, <1>b, AcceptType DEF Advanced
  <2>2. \A p \in Requests \ {q} : Unmoved(p)
    BY <1>11, <1>b DEF Accept, Unmoved, TypeOK
  <2>3. /\ net'[q] = Answer(item') /\ wrote'[q] = wrote[q] \cup {item.rev + 1}
        /\ form' = form /\ known' = known /\ want' = want /\ pc' = pc
    BY <1>11, <1>b, <2>1 DEF Accept, TypeOK
  <2>4. /\ InFlight(q) /\ net[q].ifMatch = item.rev
        /\ form[q] # NoItem /\ want[q] \in Wants /\ form[q] \in Item
    <3>1. InFlight(q) /\ net[q].ifMatch \in {0, item.rev}
      BY <1>11 DEF Accept, RevisionAccepted, NoHeader
    <3>2. Guarded(q) /\ CopiesPast(q)
      BY <1>c DEF Consistent
    <3> QED
      BY <3>1, <3>2 DEF Guarded, CopiesPast, Past, Item
  <2>5. Wrote(q, item.rev)'
    <3>1. \/ wrote[q] = {} /\ form[q].rev = item.rev
          \/ Wrote(q, item.rev)
      BY <1>c, <2>4 DEF Consistent, Guarded
    <3>2. item'.rev \in Nat /\ form[q].rev \in Nat
      BY <2>1, <2>4 DEF Item
    <3>3. CASE wrote[q] = {} /\ form[q].rev = item.rev
      BY <1>b, <2>1, <2>3, <3>2, <3>3 DEF Wrote
    <3>4. CASE Wrote(q, item.rev)
      BY <1>b, <2>1, <2>3, <3>2, <3>4 DEF Wrote
    <3> QED
      BY <3>1, <3>3, <3>4
  <2>6. CopiesPast(q)'
    <3>1. Past(item', item')
      BY <1>b, <2>1 DEF Past, Item
    <3>2. CopiesPast(q)
      BY <1>c DEF Consistent
    <3> QED
      BY <1>b, <2>1, <2>3, <3>1, <3>2, PastStays DEF CopiesPast, Answer
  <2>7. NotYetSent(q)'
    <3>1. NotYetSent(q)
      BY <1>c DEF Consistent
    <3> QED
      BY <2>3, <2>4, <3>1 DEF NotYetSent, InFlight, NoMessage
  <2>8. Guarded(q)'
    BY <2>3 DEF Guarded, InFlight, Answer
  <2>9. Written(q)'
    <3>1. item'.rev \in Nat
      BY <2>1 DEF Item
    <3> QED
      BY <2>3, <2>4, <2>5, <3>1 DEF Written, Answer
  <2> QED
    BY <1>a, <2>1, <2>2, <2>3, <2>6, <2>7, <2>8, <2>9, OneMoves DEF Consistent
<1>12. ASSUME NEW q \in Requests, Refuse(q) PROVE IInv'
  <2>1. Advanced /\ \A p \in Requests \ {q} : Unmoved(p)
    BY <1>12, <1>b DEF Refuse, Unmoved, Advanced, TypeOK
  <2>2. net'[q] = Refusal /\ item' = item /\ form' = form /\ wrote' = wrote
    BY <1>12, <1>b DEF Refuse, TypeOK
  <2>3. Consistent(q)'
    BY <1>12, <1>b, <1>c, <2>2
    DEF Refuse, Consistent, CopiesPast, NotYetSent, Guarded, Written, Wrote,
        InFlight, Refusal, NoMessage
  <2> QED
    BY <1>a, <2>1, <2>2, <2>3, OneMoves
<1>13. CASE UNCHANGED vars
  <2>1. Advanced /\ \A q \in Requests : Unmoved(q)
    BY <1>13, <1>b DEF vars, Advanced, Unmoved
  <2> QED
    BY <1>13, <1>a, <1>b, <1>c, <2>1, OthersHarmless DEF vars, IInv, OneAuthor
<1> QED
  BY <1>1, <1>2, <1>3, <1>4, <1>5, <1>6, <1>7, <1>8, <1>9, <1>10, <1>11,
     <1>12, <1>13 DEF Next, Handler

\* The inductive invariant holds in every reachable state.
THEOREM Invariance == Spec => []IInv
<1>1. Init => IInv
  BY InitInv
<1>2. IInv /\ [Next]_vars => IInv'
  BY NextInv
<1> QED
  BY <1>1, <1>2, PTL DEF Spec

-------------------------------------------------------------------------------
(* The properties. *)

\* Every variable keeps its type and a hop never leaves its state path, for
\* the handlers of UpdateWorkItemAsync and RemoveWorkItemAsync.
THEOREM TypeCorrect == Spec => []TypeOK
<1>1. IInv => TypeOK
  BY DEF IInv
<1> QED
  BY <1>1, Invariance, PTL

\* What the revision guard says of the copies behind a PATCH in flight.
LEMMA GuardedRevision ==
    ASSUME IInv, NEW q \in Requests, InFlight(q), RevisionAccepted(q)
    PROVE  /\ net[q].ifMatch = item.rev
           /\ form[q] # NoItem /\ form[q] \in Item /\ Past(form[q], item)
           /\ want[q].kind = "update" => known[q] # NoItem /\ Past(known[q], item)
           /\ want[q] \in Want
<1>1. Guarded(q) /\ CopiesPast(q)
  BY DEF IInv, Consistent
<1>2. net[q].ifMatch \in {0, item.rev}
  BY DEF RevisionAccepted, NoHeader
<1>3. item.rev > 0 /\ item.rev \in Nat
  BY DEF IInv, TypeOK, Item
<1> QED
  BY <1>1, <1>2, <1>3, ConstantsOK DEF Guarded, CopiesPast, Past, Item, ConstantsOK

\* A document TFS would accept is fresh.
LEMMA FreshNow == IInv => FreshDocument
<1> SUFFICES ASSUME IInv, NEW q \in Requests, InFlight(q), RevisionAccepted(q)
             PROVE  Basis(q) = item
  BY DEF FreshDocument
<1>1. Guarded(q)
  BY DEF IInv, Consistent
<1>2. want[q].kind \in {"update", "remove"}
  BY GuardedRevision DEF Want
<1>3. item.rev \in Nat
  BY DEF IInv, TypeOK, Item
<1>4. CASE want[q].kind = "remove"
  BY <1>1, <1>4, GuardedRevision DEF Guarded, Past, Basis
<1>5. CASE want[q].kind = "update"
  <2>1. known[q].rev \in Nat /\ known[q].rev <= item.rev
    BY <1>5, GuardedRevision DEF Past, Item
  <2>2. known[q].rev = item.rev
    BY <1>1, <1>3, <1>5, <2>1, GuardedRevision DEF Guarded
  <2> QED
    BY <1>5, <2>2, GuardedRevision DEF Past, Basis
<1> QED
  BY <1>2, <1>4, <1>5

\* The first PATCH TFS would accept was made from the version it changes.
LEMMA BlindNow == IInv => NoBlindOverwrite
<1> SUFFICES ASSUME IInv, NEW q \in Requests, InFlight(q), wrote[q] = {},
                    RevisionAccepted(q)
             PROVE  form[q] = item
  BY DEF NoBlindOverwrite, FirstPatch
<1>1. Guarded(q)
  BY DEF IInv, Consistent
<1>2. item.rev \in Nat /\ form[q].rev \in Nat
  BY GuardedRevision DEF IInv, TypeOK, Item
<1>3. ~ Wrote(q, known[q].rev)
  <2> SUFFICES ASSUME Wrote(q, known[q].rev) PROVE FALSE
    OBVIOUS
  <2>1. known[q].rev \in (form[q].rev + 1) .. known[q].rev
    BY <1>2 DEF Wrote
  <2> QED
    BY <2>1 DEF Wrote
<1> QED
  BY <1>1, <1>3, GuardedRevision DEF Guarded, Past

\* The document of any PATCH that TFS would accept was computed from exactly
\* the version it is applied to: the removals by index of UpdateWorkItemAsync
\* hit the links the handler read, however many others edit meanwhile.
THEOREM DocumentsAreFresh == Spec => []FreshDocument
<1>1. IInv => FreshDocument
  BY FreshNow
<1> QED
  BY <1>1, Invariance, PTL

\* No lost update: the first PATCH of a PUT or DELETE takes effect only on the
\* very version the user was shown.
THEOREM NoLostUpdate == Spec => []NoBlindOverwrite
<1>1. IInv => NoBlindOverwrite
  BY BlindNow
<1> QED
  BY <1>1, Invariance, PTL

\* The PATCHes of one request write consecutive revisions, starting right
\* after the one the form was opened on: the hops of a state path are never
\* interleaved with somebody else's change.
THEOREM ChainsAreUnbroken == Spec => []UnbrokenChain
<1>1. IInv => UnbrokenChain
  <2> SUFFICES ASSUME IInv, NEW q \in Requests, wrote[q] # {}
               PROVE  wrote[q] = (form[q].rev + 1) .. (form[q].rev + Cardinality(wrote[q]))
    BY DEF UnbrokenChain
  <2>1. PICK n \in Nat : Wrote(q, n)
    BY DEF IInv, Consistent, Written
  <2>2. form[q].rev \in Nat
    <3>1. form[q] # NoItem
      BY DEF IInv, Consistent, Written
    <3> QED
      BY <3>1 DEF IInv, TypeOK, Item
  <2>3. wrote[q] = (form[q].rev + 1) .. n /\ form[q].rev < n
    BY <2>1 DEF Wrote
  <2>4. Cardinality((form[q].rev + 1) .. n) = n - (form[q].rev + 1) + 1
    BY <2>2, <2>3, FS_Interval
  <2> QED
    BY <2>2, <2>3, <2>4
<1> QED
  BY <1>1, Invariance, PTL

\* Two requests saved from the same form never both take effect.
THEOREM FormsAreSavedOnce == Spec => []SavedOnce
<1>1. IInv => SavedOnce
  <2> SUFFICES ASSUME IInv, NEW p \in Requests, NEW q \in Requests, p # q,
                      wrote[p] # {}, wrote[q] # {}, form[p].rev = form[q].rev
               PROVE  FALSE
    BY DEF SavedOnce
  <2>1. PICK m \in Nat : Wrote(p, m)
    BY DEF IInv, Consistent, Written
  <2>2. PICK n \in Nat : Wrote(q, n)
    BY DEF IInv, Consistent, Written
  <2>3. form[p].rev \in Nat
    <3>1. form[p] # NoItem
      BY DEF IInv, Consistent, Written
    <3> QED
      BY <3>1 DEF IInv, TypeOK, Item
  <2>4. form[p].rev + 1 \in wrote[p] \cap wrote[q]
    BY <2>1, <2>2, <2>3 DEF Wrote
  <2> QED
    BY <2>4 DEF IInv, OneAuthor
<1> QED
  BY <1>1, Invariance, PTL

-------------------------------------------------------------------------------
(* Documents: what TFS makes of the operations, one after the other. *)

\* A sequence, of whatever it may be.
IsSeq(s) == \E S : s \in Seq(S)

\* A nonempty set of naturals has a least element.
LEMMA LeastNat ==
    ASSUME NEW T \in SUBSET Nat, T # {}
    PROVE  \E x \in T : \A y \in T : x <= y
<1>1. PICK x \in T : \A y \in T : ~ (<<y, x>> \in OpToRel(<, Nat))
  BY NatLessThanWellFounded, WFMin
<1>2. OpToRel(<, Nat) = {ss \in Nat \X Nat : ss[1] < ss[2]}
  BY Zenon DEF OpToRel
<1>3. \A y \in T : ~ (<<y, x>> \in {ss \in Nat \X Nat : ss[1] < ss[2]})
  BY <1>1, <1>2, Zenon
<1>4. ASSUME NEW y \in T, y < x PROVE FALSE
  <2>1. <<y, x>> \in Nat \X Nat /\ <<y, x>>[1] < <<y, x>>[2]
    BY <1>4
  <2> QED
    BY <1>3, <2>1
<1> QED
  BY <1>4

\* The versions a document goes through are what the recursion says.
LEMMA VersionsDefined ==
    ASSUME NEW i, NEW doc, Len(doc) \in Nat
    PROVE  Versions(i, doc) =
             [k \in 0..Len(doc) |->
                IF k = 0 THEN i ELSE ApplyOperation(Versions(i, doc)[k - 1], doc[k])]
<1> DEFINE Run(f, m) == f = [k \in 0..m |-> IF k = 0 THEN i ELSE ApplyOperation(f[k - 1], doc[k])]
           Without == {m \in Nat : ~ \E f : Run(f, m)}
<1>1. Without = {}
  <2> SUFFICES ASSUME Without # {} PROVE FALSE
    OBVIOUS
  <2>1. PICK m \in Without : \A n \in Without : m <= n
    <3>1. Without \in SUBSET Nat
      OBVIOUS
    <3> HIDE DEF Without
    <3> QED
      BY <3>1, LeastNat
  <2>2. m \in Nat /\ ~ \E f : Run(f, m)
    OBVIOUS
  <2>3. m # 0
    <3>1. Run([k \in 0..0 |-> i], 0)
      OBVIOUS
    <3> QED
      BY <2>2, <3>1, Zenon
  <2>4. m - 1 \in Nat /\ m - 1 \notin Without
    BY <2>1, <2>2, <2>3
  <2>5. PICK g : Run(g, m - 1)
    BY <2>4
  <2> DEFINE f == [k \in 0..m |-> IF k < m THEN g[k] ELSE ApplyOperation(g[m - 1], doc[m])]
  <2>6. \A k \in 0..(m - 1) : f[k] = g[k]
    BY <2>2
  <2>7. \A k \in 0..m : f[k] = IF k = 0 THEN i ELSE ApplyOperation(f[k - 1], doc[k])
    <3> SUFFICES ASSUME NEW k \in 0..m
                 PROVE  f[k] = IF k = 0 THEN i ELSE ApplyOperation(f[k - 1], doc[k])
      OBVIOUS
    <3>1. CASE k < m
      <4>1. k \in 0..(m - 1) /\ (k # 0 => k - 1 \in 0..(m - 1))
        BY <2>2, <3>1
      <4>2. g[k] = IF k = 0 THEN i ELSE ApplyOperation(g[k - 1], doc[k])
        BY <2>5, <4>1
      <4> QED
        BY <2>6, <4>1, <4>2
    <3>2. CASE k = m
      <4>1. f[m] = ApplyOperation(g[m - 1], doc[m]) /\ f[m - 1] = g[m - 1]
        BY <2>2, <2>3, <2>6
      <4> QED
        BY <2>3, <3>2, <4>1
    <3> QED
      BY <2>2, <3>1, <3>2
  <2>8. Run(f, m)
    <3>1. f = [k \in 0..m |-> f[k]]
      OBVIOUS
    <3> HIDE DEF f
    <3> QED
      BY <2>7, <3>1, Zenon
  <2> QED
    BY <2>2, <2>8, Zenon
<1>2. \E f : Run(f, Len(doc))
  BY <1>1
<1>3. Versions(i, doc) = CHOOSE f : Run(f, Len(doc))
  BY DEF Versions
<1>4. Run(Versions(i, doc), Len(doc))
  BY <1>2, <1>3, Zenon
<1> QED
  BY <1>4

\* What the whole document makes of an item.
Final(i, doc) == Versions(i, doc)[Len(doc)]

\* The same, version by version.
LEMMA VersionsStep ==
    ASSUME NEW i, NEW doc, Len(doc) \in Nat
    PROVE  /\ Versions(i, doc)[0] = i
           /\ \A k \in 1..Len(doc) :
                 Versions(i, doc)[k] = ApplyOperation(Versions(i, doc)[k - 1], doc[k])
<1> DEFINE v == Versions(i, doc)
<1>1. v = [k \in 0..Len(doc) |-> IF k = 0 THEN i ELSE ApplyOperation(v[k - 1], doc[k])]
  BY VersionsDefined
<1> HIDE DEF v
<1>2. v[0] = i
  BY <1>1
<1>3. \A k \in 1..Len(doc) : v[k] = ApplyOperation(v[k - 1], doc[k])
  BY <1>1
<1> QED
  BY <1>2, <1>3 DEF v

\* A document in two parts: the second is applied to what the first has made.
LEMMA FinalConcat ==
    ASSUME NEW i, NEW c, NEW d, IsSeq(c), IsSeq(d)
    PROVE  Final(i, c \o d) = Final(Final(i, c), d)
<1> DEFINE m == Len(c)
           n == Len(d)
           e == c \o d
           v == Versions(i, e)
           u == Versions(i, c)
           w == Versions(Final(i, c), d)
<1>1. /\ m \in Nat /\ n \in Nat /\ Len(c \o d) = m + n
      /\ \A k \in 1..m : (c \o d)[k] = c[k]
      /\ \A k \in 1..n : (c \o d)[m + k] = d[k]
  <2>1. PICK S : c \in Seq(S)
    BY DEF IsSeq
  <2>2. PICK T : d \in Seq(T)
    BY DEF IsSeq
  <2> QED
    BY <2>1, <2>2
<1>2. /\ v[0] = i /\ \A k \in 1..(m + n) : v[k] = ApplyOperation(v[k - 1], e[k])
      /\ u[0] = i /\ \A k \in 1..m : u[k] = ApplyOperation(u[k - 1], c[k])
      /\ w[0] = u[m] /\ \A k \in 1..n : w[k] = ApplyOperation(w[k - 1], d[k])
  <2>1. Len(e) \in Nat /\ Len(c) \in Nat /\ Len(d) \in Nat /\ Len(e) = m + n
    BY <1>1
  <2> HIDE DEF e
  <2>2. v[0] = i /\ \A k \in 1..Len(e) : v[k] = ApplyOperation(v[k - 1], e[k])
    BY <2>1, VersionsStep
  <2>3. u[0] = i /\ \A k \in 1..Len(c) : u[k] = ApplyOperation(u[k - 1], c[k])
    BY <2>1, VersionsStep
  <2>4. w[0] = Final(i, c) /\ \A k \in 1..Len(d) : w[k] = ApplyOperation(w[k - 1], d[k])
    BY <2>1, VersionsStep
  <2>5. Final(i, c) = u[m]
    BY DEF Final
  <2> HIDE DEF u, v, w
  <2> QED
    BY <2>1, <2>2, <2>3, <2>4, <2>5
<1> HIDE DEF v, u, w, m, n, e
<1>3. \A k \in 0..m : v[k] = u[k]
  <2> DEFINE Differ == {k \in 0..m : v[k] # u[k]}
  <2> SUFFICES ASSUME Differ # {} PROVE FALSE
    OBVIOUS
  <2>1. PICK k \in Differ : \A j \in Differ : k <= j
    <3>1. Differ \in SUBSET Nat
      BY <1>1
    <3> HIDE DEF Differ
    <3> QED
      BY <3>1, LeastNat
  <2>2. k \in 0..m /\ v[k] # u[k]
    OBVIOUS
  <2>3. k # 0
    BY <1>2, <2>2
  <2>4. k \in 1..m /\ k \in 1..(m + n) /\ k - 1 \in 0..m /\ ~(k <= k - 1)
    BY <1>1, <2>2, <2>3
  <2>5. v[k - 1] = u[k - 1]
    BY <2>1, <2>4
  <2>6. e[k] = c[k]
    BY <1>1, <2>4 DEF e, m
  <2> QED
    BY <1>2, <2>2, <2>4, <2>5, <2>6
<1>4. \A k \in 0..n : v[m + k] = w[k]
  <2> DEFINE Differ == {k \in 0..n : v[m + k] # w[k]}
  <2> SUFFICES ASSUME Differ # {} PROVE FALSE
    OBVIOUS
  <2>1. PICK k \in Differ : \A j \in Differ : k <= j
    <3>1. Differ \in SUBSET Nat
      BY <1>1
    <3> HIDE DEF Differ
    <3> QED
      BY <3>1, LeastNat
  <2>2. k \in 0..n /\ v[m + k] # w[k]
    OBVIOUS
  <2>3. k # 0
    BY <1>1, <1>2, <1>3, <2>2
  <2>4. k \in 1..n /\ m + k \in 1..(m + n) /\ k - 1 \in 0..n /\ ~(k <= k - 1) /\ (m + k) - 1 = m + (k - 1)
    BY <1>1, <2>2, <2>3
  <2>5. v[m + (k - 1)] = w[k - 1]
    BY <2>1, <2>4
  <2>6. e[m + k] = d[k]
    BY <1>1, <2>4 DEF e, m, n
  <2> QED
    BY <1>2, <2>2, <2>4, <2>5, <2>6
<1>5. v[m + n] = w[n]
  BY <1>1, <1>4
<1> QED
  BY <1>1, <1>5 DEF Final, v, w, m, n, e

\* What is a sequence.
LEMMA EmptyIsSeq == IsSeq(<<>>)
<1>1. <<>> \in Seq({1})
  OBVIOUS
<1> QED
  BY <1>1 DEF IsSeq

\* One operation is a document.
LEMMA SingleIsSeq == ASSUME NEW o PROVE IsSeq(<<o>>)
<1>1. <<o>> \in Seq({o})
  OBVIOUS
<1> QED
  BY <1>1 DEF IsSeq

\* So are two documents, one after the other.
LEMMA ConcatIsSeq == ASSUME NEW c, NEW d, IsSeq(c), IsSeq(d) PROVE IsSeq(c \o d)
<1>1. PICK S : c \in Seq(S)
  BY DEF IsSeq
<1>2. PICK T : d \in Seq(T)
  BY DEF IsSeq
<1>3. c \in Seq(S \cup T) /\ d \in Seq(S \cup T)
  BY <1>1, <1>2
<1> QED
  BY <1>3 DEF IsSeq

\* So is a list given operation by operation.
LEMMA ListIsSeq ==
    ASSUME NEW n \in Nat, NEW s, s = [k \in 1..n |-> s[k]]
    PROVE  IsSeq(s) /\ Len(s) = n
<1> DEFINE S == {s[k] : k \in 1..n}
<1>1. s \in [1..n -> S]
  OBVIOUS
<1>2. s \in Seq(S)
  BY <1>1
<1>3. Len(s) = n
  OBVIOUS
<1> QED
  BY <1>2, <1>3 DEF IsSeq

\* Documents of no operation and of one.
LEMMA FinalOfNone == ASSUME NEW i PROVE Final(i, <<>>) = i
<1>1. Len(<<>>) = 0
  OBVIOUS
<1> QED
  BY <1>1, VersionsStep DEF Final

\* One operation, applied.
LEMMA FinalOfOne == ASSUME NEW i, NEW o PROVE Final(i, <<o>>) = ApplyOperation(i, o)
<1> DEFINE d == <<o>>
<1>1. Len(d) = 1 /\ d[1] = o
  OBVIOUS
<1> HIDE DEF d
<1>2. Versions(i, d)[0] = i /\ Versions(i, d)[1] = ApplyOperation(Versions(i, d)[1 - 1], d[1])
  BY <1>1, VersionsStep
<1>3. Final(i, d) = ApplyOperation(i, o)
  BY <1>1, <1>2 DEF Final
<1> QED
  BY <1>3 DEF d

-------------------------------------------------------------------------------
(* The removals. *)

\* The community module's RemoveAt, index by index.
LEMMA RemovedAt ==
    ASSUME NEW S, NEW s \in Seq(S), NEW a \in 1..Len(s)
    PROVE  /\ RemoveAt(s, a) \in Seq(S)
           /\ Len(RemoveAt(s, a)) = Len(s) - 1
           /\ \A j \in 1..(Len(s) - 1) :
                 RemoveAt(s, a)[j] = IF j < a THEN s[j] ELSE s[j + 1]
<1> DEFINE b == SubSeq(s, 1, a - 1)
           c == SubSeq(s, a + 1, Len(s))
           n == Len(s)
<1>1. n \in Nat /\ a \in 1..n /\ \A j \in 1..n : s[j] \in S
  OBVIOUS
<1>2. /\ b \in Seq(S)
      /\ Len(b) = IF 1 <= a - 1 THEN (a - 1) - 1 + 1 ELSE 0
      /\ \A j \in 1..((a - 1) - 1 + 1) : b[j] = s[1 + j - 1]
  <2>1. 1 \in Int /\ a - 1 \in Int /\ \A j \in 1..(a - 1) : s[j] \in S
    BY <1>1
  <2> QED
    BY <2>1, SubSeqProperties
<1>3. /\ c \in Seq(S)
      /\ Len(c) = IF a + 1 <= n THEN n - (a + 1) + 1 ELSE 0
      /\ \A j \in 1..(n - (a + 1) + 1) : c[j] = s[(a + 1) + j - 1]
  <2>1. a + 1 \in Int /\ n \in Int /\ \A j \in (a + 1)..n : s[j] \in S
    BY <1>1
  <2> QED
    BY <2>1, SubSeqProperties
<1>4. RemoveAt(s, a) = b \o c
  BY DEF RemoveAt
<1> HIDE DEF b, c, n
<1>5. Len(b) = a - 1 /\ Len(c) = n - a
  <2> DEFINE x == Len(b)  y == Len(c)
  <2>1. x = (IF 1 <= a - 1 THEN (a - 1) - 1 + 1 ELSE 0) /\ y = (IF a + 1 <= n THEN n - (a + 1) + 1 ELSE 0)
    BY <1>2, <1>3
  <2> HIDE DEF x, y
  <2>2. x = a - 1 /\ y = n - a
    BY <1>1, <2>1
  <2> QED
    BY <2>2 DEF x, y
<1> DEFINE r == b \o c
<1>6. /\ r \in Seq(S)
      /\ Len(r) = Len(b) + Len(c)
      /\ \A j \in 1..Len(b) : r[j] = b[j]
      /\ \A j \in 1..Len(c) : r[Len(b) + j] = c[j]
  <2>1. b \in Seq(S) /\ c \in Seq(S)
    BY <1>2, <1>3
  <2> QED
    BY <2>1
<1> HIDE DEF r
<1>7. ASSUME NEW j \in 1..(n - 1) PROVE r[j] = IF j < a THEN s[j] ELSE s[j + 1]
  <2>1. CASE j < a
    <3>1. j \in 1..Len(b) /\ j \in 1..((a - 1) - 1 + 1) /\ 1 + j - 1 = j
      BY <1>1, <1>5, <2>1
    <3> QED
      BY <1>2, <1>6, <2>1, <3>1
  <2>2. CASE ~(j < a)
    <3> DEFINE k == j - (a - 1)
    <3>1. k \in 1..Len(c) /\ k \in 1..(n - (a + 1) + 1) /\ j = Len(b) + k /\ (a + 1) + k - 1 = j + 1
      BY <1>1, <1>5, <2>2
    <3> HIDE DEF k
    <3> QED
      BY <1>3, <1>6, <2>2, <3>1
  <2> QED
    BY <2>1, <2>2
<1>8. r \in Seq(S) /\ Len(r) = n - 1
  BY <1>1, <1>5, <1>6
<1> QED
  BY <1>4, <1>7, <1>8 DEF r, n

\* e tells where the links k come from in l: in the same order, all but those at S.
Keeps(e, l, S, k) ==
    /\ e \in [1..Len(k) -> 1..Len(l)]
    /\ \A j, m \in 1..Len(k) : j < m => e[j] < e[m]
    /\ \A j \in 1..Len(k) : e[j] \notin S /\ k[j] = l[e[j]]
    /\ \A j \in (1..Len(l)) \ S : \E m \in 1..Len(k) : e[m] = j
    /\ \A j \in 1..Len(l) : (\A s \in S : j < s) => j <= Len(k) /\ e[j] = j

\* Links k are links l without those at S.
Thinned(l, S, k) == \E e : Keeps(e, l, S, k)

\* Nothing removed, nothing moved.
LEMMA ThinNone ==
    ASSUME NEW T, NEW l \in Seq(T)
    PROVE  Thinned(l, {}, l)
<1> DEFINE e == [j \in 1..Len(l) |-> j]
<1>1. Keeps(e, l, {}, l)
  BY DEF Keeps
<1> QED
  BY <1>1, Zenon DEF Thinned

\* Where everything removed stood behind it, a link is where it was.
LEMMA ThinOne ==
    ASSUME NEW T, NEW l \in Seq(T), NEW k \in Seq(T), NEW S \in SUBSET (1..Len(l)),
           NEW a \in 1..Len(l), \A s \in S : a < s, Thinned(l, S, k)
    PROVE  /\ a \in 1..Len(k)
           /\ Thinned(l, S \cup {a}, RemoveAt(k, a))
<1>1. PICK e : Keeps(e, l, S, k)
  BY DEF Thinned
<1> DEFINE n == Len(k)
           h == Len(l)
           r == RemoveAt(k, a)
<1>2. n \in Nat /\ h \in Nat /\ a \in 1..h
  OBVIOUS
<1>3. a <= n /\ e[a] = a
  BY <1>1 DEF Keeps
<1>4. a \in 1..n
  BY <1>2, <1>3
<1>5. Len(r) = n - 1 /\ \A j \in 1..(n - 1) : r[j] = IF j < a THEN k[j] ELSE k[j + 1]
  BY <1>4, RemovedAt
<1>6. /\ e \in [1..n -> 1..h]
      /\ \A j, m \in 1..n : j < m => e[j] < e[m]
      /\ \A j \in 1..n : e[j] \notin S /\ k[j] = l[e[j]]
      /\ \A j \in (1..h) \ S : \E m \in 1..n : e[m] = j
      /\ \A j \in 1..h : (\A s \in S : j < s) => j <= n /\ e[j] = j
  BY <1>1 DEF Keeps
<1> DEFINE f == [j \in 1..(n - 1) |-> IF j < a THEN e[j] ELSE e[j + 1]]
<1> HIDE DEF n, h, r
<1>7. \A j \in 1..(n - 1) : (IF j < a THEN j ELSE j + 1) \in 1..n
  BY <1>2
<1>8. /\ \A j \in 1..(n - 1) : f[j] = IF j < a THEN e[j] ELSE e[j + 1]
      /\ f = [j \in 1..(n - 1) |-> f[j]]
  OBVIOUS
<1> HIDE DEF f
<1>9. \A j \in 1..(n - 1) : f[j] \in 1..h
  BY <1>6, <1>7, <1>8
<1>10. \A j, m \in 1..(n - 1) : j < m => f[j] < f[m]
  <2> TAKE j, m \in 1..(n - 1)
  <2> HAVE j < m
  <2> DEFINE x == IF j < a THEN j ELSE j + 1
             y == IF m < a THEN m ELSE m + 1
  <2>1. x \in 1..n /\ y \in 1..n
    BY <1>7
  <2>2. x < y
    BY <1>2
  <2>3. f[j] = e[x] /\ f[m] = e[y]
    BY <1>8
  <2> HIDE DEF x, y
  <2> QED
    BY <1>6, <2>1, <2>2, <2>3
<1>11. \A j \in 1..(n - 1) : f[j] \notin S \cup {a} /\ r[j] = l[f[j]]
  <2> TAKE j \in 1..(n - 1)
  <2> DEFINE x == IF j < a THEN j ELSE j + 1
  <2>1. x \in 1..n /\ x # a
    BY <1>2, <1>7
  <2>2. f[j] = e[x] /\ r[j] = k[x]
    BY <1>5, <1>8
  <2> HIDE DEF x
  <2>3. e[x] # a
    <3>1. x < a \/ a < x
      BY <1>2, <2>1
    <3>2. e[x] < e[a] \/ e[a] < e[x]
      BY <1>4, <1>6, <2>1, <3>1
    <3>3. e[x] \in 1..h
      BY <1>6, <2>1
    <3> QED
      BY <1>2, <1>3, <3>2, <3>3
  <2> QED
    BY <1>6, <2>1, <2>2, <2>3
<1>12. \A j \in (1..h) \ (S \cup {a}) : \E m \in 1..(n - 1) : f[m] = j
  <2> TAKE j \in (1..h) \ (S \cup {a})
  <2>1. PICK m \in 1..n : e[m] = j
    BY <1>6
  <2>2. m # a
    BY <1>3, <2>1
  <2>3. CASE m < a
    <3>1. m \in 1..(n - 1)
      BY <1>2, <1>4, <2>3
    <3> QED
      BY <1>8, <2>1, <2>3, <3>1
  <2>4. CASE a < m
    <3>1. m - 1 \in 1..(n - 1) /\ ~(m - 1 < a) /\ (m - 1) + 1 = m
      BY <1>2, <1>4, <2>4
    <3> QED
      BY <1>8, <2>1, <3>1
  <2> QED
    BY <1>2, <2>2, <2>3, <2>4
<1>13. \A j \in 1..h : (\A s \in S \cup {a} : j < s) => j <= n - 1 /\ f[j] = j
  <2> TAKE j \in 1..h
  <2> HAVE \A s \in S \cup {a} : j < s
  <2>1. j < a /\ j \in 1..(n - 1)
    BY <1>2, <1>4
  <2>2. e[j] = j
    BY <1>6
  <2> QED
    BY <1>2, <1>8, <2>1, <2>2
<1>14. f \in [1..(n - 1) -> 1..h]
  BY <1>8, <1>9
<1>15. Keeps(f, l, S \cup {a}, r)
  BY <1>5, <1>10, <1>11, <1>12, <1>13, <1>14 DEF Keeps, h
<1> QED
  BY <1>4, <1>15, Zenon DEF Thinned, n, r

\* Each element is greater than those after it.
Descending(s) == \A j, k \in DOMAIN s : j < k => s[j] > s[k]

\* A set of indices can be listed highest first.
LEMMA DescendingExists ==
    ASSUME NEW n \in Nat, NEW S \in SUBSET (1..n)
    PROVE  \E s \in [1..Cardinality(S) -> S] : Descending(s)
<1> DEFINE Can(T) == \E s \in [1..Cardinality(T) -> T] : Descending(s)
           Cannot == {m \in Nat : \E T \in SUBSET (1..m) : ~Can(T)}
<1>1. Cannot = {}
  <2> SUFFICES ASSUME Cannot # {} PROVE FALSE
    OBVIOUS
  <2>1. PICK m \in Cannot : \A k \in Cannot : m <= k
    <3>1. Cannot \in SUBSET Nat
      OBVIOUS
    <3> HIDE DEF Cannot
    <3> QED
      BY <3>1, LeastNat
  <2>2. m \in Nat
    OBVIOUS
  <2>3. PICK T \in SUBSET (1..m) : ~Can(T)
    OBVIOUS
  <2> HIDE DEF Can
  <2>4. T # {}
    <3> SUFFICES ASSUME T = {} PROVE Can(T)
      BY <2>3
    <3>1. Cardinality(T) = 0
      BY FS_EmptySet
    <3> DEFINE e == [k \in {} |-> k]
    <3>2. 1..Cardinality(T) = {}
      BY <3>1
    <3>3. e \in [1..Cardinality(T) -> T] /\ DOMAIN e = {}
      BY <3>2
    <3> HIDE DEF e
    <3>4. Descending(e)
      BY <3>3 DEF Descending
    <3> QED
      BY <3>3, <3>4, Zenon DEF Can
  <2>5. m # 0
    <3> SUFFICES ASSUME m = 0 PROVE FALSE
      OBVIOUS
    <3>1. T \in SUBSET (1..0)
      BY <2>3
    <3>2. 1..0 = {}
      OBVIOUS
    <3> QED
      BY <2>4, <3>1, <3>2
  <2> DEFINE U == T \ {m}
  <2>6. U \in SUBSET (1..(m - 1)) /\ m - 1 \in Nat
    BY <2>2, <2>5
  <2>7. Can(U)
    <3>1. m - 1 \notin Cannot
      <4>1. ~(m <= m - 1)
        BY <2>2
      <4> HIDE DEF Cannot
      <4> QED
        BY <2>1, <4>1
    <3> QED
      BY <2>6, <3>1
  <2>8. m \in T
    <3>1. U # T
      BY <2>3, <2>7
    <3> QED
      BY <3>1
  <2>9. PICK s \in [1..Cardinality(U) -> U] : Descending(s)
    BY <2>7 DEF Can
  <2>10. IsFiniteSet(T) /\ IsFiniteSet(U) /\ Cardinality(U) \in Nat
         /\ Cardinality(T) = Cardinality(U) + 1
    <3>1. IsFiniteSet(1..m)
      BY <2>2, FS_Interval
    <3>2. IsFiniteSet(T)
      BY <3>1, FS_Subset
    <3>3. IsFiniteSet(U) /\ Cardinality(U) = Cardinality(T) - 1
      BY <2>8, <3>2, FS_RemoveElement
    <3> QED
      BY <3>2, <3>3, FS_CardinalityType
  <2> DEFINE c == Cardinality(U)
             t == [k \in 1..(c + 1) |-> IF k = 1 THEN m ELSE s[k - 1]]
  <2> HIDE DEF c
  <2>11. c \in Nat /\ Cardinality(T) = c + 1 /\ s \in [1..c -> U]
    BY <2>9, <2>10 DEF c
  <2>12. \A k \in 1..c : s[k] \in U /\ s[k] \in Nat /\ s[k] < m
    <3>1. \A x \in U : x \in Nat /\ x < m
      BY <2>2, <2>6
    <3> HIDE DEF U
    <3>2. \A k \in 1..c : s[k] \in U
      BY <2>11
    <3> QED
      BY <3>1, <3>2
  <2> HIDE DEF U
  <2>13. t \in [1..(c + 1) -> T]
    <3>1. \A k \in 1..(c + 1) : k # 1 => k - 1 \in 1..c
      BY <2>11
    <3>2. \A k \in 1..c : s[k] \in T
      BY <2>12 DEF U
    <3> QED
      BY <2>8, <3>1, <3>2
  <2>14. Descending(t)
    <3> SUFFICES ASSUME NEW j \in 1..(c + 1), NEW k \in 1..(c + 1), j < k
                 PROVE  t[j] > t[k]
      BY <2>13 DEF Descending
    <3>1. k # 1 /\ k - 1 \in 1..c /\ t[k] = s[k - 1]
      BY <2>11
    <3>2. CASE j = 1
      BY <2>2, <2>12, <3>1, <3>2
    <3>3. CASE j # 1
      <4>1. j - 1 \in 1..c /\ j - 1 < k - 1 /\ t[j] = s[j - 1]
        BY <2>11, <3>3
      <4>2. s[j - 1] > s[k - 1]
        BY <2>9, <2>11, <3>1, <4>1 DEF Descending
      <4> QED
        BY <3>1, <4>1, <4>2
    <3> QED
      BY <3>2, <3>3
  <2> HIDE DEF t
  <2>15. Can(T)
    BY <2>11, <2>13, <2>14 DEF Can
  <2> QED
    BY <2>3, <2>15
<1> QED
  BY <1>1

\* OrderDescending lists every index once, highest first.
LEMMA Removals ==
    ASSUME NEW h \in Nat, NEW S \in SUBSET (1..h)
    PROVE  /\ Cardinality(S) \in Nat
           /\ RemovalOrder(S) \in [1..Cardinality(S) -> S]
           /\ \A j, k \in 1..Cardinality(S) : j < k => RemovalOrder(S)[j] > RemovalOrder(S)[k]
           /\ \A s \in S : \E k \in 1..Cardinality(S) : RemovalOrder(S)[k] = s
<1> DEFINE r == RemovalOrder(S)
           n == Cardinality(S)
<1>1. r \in [1..n -> S] /\ Descending(r)
  <2>1. \E s \in [1..Cardinality(S) -> S] : \A j, k \in DOMAIN s : j < k => s[j] > s[k]
    BY DescendingExists DEF Descending
  <2> QED
    BY <2>1, Zenon DEF RemovalOrder, Descending
<1>2. IsFiniteSet(S) /\ n \in Nat
  <2>1. IsFiniteSet(1..h)
    BY FS_Interval
  <2> QED
    BY <2>1, FS_Subset, FS_CardinalityType
<1> HIDE DEF r, n
<1>3. \A j, k \in 1..n : j < k => r[j] > r[k]
  BY <1>1 DEF Descending
<1>4. \A k \in 1..n : r[k] \in S /\ r[k] \in Int
  <2>1. \A k \in 1..n : r[k] \in S
    BY <1>1
  <2>2. \A x \in S : x \in Int
    OBVIOUS
  <2> QED
    BY <2>1, <2>2
<1>5. r \in Injection(1..n, S)
  <2>1. \A j, k \in 1..n : r[j] = r[k] => j = k
    <3> TAKE j, k \in 1..n
    <3> HAVE r[j] = r[k]
    <3>1. ~(j < k) /\ ~(k < j)
      BY <1>3, <1>4
    <3> QED
      BY <1>2, <3>1
  <2> QED
    BY <1>1, <2>1 DEF Injection, IsInjective
<1>6. IsFiniteSet(1..n) /\ Cardinality(1..n) = Cardinality(S)
  BY <1>2, FS_Interval DEF n
<1>7. r \in Surjection(1..n, S)
  BY <1>2, <1>5, <1>6, FS_Injection
<1>8. \A s \in S : \E k \in 1..n : r[k] = s
  BY <1>7 DEF Surjection
<1> QED
  BY <1>1, <1>2, <1>3, <1>8 DEF r, n

\* Nothing but the links of an item changed.
OnlyLinks(i, n) ==
    /\ n \in Item
    /\ n.rev = i.rev /\ n.fields = i.fields /\ n.hours = i.hours /\ n.state = i.state

\* One removal.
LEMMA Unlinked ==
    ASSUME NEW i \in Item, NEW a \in 1..Len(i.links)
    PROVE  LET n == ApplyOperation(i, [op |-> "unlink", at |-> a])
           IN  OnlyLinks(i, n) /\ n.links = RemoveAt(i.links, a)
<1>1. i.links \in Seq(Link) /\ a \in DOMAIN i.links
  BY DEF Item
<1>2. RemoveAt(i.links, a) \in Seq(Link)
  BY <1>1, RemovedAt
<1>3. ApplyOperation(i, [op |-> "unlink", at |-> a]) = [i EXCEPT !.links = RemoveAt(i.links, a)]
  BY <1>1 DEF ApplyOperation
<1> DEFINE r == RemoveAt(i.links, a)
<1> HIDE DEF r
<1> QED
  BY <1>2, <1>3 DEF OnlyLinks, Item, r

\* One addition.
LEMMA Linked ==
    ASSUME NEW i \in Item, NEW l \in Link
    PROVE  LET n == ApplyOperation(i, [op |-> "link", link |-> l])
           IN  OnlyLinks(i, n) /\ n.links = Append(i.links, l)
<1>1. i.links \in Seq(Link)
  BY DEF Item
<1>2. Append(i.links, l) \in Seq(Link)
  BY <1>1
<1>3. ApplyOperation(i, [op |-> "link", link |-> l]) = [i EXCEPT !.links = Append(i.links, l)]
  BY DEF ApplyOperation
<1> DEFINE r == Append(i.links, l)
<1> HIDE DEF r
<1> QED
  BY <1>2, <1>3 DEF OnlyLinks, Item, r

\* The removals and the additions of a document.
Unlinks(S) ==
    [k \in DOMAIN RemovalOrder(S) |-> [op |-> "unlink", at |-> RemovalOrder(S)[k]]]

Links(adds) == [k \in DOMAIN adds |-> [op |-> "link", link |-> adds[k]]]

\* The removals take away the links at the indices they were computed from.
LEMMA FinalUnlinks ==
    ASSUME NEW i \in Item, NEW S \in SUBSET (1..Len(i.links))
    PROVE  /\ IsSeq(Unlinks(S))
           /\ OnlyLinks(i, Final(i, Unlinks(S)))
           /\ Thinned(i.links, S, Final(i, Unlinks(S)).links)
<1> DEFINE n == Cardinality(S)
           r == RemovalOrder(S)
           d == Unlinks(S)
           h == Len(i.links)
           v == Versions(i, d)
           T(k) == {r[j] : j \in 1..k}
           Right(k) == OnlyLinks(i, v[k]) /\ Thinned(i.links, T(k), v[k].links)
<1>1. h \in Nat /\ i.links \in Seq(Link)
  BY DEF Item
<1>2. /\ n \in Nat
      /\ r \in [1..n -> S]
      /\ \A j, k \in 1..n : j < k => r[j] > r[k]
      /\ \A s \in S : \E k \in 1..n : r[k] = s
  BY <1>1, Removals
<1>3. d = [k \in 1..n |-> [op |-> "unlink", at |-> r[k]]]
  BY <1>2 DEF Unlinks
<1>4. IsSeq(d) /\ Len(d) = n
  <2> HIDE DEF d, r, n
  <2>1. d = [k \in 1..n |-> d[k]]
    BY <1>3
  <2> QED
    BY <1>2, <2>1, ListIsSeq
<1>5. v[0] = i /\ \A k \in 1..n : v[k] = ApplyOperation(v[k - 1], d[k])
  BY <1>2, <1>4, VersionsStep
<1> HIDE DEF n, r, d, v, h
<1>6. Right(0)
  <2>1. T(0) = {}
    OBVIOUS
  <2>2. Thinned(i.links, {}, i.links)
    BY <1>1, ThinNone
  <2> QED
    BY <1>5, <2>1, <2>2 DEF OnlyLinks
<1>7. ASSUME NEW k \in 1..n, Right(k - 1) PROVE Right(k)
  <2>1. r[k] \in S /\ r[k] \in 1..h /\ d[k] = [op |-> "unlink", at |-> r[k]]
    BY <1>2, <1>3 DEF h
  <2>2. v[k - 1] \in Item /\ v[k - 1].links \in Seq(Link)
    BY <1>7 DEF OnlyLinks, Item
  <2>3. T(k - 1) \in SUBSET (1..h) /\ \A s \in T(k - 1) : r[k] < s
    <3>1. \A j \in 1..(k - 1) : j \in 1..n /\ j < k
      BY <1>2
    <3>2. \A j \in 1..(k - 1) : r[j] \in 1..h /\ r[j] > r[k]
      BY <1>2, <3>1 DEF h
    <3>3. \A j \in 1..(k - 1) : r[k] < r[j]
      BY <1>1, <2>1, <3>2
    <3> QED
      BY <3>2, <3>3
  <2>4. /\ r[k] \in 1..Len(v[k - 1].links)
        /\ Thinned(i.links, T(k - 1) \cup {r[k]}, RemoveAt(v[k - 1].links, r[k]))
    BY <1>1, <1>7, <2>1, <2>2, <2>3, ThinOne DEF h
  <2>5. T(k - 1) \cup {r[k]} = T(k)
    <3>1. \A j : j \in 1..k <=> j \in 1..(k - 1) \/ j = k
      BY <1>2
    <3> QED
      BY <3>1
  <2>6. OnlyLinks(v[k - 1], v[k]) /\ v[k].links = RemoveAt(v[k - 1].links, r[k])
    BY <1>5, <2>1, <2>2, <2>4, Unlinked
  <2>7. OnlyLinks(i, v[k])
    BY <1>7, <2>6 DEF OnlyLinks
  <2> HIDE DEF T
  <2> QED
    BY <2>4, <2>5, <2>6, <2>7
<1>8. Right(n)
  <2> HIDE DEF Right
  <2> DEFINE Wrong == {k \in 0..n : ~Right(k)}
  <2> SUFFICES ASSUME Wrong # {} PROVE FALSE
    BY <1>2
  <2>1. PICK k \in Wrong : \A j \in Wrong : k <= j
    <3>1. Wrong \in SUBSET Nat
      BY <1>2
    <3> HIDE DEF Wrong
    <3> QED
      BY <3>1, LeastNat
  <2>2. k \in 1..n /\ k - 1 \in 0..n /\ ~(k <= k - 1)
    BY <1>2, <1>6
  <2>3. Right(k - 1)
    BY <2>1, <2>2
  <2> QED
    BY <1>7, <2>2, <2>3
<1>9. T(n) = S
  BY <1>2
<1>10. Final(i, d) = v[n]
  BY <1>4 DEF Final, v
<1> HIDE DEF T
<1> QED
  BY <1>4, <1>8, <1>9, <1>10 DEF d

\* The additions stand behind the links that were there.
LEMMA FinalLinks ==
    ASSUME NEW i \in Item, NEW adds \in Seq(Link)
    PROVE  /\ IsSeq(Links(adds))
           /\ OnlyLinks(i, Final(i, Links(adds)))
           /\ Len(Final(i, Links(adds)).links) = Len(i.links) + Len(adds)
           /\ \A j \in 1..Len(i.links) : Final(i, Links(adds)).links[j] = i.links[j]
           /\ \A j \in 1..Len(adds) :
                 Final(i, Links(adds)).links[Len(i.links) + j] = adds[j]
<1> DEFINE n == Len(adds)
           d == Links(adds)
           h == Len(i.links)
           v == Versions(i, d)
           Right(k) == /\ OnlyLinks(i, v[k])
                       /\ Len(v[k].links) = h + k
                       /\ \A j \in 1..h : v[k].links[j] = i.links[j]
                       /\ \A j \in 1..k : v[k].links[h + j] = adds[j]
<1>1. h \in Nat /\ i.links \in Seq(Link) /\ n \in Nat /\ \A k \in 1..n : adds[k] \in Link
  BY DEF Item
<1>2. d = [k \in 1..n |-> [op |-> "link", link |-> adds[k]]]
  BY DEF Links
<1>3. IsSeq(d) /\ Len(d) = n
  <2> HIDE DEF d, n
  <2>1. d = [k \in 1..n |-> d[k]]
    BY <1>2
  <2> QED
    BY <1>1, <2>1, ListIsSeq
<1>4. v[0] = i /\ \A k \in 1..n : v[k] = ApplyOperation(v[k - 1], d[k])
  BY <1>1, <1>3, VersionsStep
<1> HIDE DEF n, d, v, h
<1>5. Right(0)
  BY <1>1, <1>4 DEF OnlyLinks, h
<1>6. ASSUME NEW k \in 1..n, Right(k - 1) PROVE Right(k)
  <2>1. adds[k] \in Link /\ d[k] = [op |-> "link", link |-> adds[k]]
    BY <1>1, <1>2
  <2>2. v[k - 1] \in Item /\ v[k - 1].links \in Seq(Link)
    BY <1>6 DEF OnlyLinks, Item
  <2>3. OnlyLinks(v[k - 1], v[k]) /\ v[k].links = Append(v[k - 1].links, adds[k])
    <3> DEFINE a == v[k - 1]
               l == adds[k]
    <3>1. v[k] = ApplyOperation(a, [op |-> "link", link |-> l])
      BY <1>4, <2>1
    <3>2. a \in Item /\ l \in Link
      BY <2>1, <2>2
    <3> HIDE DEF a, l
    <3>3. OnlyLinks(a, v[k]) /\ v[k].links = Append(a.links, l)
      BY <3>1, <3>2, Linked
    <3> QED
      BY <3>3 DEF a, l
  <2>4. OnlyLinks(i, v[k])
    BY <1>6, <2>3 DEF OnlyLinks
  <2> DEFINE p == v[k - 1].links  q == v[k].links
  <2>5. Len(p) = h + (k - 1) /\ p \in Seq(Link)
    BY <1>6, <2>2
  <2>6. /\ Len(q) = Len(p) + 1
        /\ \A j \in 1..Len(p) : q[j] = p[j]
        /\ q[Len(p) + 1] = adds[k]
    BY <2>2, <2>3
  <2>7. /\ \A j \in 1..h : p[j] = i.links[j]
        /\ \A j \in 1..(k - 1) : p[h + j] = adds[j]
    BY <1>6
  <2> HIDE DEF p, q
  <2>8. Len(q) = h + k
    BY <1>1, <2>5, <2>6
  <2>9. \A j \in 1..h : q[j] = i.links[j]
    BY <1>1, <2>5, <2>6, <2>7
  <2>10. ASSUME NEW j \in 1..k PROVE q[h + j] = adds[j]
    <3>1. CASE j = k
      <4>1. h + j = Len(p) + 1
        BY <1>1, <2>5, <3>1
      <4> QED
        BY <2>6, <3>1, <4>1
    <3>2. CASE j # k
      <4>1. j \in 1..(k - 1) /\ h + j \in 1..Len(p)
        BY <1>1, <2>5, <3>2
      <4> QED
        BY <2>6, <2>7, <4>1
    <3> QED
      BY <3>1, <3>2
  <2> QED
    BY <2>4, <2>8, <2>9, <2>10 DEF q
<1>7. Right(n)
  <2> HIDE DEF Right
  <2> DEFINE Wrong == {k \in 0..n : ~Right(k)}
  <2> SUFFICES ASSUME Wrong # {} PROVE FALSE
    BY <1>1
  <2>1. PICK k \in Wrong : \A j \in Wrong : k <= j
    <3>1. Wrong \in SUBSET Nat
      BY <1>1
    <3> HIDE DEF Wrong
    <3> QED
      BY <3>1, LeastNat
  <2>2. k \in 1..n /\ k - 1 \in 0..n /\ ~(k <= k - 1)
    BY <1>1, <1>5
  <2>3. Right(k - 1)
    BY <2>1, <2>2
  <2> QED
    BY <1>6, <2>2, <2>3
<1>8. Final(i, d) = v[n]
  BY <1>3 DEF Final, v
<1> QED
  BY <1>3, <1>7, <1>8 DEF d, h, n

-------------------------------------------------------------------------------
(* What a PATCH makes of the version its document was computed from. *)

\* TFS keeps one parent at most.
OneParent(i) == \A j, k \in IsRel(i, "parent") : j = k

\* The links an update adds: the parent, if it names one, and the predecessors,
\* if it lists them.
LEMMA Additions ==
    ASSUME NEW w \in Want
    PROVE  /\ RelationAdds(w) \in Seq(Link)
           /\ \A k \in 1..Len(RelationAdds(w)) :
                 RelationAdds(w)[k].rel \in {"parent", "predecessor"}
           /\ \A j, k \in 1..Len(RelationAdds(w)) :
                 RelationAdds(w)[j].rel = "parent" /\ RelationAdds(w)[k].rel = "parent"
                    => j = k
           /\ {RelationAdds(w)[k].to :
                 k \in {j \in 1..Len(RelationAdds(w)) : RelationAdds(w)[j].rel = "parent"}}
                = {w.parent} \ {NoParent}
           /\ {RelationAdds(w)[k].to :
                 k \in {j \in 1..Len(RelationAdds(w)) : RelationAdds(w)[j].rel = "predecessor"}}
                = IF w.preds = Keep THEN {} ELSE ToSet(w.preds)
<1> DEFINE a == IF w.parent = NoParent THEN <<>>
                ELSE <<[rel |-> "parent", to |-> w.parent]>>
           b == IF w.preds = Keep THEN <<>>
                ELSE [k \in DOMAIN w.preds |-> [rel |-> "predecessor", to |-> w.preds[k]]]
           m == Len(a)
           n == Len(b)
           s == RelationAdds(w)
<1>1. w.parent \in Items \cup {NoParent} /\ (w.preds # Keep => w.preds \in Seq(Items))
  BY DEF Want
<1>2. /\ a \in Seq(Link) /\ m \in Nat
      /\ w.parent = NoParent => m = 0
      /\ w.parent # NoParent => m = 1 /\ a[1] = [rel |-> "parent", to |-> w.parent]
  <2>1. CASE w.parent = NoParent
    BY <2>1
  <2>2. CASE w.parent # NoParent
    <3>1. [rel |-> "parent", to |-> w.parent] \in Link
      BY <1>1, <2>2 DEF Link
    <3> QED
      BY <2>2, <3>1
  <2> QED
    BY <2>1, <2>2
<1>3. /\ b \in Seq(Link) /\ n \in Nat
      /\ w.preds = Keep => n = 0
      /\ w.preds # Keep =>
            /\ DOMAIN w.preds = 1..n
            /\ \A k \in 1..n : b[k] = [rel |-> "predecessor", to |-> w.preds[k]]
  <2>1. CASE w.preds = Keep
    BY <2>1
  <2>2. CASE w.preds # Keep
    <3> DEFINE h == Len(w.preds)
    <3>1. h \in Nat /\ DOMAIN w.preds = 1..h /\ \A k \in 1..h : w.preds[k] \in Items
      BY <1>1, <2>2
    <3>2. b = [k \in 1..h |-> [rel |-> "predecessor", to |-> w.preds[k]]]
      BY <2>2, <3>1
    <3>3. \A k \in 1..h : [rel |-> "predecessor", to |-> w.preds[k]] \in Link
      BY <3>1 DEF Link
    <3> HIDE DEF b, h
    <3>4. b \in [1..h -> Link]
      BY <3>2, <3>3
    <3>5. b \in Seq(Link) /\ Len(b) = h
      BY <3>1, <3>4
    <3> QED
      BY <2>2, <3>1, <3>2, <3>5
  <2> QED
    BY <2>1, <2>2
<1>4. s = a \o b
  BY DEF RelationAdds
<1> HIDE DEF a, b, s
<1>5. /\ s \in Seq(Link) /\ Len(s) = m + n
      /\ \A k \in 1..m : s[k] = a[k]
      /\ \A k \in 1..n : s[m + k] = b[k]
  BY <1>2, <1>3, <1>4
<1> HIDE DEF m, n
<1>6. \A k \in 1..m : w.parent # NoParent /\ k = 1 /\ s[k].rel = "parent" /\ s[k].to = w.parent
  BY <1>2, <1>5
<1>7. \A k \in 1..n :
         w.preds # Keep /\ s[m + k].rel = "predecessor" /\ s[m + k].to = w.preds[k]
  <2> TAKE k \in 1..n
  <2>1. w.preds # Keep
    BY <1>3
  <2>2. b[k] = [rel |-> "predecessor", to |-> w.preds[k]]
    BY <1>3, <2>1
  <2>3. s[m + k] = b[k]
    BY <1>5
  <2> QED
    BY <2>1, <2>2, <2>3
<1>8. \A k \in 1..(m + n) : k \in 1..m \/ \E j \in 1..n : k = m + j
  <2> TAKE k \in 1..(m + n)
  <2>1. CASE k <= m
    BY <1>2, <2>1
  <2>2. CASE ~(k <= m)
    <3>1. k - m \in 1..n /\ k = m + (k - m)
      BY <1>2, <1>3, <2>2
    <3> QED
      BY <3>1
  <2> QED
    BY <2>1, <2>2
<1>9. \A k \in 1..n : m + k \in 1..(m + n)
  BY <1>2, <1>3
<1>10. \A k \in 1..m : k \in 1..(m + n)
  BY <1>2, <1>3
<1>11. \A k \in 1..(m + n) : s[k].rel \in {"parent", "predecessor"}
  BY <1>6, <1>7, <1>8
<1>12. \A j, k \in 1..(m + n) : s[j].rel = "parent" /\ s[k].rel = "parent" => j = k
  BY <1>6, <1>7, <1>8
<1>13. {s[k].to : k \in {j \in 1..(m + n) : s[j].rel = "parent"}} = {w.parent} \ {NoParent}
  <2>1. ASSUME NEW k \in 1..(m + n), s[k].rel = "parent"
        PROVE  s[k].to \in {w.parent} \ {NoParent}
    BY <1>6, <1>7, <1>8, <2>1
  <2>2. ASSUME w.parent # NoParent
        PROVE  \E k \in 1..(m + n) : s[k].rel = "parent" /\ s[k].to = w.parent
    <3>1. 1 \in 1..m
      BY <1>2, <2>2
    <3> QED
      BY <1>6, <1>10, <3>1
  <2> QED
    BY <2>1, <2>2
<1>14. {s[k].to : k \in {j \in 1..(m + n) : s[j].rel = "predecessor"}}
         = IF w.preds = Keep THEN {} ELSE ToSet(w.preds)
  <2>1. CASE w.preds = Keep
    BY <1>6, <1>7, <1>8, <2>1
  <2>2. CASE w.preds # Keep
    <3>1. ToSet(w.preds) = {w.preds[k] : k \in 1..n}
      BY <1>3, <2>2 DEF ToSet
    <3>2. ASSUME NEW k \in 1..(m + n), s[k].rel = "predecessor"
          PROVE  s[k].to \in {w.preds[j] : j \in 1..n}
      BY <1>6, <1>7, <1>8, <3>2
    <3>3. ASSUME NEW k \in 1..n
          PROVE  \E j \in 1..(m + n) : s[j].rel = "predecessor" /\ s[j].to = w.preds[k]
      BY <1>7, <1>9
    <3> QED
      BY <2>2, <3>1, <3>2, <3>3
  <2> QED
    BY <2>1, <2>2
<1>15. m + n = Len(s)
  BY <1>5
<1>16. /\ \A k \in 1..Len(s) : s[k].rel \in {"parent", "predecessor"}
       /\ \A j, k \in 1..Len(s) : s[j].rel = "parent" /\ s[k].rel = "parent" => j = k
  BY <1>11, <1>12, <1>15
<1>17. {s[k].to : k \in {j \in 1..Len(s) : s[j].rel = "parent"}} = {w.parent} \ {NoParent}
  BY <1>13, <1>15
<1>18. {s[k].to : k \in {j \in 1..Len(s) : s[j].rel = "predecessor"}}
         = IF w.preds = Keep THEN {} ELSE ToSet(w.preds)
  BY <1>14, <1>15
<1>19. s \in Seq(Link)
  BY <1>5
<1> QED
  BY <1>16, <1>17, <1>18, <1>19, Zenon DEF s

\* Two versions whose other links correspond, in order, have the same Others.
LEMMA SameOthers ==
    ASSUME NEW i \in Item, NEW n \in Item,
           NEW e \in [IsRel(n, "related") -> IsRel(i, "related")],
           \A x, y \in IsRel(n, "related") : x < y => e[x] < e[y],
           \A z \in IsRel(i, "related") : \E x \in IsRel(n, "related") : e[x] = z,
           \A x \in IsRel(n, "related") : n.links[x].to = i.links[e[x]].to
    PROVE  Others(n) = Others(i)
<1> DEFINE A == IsRel(n, "related")
           B == IsRel(i, "related")
           To(x) == n.links[x].to
           Of(z) == i.links[z].to
<1>1. IsFiniteSet(A) /\ A \in SUBSET Nat /\ B \in SUBSET Nat
  <2>1. n.links \in Seq(Link) /\ i.links \in Seq(Link)
    BY DEF Item
  <2>2. A \in SUBSET (1..Len(n.links)) /\ B \in SUBSET (1..Len(i.links))
    BY <2>1 DEF IsRel
  <2>3. IsFiniteSet(1..Len(n.links))
    BY <2>1, FS_Interval
  <2> QED
    BY <2>2, <2>3, FS_Subset
<1>2. ASSUME NEW x \in A
      PROVE  Cardinality({j \in A : j <= x}) = Cardinality({j \in B : j <= e[x]})
  <2> DEFINE S == {j \in A : j <= x}
             T == {j \in B : j <= e[x]}
             f == [j \in S |-> e[j]]
  <2>1. \A j \in A : (j <= x <=> e[j] <= e[x]) /\ e[j] \in B
    <3> TAKE j \in A
    <3>1. j \in Nat /\ x \in Nat /\ e[j] \in Nat /\ e[x] \in Nat /\ e[j] \in B
      BY <1>1
    <3>2. j < x => e[j] < e[x]
      OBVIOUS
    <3>3. x < j => e[x] < e[j]
      OBVIOUS
    <3> QED
      BY <3>1, <3>2, <3>3
  <2> HIDE DEF A, B
  <2>2. f \in [S -> T]
    BY <2>1
  <2>3. \A j, k \in S : f[j] = f[k] => j = k
    <3> TAKE j, k \in S
    <3> HAVE f[j] = f[k]
    <3>1. j \in A /\ k \in A /\ e[j] = e[k]
      OBVIOUS
    <3>2. j \in Nat /\ k \in Nat /\ e[j] \in Nat
      BY <1>1, <2>1, <3>1
    <3>3. ~(j < k) /\ ~(k < j)
      BY <3>1, <3>2 DEF A
    <3> QED
      BY <3>2, <3>3
  <2>4. \A z \in T : \E j \in S : f[j] = z
    <3> TAKE z \in T
    <3>1. PICK j \in A : e[j] = z
      BY DEF A, B
    <3>2. j \in S
      BY <2>1, <3>1
    <3> QED
      BY <3>1, <3>2
  <2> HIDE DEF f, S, T
  <2>5. ExistsBijection(S, T)
    <3>1. f \in Bijection(S, T)
      BY <2>2, <2>3, <2>4 DEF Bijection, Injection, Surjection, IsInjective
    <3> QED
      BY <3>1, Zenon DEF ExistsBijection
  <2>6. IsFiniteSet(S)
    BY <1>1, FS_Subset DEF S
  <2>7. Cardinality(S) = Cardinality(T)
    BY <2>5, <2>6, FS_Bijection
  <2> QED
    BY <2>7 DEF S, T
<1>3. \A x \in A : e[x] \in B /\ To(x) = Of(e[x])
  OBVIOUS
<1>4. \A z \in B : \E x \in A : e[x] = z
  OBVIOUS
<1> DEFINE C(x) == Cardinality({j \in A : j <= x})
           D(z) == Cardinality({j \in B : j <= z})
<1>5. Others(n) = {<<C(x), To(x)>> : x \in A}
  BY DEF Others
<1>6. Others(i) = {<<D(z), Of(z)>> : z \in B}
  BY DEF Others
<1>7. \A x \in A : C(x) = D(e[x])
  BY <1>2
<1> HIDE DEF A, B, C, D, To, Of
<1>8. {<<C(x), To(x)>> : x \in A} \subseteq {<<D(z), Of(z)>> : z \in B}
  BY <1>3, <1>7
<1>9. {<<D(z), Of(z)>> : z \in B} \subseteq {<<C(x), To(x)>> : x \in A}
  BY <1>3, <1>4, <1>7
<1> QED
  BY <1>5, <1>6, <1>8, <1>9

\* Version n has the links the update w of version i asks for.
LinkedAsAsked(i, w, n) ==
    /\ OneParent(n)
    /\ LinksTo(n, "parent") = {w.parent} \ {NoParent}
    /\ LinksTo(n, "predecessor") =
          IF w.preds = Keep THEN LinksTo(i, "predecessor") ELSE ToSet(w.preds)
    /\ Others(n) = Others(i)

\* What is left of the links after the removals, followed by the additions, is
\* what the update asks for.
LEMMA LinksReplaced ==
    ASSUME NEW i \in Item, OneParent(i), NEW w \in Want, NEW m \in Item, NEW n \in Item,
           Thinned(i.links, RelationRemovals(i, w), m.links),
           Len(n.links) = Len(m.links) + Len(RelationAdds(w)),
           \A j \in 1..Len(m.links) : n.links[j] = m.links[j],
           \A j \in 1..Len(RelationAdds(w)) :
              n.links[Len(m.links) + j] = RelationAdds(w)[j]
    PROVE  LinkedAsAsked(i, w, n)
<1> DEFINE l == i.links
           k == m.links
           g == n.links
           s == RelationAdds(w)
           R == RelationRemovals(i, w)
           h == Len(l)
           c == Len(k)
           a == Len(s)
<1>1. /\ l \in Seq(Link) /\ k \in Seq(Link) /\ g \in Seq(Link)
      /\ h \in Nat /\ c \in Nat /\ a \in Nat /\ Len(g) = c + a
      /\ DOMAIN l = 1..h /\ DOMAIN g = 1..(c + a)
  <2>1. l \in Seq(Link) /\ k \in Seq(Link) /\ g \in Seq(Link) /\ s \in Seq(Link)
    BY Additions DEF Item
  <2> QED
    BY <2>1
<1>2. /\ \A j \in 1..a : s[j].rel \in {"parent", "predecessor"}
      /\ \A x, y \in 1..a : s[x].rel = "parent" /\ s[y].rel = "parent" => x = y
      /\ {s[x].to : x \in {j \in 1..a : s[j].rel = "parent"}} = {w.parent} \ {NoParent}
      /\ {s[x].to : x \in {j \in 1..a : s[j].rel = "predecessor"}}
           = IF w.preds = Keep THEN {} ELSE ToSet(w.preds)
  BY Additions
<1>3. PICK e : Keeps(e, l, R, k)
  BY DEF Thinned
<1>4. /\ e \in [1..c -> 1..h]
      /\ \A x, y \in 1..c : x < y => e[x] < e[y]
      /\ \A x \in 1..c : e[x] \notin R /\ k[x] = l[e[x]]
      /\ \A z \in (1..h) \ R : \E x \in 1..c : e[x] = z
  BY <1>3 DEF Keeps
<1>5. /\ \A rel, z : z \in IsRel(i, rel) <=> z \in 1..h /\ l[z].rel = rel
      /\ \A rel, z : z \in IsRel(n, rel) <=> z \in 1..(c + a) /\ g[z].rel = rel
  BY <1>1 DEF IsRel
<1>6. R = FirstRel(i, "parent")
            \cup (IF w.preds = Keep THEN {} ELSE IsRel(i, "predecessor"))
  BY DEF RelationRemovals
<1>7. (\A x \in 1..c : g[x] = k[x]) /\ (\A x \in 1..a : g[c + x] = s[x])
  OBVIOUS
<1>8. \A x, y \in IsRel(i, "parent") : x = y
  BY DEF OneParent
<1>9. \A z \in IsRel(i, "parent") : z \in R
  <2>1. \A z \in IsRel(i, "parent") : z \in FirstRel(i, "parent")
    <3> TAKE z \in IsRel(i, "parent")
    <3>1. z \in Nat
      BY <1>1, <1>5
    <3>2. \A y \in IsRel(i, "parent") : z <= y
      BY <1>8, <3>1
    <3> QED
      BY <3>2 DEF FirstRel
  <2> QED
    BY <1>6, <2>1
<1>10. \A z \in R : \/ l[z].rel = "parent"
                    \/ w.preds # Keep /\ l[z].rel = "predecessor"
  BY <1>5, <1>6 DEF FirstRel
<1> HIDE DEF l, k, g, s, R, h, c, a
<1>11. \A z \in 1..(c + a) : z \in 1..c \/ \E x \in 1..a : z = c + x
  <2> TAKE z \in 1..(c + a)
  <2>1. CASE z <= c
    BY <1>1, <2>1
  <2>2. CASE ~(z <= c)
    <3>1. z - c \in 1..a /\ z = c + (z - c)
      BY <1>1, <2>2
    <3> QED
      BY <3>1
  <2> QED
    BY <2>1, <2>2
<1>12. (\A x \in 1..c : x \in 1..(c + a)) /\ (\A x \in 1..a : c + x \in 1..(c + a))
  BY <1>1
<1>13. \A x \in 1..c : /\ e[x] \in 1..h /\ g[x] = l[e[x]] /\ e[x] \notin R
                       /\ e[x] \notin IsRel(i, "parent")
                       /\ g[x].rel # "parent"
  <2> TAKE x \in 1..c
  <2>1. e[x] \in 1..h /\ g[x] = l[e[x]] /\ e[x] \notin R /\ e[x] \notin IsRel(i, "parent")
    BY <1>4, <1>7, <1>9
  <2> QED
    BY <1>5, <2>1
<1>14. \A z \in IsRel(n, "parent") : \E x \in 1..a : z = c + x /\ s[x].rel = "parent" /\ g[z] = s[x]
  BY <1>5, <1>7, <1>11, <1>13
<1>15. OneParent(n)
  <2> SUFFICES ASSUME NEW y \in IsRel(n, "parent"), NEW z \in IsRel(n, "parent")
               PROVE  y = z
    BY DEF OneParent
  <2> QED
    BY <1>2, <1>14
<1>16. LinksTo(n, "parent") = {w.parent} \ {NoParent}
  <2>1. \A z \in IsRel(n, "parent") : g[z].to \in {s[x].to : x \in {j \in 1..a : s[j].rel = "parent"}}
    BY <1>14
  <2>2. \A x \in 1..a : s[x].rel = "parent" =>
           c + x \in IsRel(n, "parent") /\ g[c + x].to = s[x].to
    BY <1>5, <1>7, <1>12
  <2>3. {g[z].to : z \in IsRel(n, "parent")} = {s[x].to : x \in {j \in 1..a : s[j].rel = "parent"}}
    BY <2>1, <2>2
  <2> QED
    BY <1>2, <2>3 DEF LinksTo, g
<1>17. LinksTo(n, "predecessor") =
          IF w.preds = Keep THEN LinksTo(i, "predecessor") ELSE ToSet(w.preds)
  <2>1. LinksTo(n, "predecessor") = {g[z].to : z \in IsRel(n, "predecessor")}
        /\ LinksTo(i, "predecessor") = {l[z].to : z \in IsRel(i, "predecessor")}
    BY DEF LinksTo, g, l
  <2>2. CASE w.preds = Keep
    <3>1. \A x \in 1..a : s[x].rel # "predecessor"
      <4> SUFFICES ASSUME NEW x \in 1..a, s[x].rel = "predecessor" PROVE FALSE
        OBVIOUS
      <4>1. {s[y].to : y \in {j \in 1..a : s[j].rel = "predecessor"}} = {}
        BY <1>2, <2>2
      <4>2. s[x].to \in {s[y].to : y \in {j \in 1..a : s[j].rel = "predecessor"}}
        OBVIOUS
      <4> QED
        BY <4>1, <4>2
    <3>2. \A z \in IsRel(n, "predecessor") : z \in 1..c
      BY <1>5, <1>7, <1>11, <3>1
    <3>3. \A z \in IsRel(n, "predecessor") :
             e[z] \in IsRel(i, "predecessor") /\ g[z].to = l[e[z]].to
      BY <1>5, <1>13, <3>2
    <3>4. \A z \in IsRel(i, "predecessor") :
             \E x \in IsRel(n, "predecessor") : g[x].to = l[z].to
      <4> TAKE z \in IsRel(i, "predecessor")
      <4>1. z \in 1..h /\ l[z].rel = "predecessor" /\ z \notin R
        BY <1>5, <1>10, <2>2
      <4>2. PICK x \in 1..c : e[x] = z
        BY <1>4, <4>1
      <4>3. x \in IsRel(n, "predecessor") /\ g[x].to = l[z].to
        BY <1>5, <1>12, <1>13, <4>1, <4>2
      <4> QED
        BY <4>3
    <3>5. {g[z].to : z \in IsRel(n, "predecessor")} = {l[z].to : z \in IsRel(i, "predecessor")}
      BY <3>3, <3>4
    <3> QED
      BY <2>1, <2>2, <3>5
  <2>3. CASE w.preds # Keep
    <3>1. \A z \in IsRel(i, "predecessor") : z \in R
      BY <1>6, <2>3
    <3>2. \A x \in 1..c : g[x].rel # "predecessor"
      BY <1>5, <1>13, <3>1
    <3>3. \A z \in IsRel(n, "predecessor") :
             g[z].to \in {s[x].to : x \in {j \in 1..a : s[j].rel = "predecessor"}}
      BY <1>5, <1>7, <1>11, <3>2
    <3>4. \A x \in 1..a : s[x].rel = "predecessor" =>
             c + x \in IsRel(n, "predecessor") /\ g[c + x].to = s[x].to
      BY <1>5, <1>7, <1>12
    <3>5. {g[z].to : z \in IsRel(n, "predecessor")}
            = {s[x].to : x \in {j \in 1..a : s[j].rel = "predecessor"}}
      BY <3>3, <3>4
    <3> QED
      BY <1>2, <2>1, <2>3, <3>5
  <2> QED
    BY <2>2, <2>3
<1>18. Others(n) = Others(i)
  <2> DEFINE f == [x \in IsRel(n, "related") |-> e[x]]
  <2>1. \A x \in IsRel(n, "related") : x \in 1..c
    BY <1>2, <1>5, <1>7, <1>11
  <2>2. \A x \in IsRel(n, "related") :
           e[x] \in IsRel(i, "related") /\ g[x].to = l[e[x]].to
    BY <1>5, <1>13, <2>1
  <2>3. \A x, y \in IsRel(n, "related") : x < y => e[x] < e[y]
    BY <1>4, <2>1
  <2>4. \A z \in IsRel(i, "related") : \E x \in IsRel(n, "related") : e[x] = z
    <3> TAKE z \in IsRel(i, "related")
    <3>1. z \in 1..h /\ l[z].rel = "related" /\ z \notin R
      BY <1>5, <1>10
    <3>2. PICK x \in 1..c : e[x] = z
      BY <1>4, <3>1
    <3>3. x \in IsRel(n, "related")
      BY <1>5, <1>12, <1>13, <3>1, <3>2
    <3> QED
      BY <3>2, <3>3
  <2>5. /\ f \in [IsRel(n, "related") -> IsRel(i, "related")]
        /\ \A x, y \in IsRel(n, "related") : x < y => f[x] < f[y]
        /\ \A z \in IsRel(i, "related") : \E x \in IsRel(n, "related") : f[x] = z
        /\ \A x \in IsRel(n, "related") : n.links[x].to = i.links[f[x]].to
    BY <2>2, <2>3, <2>4 DEF g, l
  <2> HIDE DEF f
  <2> QED
    BY <2>5, SameOthers
<1> QED
  BY <1>15, <1>16, <1>17, <1>18 DEF LinkedAsAsked

\* The fields of version i with the usable entries of the update w in place.
Filled(i, w) ==
    [f \in Fields |-> IF w.fields[f] \in FieldValues THEN w.fields[f] ELSE i.fields[f]]

\* The share is a nearest one, and no more than the whole.
LEMMA ShareIsNearest ==
    ASSUME NEW total \in Nat, NEW percent \in 0..100
    PROVE  /\ Share(total, percent) \in 0..total
           /\ 100 * Share(total, percent) <= total * percent + 50
           /\ total * percent <= 100 * Share(total, percent) + 50
<1> DEFINE n == total * percent
<1>1. n \in Nat /\ n <= 100 * total
  <2>1. n \in Nat
    OBVIOUS
  <2>2. n <= total * 100
    OBVIOUS
  <2> QED
    BY <2>1, <2>2
<1>2. Share(total, percent) =
        IF n % 100 > 50 \/ (n % 100 = 50 /\ (n \div 100) % 2 = 1) THEN (n \div 100) + 1
        ELSE n \div 100
  BY DEF Share
<1> DEFINE s == Share(total, percent)
<1> HIDE DEF n, s
<1>3. s = IF n % 100 > 50 \/ (n % 100 = 50 /\ (n \div 100) % 2 = 1) THEN (n \div 100) + 1
          ELSE n \div 100
  BY <1>2 DEF s
<1>4. /\ n \div 100 \in Nat /\ n % 100 \in 0..99
      /\ n = 100 * (n \div 100) + (n % 100)
  BY <1>1
<1>5. s \in Nat /\ 100 * s <= n + 50 /\ n <= 100 * s + 50
  BY <1>1, <1>3, <1>4
<1>6. s <= total
  BY <1>1, <1>5
<1> QED
  BY <1>5, <1>6 DEF n, s

\* The hours an update writes are the ones there are, shared out.
LEMMA HoursAreShared ==
    ASSUME NEW h \in Hours, NEW percent \in 0..100, h.completed + h.remaining > 0
    PROVE  HoursAt(h, percent) \in Hours \cap Promise!SharedOut(h, percent)
<1> DEFINE total == h.completed + h.remaining
           c == Share(total, percent)
           d == [completed |-> c, remaining |-> total - c]
<1>1. total \in Nat
  BY DEF Hours
<1>2. c \in 0..total /\ 100 * c <= total * percent + 50 /\ total * percent <= 100 * c + 50
  BY <1>1, ShareIsNearest
<1>3. HoursAt(h, percent) = [completed |-> c, remaining |-> IF c < total THEN total - c ELSE 0]
  BY DEF HoursAt
<1> DEFINE x == IF c < total THEN total - c ELSE 0
<1>4. x = total - c
  <2> HIDE DEF c, total
  <2> QED
    BY <1>1, <1>2
<1>5. HoursAt(h, percent) = d
  <2> HIDE DEF c, total
  <2>1. HoursAt(h, percent) = [completed |-> c, remaining |-> x]
    BY <1>3
  <2> HIDE DEF x
  <2> QED
    BY <1>4, <2>1
<1>6. h # [completed |-> 0, remaining |-> 0] /\ h # NoHours
  BY ConstantsOK DEF ConstantsOK
<1>7. Promise!SharedOut(h, percent) =
        {[completed |-> k, remaining |-> total - k] :
            k \in {j \in 0..total : /\ 100 * j <= total * percent + 50
                                    /\ total * percent <= 100 * j + 50}}
  BY <1>6 DEF Promise!SharedOut
<1>8. d \in Promise!SharedOut(h, percent)
  <2> HIDE DEF c, total
  <2> QED
    BY <1>2, <1>7
<1>9. d \in Hours
  <2> HIDE DEF c, total
  <2>1. c \in Nat /\ total - c \in Nat
    BY <1>1, <1>2
  <2> QED
    BY <2>1 DEF Hours
<1> QED
  BY <1>5, <1>8, <1>9

\* The entries: every usable one is written, no other field is touched.
LEMMA FieldsSet ==
    ASSUME NEW i \in Item, NEW w \in Want
    PROVE  LET n == Final(i, SetFields(w))
           IN  /\ IsSeq(SetFields(w))
               /\ n \in Item /\ n.rev = i.rev /\ n.hours = i.hours
               /\ n.state = i.state /\ n.links = i.links
               /\ n.fields = Filled(i, w)
<1> DEFINE x == Filled(i, w)
<1>1. i.fields \in [Fields -> FieldValues] /\ x \in [Fields -> FieldValues]
  BY DEF Item, Filled
<1>2. IsSeq(SetFields(w)) /\ Final(i, SetFields(w)) = [i EXCEPT !.fields = x]
  <2>1. CASE Supplied(w) = {}
    <3>1. x = i.fields
      BY <1>1, <2>1 DEF Filled, Supplied
    <3>2. SetFields(w) = <<>>
      BY <2>1 DEF SetFields
    <3> HIDE DEF x
    <3>3. [i EXCEPT !.fields = x] = i
      BY <3>1 DEF Item
    <3> QED
      BY <3>2, <3>3, EmptyIsSeq, FinalOfNone
  <2>2. CASE Supplied(w) # {}
    <3> DEFINE g == [f \in Supplied(w) |-> w.fields[f]]
               o == [op |-> "fields", to |-> g]
    <3>1. SetFields(w) = <<o>>
      BY <2>2 DEF SetFields
    <3>2. ApplyOperation(i, o) =
            [i EXCEPT !.fields =
               [f \in Fields |-> IF f \in DOMAIN g THEN g[f] ELSE i.fields[f]]]
      <4> HIDE DEF g
      <4> QED
        BY DEF ApplyOperation, Item
    <3>3. [f \in Fields |-> IF f \in DOMAIN g THEN g[f] ELSE i.fields[f]] = x
      BY DEF Filled, Supplied
    <3> HIDE DEF o, x
    <3> QED
      BY <3>1, <3>2, <3>3, SingleIsSeq, FinalOfOne
  <2> QED
    BY <2>1, <2>2
<1> DEFINE n == Final(i, SetFields(w))
<1> HIDE DEF x, n
<1>3. n = [i EXCEPT !.fields = x]
  BY <1>2 DEF n
<1>4. /\ n \in Item /\ n.rev = i.rev /\ n.hours = i.hours
      /\ n.state = i.state /\ n.links = i.links /\ n.fields = x
  BY <1>1, <1>3 DEF Item
<1> QED
  BY <1>2, <1>4 DEF n, x

\* The hours: shared out where there are any, untouched where there are none.
LEMMA HoursSet ==
    ASSUME NEW i \in Item, NEW j \in Item, j.hours = i.hours, NEW w \in Want
    PROVE  LET n == Final(j, SetHours(i, w))
           IN  /\ IsSeq(SetHours(i, w))
               /\ n \in Item /\ n.rev = j.rev /\ n.fields = j.fields
               /\ n.state = j.state /\ n.links = j.links
               /\ n.hours \in Promise!SharedOut(i.hours, w.progress)
<1> DEFINE h == i.hours
           moved == /\ w.progress \in 0..100 /\ h # NoHours
                    /\ h.completed + h.remaining > 0
           x == IF moved THEN HoursAt(h, w.progress) ELSE h
<1>1. h \in Hours \cup {NoHours}
  BY DEF Item
<1>2. x \in (Hours \cup {NoHours}) \cap Promise!SharedOut(h, w.progress)
  <2>1. CASE moved
    <3>1. h \in Hours
      BY <1>1, <2>1
    <3> HIDE DEF h
    <3> QED
      BY <2>1, <3>1, HoursAreShared
  <2>2. CASE ~moved
    <3>1. h \in Hours =>
            \/ w.progress \notin 0..100
            \/ h = [completed |-> 0, remaining |-> 0]
      BY <1>1, <2>2, ConstantsOK DEF Hours, ConstantsOK
    <3>2. h \in Promise!SharedOut(h, w.progress)
      BY <1>1, <3>1 DEF Promise!SharedOut
    <3> QED
      BY <1>1, <2>2, <3>2
  <2> QED
    BY <2>1, <2>2
<1>3. IsSeq(SetHours(i, w)) /\ Final(j, SetHours(i, w)) = [j EXCEPT !.hours = x]
  <2>1. CASE ~moved
    <3>1. SetHours(i, w) = <<>>
      BY <2>1 DEF SetHours
    <3>2. [j EXCEPT !.hours = x] = j
      BY <2>1 DEF Item
    <3> QED
      BY <3>1, <3>2, EmptyIsSeq, FinalOfNone
  <2>2. CASE moved
    <3> DEFINE o == [op |-> "hours", to |-> x]
    <3>1. SetHours(i, w) = <<o>>
      BY <2>2 DEF SetHours
    <3> HIDE DEF x
    <3>2. ApplyOperation(j, o) = [j EXCEPT !.hours = x]
      BY DEF ApplyOperation
    <3> HIDE DEF o
    <3> QED
      BY <3>1, <3>2, SingleIsSeq, FinalOfOne
  <2> QED
    BY <2>1, <2>2
<1> DEFINE n == Final(j, SetHours(i, w))
<1> HIDE DEF x, n
<1>4. n = [j EXCEPT !.hours = x]
  BY <1>3 DEF n
<1>5. /\ n \in Item /\ n.rev = j.rev /\ n.fields = j.fields
      /\ n.state = j.state /\ n.links = j.links /\ n.hours = x
  BY <1>2, <1>4 DEF Item
<1> QED
  BY <1>2, <1>3, <1>5 DEF n

\* What one PATCH of an update makes of the version its document was computed
\* from, in one sentence.
LEMMA UpdateOutcome ==
    ASSUME NEW i \in Item, OneParent(i), NEW w \in Want, NEW p \in Seq(States)
    PROVE  LET n == Patched(i, UpdateDocument(i, w, p))
           IN  /\ n \in Item
               /\ n.rev = i.rev + 1
               /\ n.fields = Filled(i, w)
               /\ n.hours \in Promise!SharedOut(i.hours, w.progress)
               /\ n.state = IF Len(p) > 1 THEN p[2] ELSE i.state
               /\ LinkedAsAsked(i, w, n)
<1> DEFINE A == SetFields(w)
           B == IF Len(p) > 1 THEN SetState(p[2]) ELSE <<>>
           H == SetHours(i, w)
           R == RelationRemovals(i, w)
           C == Unlinks(R)
           s == RelationAdds(w)
           D == Links(s)
           i1 == Final(i, A)
           i0 == Final(i1, B)
           i2 == Final(i0, H)
           i3 == Final(i2, C)
           i4 == Final(i3, D)
           n == Patched(i, UpdateDocument(i, w, p))
<1>1. UpdateDocument(i, w, p) = (((A \o B) \o H) \o C) \o D
  BY DEF UpdateDocument, Unlinks, Links
<1>2. IsSeq(A)
  BY FieldsSet
<1>3. i1 \in Item /\ i1.rev = i.rev /\ i1.links = i.links /\ i1.state = i.state
      /\ i1.hours = i.hours /\ i1.fields = Filled(i, w)
  BY FieldsSet
<1> HIDE DEF i1
<1>4. IsSeq(B) /\ i0 = [i1 EXCEPT !.state = IF Len(p) > 1 THEN p[2] ELSE i1.state]
  <2>1. CASE ~(Len(p) > 1)
    BY <1>3, <2>1, EmptyIsSeq, FinalOfNone DEF Item
  <2>2. CASE Len(p) > 1
    <3>1. B = <<[op |-> "state", to |-> p[2]]>>
      BY <2>2 DEF SetState
    <3> HIDE DEF B
    <3>2. i0 = ApplyOperation(i1, [op |-> "state", to |-> p[2]])
      BY <3>1, FinalOfOne
    <3>3. ApplyOperation(i1, [op |-> "state", to |-> p[2]]) = [i1 EXCEPT !.state = p[2]]
      BY DEF ApplyOperation
    <3> QED
      BY <2>2, <3>1, <3>2, <3>3, SingleIsSeq
  <2> QED
    BY <2>1, <2>2
<1>5a. /\ i0 \in Item /\ i0.rev = i.rev /\ i0.links = i.links /\ i0.fields = i1.fields
       /\ i0.hours = i.hours
       /\ i0.state = IF Len(p) > 1 THEN p[2] ELSE i.state
  <2> DEFINE x == IF Len(p) > 1 THEN p[2] ELSE i1.state
  <2>1. x \in States
    BY <1>3 DEF Item
  <2>2. i0 = [i1 EXCEPT !.state = x]
    BY <1>4
  <2> HIDE DEF x, i0
  <2>3. /\ i0 \in Item /\ i0.rev = i1.rev /\ i0.links = i1.links /\ i0.fields = i1.fields
        /\ i0.hours = i1.hours /\ i0.state = x
    BY <1>3, <2>1, <2>2 DEF Item
  <2> QED
    BY <1>3, <2>3 DEF x
<1> HIDE DEF A, B, i0
<1>5. /\ IsSeq(H)
      /\ i2 \in Item /\ i2.rev = i.rev /\ i2.links = i.links /\ i2.fields = i1.fields
      /\ i2.state = IF Len(p) > 1 THEN p[2] ELSE i.state
      /\ i2.hours \in Promise!SharedOut(i.hours, w.progress)
  <2>1. /\ IsSeq(H)
        /\ i2 \in Item /\ i2.rev = i0.rev /\ i2.fields = i0.fields
        /\ i2.state = i0.state /\ i2.links = i0.links
        /\ i2.hours \in Promise!SharedOut(i.hours, w.progress)
    BY <1>5a, HoursSet
  <2> QED
    BY <1>5a, <2>1
<1> HIDE DEF H, i2
<1>6. R \in SUBSET (1..Len(i2.links))
  <2>1. i.links \in Seq(Link)
    BY DEF Item
  <2> QED
    BY <1>5, <2>1 DEF RelationRemovals, FirstRel, IsRel
<1>7. IsSeq(C) /\ OnlyLinks(i2, i3) /\ Thinned(i2.links, R, i3.links)
  BY <1>5, <1>6, FinalUnlinks
<1>8. s \in Seq(Link)
  BY Additions
<1>9. /\ IsSeq(D) /\ OnlyLinks(i3, i4)
      /\ Len(i4.links) = Len(i3.links) + Len(s)
      /\ \A j \in 1..Len(i3.links) : i4.links[j] = i3.links[j]
      /\ \A j \in 1..Len(s) : i4.links[Len(i3.links) + j] = s[j]
  <2>1. i3 \in Item
    BY <1>7 DEF OnlyLinks
  <2> HIDE DEF i3, s
  <2> QED
    BY <1>8, <2>1, FinalLinks
<1>10. Final(i, (((A \o B) \o H) \o C) \o D) = i4
  <2>1. IsSeq(A \o B) /\ IsSeq((A \o B) \o H)
    BY <1>2, <1>4, <1>5, ConcatIsSeq
  <2>2. IsSeq(((A \o B) \o H) \o C)
    BY <1>7, <2>1, ConcatIsSeq
  <2> HIDE DEF C, D
  <2>3. Final(i, (((A \o B) \o H) \o C) \o D) = Final(Final(i, ((A \o B) \o H) \o C), D)
    BY <1>9, <2>2, FinalConcat
  <2>4. Final(i, ((A \o B) \o H) \o C) = Final(Final(i, (A \o B) \o H), C)
    BY <1>7, <2>1, FinalConcat
  <2>5. Final(i, (A \o B) \o H) = Final(Final(i, A \o B), H)
    BY <1>5, <2>1, FinalConcat
  <2>6. Final(i, A \o B) = Final(Final(i, A), B)
    BY <1>2, <1>4, FinalConcat
  <2> QED
    BY <2>3, <2>4, <2>5, <2>6 DEF i0, i1, i2
<1>11. n = [rev |-> i.rev + 1, fields |-> i4.fields, hours |-> i4.hours,
            state |-> i4.state, links |-> i4.links]
  BY <1>1, <1>10 DEF Patched, Final
<1>12. i4 \in Item /\ i4.fields = i2.fields /\ i4.hours = i2.hours /\ i4.state = i2.state
  BY <1>7, <1>9 DEF OnlyLinks
<1>13. i3 \in Item
  BY <1>7 DEF OnlyLinks
<1> HIDE DEF n, i3, i4, C, D, s
<1>14. n \in Item /\ n.rev = i.rev + 1 /\ n.fields = i4.fields /\ n.hours = i4.hours
       /\ n.state = i4.state /\ n.links = i4.links
  BY <1>11, <1>12 DEF Item
<1>15. LinkedAsAsked(i, w, n)
  <2>1. Thinned(i.links, R, i3.links)
    BY <1>5, <1>7
  <2>2. /\ Len(n.links) = Len(i3.links) + Len(RelationAdds(w))
        /\ \A j \in 1..Len(i3.links) : n.links[j] = i3.links[j]
        /\ \A j \in 1..Len(RelationAdds(w)) :
              n.links[Len(i3.links) + j] = RelationAdds(w)[j]
    BY <1>9, <1>14 DEF s
  <2> QED
    BY <1>13, <1>14, <2>1, <2>2, LinksReplaced
<1> QED
  BY <1>3, <1>5, <1>12, <1>14, <1>15 DEF n

\* What a later PATCH of a state path, or the PATCH of a removal, makes of it.
LEMMA StateOutcome ==
    ASSUME NEW i \in Item, NEW s \in States
    PROVE  LET n == Patched(i, SetState(s))
           IN  /\ n \in Item
               /\ n.rev = i.rev + 1 /\ n.fields = i.fields /\ n.hours = i.hours
               /\ n.state = s /\ n.links = i.links
<1> DEFINE o == [op |-> "state", to |-> s]
           f == Final(i, <<o>>)
<1>1. f = ApplyOperation(i, o)
  BY FinalOfOne
<1>2. ApplyOperation(i, o) = [i EXCEPT !.state = s]
  BY DEF ApplyOperation
<1>3. Patched(i, SetState(s)) =
        [rev |-> i.rev + 1, fields |-> f.fields, hours |-> f.hours,
         state |-> f.state, links |-> f.links]
  BY DEF Patched, SetState, Final
<1> HIDE DEF f
<1> QED
  BY <1>1, <1>2, <1>3 DEF Item

-------------------------------------------------------------------------------
(* What the copies the handlers hold are worth. *)

\* How far version i of q's item is on the state path: at its step h, or, for an
\* update that needs no path, where it should be.
At(q, i, h) ==
    IF path[q] = <<>> THEN want[q].state \in {Keep, i.state}
    ELSE h \in 1..Len(path[q]) /\ i.state = path[q][h]

\* A request that has read nothing yet has no path; any path leads, by legal
\* transitions, to the state the update asks for.
PathIsLegal(q) ==
    /\ pc[q] = "unused" => form[q] = NoItem
    /\ pc[q] \in {"unused", "editing", "reading"} => path[q] = <<>> /\ hop[q] = 2
    /\ path[q] # <<>> =>
          /\ want[q].kind = "update"
          /\ want[q].state # Keep
          /\ Len(path[q]) > 1
          /\ \A k \in 1..(Len(path[q]) - 1) : <<path[q][k], path[q][k + 1]>> \in Transitions
          /\ path[q][Len(path[q])] = want[q].state

\* Version i is what the first PATCH of the update q makes of the version its
\* form was opened on, whatever its state.
Made(q, i) ==
    /\ i.fields = Filled(form[q], want[q])
    /\ i.hours \in Promise!SharedOut(form[q].hours, want[q].progress)
    /\ path[q] = <<>> => i.state = form[q].state
    /\ LinkedAsAsked(form[q], want[q], i)

\* Version i is the one its form was opened on, removed.
Unmade(q, i) == i = [form[q] EXCEPT !.rev = @ + 1, !.state = Removed]

\* An update in flight stands one step before the hop it asks for.
InFlightAsAsked(q) ==
    InFlight(q) /\ want[q].kind = "update" =>
        /\ OneParent(known[q])
        /\ At(q, known[q], hop[q] - 1)
        /\ IF wrote[q] = {} THEN hop[q] = 2 ELSE hop[q] > 2 /\ Made(q, known[q])

\* An answer reports what the PATCH asked for.
AnsweredAsAsked(q) ==
    net[q].kind = "answer" =>
        IF want[q].kind = "remove" THEN Unmade(q, net[q].item)
        ELSE At(q, net[q].item, hop[q]) /\ Made(q, net[q].item)

\* A reply reports what the request asked for.
DoneAsAsked(q) ==
    pc[q] = "done" =>
        /\ want[q] \in Want
        /\ IF want[q].kind = "remove" THEN Unmade(q, known[q])
           ELSE /\ known[q].state = IF want[q].state = Keep THEN form[q].state ELSE want[q].state
                /\ Made(q, known[q])

\* The history of q so far is what its body asks for.
AsAsked(q) ==
    PathIsLegal(q) /\ InFlightAsAsked(q) /\ AnsweredAsAsked(q) /\ DoneAsAsked(q)

\* With IInv, inductive.
OutcomeInv == OneParent(item) /\ \A q \in Requests : AsAsked(q)

\* A state path found: it starts at the state read, and leads by transitions to
\* the one asked for.
LEMMA PathLeads ==
    ASSUME NEW i, NEW w, NEW p \in StatePaths(i, w)
    PROVE  IF p = <<>> THEN w.state \in {Keep, i.state}
           ELSE /\ w.state # Keep
                /\ Len(p) \in Nat /\ Len(p) > 1
                /\ p[1] = i.state
                /\ p[Len(p)] = w.state
                /\ \A k \in 1..(Len(p) - 1) : <<p[k], p[k + 1]>> \in Transitions
<1>1. CASE w.state \in {Keep, i.state}
  BY <1>1 DEF StatePaths
<1>2. CASE w.state \notin {Keep, i.state}
  <2>1. Cardinality(States) \in Nat
    BY ConstantsOK, FS_CardinalityType DEF ConstantsOK
  <2>2. PICK n \in 1..Cardinality(States) :
           p \in WalksOfLength(n, States, Transitions, i.state, w.state)
    BY <1>2, <2>1 DEF StatePaths, ShortestWalks
  <2>3. /\ n \in Nat /\ n > 0 /\ p \in [1..n -> States]
        /\ p[1] = i.state /\ p[n] = w.state
        /\ \A k \in 1..(n - 1) : <<p[k], p[k + 1]>> \in Transitions
    BY <2>1, <2>2 DEF WalksOfLength
  <2>4. Len(p) = n
    BY <2>3
  <2>5. n # 1
    BY <1>2, <2>3
  <2>6. p # <<>>
    BY <2>3, <2>4
  <2> QED
    BY <1>2, <2>3, <2>4, <2>5, <2>6
<1> QED
  BY <1>1, <1>2

\* The part of the state AsAsked(q) speaks of.
StillAt(q) ==
    /\ pc'[q] = pc[q] /\ form'[q] = form[q] /\ want'[q] = want[q]
    /\ known'[q] = known[q] /\ path'[q] = path[q] /\ hop'[q] = hop[q]
    /\ net'[q] = net[q] /\ wrote'[q] = wrote[q]

\* What others do leaves it as it is.
LEMMA AsAskedStays ==
    ASSUME NEW q, AsAsked(q), StillAt(q)
    PROVE  AsAsked(q)'
<1>1. PathIsLegal(q)'
  BY DEF AsAsked, PathIsLegal, StillAt
<1>2. InFlightAsAsked(q)'
  BY DEF AsAsked, InFlightAsAsked, InFlight, At, Made, StillAt
<1>3. AnsweredAsAsked(q)'
  BY DEF AsAsked, AnsweredAsAsked, At, Made, Unmade, StillAt
<1>4. DoneAsAsked(q)'
  BY DEF AsAsked, DoneAsAsked, Made, Unmade, StillAt
<1> QED
  BY <1>1, <1>2, <1>3, <1>4 DEF AsAsked

\* Only the links of a version count.
LEMMA SameLinks ==
    ASSUME NEW m, NEW n, m.links = n.links
    PROVE  /\ \A rel : IsRel(m, rel) = IsRel(n, rel) /\ LinksTo(m, rel) = LinksTo(n, rel)
           /\ Others(m) = Others(n)
           /\ \A i, w : LinkedAsAsked(i, w, m) => LinkedAsAsked(i, w, n)
<1>1. \A rel : IsRel(m, rel) = IsRel(n, rel)
  BY DEF IsRel
<1>2. \A rel : LinksTo(m, rel) = LinksTo(n, rel)
  BY <1>1 DEF LinksTo
<1>3. Others(m) = Others(n)
  <2> DEFINE A == IsRel(m, "related")
             B == IsRel(n, "related")
             F(S) == {<<Cardinality({j \in S : j <= k}), m.links[k].to>> : k \in S}
  <2>1. Others(m) = F(A)
    BY DEF Others
  <2>2. Others(n) = F(B)
    BY DEF Others
  <2>3. A = B
    BY <1>1
  <2> HIDE DEF A, B, F
  <2> QED
    BY <2>1, <2>2, <2>3
<1>4. \A i, w : LinkedAsAsked(i, w, m) => LinkedAsAsked(i, w, n)
  BY <1>1, <1>2, <1>3 DEF LinkedAsAsked, OneParent
<1> QED
  BY <1>1, <1>2, <1>3, <1>4

\* What the proofs say of versions, said of what users see.
LEMMA MadeView ==
    ASSUME NEW q \in Requests, NEW i, want[q].kind = "update", Made(q, i)
    PROVE  View(i) \in Promise!Made(View(form[q]), want[q], i.state)
<1> DEFINE b == form[q]
           w == want[q]
<1>1. /\ i.fields = Filled(b, w)
      /\ i.hours \in Promise!SharedOut(b.hours, w.progress)
      /\ LinksTo(i, "parent") = {w.parent} \ {NoParent}
      /\ LinksTo(i, "predecessor") =
            IF w.preds = Keep THEN LinksTo(b, "predecessor")
            ELSE {w.preds[k] : k \in DOMAIN w.preds}
      /\ Others(i) = Others(b)
  BY DEF Made, LinkedAsAsked, ToSet
<1>2. /\ View(b).fields = b.fields /\ View(b).hours = b.hours
      /\ View(b).preds = LinksTo(b, "predecessor") /\ View(b).others = Others(b)
  BY DEF View
<1> DEFINE d == View(b)
           V(h) == [fields |-> [f \in Fields |-> IF w.fields[f] \in FieldValues
                                                THEN w.fields[f] ELSE d.fields[f]],
                    hours |-> h,
                    state |-> i.state,
                    parents |-> {w.parent} \ {NoParent},
                    preds |-> IF w.preds = Keep THEN d.preds
                              ELSE {w.preds[k] : k \in DOMAIN w.preds},
                    others |-> d.others]
<1>3. Filled(b, w) = [f \in Fields |-> IF w.fields[f] \in FieldValues
                                       THEN w.fields[f] ELSE d.fields[f]]
  BY <1>2 DEF Filled
<1>4. View(i) = V(i.hours)
  <2> HIDE DEF d
  <2> QED
    BY <1>1, <1>2, <1>3 DEF View, d
<1>5. Promise!Made(d, w, i.state) = {V(h) : h \in Promise!SharedOut(d.hours, w.progress)}
  BY DEF Promise!Made
<1> HIDE DEF V
<1> QED
  BY <1>1, <1>2, <1>4, <1>5

LEMMA RemovedView ==
    ASSUME NEW b \in Item, NEW i, NEW w, w.kind = "remove",
           i = [b EXCEPT !.rev = @ + 1, !.state = Removed]
    PROVE  View(i) \in Promise!Made(View(b), w, Removed)
<1>1. /\ i.fields = b.fields /\ i.hours = b.hours /\ i.state = Removed /\ i.links = b.links
  BY DEF Item
<1>2. /\ LinksTo(i, "parent") = LinksTo(b, "parent")
      /\ LinksTo(i, "predecessor") = LinksTo(b, "predecessor")
      /\ Others(i) = Others(b)
  <2>1. i.links = b.links
    BY <1>1
  <2> QED
    BY <2>1, SameLinks, Zenon
<1> DEFINE pi == LinksTo(i, "parent")    pb == LinksTo(b, "parent")
           di == LinksTo(i, "predecessor")    db == LinksTo(b, "predecessor")
           oi == Others(i)    ob == Others(b)
<1>3. /\ View(i) = [fields |-> i.fields, hours |-> i.hours, state |-> i.state,
                    parents |-> pi, preds |-> di, others |-> oi]
      /\ View(b) = [fields |-> b.fields, hours |-> b.hours, state |-> b.state,
                    parents |-> pb, preds |-> db, others |-> ob]
  BY Zenon DEF View
<1> HIDE DEF pi, pb, di, db, oi, ob
<1>4. View(i) = [View(b) EXCEPT !.state = Removed]
  BY <1>1, <1>2, <1>3 DEF pi, pb, di, db, oi, ob
<1>5. Promise!Made(View(b), w, Removed) = {[View(b) EXCEPT !.state = Removed]}
  BY Zenon DEF Promise!Made
<1> QED
  BY <1>4, <1>5

\* TFS applies a PATCH of q: what the new version is.
LEMMA AcceptOutcome ==
    ASSUME IInv, OutcomeInv, NEW q \in Requests, InFlight(q), RevisionAccepted(q)
    PROVE  LET n == Patched(item, Document(q))
           IN  /\ n \in Item
               /\ n.rev = item.rev + 1
               /\ want[q] \in Want
               /\ want[q].kind = "remove" =>
                     /\ wrote[q] = {}
                     /\ n.state = Removed /\ n.fields = item.fields
                     /\ n.hours = item.hours /\ n.links = item.links
                     /\ Unmade(q, n)
               /\ want[q].kind = "update" =>
                     /\ known[q] = item
                     /\ At(q, n, hop[q])
                     /\ n.state = item.state \/ <<item.state, n.state>> \in Transitions
                     /\ want[q].state = Keep => n.state = item.state
                     /\ wrote[q] = {} => form[q] = item
                     /\ wrote[q] # {} => /\ n.fields = item.fields
                                        /\ n.hours = item.hours
                                        /\ n.links = item.links
                     /\ Made(q, n)
<1> DEFINE n == Patched(item, Document(q))
           p == path[q]
           w == want[q]
<1>1. w \in Want /\ item \in Item
  BY GuardedRevision DEF IInv, TypeOK
<1>2. CASE w.kind = "remove"
  <2>1. Document(q) = SetState(Removed)
    BY <1>2 DEF Document
  <2>2. Removed \in States
    BY ConstantsOK DEF ConstantsOK
  <2>3. wrote[q] = {}
    BY <1>2 DEF IInv, Consistent, Guarded
  <2>4. form[q] = item
    BY <2>3, BlindNow DEF NoBlindOverwrite, FirstPatch
  <2>5. /\ n \in Item /\ n.rev = item.rev + 1 /\ n.fields = item.fields
        /\ n.hours = item.hours /\ n.state = Removed /\ n.links = item.links
    BY <1>1, <2>1, <2>2, StateOutcome
  <2>6. Unmade(q, n)
    <3> HIDE DEF n
    <3> QED
      BY <1>1, <2>4, <2>5 DEF Unmade, Item
  <2> QED
    BY <1>1, <1>2, <2>3, <2>5, <2>6
<1>3. CASE w.kind = "update"
  <2>1. known[q] = item
    BY <1>3, FreshNow DEF FreshDocument, Basis
  <2>2. /\ OneParent(item)
        /\ At(q, item, hop[q] - 1)
        /\ IF wrote[q] = {} THEN hop[q] = 2 ELSE hop[q] > 2 /\ Made(q, item)
    BY <1>3, <2>1 DEF OutcomeInv, AsAsked, InFlightAsAsked
  <2>3. /\ p \in Seq(States) /\ Len(p) \in Nat /\ hop[q] \in Nat
        /\ hop[q] = 2 \/ hop[q] \in 3..Len(p)
        /\ \A k \in 1..Len(p) : p[k] \in States
    BY DEF IInv, TypeOK
  <2>4. p # <<>> =>
          /\ w.state # Keep
          /\ Len(p) > 1
          /\ \A k \in 1..(Len(p) - 1) : <<p[k], p[k + 1]>> \in Transitions
          /\ p[Len(p)] = w.state
    BY DEF OutcomeInv, AsAsked, PathIsLegal
  <2>5. CASE wrote[q] = {}
    <3>1. form[q] = item
      BY <2>5, BlindNow DEF NoBlindOverwrite, FirstPatch
    <3>2. hop[q] = 2 /\ Document(q) = UpdateDocument(item, w, p)
      BY <1>3, <2>1, <2>2, <2>5 DEF Document
    <3>3. /\ n \in Item
          /\ n.rev = item.rev + 1
          /\ n.fields = Filled(item, w)
          /\ n.hours \in Promise!SharedOut(item.hours, w.progress)
          /\ n.state = IF Len(p) > 1 THEN p[2] ELSE item.state
          /\ LinkedAsAsked(item, w, n)
      BY <1>1, <2>2, <2>3, <3>2, UpdateOutcome
    <3> HIDE DEF n
    <3>4. CASE p = <<>>
      <4>1. n.state = item.state
        BY <3>3, <3>4
      <4> QED
        BY <1>1, <1>3, <2>1, <2>2, <2>5, <3>1, <3>3, <3>4, <4>1 DEF At, Made, n
    <3>5. CASE p # <<>>
      <4>1. n.state = p[2] /\ 2 \in 1..Len(p) /\ item.state = p[1] /\ w.state # Keep
        BY <2>2, <2>3, <2>4, <3>2, <3>3, <3>5 DEF At
      <4>2. <<p[1], p[2]>> \in Transitions
        BY <2>3, <2>4, <3>5
      <4> QED
        BY <1>1, <1>3, <2>1, <2>5, <3>1, <3>2, <3>3, <3>5, <4>1, <4>2 DEF At, Made, n
    <3> QED
      BY <3>4, <3>5
  <2>6. CASE wrote[q] # {}
    <3>1. hop[q] \in 3..Len(p) /\ Made(q, item) /\ p # <<>>
      BY <2>2, <2>3, <2>6
    <3>2. Document(q) = SetState(p[hop[q]]) /\ p[hop[q]] \in States
      BY <1>3, <2>3, <3>1 DEF Document
    <3>3. /\ n \in Item /\ n.rev = item.rev + 1 /\ n.fields = item.fields
          /\ n.hours = item.hours /\ n.state = p[hop[q]] /\ n.links = item.links
      BY <1>1, <3>2, StateOutcome
    <3> HIDE DEF n
    <3>4. Made(q, n)
      BY <3>1, <3>3, SameLinks DEF Made
    <3>5. hop[q] - 1 \in 1..(Len(p) - 1) /\ (hop[q] - 1) + 1 = hop[q] /\ hop[q] \in 1..Len(p)
      BY <2>3, <3>1
    <3>6. item.state = p[hop[q] - 1]
      BY <2>2, <3>1 DEF At
    <3>7. <<item.state, n.state>> \in Transitions
      BY <2>4, <3>1, <3>3, <3>5, <3>6
    <3> QED
      BY <1>1, <1>3, <2>1, <2>4, <2>6, <3>1, <3>3, <3>4, <3>5, <3>7 DEF At, n
  <2> QED
    BY <2>5, <2>6
<1> QED
  BY <1>1, <1>2, <1>3 DEF Want

\* One request moved, and the item did not lose a parent's uniqueness.
LEMMA OneAsAsked ==
    ASSUME OutcomeInv, NEW q \in Requests, OneParent(item'),
           \A p \in Requests \ {q} : StillAt(p), AsAsked(q)'
    PROVE  OutcomeInv'
<1>1. ASSUME NEW p \in Requests PROVE AsAsked(p)'
  <2>1. CASE p = q
    BY <2>1
  <2>2. CASE p # q
    BY <2>2, AsAskedStays DEF OutcomeInv
  <2> QED
    BY <2>1, <2>2
<1>2. OneParent(item)'
  BY DEF OneParent
<1> QED
  BY <1>1, <1>2 DEF OutcomeInv

\* Nothing was asked at first.
LEMMA InitOutcome == Init => OutcomeInv
<1> SUFFICES ASSUME Init PROVE OutcomeInv
  OBVIOUS
<1>1. OneParent(item)
  BY ConstantsOK DEF Init, ConstantsOK, OneParent, IsRel
<1>2. ASSUME NEW q \in Requests PROVE AsAsked(q)
  BY DEF Init, AsAsked, PathIsLegal, InFlightAsAsked, AnsweredAsAsked, DoneAsAsked,
         InFlight, NoMessage
<1> QED
  BY <1>1, <1>2 DEF OutcomeInv

\* Every step keeps the outcomes as asked.
LEMMA NextOutcome == IInv /\ OutcomeInv /\ [Next]_vars => OutcomeInv'
<1> SUFFICES ASSUME IInv, OutcomeInv, [Next]_vars PROVE OutcomeInv'
  OBVIOUS
<1>a. TypeOK /\ item \in Item
  BY DEF IInv, TypeOK
<1>b. \A q \in Requests : Consistent(q)
  BY DEF IInv
<1>c. OneParent(item) /\ \A q \in Requests : AsAsked(q)
  BY DEF OutcomeInv
<1>1. CASE ForeignEdit
  <2>1. OneParent(item')
    BY <1>1 DEF ForeignEdit, Storable, OneParent
  <2>2. \A q \in Requests : StillAt(q)
    BY <1>1 DEF ForeignEdit, StillAt
  <2>3. \A q \in Requests : AsAsked(q)'
    BY <1>c, <2>2, AsAskedStays
  <2> QED
    BY <2>1, <2>3 DEF OutcomeInv, OneParent
<1>2. ASSUME NEW q \in Requests, OpenForm(q) PROVE OutcomeInv'
  <2>1. item' = item /\ \A p \in Requests \ {q} : StillAt(p)
    BY <1>2, <1>a DEF OpenForm, StillAt, TypeOK
  <2>2. /\ pc[q] = "unused" /\ pc'[q] = "editing" /\ net[q] = NoMessage
        /\ path' = path /\ hop' = hop /\ net' = net
    BY <1>2, <1>a, <1>b DEF OpenForm, TypeOK, Consistent, NotYetSent
  <2>3. AsAsked(q)'
    BY <1>c, <2>2 DEF AsAsked, PathIsLegal, InFlightAsAsked, AnsweredAsAsked, DoneAsAsked,
                      InFlight, NoMessage
  <2> QED
    BY <1>c, <2>1, <2>3, OneAsAsked
<1>3. ASSUME NEW q \in Requests, NEW r \in Requests, SaveAgain(q, r) PROVE OutcomeInv'
  <2>1. item' = item /\ \A p \in Requests \ {q} : StillAt(p)
    BY <1>3, <1>a DEF SaveAgain, StillAt, TypeOK
  <2>2. /\ pc[q] = "unused" /\ pc'[q] = "editing" /\ net[q] = NoMessage
        /\ path' = path /\ hop' = hop /\ net' = net
    BY <1>3, <1>a, <1>b DEF SaveAgain, TypeOK, Consistent, NotYetSent
  <2>3. AsAsked(q)'
    BY <1>c, <2>2 DEF AsAsked, PathIsLegal, InFlightAsAsked, AnsweredAsAsked, DoneAsAsked,
                      InFlight, NoMessage
  <2> QED
    BY <1>c, <2>1, <2>3, OneAsAsked
<1>4. ASSUME NEW q \in Requests, SubmitUpdate(q) PROVE OutcomeInv'
  <2>1. item' = item /\ \A p \in Requests \ {q} : StillAt(p)
    BY <1>4, <1>a DEF SubmitUpdate, StillAt, TypeOK
  <2>2. /\ pc[q] = "editing" /\ pc'[q] \in {"failed", "reading"} /\ net[q] = NoMessage
        /\ path' = path /\ hop' = hop /\ net' = net
    BY <1>4, <1>a, <1>b DEF SubmitUpdate, TypeOK, Consistent, NotYetSent
  <2>3. AsAsked(q)'
    BY <1>c, <2>2 DEF AsAsked, PathIsLegal, InFlightAsAsked, AnsweredAsAsked, DoneAsAsked,
                      InFlight, NoMessage
  <2> QED
    BY <1>c, <2>1, <2>3, OneAsAsked
<1>5. ASSUME NEW q \in Requests, SubmitRemove(q) PROVE OutcomeInv'
  <2>1. item' = item /\ \A p \in Requests \ {q} : StillAt(p)
    BY <1>5, <1>a DEF SubmitRemove, StillAt, TypeOK
  <2>2. /\ pc[q] = "editing" /\ pc'[q] = "patching" /\ want'[q].kind = "remove"
        /\ net'[q] = Patch(form[q].rev) /\ path' = path /\ hop' = hop
    BY <1>5, <1>a DEF SubmitRemove, FirstIfMatch, TypeOK
  <2>3. AsAsked(q)'
    BY <1>c, <2>2 DEF AsAsked, PathIsLegal, InFlightAsAsked, AnsweredAsAsked, DoneAsAsked,
                      InFlight, Patch
  <2> QED
    BY <1>c, <2>1, <2>3, OneAsAsked
<1>6. ASSUME NEW q \in Requests, ReadAndPatch(q) PROVE OutcomeInv'
  <2>1. item' = item /\ \A p \in Requests \ {q} : StillAt(p)
    BY <1>6, <1>a DEF ReadAndPatch, StillAt, TypeOK
  <2>2. PICK p \in StatePaths(item, want[q]) : path' = [path EXCEPT ![q] = p]
    BY <1>6 DEF ReadAndPatch
  <2>3. /\ path'[q] = p /\ hop'[q] = 2 /\ known'[q] = item /\ wrote'[q] = {}
        /\ want'[q] = want[q] /\ want[q].kind = "update"
        /\ pc'[q] = "patching" /\ net'[q] = Patch(form[q].rev)
    BY <1>6, <1>a, <1>b, <2>2
    DEF ReadAndPatch, FirstIfMatch, TypeOK, Consistent, NotYetSent
  <2>4. IF p = <<>> THEN want[q].state \in {Keep, item.state}
        ELSE /\ want[q].state # Keep
             /\ Len(p) \in Nat /\ Len(p) > 1
             /\ p[1] = item.state
             /\ p[Len(p)] = want[q].state
             /\ \A k \in 1..(Len(p) - 1) : <<p[k], p[k + 1]>> \in Transitions
    BY PathLeads
  <2>5. PathIsLegal(q)'
    BY <2>3, <2>4 DEF PathIsLegal
  <2>6. OneParent(known'[q])
    BY <1>c, <2>3
  <2>7. At(q, known[q], hop[q] - 1)'
    <3>1. hop'[q] - 1 = 1
      BY <2>3
    <3>2. p # <<>> => 1 \in 1..Len(p)
      BY <2>4
    <3> QED
      BY <2>3, <2>4, <3>1, <3>2 DEF At
  <2>8. InFlightAsAsked(q)'
    BY <2>3, <2>6, <2>7 DEF InFlightAsAsked, OneParent
  <2>9. AnsweredAsAsked(q)' /\ DoneAsAsked(q)'
    BY <2>3 DEF AnsweredAsAsked, DoneAsAsked, Patch
  <2> QED
    BY <1>c, <2>1, <2>5, <2>8, <2>9, OneAsAsked DEF AsAsked
<1>7. ASSUME NEW q \in Requests, ReadAndReject(q) PROVE OutcomeInv'
  <2>1. item' = item /\ \A p \in Requests \ {q} : StillAt(p)
    BY <1>7, <1>a DEF ReadAndReject, StillAt, TypeOK
  <2>2. AsAsked(q)'
    BY <1>7, <1>a, <1>c
    DEF ReadAndReject, TypeOK, AsAsked, PathIsLegal, InFlightAsAsked, AnsweredAsAsked,
        DoneAsAsked, InFlight, At, Made, Unmade
  <2> QED
    BY <1>c, <2>1, <2>2, OneAsAsked
<1>8. ASSUME NEW q \in Requests, CallFails(q) PROVE OutcomeInv'
  <2>1. item' = item /\ \A p \in Requests \ {q} : StillAt(p)
    BY <1>8, <1>a DEF CallFails, StillAt, TypeOK
  <2>2. AsAsked(q)'
    BY <1>8, <1>a, <1>c
    DEF CallFails, TypeOK, AsAsked, PathIsLegal, InFlightAsAsked, AnsweredAsAsked,
        DoneAsAsked, InFlight, At, Made, Unmade
  <2> QED
    BY <1>c, <2>1, <2>2, OneAsAsked
<1>9. ASSUME NEW q \in Requests, ReceiveAnswer(q) PROVE OutcomeInv'
  <2>1. item' = item /\ \A p \in Requests \ {q} : StillAt(p)
    BY <1>9, <1>a DEF ReceiveAnswer, StillAt, TypeOK
  <2>2. /\ known'[q] = net[q].item /\ form' = form /\ want' = want /\ path' = path
        /\ wrote' = wrote /\ net[q].kind = "answer" /\ pc[q] = "patching"
    BY <1>9, <1>a DEF ReceiveAnswer, TypeOK
  <2>3. IF want[q].kind = "remove" THEN Unmade(q, net[q].item)
        ELSE At(q, net[q].item, hop[q]) /\ Made(q, net[q].item)
    BY <1>c, <2>2 DEF AsAsked, AnsweredAsAsked
  <2>4. /\ wrote[q] # {} /\ want[q] \in Want
        /\ hop[q] \in Nat /\ Len(path[q]) \in Nat
        /\ hop[q] = 2 \/ hop[q] \in 3..Len(path[q])
    <3>1. Written(q)
      BY <1>b DEF Consistent
    <3>2. Wrote(q, net[q].item.rev) /\ want[q] \in Wants /\ form[q] # NoItem
      BY <2>2, <3>1 DEF Written
    <3>3. form[q].rev \in Nat
      BY <1>a, <3>2 DEF TypeOK, Item
    <3>4. wrote[q] # {}
      <4> DEFINE m == form[q].rev
                 n == net[q].item.rev
      <4>1. m \in Nat /\ n \in Nat /\ m < n /\ wrote[q] = (m + 1) .. n
        BY <3>2, <3>3 DEF Wrote
      <4> HIDE DEF m, n
      <4>2. n \in (m + 1) .. n
        BY <4>1
      <4> QED
        BY <4>1, <4>2
    <3> QED
      BY <1>a, <3>2, <3>4, ConstantsOK DEF TypeOK, ConstantsOK
  <2>5. PathIsLegal(q)
    BY <1>c DEF AsAsked
  <2>6. CASE MoreHops(q)
    <3>1. /\ hop'[q] = hop[q] + 1 /\ net'[q] = Patch(net[q].item.rev) /\ pc'[q] = "patching"
          /\ want[q].kind = "update"
      BY <1>9, <1>a, <2>6 DEF ReceiveAnswer, NextIfMatch, MoreHops, TypeOK
    <3>2. PathIsLegal(q)'
      BY <2>2, <2>5, <3>1 DEF PathIsLegal
    <3>3. hop'[q] - 1 = hop[q] /\ hop'[q] > 2
      BY <2>4, <3>1
    <3>4. At(q, known[q], hop[q] - 1)'
      BY <2>2, <2>3, <3>1, <3>3 DEF At
    <3>5. Made(q, known[q])' /\ OneParent(known'[q])
      BY <2>2, <2>3, <3>1 DEF Made, LinkedAsAsked
    <3>6. InFlightAsAsked(q)'
      BY <2>2, <2>4, <3>1, <3>3, <3>4, <3>5 DEF InFlightAsAsked, OneParent
    <3>7. AnsweredAsAsked(q)' /\ DoneAsAsked(q)'
      BY <3>1 DEF AnsweredAsAsked, DoneAsAsked, Patch
    <3> QED
      BY <1>c, <2>1, <3>2, <3>6, <3>7, OneAsAsked DEF AsAsked
  <2>7. CASE ~MoreHops(q)
    <3>1. hop'[q] = hop[q] /\ net'[q] = NoMessage /\ pc'[q] = "done"
      BY <1>9, <1>a, <2>7 DEF ReceiveAnswer, TypeOK
    <3>2. PathIsLegal(q)'
      BY <2>2, <2>5, <3>1 DEF PathIsLegal
    <3>3. InFlightAsAsked(q)' /\ AnsweredAsAsked(q)'
      BY <3>1 DEF InFlightAsAsked, AnsweredAsAsked, InFlight, NoMessage
    <3>4. ASSUME want[q].kind # "remove", want[q].state # Keep
          PROVE  net[q].item.state = want[q].state
      <4>1. want[q].kind = "update"
        BY <2>4, <3>4 DEF Want
      <4>2. CASE path[q] = <<>>
        BY <2>3, <3>4, <4>2 DEF At
      <4>3. CASE path[q] # <<>>
        <5>1. Len(path[q]) > 1 /\ path[q][Len(path[q])] = want[q].state
          BY <2>5, <4>3 DEF PathIsLegal
        <5>2. hop[q] = Len(path[q])
          BY <2>4, <2>7, <4>1, <5>1 DEF MoreHops
        <5> QED
          BY <2>3, <3>4, <4>3, <5>1, <5>2 DEF At
      <4> QED
        BY <4>2, <4>3
    <3>5. DoneAsAsked(q)'
      <4>1. CASE want[q].kind = "remove"
        BY <2>2, <2>3, <2>4, <4>1 DEF DoneAsAsked, Unmade
      <4>2. CASE want[q].kind # "remove"
        <5>1. Made(q, known[q])'
          BY <2>2, <2>3, <4>2 DEF Made
        <5>2. want[q].state = Keep => net[q].item.state = form[q].state
          BY <2>3, <2>5, <4>2 DEF Made, PathIsLegal
        <5> QED
          BY <2>2, <2>4, <3>4, <4>2, <5>1, <5>2 DEF DoneAsAsked
      <4> QED
        BY <4>1, <4>2
    <3> QED
      BY <1>c, <2>1, <3>2, <3>3, <3>5, OneAsAsked DEF AsAsked
  <2> QED
    BY <2>6, <2>7
<1>10. ASSUME NEW q \in Requests, ReceiveRefusal(q) PROVE OutcomeInv'
  <2>1. item' = item /\ \A p \in Requests \ {q} : StillAt(p)
    BY <1>10, <1>a DEF ReceiveRefusal, StillAt, TypeOK
  <2>2. AsAsked(q)'
    BY <1>10, <1>a, <1>c
    DEF ReceiveRefusal, TypeOK, AsAsked, PathIsLegal, InFlightAsAsked, AnsweredAsAsked,
        DoneAsAsked, InFlight, At, Made, Unmade
  <2> QED
    BY <1>c, <2>1, <2>2, OneAsAsked
<1>11. ASSUME NEW q \in Requests, Accept(q) PROVE OutcomeInv'
  <2>1. OneParent(item') /\ \A p \in Requests \ {q} : StillAt(p)
    <3>1. \A j, k \in IsRel(item', "parent") : j = k
      BY <1>11 DEF Accept, Storable
    <3> QED
      BY <1>11, <1>a, <3>1 DEF Accept, StillAt, OneParent, TypeOK
  <2>2. /\ item' = Patched(item, Document(q)) /\ net'[q] = Answer(item')
        /\ pc' = pc /\ form' = form /\ want' = want /\ known' = known /\ path' = path
        /\ hop' = hop
        /\ InFlight(q) /\ RevisionAccepted(q)
    BY <1>11, <1>a DEF Accept, TypeOK
  <2>3. IF want[q].kind = "remove" THEN Unmade(q, item')
        ELSE At(q, item', hop[q]) /\ Made(q, item')
    BY <2>2, AcceptOutcome DEF Want
  <2>4. AnsweredAsAsked(q)'
    BY <2>2, <2>3 DEF AnsweredAsAsked, Answer, At, Made, Unmade
  <2>5. PathIsLegal(q)'
    BY <1>c, <2>2 DEF AsAsked, PathIsLegal
  <2>6. InFlightAsAsked(q)'
    BY <2>2 DEF InFlightAsAsked, InFlight, Answer
  <2>7. DoneAsAsked(q)'
    BY <1>c, <2>2 DEF AsAsked, DoneAsAsked, Made, Unmade
  <2> QED
    BY <1>c, <2>1, <2>4, <2>5, <2>6, <2>7, OneAsAsked DEF AsAsked
<1>12. ASSUME NEW q \in Requests, Refuse(q) PROVE OutcomeInv'
  <2>1. item' = item /\ \A p \in Requests \ {q} : StillAt(p)
    BY <1>12, <1>a DEF Refuse, StillAt, TypeOK
  <2>2. AsAsked(q)'
    BY <1>12, <1>a, <1>c
    DEF Refuse, TypeOK, AsAsked, PathIsLegal, InFlightAsAsked, AnsweredAsAsked,
        DoneAsAsked, InFlight, At, Made, Unmade, Refusal
  <2> QED
    BY <1>c, <2>1, <2>2, OneAsAsked
<1>13. CASE UNCHANGED vars
  <2>1. item' = item /\ \A q \in Requests : StillAt(q)
    BY <1>13 DEF vars, StillAt
  <2>2. \A q \in Requests : AsAsked(q)'
    BY <1>c, <2>1, AsAskedStays
  <2> QED
    BY <1>c, <2>1, <2>2 DEF OutcomeInv, OneParent
<1> QED
  BY <1>1, <1>2, <1>3, <1>4, <1>5, <1>6, <1>7, <1>8, <1>9, <1>10, <1>11,
     <1>12, <1>13 DEF Next, Handler

\* What every copy the handlers hold is worth, in every reachable state.
THEOREM Outcomes == Spec => []OutcomeInv
<1>1. Init => OutcomeInv
  BY InitOutcome
<1>2. IInv /\ OutcomeInv /\ [Next]_vars => OutcomeInv'
  BY NextOutcome
<1> QED
  BY <1>1, <1>2, Invariance, PTL DEF Spec

\* A successful PUT or DELETE reports the version on the form with the request
\* made of it: usable entries in place, the rest as it was, the hours that were
\* there shared out by the progress, the links asked for and all others where they
\* were, and the state at the end of its path.
THEOREM RepliesAreAsAsked == Spec => []AcknowledgedAsAsked
<1>1. IInv /\ OutcomeInv => AcknowledgedAsAsked
  <2> SUFFICES ASSUME IInv, OutcomeInv, NEW q \in Requests, pc[q] = "done"
               PROVE  View(known[q]) \in Promise!Made(View(form[q]), want[q],
                                            IF want[q].kind = "remove" THEN Removed
                                            ELSE IF want[q].state = Keep THEN form[q].state
                                            ELSE want[q].state)
    BY DEF AcknowledgedAsAsked
  <2>1. DoneAsAsked(q) /\ form[q] \in Item /\ want[q] \in Want
    <3>1. DoneAsAsked(q)
      BY DEF OutcomeInv, AsAsked
    <3>2. form[q] # NoItem /\ form[q] \in Item \cup {NoItem}
      BY DEF IInv, Consistent, NotYetSent, TypeOK
    <3> QED
      BY <3>1, <3>2 DEF DoneAsAsked
  <2>2. CASE want[q].kind = "remove"
    BY <2>1, <2>2, RemovedView DEF DoneAsAsked, Unmade
  <2>3. CASE want[q].kind # "remove"
    <3>1. want[q].kind = "update"
      BY <2>1, <2>3 DEF Want
    <3> QED
      BY <2>1, <2>3, <3>1, MadeView DEF DoneAsAsked
  <2> QED
    BY <2>2, <2>3
<1> QED
  BY <1>1, Invariance, Outcomes, PTL

\* A PATCH of an update that TFS would accept by its revision it can store: the
\* removals by index leave one parent at most, and the state hop is a transition
\* of the workflow.
THEOREM DocumentsAreStorable == Spec => []NeverMalformed
<1>1. IInv /\ OutcomeInv => NeverMalformed
  <2> SUFFICES ASSUME IInv, OutcomeInv, NEW q \in Requests,
                      InFlight(q), RevisionAccepted(q), want[q].kind = "update"
               PROVE  Storable(Patched(item, Document(q)))
    BY DEF NeverMalformed
  <2> DEFINE n == Patched(item, Document(q))
  <2>1. /\ n \in Item
        /\ n.state = item.state \/ <<item.state, n.state>> \in Transitions
        /\ Made(q, n)
    BY AcceptOutcome
  <2> HIDE DEF n
  <2>2. \A j, k \in IsRel(n, "parent") : j = k
    BY <2>1 DEF Made, LinkedAsAsked, OneParent
  <2> QED
    BY <2>1, <2>2 DEF Storable, n
<1> QED
  BY <1>1, Invariance, Outcomes, PTL

-------------------------------------------------------------------------------
(* Where a request that stopped half-way leaves the item. *)

\* The hop q is at, told by the revisions it has written.
HopsCounted(q) ==
    want[q].kind = "update" =>
        /\ InFlight(q) /\ wrote[q] # {} => hop[q] = known[q].rev - form[q].rev + 2
        /\ net[q].kind = "answer" => hop[q] = net[q].item.rev - form[q].rev + 1

\* What q wrote last, as long as it is the current version.
Halfway(q) ==
    item.rev \in wrote[q] =>
        /\ want[q] \in Want
        /\ IF want[q].kind = "remove" THEN Unmade(q, item)
           ELSE Made(q, item) /\ At(q, item, item.rev - form[q].rev + 1)

\* With IInv and OutcomeInv, inductive.
HalfwayInv == \A q \in Requests : HopsCounted(q) /\ Halfway(q)

\* A request that does not move, nor loses the item to somebody else's version.
LEMMA HalfwayStays ==
    ASSUME NEW q \in Requests, HopsCounted(q), Halfway(q), StillAt(q),
           item' = item \/ item'.rev \notin wrote[q]
    PROVE  (HopsCounted(q) /\ Halfway(q))'
<1>1. HopsCounted(q)'
  BY DEF HopsCounted, InFlight, StillAt
<1>2. CASE item' = item
  <2>1. Halfway(q)'
    BY <1>2 DEF Halfway, Made, Unmade, At, StillAt
  <2> QED
    BY <1>1, <2>1
<1>3. CASE item'.rev \notin wrote[q]
  <2>1. Halfway(q)'
    BY <1>3 DEF Halfway, StillAt
  <2> QED
    BY <1>1, <2>1
<1> QED
  BY <1>2, <1>3

\* One request moved, not the item.
LEMMA OneHalfway ==
    ASSUME HalfwayInv, NEW q \in Requests, item' = item,
           \A p \in Requests \ {q} : StillAt(p), (HopsCounted(q) /\ Halfway(q))'
    PROVE  HalfwayInv'
<1>1. ASSUME NEW p \in Requests PROVE (HopsCounted(p) /\ Halfway(p))'
  <2>1. CASE p = q
    BY <2>1
  <2>2. CASE p # q
    BY <2>2, HalfwayStays DEF HalfwayInv
  <2> QED
    BY <2>1, <2>2
<1> QED
  BY <1>1 DEF HalfwayInv

\* Every step leaves what was written last on its path.
LEMMA NextHalfway ==
    IInv /\ OutcomeInv /\ HalfwayInv /\ [Next]_vars => HalfwayInv'
<1> SUFFICES ASSUME IInv, OutcomeInv, HalfwayInv, [Next]_vars PROVE HalfwayInv'
  OBVIOUS
<1>a. TypeOK /\ item \in Item
  BY DEF IInv, TypeOK
<1>b. \A q \in Requests : Consistent(q) /\ AsAsked(q) /\ HopsCounted(q) /\ Halfway(q)
  BY DEF IInv, OutcomeInv, HalfwayInv
<1>1. CASE ForeignEdit
  <2>1. ASSUME NEW q \in Requests PROVE (HopsCounted(q) /\ Halfway(q))'
    <3>1. StillAt(q)
      BY <1>1 DEF ForeignEdit, StillAt
    <3>2. item'.rev \notin wrote[q]
      BY <1>1, <1>a, ForeignType, NextUnwritten
    <3> QED
      BY <1>b, <3>1, <3>2, HalfwayStays
  <2> QED
    BY <2>1 DEF HalfwayInv
<1>2. ASSUME NEW q \in Requests,
             \/ OpenForm(q) \/ (\E p \in Requests : SaveAgain(q, p))
             \/ SubmitUpdate(q) \/ SubmitRemove(q)
      PROVE  HalfwayInv'
  <2>1. item' = item /\ \A p \in Requests \ {q} : StillAt(p)
    BY <1>2, <1>a DEF OpenForm, SaveAgain, SubmitUpdate, SubmitRemove, StillAt, TypeOK
  <2>2. pc[q] \in {"unused", "editing"}
    BY <1>2 DEF OpenForm, SaveAgain, SubmitUpdate, SubmitRemove
  <2>3. wrote'[q] = {} /\ net[q] = NoMessage
    BY <1>2, <1>b, <2>2
    DEF Consistent, NotYetSent, OpenForm, SaveAgain, SubmitUpdate, SubmitRemove
  <2>4. net'[q].kind # "answer"
    BY <1>2, <1>a, <2>3
    DEF OpenForm, SaveAgain, SubmitUpdate, SubmitRemove, NoMessage, Patch, TypeOK
  <2>5. (HopsCounted(q) /\ Halfway(q))'
    BY <2>3, <2>4 DEF HopsCounted, Halfway
  <2> QED
    BY <2>1, <2>5, OneHalfway
<1>3. ASSUME NEW q \in Requests, ReadAndPatch(q) PROVE HalfwayInv'
  <2>1. item' = item /\ \A p \in Requests \ {q} : StillAt(p)
    BY <1>3, <1>a DEF ReadAndPatch, StillAt, TypeOK
  <2>2. wrote'[q] = {} /\ net'[q] = Patch(form[q].rev)
    BY <1>3, <1>a, <1>b DEF ReadAndPatch, FirstIfMatch, Consistent, NotYetSent, TypeOK
  <2>3. (HopsCounted(q) /\ Halfway(q))'
    BY <2>2 DEF HopsCounted, Halfway, Patch
  <2> QED
    BY <2>1, <2>3, OneHalfway
<1>4. ASSUME NEW q \in Requests, ReadAndReject(q) \/ CallFails(q) \/ ReceiveRefusal(q)
      PROVE  HalfwayInv'
  <2>1. item' = item /\ \A p \in Requests \ {q} : StillAt(p)
    BY <1>4, <1>a DEF ReadAndReject, CallFails, ReceiveRefusal, StillAt, TypeOK
  <2>2. UNCHANGED <<form, want, known, path, hop, net, wrote>>
    BY <1>4 DEF ReadAndReject, CallFails, ReceiveRefusal
  <2>3. (HopsCounted(q) /\ Halfway(q))'
    BY <1>b, <2>1, <2>2 DEF HopsCounted, Halfway, InFlight, Made, Unmade, At
  <2> QED
    BY <2>1, <2>3, OneHalfway
<1>5. ASSUME NEW q \in Requests, Refuse(q) PROVE HalfwayInv'
  <2>1. item' = item /\ \A p \in Requests \ {q} : StillAt(p)
    BY <1>5, <1>a DEF Refuse, StillAt, TypeOK
  <2>2. UNCHANGED <<form, want, path, wrote>> /\ net'[q] = Refusal
    BY <1>5, <1>a DEF Refuse, TypeOK
  <2>3. HopsCounted(q)'
    BY <2>2 DEF HopsCounted, InFlight, Refusal
  <2>4. Halfway(q)'
    BY <1>b, <2>1, <2>2 DEF Halfway, Made, Unmade, At
  <2> QED
    BY <2>1, <2>3, <2>4, OneHalfway
<1>6. ASSUME NEW q \in Requests, ReceiveAnswer(q) PROVE HalfwayInv'
  <2>1. item' = item /\ \A p \in Requests \ {q} : StillAt(p)
    BY <1>6, <1>a DEF ReceiveAnswer, StillAt, TypeOK
  <2>2. /\ UNCHANGED <<form, want, path, wrote>> /\ known'[q] = net[q].item
        /\ net[q].kind = "answer"
    BY <1>6, <1>a DEF ReceiveAnswer, TypeOK
  <2>3. Halfway(q)'
    BY <1>b, <2>1, <2>2 DEF Halfway, Made, Unmade, At
  <2>4. CASE MoreHops(q)
    <3>1. hop'[q] = hop[q] + 1 /\ net'[q] = Patch(net[q].item.rev)
      BY <1>6, <1>a, <2>4 DEF ReceiveAnswer, NextIfMatch, TypeOK
    <3>2. /\ form[q] \in Item /\ net[q].item \in Item
          /\ hop[q] = net[q].item.rev - form[q].rev + 1
      <4>1. net[q].item \in Item
        BY <1>a, <2>2, MessageType DEF TypeOK
      <4>2. form[q] \in Item
        BY <1>a, <1>b, <2>2 DEF TypeOK, Consistent, Written
      <4> QED
        BY <1>b, <2>2, <2>4, <4>1, <4>2 DEF HopsCounted, MoreHops
    <3>3. hop'[q] = known'[q].rev - form'[q].rev + 2
      BY <2>2, <3>1, <3>2 DEF Item
    <3>4. HopsCounted(q)'
      BY <3>1, <3>3 DEF HopsCounted, Patch
    <3> QED
      BY <2>1, <2>3, <3>4, OneHalfway
  <2>5. CASE ~MoreHops(q)
    <3>1. net'[q] = NoMessage
      BY <1>6, <1>a, <2>5 DEF ReceiveAnswer, TypeOK
    <3>2. HopsCounted(q)'
      BY <3>1 DEF HopsCounted, InFlight, NoMessage
    <3> QED
      BY <2>1, <2>3, <3>2, OneHalfway
  <2> QED
    BY <2>4, <2>5
<1>7. ASSUME NEW q \in Requests, Accept(q) PROVE HalfwayInv'
  <2>1. /\ item' = Patched(item, Document(q)) /\ net'[q] = Answer(item')
        /\ UNCHANGED <<pc, form, want, known, path, hop>>
        /\ InFlight(q) /\ RevisionAccepted(q)
        /\ \A p \in Requests \ {q} : StillAt(p)
    BY <1>7, <1>a DEF Accept, StillAt, TypeOK
  <2>2. ASSUME NEW p \in Requests \ {q} PROVE (HopsCounted(p) /\ Halfway(p))'
    <3>1. item'.rev \notin wrote[p]
      BY <1>7, <1>a, AcceptType, NextUnwritten
    <3> QED
      BY <1>b, <2>1, <3>1, HalfwayStays
  <2> DEFINE n == item'
  <2>3. /\ n \in Item /\ n.rev = item.rev + 1 /\ want[q] \in Want
        /\ want[q].kind = "remove" => Unmade(q, n)
        /\ want[q].kind = "update" =>
              /\ known[q] = item
              /\ At(q, n, hop[q])
              /\ wrote[q] = {} => form[q] = item
              /\ Made(q, n)
    BY <2>1, AcceptOutcome
  <2>4. want[q].kind = "update" => hop[q] = n.rev - form[q].rev + 1
    <3> SUFFICES ASSUME want[q].kind = "update" PROVE hop[q] = n.rev - form[q].rev + 1
      OBVIOUS
    <3>1. form[q] \in Item
      BY <1>a, <1>b, <2>1 DEF TypeOK, Consistent, Guarded
    <3>2. form[q].rev \in Nat /\ item.rev \in Nat
      BY <1>a, <3>1 DEF Item
    <3>3. CASE wrote[q] = {}
      <4>1. hop[q] = 2
        BY <1>b, <2>1, <3>3 DEF AsAsked, InFlightAsAsked
      <4>2. form[q] = item
        BY <2>3, <3>3
      <4> QED
        BY <2>3, <3>2, <4>1, <4>2
    <3>4. CASE wrote[q] # {}
      <4>1. hop[q] = known[q].rev - form[q].rev + 2
        BY <1>b, <2>1, <3>4 DEF HopsCounted
      <4>2. known[q] = item
        BY <2>3
      <4> QED
        BY <2>3, <3>2, <4>1, <4>2
    <3> QED
      BY <3>3, <3>4
  <2>5. HopsCounted(q)'
    BY <2>1, <2>4 DEF HopsCounted, InFlight, Answer
  <2>6. Halfway(q)'
    <3>1. want[q].kind = "remove" => Unmade(q, item)'
      BY <2>1, <2>3 DEF Unmade
    <3>2. want[q].kind = "update" => (Made(q, item) /\ At(q, item, hop[q]))'
      BY <2>1, <2>3 DEF Made, At
    <3>3. want[q].kind = "update" => At(q, item, item.rev - form[q].rev + 1)'
      BY <2>1, <2>4, <3>2 DEF At
    <3> QED
      BY <2>1, <2>3, <3>1, <3>2, <3>3 DEF Halfway, Want
  <2> QED
    BY <2>2, <2>5, <2>6 DEF HalfwayInv
<1>8. CASE UNCHANGED vars
  <2>1. item' = item /\ \A q \in Requests : StillAt(q)
    BY <1>8 DEF vars, StillAt
  <2> QED
    BY <1>b, <2>1, HalfwayStays DEF HalfwayInv
<1> QED
  BY <1>1, <1>2, <1>3, <1>4, <1>5, <1>6, <1>7, <1>8 DEF Next, Handler

\* Wherever a request stops, what it wrote last is what its body asks for, in the
\* state its path has reached: a path cut short by an error, a timeout or a lost
\* answer never leaves the item anywhere else.
THEOREM HalfwayStopsOnPath == Spec => []HalfwayIsOnPath
<1>1. Init => HalfwayInv
  <2> SUFFICES ASSUME Init, NEW q \in Requests PROVE HopsCounted(q) /\ Halfway(q)
    BY DEF HalfwayInv
  <2> QED
    BY DEF Init, HopsCounted, Halfway, InFlight, NoMessage
<1>2. IInv /\ OutcomeInv /\ HalfwayInv /\ [Next]_vars => HalfwayInv'
  BY NextHalfway
<1>3. IInv /\ OutcomeInv /\ HalfwayInv => HalfwayIsOnPath
  <2> SUFFICES ASSUME IInv, OutcomeInv, HalfwayInv,
                      NEW q \in Requests, item.rev \in wrote[q]
               PROVE  \E s \in StateWritten(q) :
                         View(item) \in Promise!Made(View(form[q]), want[q], s)
    BY DEF HalfwayIsOnPath
  <2>1. Halfway(q) /\ PathIsLegal(q)
    BY DEF HalfwayInv, OutcomeInv, AsAsked
  <2>2. form[q] \in Item
    BY DEF IInv, Consistent, Written, TypeOK
  <2>3. CASE want[q].kind = "remove"
    BY <2>1, <2>2, <2>3, RemovedView DEF Halfway, Unmade, StateWritten
  <2>4. CASE want[q].kind # "remove"
    <3>1. want[q].kind = "update" /\ Made(q, item) /\ At(q, item, item.rev - form[q].rev + 1)
      BY <2>1, <2>4 DEF Halfway, Want
    <3>2. View(item) \in Promise!Made(View(form[q]), want[q], item.state)
      BY <3>1, MadeView
    <3>3. item.state \in StateWritten(q)
      <4>1. CASE path[q] = <<>>
        BY <2>4, <3>1, <4>1 DEF StateWritten, Made
      <4>2. CASE path[q] # <<>>
        <5>1. item.rev - form[q].rev + 1 \in DOMAIN path[q]
          BY <3>1, <4>2 DEF At, IInv, TypeOK
        <5>2. item.state = path[q][item.rev - form[q].rev + 1]
          BY <3>1, <4>2 DEF At
        <5> QED
          BY <2>4, <4>2, <5>1, <5>2 DEF StateWritten
      <4> QED
        BY <4>1, <4>2
    <3> QED
      BY <3>2, <3>3
  <2> QED
    BY <2>3, <2>4
<1> QED
  BY <1>1, <1>2, <1>3, Invariance, Outcomes, PTL DEF Spec

-------------------------------------------------------------------------------
(* The promise of CheckedEdits. *)

\* The history tells who made a version.
LEMMA AuthorKnown ==
    ASSUME OneAuthor, NEW q \in Requests, NEW r \in wrote[q]
    PROVE  Author(r) = q
<1>1. \A p \in Requests : r \in wrote[p] => p = q
  BY DEF OneAuthor
<1>2. (CHOOSE p \in Requests : r \in wrote[p]) = q
  BY <1>1
<1> QED
  BY <1>2 DEF Author

\* One legal step of the workflow, as CheckedEdits says it.
LEMMA StepIsLegal ==
    ASSUME NEW s, NEW t, t = s \/ <<s, t>> \in Transitions
    PROVE  t \in Promise!OneStep(s)
<1>1. CASE t = s
  BY <1>1 DEF Promise!OneStep
<1>2. CASE <<s, t>> \in Transitions
  <2>1. <<s, t>>[1] = s /\ <<s, t>>[2] = t
    OBVIOUS
  <2> QED
    BY <1>2, <2>1 DEF Promise!OneStep
<1> QED
  BY <1>1, <1>2

\* The history starts as CheckedEdits' does.
LEMMA InitKeepsPromise == Init => Promise!Init
<1> SUFFICES ASSUME Init PROVE Promise!Init
  OBVIOUS
<1>1. item \in Item /\ item.rev \in Nat \ {0} /\ View(item) \in {View(i) : i \in FirstVersions}
  BY ConstantsOK DEF Init, ConstantsOK, Item
<1>2. [q \in Requests |-> IF form[q] = NoItem THEN 0 ELSE form[q].rev] = [q \in Requests |-> 0]
  BY DEF Init
<1>3. {q \in Requests : wrote[q] # {}} = {}
  BY DEF Init
<1>4. Author(item.rev) = Nobody
  BY DEF Init, Author
<1> QED
  BY <1>1, <1>2, <1>3, <1>4 DEF Promise!Init

\* What the steps of the handlers, TFS and the browser are to CheckedEdits.
Base == [q \in Requests |-> IF form[q] = NoItem THEN 0 ELSE form[q].rev]
Taken == {q \in Requests : wrote[q] # {}}

\* A step that changes neither item, form nor history is a stutter.
LEMMA Unseen ==
    ASSUME item' = item, form' = form, wrote' = wrote
    PROVE  UNCHANGED Promise!vars
BY DEF Promise!vars, Author

\* An edit by somebody else is one.
LEMMA ForeignEditMaps ==
    ASSUME IInv, ForeignEdit
    PROVE  Promise!ForeignEdit
<1>1. PICK c \in Contents :
         LET i == [rev |-> item.rev + 1, fields |-> c.fields,
                   hours |-> c.hours, state |-> c.state, links |-> c.links]
         IN Storable(i) /\ item' = i
  BY DEF ForeignEdit
<1>2. /\ item'.rev = item.rev + 1 /\ item'.fields = c.fields /\ item'.state = c.state
      /\ item'.hours = c.hours /\ item'.links = c.links
      /\ c.state = item.state \/ <<item.state, c.state>> \in Transitions
  BY <1>1 DEF Storable
<1>3. View(item') = View(c)
  BY <1>2, SameLinks DEF View
<1>4. View(c).state \in Promise!OneStep(View(item).state)
  BY <1>2, StepIsLegal DEF View
<1>5. wrote' = wrote /\ form' = form
  BY DEF ForeignEdit
<1>6. Author(item.rev)' = Nobody
  BY <1>2, <1>5, NextUnwritten DEF Author
<1>7. View(item)' = View(item')
  BY DEF View, Others, LinksTo, IsRel
<1> QED
  BY <1>2, <1>3, <1>4, <1>5, <1>6, <1>7 DEF Promise!ForeignEdit

\* Opening a form, or saving one again, begins an edit.
LEMMA BeginMaps ==
    ASSUME IInv, OutcomeInv, NEW q \in Requests, pc[q] = "unused",
           NEW i \in Item, Past(i, item), i = item \/ \E p \in Requests : i = form[p],
           form' = [form EXCEPT ![q] = i],
           item' = item, wrote' = wrote
    PROVE  Promise!Begin(q)
<1>1. form[q] = NoItem
  BY DEF OutcomeInv, AsAsked, PathIsLegal
<1>2. i # NoItem /\ i.rev # 0
  BY ConstantsOK DEF ConstantsOK, Past, Item
<1>3. form \in [Requests -> Item \cup {NoItem}]
  BY DEF IInv, TypeOK
<1>4. Base' = [Base EXCEPT ![q] = i.rev]
  BY <1>2, <1>3 DEF Base
<1>5. Base[q] = 0
  BY <1>1 DEF Base
<1>6. i.rev \in ({item.rev} \cup {Base[p] : p \in Requests}) \ {0}
  BY <1>2 DEF Base
<1>7. UNCHANGED <<item.rev, View(item), Taken, Author(item.rev)>>
  BY DEF Taken, Author
<1> QED
  BY <1>4, <1>5, <1>6, <1>7 DEF Promise!Begin, Base, Taken

\* The first PATCH TFS applies is the edit's effect, a later one a walk on.
LEMMA AcceptMaps ==
    ASSUME IInv, IInv', OutcomeInv, NEW q \in Requests, Accept(q)
    PROVE  Promise!TakeEffect(q) \/ Promise!WalkOn(q)
<1> DEFINE n == item'
           w == want[q]
<1>1. /\ item' = Patched(item, Document(q)) /\ form' = form
      /\ InFlight(q) /\ RevisionAccepted(q) /\ Storable(n)
      /\ wrote' = [wrote EXCEPT ![q] = @ \cup {n.rev}]
  BY DEF Accept
<1>2. /\ n \in Item /\ n.rev = item.rev + 1 /\ w \in Want
      /\ w.kind = "remove" =>
            /\ wrote[q] = {}
            /\ n.state = Removed /\ n.fields = item.fields
            /\ n.hours = item.hours /\ n.links = item.links
            /\ Unmade(q, n)
      /\ w.kind = "update" =>
            /\ known[q] = item
            /\ n.state = item.state \/ <<item.state, n.state>> \in Transitions
            /\ w.state = Keep => n.state = item.state
            /\ wrote[q] = {} => form[q] = item
            /\ wrote[q] # {} => /\ n.fields = item.fields
                               /\ n.hours = item.hours
                               /\ n.links = item.links
            /\ Made(q, n)
  BY <1>1, AcceptOutcome
<1>3. View(item)' = View(n)
  BY DEF View, Others, LinksTo, IsRel
<1>4. Guarded(q) /\ w \in Wants /\ form[q] # NoItem /\ item.rev \in Nat
      /\ wrote \in [Requests -> SUBSET Nat]
  BY <1>1 DEF IInv, Consistent, Guarded, TypeOK, Item
<1>5. wrote'[q] = wrote[q] \cup {n.rev} /\ \A p \in Requests \ {q} : wrote'[p] = wrote[p]
  BY <1>1, <1>4
<1>6. Author(item.rev)' = q
  <2>1. (OneAuthor)'
    BY DEF IInv
  <2>2. item.rev' \in wrote'[q]
    BY <1>5
  <2>3. \A p \in Requests : item.rev' \in wrote'[p] => p = q
    BY <2>1, <2>2 DEF OneAuthor
  <2>4. (CHOOSE p \in Requests : item.rev' \in wrote'[p]) = q
    BY <2>2, <2>3
  <2> QED
    BY <2>2, <2>4 DEF Author
<1>7. Taken' = Taken \cup {q}
  BY <1>5 DEF Taken
<1>8. Base' = Base
  BY <1>1 DEF Base
<1> HIDE DEF n
<1>9. CASE wrote[q] = {}
  <2>1. form[q] = item
    BY <1>1, <1>9, BlindNow DEF NoBlindOverwrite, FirstPatch
  <2>2. Base[q] = item.rev
    BY <1>4, <2>1 DEF Base
  <2>3. q \notin Taken
    BY <1>9 DEF Taken
  <2>4. n.state \in Promise!Reached(View(item), w)
    <3>1. View(item).state = item.state
      BY DEF View
    <3>2. CASE w.kind = "remove"
      BY <1>2, <3>2 DEF Promise!Reached
    <3>3. CASE w.kind = "update"
      BY <1>2, <3>1, <3>3, StepIsLegal DEF Promise!Reached
    <3> QED
      BY <1>2, <3>2, <3>3 DEF Want
  <2>5. View(n) \in Promise!Made(View(item), w, n.state)
    <3>1. CASE w.kind = "remove"
      <4>1. n = [form[q] EXCEPT !.rev = @ + 1, !.state = Removed]
        BY <1>2, <3>1 DEF Unmade
      <4>2. item \in Item
        BY DEF IInv, TypeOK
      <4> QED
        BY <1>2, <2>1, <3>1, <4>1, <4>2, RemovedView
    <3>2. CASE w.kind = "update"
      BY <1>2, <1>9, <2>1, <3>2, MadeView
    <3> QED
      BY <1>2, <3>1, <3>2 DEF Want
  <2>6. Promise!TakeEffect(q)
    BY <1>2, <1>3, <1>4, <1>6, <1>7, <1>8, <2>2, <2>3, <2>4, <2>5
    DEF Promise!TakeEffect, Base, Taken, n
  <2> QED
    BY <2>6
<1>10. CASE wrote[q] # {}
  <2>1. w.kind = "update"
    BY <1>2, <1>10 DEF Want
  <2>2. Author(item.rev) = q
    <3>1. Wrote(q, item.rev)
      BY <1>1, <1>2, <1>4, <1>10, <2>1 DEF Guarded
    <3>2. item.rev \in wrote[q]
      <4>1. form[q].rev \in Nat
        BY <1>4 DEF IInv, TypeOK, Item
      <4> QED
        BY <1>4, <3>1, <4>1 DEF Wrote
    <3> QED
      BY <3>2, AuthorKnown DEF IInv
  <2>3. /\ LinksTo(n, "parent") = LinksTo(item, "parent")
        /\ LinksTo(n, "predecessor") = LinksTo(item, "predecessor")
        /\ Others(n) = Others(item)
    BY <1>2, <1>10, <2>1, SameLinks
  <2>4. View(n) = [View(item) EXCEPT !.state = n.state]
    BY <1>2, <1>10, <2>1, <2>3 DEF View
  <2>5. n.state \in Promise!OneStep(View(item).state)
    BY <1>2, <2>1, StepIsLegal DEF View
  <2>6. Taken' = Taken
    BY <1>7, <1>10 DEF Taken
  <2>7. Promise!WalkOn(q)
    BY <1>2, <1>3, <1>6, <1>8, <2>2, <2>4, <2>5, <2>6
    DEF Promise!WalkOn, Base, Taken, n
  <2> QED
    BY <2>7
<1> QED
  BY <1>9, <1>10

\* Every step is a step of CheckedEdits or a stutter.
LEMMA NextKeepsPromise ==
    IInv /\ IInv' /\ OutcomeInv /\ [Next]_vars => [Promise!Next]_(Promise!vars)
<1> SUFFICES ASSUME IInv, IInv', OutcomeInv, [Next]_vars
             PROVE  Promise!Next \/ UNCHANGED Promise!vars
  OBVIOUS
<1>a. TypeOK /\ item \in Item /\ item.rev > 0 /\ item.rev \in Nat
  BY DEF IInv, TypeOK, Item
<1>1. CASE ForeignEdit
  BY <1>1, ForeignEditMaps DEF Promise!Next
<1>2. ASSUME NEW q \in Requests, OpenForm(q) PROVE Promise!Next
  <2>1. Past(item, item)
    BY <1>a DEF Past
  <2>2. Promise!Begin(q)
    BY <1>2, <1>a, <2>1, BeginMaps DEF OpenForm
  <2> QED
    BY <2>2 DEF Promise!Next
<1>3. ASSUME NEW q \in Requests, NEW p \in Requests, SaveAgain(q, p) PROVE Promise!Next
  <2>1. Past(form[p], item) /\ form[p] \in Item
    <3>1. CopiesPast(p) /\ NotYetSent(p)
      BY DEF IInv, Consistent
    <3> QED
      BY <1>3, <3>1 DEF SaveAgain, CopiesPast, NotYetSent, Past
  <2>2. Promise!Begin(q)
    BY <1>3, <2>1, BeginMaps DEF SaveAgain
  <2> QED
    BY <2>2 DEF Promise!Next
<1>4. ASSUME NEW q \in Requests, Accept(q) PROVE Promise!Next
  BY <1>4, AcceptMaps DEF Promise!Next
<1>5. ASSUME NEW q \in Requests, SubmitUpdate(q) \/ SubmitRemove(q) \/ Handler(q) \/ Refuse(q)
      PROVE  UNCHANGED Promise!vars
  <2>1. item' = item /\ form' = form /\ wrote' = wrote
    BY <1>5 DEF SubmitUpdate, SubmitRemove, Handler, Refuse, ReadAndPatch, ReadAndReject,
                CallFails, ReceiveAnswer, ReceiveRefusal
  <2> QED
    BY <2>1, Unseen
<1>6. CASE UNCHANGED vars
  BY <1>6, Unseen DEF vars
<1> QED
  BY <1>1, <1>2, <1>3, <1>4, <1>5, <1>6 DEF Next

\* The handlers, TFS and the browser keep the promise of CheckedEdits: every edit
\* takes effect at most once, in one step, on the version it was made from, and
\* only its author walks the state on until somebody else changes the item.
THEOREM PromiseIsKept == Spec => KeepsPromise
<1>1. Init => Promise!Init
  BY InitKeepsPromise
<1>2. IInv /\ IInv' /\ OutcomeInv /\ [Next]_vars => [Promise!Next]_(Promise!vars)
  BY NextKeepsPromise
<1> QED
  BY <1>1, <1>2, Invariance, Outcomes, PTL DEF Spec, KeepsPromise, Promise!Spec

-------------------------------------------------------------------------------
(* The search, StatePathSearch.  The argument is the one of breadth-first  *)
(* search: a walk from the present state to the wanted one cannot leave    *)
(* the states that have been looked at without meeting the queue           *)
(* (WalkMeetsQueue), and it meets it no later than the search did.         *)

\* Every listing of a finite set in SetToSeqs lists all of it.
LEMMA ListsAll ==
    ASSUME NEW S, IsFiniteSet(S), NEW order \in SetToSeqs(S)
    PROVE  /\ order \in Seq(S)
           /\ \A s \in S : \E k \in DOMAIN order : order[k] = s
  <1> DEFINE D == 1..Cardinality(S)
  <1>1. Cardinality(S) \in Nat
    BY FS_CardinalityType
  <1>2. order \in [D -> S] /\ \A i, j \in D : i # j => order[i] # order[j]
    BY DEF SetToSeqs
  <1>3. IsFiniteSet(D) /\ Cardinality(D) = Cardinality(S)
    BY <1>1, FS_Interval
  <1>4. order \in Injection(D, S)
    BY <1>2 DEF Injection, IsInjective
  <1>5. order \in Surjection(D, S)
    BY <1>3, <1>4, FS_Injection
  <1> QED
    BY <1>1, <1>2, <1>5 DEF Surjection

\* A walk to the wanted state meets the queue, no later than the search did,
\* as long as nothing was returned.
LEMMA WalkMeetsQueue ==
    ASSUME SearchInv, status # "found", NEW n \in Nat \ {0},
           NEW w \in WalksOfLength(n, TypeStates, edges, from, to)
    PROVE  \E j \in 1..n, k \in DOMAIN queue :
              Last(queue[k]) = w[j] /\ depth[w[j]] <= j
  <1> DEFINE Behind(i) == w[i] \in visited /\ depth[w[i]] <= i /\ LookedAt(w[i])
             T == {i \in 1..n : ~Behind(i)}
  <1>1. /\ w \in [1..n -> TypeStates]
        /\ w[1] = from
        /\ w[n] = to
        /\ \A i \in 1..(n - 1) : <<w[i], w[i + 1]>> \in edges
    BY DEF WalksOfLength
  <1>2. /\ \A s \in visited : Queued(s) \/ LookedAt(s)
        /\ from \in visited
        /\ depth[from] = 1
        /\ depth \in [TypeStates -> Nat]
    BY <1>1 DEF SearchInv, Frontier, SearchTypeOK
  <1>3. n \in T
    BY <1>1 DEF LookedAt
  <1> HIDE DEF T
  <1>4. PICK j \in T : \A i \in T : j <= i
    <2>1. T \in SUBSET Nat
      BY DEF T
    <2> QED
      BY <1>3, <2>1, LeastNat
  <1> USE DEF T
  <1>5. w[j] \in visited /\ depth[w[j]] <= j
    <2>1. CASE j = 1
      BY <2>1, <1>1, <1>2
    <2>2. CASE j # 1
      <3>1. j - 1 \in 1..(n - 1) /\ Behind(j - 1)
        BY <2>2, <1>4
      <3>2. w[j] \in Successors(w[j - 1])
        BY <1>1, <3>1 DEF Successors
      <3>3. w[j] \in visited /\ depth[w[j]] <= depth[w[j - 1]] + 1
        BY <3>1, <3>2 DEF LookedAt
      <3> QED
        BY <1>1, <1>2, <3>1, <3>3
    <2> QED
      BY <2>1, <2>2
  <1>6. Queued(w[j])
    BY <1>2, <1>4, <1>5
  <1> QED
    BY <1>4, <1>5, <1>6 DEF Queued

-------------------------------------------------------------------------------

LEMMA SearchInitially == SearchInit => SearchInv
  <1> SUFFICES ASSUME SearchInit PROVE SearchInv
    OBVIOUS
  <1>1. PICK c \in Changes : from = c[1] /\ to = c[2]
    BY DEF SearchInit
  <1>2. /\ from \in TypeStates /\ to \in TypeStates /\ from # to
        /\ <<from, to>> \in Changes
    BY <1>1, SearchAssumption
  <1>3. /\ <<from>> \in Seq(TypeStates) \ {<<>>}
        /\ Len(<<from>>) = 1 /\ <<from>>[1] = from
    BY <1>2
  <1>4. /\ queue \in Seq(Seq(TypeStates) \ {<<>>})
        /\ Len(queue) = 1 /\ DOMAIN queue = {1} /\ queue[1] = <<from>>
    BY <1>3 DEF SearchInit
  <1>5. SearchTypeOK
    BY <1>2, <1>4 DEF SearchInit, SearchTypeOK
  <1>6. FirstWalk(<<from>>) /\ depth[from] = 1
    BY <1>2, <1>3 DEF SearchInit, FirstWalk
  <1>7. QueuedWalks
    BY <1>4, <1>6 DEF QueuedWalks
  <1>8. Levels
    BY <1>2, <1>3, <1>4 DEF Levels, SearchInit
  <1>9. Frontier
    BY <1>3, <1>4 DEF Frontier, Queued, Last, SearchInit
  <1>10. Result
    BY DEF Result, SearchInit
  <1> QED
    BY <1>5, <1>6, <1>7, <1>8, <1>9, <1>10 DEF SearchInv

-------------------------------------------------------------------------------
(* One step at a time. *)

\* The head of the queue: a first walk to a state that was seen.
LEMMA HeadFacts ==
    ASSUME SearchInv, queue # <<>>
    PROVE  /\ 1 \in DOMAIN queue /\ Head(queue) = queue[1]
           /\ Head(queue) \in Seq(TypeStates) \ {<<>>}
           /\ Len(Head(queue)) \in Nat \ {0}
           /\ FirstWalk(Head(queue))
           /\ Last(Head(queue)) \in visited
           /\ depth[Last(Head(queue))] = Len(Head(queue))
           /\ Tail(queue) \in Seq(Seq(TypeStates) \ {<<>>})
           /\ Len(Tail(queue)) = Len(queue) - 1
           /\ \A k \in 1..Len(Tail(queue)) : Tail(queue)[k] = queue[k + 1]
  <1> DEFINE h == Head(queue)
  <1>1. queue \in Seq(Seq(TypeStates) \ {<<>>}) /\ depth \in [TypeStates -> Nat]
        /\ visited = {s \in TypeStates : depth[s] > 0}
    BY DEF SearchInv, SearchTypeOK
  <1>2. 1 \in DOMAIN queue /\ h = queue[1] /\ h \in Seq(TypeStates) \ {<<>>}
    BY <1>1
  <1>3. Len(h) \in Nat \ {0}
    BY <1>2, EmptySeq
  <1>4. FirstWalk(h)
    BY <1>2 DEF SearchInv, QueuedWalks
  <1>5. depth[Last(h)] = Len(h) /\ Last(h) \in TypeStates
    BY <1>2, <1>3, <1>4 DEF FirstWalk, Last
  <1>6. /\ Tail(queue) \in Seq(Seq(TypeStates) \ {<<>>})
        /\ Len(Tail(queue)) = Len(queue) - 1
        /\ \A k \in 1..Len(Tail(queue)) : Tail(queue)[k] = queue[k + 1]
    BY <1>1, HeadTailProperties
  <1> QED
    BY <1>1, <1>2, <1>3, <1>4, <1>5, <1>6

LEMMA ReturnKeepsInv ==
    ASSUME SearchInv, Return
    PROVE  SearchInv'
  <1> DEFINE h == Head(queue)
  <1>1. /\ status = "searching" /\ queue # <<>> /\ Last(h) = to
        /\ found' = h /\ status' = "found" /\ queue' = Tail(queue)
        /\ edges' = edges /\ from' = from /\ to' = to
        /\ visited' = visited /\ depth' = depth
    BY DEF Return
  <1>2. /\ h = queue[1] /\ 1 \in DOMAIN queue
        /\ h \in Seq(TypeStates) \ {<<>>} /\ Len(h) \in Nat \ {0}
        /\ FirstWalk(h)
        /\ queue' \in Seq(Seq(TypeStates) \ {<<>>})
        /\ Len(queue') = Len(queue) - 1
        /\ \A k \in 1..Len(queue') : queue'[k] = queue[k + 1]
    BY <1>1, HeadFacts
  <1>3. /\ queue \in Seq(Seq(TypeStates) \ {<<>>})
        /\ \A k \in DOMAIN queue' : k + 1 \in DOMAIN queue /\ queue'[k] = queue[k + 1]
    <2>1. queue \in Seq(Seq(TypeStates) \ {<<>>})
      BY DEF SearchInv, SearchTypeOK
    <2>2. DOMAIN queue' = 1..Len(queue') /\ DOMAIN queue = 1..Len(queue)
      BY <1>2, <2>1, LenProperties
    <2> QED
      BY <1>2, <2>1, <2>2, LenProperties
  <1>4. SearchTypeOK'
    BY <1>1, <1>2 DEF SearchInv, SearchTypeOK
  <1>5. QueuedWalks'
    BY <1>1, <1>3 DEF SearchInv, QueuedWalks, FirstWalk
  <1>6. Levels'
    <2>1. \A j, k \in DOMAIN queue' : j <= k => Len(queue'[j]) <= Len(queue'[k])
      <3> SUFFICES ASSUME NEW j \in DOMAIN queue', NEW k \in DOMAIN queue', j <= k
                   PROVE  Len(queue'[j]) <= Len(queue'[k])
        OBVIOUS
      <3>1. j \in Nat /\ k \in Nat /\ j + 1 <= k + 1
        BY <1>2
      <3> QED
        BY <1>3, <3>1 DEF SearchInv, Levels
    <2>2. \A j \in DOMAIN queue' : \A t \in visited' : depth'[t] <= Len(queue'[j]) + 1
      BY <1>1, <1>3 DEF SearchInv, Levels
    <2> QED
      BY <2>1, <2>2 DEF Levels
  <1>7. Frontier'
    BY <1>1 DEF Frontier
  <1>8. \A n \in 1..(Len(h) - 1) : WalksOfLength(n, TypeStates, edges, from, to) = {}
    <2> SUFFICES ASSUME NEW n \in 1..(Len(h) - 1),
                        NEW w \in WalksOfLength(n, TypeStates, edges, from, to)
                 PROVE  FALSE
      OBVIOUS
    <2>1. n \in Nat \ {0} /\ n < Len(h)
      BY <1>2
    <2>2. PICK j \in 1..n, k \in DOMAIN queue : Last(queue[k]) = w[j] /\ depth[w[j]] <= j
      BY <1>1, <2>1, WalkMeetsQueue
    <2>3. queue[k] \in Seq(TypeStates) \ {<<>>} /\ FirstWalk(queue[k])
      BY <1>3 DEF SearchInv, QueuedWalks
    <2>4. Len(queue[k]) \in Nat \ {0} /\ depth[w[j]] = Len(queue[k])
      <3>1. Len(queue[k]) \in Nat \ {0}
        BY <2>3, EmptySeq
      <3> QED
        BY <2>2, <2>3, <3>1 DEF FirstWalk, Last
    <2>5. Len(queue[1]) <= Len(queue[k])
      <3>1. k \in Nat /\ 1 <= k
        BY <1>3
      <3> QED
        BY <1>2, <3>1 DEF SearchInv, Levels
    <2> QED
      BY <1>2, <2>1, <2>2, <2>4, <2>5
  <1>9. Result'
    <2>1. FirstWalk(found)'
      BY <1>1, <1>2 DEF FirstWalk
    <2>2. found'[Len(found')] = to'
      BY <1>1 DEF Last
    <2>3. \A n \in 1..(Len(found') - 1) : WalksOfLength(n, TypeStates, edges', from', to') = {}
      BY <1>1, <1>8
    <2> QED
      BY <1>1, <2>1, <2>2, <2>3 DEF Result
  <1>10. depth'[from'] = 1
    BY <1>1 DEF SearchInv
  <1> QED
    BY <1>4, <1>5, <1>6, <1>7, <1>9, <1>10 DEF SearchInv

LEMMA FailKeepsInv ==
    ASSUME SearchInv, Fail
    PROVE  SearchInv'
  <1>1. /\ status = "searching" /\ queue = <<>> /\ status' = "none"
        /\ edges' = edges /\ from' = from /\ to' = to /\ queue' = queue
        /\ visited' = visited /\ depth' = depth /\ found' = found
    BY DEF Fail
  <1>2. SearchTypeOK' /\ depth'[from'] = 1
    BY <1>1 DEF SearchInv, SearchTypeOK
  <1>3. QueuedWalks' /\ Levels'
    BY <1>1 DEF SearchInv, QueuedWalks, Levels, FirstWalk
  <1>4. Frontier'
    BY <1>1 DEF SearchInv, Frontier, Queued, LookedAt, Successors
  <1>5. Result'
    BY <1>1 DEF Result
  <1> QED
    BY <1>2, <1>3, <1>4, <1>5 DEF SearchInv

\* What Extend does to the queue: the rest of it stays, and behind it stand the
\* extensions of the head, one for every state not seen before.
LEMMA ExtendFacts ==
    ASSUME SearchInv, Extend
    PROVE  LET h == Head(queue)
               old == Len(queue) - 1
           IN /\ old \in Nat
              /\ queue' \in Seq(Seq(TypeStates) \ {<<>>})
              /\ \A k \in DOMAIN queue' :
                    \/ k <= old /\ k + 1 \in DOMAIN queue /\ queue'[k] = queue[k + 1]
                    \/ /\ k > old
                       /\ \E t \in New(Last(h)) : queue'[k] = Append(h, t)
              /\ \A k \in 1..old : k \in DOMAIN queue' /\ queue'[k] = queue[k + 1]
              /\ \A t \in New(Last(h)) : \E k \in DOMAIN queue' : queue'[k] = Append(h, t)
  <1> DEFINE h == Head(queue)
             new == New(Last(h))
             old == Len(queue) - 1
  <1>1. queue # <<>>
    BY DEF Extend
  <1>2. PICK order \in SetToSeqs(new) :
           queue' = Tail(queue) \o [k \in DOMAIN order |-> Append(h, order[k])]
    BY DEF Extend, Enqueued
  <1> DEFINE added == [k \in DOMAIN order |-> Append(h, order[k])]
  <1>3. new \subseteq TypeStates /\ IsFiniteSet(new)
    <2>1. new \in SUBSET TypeStates
      BY DEF New, Successors
    <2> QED
      BY <2>1, SearchAssumption, FS_Subset
  <1>4. /\ order \in Seq(new)
        /\ \A t \in new : \E k \in DOMAIN order : order[k] = t
    BY <1>3, ListsAll
  <1>5. /\ h \in Seq(TypeStates) \ {<<>>}
        /\ Tail(queue) \in Seq(Seq(TypeStates) \ {<<>>})
        /\ Len(Tail(queue)) = old
        /\ \A k \in 1..old : Tail(queue)[k] = queue[k + 1]
    BY <1>1, HeadFacts
  <1>6. /\ added \in Seq(Seq(TypeStates) \ {<<>>})
        /\ Len(added) = Len(order)
        /\ DOMAIN order = 1..Len(order)
        /\ \A k \in 1..Len(order) : added[k] = Append(h, order[k]) /\ order[k] \in new
    <2>1. Len(order) \in Nat /\ DOMAIN order = 1..Len(order)
          /\ \A k \in 1..Len(order) : order[k] \in new
      BY <1>4
    <2>2. \A t \in new : Append(h, t) \in Seq(TypeStates) \ {<<>>}
      BY <1>3, <1>5
    <2> QED
      BY <2>1, <2>2
  <1>7. /\ queue' \in Seq(Seq(TypeStates) \ {<<>>})
        /\ Len(queue') = old + Len(order)
        /\ \A k \in 1..(old + Len(order)) :
              queue'[k] = IF k <= old THEN Tail(queue)[k] ELSE added[k - old]
    <2> DEFINE rest == Tail(queue)
               W == Seq(TypeStates) \ {<<>>}
    <2>1. queue' = rest \o added
      BY <1>2
    <2>2. rest \in Seq(W) /\ added \in Seq(W) /\ Len(rest) = old /\ Len(added) = Len(order)
      BY <1>5, <1>6
    <2> HIDE DEF added, rest, W, old
    <2>3. /\ rest \o added \in Seq(W)
          /\ Len(rest \o added) = old + Len(order)
          /\ \A k \in 1..(old + Len(order)) :
                (rest \o added)[k] = IF k <= old THEN rest[k] ELSE added[k - old]
      BY <2>2, ConcatProperties
    <2> QED
      BY <2>1, <2>3 DEF rest, W
  <1>8. /\ old \in Nat /\ Len(order) \in Nat
        /\ DOMAIN queue' = 1..(old + Len(order))
        /\ DOMAIN queue = 1..(old + 1)
    <2>1. queue \in Seq(Seq(TypeStates) \ {<<>>})
      BY DEF SearchInv, SearchTypeOK
    <2> QED
      BY <1>4, <1>5, <1>7, <2>1, LenProperties
  <1> HIDE DEF added, new, h, old
  <1>9. \A k \in DOMAIN queue' :
           \/ k <= old /\ k + 1 \in DOMAIN queue /\ queue'[k] = queue[k + 1]
           \/ k > old /\ \E t \in new : queue'[k] = Append(h, t)
    <2> SUFFICES ASSUME NEW k \in DOMAIN queue'
                 PROVE  \/ k <= old /\ k + 1 \in DOMAIN queue /\ queue'[k] = queue[k + 1]
                        \/ k > old /\ \E t \in new : queue'[k] = Append(h, t)
      OBVIOUS
    <2>1. CASE k <= old
      <3>1. k \in 1..old /\ k + 1 \in DOMAIN queue
        BY <2>1, <1>8
      <3>2. queue'[k] = Tail(queue)[k]
        BY <2>1, <1>7, <1>8
      <3> QED
        BY <2>1, <3>1, <3>2, <1>5
    <2>2. CASE k > old
      <3>1. k - old \in 1..Len(order) /\ queue'[k] = added[k - old]
        BY <2>2, <1>7, <1>8
      <3> QED
        BY <2>2, <3>1, <1>6
    <2> QED
      BY <2>1, <2>2, <1>8
  <1>10. \A k \in 1..old : k \in DOMAIN queue' /\ queue'[k] = queue[k + 1]
    BY <1>5, <1>7, <1>8
  <1>11. \A t \in new : \E k \in DOMAIN queue' : queue'[k] = Append(h, t)
    <2> SUFFICES ASSUME NEW t \in new
                 PROVE  \E k \in DOMAIN queue' : queue'[k] = Append(h, t)
      OBVIOUS
    <2>1. PICK m \in 1..Len(order) : order[m] = t
      BY <1>4, <1>6
    <2>2. /\ old + m \in DOMAIN queue'
          /\ queue'[old + m] = added[m]
      <3>1. m \in Nat /\ m > 0 /\ old + m \in 1..(old + Len(order))
            /\ ~(old + m <= old) /\ (old + m) - old = m
        BY <1>8
      <3> QED
        BY <1>7, <1>8, <3>1
    <2> QED
      BY <2>1, <2>2, <1>6
  <1> QED
    BY <1>7, <1>8, <1>9, <1>10, <1>11 DEF new, h, old

LEMMA ExtendKeepsInv ==
    ASSUME SearchInv, Extend
    PROVE  SearchInv'
  <1> DEFINE h == Head(queue)
             s == Last(h)
             new == New(s)
             old == Len(queue) - 1
             NextWalk(p) ==
                /\ p # <<>> /\ p[1] = from'
                /\ \A k \in 1..(Len(p) - 1) : <<p[k], p[k + 1]>> \in edges'
                /\ \A k \in 1..Len(p) : depth'[p[k]] = k
  <1>1. /\ status = "searching" /\ queue # <<>> /\ s # to
        /\ edges' = edges /\ from' = from /\ to' = to
        /\ found' = found /\ status' = status
        /\ visited' = visited \cup new
        /\ depth' = [t \in TypeStates |-> IF t \in new THEN Len(h) + 1 ELSE depth[t]]
    BY DEF Extend
  <1>2. /\ h = queue[1] /\ 1 \in DOMAIN queue
        /\ h \in Seq(TypeStates) \ {<<>>} /\ Len(h) \in Nat \ {0}
        /\ FirstWalk(h)
        /\ s \in visited /\ depth[s] = Len(h)
    BY <1>1, HeadFacts
  <1>3. /\ edges \in Workflows /\ <<from, to>> \in Changes
        /\ queue \in Seq(Seq(TypeStates) \ {<<>>})
        /\ depth \in [TypeStates -> Nat] /\ visited = {t \in TypeStates : depth[t] > 0}
        /\ found \in Seq(TypeStates)
        /\ depth[from] = 1 /\ from \in TypeStates
    BY SearchAssumption DEF SearchInv, SearchTypeOK
  <1>4. new \subseteq TypeStates /\ new \cap visited = {} /\ new \subseteq Successors(s)
    BY DEF New, Successors
  <1>5. \A t \in visited : depth'[t] = depth[t]
    BY <1>1, <1>3, <1>4
  <1>6. \A t \in new : depth'[t] = Len(h) + 1
    BY <1>1, <1>4
  <1> HIDE DEF new
  <1>7. /\ old \in Nat
        /\ queue' \in Seq(Seq(TypeStates) \ {<<>>})
        /\ \A k \in DOMAIN queue' :
              \/ k <= old /\ k + 1 \in DOMAIN queue /\ queue'[k] = queue[k + 1]
              \/ k > old /\ \E t \in new : queue'[k] = Append(h, t)
        /\ \A k \in 1..old : k \in DOMAIN queue' /\ queue'[k] = queue[k + 1]
        /\ \A t \in new : \E k \in DOMAIN queue' : queue'[k] = Append(h, t)
    BY ExtendFacts DEF new
  <1>8. \A t \in new : /\ Append(h, t) \in Seq(TypeStates) \ {<<>>}
                        /\ Len(Append(h, t)) = Len(h) + 1
                        /\ Append(h, t)[Len(h) + 1] = t
                        /\ \A k \in 1..Len(h) : Append(h, t)[k] = h[k]
    BY <1>2, <1>4
  <1>9. SearchTypeOK'
    <2>1. depth' \in [TypeStates -> Nat]
      BY <1>1, <1>2, <1>3
    <2>2. visited' = {t \in TypeStates : depth'[t] > 0}
      BY <1>1, <1>2, <1>3, <1>4
    <2> QED
      BY <1>1, <1>3, <1>7, <2>1, <2>2 DEF SearchTypeOK, SearchInv
  <1>10. depth'[from'] = 1
    <2>1. from \in visited
      BY <1>3
    <2> QED
      BY <1>1, <1>3, <1>5, <2>1
  <1>11. ASSUME NEW p \in Seq(TypeStates) \ {<<>>}, FirstWalk(p) PROVE NextWalk(p)
    <2>1. \A k \in 1..Len(p) : p[k] \in visited
      BY <1>3, <1>11 DEF FirstWalk
    <2> QED
      BY <1>1, <1>5, <1>11, <2>1 DEF FirstWalk
  <1>12. ASSUME NEW t \in new PROVE NextWalk(Append(h, t))
    <2>1. NextWalk(h)
      BY <1>2, <1>11
    <2>2. \A k \in 1..Len(Append(h, t)) : depth'[Append(h, t)[k]] = k
      <3>1. \A k \in 1..Len(h) : depth'[h[k]] = k
        BY <2>1
      <3> QED
        BY <1>2, <1>6, <1>8, <3>1
    <2>3. \A k \in 1..(Len(Append(h, t)) - 1) :
             <<Append(h, t)[k], Append(h, t)[k + 1]>> \in edges'
      <3> SUFFICES ASSUME NEW k \in 1..(Len(Append(h, t)) - 1)
                   PROVE  <<Append(h, t)[k], Append(h, t)[k + 1]>> \in edges'
        OBVIOUS
      <3>1. k \in 1..Len(h) /\ Append(h, t)[k] = h[k]
        BY <1>2, <1>8
      <3>2. CASE k = Len(h)
        <4>1. <<s, t>> \in edges
          BY <1>4 DEF Successors
        <4> QED
          BY <1>1, <1>8, <3>1, <3>2, <4>1 DEF Last
      <3>3. CASE k # Len(h)
        <4>1. k + 1 \in 1..Len(h) /\ k \in 1..(Len(h) - 1)
          BY <1>2, <3>1, <3>3
        <4> QED
          BY <1>8, <2>1, <3>1, <4>1
      <3> QED
        BY <3>2, <3>3
    <2>4. Append(h, t) # <<>> /\ Append(h, t)[1] = from'
      BY <1>2, <1>8, <2>1
    <2> QED
      BY <2>2, <2>3, <2>4
  <1>13. QueuedWalks'
    <2> SUFFICES ASSUME NEW k \in DOMAIN queue' PROVE NextWalk(queue'[k])
      BY DEF QueuedWalks, FirstWalk
    <2>1. CASE k + 1 \in DOMAIN queue /\ queue'[k] = queue[k + 1]
      <3>1. queue'[k] \in Seq(TypeStates) \ {<<>>} /\ FirstWalk(queue'[k])
        BY <1>3, <2>1 DEF SearchInv, QueuedWalks
      <3> QED
        BY <1>11, <3>1
    <2>2. CASE \E t \in new : queue'[k] = Append(h, t)
      BY <1>12, <2>2
    <2> QED
      BY <1>7, <2>1, <2>2
  <1> HIDE DEF NextWalk
  <1>14. \A j \in DOMAIN queue : /\ Len(h) <= Len(queue[j])
                                 /\ Len(queue[j]) <= Len(h) + 1
                                 /\ Len(queue[j]) \in Nat
    <2> SUFFICES ASSUME NEW j \in DOMAIN queue
                 PROVE  /\ Len(h) <= Len(queue[j])
                        /\ Len(queue[j]) <= Len(h) + 1
                        /\ Len(queue[j]) \in Nat
      OBVIOUS
    <2>1. 1 <= j /\ j \in Nat
      BY <1>3
    <2>2. Len(h) <= Len(queue[j])
      BY <1>2, <2>1 DEF SearchInv, Levels
    <2>3. queue[j] \in Seq(TypeStates) \ {<<>>} /\ FirstWalk(queue[j])
      BY <1>3 DEF SearchInv, QueuedWalks
    <2>4. Len(queue[j]) \in Nat \ {0}
      BY <2>3, EmptySeq
    <2>5. Last(queue[j]) \in visited /\ depth[Last(queue[j])] = Len(queue[j])
      <3>1. /\ queue[j][Len(queue[j])] \in TypeStates
            /\ depth[queue[j][Len(queue[j])]] = Len(queue[j])
        BY <2>3, <2>4 DEF FirstWalk
      <3> QED
        BY <1>3, <2>4, <3>1 DEF Last
    <2>6. depth[Last(queue[j])] <= Len(h) + 1
      BY <1>2, <2>5 DEF SearchInv, Levels
    <2> QED
      BY <2>2, <2>4, <2>5, <2>6
  <1>15. \A k \in DOMAIN queue' :
            \/ k <= old /\ k + 1 \in DOMAIN queue /\ queue'[k] = queue[k + 1]
            \/ k > old /\ Len(queue'[k]) = Len(h) + 1
    BY <1>7, <1>8
  <1>16. Levels'
    <2>1. ASSUME NEW j \in DOMAIN queue', NEW k \in DOMAIN queue', j <= k
          PROVE  Len(queue'[j]) <= Len(queue'[k])
      <3>1. j \in Nat /\ k \in Nat
        BY <1>7
      <3>2. CASE k <= old
        <4>1. /\ j + 1 \in DOMAIN queue /\ queue'[j] = queue[j + 1]
              /\ k + 1 \in DOMAIN queue /\ queue'[k] = queue[k + 1]
              /\ j + 1 <= k + 1
          BY <1>7, <1>15, <2>1, <3>1, <3>2
        <4> QED
          BY <4>1 DEF SearchInv, Levels
      <3>3. CASE ~(k <= old)
        <4>1. Len(queue'[k]) = Len(h) + 1
          BY <1>15, <3>3
        <4>2. Len(queue'[j]) <= Len(h) + 1
          BY <1>2, <1>14, <1>15
        <4> QED
          BY <4>1, <4>2
      <3> QED
        BY <3>2, <3>3
    <2>2. ASSUME NEW j \in DOMAIN queue', NEW t \in visited'
          PROVE  depth'[t] <= Len(queue'[j]) + 1
      <3>1. Len(h) <= Len(queue'[j]) /\ Len(queue'[j]) \in Nat
        BY <1>2, <1>14, <1>15
      <3>2. depth'[t] <= Len(h) + 1 /\ depth'[t] \in Nat
        <4>1. CASE t \in visited
          BY <1>2, <1>3, <1>5, <4>1 DEF SearchInv, Levels
        <4>2. CASE t \in new
          BY <1>2, <1>6, <4>2
        <4> QED
          BY <1>1, <4>1, <4>2
      <3> QED
        BY <1>2, <3>1, <3>2
    <2> QED
      BY <2>1, <2>2 DEF Levels
  <1>17. Frontier'
    <2> DEFINE Looked(v) == /\ v # to'
                            /\ \A t \in TypeStates : <<v, t>> \in edges' =>
                                  t \in visited' /\ depth'[t] <= depth'[v] + 1
               Waits(v) == \E k \in DOMAIN queue' : Last(queue'[k]) = v
    <2>1. Looked(s)
      <3>1. ASSUME NEW t \in TypeStates, <<s, t>> \in edges
            PROVE  t \in visited' /\ depth'[t] <= depth'[s] + 1
        <4>1. t \in visited \/ t \in new
          BY <3>1 DEF new, New, Successors
        <4>2. CASE t \in visited
          <5>1. depth[t] <= Len(h) + 1
            BY <1>2, <4>2 DEF SearchInv, Levels
          <5> QED
            BY <1>1, <1>2, <1>5, <4>2, <5>1
        <4>3. CASE t \in new
          BY <1>1, <1>2, <1>5, <1>6, <4>3
        <4> QED
          BY <4>1, <4>2, <4>3
      <3> QED
        BY <1>1, <3>1
    <2>2. ASSUME NEW v \in visited, LookedAt(v) PROVE Looked(v)
      <3>1. v # to /\ \A t \in TypeStates : <<v, t>> \in edges =>
                            t \in visited /\ depth[t] <= depth[v] + 1
        BY <2>2 DEF LookedAt, Successors
      <3> QED
        BY <1>1, <1>5, <3>1
    <2>3. ASSUME NEW v \in visited, Queued(v) PROVE Waits(v) \/ Looked(v)
      <3>1. PICK k \in DOMAIN queue : Last(queue[k]) = v
        BY <2>3 DEF Queued
      <3>2. CASE k = 1
        BY <1>2, <2>1, <3>1, <3>2
      <3>3. CASE k # 1
        <4>1. k - 1 \in 1..old /\ (k - 1) + 1 = k
          <5>1. DOMAIN queue = 1..Len(queue) /\ Len(queue) \in Nat
            BY <1>3, LenProperties
          <5> QED
            BY <3>3, <5>1
        <4>2. k - 1 \in DOMAIN queue' /\ queue'[k - 1] = queue[k]
          BY <1>7, <4>1
        <4> QED
          BY <3>1, <4>2
      <3> QED
        BY <3>2, <3>3
    <2>4. ASSUME NEW v \in new PROVE Waits(v)
      <3>1. PICK k \in DOMAIN queue' : queue'[k] = Append(h, v)
        BY <1>7
      <3>2. Last(queue'[k]) = v
        BY <1>8, <3>1 DEF Last
      <3> QED
        BY <3>2
    <2>5. \A v \in visited : Queued(v) \/ LookedAt(v)
      BY <1>1 DEF SearchInv, Frontier
    <2>6. \A v \in visited' : Waits(v) \/ Looked(v)
      BY <1>1, <2>2, <2>3, <2>4, <2>5
    <2> QED
      BY <2>6 DEF Frontier, Queued, LookedAt, Successors
  <1>18. Result'
    BY <1>1 DEF Result
  <1> QED
    BY <1>9, <1>10, <1>13, <1>16, <1>17, <1>18 DEF SearchInv

-------------------------------------------------------------------------------
(* Theorems. *)

LEMMA StepKeepsInv == SearchInv /\ [SearchNext]_searchVars => SearchInv'
  <1> SUFFICES ASSUME SearchInv, [SearchNext]_searchVars PROVE SearchInv'
    OBVIOUS
  <1>1. CASE Return
    BY <1>1, ReturnKeepsInv
  <1>2. CASE Extend
    BY <1>2, ExtendKeepsInv
  <1>3. CASE Fail
    BY <1>3, FailKeepsInv
  <1>4. CASE UNCHANGED searchVars
    BY <1>4 DEF searchVars, SearchInv, SearchTypeOK, QueuedWalks, FirstWalk, Levels, Frontier,
                Queued, LookedAt, Successors, Result
  <1> QED
    BY <1>1, <1>2, <1>3, <1>4 DEF SearchNext

\* The invariant of the search: the queue is a frontier that no walk to the
\* wanted state avoids, and depths grow by at most one along a transition.
THEOREM SearchInvariant == SearchSpec => []SearchInv
  <1> QED
    BY SearchInitially, StepKeepsInv, PTL DEF SearchSpec

\* TFS_STATE_TRANSITION_UNAVAILABLE is raised only for a state the workflow
\* really cannot reach, whatever the workflow.
THEOREM RefusalsAreJustified == SearchSpec => []NoneIsUnreachable
  <1>1. SearchInv => NoneIsUnreachable
    <2> SUFFICES ASSUME SearchInv, status = "none",
                        NEW n \in 1..Cardinality(TypeStates),
                        NEW w \in WalksOfLength(n, TypeStates, edges, from, to)
                 PROVE  FALSE
      BY DEF NoneIsUnreachable, Reachable
    <2>1. Cardinality(TypeStates) \in Nat /\ n \in Nat \ {0}
      BY SearchAssumption, FS_CardinalityType
    <2>2. \E j \in 1..n, k \in DOMAIN queue : Last(queue[k]) = w[j] /\ depth[w[j]] <= j
      BY <2>1, WalkMeetsQueue
    <2>3. DOMAIN queue = {}
      BY DEF SearchInv, Result
    <2> QED
      BY <2>2, <2>3
  <1> QED
    BY <1>1, SearchInvariant, PTL

\* The path returned is a shortest walk of the workflow from the present state
\* to the wanted one: the result WorkItemUpdate takes StatePaths to be.
THEOREM PathsAreShortest == SearchSpec => []FoundIsShortest
  <1>1. SearchInv => FoundIsShortest
    <2> SUFFICES ASSUME SearchInv, status = "found"
                 PROVE  found \in ShortestWalks(TypeStates, edges, from, to)
      BY DEF FoundIsShortest
    <2> DEFINE L == Len(found)
               lengths == {n \in 1..Cardinality(TypeStates) :
                             WalksOfLength(n, TypeStates, edges, from, to) # {}}
    <2>1. /\ found \in Seq(TypeStates) /\ FirstWalk(found) /\ found[L] = to
          /\ \A n \in 1..(L - 1) : WalksOfLength(n, TypeStates, edges, from, to) = {}
      BY DEF SearchInv, SearchTypeOK, Result
    <2>2. L \in Nat \ {0} /\ found \in [1..L -> TypeStates]
      BY <2>1, EmptySeq, LenProperties DEF FirstWalk
    <2>3. found \in WalksOfLength(L, TypeStates, edges, from, to)
      BY <2>1, <2>2 DEF WalksOfLength, FirstWalk
    <2>4. L <= Cardinality(TypeStates) /\ Cardinality(TypeStates) \in Nat
      <3>1. \A j, k \in 1..L : found[j] = found[k] => j = k
        BY <2>1 DEF FirstWalk
      <3>2. found \in Injection(1..L, TypeStates)
        BY <2>2, <3>1 DEF Injection, IsInjective
      <3>3. Cardinality(1..L) <= Cardinality(TypeStates)
        BY <3>2, SearchAssumption, FS_Injection
      <3>4. Cardinality(1..L) = L
        BY <2>2, FS_Interval
      <3> QED
        BY <3>3, <3>4, SearchAssumption, FS_CardinalityType
    <2>5. L \in lengths
      BY <2>2, <2>3, <2>4
    <2>6. \A k \in lengths : L <= k
      BY <2>1, <2>2, <2>4
    <2> QED
      BY <2>3, <2>5, <2>6 DEF ShortestWalks
  <1> QED
    BY <1>1, SearchInvariant, PTL

===============================================================================
