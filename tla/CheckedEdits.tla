----------------------------- MODULE CheckedEdits -----------------------------
(***************************************************************************)
(* What the update and removal routes promise their users, without GETs,   *)
(* PATCH documents, link indices or messages: a work item is a numbered    *)
(* document; an edit takes effect at most once, in one step, and only on   *)
(* the very version it was made from; after that its author alone may walk *)
(* the state on, and only until somebody else changes the item.            *)
(***************************************************************************)
EXTENDS Naturals, Sequences

CONSTANTS Requests, Fields, FieldValues, Wants, Transitions, Removed,
          ForeignDocs, FirstDocs, Keep, NoHours, NoParent, Nobody

VARIABLES
    rev,    \* number of the current version
    doc,    \* its contents: fields, hours, state, parents, predecessors, others
    base,   \* base[q]: the version q's edit was made from, 0 before it is
    taken,  \* the edits that took effect
    owner   \* whose edit made the current version

vars == <<rev, doc, base, taken, owner>>

Init ==
    /\ rev \in Nat \ {0}
    /\ doc \in FirstDocs
    /\ base = [q \in Requests |-> 0]
    /\ taken = {}
    /\ owner = Nobody

\* The states an edit may leave the item in: one legal step at most.
OneStep(s) == {s} \cup {t[2] : t \in {u \in Transitions : u[1] = s}}

\* The hours h shared out by a progress: none are lost or gained, and what is
\* completed is as near to the percentage as hundredths of an hour allow.  With
\* no hours to share out, or no percentage, they stay as they are.
SharedOut(h, percent) ==
    IF percent \notin 0..100 \/ h \in {NoHours, [completed |-> 0, remaining |-> 0]}
    THEN {h}
    ELSE LET total == h.completed + h.remaining
         IN {[completed |-> c, remaining |-> total - c] :
               c \in {k \in 0..total : /\ 100 * k <= total * percent + 50
                                        /\ total * percent <= 100 * k + 50}}

\* What an edit makes of document d on its way to state s: entries that can be
\* used replace what was there, the rest stays.
Made(d, w, s) ==
    IF w.kind = "remove" THEN {[d EXCEPT !.state = s]}
    ELSE {[fields |-> [f \in Fields |-> IF w.fields[f] \in FieldValues
                                        THEN w.fields[f] ELSE d.fields[f]],
           hours |-> h,
           state |-> s,
           parents |-> {w.parent} \ {NoParent},
           preds |-> IF w.preds = Keep THEN d.preds
                     ELSE {w.preds[k] : k \in DOMAIN w.preds},
           others |-> d.others] : h \in SharedOut(d.hours, w.progress)}

\* The states it may reach in one step.
Reached(d, w) ==
    IF w.kind = "remove" THEN {Removed}
    ELSE IF w.state = Keep THEN {d.state}
    ELSE OneStep(d.state)

\* A user starts an edit from the current version, or repeats one that failed.
Begin(q) ==
    /\ base[q] = 0
    /\ \E b \in ({rev} \cup {base[p] : p \in Requests}) \ {0} :
         base' = [base EXCEPT ![q] = b]
    /\ UNCHANGED <<rev, doc, taken, owner>>

TakeEffect(q) ==
    /\ base[q] = rev
    /\ q \notin taken
    /\ \E w \in Wants : \E s \in Reached(doc, w) : doc' \in Made(doc, w, s)
    /\ rev' = rev + 1
    /\ taken' = taken \cup {q}
    /\ owner' = q
    /\ UNCHANGED base

WalkOn(q) ==
    /\ owner = q
    /\ \E s \in OneStep(doc.state) : doc' = [doc EXCEPT !.state = s]
    /\ rev' = rev + 1
    /\ UNCHANGED <<base, taken, owner>>

ForeignEdit ==
    /\ \E d \in ForeignDocs : d.state \in OneStep(doc.state) /\ doc' = d
    /\ rev' = rev + 1
    /\ owner' = Nobody
    /\ UNCHANGED <<base, taken>>

Next ==
    \/ \E q \in Requests : Begin(q) \/ TakeEffect(q) \/ WalkOn(q)
    \/ ForeignEdit

Spec == Init /\ [][Next]_vars

===============================================================================
