------------------------------- MODULE TaskChart -------------------------------
(***************************************************************************)
(* How the tasks of a project are laid out: the tree of the WBS table      *)
(* (LocalProjectManagementPage) and the bars of the Gantt chart            *)
(* (LocalProjectManagementGantt).  Both are computed anew from the rows    *)
(* of an answer, in which nothing keeps parents from being missing or in   *)
(* a circle, and dates from being absent or reversed.                      *)
(*                                                                         *)
(* A day is a number; so is a moment, in quarters of a day, as all that    *)
(* rounding tells apart is midnight, morning, noon and afternoon.  Months  *)
(* are left out.                                                           *)
(***************************************************************************)
EXTENDS Integers, FiniteSets, FiniteSetsExt

CONSTANT Null   \* null

\* ts is the list of tasks, as a function of their ids.
ParentOf(ts, t) == IF t \in DOMAIN ts THEN ts[t].parent ELSE Null

Ids(ts) == (DOMAIN ts \cup {ts[t].parent : t \in DOMAIN ts}) \ {Null}

-------------------------------------------------------------------------------
(* The tree. *)

\* The walk up from u: how far, if not through a task seen.
Depths(ts) ==
    LET depth[seen \in SUBSET Ids(ts)] ==
            [u \in Ids(ts) |->
                IF ParentOf(ts, u) = Null \/ u \in seen THEN 0
                ELSE 1 + depth[seen \cup {u}][ParentOf(ts, u)]]
    IN  depth

Depth(ts, t) == Depths(ts)[{}][t]

HasChildren(ts, t) == \E u \in DOMAIN ts : ts[u].parent = t

\* The walk up from p: whether a group in collapsed is on it.
Hidden(ts, collapsed) ==
    LET hidden[seen \in SUBSET Ids(ts)] ==
            [p \in Ids(ts) \cup {Null} |->
                /\ p # Null /\ p \notin seen
                /\ p \in collapsed \/ hidden[seen \cup {p}][ParentOf(ts, p)]]
    IN  hidden

\* The rows of the table while the groups in collapsed are.
Visible(ts, collapsed) ==
    {t \in DOMAIN ts : ~Hidden(ts, collapsed)[{}][ts[t].parent]}

\* For reference: all that is above t, itself included if parents go round.
Above(ts, t) ==
    LET up[k \in 0..Cardinality(Ids(ts))] ==
            IF k = 0 THEN t
            ELSE IF up[k - 1] = Null THEN Null ELSE ParentOf(ts, up[k - 1])
    IN  up

Ancestors(ts, t) == {Above(ts, t)[k] : k \in 1..Cardinality(Ids(ts))} \ {Null}

GoesRound(ts, t) == \E a \in Ancestors(ts, t) \cup {t} : a \in Ancestors(ts, a)

-------------------------------------------------------------------------------
(* The timeline, in the same unit as the code: pixels. *)

CELL_WIDTH == 28

AddDays(moment, days) == moment + 4 * days

\* Of two moments, in whole days, a half rounded up.
DiffDays(start, end) == IF end <= start THEN 0 ELSE (end - start + 2) \div 4

\* Slip: the end of the timeline is that of the task that starts last.
TimelineOfStarts(ts, now) ==
    LET starts == {ts[t].start : t \in DOMAIN ts} \ {Null}
    IN  [min |-> AddDays(IF starts # {} THEN 4 * Min(starts) ELSE now, -7),
         max |-> AddDays(IF starts # {} THEN 4 * Max(starts) ELSE now, 14)]

\* The first and the last day of the timeline.  Without a start, or without
\* an end, the moment of rendering takes its place, with its time of day.
Timeline(ts, now) ==
    LET starts == {ts[t].start : t \in DOMAIN ts} \ {Null}
        ends   == {ts[t].end : t \in DOMAIN ts} \ {Null}
    IN  [min |-> AddDays(IF starts # {} THEN 4 * Min(starts) ELSE now, -7),
         max |-> AddDays(IF ends # {} THEN 4 * Max(ends) ELSE now, 14)]

Days(line) == 1 + DiffDays(line.min, line.max)

Width(line) == Days(line) * CELL_WIDTH

HasBar(ts, t) == ts[t].start # Null /\ ts[t].end # Null

\* The bar of t: a milestone is a mark in the middle of its days.
Bar(ts, line, t) ==
    LET start    == 4 * ts[t].start
        duration == (1 + DiffDays(start, 4 * ts[t].end)) * CELL_WIDTH
        left     == DiffDays(line.min, start) * CELL_WIDTH
    IN  IF ts[t].milestone
        THEN [left |-> left + duration \div 2 - 9, width |-> 18]
        ELSE [left |-> left, width |-> Max({18, duration - 4})]

\* The column in which the line from source to target goes down; there is
\* none unless both have a bar.
Elbow(ts, line, source, target) ==
    LET from == Bar(ts, line, source)
        to   == Bar(ts, line, target)
    IN  Max({from.left + from.width + 7, to.left - 8})

\* Where the line of today is drawn: today is the midnight before now.
TodayLeft(line, now) ==
    LET today == 4 * (now \div 4)
    IN  IF line.min <= today /\ today <= line.max
        THEN DiffDays(line.min, today) * CELL_WIDTH ELSE Null

\* The day above column k of the chart.
DayOfCell(line, k) == AddDays(line.min, k) \div 4
================================================================================
