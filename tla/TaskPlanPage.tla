----------------------------- MODULE TaskPlanPage -----------------------------
(***************************************************************************)
(* The pages /task-plan-list-local and /task-plan-local                    *)
(* (TargetTaskPlanPage, mode "list" or "week"): the plans of a week, by    *)
(* the filters of the page.                                                *)
(*                                                                         *)
(* A change of the query clears the flag of the effect that loads for the  *)
(* query before (active) and loads anew; a week without rows is filled     *)
(* with the Next Plan of the week before, read by a second fetch.  "Load   *)
(* more" has no such guard.  The store does not change meanwhile: the      *)
(* application only reads it.                                              *)
(*                                                                         *)
(* A week is a year and a number, as in the query, and its days are        *)
(* counted from 31 December of the year 0.  Not modelled: the selects are  *)
(* filled from a list of projects, taken to be there.                      *)
(***************************************************************************)
EXTENDS Integers, FiniteSets, Sequences, SequencesExt

CONSTANTS
    Plans,      \* pm_task_plan joined with pm_project
    None,       \* '' of a select, null
    Projects, Customers, Managers,
    CustomerOf, \* [Projects -> Customers]
    Years,      \* years the select offers (bound: and the arrows reach)
    Weeks,      \* weeks the select offers (bound: and the arrows reach)
    ThisWeek,   \* [year, week] of today
    PageSize,   \* rows of a page of the list: 50 in the code
    West,       \* the browser is in a time zone west of Greenwich
    InPlay      \* bound: the page of a behaviour and the filters it changes

Modes == {"list", "week"}
Sections == {1, 2}      \* Weekly progress, Next plan
Statuses == {1, 9}      \* active, deleted
Fields == {"week", "project", "customer", "manager", "section", "status",
           "order"}

ASSUME PlanPageAssumption ==
    /\ IsFiniteSet(Plans)
    /\ \A p, q \in Plans : p.id \in Nat /\ (p.id = q.id => p = q)
    /\ None \notin Int \cup {"week", "previous"}
    /\ Years \subseteq Nat /\ Weeks \subseteq 1..53
    /\ ThisWeek \in [year : Years, week : Weeks]
    /\ PageSize \in Nat \ {0}
    /\ West \in BOOLEAN
    /\ CustomerOf \in [Projects -> Customers]
    /\ InPlay \subseteq [mode : Modes, filters : SUBSET Fields]

VARIABLES
    mode,       \* which of the two pages
    filters,    \* year, week, projectId, ..., sortOrder
    rows,       \* the rows shown
    hasMore,    \* page.hasMore
    asking,     \* the fetch the effect awaits: "week", "previous" or None
    more,       \* the query of "load more" while loadingMore, or None
    error,      \* an error is shown
    selected,   \* selectedPlan
    requested,  \* projectId of the query string
    late,       \* history: rows were added for an earlier query
    inPlay      \* the page, and the filters this behaviour may change

vars == <<mode, filters, rows, hasMore, asking, more, error, selected,
          requested, late, inPlay>>

-------------------------------------------------------------------------------
(* ISO weeks. *)

January1(y) ==
    LET n == y - 1 IN 365 * n + n \div 4 - n \div 100 + n \div 400 + 1

\* Monday is 1, Sunday 7.
WeekDay(d) == ((d - 1) % 7) + 1

YearOf(d) == CHOOSE y \in (d \div 366)..(d \div 365 + 1) :
                 January1(y) <= d /\ d < January1(y + 1)

\* The day that a midnight of UTC is on for getFullYear, getMonth, getDate.
LocalDay(d) == IF West THEN d - 1 ELSE d

\* Slip: the week of the day itself, not of its Thursday.
WeekInfoOfDay(d) ==
    LET local == LocalDay(d)
        y == YearOf(local)
    IN  [year |-> y, week |-> (local - January1(y)) \div 7 + 1]

\* getIsoWeekInfo: the week is in the year that its Thursday is in.
WeekInfo(d) ==
    LET local == LocalDay(d)
        thursday == local + 4 - WeekDay(local)
        y == YearOf(thursday)
    IN  [year |-> y, week |-> (thursday - January1(y)) \div 7 + 1]

\* getWeekRange: the Monday of week w, the first being that of 4 January.
WeekStart(y, w) ==
    LET fourth == January1(y) + 3
    IN  fourth - WeekDay(fourth) + 1 + (w - 1) * 7

\* Slip: the week before the first is the last of the same year.
PreviousWrapped(y, w) ==
    [year |-> y, week |-> IF w > 1 THEN w - 1 ELSE 52]

\* getPreviousIsoWeek: 28 December is in the last week of its year.
PreviousWeek(y, w) ==
    IF w > 1 THEN [year |-> y, week |-> w - 1]
    ELSE [year |-> y - 1, week |-> WeekInfo(January1(y) - 4).week]

-------------------------------------------------------------------------------
(* Queries. *)

Allows(wanted, value) == wanted = None \/ wanted = value

\* BuildPlanWhere.
Matching(f) ==
    {p \in Plans :
        /\ IF f.status = None THEN p.status # 9 ELSE p.status = f.status
        /\ Allows(f.year, p.year) /\ Allows(f.week, p.week)
        /\ Allows(f.project, p.project)
        /\ Allows(f.customer, p.customer)
        /\ f.manager = None \/ f.manager \in {p.manager, p.createdBy}
        /\ Allows(f.section, p.section)}

\* BuildPlanOrderBy, for the sort by id; the other columns end on the id, too.
Ordered(f) ==
    LET M == Matching(f)
        Before(p) == {q \in M : IF f.ascending THEN q.id < p.id
                                               ELSE q.id > p.id}
    IN  [i \in 1..Cardinality(M) |->
            CHOOSE p \in M : Cardinality(Before(p)) = i - 1]

Limit == IF mode = "week" THEN 200 ELSE PageSize

\* GET /task-plans: a page of the ordered rows, and whether more follow.
PageOf(f, offset) ==
    LET all == Ordered(f)
        last == offset + Limit
    IN  [rows |-> SubSeq(all, offset + 1, IF last < Len(all) THEN last
                                          ELSE Len(all)),
         hasMore |-> last < Len(all)]

\* A row of the page: a plan, shown in its own week or inherited into one.
AsRead(plans) == [i \in 1..Len(plans) |-> [plan |-> plans[i], into |-> None]]

InheritedInto(plans, y, w) ==
    [i \in 1..Len(plans) |->
        [plan |-> plans[i], into |-> [year |-> y, week |-> w]]]

-------------------------------------------------------------------------------
(* Changes of the query. *)

\* A changed query: the effect for the one before is over, and its own
\* begins.  What is under way for "load more" is not stopped.
Change(f) ==
    /\ f # filters
    /\ filters' = f
    /\ asking' = "week"
    /\ error' = FALSE
    /\ more' = IF more = None THEN None ELSE [more EXCEPT !.overtaken = TRUE]
    /\ UNCHANGED <<mode, rows, hasMore, selected, late, inPlay>>

ChooseYear(y) ==
    /\ "week" \in inPlay.filters
    /\ Change([filters EXCEPT !.year = y]) /\ UNCHANGED requested

ChooseWeek(w) ==
    /\ "week" \in inPlay.filters
    /\ Change([filters EXCEPT !.week = w]) /\ UNCHANGED requested

\* A customer or a manager takes the project back.
ChooseCustomer(c) ==
    /\ "customer" \in inPlay.filters
    /\ Change([filters EXCEPT !.customer = c, !.project = None])
    /\ UNCHANGED requested

ChooseManager(m) ==
    /\ "manager" \in inPlay.filters
    /\ Change([filters EXCEPT !.manager = m, !.project = None])
    /\ UNCHANGED requested

\* The projects offered are those of the customer.
ChooseProject(p) ==
    /\ "project" \in inPlay.filters
    /\ p # None /\ filters.customer # None => CustomerOf[p] = filters.customer
    /\ Change([filters EXCEPT !.project = p]) /\ UNCHANGED requested

ChooseSection(s) ==
    /\ "section" \in inPlay.filters
    /\ Change([filters EXCEPT !.section = s]) /\ UNCHANGED requested

ChooseStatus(s) ==
    /\ "status" \in inPlay.filters
    /\ Change([filters EXCEPT !.status = s]) /\ UNCHANGED requested

\* toggleSort.
ToggleSort ==
    /\ "order" \in inPlay.filters /\ mode = "list"
    /\ Change([filters EXCEPT !.ascending = ~@]) /\ UNCHANGED requested

\* The arrows of the week page (moveWeek), and "this week".
WeekAfter(delta) ==
    LET shown == IF None \in {filters.year, filters.week} THEN ThisWeek
                 ELSE [year |-> filters.year, week |-> filters.week]
    IN  WeekInfo(WeekStart(shown.year, shown.week) + 7 * delta)

GoTo(w) ==
    /\ mode = "week" /\ "week" \in inPlay.filters
    /\ w.year \in Years /\ w.week \in Weeks
    /\ Change([filters EXCEPT !.year = w.year, !.week = w.week])
    /\ UNCHANGED requested

MoveWeek(delta) == GoTo(WeekAfter(delta))

GoToThisWeek == GoTo(ThisWeek)

\* Another projectId in the query string of the mounted page: it becomes
\* the project of the filters, whatever their customer.
Navigate(p) ==
    /\ "project" \in inPlay.filters
    /\ p # requested
    /\ requested' = p
    /\ LET f == [filters EXCEPT !.project = p]
       IN  \/ Change(f)
           \/ /\ f = filters
              /\ UNCHANGED <<mode, filters, rows, hasMore, asking, more,
                             error, selected, late, inPlay>>

-------------------------------------------------------------------------------
(* Answers. *)

\* Slip: the detail of a row of the query before stays.
ShowBesideDetail(shown, follows) ==
    /\ rows' = shown
    /\ hasMore' = follows
    /\ late' = FALSE
    /\ asking' = None
    /\ UNCHANGED <<mode, filters, more, error, selected, requested, inPlay>>

Show(shown, follows) ==
    /\ rows' = shown
    /\ hasMore' = follows
    /\ selected' = None
    /\ late' = FALSE
    /\ asking' = None
    /\ UNCHANGED <<mode, filters, more, error, requested, inPlay>>

\* A week that may be filled from the week before.
Fillable ==
    /\ mode = "week" /\ None \notin {filters.year, filters.week}
    /\ filters.section \in {None, 1}

WeekAnswered ==
    /\ asking = "week"
    /\ LET page == PageOf(filters, 0)
       IN  IF Fillable /\ page.rows = <<>>
           THEN /\ asking' = "previous"
                /\ UNCHANGED <<mode, filters, rows, hasMore, more, error,
                               selected, requested, late, inPlay>>
           ELSE Show(AsRead(page.rows), page.hasMore)

\* The rows of the query before stay, beside an error.
WeekFails ==
    /\ asking = "week"
    /\ asking' = None
    /\ error' = TRUE
    /\ UNCHANGED <<mode, filters, rows, hasMore, more, selected, requested,
                   late, inPlay>>

\* The Next Plan of the week before, under the other filters.
PreviousQuery ==
    LET w == PreviousWeek(filters.year, filters.week)
    IN  [filters EXCEPT !.year = w.year, !.week = w.week, !.section = 2]

PreviousAnswered ==
    /\ asking = "previous"
    /\ Show(InheritedInto(PageOf(PreviousQuery, 0).rows,
                          filters.year, filters.week), FALSE)

\* Nothing tells a failure from a week with nothing to inherit.
PreviousFails ==
    /\ asking = "previous"
    /\ Show(<<>>, FALSE)

\* loadMore.
LoadMore ==
    /\ mode = "list" /\ asking = None /\ rows # <<>>
    /\ hasMore /\ more = None
    /\ more' = [query |-> filters, offset |-> Len(rows), overtaken |-> FALSE]
    /\ UNCHANGED <<mode, filters, rows, hasMore, asking, error, selected,
                   requested, late, inPlay>>

\* Appended whatever the query is by now.
MoreAnswered ==
    /\ more # None
    /\ LET page == PageOf(more.query, more.offset)
       IN  /\ rows' = rows \o AsRead(page.rows)
           /\ hasMore' = page.hasMore
    /\ more' = None
    /\ late' = (late \/ more.overtaken)
    /\ UNCHANGED <<mode, filters, asking, error, selected, requested, inPlay>>

MoreFails ==
    /\ more # None
    /\ more' = None
    /\ error' = TRUE
    /\ UNCHANGED <<mode, filters, rows, hasMore, asking, selected, requested,
                   late, inPlay>>

\* A click on a row opens its detail.
SelectPlan ==
    /\ asking = None
    /\ \E i \in 1..Len(rows) : selected # rows[i] /\ selected' = rows[i]
    /\ UNCHANGED <<mode, filters, rows, hasMore, asking, more, error,
                   requested, late, inPlay>>

-------------------------------------------------------------------------------

\* Mounted: the week of today, of the project in the query string, and on
\* the list Weekly progress only.
Init ==
    /\ inPlay \in InPlay
    /\ mode = inPlay.mode
    /\ requested \in IF "project" \in inPlay.filters THEN Projects \cup {None}
                     ELSE {None}
    /\ filters = [year |-> ThisWeek.year, week |-> ThisWeek.week,
                  project |-> requested, customer |-> None, manager |-> None,
                  section |-> IF mode = "week" THEN None ELSE 1,
                  status |-> 1, ascending |-> FALSE]
    /\ rows = <<>> /\ hasMore = FALSE /\ asking = "week" /\ more = None
    /\ error = FALSE /\ selected = None /\ late = FALSE

Next ==
    \/ \E y \in Years \cup {None} : ChooseYear(y)
    \/ \E w \in Weeks \cup {None} : ChooseWeek(w)
    \/ \E c \in Customers \cup {None} : ChooseCustomer(c)
    \/ \E m \in Managers \cup {None} : ChooseManager(m)
    \/ \E p \in Projects \cup {None} : ChooseProject(p)
    \/ \E s \in Sections \cup {None} : ChooseSection(s)
    \/ \E s \in Statuses \cup {None} : ChooseStatus(s)
    \/ ToggleSort
    \/ \E delta \in {-1, 1} : MoveWeek(delta)
    \/ GoToThisWeek
    \/ \E p \in Projects \cup {None} : Navigate(p)
    \/ WeekAnswered \/ WeekFails
    \/ PreviousAnswered \/ PreviousFails
    \/ LoadMore \/ MoreAnswered \/ MoreFails
    \/ SelectPlan

Spec == Init /\ [][Next]_vars

-------------------------------------------------------------------------------

\* What the week before left to do for week w of year y, by the calendar:
\* the Next Plan of the seven days before it.
LeftFor(f) ==
    {p \in Plans :
        /\ WeekStart(p.year, p.week) = WeekStart(f.year, f.week) - 7
        /\ p.section = 2
        /\ p \in Matching([f EXCEPT !.year = None, !.week = None,
                                    !.section = None])}

\* The plans are of weeks that their years have: those that begin before the
\* first week of the next.  (The table does not say so: its week is any number.)
InRealWeeks ==
    \A p \in Plans :
        /\ p.year \in Nat /\ p.week \in 1..53
        /\ WeekStart(p.year, p.week) < WeekStart(p.year + 1, 1)

\* The page shows the rows of its filters, in their order, none twice and
\* none left out before the last, however filters and answers interleaved;
\* a week without rows shows what the week before, of the calendar, left to
\* do, also across a year of 53 weeks.  Excepted are an error in view, and
\* rows that "load more" added after the filters had changed.
RowsOfFilters ==
    asking = None /\ ~error /\ ~late =>
        LET all == Ordered(filters)
        IN  IF all = <<>> /\ Fillable
            THEN /\ \A i \in 1..Len(rows) :
                        /\ rows[i].plan \in LeftFor(filters)
                        /\ rows[i].into = [year |-> filters.year,
                                           week |-> filters.week]
                 /\ \/ rows = <<>>
                    \/ Len(rows) = Min({Cardinality(LeftFor(filters)), Limit})
            ELSE /\ IsPrefix(rows, AsRead(all))
                 /\ hasMore <=> Len(rows) < Len(all)

\* The detail in view is that of a row of the page, through reloads,
\* inherited rows and late pages.
DetailOfRows ==
    selected # None => \E i \in 1..Len(rows) : rows[i] = selected

\* An arrow moves the week by seven days, also over the end of a year, and
\* from a week that its year does not have.  (getWeekRange, getIsoWeekInfo;
\* where local midnight is not before that of UTC.)
ArrowMovesOneWeek ==
    LET shown == IF None \in {filters.year, filters.week}
                 THEN WeekStart(ThisWeek.year, ThisWeek.week)
                 ELSE WeekStart(filters.year, filters.week)
    IN  \A delta \in {-1, 1} :
            LET w == WeekAfter(delta)
            IN  WeekStart(w.year, w.week) = shown + 7 * delta

\* "Jarvis only materializes the previous week's Next Plan when the selected
\* week has no rows at all": rows are inherited only into a week that has
\* none, of either section.
InheritsIntoEmptyWeeks ==
    \A i \in 1..Len(rows) : rows[i].into # None =>
        ~\E p \in Plans : /\ p.status # 9
                          /\ p.project = rows[i].plan.project
                          /\ p.year = rows[i].into.year
                          /\ p.week = rows[i].into.week

===============================================================================
