--------------------------- MODULE TaskPlanPageProofs ---------------------------
(***************************************************************************)
(* The pages of task plans show the rows of their filters, the detail of   *)
(* one of them, and weeks that follow each other, for any finite set of    *)
(* plans, any filters and pages of any size.                               *)
(*                                                                         *)
(* Good says what holds of rows and detail, PageInv what the query of the  *)
(* moment and the requests for it have to do with each other; RowsOfFilters*)
(* is inductive with the two.  The calendar is proved from the lengths of  *)
(* years, by the arithmetic of the Gregorian leap years.                   *)
(***************************************************************************)
EXTENDS TaskPlanPage, FiniteSetTheorems, SequenceTheorems, TLAPS

\* A sequence, of whatever it may be.
IsSeq(s) == \E S : s \in Seq(S)

-------------------------------------------------------------------------------
(* Sequences. *)

\* A function over an initial segment of the positive numbers is a sequence.
LEMMA Listed ==
    ASSUME NEW n \in Nat, NEW s, s = [i \in 1..n |-> s[i]]
    PROVE  IsSeq(s)
<1> DEFINE S == {s[i] : i \in 1..n}
<1>1. s \in [1..n -> S]
  OBVIOUS
<1>2. s \in Seq(S)
  BY <1>1
<1> QED
  BY <1>2 DEF IsSeq

\* What stood in a list stands there when another is added behind it.
LEMMA Appended ==
    ASSUME NEW s, NEW t, IsSeq(s), IsSeq(t)
    PROVE  /\ IsSeq(s \o t)
           /\ Len(s) \in Nat /\ Len(s \o t) \in Nat /\ Len(s) <= Len(s \o t)
           /\ \A i \in 1..Len(s) : (s \o t)[i] = s[i]
<1>1. PICK S : s \in Seq(S)
  BY DEF IsSeq
<1>2. PICK T : t \in Seq(T)
  BY DEF IsSeq
<1>3. /\ s \in Seq(S \cup T)
      /\ t \in Seq(S \cup T)
  BY <1>1, <1>2
<1>4. s \o t \in Seq(S \cup T)
  BY <1>3
<1> QED
  BY <1>3, <1>4 DEF IsSeq

-------------------------------------------------------------------------------
(* Answers are sequences. *)

\* The ordered plans of a query are a sequence.
LEMMA OrderedIsSeq ==
    ASSUME NEW f PROVE IsSeq(Ordered(f))
<1>1. Matching(f) \subseteq Plans
  BY DEF Matching
<1>2. Cardinality(Matching(f)) \in Nat
  BY <1>1, PlanPageAssumption, FS_Subset, FS_CardinalityType
<1> QED
  BY <1>2, Listed DEF Ordered

\* So is a page of them.
LEMMA PageIsSeq ==
    ASSUME NEW f, NEW offset \in Nat
    PROVE  IsSeq(PageOf(f, offset).rows)
<1> DEFINE all == Ordered(f)
           last == offset + Limit
           end == IF last < Len(all) THEN last ELSE Len(all)
<1>1. PICK S : all \in Seq(S)
  BY OrderedIsSeq DEF IsSeq
<1>2. Limit \in Nat
  BY PlanPageAssumption DEF Limit
<1>3. end \in Nat /\ end <= Len(all)
  BY <1>1, <1>2
<1>4. PageOf(f, offset).rows = SubSeq(all, offset + 1, end)
  BY DEF PageOf
<1> HIDE DEF all, end
<1>5. SubSeq(all, offset + 1, end) \in Seq(S)
  BY <1>1, <1>3
<1> QED
  BY <1>4, <1>5 DEF IsSeq

\* So are the rows made of it.
LEMMA ReadIsSeq ==
    ASSUME NEW plans, IsSeq(plans)
    PROVE  /\ IsSeq(AsRead(plans))
           /\ \A y, w : IsSeq(InheritedInto(plans, y, w))
<1>1. Len(plans) \in Nat
  BY DEF IsSeq
<1>2. IsSeq(AsRead(plans))
  BY <1>1, Listed DEF AsRead
<1>3. ASSUME NEW y, NEW w PROVE IsSeq(InheritedInto(plans, y, w))
  BY <1>1, Listed DEF InheritedInto
<1> QED
  BY <1>2, <1>3

-------------------------------------------------------------------------------
(* The invariant. *)

\* The rows behind those of a page are asked for by their number.
MoreOK ==
    more # None =>
        more \in [query : {more.query}, offset : Nat, overtaken : BOOLEAN]

Good == IsSeq(rows) /\ MoreOK /\ DetailOfRows

\* An answer to the query of the moment leaves no detail.
LEMMA ShownIsGood ==
    ASSUME Good, NEW shown, NEW follows, IsSeq(shown), Show(shown, follows)
    PROVE  Good'
BY DEF Good, Show, MoreOK, DetailOfRows

\* A changed query leaves rows and detail until it is answered.
LEMMA ChangeIsGood ==
    ASSUME Good, NEW f, Change(f)
    PROVE  Good'
<1>1. MoreOK'
  BY DEF Good, Change, MoreOK
<1> QED
  BY <1>1 DEF Good, Change, DetailOfRows

\* A mounted page has no rows, no detail and nothing asked for.
LEMMA InitGood == Init => Good
<1> SUFFICES ASSUME Init PROVE Good
  OBVIOUS
<1>1. rows \in Seq({})
  BY DEF Init
<1> QED
  BY <1>1 DEF Good, Init, IsSeq, MoreOK, DetailOfRows

\* A row that is further down after "load more" is where it was.
LEMMA MoreAnsweredGood ==
    ASSUME Good, MoreAnswered
    PROVE  Good'
<1> DEFINE add == AsRead(PageOf(more.query, more.offset).rows)
<1>1. IsSeq(add)
  BY PageIsSeq, ReadIsSeq DEF Good, MoreOK, MoreAnswered
<1>2. rows' = rows \o add /\ selected' = selected /\ more' = None
  BY DEF MoreAnswered
<1> HIDE DEF add
<1>3. IsSeq(rows')
  BY <1>1, <1>2, Appended DEF Good
<1>4. DetailOfRows'
  <2>1. ASSUME selected # None PROVE \E i \in 1..Len(rows') : rows'[i] = selected
    <3>1. PICK i \in 1..Len(rows) : rows[i] = selected
      BY <2>1 DEF Good, DetailOfRows
    <3>2. /\ Len(rows) \in Nat
          /\ Len(rows') \in Nat
          /\ Len(rows) <= Len(rows')
          /\ rows'[i] = rows[i]
      BY <1>1, <1>2, Appended DEF Good
    <3>3. i \in 1..Len(rows')
      BY <3>2
    <3> QED
      BY <3>1, <3>2, <3>3
  <2> QED
    BY <1>2, <2>1 DEF DetailOfRows
<1> QED
  BY <1>2, <1>3, <1>4 DEF Good, MoreOK

\* Every step keeps rows and detail in order.
LEMMA NextGood == Good /\ [Next]_vars => Good'
<1> SUFFICES ASSUME Good, [Next]_vars PROVE Good'
  OBVIOUS
<1>1. CASE UNCHANGED vars
  BY <1>1 DEF Good, vars, MoreOK, DetailOfRows
<1>2. ASSUME NEW f, Change(f) PROVE Good'
  BY <1>2, ChangeIsGood
<1>3. ASSUME NEW p, Navigate(p) PROVE Good'
  <2>1. CASE Change([filters EXCEPT !.project = p])
    BY <2>1, ChangeIsGood
  <2>2. CASE UNCHANGED <<rows, more, selected>>
    BY <2>2 DEF Good, MoreOK, DetailOfRows
  <2> QED
    BY <1>3, <2>1, <2>2 DEF Navigate
<1>4. CASE WeekAnswered
  <2> DEFINE page == PageOf(filters, 0)
  <2>1. IsSeq(AsRead(page.rows))
    BY PageIsSeq, ReadIsSeq
  <2> HIDE DEF page
  <2>2. CASE Show(AsRead(page.rows), page.hasMore)
    BY <2>1, <2>2, ShownIsGood
  <2>3. CASE UNCHANGED <<rows, more, selected>>
    BY <2>3 DEF Good, MoreOK, DetailOfRows
  <2> QED
    BY <1>4, <2>2, <2>3 DEF WeekAnswered, page
<1>5. CASE PreviousAnswered
  <2> DEFINE left == InheritedInto(PageOf(PreviousQuery, 0).rows,
                                   filters.year, filters.week)
  <2>1. IsSeq(left)
    BY PageIsSeq, ReadIsSeq
  <2>2. Show(left, FALSE)
    BY <1>5 DEF PreviousAnswered
  <2> HIDE DEF left
  <2> QED
    BY <2>1, <2>2, ShownIsGood
<1>6. CASE PreviousFails
  <2>1. IsSeq(<<>>)
    <3>1. << >> \in Seq({})
      OBVIOUS
    <3> QED
      BY <3>1 DEF IsSeq
  <2>2. Show(<<>>, FALSE)
    BY <1>6 DEF PreviousFails
  <2> QED
    BY <2>1, <2>2, ShownIsGood
<1>7. CASE LoadMore
  <2>1. Len(rows) \in Nat
    BY DEF Good, IsSeq
  <2>2. /\ more' = [query |-> filters, offset |-> Len(rows), overtaken |-> FALSE]
        /\ rows' = rows /\ selected' = selected
    BY <1>7 DEF LoadMore
  <2>3. more'.offset \in Nat
    BY <2>1, <2>2
  <2> QED
    BY <2>2, <2>3 DEF Good, MoreOK, DetailOfRows
<1>8. CASE MoreAnswered
  BY <1>8, MoreAnsweredGood
<1>9. CASE SelectPlan
  BY <1>9 DEF Good, SelectPlan, MoreOK, DetailOfRows
<1>10. CASE MoreFails
  BY <1>10 DEF Good, MoreFails, MoreOK, DetailOfRows
<1>11. CASE WeekFails
  BY <1>11 DEF Good, WeekFails, MoreOK, DetailOfRows
<1>12. CASE ToggleSort \/ GoToThisWeek \/ \E delta \in {-1, 1} : MoveWeek(delta)
  BY <1>2, <1>12 DEF ToggleSort, GoToThisWeek, MoveWeek, GoTo
<1>13. CASE \/ \E y \in Years \cup {None} : ChooseYear(y)
            \/ \E w \in Weeks \cup {None} : ChooseWeek(w)
            \/ \E s \in Sections \cup {None} : ChooseSection(s)
            \/ \E s \in Statuses \cup {None} : ChooseStatus(s)
  BY <1>2, <1>13 DEF ChooseYear, ChooseWeek, ChooseSection, ChooseStatus
<1>14. CASE \/ \E c \in Customers \cup {None} : ChooseCustomer(c)
            \/ \E m \in Managers \cup {None} : ChooseManager(m)
            \/ \E p \in Projects \cup {None} : ChooseProject(p)
  BY <1>2, <1>14 DEF ChooseCustomer, ChooseManager, ChooseProject
<1> QED
  BY <1>1, <1>3, <1>4, <1>5, <1>6, <1>7, <1>8, <1>9, <1>10, <1>11, <1>12,
     <1>13, <1>14 DEF Next

-------------------------------------------------------------------------------

\* Rows, the page asked for and the detail are in order in every behaviour.
THEOREM Invariance == Spec => []Good
BY InitGood, NextGood, PTL DEF Spec

\* The detail in view is that of a row of the page, whatever was filtered,
\* inherited and added late.
THEOREM DetailIsOfRows == Spec => []DetailOfRows
<1>1. Good => DetailOfRows
  BY DEF Good
<1> QED
  BY <1>1, Invariance, PTL

-------------------------------------------------------------------------------
(* Pages of the ordered rows. *)

\* A page of the ordered rows: where it ends, and what is on it.
LEMMA PageRows ==
    ASSUME NEW f, NEW offset \in Nat, offset <= Len(Ordered(f))
    PROVE  LET all == Ordered(f)
               page == PageOf(f, offset)
               end == IF offset + Limit < Len(all) THEN offset + Limit ELSE Len(all)
           IN  /\ Len(page.rows) = end - offset
               /\ \A i \in 1..(end - offset) : page.rows[i] = all[offset + i]
               /\ page.hasMore = (offset + Limit < Len(all))
<1> DEFINE all == Ordered(f)
           n == Len(all)
           last == offset + Limit
           end == IF last < n THEN last ELSE n
           r == SubSeq(all, offset + 1, end)
<1>1. PICK S : all \in Seq(S)
  BY OrderedIsSeq DEF IsSeq
<1>2. Limit \in Nat /\ Limit > 0
  BY PlanPageAssumption DEF Limit
<1>3. n \in Nat /\ \A i \in 1..n : all[i] \in S
  BY <1>1
<1>4. end \in Nat /\ end <= n /\ offset <= end
  BY <1>2, <1>3
<1>5. PageOf(f, offset) = [rows |-> r, hasMore |-> last < n]
  BY DEF PageOf
<1> HIDE DEF all, n, end
<1>6. /\ Len(r) = IF offset + 1 <= end THEN end - (offset + 1) + 1 ELSE 0
      /\ \A i \in 1..(end - (offset + 1) + 1) : r[i] = all[(offset + 1) + i - 1]
  <2>1. \A i \in (offset + 1)..end : all[i] \in S
    BY <1>3, <1>4
  <2>2. offset + 1 \in Int /\ end \in Int
    BY <1>4
  <2> QED
    BY <1>1, <2>1, <2>2, SubSeqProperties
<1> HIDE DEF r
<1>7. Len(r) = end - offset
  BY <1>4, <1>6
<1>8. \A i \in 1..(end - offset) : r[i] = all[offset + i]
  <2> TAKE i \in 1..(end - offset)
  <2>1. i \in 1..(end - (offset + 1) + 1) /\ (offset + 1) + i - 1 = offset + i
    BY <1>4
  <2> QED
    BY <1>6, <2>1
<1> QED
  BY <1>5, <1>7, <1>8 DEF all, n, end

\* A first page without rows is that of a query without rows.
LEMMA EmptyPage ==
    ASSUME NEW f, PageOf(f, 0).rows = <<>>
    PROVE  Ordered(f) = <<>>
<1> DEFINE all == Ordered(f)
           n == Len(all)
           end == IF 0 + Limit < n THEN 0 + Limit ELSE n
<1>1. PICK S : all \in Seq(S)
  BY OrderedIsSeq DEF IsSeq
<1>2. Limit \in Nat /\ Limit > 0 /\ n \in Nat
  BY <1>1, PlanPageAssumption DEF Limit
<1>3. Len(PageOf(f, 0).rows) = end - 0
  BY <1>2, PageRows
<1>4. n = 0
  <2> HIDE DEF n
  <2> QED
    BY <1>2, <1>3
<1> QED
  BY <1>1, <1>4

\* The ordered rows are the rows that match.
LEMMA Ranked ==
    ASSUME NEW f
    PROVE  /\ Cardinality(Matching(f)) \in Nat
           /\ Len(Ordered(f)) = Cardinality(Matching(f))
           /\ \A i \in 1..Len(Ordered(f)) : Ordered(f)[i] \in Matching(f)
<1> DEFINE M == Matching(f)
           n == Cardinality(M)
           B(p) == {q \in M : IF f.ascending THEN q.id < p.id ELSE q.id > p.id}
           c(p) == Cardinality(B(p))
<1>1. IsFiniteSet(M) /\ n \in Nat /\ M \subseteq Plans
  BY PlanPageAssumption, FS_Subset, FS_CardinalityType DEF Matching
<1>2. \A p, q \in M : p.id \in Int /\ q.id \in Int /\ (p.id = q.id => p = q)
  BY <1>1, PlanPageAssumption
<1>3. Ordered(f) = [i \in 1..n |-> CHOOSE p \in M : c(p) = i - 1]
  BY DEF Ordered
<1> HIDE DEF M, n
<1>4. ASSUME NEW p \in M
      PROVE  IsFiniteSet(B(p)) /\ c(p) \in Nat /\ c(p) + 1 \in 1..n
  <2>1. B(p) \subseteq M /\ p \notin B(p)
    BY <1>2
  <2>2. IsFiniteSet(B(p)) /\ c(p) \in Nat /\ c(p) <= n /\ (c(p) = n => B(p) = M)
    <3> HIDE DEF B
    <3> QED
      BY <1>1, <2>1, FS_Subset, FS_CardinalityType DEF n
  <2>3. c(p) # n
    BY <2>1, <2>2
  <2> HIDE DEF c
  <2> QED
    BY <1>1, <2>2, <2>3
<1>5. ASSUME NEW p \in M, NEW q \in M, IF f.ascending THEN p.id < q.id ELSE p.id > q.id
      PROVE  c(p) < c(q)
  <2>1. B(p) \subseteq B(q) /\ p \in B(q) /\ p \notin B(p)
    BY <1>2, <1>5
  <2>2. IsFiniteSet(B(q)) /\ c(p) \in Nat /\ c(q) \in Nat
    BY <1>4
  <2>3. c(p) <= c(q) /\ (c(p) = c(q) => B(p) = B(q))
    <3> HIDE DEF B
    <3> QED
      BY <2>1, <2>2, FS_Subset
  <2>4. c(p) # c(q)
    BY <2>1, <2>3
  <2> HIDE DEF c
  <2> QED
    BY <2>2, <2>3, <2>4
<1> DEFINE g == [p \in M |-> c(p) + 1]
<1>6. g \in Injection(M, 1..n)
  <2>1. g \in [M -> 1..n]
    <3> HIDE DEF c
    <3> QED
      BY <1>4
  <2>2. ASSUME NEW p \in M, NEW q \in M, g[p] = g[q] PROVE p = q
    <3>1. c(p) \in Nat /\ c(q) \in Nat
      BY <1>4
    <3>2. c(p) = c(q)
      <4> HIDE DEF c
      <4> QED
        BY <2>2, <3>1
    <3>3. ~(c(p) < c(q)) /\ ~(c(q) < c(p))
      <4> HIDE DEF c
      <4> QED
        BY <3>1, <3>2
    <3>4. ~(p.id < q.id) /\ ~(q.id < p.id)
      <4>1. \/ IF f.ascending THEN p.id < q.id ELSE p.id > q.id
            \/ IF f.ascending THEN q.id < p.id ELSE q.id > p.id
            \/ ~(p.id < q.id) /\ ~(q.id < p.id)
        BY <1>2
      <4> QED
        BY <1>5, <3>3, <4>1
    <3> QED
      BY <1>2, <3>4
  <2> QED
    BY <2>1, <2>2 DEF Injection, IsInjective
<1>7. g \in Surjection(M, 1..n)
  <2>1. IsFiniteSet(1..n) /\ Cardinality(1..n) = n
    BY <1>1, FS_Interval
  <2> HIDE DEF g
  <2> QED
    BY <1>6, <2>1, FS_Injection DEF n
<1>8. ASSUME NEW i \in 1..n PROVE \E p \in M : c(p) = i - 1
  <2>1. PICK p \in M : g[p] = i
    BY <1>7 DEF Surjection
  <2>2. c(p) \in Nat /\ c(p) + 1 = i
    BY <1>4, <2>1
  <2> HIDE DEF c, g
  <2> QED
    BY <2>2
<1> HIDE DEF c
<1>9. ASSUME NEW i \in 1..n PROVE Ordered(f)[i] \in M
  <2>1. Ordered(f)[i] = CHOOSE p \in M : c(p) = i - 1
    BY <1>3
  <2> QED
    BY <1>8, <2>1
<1>10. Len(Ordered(f)) = n
  BY <1>1, <1>3
<1> QED
  BY <1>1, <1>9, <1>10 DEF M, n

\* A list whose rows are the first of another's is a prefix of it.
LEMMA PrefixOf ==
    ASSUME NEW s, NEW t, IsSeq(s), IsSeq(t), Len(s) <= Len(t),
           \A i \in 1..Len(s) : s[i] = t[i]
    PROVE  IsPrefix(s, t)
<1>1. PICK S : s \in Seq(S)
  BY DEF IsSeq
<1>2. PICK T : t \in Seq(T)
  BY DEF IsSeq
<1> DEFINE U == S \cup T
           n == Len(s)
<1>3. s \in Seq(U) /\ t \in Seq(U) /\ n \in Nat /\ n <= Len(t)
  BY <1>1, <1>2
<1> HIDE DEF U
<1>4. SubSeq(s, 1, n) \in Seq(U) /\ SubSeq(t, 1, n) \in Seq(U)
  BY <1>3
<1>5. /\ Len(SubSeq(s, 1, n)) = n /\ Len(SubSeq(t, 1, n)) = n
      /\ \A i \in 1..n : SubSeq(s, 1, n)[i] = s[i] /\ SubSeq(t, 1, n)[i] = t[i]
  BY <1>3
<1>6. SubSeq(s, 1, n) = SubSeq(t, 1, n)
  BY <1>4, <1>5, SeqEqual
<1> QED
  BY <1>6 DEF IsPrefix

\* The rows of a prefix stand where they stand in the list.
LEMMA PrefixRows ==
    ASSUME NEW s, NEW t, IsSeq(s), IsSeq(t), IsPrefix(s, t)
    PROVE  Len(s) <= Len(t) /\ \A i \in 1..Len(s) : s[i] = t[i]
<1>1. PICK S : s \in Seq(S)
  BY DEF IsSeq
<1>2. PICK T : t \in Seq(T)
  BY DEF IsSeq
<1> DEFINE n == Len(s)
<1>3. n \in Nat /\ n <= Len(t) /\ SubSeq(s, 1, n) = SubSeq(t, 1, n)
  BY <1>1 DEF IsPrefix
<1>4. \A i \in 1..n : SubSeq(s, 1, n)[i] = s[i] /\ SubSeq(t, 1, n)[i] = t[i]
  BY <1>1, <1>2, <1>3
<1> QED
  BY <1>3, <1>4

\* A list without a length is empty.
LEMMA NoRows ==
    ASSUME NEW s, IsSeq(s), Len(s) = 0
    PROVE  s = <<>>
BY DEF IsSeq

\* A first page lists the rows from the first, and says whether more follow.
LEMMA FirstPage ==
    ASSUME NEW f
    PROVE  LET page == PageOf(f, 0)
           IN  /\ IsPrefix(AsRead(page.rows), AsRead(Ordered(f)))
               /\ page.hasMore <=> Len(AsRead(page.rows)) < Len(Ordered(f))
<1> DEFINE all == Ordered(f)
           n == Len(all)
           page == PageOf(f, 0)
           r == page.rows
           end == IF 0 + Limit < n THEN 0 + Limit ELSE n
<1>1. n \in Nat /\ Limit \in Nat /\ Limit > 0
  BY OrderedIsSeq, PlanPageAssumption DEF IsSeq, Limit
<1>2. /\ Len(r) = end - 0
      /\ \A i \in 1..(end - 0) : r[i] = all[0 + i]
      /\ page.hasMore = (0 + Limit < n)
  BY <1>1, PageRows
<1>3. IsSeq(AsRead(r)) /\ IsSeq(AsRead(all))
  BY PageIsSeq, OrderedIsSeq, ReadIsSeq
<1> HIDE DEF all, n, page
<1>4. end \in Nat /\ end <= n
  BY <1>1
<1>5. Len(AsRead(r)) = end /\ \A i \in 1..end : AsRead(r)[i] = [plan |-> r[i], into |-> None]
  BY <1>2, <1>4 DEF AsRead
<1>6. Len(AsRead(all)) = n /\ \A i \in 1..n : AsRead(all)[i] = [plan |-> all[i], into |-> None]
  BY <1>1 DEF AsRead, n
<1>7. \A i \in 1..end : AsRead(r)[i] = AsRead(all)[i]
  <2> TAKE i \in 1..end
  <2>1. i \in 1..(end - 0) /\ 0 + i = i /\ i \in 1..n
    BY <1>1, <1>4
  <2>2. r[i] = all[i]
    BY <1>2, <2>1
  <2> QED
    BY <1>5, <1>6, <2>1, <2>2
<1>8. IsPrefix(AsRead(r), AsRead(all))
  <2> HIDE DEF end
  <2> QED
    BY <1>3, <1>4, <1>5, <1>6, <1>7, PrefixOf
<1>9. page.hasMore <=> Len(AsRead(r)) < n
  <2>1. (0 + Limit < n) <=> Len(AsRead(r)) < n
    BY <1>1, <1>5
  <2> QED
    BY <1>2, <2>1, Zenon
<1> QED
  BY <1>8, <1>9 DEF all, n, page

\* "Load more" goes on where the rows end.
LEMMA NextRows ==
    ASSUME NEW f, NEW s, IsSeq(s), IsPrefix(s, AsRead(Ordered(f)))
    PROVE  LET page == PageOf(f, Len(s))
               t == s \o AsRead(page.rows)
           IN  /\ IsPrefix(t, AsRead(Ordered(f)))
               /\ page.hasMore <=> Len(t) < Len(Ordered(f))
<1> DEFINE all == Ordered(f)
           n == Len(all)
           k == Len(s)
           page == PageOf(f, k)
           r == page.rows
           a == AsRead(r)
           t == s \o a
           end == IF k + Limit < n THEN k + Limit ELSE n
<1>1. n \in Nat /\ Limit \in Nat /\ Limit > 0 /\ k \in Nat
  BY OrderedIsSeq, PlanPageAssumption DEF IsSeq, Limit
<1>2. Len(AsRead(all)) = n /\ \A i \in 1..n : AsRead(all)[i] = [plan |-> all[i], into |-> None]
  <2> HIDE DEF all
  <2> QED
    BY <1>1 DEF AsRead
<1>3. IsSeq(AsRead(all))
  BY OrderedIsSeq, ReadIsSeq
<1>4. k <= n /\ \A i \in 1..k : s[i] = AsRead(all)[i]
  BY <1>2, <1>3, PrefixRows
<1>5. /\ Len(r) = end - k
      /\ \A i \in 1..(end - k) : r[i] = all[k + i]
      /\ page.hasMore = (k + Limit < n)
  BY <1>1, <1>4, PageRows
<1>6. IsSeq(r) /\ IsSeq(a)
  BY <1>1, PageIsSeq, ReadIsSeq
<1> HIDE DEF all, n, page, k
<1>7. end \in Nat /\ end <= n /\ k <= end /\ end - k \in Nat
  BY <1>1, <1>4
<1>8. Len(a) = end - k /\ \A i \in 1..(end - k) : a[i] = [plan |-> r[i], into |-> None]
  BY <1>5, <1>7 DEF AsRead
<1> HIDE DEF a, r, end
<1>9. /\ IsSeq(t) /\ Len(t) = end
      /\ \A i \in 1..end : t[i] = IF i <= k THEN s[i] ELSE a[i - k]
  <2>1. PICK S : s \in Seq(S)
    BY DEF IsSeq
  <2>2. PICK T : a \in Seq(T)
    BY <1>6 DEF IsSeq
  <2> DEFINE U == S \cup T
  <2>3. s \in Seq(U) /\ a \in Seq(U)
    BY <2>1, <2>2
  <2> HIDE DEF U
  <2>4. t \in Seq(U) /\ Len(t) = Len(s) + Len(a)
        /\ \A i \in 1..(Len(s) + Len(a)) : t[i] = IF i <= Len(s) THEN s[i] ELSE a[i - Len(s)]
    BY <2>3, ConcatProperties
  <2>5. Len(s) + Len(a) = end
    BY <1>1, <1>7, <1>8 DEF k
  <2>6. \A i \in 1..end : t[i] = IF i <= k THEN s[i] ELSE a[i - k]
    BY <2>4, <2>5 DEF k
  <2> QED
    BY <2>4, <2>5, <2>6 DEF IsSeq
<1> HIDE DEF t
<1>10. ASSUME NEW i \in 1..end PROVE t[i] = AsRead(all)[i]
  <2>1. i \in 1..n /\ i \in Nat
    BY <1>1, <1>7
  <2>2. CASE i <= k
    <3>1. i \in 1..k
      BY <1>1, <2>1, <2>2
    <3> QED
      BY <1>4, <1>9, <2>2, <3>1
  <2>3. CASE ~(i <= k)
    <3>1. i - k \in 1..(end - k) /\ k + (i - k) = i
      BY <1>1, <1>7, <2>1, <2>3
    <3>2. a[i - k] = [plan |-> all[i], into |-> None]
      BY <1>5, <1>8, <3>1
    <3> QED
      BY <1>2, <1>9, <2>1, <2>3, <3>2
  <2> QED
    BY <2>2, <2>3
<1>11. IsPrefix(t, AsRead(all))
  BY <1>2, <1>3, <1>7, <1>9, <1>10, PrefixOf
<1>12. page.hasMore <=> Len(t) < n
  <2>1. (k + Limit < n) <=> Len(t) < n
    BY <1>1, <1>4, <1>9 DEF end
  <2> QED
    BY <1>5, <2>1, Zenon
<1> QED
  BY <1>11, <1>12 DEF all, n, page, k, t, a, r

-------------------------------------------------------------------------------
(* The calendar. *)

\* Division by a constant, as the calendar uses it.
LEMMA Divided ==
    ASSUME NEW a \in Int
    PROVE  /\ a \div 4 \in Int /\ 4 * (a \div 4) <= a /\ a < 4 * (a \div 4) + 4
           /\ a \div 100 \in Int /\ 100 * (a \div 100) <= a /\ a < 100 * (a \div 100) + 100
           /\ a \div 400 \in Int /\ 400 * (a \div 400) <= a /\ a < 400 * (a \div 400) + 400
           /\ a \div 365 \in Int /\ 365 * (a \div 365) <= a /\ a < 365 * (a \div 365) + 365
           /\ a \div 366 \in Int /\ 366 * (a \div 366) <= a /\ a < 366 * (a \div 366) + 366
           /\ a \div 7 \in Int /\ a % 7 \in 0..6 /\ a = 7 * (a \div 7) + (a % 7)
<1>1. a \div 4 \in Int /\ 4 * (a \div 4) <= a /\ a < 4 * (a \div 4) + 4
  OBVIOUS
<1>2. a \div 100 \in Int /\ 100 * (a \div 100) <= a /\ a < 100 * (a \div 100) + 100
  OBVIOUS
<1>3. a \div 400 \in Int /\ 400 * (a \div 400) <= a /\ a < 400 * (a \div 400) + 400
  OBVIOUS
<1>4. a \div 365 \in Int /\ 365 * (a \div 365) <= a /\ a < 365 * (a \div 365) + 365
  OBVIOUS
<1>5. a \div 366 \in Int /\ 366 * (a \div 366) <= a /\ a < 366 * (a \div 366) + 366
  OBVIOUS
<1>6. a \div 7 \in Int /\ a % 7 \in 0..6 /\ a = 7 * (a \div 7) + (a % 7)
  <2>1. a \div 7 \in Int /\ a % 7 \in Int
    OBVIOUS
  <2>2. 0 <= a % 7 /\ a % 7 <= 6
    OBVIOUS
  <2>3. a = 7 * (a \div 7) + (a % 7)
    OBVIOUS
  <2>4. a % 7 \in 0..6
    BY <2>1, <2>2
  <2> QED
    BY <2>1, <2>3, <2>4
<1> QED
  BY <1>1, <1>2, <1>3, <1>4, <1>5, <1>6

\* A year has 365 days at least.
LEMMA YearLength ==
    ASSUME NEW y \in Int
    PROVE  January1(y) \in Int /\ January1(y + 1) \in Int /\ January1(y) + 365 <= January1(y + 1)
<1> DEFINE n == y - 1
           m == y
           a == n \div 4  b == n \div 100  c == n \div 400
           d == m \div 4  e == m \div 100  f == m \div 400
<1>1. /\ a \in Int /\ 4 * a <= n /\ n < 4 * a + 4
      /\ b \in Int /\ 100 * b <= n /\ n < 100 * b + 100
      /\ c \in Int /\ 400 * c <= n /\ n < 400 * c + 400
  BY Divided
<1>2. /\ d \in Int /\ 4 * d <= m /\ m < 4 * d + 4
      /\ e \in Int /\ 100 * e <= m /\ m < 100 * e + 100
      /\ f \in Int /\ 400 * f <= m /\ m < 400 * f + 400
  BY Divided
<1>3. January1(y) = 365 * n + a - b + c + 1
  BY DEF January1
<1>4. January1(y + 1) = 365 * m + d - e + f + 1
  BY DEF January1
<1>5. m = n + 1 /\ n \in Int
  OBVIOUS
<1> HIDE DEF a, b, c, d, e, f, n, m
<1>6. a - b + c <= d - e + f
  BY <1>1, <1>2, <1>5
<1> QED
  BY <1>1, <1>2, <1>3, <1>4, <1>5, <1>6

\* A week has seven days.
LEMMA WeekDays ==
    ASSUME NEW d \in Int
    PROVE  WeekDay(d) \in 1..7 /\ \E k \in Int : d - WeekDay(d) = 7 * k
<1> DEFINE k == (d - 1) \div 7
           r == (d - 1) % 7
<1>1. k \in Int /\ r \in 0..6 /\ d - 1 = 7 * k + r
  BY Divided
<1>2. WeekDay(d) = r + 1
  BY DEF WeekDay
<1> HIDE DEF k, r
<1>3. WeekDay(d) \in 1..7 /\ d - WeekDay(d) = 7 * k
  BY <1>1, <1>2
<1> QED
  BY <1>1, <1>3

\* Weeks start on Mondays, the first within three days of the first of January.
LEMMA WeekStarts ==
    ASSUME NEW y \in Int, NEW w \in Int
    PROVE  /\ WeekStart(y, w) \in Int
           /\ January1(y) - 3 + 7 * (w - 1) <= WeekStart(y, w)
           /\ WeekStart(y, w) <= January1(y) + 3 + 7 * (w - 1)
           /\ \E k \in Int : WeekStart(y, w) = 7 * k + 1
<1> DEFINE j == January1(y)
           f == j + 3
           v == WeekDay(f)
<1>1. j \in Int
  BY YearLength
<1>2. WeekStart(y, w) = f - v + 1 + (w - 1) * 7
  BY DEF WeekStart
<1>3. f = j + 3
  OBVIOUS
<1> HIDE DEF j, f
<1>4. f \in Int
  BY <1>1, <1>3
<1>5. PICK k \in Int : v \in 1..7 /\ f - v = 7 * k
  BY <1>4, WeekDays
<1> HIDE DEF v
<1>6. WeekStart(y, w) = 7 * (k + (w - 1)) + 1 /\ k + (w - 1) \in Int
  BY <1>2, <1>4, <1>5
<1>7. /\ WeekStart(y, w) \in Int
      /\ j - 3 + 7 * (w - 1) <= WeekStart(y, w)
      /\ WeekStart(y, w) <= j + 3 + 7 * (w - 1)
  BY <1>1, <1>2, <1>3, <1>4, <1>5
<1> QED
  BY <1>6, <1>7 DEF j

\* The search for the year of a day near year y finds it.
LEMMA YearFound ==
    ASSUME NEW y \in Nat, NEW d \in Int, January1(y) - 7 <= d, d <= January1(y) + 377
    PROVE  /\ YearOf(d) \in Int
           /\ January1(YearOf(d)) <= d
           /\ d < January1(YearOf(d) + 1)
<1>1. \E z \in Int : z >= -1 /\ January1(z) <= d /\ d < January1(z + 1)
  <2> DEFINE a == January1(y - 1)
             b == January1(y)
             c == January1(y + 1)
             e == January1(y + 2)
  <2>1. a \in Int /\ b \in Int /\ a + 365 <= b
    <3>1. y - 1 \in Int /\ (y - 1) + 1 = y
      OBVIOUS
    <3> QED
      BY <3>1, YearLength
  <2>2. c \in Int /\ b + 365 <= c
    BY YearLength
  <2>3. e \in Int /\ c + 365 <= e
    <3>1. y + 1 \in Int /\ (y + 1) + 1 = y + 2
      OBVIOUS
    <3> QED
      BY <3>1, YearLength
  <2>4. b - 7 <= d /\ d <= b + 377
    OBVIOUS
  <2> HIDE DEF a, b, c, e
  <2>5. \/ a <= d /\ d < b
        \/ b <= d /\ d < c
        \/ c <= d /\ d < e
    BY <2>1, <2>2, <2>3, <2>4
  <2>6. CASE a <= d /\ d < b
    <3>1. y - 1 \in Int /\ y - 1 >= -1 /\ (y - 1) + 1 = y
      OBVIOUS
    <3> QED
      BY <2>6, <3>1 DEF a, b
  <2>7. CASE b <= d /\ d < c
    <3>1. y \in Int /\ y >= -1
      OBVIOUS
    <3> QED
      BY <2>7, <3>1 DEF b, c
  <2>8. CASE c <= d /\ d < e
    <3>1. y + 1 \in Int /\ y + 1 >= -1 /\ (y + 1) + 1 = y + 2
      OBVIOUS
    <3> QED
      BY <2>8, <3>1 DEF c, e
  <2> QED
    BY <2>5, <2>6, <2>7, <2>8
<1>2. PICK z \in Int : z >= -1 /\ January1(z) <= d /\ d < January1(z + 1)
  BY <1>1
<1>3. z \in (d \div 366)..(d \div 365 + 1)
  <2> DEFINE p == d \div 366
             q == d \div 365
             n == z - 1
             a == n \div 4  b == n \div 100  c == n \div 400
             g == z \div 4  h == z \div 100  k == z \div 400
  <2>1. /\ p \in Int /\ 366 * p <= d /\ d < 366 * p + 366
        /\ q \in Int /\ 365 * q <= d /\ d < 365 * q + 365
    BY Divided
  <2>2. n \in Int /\ n = z - 1 /\ n >= -2
    BY <1>2
  <2>3. /\ a \in Int /\ 4 * a <= n /\ n < 4 * a + 4
        /\ b \in Int /\ 100 * b <= n /\ n < 100 * b + 100
        /\ c \in Int /\ 400 * c <= n /\ n < 400 * c + 400
    BY <2>2, Divided
  <2>4. /\ g \in Int /\ 4 * g <= z /\ z < 4 * g + 4
        /\ h \in Int /\ 100 * h <= z /\ z < 100 * h + 100
        /\ k \in Int /\ 400 * k <= z /\ z < 400 * k + 400
    BY Divided
  <2>5. 365 * n + a - b + c + 1 <= d
    BY <1>2 DEF January1
  <2>6. d < 365 * z + g - h + k + 1
    <3>1. (z + 1) - 1 = z
      OBVIOUS
    <3> QED
      BY <1>2, <3>1 DEF January1
  <2> HIDE DEF p, q, n, a, b, c, g, h, k
  <2>7. a - b + c + 1 >= 0
    BY <2>2, <2>3
  <2>8. g - h + k <= z + 365
    BY <1>2, <2>4
  <2>9. 365 * n <= d /\ d < 366 * z + 366
    BY <1>2, <2>2, <2>3, <2>4, <2>5, <2>6, <2>7, <2>8
  <2>10. p <= z /\ z <= q + 1
    BY <2>1, <2>2, <2>9
  <2>11. p \in Int /\ q + 1 \in Int
    BY <2>1
  <2> QED
    BY <2>10, <2>11 DEF p, q
<1> DEFINE P(x) == January1(x) <= d /\ d < January1(x + 1)
           R == (d \div 366)..(d \div 365 + 1)
<1>4. YearOf(d) = CHOOSE x \in R : P(x)
  BY DEF YearOf
<1>5. \E x \in R : P(x)
  BY <1>2, <1>3
<1>6. R \subseteq Int
  BY Divided
<1> HIDE DEF R, P
<1>7. YearOf(d) \in R /\ P(YearOf(d))
  BY <1>4, <1>5
<1> QED
  BY <1>6, <1>7 DEF P

\* The week of a Monday starts on it, whatever year it is counted in.
LEMMA WeekOfMonday ==
    ASSUME West = FALSE, NEW d \in Int, NEW k \in Int, d = 7 * k + 1,
           NEW z \in Int, z = YearOf(d + 3), January1(z) <= d + 3
    PROVE  WeekStart(WeekInfo(d).year, WeekInfo(d).week) = d
<1> DEFINE t == d + 3
           j == January1(z)
           q == (t - j) \div 7
           f == j + 3
           v == WeekDay(f)
<1>1. LocalDay(d) = d
  BY DEF LocalDay
<1>2. WeekDay(d) = 1
  <2>1. PICK m \in Int : WeekDay(d) \in 1..7 /\ d - WeekDay(d) = 7 * m
    BY WeekDays
  <2> QED
    BY <2>1
<1>3. d + 4 - WeekDay(d) = t
  BY <1>2
<1>4. WeekInfo(d) = [year |-> z, week |-> q + 1]
  BY <1>1, <1>3 DEF WeekInfo
<1>5. j \in Int /\ t \in Int /\ t - j \in Int /\ j <= t /\ t = d + 3
  BY YearLength
<1>6. WeekStart(z, q + 1) = f - v + 1 + ((q + 1) - 1) * 7
  BY DEF WeekStart
<1>7. f = j + 3 /\ f \in Int
  BY <1>5
<1> HIDE DEF f
<1>8. PICK m \in Int : v \in 1..7 /\ f - v = 7 * m
  BY <1>7, WeekDays
<1>9. /\ q \in Int /\ (t - j) % 7 \in 0..6
      /\ t - j = 7 * q + ((t - j) % 7)
  BY <1>5, Divided
<1> DEFINE r == (t - j) % 7
<1>10. r \in 0..6 /\ t - j = 7 * q + r
  BY <1>9
<1> HIDE DEF t, j, q, v, r
<1>11. f - v + 1 + ((q + 1) - 1) * 7 = d
  BY <1>5, <1>7, <1>8, <1>9, <1>10
<1> QED
  BY <1>4, <1>6, <1>11

\* Seven days before or after a Monday near year y there is the Monday of a week.
LEMMA WeekMoved ==
    ASSUME West = FALSE, NEW y \in Nat, NEW w \in 1..53, NEW delta \in {-1, 0, 1}
    PROVE  LET d == WeekStart(y, w) + 7 * delta
           IN  /\ YearOf(d + 3) \in Int
               /\ January1(YearOf(d + 3)) <= d + 3
               /\ d + 3 < January1(YearOf(d + 3) + 1)
               /\ WeekStart(WeekInfo(d).year, WeekInfo(d).week) = d
<1> DEFINE s == WeekStart(y, w)
           d == s + 7 * delta
           j == January1(y)
<1>1. /\ s \in Int /\ j \in Int
      /\ j - 3 + 7 * (w - 1) <= s /\ s <= j + 3 + 7 * (w - 1)
      /\ \E k \in Int : s = 7 * k + 1
  <2>1. y \in Int /\ w \in Int
    OBVIOUS
  <2> QED
    BY <2>1, WeekStarts, YearLength
<1>2. PICK k \in Int : s = 7 * k + 1
  BY <1>1
<1>3. d = s + 7 * delta
  OBVIOUS
<1> HIDE DEF s, d, j
<1>4. d \in Int /\ d = 7 * (k + delta) + 1 /\ k + delta \in Int
  BY <1>1, <1>2, <1>3
<1>5. d + 3 \in Int /\ j - 7 <= d + 3 /\ d + 3 <= j + 377
  BY <1>1, <1>3
<1>6. /\ YearOf(d + 3) \in Int
      /\ January1(YearOf(d + 3)) <= d + 3
      /\ d + 3 < January1(YearOf(d + 3) + 1)
  BY <1>5, YearFound DEF j
<1>7. WeekStart(WeekInfo(d).year, WeekInfo(d).week) = d
  BY <1>4, <1>6, WeekOfMonday
<1> QED
  BY <1>6, <1>7 DEF d, s

\* Years follow each other.
LEMMA YearsGrow ==
    ASSUME NEW x \in Int, NEW y \in Int, x <= y
    PROVE  January1(x) <= January1(y)
<1> DEFINE m == x - 1
           n == y - 1
           a == n \div 4  b == n \div 100  c == n \div 400
           d == m \div 4  e == m \div 100  f == m \div 400
<1>1. m \in Int /\ n \in Int /\ m <= n
  OBVIOUS
<1>2. /\ a \in Int /\ 4 * a <= n /\ n < 4 * a + 4
      /\ b \in Int /\ 100 * b <= n /\ n < 100 * b + 100
      /\ c \in Int /\ 400 * c <= n /\ n < 400 * c + 400
  BY <1>1, Divided
<1>3. /\ d \in Int /\ 4 * d <= m /\ m < 4 * d + 4
      /\ e \in Int /\ 100 * e <= m /\ m < 100 * e + 100
      /\ f \in Int /\ 400 * f <= m /\ m < 400 * f + 400
  BY <1>1, Divided
<1>4. January1(y) = 365 * n + a - b + c + 1 /\ January1(x) = 365 * m + d - e + f + 1
  BY DEF January1
<1> HIDE DEF a, b, c, d, e, f, m, n
<1>5. f <= c
  BY <1>1, <1>2, <1>3
<1>6. d - e <= a - b
  BY <1>1, <1>2, <1>3
<1> QED
  BY <1>1, <1>2, <1>3, <1>4, <1>5, <1>6

\* A day is in one year.
LEMMA OneYear ==
    ASSUME NEW x \in Int, NEW y \in Int, NEW d \in Int,
           January1(x) <= d, d < January1(x + 1),
           January1(y) <= d, d < January1(y + 1)
    PROVE  x = y
<1>1. \A z \in Int : January1(z) \in Int
  BY YearLength
<1>2. ~(x < y)
  <2> SUFFICES ASSUME x < y PROVE FALSE
    OBVIOUS
  <2>1. x + 1 \in Int /\ x + 1 <= y
    OBVIOUS
  <2>2. January1(x + 1) <= January1(y)
    BY <2>1, YearsGrow
  <2> QED
    BY <1>1, <2>1, <2>2
<1>3. ~(y < x)
  <2> SUFFICES ASSUME y < x PROVE FALSE
    OBVIOUS
  <2>1. y + 1 \in Int /\ y + 1 <= x
    OBVIOUS
  <2>2. January1(y + 1) <= January1(x)
    BY <2>1, YearsGrow
  <2> QED
    BY <1>1, <2>1, <2>2
<1> QED
  BY <1>2, <1>3

\* getPreviousIsoWeek is the week of the Monday seven days before.
LEMMA PreviousIsBefore ==
    ASSUME West = FALSE, NEW y \in Nat, NEW w \in 1..53
    PROVE  /\ PreviousWeek(y, w) = WeekInfo(WeekStart(y, w) - 7)
           /\ PreviousWeek(y, w) \in [year : Int, week : Int]
<1> DEFINE s == WeekStart(y, w)
           d == s - 7
           j == January1(y)
           v == WeekDay(j + 3)
<1>1. /\ s \in Int /\ j \in Int /\ w \in Int /\ y \in Int
      /\ j - 3 + 7 * (w - 1) <= s /\ s <= j + 3 + 7 * (w - 1)
      /\ \E k \in Int : s = 7 * k + 1
  <2>1. y \in Int /\ w \in Int
    OBVIOUS
  <2> QED
    BY <2>1, WeekStarts, YearLength
<1>2. s = (j + 3) - v + 1 + (w - 1) * 7
  BY DEF WeekStart
<1>3. j + 3 \in Int /\ v \in 1..7 /\ \E k \in Int : (j + 3) - v = 7 * k
  BY <1>1, WeekDays
<1>4. d = s - 7
  OBVIOUS
<1>5. /\ YearOf(d + 3) \in Int
      /\ January1(YearOf(d + 3)) <= d + 3
      /\ d + 3 < January1(YearOf(d + 3) + 1)
  <2>1. d + 3 \in Int /\ j - 7 <= d + 3 /\ d + 3 <= j + 377
    <3> HIDE DEF s, d, j
    <3> QED
      BY <1>1, <1>4
  <2> HIDE DEF d
  <2> QED
    BY <2>1, YearFound
<1>6. PICK k \in Int : s = 7 * k + 1
  BY <1>1
<1>7. WeekDay(d) = 1 /\ d \in Int
  <2> HIDE DEF s, d
  <2>1. d \in Int
    BY <1>1, <1>4
  <2>2. PICK m \in Int : WeekDay(d) \in 1..7 /\ d - WeekDay(d) = 7 * m
    BY <2>1, WeekDays
  <2> QED
    BY <1>4, <1>6, <2>1, <2>2
<1>8. WeekInfo(d) = [year |-> YearOf(d + 3),
                     week |-> ((d + 3) - January1(YearOf(d + 3))) \div 7 + 1]
  <2>1. LocalDay(d) = d
    BY DEF LocalDay
  <2>2. d + 4 - WeekDay(d) = d + 3
    <3> HIDE DEF d
    <3> QED
      BY <1>7
  <2> HIDE DEF d
  <2> QED
    BY <2>1, <2>2 DEF WeekInfo
<1>t. WeekInfo(d) \in [year : Int, week : Int]
  <2> DEFINE i == January1(YearOf(d + 3))
             t == d + 3
  <2>1. i \in Int
    BY <1>5, YearLength
  <2>2. t \in Int
    BY <1>7
  <2> HIDE DEF i, t
  <2>3. t - i \in Int
    BY <2>1, <2>2
  <2>4. (t - i) \div 7 \in Int
    BY <2>3, Divided
  <2> HIDE DEF d
  <2> QED
    BY <1>5, <1>8, <2>4 DEF i, t
<1> SUFFICES PreviousWeek(y, w) = WeekInfo(d)
  BY <1>t
<1> HIDE DEF s, d
<1>9. CASE w > 1
  <2>1. PreviousWeek(y, w) = [year |-> y, week |-> w - 1]
    BY <1>9 DEF PreviousWeek
  <2>2. j <= d + 3 /\ d + 3 < j + 365
    <3> HIDE DEF j
    <3> QED
      BY <1>1, <1>4, <1>9
  <2>3. YearOf(d + 3) = y
    <3>1. j + 365 <= January1(y + 1) /\ January1(y + 1) \in Int
      BY <1>1, YearLength
    <3>2. d + 3 \in Int /\ j <= d + 3 /\ d + 3 < January1(y + 1)
      <4> DEFINE e == January1(y + 1)
      <4> HIDE DEF j, e
      <4> QED
        BY <1>1, <1>7, <2>2, <3>1
    <3> QED
      BY <1>1, <1>5, <3>2, OneYear
  <2>4. ((d + 3) - j) \div 7 = w - 2
    <3> DEFINE q == ((d + 3) - j) \div 7
               r == ((d + 3) - j) % 7
    <3>1. (d + 3) - j \in Int
      BY <1>1, <1>7
    <3>2. q \in Int /\ r \in 0..6 /\ (d + 3) - j = 7 * q + r
      BY <3>1, Divided
    <3> HIDE DEF q, r, j, v
    <3>3. (d + 3) - j = 7 * (w - 2) + (7 - v)
      BY <1>1, <1>2, <1>3, <1>4
    <3>4. q = w - 2
      BY <1>1, <1>3, <3>2, <3>3
    <3> QED
      BY <3>4 DEF q
  <2>5. (w - 2) + 1 = w - 1
    BY <1>1
  <2> QED
    BY <1>8, <2>1, <2>3, <2>4, <2>5
<1>10. CASE ~(w > 1)
  <2>1. w = 1
    BY <1>10
  <2> DEFINE x == j - 4
  <2>2. PreviousWeek(y, w) = [year |-> y - 1, week |-> WeekInfo(x).week]
    BY <2>1 DEF PreviousWeek
  <2>3. x \in Int /\ x = j - 4
    BY <1>1
  <2>4. WeekDay(x) = v
    <3> HIDE DEF x
    <3>1. PICK m \in Int : WeekDay(x) \in 1..7 /\ x - WeekDay(x) = 7 * m
      BY <2>3, WeekDays
    <3> HIDE DEF j, v
    <3>2. PICK n \in Int : (j + 3) - v = 7 * n
      BY <1>3
    <3> QED
      BY <1>1, <1>3, <2>3, <3>1, <3>2
  <2>5. x + 4 - WeekDay(x) = d + 3
    <3> HIDE DEF x, j, v
    <3> QED
      BY <1>1, <1>2, <1>3, <1>4, <2>1, <2>3, <2>4
  <2>6. WeekInfo(x) = [year |-> YearOf(d + 3),
                       week |-> ((d + 3) - January1(YearOf(d + 3))) \div 7 + 1]
    <3>1. LocalDay(x) = x
      BY DEF LocalDay
    <3> HIDE DEF x
    <3> QED
      BY <2>5, <3>1 DEF WeekInfo
  <2>7. YearOf(d + 3) = y - 1
    <3> DEFINE i == January1(y - 1)
    <3>1. y - 1 \in Int /\ (y - 1) + 1 = y
      BY <1>1
    <3>2. i \in Int /\ i + 365 <= j
      BY <3>1, YearLength
    <3>3. d + 3 \in Int /\ i <= d + 3 /\ d + 3 < j
      <4> HIDE DEF i, j, v
      <4> QED
        BY <1>1, <1>2, <1>3, <1>4, <2>1, <3>2
    <3> QED
      BY <1>5, <3>1, <3>3, OneYear
  <2> QED
    BY <1>8, <2>2, <2>6, <2>7
<1> QED
  BY <1>9, <1>10

-------------------------------------------------------------------------------
(* The query of the moment. *)

\* The values a query may have.
Filters == [year : Years \cup {None}, week : Weeks \cup {None},
            project : Projects \cup {None}, customer : Customers \cup {None},
            manager : Managers \cup {None}, section : Sections \cup {None},
            status : Statuses \cup {None}, ascending : BOOLEAN]

\* What the effect of the query awaits, and what "load more" was asked for.
PageInv ==
    /\ filters \in Filters
    /\ requested \in Projects \cup {None}
    /\ asking \in {None, "week", "previous"}
    /\ asking = "previous" => Fillable /\ Ordered(filters) = <<>>
    /\ more # None /\ ~more.overtaken =>
          asking = None /\ mode = "list" /\ more.query = filters /\ more.offset = Len(rows)

\* Nothing asked for is not a thing asked for.
LEMMA NoneIsNone == None # "week" /\ None # "previous"
BY PlanPageAssumption

\* A mounted page asks for the rows of its first query.
LEMMA InitPage == Init => PageInv
<1> SUFFICES ASSUME Init PROVE PageInv
  OBVIOUS
<1>1. requested \in Projects \cup {None}
  BY DEF Init
<1>2. ThisWeek.year \in Years /\ ThisWeek.week \in Weeks
  BY PlanPageAssumption
<1>3. filters \in Filters
  BY <1>1, <1>2 DEF Init, Filters, Sections, Statuses
<1>4. asking = "week" /\ more = None
  BY DEF Init
<1> QED
  BY <1>1, <1>3, <1>4 DEF PageInv

\* A changed query overtakes what is under way.
LEMMA ChangeKeepsPage ==
    ASSUME MoreOK, PageInv, NEW f \in Filters, Change(f), requested' \in Projects \cup {None}
    PROVE  PageInv'
<1>1. more' # None => more'.overtaken = TRUE
  BY DEF Change, MoreOK
<1> QED
  BY <1>1 DEF Change, PageInv

\* An answer to the query of the moment is awaited by nothing else.
LEMMA ShowKeepsPage ==
    ASSUME MoreOK, PageInv, asking # None, NEW shown, NEW follows, Show(shown, follows)
    PROVE  PageInv'
<1>1. ~(more # None /\ ~more.overtaken)
  BY DEF PageInv
<1>2. UNCHANGED <<filters, mode, more, requested>> /\ asking' = None
  BY DEF Show
<1>3. ~(more' # None /\ ~more'.overtaken)
  BY <1>1, <1>2
<1> QED
  BY <1>2, <1>3, NoneIsNone DEF PageInv

\* Every step keeps the query and what is asked for it in order.
LEMMA NextPage == Good /\ PageInv /\ [Next]_vars => PageInv'
<1> SUFFICES ASSUME MoreOK, IsSeq(rows), PageInv, [Next]_vars PROVE PageInv'
  BY DEF Good
<1>f. filters \in Filters
  BY DEF PageInv
<1>r. requested \in Projects \cup {None}
  BY DEF PageInv
<1>1. ASSUME NEW y \in Years \cup {None}, ChooseYear(y) PROVE PageInv'
  <2>1. [filters EXCEPT !.year = y] \in Filters
    BY <1>f DEF Filters
  <2> QED
    BY <1>1, <1>r, <2>1, ChangeKeepsPage DEF ChooseYear
<1>2. ASSUME NEW w \in Weeks \cup {None}, ChooseWeek(w) PROVE PageInv'
  <2>1. [filters EXCEPT !.week = w] \in Filters
    BY <1>f DEF Filters
  <2> QED
    BY <1>2, <1>r, <2>1, ChangeKeepsPage DEF ChooseWeek
<1>3. ASSUME NEW c \in Customers \cup {None}, ChooseCustomer(c) PROVE PageInv'
  <2>1. [filters EXCEPT !.customer = c, !.project = None] \in Filters
    BY <1>f DEF Filters
  <2> QED
    BY <1>3, <1>r, <2>1, ChangeKeepsPage DEF ChooseCustomer
<1>4. ASSUME NEW m \in Managers \cup {None}, ChooseManager(m) PROVE PageInv'
  <2>1. [filters EXCEPT !.manager = m, !.project = None] \in Filters
    BY <1>f DEF Filters
  <2> QED
    BY <1>4, <1>r, <2>1, ChangeKeepsPage DEF ChooseManager
<1>5. ASSUME NEW p \in Projects \cup {None}, ChooseProject(p) PROVE PageInv'
  <2>1. [filters EXCEPT !.project = p] \in Filters
    BY <1>f DEF Filters
  <2> QED
    BY <1>5, <1>r, <2>1, ChangeKeepsPage DEF ChooseProject
<1>6. ASSUME NEW s \in Sections \cup {None}, ChooseSection(s) PROVE PageInv'
  <2>1. [filters EXCEPT !.section = s] \in Filters
    BY <1>f DEF Filters
  <2> QED
    BY <1>6, <1>r, <2>1, ChangeKeepsPage DEF ChooseSection
<1>7. ASSUME NEW s \in Statuses \cup {None}, ChooseStatus(s) PROVE PageInv'
  <2>1. [filters EXCEPT !.status = s] \in Filters
    BY <1>f DEF Filters
  <2> QED
    BY <1>7, <1>r, <2>1, ChangeKeepsPage DEF ChooseStatus
<1>8. CASE ToggleSort
  <2>1. [filters EXCEPT !.ascending = ~@] \in Filters
    BY <1>f DEF Filters
  <2> QED
    BY <1>8, <1>r, <2>1, ChangeKeepsPage DEF ToggleSort
<1>9. ASSUME NEW w, GoTo(w) PROVE PageInv'
  <2>1. [filters EXCEPT !.year = w.year, !.week = w.week] \in Filters
    BY <1>f, <1>9 DEF Filters, GoTo
  <2> QED
    BY <1>9, <1>r, <2>1, ChangeKeepsPage DEF GoTo
<1>10. ASSUME NEW p \in Projects \cup {None}, Navigate(p) PROVE PageInv'
  <2>1. [filters EXCEPT !.project = p] \in Filters
    BY <1>f DEF Filters
  <2>2. requested' = p
    BY <1>10 DEF Navigate
  <2>3. CASE Change([filters EXCEPT !.project = p])
    BY <2>1, <2>2, <2>3, ChangeKeepsPage
  <2>4. CASE UNCHANGED <<mode, filters, rows, asking, more>>
    BY <2>2, <2>4 DEF PageInv, Fillable
  <2> QED
    BY <1>10, <2>3, <2>4 DEF Navigate
<1>11. CASE WeekAnswered
  <2> DEFINE page == PageOf(filters, 0)
  <2>1. asking # None /\ asking = "week"
    BY <1>11, PlanPageAssumption DEF WeekAnswered
  <2>2. CASE Fillable /\ page.rows = <<>>
    <3>1. /\ asking' = "previous"
          /\ UNCHANGED <<mode, filters, rows, more, requested>>
      BY <1>11, <2>2 DEF WeekAnswered
    <3>2. Ordered(filters) = <<>>
      BY <2>2, EmptyPage
    <3> HIDE DEF page
    <3> QED
      BY <2>1, <2>2, <3>1, <3>2 DEF PageInv, Fillable
  <2>3. CASE Show(AsRead(page.rows), page.hasMore)
    <3> HIDE DEF page
    <3> QED
      BY <2>1, <2>3, ShowKeepsPage
  <2> QED
    BY <1>11, <2>2, <2>3 DEF WeekAnswered
<1>12. CASE WeekFails
  BY <1>12, NoneIsNone DEF WeekFails, PageInv, Fillable
<1>13. CASE PreviousAnswered \/ PreviousFails
  BY <1>13, NoneIsNone, ShowKeepsPage DEF PreviousAnswered, PreviousFails
<1>14. CASE LoadMore
  BY <1>14 DEF LoadMore, PageInv, Fillable
<1>15. CASE MoreAnswered
  BY <1>15 DEF MoreAnswered, PageInv, Fillable
<1>16. CASE MoreFails
  BY <1>16 DEF MoreFails, PageInv, Fillable
<1>17. CASE SelectPlan
  BY <1>17 DEF SelectPlan, PageInv, Fillable
<1>18. CASE UNCHANGED vars
  BY <1>18 DEF vars, PageInv, Fillable
<1> QED
  BY <1>1, <1>2, <1>3, <1>4, <1>5, <1>6, <1>7, <1>8, <1>9, <1>10, <1>11, <1>12,
     <1>13, <1>14, <1>15, <1>16, <1>17, <1>18 DEF Next, MoveWeek, GoToThisWeek

\* The query and what is asked for it agree in every behaviour.
THEOREM PageInvariance == Spec => []PageInv
<1>1. Init => PageInv
  BY InitPage
<1>2. Good /\ PageInv /\ [Next]_vars => PageInv'
  BY NextPage
<1> QED
  BY <1>1, <1>2, Invariance, PTL DEF Spec

\* An arrow of the week page moves it by seven days, in every year and week that
\* the selects offer (a browser not west of Greenwich).
THEOREM ArrowsMoveOneWeek == ASSUME West = FALSE PROVE Spec => []ArrowMovesOneWeek
<1>1. PageInv => ArrowMovesOneWeek
  <2> SUFFICES ASSUME PageInv PROVE ArrowMovesOneWeek
    OBVIOUS
  <2> DEFINE shown == IF None \in {filters.year, filters.week} THEN ThisWeek
                      ELSE [year |-> filters.year, week |-> filters.week]
  <2>1. shown.year \in Nat /\ shown.week \in 1..53
    BY PlanPageAssumption DEF PageInv, Filters
  <2>2. (IF None \in {filters.year, filters.week} THEN WeekStart(ThisWeek.year, ThisWeek.week)
         ELSE WeekStart(filters.year, filters.week)) = WeekStart(shown.year, shown.week)
    OBVIOUS
  <2>3. \A delta : WeekAfter(delta) = WeekInfo(WeekStart(shown.year, shown.week) + 7 * delta)
    BY DEF WeekAfter
  <2> HIDE DEF shown
  <2>4. ASSUME NEW delta \in {-1, 1}
        PROVE  WeekStart(WeekAfter(delta).year, WeekAfter(delta).week)
                 = WeekStart(shown.year, shown.week) + 7 * delta
    BY <2>1, <2>3, WeekMoved
  <2> QED
    BY <2>2, <2>4 DEF ArrowMovesOneWeek
<1> QED
  BY <1>1, PageInvariance, PTL

-------------------------------------------------------------------------------
(* The rows of the filters. *)

\* A week that its year has is the week of its Monday.
LEMMA WeekFound ==
    ASSUME West = FALSE, NEW y \in Nat, NEW w \in 1..53,
           WeekStart(y, w) < WeekStart(y + 1, 1)
    PROVE  WeekInfo(WeekStart(y, w)) = [year |-> y, week |-> w]
<1> DEFINE d == WeekStart(y, w)
           e == WeekStart(y + 1, 1)
           j == January1(y)
           n == January1(y + 1)
           v == WeekDay(j + 3)
           t == d + 3
<1>1. y \in Int /\ y + 1 \in Int /\ w \in Int /\ 1 \in Int
  OBVIOUS
<1>2. /\ d \in Int /\ j \in Int
      /\ j - 3 + 7 * (w - 1) <= d /\ d <= j + 3 + 7 * (w - 1)
      /\ \E k \in Int : d = 7 * k + 1
  BY <1>1, WeekStarts, YearLength
<1>3. /\ e \in Int /\ n \in Int /\ e <= n + 3 + 7 * (1 - 1)
      /\ \E k \in Int : e = 7 * k + 1
  BY <1>1, WeekStarts, YearLength
<1>4. d < e /\ t = d + 3
  OBVIOUS
<1>5. j + 3 \in Int /\ v \in 1..7
  BY <1>2, WeekDays
<1>6. d = (j + 3) - v + 1 + (w - 1) * 7
  BY DEF WeekStart
<1> SUFFICES WeekInfo(d) = [year |-> y, week |-> w]
  OBVIOUS
<1>7. t \in Int /\ j <= t /\ t < n /\ j - 7 <= t /\ t <= j + 377
  <2> HIDE DEF d, e, j, n, v, t
  <2>1. PICK k \in Int : d = 7 * k + 1
    BY <1>2
  <2>2. PICK m \in Int : e = 7 * m + 1
    BY <1>3
  <2>3. d + 7 <= e
    BY <1>4, <2>1, <2>2
  <2> QED
    BY <1>2, <1>3, <1>4, <2>3
<1>8. YearOf(t) = y
  <2>1. /\ YearOf(t) \in Int
        /\ January1(YearOf(t)) <= t /\ t < January1(YearOf(t) + 1)
    BY <1>7, YearFound
  <2> HIDE DEF t
  <2> QED
    BY <1>1, <1>7, <2>1, OneYear
<1>9. WeekDay(d) = 1
  <2> HIDE DEF d
  <2>1. PICK k \in Int : d = 7 * k + 1
    BY <1>2
  <2>2. PICK m \in Int : WeekDay(d) \in 1..7 /\ d - WeekDay(d) = 7 * m
    BY <1>2, WeekDays
  <2> QED
    BY <2>1, <2>2
<1>10. WeekInfo(d) = [year |-> y, week |-> (t - j) \div 7 + 1]
  <2>1. LocalDay(d) = d
    BY DEF LocalDay
  <2>2. d + 4 - WeekDay(d) = t
    <3> HIDE DEF d, t
    <3> QED
      BY <1>2, <1>4, <1>9
  <2> HIDE DEF d, t
  <2> QED
    BY <1>8, <2>1, <2>2 DEF WeekInfo
<1>11. (t - j) \div 7 + 1 = w
  <2> DEFINE q == (t - j) \div 7
             r == (t - j) % 7
  <2> HIDE DEF d, j, v, t
  <2>1. q \in Int /\ r \in 0..6 /\ t - j = 7 * q + r
    <3> DEFINE x == t - j
    <3>1. x \in Int
      BY <1>2, <1>7
    <3> HIDE DEF x
    <3>2. x \div 7 \in Int /\ x % 7 \in 0..6 /\ x = 7 * (x \div 7) + (x % 7)
      BY <3>1, Divided
    <3> QED
      BY <3>2 DEF x
  <2> HIDE DEF q, r
  <2>2. t - j = 7 * (w - 1) + (7 - v)
    BY <1>1, <1>2, <1>4, <1>5, <1>6
  <2>3. q = w - 1
    BY <1>1, <1>5, <2>1, <2>2
  <2> QED
    BY <1>1, <2>3 DEF q
<1> QED
  BY <1>10, <1>11

\* The query for the week before asks for what that week left to do.
LEMMA PreviousIsLeft ==
    ASSUME West = FALSE, InRealWeeks, filters \in Filters, Fillable
    PROVE  Matching(PreviousQuery) = LeftFor(filters)
<1> DEFINE y == filters.year
           w == filters.week
           v == PreviousWeek(y, w)
           d == WeekStart(y, w) - 7
           f == [filters EXCEPT !.year = None, !.week = None, !.section = None]
           g == PreviousQuery
<1>1. y \in Nat /\ w \in 1..53
  BY PlanPageAssumption DEF Filters, Fillable
<1>2. v = WeekInfo(d) /\ v \in [year : Int, week : Int]
  BY <1>1, PreviousIsBefore
<1>3. WeekStart(v.year, v.week) = d
  <2>1. WeekStart(y, w) \in Int
    <3>1. y \in Int /\ w \in Int
      BY <1>1
    <3> QED
      BY <3>1, WeekStarts
  <2>2. WeekStart(y, w) + 7 * (-1) = d /\ -1 \in {-1, 0, 1}
    <3> DEFINE s == WeekStart(y, w)
    <3> HIDE DEF s
    <3> QED
      BY <2>1
  <2> QED
    BY <1>1, <1>2, <2>2, WeekMoved
<1>4. v.year # None /\ v.week # None /\ None # 2
  BY <1>2, PlanPageAssumption
<1>5. /\ g.status = filters.status /\ f.status = filters.status
      /\ g.project = filters.project /\ f.project = filters.project
      /\ g.customer = filters.customer /\ f.customer = filters.customer
      /\ g.manager = filters.manager /\ f.manager = filters.manager
      /\ g.year = v.year /\ g.week = v.week /\ g.section = 2
      /\ f.year = None /\ f.week = None /\ f.section = None
  <2>1. filters \in Filters
    OBVIOUS
  <2> QED
    BY <2>1 DEF PreviousQuery, Filters
<1>6. LeftFor(filters) = {p \in Plans : /\ WeekStart(p.year, p.week) = d
                                        /\ p.section = 2 /\ p \in Matching(f)}
  BY DEF LeftFor
<1> HIDE DEF v, d, f, g
<1>7. ASSUME NEW p \in Plans
      PROVE  WeekStart(p.year, p.week) = d <=> p.year = v.year /\ p.week = v.week
  <2>1. WeekInfo(WeekStart(p.year, p.week)) = [year |-> p.year, week |-> p.week]
    BY WeekFound DEF InRealWeeks
  <2> QED
    BY <1>2, <1>3, <2>1
<1>8. ASSUME NEW p \in Plans
      PROVE  p \in Matching(g) <=>
             p.year = v.year /\ p.week = v.week /\ p.section = 2 /\ p \in Matching(f)
  BY <1>4, <1>5, Zenon DEF Matching, Allows
<1>9. Matching(g) \subseteq Plans
  BY DEF Matching
<1> QED
  BY <1>6, <1>7, <1>8, <1>9 DEF g

\* The smaller of two counts.
LEMMA Smaller ==
    ASSUME NEW a \in Nat, NEW b \in Nat
    PROVE  Min({a, b}) = IF b < a THEN b ELSE a
<1> DEFINE m == IF b < a THEN b ELSE a
<1>1. m \in {a, b} /\ \A y \in {a, b} : m <= y
  OBVIOUS
<1>2. Min({a, b}) = CHOOSE x \in {a, b} : \A y \in {a, b} : x =< y
  BY DEF Min
<1>3. Min({a, b}) \in {a, b} /\ \A y \in {a, b} : Min({a, b}) =< y
  BY <1>1, <1>2
<1> QED
  BY <1>1, <1>3

\* An answer to the query of the moment shows the first rows of it.
LEMMA WeekShowsRows ==
    ASSUME PageInv, WeekAnswered
    PROVE  RowsOfFilters'
<1> DEFINE page == PageOf(filters, 0)
           all == Ordered(filters)
<1>1. CASE Fillable /\ page.rows = <<>>
  BY <1>1, NoneIsNone DEF WeekAnswered, RowsOfFilters
<1>2. CASE ~(Fillable /\ page.rows = <<>>)
  <2>1. Show(AsRead(page.rows), page.hasMore)
    BY <1>2 DEF WeekAnswered
  <2>2. /\ IsPrefix(AsRead(page.rows), AsRead(all))
        /\ page.hasMore <=> Len(AsRead(page.rows)) < Len(all)
    BY FirstPage
  <2>3. UNCHANGED <<mode, filters>>
    BY <2>1 DEF Show
  <2>4. rows' = AsRead(page.rows) /\ hasMore' = page.hasMore
    BY <2>1 DEF Show
  <2>5. all = <<>> => page.rows = <<>>
    <3>1. ASSUME all = <<>> PROVE Len(page.rows) = 0
      <4> DEFINE n == Len(all)
                 end == IF 0 + Limit < n THEN 0 + Limit ELSE n
      <4>1. n = 0 /\ 0 \in Nat
        BY <3>1
      <4>2. Limit \in Nat
        BY PlanPageAssumption DEF Limit
      <4>3. Len(page.rows) = end - 0
        BY <4>1, PageRows
      <4> HIDE DEF n, page
      <4> QED
        BY <4>1, <4>2, <4>3
    <3> QED
      BY <3>1, PageIsSeq, NoRows
  <2>6. Fillable' = Fillable /\ Ordered(filters)' = all
    BY <2>3 DEF Fillable, Ordered, Matching
  <2>7. ~(all = <<>> /\ Fillable)
    BY <1>2, <2>5
  <2>8. ~(Ordered(filters)' = <<>> /\ Fillable')
    BY <2>6, <2>7
  <2> HIDE DEF page, all
  <2>9. IsPrefix(rows', AsRead(Ordered(filters)'))
    BY <2>2, <2>4, <2>6
  <2>10. hasMore' <=> Len(rows') < Len(Ordered(filters)')
    BY <2>2, <2>4, <2>6
  <2> QED
    BY <2>8, <2>9, <2>10 DEF RowsOfFilters, AsRead
<1> QED
  BY <1>1, <1>2

\* The Next Plan of the week before is shown in a week without rows.
LEMMA PreviousShowsRows ==
    ASSUME West = FALSE, InRealWeeks, PageInv, PreviousAnswered
    PROVE  RowsOfFilters'
<1> DEFINE page == PageOf(PreviousQuery, 0)
           r == page.rows
           all == Ordered(PreviousQuery)
           n == Len(all)
           end == IF 0 + Limit < n THEN 0 + Limit ELSE n
           into == [year |-> filters.year, week |-> filters.week]
           left == InheritedInto(r, filters.year, filters.week)
<1>1. Fillable /\ Ordered(filters) = <<>> /\ filters \in Filters
  BY DEF PreviousAnswered, PageInv
<1>2. Show(left, FALSE)
  BY DEF PreviousAnswered
<1>3. UNCHANGED <<mode, filters>> /\ rows' = left
  BY <1>2 DEF Show
<1>4. Fillable' = Fillable /\ Ordered(filters)' = Ordered(filters) /\ Limit' = Limit
      /\ LeftFor(filters)' = LeftFor(filters)
  BY <1>3 DEF Fillable, Ordered, Matching, Limit, LeftFor
<1>5. /\ n = Cardinality(LeftFor(filters)) /\ n \in Nat
      /\ \A i \in 1..n : all[i] \in LeftFor(filters)
  BY <1>1, PreviousIsLeft, Ranked
<1>6. Limit \in Nat
  BY PlanPageAssumption DEF Limit
<1>7. Len(r) = end - 0 /\ \A i \in 1..(end - 0) : r[i] = all[0 + i]
  <2>1. 0 \in Nat /\ 0 <= Len(all)
    BY <1>5
  <2> QED
    BY <2>1, PageRows
<1> HIDE DEF page, all, n, into
<1>8. end \in Nat /\ end <= n /\ Len(r) = end
  BY <1>5, <1>6, <1>7
<1>9. end = Min({Cardinality(LeftFor(filters)), Limit})
  BY <1>5, <1>6, Smaller
<1> HIDE DEF r, end
<1>10. Len(left) = end /\ \A i \in 1..end : left[i] = [plan |-> r[i], into |-> into]
  BY <1>8 DEF InheritedInto, into
<1> HIDE DEF left
<1>11. ASSUME NEW i \in 1..end
       PROVE  left[i].plan \in LeftFor(filters) /\ left[i].into = into
  <2>1. i \in 1..(end - 0) /\ 0 + i = i /\ i \in 1..n
    BY <1>5, <1>8
  <2>2. r[i] \in LeftFor(filters)
    BY <1>5, <1>7, <2>1
  <2> QED
    BY <1>10, <2>2
<1>12. Ordered(filters)' = <<>> /\ Fillable'
  BY <1>1, <1>4
<1>13. /\ \A i \in 1..Len(rows') :
             rows'[i].plan \in LeftFor(filters)' /\ rows'[i].into = into
       /\ Len(rows') = Min({Cardinality(LeftFor(filters)'), Limit'})
  BY <1>3, <1>4, <1>9, <1>10, <1>11
<1>14. into = [year |-> filters'.year, week |-> filters'.week]
  BY <1>3 DEF into
<1> QED
  BY <1>12, <1>13, <1>14 DEF RowsOfFilters

\* A week that nothing was read for shows nothing.
LEMMA FailureShowsNothing ==
    ASSUME PageInv, PreviousFails
    PROVE  RowsOfFilters'
<1>1. Fillable /\ Ordered(filters) = <<>>
  BY DEF PreviousFails, PageInv
<1>2. UNCHANGED <<mode, filters>> /\ rows' = <<>>
  BY DEF PreviousFails, Show
<1>3. Fillable' /\ Ordered(filters)' = <<>>
  BY <1>1, <1>2 DEF Fillable, Ordered, Matching
<1>4. Len(rows') = 0
  BY <1>2
<1>5. \A i : i \notin 1..0
  OBVIOUS
<1> QED
  BY <1>2, <1>3, <1>4, <1>5 DEF RowsOfFilters

\* "Load more", unless it was overtaken, adds the rows that follow.
LEMMA MoreShowsRows ==
    ASSUME IsSeq(rows), PageInv, RowsOfFilters, MoreAnswered
    PROVE  RowsOfFilters'
<1> SUFFICES ASSUME asking' = None, ~error', ~late' PROVE RowsOfFilters'
  BY DEF RowsOfFilters
<1> DEFINE all == Ordered(filters)
           page == PageOf(filters, Len(rows))
           t == rows \o AsRead(page.rows)
<1>1. /\ asking = None /\ ~error /\ ~late /\ ~more.overtaken /\ more # None
      /\ UNCHANGED <<mode, filters>>
  BY DEF MoreAnswered
<1>2. mode = "list" /\ more.query = filters /\ more.offset = Len(rows)
  BY <1>1 DEF PageInv
<1>3. rows' = t /\ hasMore' = page.hasMore
  BY <1>2 DEF MoreAnswered
<1>4. ~Fillable /\ ~Fillable'
  BY <1>1, <1>2 DEF Fillable
<1>5. IsPrefix(rows, AsRead(all))
  BY <1>1, <1>4 DEF RowsOfFilters
<1>6. IsPrefix(t, AsRead(all)) /\ (page.hasMore <=> Len(t) < Len(all))
  BY <1>5, NextRows
<1>7. Ordered(filters)' = all
  BY <1>1 DEF Ordered, Matching
<1> HIDE DEF t, page, all
<1>8. IsPrefix(rows', AsRead(Ordered(filters)'))
      /\ (hasMore' <=> Len(rows') < Len(Ordered(filters)'))
  BY <1>3, <1>6, <1>7
<1> QED
  BY <1>4, <1>8 DEF RowsOfFilters, AsRead

\* What leaves query, rows and what is known of them leaves them in order.
LEMMA SameRows ==
    ASSUME RowsOfFilters, UNCHANGED <<mode, filters, rows, hasMore, asking, late>>,
           error => error'
    PROVE  RowsOfFilters'
<1>1. /\ Fillable' = Fillable /\ Ordered(filters)' = Ordered(filters) /\ Limit' = Limit
      /\ LeftFor(filters)' = LeftFor(filters)
      /\ AsRead(Ordered(filters))' = AsRead(Ordered(filters))
  BY DEF Fillable, Ordered, Matching, Limit, LeftFor, AsRead
<1> QED
  BY <1>1 DEF RowsOfFilters

\* Rows of the query before are not taken for those of a changed one.
LEMMA ChangeAsks ==
    ASSUME NEW f, Change(f)
    PROVE  RowsOfFilters'
<1>1. asking' # None
  BY NoneIsNone DEF Change
<1> QED
  BY <1>1 DEF RowsOfFilters

\* Every step shows the rows of the filters, or says that it does not yet.
LEMMA NextRowsOfFilters ==
    ASSUME West = FALSE, InRealWeeks
    PROVE  Good /\ PageInv /\ RowsOfFilters /\ [Next]_vars => RowsOfFilters'
<1> SUFFICES ASSUME IsSeq(rows), PageInv, RowsOfFilters, [Next]_vars PROVE RowsOfFilters'
  BY DEF Good
<1>1. ASSUME NEW f, Change(f) PROVE RowsOfFilters'
  BY <1>1, ChangeAsks
<1>2. CASE \/ \E y \in Years \cup {None} : ChooseYear(y)
           \/ \E w \in Weeks \cup {None} : ChooseWeek(w)
           \/ \E s \in Sections \cup {None} : ChooseSection(s)
           \/ \E s \in Statuses \cup {None} : ChooseStatus(s)
  BY <1>1, <1>2 DEF ChooseYear, ChooseWeek, ChooseSection, ChooseStatus
<1>3. CASE \/ \E c \in Customers \cup {None} : ChooseCustomer(c)
           \/ \E m \in Managers \cup {None} : ChooseManager(m)
           \/ \E p \in Projects \cup {None} : ChooseProject(p)
  BY <1>1, <1>3 DEF ChooseCustomer, ChooseManager, ChooseProject
<1>4. CASE ToggleSort \/ GoToThisWeek \/ \E delta \in {-1, 1} : MoveWeek(delta)
  BY <1>1, <1>4 DEF ToggleSort, GoToThisWeek, MoveWeek, GoTo
<1>5. ASSUME NEW p, Navigate(p) PROVE RowsOfFilters'
  <2>1. CASE Change([filters EXCEPT !.project = p])
    BY <1>1, <2>1
  <2>2. CASE UNCHANGED <<mode, filters, rows, hasMore, asking, more,
                         error, selected, late, inPlay>>
    BY <2>2, SameRows
  <2> QED
    BY <1>5, <2>1, <2>2 DEF Navigate
<1>6. CASE WeekAnswered
  BY <1>6, WeekShowsRows
<1>7. CASE WeekFails
  BY <1>7 DEF WeekFails, RowsOfFilters
<1>8. CASE PreviousAnswered
  BY <1>8, PreviousShowsRows
<1>9. CASE PreviousFails
  BY <1>9, FailureShowsNothing
<1>10. CASE LoadMore
  BY <1>10, SameRows DEF LoadMore
<1>11. CASE MoreAnswered
  BY <1>11, MoreShowsRows
<1>12. CASE MoreFails
  BY <1>12 DEF MoreFails, RowsOfFilters
<1>13. CASE SelectPlan
  BY <1>13, SameRows DEF SelectPlan
<1>14. CASE UNCHANGED vars
  BY <1>14, SameRows DEF vars
<1> QED
  BY <1>2, <1>3, <1>4, <1>5, <1>6, <1>7, <1>8, <1>9, <1>10, <1>11, <1>12,
     <1>13, <1>14 DEF Next

\* Unless "load more" came late or an error is in view, the page shows the rows of
\* its filters, in order and none left out, and a week without rows what the week
\* before it in the calendar left to do (plans in weeks that their years have, a
\* browser not west of Greenwich).
THEOREM RowsAreOfFilters ==
    ASSUME West = FALSE, InRealWeeks
    PROVE  Spec => []RowsOfFilters
<1>1. Init => RowsOfFilters
  <2>1. Init => asking # None
    BY NoneIsNone DEF Init
  <2> QED
    BY <2>1 DEF RowsOfFilters
<1>2. Good /\ PageInv /\ RowsOfFilters /\ [Next]_vars => RowsOfFilters'
  BY NextRowsOfFilters
<1> QED
  BY <1>1, <1>2, Invariance, PageInvariance, PTL DEF Spec

===============================================================================
