------------------------ MODULE LocalProjectPageProofs ------------------------
(***************************************************************************)
(* What holds of the page of local projects for any projects, links,       *)
(* mappings and number of fetches; and of what it shows of an answer       *)
(* (WorkspaceView) for any trees, dates and tables.                        *)
(***************************************************************************)
EXTENDS LocalProjectPage, WorkspaceView, FiniteSetTheorems, SequenceTheorems,
        WellFoundedInduction, TLAPS

UnderWay(cs, kind, p) == \E c \in cs : c.kind = kind /\ c.of = p

\* No project is selected before the list is there, and without one there
\* is no workspace and no task detail.
SelectionOK(pg, d, cs) ==
    /\ ~pg.listed => pg.selected = None
    /\ pg.selected = None => pg.workspace = None /\ d = None
    /\ \A c \in cs : IF c.kind = "projects"
                      THEN ~pg.listed /\ c = Call("projects", None, 0)
                      ELSE c.of # None

\* The one fetch of a workspace is for the project selected.
WorkspaceOK(pg, d, cs) ==
    /\ \A c \in cs : c.kind = "workspace" =>
           /\ pg.workspaceLoading /\ pg.selected # None
           /\ c = Call("workspace", pg.selected, 0)
    /\ pg.workspaceLoading => d = None
    /\ pg.workspace # None /\ ~pg.workspaceLoading =>
           pg.workspace = pg.selected \/ pg.error

PanelsOK(pg) ==
    pg.selected # None =>
        /\ \A k \in Panels : pg.panels[k] # None =>
               pg.panels[k].of = pg.selected
        /\ \A x \in pg.docs : x.of = pg.selected

\* A fetch for the detail is for the task it shows.
DetailOK(pg, d, cs) ==
    /\ \A c \in cs :
           /\ c.kind \in {"detail", "replies"} => d # None
           /\ c.kind = "detail" => [of |-> c.of, n |-> c.n] = d.task
    /\ d # None =>
           /\ d.task = pg.task
           /\ d.task.of = pg.workspace
           /\ d.comments \in {None, d.task}
           /\ d.open \in {None, d.task}

BusyOK(pg, cs) ==
    /\ pg.loading => UnderWay(cs, "projects", None)
    /\ pg.workspaceLoading => UnderWay(cs, "workspace", pg.selected)
    /\ \A f \in pg.busy : \E k \in Panels :
           Flag(k) = f /\ UnderWay(cs, k, pg.selected)
    /\ pg.docsLoading # None => UnderWay(cs, "documents", pg.selected)
    /\ pg.exportLoading => UnderWay(cs, "export", pg.selected)

DetailBusyOK(d, cs) ==
    d # None =>
        /\ d.loading => UnderWay(cs, "detail", d.task.of)
        /\ d.repliesLoading # None =>
               UnderWay(cs, "replies", d.repliesLoading.of)

Good(pg, d, cs) ==
    /\ pg \in PageType /\ d \in DetailType \cup {None} /\ cs \subseteq Calls
    /\ SelectionOK(pg, d, cs)
    /\ WorkspaceOK(pg, d, cs)
    /\ PanelsOK(pg)
    /\ DetailOK(pg, d, cs)
    /\ BusyOK(pg, cs)
    /\ DetailBusyOK(d, cs)

IInv ==
    /\ Good(page, detail, calls)
    /\ url \in Urls /\ mapping \in Projects \cup {None} /\ inPlay \in InPlay
    /\ NeverInferred

-------------------------------------------------------------------------------
(* Fetches. *)

\* The panels and the other fetches have different names.
LEMMA KindNames ==
    /\ {"projects", "workspace", "documents", "export", "detail", "replies"}
          \cap Panels = {}
    /\ Panels \subseteq Kinds
    /\ {"projects", "workspace", "documents", "export", "detail", "replies"}
          \subseteq Kinds
    /\ Analyses \ {"export"} \subseteq Panels
    /\ "pmbok" \in Panels
    /\ \A k \in Panels : Flag(k) \in Panels
    /\ \A a \in Analyses : Flag(a) = a
BY DEF Panels, Kinds, Analyses, Flag

LEMMA CallType ==
    ASSUME NEW k \in Kinds, NEW p \in Projects \cup {None}, NEW n \in Pages
    PROVE  /\ Call(k, p, n) \in Calls
           /\ Call(k, p, n).kind = k /\ Call(k, p, n).of = p
           /\ Call(k, p, n).n = n
BY DEF Call, Calls

LEMMA ZeroIsPage == 0 \in Pages
BY LocalPageAssumption DEF Pages

\* A fetch that is sent is under way beside the others.
LEMMA WithAdds ==
    ASSUME NEW cs \in SUBSET Calls, NEW c \in Calls
    PROVE  /\ With(cs, c) \subseteq Calls
           /\ cs \subseteq With(cs, c)
           /\ UnderWay(With(cs, c), c.kind, c.of)
           /\ \A x \in With(cs, c) : x \in cs \/
                 (x.kind = c.kind /\ x.of = c.of /\ x.n = c.n)
           /\ c \notin cs => With(cs, c) = cs \cup {c}
<1> DEFINE twin == [c EXCEPT !.copy = TRUE]
<1>1. twin \in Calls /\ twin.kind = c.kind /\ twin.of = c.of /\ twin.n = c.n
  BY DEF Calls
<1>2. With(cs, c) = cs \cup {IF c \in cs THEN twin ELSE c}
  BY DEF With
<1> HIDE DEF twin
<1> QED
  BY <1>1, <1>2 DEF UnderWay

-------------------------------------------------------------------------------
(* Selection. *)

LEMMA SelectedType ==
    ASSUME NEW pg \in PageType, NEW p \in Projects
    PROVE  LET k == Selected(pg, p)
           IN  /\ k \in PageType
               /\ k.selected = p /\ k.busy = {"pmbok"}
               /\ k.docsLoading = None /\ k.exportLoading = FALSE
               /\ k.workspaceLoading /\ k.docs = {}
               /\ k.panels = [j \in Panels |-> None]
               /\ k.loading = pg.loading /\ k.listed = pg.listed
<1>1. "pmbok" \in Panels
  BY KindNames
<1> QED
  BY ZenonT(60), <1>1 DEF Selected, PageType, Content

LEMMA DeselectedType ==
    ASSUME NEW pg \in PageType
    PROVE  LET k == Deselected(pg)
           IN  /\ k \in PageType
               /\ k.selected = None /\ k.busy = {}
               /\ k.docsLoading = None /\ k.exportLoading = FALSE
               /\ k.workspaceLoading = FALSE /\ k.workspace = None
               /\ k.loading = pg.loading /\ k.listed = pg.listed
<1> DEFINE kept == [k \in Panels |-> IF k \in Core THEN None ELSE pg.panels[k]]
           bad  == {f \in pg.errors : f = "pmbok" \/ f \notin Core}
<1>1. kept \in [Panels -> Content \cup {None}] /\ bad \in SUBSET Panels
  BY DEF PageType
<1>2. Deselected(pg) =
        [pg EXCEPT !.selected = None, !.busy = {}, !.docsLoading = None,
                   !.exportLoading = FALSE, !.workspaceLoading = FALSE,
                   !.workspace = None, !.panels = kept, !.errors = bad]
  BY DEF Deselected
<1> HIDE DEF kept, bad
<1> QED
  BY ZenonT(60), <1>1, <1>2 DEF PageType

\* Whatever is still under way for a panel of another project does not
\* matter: no flag waits for it, and nothing of it is shown.
LEMMA SelectedKeeps ==
    ASSUME NEW pg, NEW d, NEW cs, Good(pg, d, cs), pg.listed,
           NEW p \in Projects
    PROVE  Good(Selected(pg, p), None,
                With(With(Cleanup(cs), Call("pmbok", p, 0)),
                     Call("workspace", p, 0)))
<1> DEFINE k  == Selected(pg, p)
           c1 == Call("pmbok", p, 0)
           c2 == Call("workspace", p, 0)
           s0 == Cleanup(cs)
           s1 == With(s0, c1)
           s2 == With(s1, c2)
<1>1. /\ k \in PageType
      /\ k.selected = p /\ k.busy = {"pmbok"}
      /\ k.docsLoading = None /\ k.exportLoading = FALSE
      /\ k.workspaceLoading /\ k.docs = {}
      /\ k.panels = [j \in Panels |-> None]
      /\ k.loading = pg.loading /\ k.listed = pg.listed
  BY SelectedType DEF Good
<1>2. c1 \in Calls /\ c1.kind = "pmbok" /\ c1.of = p
      /\ c2 \in Calls /\ c2.kind = "workspace" /\ c2.of = p
  BY CallType, KindNames, ZeroIsPage
<1>3. /\ s0 \subseteq cs /\ s0 \subseteq Calls
      /\ \A c \in s0 : c.kind \notin {"workspace", "detail", "replies"}
      /\ \A c \in cs : c.kind = "projects" => c \in s0
  BY DEF Cleanup, Good
<1> HIDE DEF k, c1, c2, s0
<1>4. /\ s1 \subseteq Calls /\ s0 \subseteq s1 /\ UnderWay(s1, "pmbok", p)
      /\ \A x \in s1 : x \in s0 \/ (x.kind = "pmbok" /\ x.of = p)
  BY <1>2, <1>3, WithAdds
<1>5. c2 \notin s1
  BY <1>2, <1>3, <1>4
<1> HIDE DEF s1
<1>6. s2 \subseteq Calls /\ s2 = s1 \cup {c2}
  BY <1>2, <1>4, <1>5, WithAdds
<1> HIDE DEF s2
<1>7. p # None
  BY LocalPageAssumption
<1>8. SelectionOK(k, None, s2)
  BY <1>1, <1>2, <1>3, <1>4, <1>6, <1>7 DEF SelectionOK, Good
<1>9. WorkspaceOK(k, None, s2)
  BY <1>1, <1>2, <1>3, <1>4, <1>6, <1>7 DEF WorkspaceOK, c2
<1>10. PanelsOK(k)
  BY <1>1 DEF PanelsOK
<1>11. DetailOK(k, None, s2)
  BY <1>2, <1>3, <1>4, <1>6 DEF DetailOK
<1>12. BusyOK(k, s2)
  <2>1. ASSUME k.loading PROVE UnderWay(s2, "projects", None)
    <3>1. UnderWay(cs, "projects", None)
      BY <1>1, <2>1 DEF Good, BusyOK
    <3>2. PICK c \in cs : c.kind = "projects" /\ c.of = None
      BY <3>1 DEF UnderWay
    <3>3. c \in s2
      BY <1>3, <1>4, <1>6, <3>2
    <3> QED
      BY <3>2, <3>3 DEF UnderWay
  <2>2. UnderWay(s2, "workspace", p) /\ UnderWay(s2, "pmbok", p)
    BY <1>2, <1>4, <1>6 DEF UnderWay
  <2>3. Flag("pmbok") = "pmbok" /\ "pmbok" \in Panels
    BY DEF Flag, Panels
  <2> QED
    BY <1>1, <2>1, <2>2, <2>3 DEF BusyOK
<1>13. DetailBusyOK(None, s2)
  BY DEF DetailBusyOK
<1> QED
  BY <1>1, <1>6, <1>8, <1>9, <1>10, <1>11, <1>12, <1>13
  DEF Good, k, c1, c2, s0, s1, s2

LEMMA DeselectedKeeps ==
    ASSUME NEW pg, NEW d, NEW cs, Good(pg, d, cs)
    PROVE  Good(Deselected(pg), None, Cleanup(cs))
<1> DEFINE k  == Deselected(pg)
           s0 == Cleanup(cs)
<1>1. /\ k \in PageType
      /\ k.selected = None /\ k.busy = {}
      /\ k.docsLoading = None /\ k.exportLoading = FALSE
      /\ k.workspaceLoading = FALSE /\ k.workspace = None
      /\ k.loading = pg.loading /\ k.listed = pg.listed
  BY DeselectedType DEF Good
<1>2. /\ s0 \subseteq cs /\ s0 \subseteq Calls
      /\ \A c \in s0 : c.kind \notin {"workspace", "detail", "replies"}
      /\ \A c \in cs : c.kind = "projects" => c \in s0
  BY DEF Cleanup, Good
<1> HIDE DEF k, s0
<1>3. SelectionOK(k, None, s0)
  BY <1>1, <1>2 DEF SelectionOK, Good
<1>4. WorkspaceOK(k, None, s0) /\ PanelsOK(k) /\ DetailOK(k, None, s0)
      /\ DetailBusyOK(None, s0)
  BY <1>1, <1>2 DEF WorkspaceOK, PanelsOK, DetailOK, DetailBusyOK
<1>5. BusyOK(k, s0)
  <2>1. ASSUME k.loading PROVE UnderWay(s0, "projects", None)
    <3>1. UnderWay(cs, "projects", None)
      BY <1>1, <2>1 DEF Good, BusyOK
    <3> QED
      BY <1>2, <3>1 DEF UnderWay
  <2> QED
    BY <1>1, <2>1 DEF BusyOK
<1> QED
  BY <1>1, <1>2, <1>3, <1>4, <1>5 DEF Good, k, s0

\* An analysis that a link asks for has a fetch of its own.
LEMMA AnalysedKeeps ==
    ASSUME NEW pg, NEW d, NEW cs, Good(pg, d, cs), pg.selected # None,
           NEW u \in Urls
    PROVE  Good(Analysed(pg, u), d, AnalysisSent(cs, pg.selected, u))
<1> DEFINE a == u.analysis
           k == Analysed(pg, u)
           s == AnalysisSent(cs, pg.selected, u)
<1>0. a \in Analyses \cup {None} /\ "overview" \in Sheets
  BY DEF Urls, Sheets
<1>1. CASE a = None
  <2>1. a \notin Panels
    BY <1>1, KindNames, LocalPageAssumption
  <2> QED
    BY <1>1, <2>1 DEF Analysed, AnalysisSent
<1>2. CASE a # None
  <2> DEFINE more == pg.busy \cup ({a} \ {"export"})
             fewer == pg.errors \ {a}
  <2>1. more \in SUBSET Panels /\ fewer \in SUBSET Panels
    BY <1>0, <1>2, KindNames DEF Good, PageType
  <2>2. k = [pg EXCEPT !.sheet = "overview", !.busy = more, !.errors = fewer]
    BY <1>2 DEF Analysed
  <2> HIDE DEF k, more, fewer
  <2>3. /\ k \in PageType
        /\ k.busy = more /\ k.selected = pg.selected /\ k.listed = pg.listed
        /\ k.loading = pg.loading /\ k.workspace = pg.workspace
        /\ k.workspaceLoading = pg.workspaceLoading /\ k.error = pg.error
        /\ k.panels = pg.panels /\ k.docs = pg.docs
        /\ k.docsLoading = pg.docsLoading
        /\ k.exportLoading = pg.exportLoading /\ k.task = pg.task
    BY <1>0, <2>1, <2>2 DEF Good, PageType
  <2>4. /\ s \subseteq Calls /\ cs \subseteq s
        /\ a \in Panels => UnderWay(s, a, pg.selected)
        /\ \A x \in s : x \in cs \/ (x.kind \in Panels /\ x.of = pg.selected)
    <3>1. CASE a \in Panels
      <4>1. pg.selected \in Projects \cup {None} /\ cs \subseteq Calls
        BY DEF Good, PageType
      <4>2. LET c == Call(a, pg.selected, 0)
            IN  c \in Calls /\ c.kind = a /\ c.of = pg.selected
        BY <3>1, <4>1, CallType, KindNames, ZeroIsPage
      <4>3. s = With(cs, Call(a, pg.selected, 0))
        BY <3>1 DEF AnalysisSent
      <4> QED
        BY <3>1, <4>1, <4>2, <4>3, WithAdds
    <3>2. CASE a \notin Panels
      BY <3>2 DEF AnalysisSent, Good
    <3> QED
      BY <3>1, <3>2
  <2> HIDE DEF s
  <2>5. SelectionOK(k, d, s)
    BY <2>3, <2>4, KindNames DEF SelectionOK, Good
  <2>6. WorkspaceOK(k, d, s)
    BY <2>3, <2>4, KindNames DEF WorkspaceOK, Good
  <2>7. PanelsOK(k)
    BY <2>3 DEF PanelsOK, Good
  <2>8. DetailOK(k, d, s)
    BY <2>3, <2>4, KindNames DEF DetailOK, Good
  <2>9. BusyOK(k, s)
    <3>1. \A kind, p : UnderWay(cs, kind, p) => UnderWay(s, kind, p)
      BY <2>4 DEF UnderWay
    <3>2. ASSUME NEW f \in k.busy
          PROVE  \E j \in Panels : Flag(j) = f /\ UnderWay(s, j, k.selected)
      <4>1. CASE f \in pg.busy
        BY <2>3, <3>1, <4>1 DEF Good, BusyOK
      <4>2. CASE f = a /\ a \in Panels
        BY <1>0, <1>2, <2>3, <2>4, <4>2, KindNames
      <4> QED
        BY <1>0, <1>2, <2>3, <4>1, <4>2, KindNames DEF more
    <3> QED
      BY <2>3, <3>1, <3>2 DEF Good, BusyOK
  <2>10. DetailBusyOK(d, s)
    BY <2>4 DEF DetailBusyOK, Good, UnderWay
  <2> QED
    BY <2>3, <2>4, <2>5, <2>6, <2>7, <2>8, <2>9, <2>10 DEF Good, k, s
<1> QED
  BY <1>1, <1>2

\* A selection keeps the page sound.
LEMMA SelectionKeeps ==
    ASSUME NEW pg, NEW d, NEW cs, Good(pg, d, cs),
           NEW p \in Projects \cup {None}, p # None => pg.listed,
           NEW u \in Urls
    PROVE  /\ Good(PageWith(pg, p, u), IF p = pg.selected THEN d ELSE None,
                   CallsWith(cs, pg.selected, p, u))
           /\ PageWith(pg, p, u).selected = p
           /\ PageWith(pg, p, u).listed = pg.listed
<1>1. CASE p = pg.selected
  BY <1>1 DEF PageWith, CallsWith
<1>2. CASE p # pg.selected /\ p = None
  <2>1. Deselected(pg).selected = None /\ Deselected(pg).listed = pg.listed
    BY DeselectedType DEF Good
  <2> QED
    BY <1>2, <2>1, DeselectedKeeps DEF PageWith, CallsWith
<1>3. CASE p # pg.selected /\ p # None
  <2> DEFINE k == Selected(pg, p)
             s == With(With(Cleanup(cs), Call("pmbok", p, 0)),
                       Call("workspace", p, 0))
  <2>1. k \in PageType /\ k.selected = p /\ k.listed = pg.listed
    BY <1>3, SelectedType DEF Good
  <2>2. Good(k, None, s)
    BY <1>3, SelectedKeeps
  <2>3. PageWith(pg, p, u) = Analysed(k, u)
        /\ CallsWith(cs, pg.selected, p, u) = AnalysisSent(s, p, u)
    BY <1>3 DEF PageWith, CallsWith
  <2> HIDE DEF k, s
  <2>4. Good(Analysed(k, u), None, AnalysisSent(s, p, u))
    BY <1>3, <2>1, <2>2, AnalysedKeeps
  <2>5. Analysed(k, u).selected = p /\ Analysed(k, u).listed = pg.listed
    BY <2>1 DEF Analysed, PageType
  <2> QED
    BY <1>3, <2>3, <2>4, <2>5
<1> QED
  BY <1>1, <1>2, <1>3

\* The same, before there can be a task detail.
LEMMA FirstSelectionKeeps ==
    ASSUME NEW pg, NEW cs, Good(pg, None, cs), pg.listed,
           NEW p \in Projects \cup {None}, NEW u \in Urls
    PROVE  /\ Good(PageWith(pg, p, u), None, CallsWith(cs, pg.selected, p, u))
           /\ PageWith(pg, p, u).selected = p
           /\ PageWith(pg, p, u).listed = pg.listed
<1> DEFINE d == IF p = pg.selected THEN None ELSE None
<1>1. d = None
  OBVIOUS
<1>2. /\ Good(PageWith(pg, p, u), d, CallsWith(cs, pg.selected, p, u))
      /\ PageWith(pg, p, u).selected = p
      /\ PageWith(pg, p, u).listed = pg.listed
  BY SelectionKeeps
<1> QED
  BY <1>1, <1>2

\* So does another sheet.
LEMMA SheetKeeps ==
    ASSUME NEW pg, NEW d, NEW cs, Good(pg, d, cs), NEW s \in Sheets
    PROVE  LET k == [pg EXCEPT !.sheet = s]
           IN  /\ Good(k, d, cs)
               /\ k.selected = pg.selected /\ k.listed = pg.listed
<1> DEFINE k == [pg EXCEPT !.sheet = s]
<1>1. /\ k \in PageType
      /\ k.busy = pg.busy /\ k.selected = pg.selected /\ k.listed = pg.listed
      /\ k.loading = pg.loading /\ k.workspace = pg.workspace
      /\ k.workspaceLoading = pg.workspaceLoading /\ k.error = pg.error
      /\ k.panels = pg.panels /\ k.docs = pg.docs
      /\ k.docsLoading = pg.docsLoading
      /\ k.exportLoading = pg.exportLoading /\ k.task = pg.task
  BY DEF Good, PageType
<1> HIDE DEF k
<1>2. SelectionOK(k, d, cs) /\ WorkspaceOK(k, d, cs) /\ PanelsOK(k)
      /\ DetailOK(k, d, cs)
  BY <1>1 DEF Good, SelectionOK, WorkspaceOK, PanelsOK, DetailOK
<1>3. BusyOK(k, cs)
  BY <1>1 DEF Good, BusyOK
<1> QED
  BY <1>1, <1>2, <1>3 DEF Good, k

-------------------------------------------------------------------------------
(* Steps that leave the selection alone. *)

\* The fetches whose answers go to panels, payments and files.
Quiet == Panels \cup {"documents", "export"}

SameSelection(k, pg) ==
    /\ k.selected = pg.selected /\ k.listed = pg.listed
    /\ k.loading = pg.loading /\ k.workspace = pg.workspace
    /\ k.workspaceLoading = pg.workspaceLoading /\ k.error = pg.error

SameQuiet(k, pg) ==
    /\ k.busy = pg.busy /\ k.panels = pg.panels /\ k.docs = pg.docs
    /\ k.docsLoading = pg.docsLoading
    /\ k.exportLoading = pg.exportLoading

\* A step of a panel: what there is to show of it.
LEMMA QuietStep ==
    ASSUME NEW pg, NEW d, NEW cs, Good(pg, d, cs),
           NEW k \in PageType, NEW s \in SUBSET Calls,
           SameSelection(k, pg), k.task = pg.task,
           \A c \in cs : c \in s \/ c.kind \in Quiet,
           \A c \in s : c \in cs \/ (c.kind \in Quiet /\ c.of # None),
           PanelsOK(k), BusyOK(k, s)
    PROVE  Good(k, d, s)
<1>1. \A c : c.kind \in Quiet =>
         c.kind \notin {"projects", "workspace", "detail", "replies"}
  BY KindNames DEF Quiet
<1>2. SelectionOK(k, d, s)
  BY <1>1 DEF Good, SelectionOK, SameSelection
<1>3. WorkspaceOK(k, d, s)
  BY <1>1 DEF Good, WorkspaceOK, SameSelection
<1>4. DetailOK(k, d, s)
  BY <1>1 DEF Good, DetailOK, SameSelection
<1>5. DetailBusyOK(d, s)
  BY <1>1 DEF Good, DetailBusyOK, UnderWay
<1> QED
  BY <1>2, <1>3, <1>4, <1>5 DEF Good

\* A fetch for the project selected is sent, and its flag raised.
LEMMA LoadKeeps ==
    ASSUME NEW pg, NEW d, NEW cs, Good(pg, d, cs), pg.selected # None,
           NEW j \in Panels, NEW n \in Pages, NEW k \in PageType,
           SameSelection(k, pg), k.task = pg.task,
           k.busy = pg.busy \cup {Flag(j)}, k.panels = pg.panels,
           k.docs = pg.docs, k.docsLoading = pg.docsLoading,
           k.exportLoading = pg.exportLoading
    PROVE  Good(k, d, With(cs, Call(j, pg.selected, n)))
<1> DEFINE c == Call(j, pg.selected, n)
           s == With(cs, c)
<1>1. pg.selected \in Projects \cup {None} /\ cs \subseteq Calls
  BY DEF Good, PageType
<1>2. c \in Calls /\ c.kind = j /\ c.of = pg.selected
  BY <1>1, CallType, KindNames
<1> HIDE DEF c
<1>3. /\ s \subseteq Calls /\ cs \subseteq s /\ UnderWay(s, j, pg.selected)
      /\ \A x \in s : x \in cs \/ (x.kind = j /\ x.of = pg.selected)
  BY SMTT(30), <1>1, <1>2, WithAdds
<1> HIDE DEF s
<1>4. PanelsOK(k)
  BY DEF PanelsOK, Good, SameSelection
<1>5. BusyOK(k, s)
  <2>1. \A kind, p : UnderWay(cs, kind, p) => UnderWay(s, kind, p)
    BY <1>3 DEF UnderWay
  <2>2. ASSUME NEW f \in k.busy
        PROVE  \E i \in Panels : Flag(i) = f /\ UnderWay(s, i, k.selected)
    <3>1. CASE f \in pg.busy
      BY <2>1, <3>1 DEF Good, BusyOK, SameSelection
    <3>2. CASE f = Flag(j)
      BY <1>3, <3>2 DEF SameSelection
    <3> QED
      BY <3>1, <3>2
  <2> QED
    BY <2>1, <2>2 DEF Good, BusyOK, SameSelection
<1>6. j \in Quiet
  BY DEF Quiet
<1> QED
  BY <1>3, <1>4, <1>5, <1>6, QuietStep DEF c, s

\* An answer for a panel ends the waiting for this panel only, and for the
\* project it was sent for only.
LEMMA AnswerKeeps ==
    ASSUME NEW pg, NEW d, NEW cs, Good(pg, d, cs),
           NEW c \in cs, c.kind \in Panels, NEW k \in PageType,
           SameSelection(k, pg), k.task = pg.task,
           k.docs = pg.docs, k.docsLoading = pg.docsLoading,
           k.exportLoading = pg.exportLoading,
           PanelsOK(k),
           \/ k.busy = pg.busy \ {Flag(c.kind)}
           \/ k.busy = pg.busy /\ c.of # pg.selected
    PROVE  Good(k, d, cs \ {c})
<1> DEFINE s == cs \ {c}
<1>1. s \in SUBSET Calls
  BY DEF Good
<1>2. ASSUME NEW kind, NEW p, UnderWay(cs, kind, p), kind # c.kind \/ p # c.of
      PROVE  UnderWay(s, kind, p)
  BY <1>2 DEF UnderWay
<1>3. c.kind \notin {"projects", "workspace", "documents", "export"}
  BY KindNames
<1>4. ASSUME NEW f \in k.busy
      PROVE  \E j \in Panels : Flag(j) = f /\ UnderWay(s, j, k.selected)
  <2>1. f \in pg.busy /\ k.selected = pg.selected
    BY DEF SameSelection
  <2>2. PICK j \in Panels : Flag(j) = f /\ UnderWay(cs, j, pg.selected)
    BY <2>1 DEF Good, BusyOK
  <2>3. j # c.kind \/ pg.selected # c.of
    BY <2>2
  <2> HIDE DEF s
  <2> QED
    BY <1>2, <2>1, <2>2, <2>3
<1> HIDE DEF s
<1>5. BusyOK(k, s)
  BY <1>2, <1>3, <1>4 DEF Good, BusyOK, SameSelection
<1>6. c.kind \in Quiet
  BY DEF Quiet
<1> QED
  BY <1>1, <1>5, <1>6, QuietStep DEF s

\* A step of the task detail: what there is to show of it.
LEMMA DetailStep ==
    ASSUME NEW pg, NEW d, NEW cs, Good(pg, d, cs),
           NEW k \in PageType, NEW e \in DetailType \cup {None},
           NEW s \in SUBSET Calls,
           SameSelection(k, pg), SameQuiet(k, pg),
           e # None => pg.selected # None /\ ~pg.workspaceLoading,
           \A c \in cs : c \in s \/ c.kind \in {"detail", "replies"},
           \A c \in s : c \in cs \/
                        (c.kind \in {"detail", "replies"} /\ c.of # None),
           DetailOK(k, e, s), DetailBusyOK(e, s)
    PROVE  Good(k, e, s)
<1>1. SelectionOK(k, e, s)
  BY DEF Good, SelectionOK, SameSelection
<1>2. WorkspaceOK(k, e, s)
  BY DEF Good, WorkspaceOK, SameSelection
<1>3. PanelsOK(k)
  BY DEF Good, PanelsOK, SameSelection, SameQuiet
<1>4. BusyOK(k, s)
  <2>1. ASSUME NEW kind, NEW p, UnderWay(cs, kind, p),
               kind \notin {"detail", "replies"}
        PROVE  UnderWay(s, kind, p)
    BY <2>1 DEF UnderWay
  <2>2. ASSUME NEW f \in k.busy
        PROVE  \E j \in Panels : Flag(j) = f /\ UnderWay(s, j, k.selected)
    <3>1. PICK j \in Panels : Flag(j) = f /\ UnderWay(cs, j, pg.selected)
      BY DEF Good, BusyOK, SameQuiet
    <3> QED
      BY <2>1, <3>1, KindNames DEF SameSelection
  <2> QED
    BY <2>1, <2>2 DEF Good, BusyOK, SameSelection, SameQuiet
<1> QED
  BY <1>1, <1>2, <1>3, <1>4 DEF Good

-------------------------------------------------------------------------------
(* The list, links and choices. *)

LEMMA InitInv == Init => IInv
<1> SUFFICES ASSUME Init PROVE IInv
  OBVIOUS
<1>1. /\ inPlay \in [calls : SUBSET Kinds, links : SUBSET Urls,
                     mappings : SUBSET (Projects \cup {None})]
      /\ inPlay \in InPlay /\ url \in Urls
      /\ mapping \in Projects \cup {None}
  BY LocalPageAssumption DEF Init
<1>2. PICK last \in Projects \cup {None} : page = Mounted(url, last)
  BY DEF Init
<1>3. page \in PageType /\ page.selected = None /\ page.workspace = None
      /\ page.listed = FALSE /\ page.workspaceLoading = FALSE
      /\ page.busy = {} /\ page.docsLoading = None
      /\ page.exportLoading = FALSE
  BY <1>1, <1>2 DEF Mounted, PageType, Urls
<1>4. detail = None /\ calls = {Call("projects", None, 0)}
      /\ Call("projects", None, 0) \in Calls
      /\ Call("projects", None, 0).kind = "projects"
      /\ Call("projects", None, 0).of = None
  BY CallType, KindNames, ZeroIsPage DEF Init
<1>5. SelectionOK(page, detail, calls) /\ WorkspaceOK(page, detail, calls)
      /\ PanelsOK(page) /\ DetailOK(page, detail, calls)
      /\ DetailBusyOK(detail, calls)
  BY <1>3, <1>4
  DEF SelectionOK, WorkspaceOK, PanelsOK, DetailOK, DetailBusyOK
<1>6. BusyOK(page, calls)
  BY <1>3, <1>4 DEF BusyOK, UnderWay
<1> QED
  BY <1>1, <1>3, <1>4, <1>5, <1>6 DEF IInv, Good, NeverInferred

\* What a link, a mapping or the last visit asks for is in the list.
LEMMA WantedIsListed ==
    ASSUME NEW u
    PROVE  /\ Wanted(u) \in Projects \cup {None}
           /\ u \in Urls /\ u.tfsProjectRef /\ Wanted(u) # None =>
                  Wanted(u) = mapping
BY LocalPageAssumption DEF Wanted, InList, ReadMapping, Urls

LEMMA ListArrivesInv ==
    ASSUME IInv, NEW c \in calls, ListArrives(c)
    PROVE  IInv'
<1> DEFINE pg == [page EXCEPT !.loading = FALSE, !.listed = TRUE,
                              !.opened = None, !.lastProjectId = None]
           rest == calls \ {c}
           p == Wanted(page.opened)
           q == IF Linked(url) THEN Wanted(url) ELSE p
           first == PageWith(pg, p, url)
           sent == CallsWith(rest, None, p, url)
           last == PageWith(first, q, url)
           sheet == IF Linked(url) /\ url.analysis = None
                    THEN url.sheet ELSE last.sheet
<1>1. Good(page, detail, calls) /\ url \in Urls /\ c.kind = "projects"
  BY DEF IInv, ListArrives
<1>2. ~page.listed /\ page.selected = None /\ detail = None
      /\ page.workspace = None
      /\ \A x \in rest : x.kind # "projects"
  BY <1>1 DEF Good, SelectionOK
<1>3. /\ pg \in PageType /\ pg.loading = FALSE /\ pg.listed = TRUE
      /\ pg.busy = page.busy /\ pg.selected = page.selected
      /\ pg.workspace = page.workspace
      /\ pg.workspaceLoading = page.workspaceLoading
      /\ pg.error = page.error
      /\ pg.panels = page.panels /\ pg.docs = page.docs
      /\ pg.docsLoading = page.docsLoading
      /\ pg.exportLoading = page.exportLoading /\ pg.task = page.task
  BY <1>1 DEF Good, PageType
<1> HIDE DEF pg
<1>4. Good(pg, None, rest)
  <2>1. SelectionOK(pg, None, rest)
    BY <1>1, <1>2, <1>3 DEF Good, SelectionOK
  <2>2. WorkspaceOK(pg, None, rest)
    BY <1>1, <1>2, <1>3 DEF Good, WorkspaceOK
  <2>3. PanelsOK(pg) /\ DetailBusyOK(None, rest)
    BY <1>2, <1>3 DEF PanelsOK, DetailBusyOK
  <2>4. DetailOK(pg, None, rest)
    BY <1>1, <1>2 DEF Good, DetailOK
  <2>5. BusyOK(pg, rest)
    <3>1. ASSUME NEW kind, NEW x, UnderWay(calls, kind, x), kind # "projects"
          PROVE  UnderWay(rest, kind, x)
      BY <1>1, <3>1 DEF UnderWay
    <3>2. ASSUME NEW f \in pg.busy
          PROVE  \E j \in Panels : Flag(j) = f /\ UnderWay(rest, j, pg.selected)
      <4>1. PICK j \in Panels : Flag(j) = f /\ UnderWay(calls, j, page.selected)
        BY <1>1, <1>3 DEF Good, BusyOK
      <4> QED
        BY <1>3, <3>1, <4>1, KindNames
    <3> QED
      BY <1>1, <1>3, <3>1, <3>2 DEF Good, BusyOK
  <2> QED
    BY <1>1, <1>3, <2>1, <2>2, <2>3, <2>4, <2>5 DEF Good
<1> HIDE DEF rest
<1>5. p \in Projects \cup {None} /\ q \in Projects \cup {None}
  BY WantedIsListed
<1>6. q # None /\ url.tfsProjectRef => q = mapping
  BY <1>1, WantedIsListed DEF Linked
<1> HIDE DEF p, q
<1>7. Good(first, None, sent) /\ first.selected = p /\ first.listed = TRUE
  <2>1. pg.listed
    BY <1>3
  <2>2. Good(first, None, CallsWith(rest, pg.selected, p, url))
        /\ first.selected = p /\ first.listed = pg.listed
    BY ZenonT(60), <1>1, <1>4, <1>5, <2>1, FirstSelectionKeeps
  <2> QED
    BY <1>2, <1>3, <2>2
<1> HIDE DEF first, sent
<1>8. Good(last, None, CallsWith(sent, p, q, url)) /\ last.selected = q
  <2>1. first.listed
    BY <1>7
  <2>2. Good(last, None, CallsWith(sent, first.selected, q, url))
        /\ last.selected = q
    BY <1>1, <1>5, <1>7, <2>1, FirstSelectionKeeps
  <2> QED
    BY <1>7, <2>2
<1>9. page' = [last EXCEPT !.sheet = sheet]
      /\ calls' = CallsWith(sent, p, q, url)
      /\ detail' = None /\ UNCHANGED <<url, mapping, inPlay>>
  BY <1>2 DEF ListArrives, pg, rest, p, q, first, sent
<1> HIDE DEF last
<1>10. sheet \in Sheets
  BY <1>1, <1>8 DEF Good, PageType, Urls
<1> HIDE DEF sheet
<1>11. Good(page', detail', calls') /\ page'.selected = q
  BY <1>8, <1>9, <1>10, SheetKeeps
<1> QED
  BY <1>6, <1>9, <1>11 DEF IInv, NeverInferred

LEMMA ListFailsInv ==
    ASSUME IInv, NEW c \in calls, ListFails(c)
    PROVE  IInv'
<1> DEFINE pg == [page EXCEPT !.loading = FALSE, !.error = TRUE,
                              !.opened = None, !.lastProjectId = None]
           rest == calls \ {c}
<1>1. Good(page, detail, calls) /\ c.kind = "projects"
  BY DEF IInv, ListFails
<1>2. ~page.listed /\ page.selected = None /\ detail = None
      /\ page.workspace = None
  BY <1>1 DEF Good, SelectionOK
<1>3. /\ pg \in PageType /\ pg.loading = FALSE /\ pg.listed = page.listed
      /\ pg.busy = page.busy /\ pg.selected = page.selected
      /\ pg.workspace = page.workspace
      /\ pg.workspaceLoading = page.workspaceLoading
      /\ pg.panels = page.panels /\ pg.docs = page.docs
      /\ pg.docsLoading = page.docsLoading
      /\ pg.exportLoading = page.exportLoading /\ pg.task = page.task
  BY <1>1 DEF Good, PageType
<1> HIDE DEF pg
<1>4. SelectionOK(pg, None, rest) /\ WorkspaceOK(pg, None, rest)
  BY <1>1, <1>2, <1>3 DEF Good, SelectionOK, WorkspaceOK
<1>5. PanelsOK(pg) /\ DetailBusyOK(None, rest)
  BY <1>2, <1>3 DEF PanelsOK, DetailBusyOK
<1>6. DetailOK(pg, None, rest)
  BY <1>1, <1>2 DEF Good, DetailOK
<1>7. BusyOK(pg, rest)
  <2>1. ASSUME NEW kind, NEW x, UnderWay(calls, kind, x), kind # "projects"
        PROVE  UnderWay(rest, kind, x)
    BY <1>1, <2>1 DEF UnderWay
  <2>2. ASSUME NEW f \in pg.busy
        PROVE  \E j \in Panels : Flag(j) = f /\ UnderWay(rest, j, pg.selected)
    <3>1. PICK j \in Panels : Flag(j) = f /\ UnderWay(calls, j, page.selected)
      BY <1>1, <1>3 DEF Good, BusyOK
    <3> QED
      BY <1>3, <2>1, <3>1, KindNames
  <2> QED
    BY <1>1, <1>3, <2>1, <2>2 DEF Good, BusyOK
<1>8. Good(pg, None, rest)
  BY <1>1, <1>3, <1>4, <1>5, <1>6, <1>7 DEF Good
<1>9. page' = pg /\ calls' = rest /\ detail' = None
      /\ UNCHANGED <<url, mapping, inPlay>>
  BY <1>2 DEF ListFails, pg
<1> QED
  BY <1>2, <1>3, <1>8, <1>9 DEF IInv, NeverInferred

LEMMA ChooseProjectInv ==
    ASSUME IInv, NEW p \in Listed, ChooseProject(p)
    PROVE  IInv'
<1> DEFINE pg == [page EXCEPT !.sheet = SheetOfChoice]
<1>1. Good(page, detail, calls) /\ url \in Urls /\ page.listed
      /\ p \in Projects /\ p # page.selected
  BY LocalPageAssumption DEF IInv, ChooseProject
<1>2. SheetOfChoice \in Sheets
  BY <1>1 DEF SheetOfChoice, Urls, Sheets
<1>3. Good(pg, detail, calls) /\ pg.selected = page.selected
      /\ pg.listed = page.listed
  BY <1>1, <1>2, SheetKeeps
<1>4. /\ page' = PageWith(pg, p, url)
      /\ calls' = CallsWith(calls, page.selected, p, url)
      /\ detail' = IF p = page.selected THEN detail ELSE None
      /\ mapping' = IF url.tfsProjectRef THEN p ELSE mapping
      /\ UNCHANGED <<url, inPlay>>
  BY DEF ChooseProject, Select
<1> HIDE DEF pg
<1>5. Good(page', detail', calls') /\ page'.selected = p
  <2>1. pg.listed /\ p \in Projects \cup {None}
    BY <1>1, <1>3
  <2>2. /\ Good(PageWith(pg, p, url), IF p = pg.selected THEN detail ELSE None,
                CallsWith(calls, pg.selected, p, url))
        /\ PageWith(pg, p, url).selected = p
    BY <1>1, <1>3, <2>1, SelectionKeeps
  <2> QED
    BY <1>3, <1>4, <2>2
<1> QED
  BY <1>1, <1>4, <1>5 DEF IInv, NeverInferred

LEMMA ClearProjectInv ==
    ASSUME IInv, ClearProject
    PROVE  IInv'
<1> DEFINE pg == [page EXCEPT !.sheet = SheetOfChoice]
<1>1. Good(page, detail, calls) /\ url \in Urls
  BY DEF IInv
<1>2. SheetOfChoice \in Sheets
  BY <1>1 DEF SheetOfChoice, Urls, Sheets
<1>3. Good(pg, detail, calls)
  BY <1>1, <1>2, SheetKeeps
<1>4. page' = Deselected(pg) /\ calls' = Cleanup(calls) /\ detail' = None
      /\ mapping' \in Projects \cup {None} /\ UNCHANGED <<url, inPlay>>
  BY DEF ClearProject, IInv
<1> HIDE DEF pg
<1>5. Good(page', detail', calls') /\ page'.selected = None
  BY <1>3, <1>4, DeselectedKeeps, DeselectedType DEF Good
<1> QED
  BY <1>4, <1>5 DEF IInv, NeverInferred

LEMMA NavigateInv ==
    ASSUME IInv, NEW u \in inPlay.links, Navigate(u)
    PROVE  IInv'
<1> DEFINE followed == Linked(u) /\ u # [url EXCEPT !.analysis = u.analysis]
           p == IF ~followed THEN page.selected
                ELSE IF page.listed THEN Wanted(u) ELSE None
           pg == IF followed THEN [page EXCEPT !.sheet = u.sheet] ELSE page
<1>1. Good(page, detail, calls) /\ url \in Urls /\ u \in Urls
      /\ inPlay \in InPlay /\ NeverInferred
  BY LocalPageAssumption DEF IInv
<1>2. p \in Projects \cup {None} /\ (p # None => page.listed)
  BY <1>1, WantedIsListed DEF Good, PageType, SelectionOK
<1>3. u.tfsProjectRef /\ p # None => mapping = p
  <2>1. CASE followed
    BY <1>1, <2>1, WantedIsListed
  <2>2. CASE ~followed
    <3>1. u.tfsProjectRef => url.tfsProjectRef
      BY <1>1, <2>2 DEF Linked, Urls
    <3> QED
      BY <1>1, <2>2, <3>1 DEF NeverInferred
  <2> QED
    BY <2>1, <2>2
<1>4. Good(pg, detail, calls) /\ pg.selected = page.selected
      /\ pg.listed = page.listed
  <2>1. u.sheet \in Sheets
    BY <1>1 DEF Urls
  <2> QED
    BY <1>1, <2>1, SheetKeeps
<1>5. /\ url' = u /\ UNCHANGED <<mapping, inPlay>>
      /\ \/ Select(pg, p, u)
         \/ /\ p = page.selected /\ p # None
            /\ \/ page' = Analysed(pg, u) /\ calls' = AnalysisSent(calls, p, u)
               \/ page' = pg /\ calls' = calls
            /\ detail' = detail
  BY DEF Navigate
<1> HIDE DEF followed, p, pg
<1>6. Good(page', detail', calls') /\ page'.selected = p
  <2>1. CASE Select(pg, p, u)
    BY <1>1, <1>2, <1>4, <2>1, SelectionKeeps DEF Select
  <2>2. CASE /\ p = page.selected /\ p # None /\ detail' = detail
             /\ page' = Analysed(pg, u) /\ calls' = AnalysisSent(calls, p, u)
    <3>1. Good(page', detail', calls')
      BY <1>1, <1>4, <2>2, AnalysedKeeps
    <3>2. Analysed(pg, u).selected = pg.selected
      BY <1>4 DEF Analysed, Good, PageType
    <3> QED
      BY <1>4, <2>2, <3>1, <3>2
  <2>3. CASE /\ p = page.selected /\ p # None /\ detail' = detail
             /\ page' = pg /\ calls' = calls
    BY <1>4, <2>3
  <2> QED
    BY <1>5, <2>1, <2>2, <2>3
<1> QED
  BY <1>1, <1>3, <1>5, <1>6 DEF IInv, NeverInferred

-------------------------------------------------------------------------------
(* Panels. *)

\* What a step that leaves the selection, the query and the mapping alone
\* still owes.
LEMMA OnlyGood ==
    ASSUME IInv, Good(page', detail', calls'),
           page'.selected = page.selected, UNCHANGED <<url, mapping, inPlay>>
    PROVE  IInv'
BY DEF IInv, NeverInferred

LEMMA PressPanelInv ==
    ASSUME IInv, NEW k \in Panels, NEW n \in Pages, PressPanel(k, n)
    PROVE  IInv'
<1> DEFINE more == page.busy \cup {Flag(k)}
           fewer == page.errors \ {Flag(k)}
<1>1. Good(page, detail, calls) /\ page \in PageType /\ page.selected # None
  BY DEF IInv, Good, PressPanel
<1>2. /\ page' = [page EXCEPT !.busy = more, !.errors = fewer]
      /\ calls' = With(calls, Call(k, page.selected, n))
      /\ UNCHANGED <<detail, url, mapping, inPlay>>
  BY DEF PressPanel, LoadPanel, Send
<1>3. more \in SUBSET Panels /\ fewer \in SUBSET Panels
  BY <1>1, KindNames DEF PageType
<1> HIDE DEF more, fewer
<1>4. /\ page' \in PageType /\ SameSelection(page', page)
      /\ page'.task = page.task /\ page'.panels = page.panels
      /\ page'.busy = more /\ page'.docs = page.docs
      /\ page'.docsLoading = page.docsLoading
      /\ page'.exportLoading = page.exportLoading
  BY <1>1, <1>2, <1>3 DEF PageType, SameSelection
<1>5. Good(page', detail', calls')
  BY <1>1, <1>2, <1>4, LoadKeeps DEF more
<1> QED
  BY <1>2, <1>4, <1>5, OnlyGood DEF SameSelection

LEMMA OpenSheetInv ==
    ASSUME IInv, NEW s \in Sheets, OpenSheet(s)
    PROVE  IInv'
<1>1. Good(page, detail, calls) /\ page \in PageType
  BY DEF IInv, Good
<1>2. UNCHANGED <<detail, url, mapping, inPlay>>
  BY DEF OpenSheet
<1>3. CASE /\ page.selected # None
           /\ page' = [page EXCEPT !.sheet = s, !.busy = @ \cup {"pmbok"},
                                  !.errors = @ \ {"pmbok"}]
           /\ calls' = With(calls, Call("pmbok", page.selected, 0))
  <2>1. Flag("pmbok") = "pmbok" /\ "pmbok" \in Panels
    BY DEF Flag, Panels
  <2>2. /\ page' \in PageType /\ SameSelection(page', page)
        /\ page'.task = page.task /\ page'.panels = page.panels
        /\ page'.busy = page.busy \cup {"pmbok"} /\ page'.docs = page.docs
        /\ page'.docsLoading = page.docsLoading
        /\ page'.exportLoading = page.exportLoading
    BY <1>1, <1>3, <2>1 DEF PageType, SameSelection
  <2>3. Good(page', detail', calls')
    BY <1>1, <1>2, <1>3, <2>1, <2>2, LoadKeeps, ZeroIsPage
  <2> QED
    BY <1>2, <2>2, <2>3, OnlyGood DEF SameSelection
<1>4. CASE page' = [page EXCEPT !.sheet = s] /\ calls' = calls
  <2>1. Good(page', detail', calls') /\ page'.selected = page.selected
    BY <1>1, <1>2, <1>4, SheetKeeps
  <2> QED
    BY <1>2, <2>1, OnlyGood
<1> QED
  BY <1>3, <1>4 DEF OpenSheet, Send

LEMMA HidePanelInv ==
    ASSUME IInv, NEW k \in Panels, HidePanel(k)
    PROVE  IInv'
<1> DEFINE left == [j \in Panels |-> IF Flag(j) = k THEN None
                                     ELSE page.panels[j]]
<1>1. Good(page, detail, calls) /\ page \in PageType /\ calls \in SUBSET Calls
  BY DEF IInv, Good
<1>2. page' = [page EXCEPT !.panels = left]
      /\ UNCHANGED <<detail, calls, url, mapping, inPlay>>
  BY DEF HidePanel
<1>3. left \in [Panels -> Content \cup {None}]
  BY <1>1 DEF PageType
<1>4. PanelsOK(page) /\ BusyOK(page, calls)
  BY <1>1 DEF Good
<1>5. \A j \in Panels : left[j] # None => left[j] = page.panels[j]
  OBVIOUS
<1> HIDE DEF left
<1>6. /\ page' \in PageType /\ SameSelection(page', page)
      /\ page'.task = page.task /\ page'.panels = left
      /\ page'.busy = page.busy /\ page'.docs = page.docs
      /\ page'.docsLoading = page.docsLoading
      /\ page'.exportLoading = page.exportLoading
  BY <1>1, <1>2, <1>3 DEF PageType, SameSelection
<1>7. PanelsOK(page')
  BY <1>4, <1>5, <1>6 DEF PanelsOK, SameSelection
<1>8. BusyOK(page', calls')
  BY <1>2, <1>4, <1>6 DEF BusyOK, SameSelection
<1>9. Good(page', detail', calls')
  BY <1>1, <1>2, <1>6, <1>7, <1>8, QuietStep
<1> QED
  BY <1>2, <1>6, <1>9, OnlyGood DEF SameSelection

LEMMA PanelArrivesInv ==
    ASSUME IInv, NEW c \in calls, PanelArrives(c)
    PROVE  IInv'
<1>1. Good(page, detail, calls) /\ page \in PageType /\ c.kind \in Panels
      /\ c \in Calls
  BY DEF IInv, Good, PanelArrives
<1>2. calls' = calls \ {c} /\ UNCHANGED <<detail, url, mapping, inPlay>>
  BY DEF PanelArrives
<1>3. PanelsOK(page)
  BY <1>1 DEF Good
<1>4. CASE ~Current(c)
  <2>1. page' = page /\ c.of # page.selected
    BY <1>4 DEF PanelArrives, Current
  <2>2. SameSelection(page, page)
    BY DEF SameSelection
  <2>3. Good(page, detail, calls \ {c})
    BY <1>1, <1>3, <2>1, <2>2, AnswerKeeps
  <2> QED
    BY <1>2, <2>1, <2>3, OnlyGood
<1>5. CASE Current(c)
  <2> DEFINE item == [of |-> c.of, at |-> c.n]
             held == [page.panels EXCEPT ![c.kind] = item]
             left == page.busy \ {Flag(c.kind)}
  <2>1. c.of = page.selected /\ c.of # None
    BY <1>1, <1>5, KindNames DEF Current, Good, SelectionOK
  <2>2. item \in Content /\ item.of = c.of
    BY <1>1, <2>1 DEF Calls, Content
  <2>3. held \in [Panels -> Content \cup {None}] /\ left \in SUBSET Panels
    BY <1>1, <2>2 DEF PageType
  <2>4. \A j \in Panels : held[j] = item \/ held[j] = page.panels[j]
    BY <1>1 DEF PageType
  <2>5. page' = [page EXCEPT !.panels = held, !.busy = left]
    BY <1>5 DEF PanelArrives
  <2> HIDE DEF item, held, left
  <2>6. /\ page' \in PageType /\ SameSelection(page', page)
        /\ page'.task = page.task /\ page'.panels = held
        /\ page'.busy = left /\ page'.docs = page.docs
        /\ page'.docsLoading = page.docsLoading
        /\ page'.exportLoading = page.exportLoading
    BY <1>1, <2>3, <2>5 DEF PageType, SameSelection
  <2>7. PanelsOK(page')
    BY <1>3, <2>1, <2>2, <2>4, <2>6 DEF PanelsOK, SameSelection
  <2>8. Good(page', detail, calls \ {c})
    BY <1>1, <2>6, <2>7, AnswerKeeps DEF left
  <2> QED
    BY <1>2, <2>6, <2>8, OnlyGood DEF SameSelection
<1> QED
  BY <1>4, <1>5

LEMMA PanelFailsInv ==
    ASSUME IInv, NEW c \in calls, PanelFails(c)
    PROVE  IInv'
<1>1. Good(page, detail, calls) /\ page \in PageType /\ c.kind \in Panels
      /\ c \in Calls
  BY DEF IInv, Good, PanelFails
<1>2. calls' = calls \ {c} /\ UNCHANGED <<detail, url, mapping, inPlay>>
  BY DEF PanelFails
<1>3. PanelsOK(page)
  BY <1>1 DEF Good
<1>4. CASE ~Current(c)
  <2>1. page' = page /\ c.of # page.selected
    BY <1>4 DEF PanelFails, Current
  <2>2. SameSelection(page, page)
    BY DEF SameSelection
  <2>3. Good(page, detail, calls \ {c})
    BY <1>1, <1>3, <2>1, <2>2, AnswerKeeps
  <2> QED
    BY <1>2, <2>1, <2>3, OnlyGood
<1>5. CASE Current(c)
  <2> DEFINE bad == page.errors \cup {Flag(c.kind)}
             left == page.busy \ {Flag(c.kind)}
  <2>1. bad \in SUBSET Panels /\ left \in SUBSET Panels
    BY <1>1, KindNames DEF PageType
  <2>2. page' = [page EXCEPT !.errors = bad, !.busy = left]
    BY <1>5 DEF PanelFails
  <2> HIDE DEF bad, left
  <2>3. /\ page' \in PageType /\ SameSelection(page', page)
        /\ page'.task = page.task /\ page'.panels = page.panels
        /\ page'.busy = left /\ page'.docs = page.docs
        /\ page'.docsLoading = page.docsLoading
        /\ page'.exportLoading = page.exportLoading
    BY <1>1, <2>1, <2>2 DEF PageType, SameSelection
  <2>4. PanelsOK(page')
    BY <1>3, <2>3 DEF PanelsOK, SameSelection
  <2>5. Good(page', detail, calls \ {c})
    BY <1>1, <2>3, <2>4, AnswerKeeps DEF left
  <2> QED
    BY <1>2, <2>3, <2>5, OnlyGood DEF SameSelection
<1> QED
  BY <1>4, <1>5

\* A workspace, or its failure: it is the one of the project selected.
LEMMA WorkspaceInv ==
    ASSUME IInv, NEW c \in calls, WorkspaceArrives(c) \/ WorkspaceFails(c)
    PROVE  IInv'
<1> DEFINE rest == calls \ {c}
<1>1. Good(page, detail, calls) /\ page \in PageType /\ c.kind = "workspace"
      /\ c \in Calls
  BY DEF IInv, Good, WorkspaceArrives, WorkspaceFails
<1>2. /\ page.workspaceLoading /\ page.selected # None /\ detail = None
      /\ c.of = page.selected
      /\ \A x \in rest : x.kind # "workspace"
  <2>1. c = Call("workspace", page.selected, 0)
    BY <1>1 DEF Good, WorkspaceOK
  <2> QED
    BY <1>1, <2>1 DEF Good, WorkspaceOK, Call
<1>3. /\ calls' = rest /\ UNCHANGED <<detail, url, mapping, inPlay>>
      /\ \/ page' = [page EXCEPT !.workspace = c.of, !.workspaceLoading = FALSE]
         \/ page' = [page EXCEPT !.error = TRUE, !.workspaceLoading = FALSE]
  BY DEF WorkspaceArrives, WorkspaceFails
<1>4. /\ page' \in PageType /\ page'.selected = page.selected
      /\ page'.listed = page.listed /\ page'.loading = page.loading
      /\ page'.workspaceLoading = FALSE
      /\ page'.workspace = page.selected \/ page'.error
      /\ page'.task = page.task /\ page'.panels = page.panels
      /\ page'.busy = page.busy /\ page'.docs = page.docs
      /\ page'.docsLoading = page.docsLoading
      /\ page'.exportLoading = page.exportLoading
  <2>1. c.of \in Projects \cup {None}
    BY <1>1 DEF Calls
  <2>2. CASE page' = [page EXCEPT !.workspace = c.of,
                                  !.workspaceLoading = FALSE]
    BY <1>1, <1>2, <2>1, <2>2 DEF PageType
  <2>3. CASE page' = [page EXCEPT !.error = TRUE, !.workspaceLoading = FALSE]
    BY <1>1, <1>2, <2>3 DEF PageType
  <2> QED
    BY <1>3, <2>2, <2>3
<1>5. SelectionOK(page', None, rest)
  BY <1>1, <1>2, <1>4 DEF Good, SelectionOK
<1>6. WorkspaceOK(page', None, rest)
  BY <1>2, <1>4 DEF WorkspaceOK
<1>7. PanelsOK(page') /\ DetailBusyOK(None, rest)
  BY <1>1, <1>4 DEF Good, PanelsOK, DetailBusyOK
<1>8. DetailOK(page', None, rest)
  BY <1>1, <1>2 DEF Good, DetailOK
<1>9. BusyOK(page', rest)
  <2>1. ASSUME NEW kind, NEW x, UnderWay(calls, kind, x), kind # "workspace"
        PROVE  UnderWay(rest, kind, x)
    BY <1>1, <2>1 DEF UnderWay
  <2>2. ASSUME NEW f \in page'.busy
        PROVE  \E j \in Panels :
                   Flag(j) = f /\ UnderWay(rest, j, page'.selected)
    <3>1. PICK j \in Panels : Flag(j) = f /\ UnderWay(calls, j, page.selected)
      BY <1>1, <1>4 DEF Good, BusyOK
    <3> QED
      BY <1>4, <2>1, <3>1, KindNames
  <2> QED
    BY <1>1, <1>4, <2>1, <2>2 DEF Good, BusyOK
<1>10. Good(page', None, rest)
  BY <1>1, <1>4, <1>5, <1>6, <1>7, <1>8, <1>9 DEF Good
<1> QED
  BY <1>2, <1>3, <1>4, <1>10, OnlyGood

-------------------------------------------------------------------------------
(* Documents of payments, and files. *)

\* A step of documents or files: their flag waits for a fetch that is under
\* way.
LEMMA FileStep ==
    ASSUME IInv, page' \in PageType, calls' \subseteq Calls,
           SameSelection(page', page), page'.task = page.task,
           page'.busy = page.busy, page'.panels = page.panels,
           UNCHANGED <<detail, url, mapping, inPlay>>,
           \A c \in calls : c \in calls' \/ c.kind \in {"documents", "export"},
           \A c \in calls' : c \in calls \/
               (c.kind \in {"documents", "export"} /\ c.of # None),
           page.selected # None =>
               \A x \in page'.docs : x \in page.docs \/ x.of = page.selected,
           page'.docsLoading # None =>
               UnderWay(calls', "documents", page.selected),
           page'.exportLoading => UnderWay(calls', "export", page.selected)
    PROVE  IInv'
<1>1. Good(page, detail, calls)
  BY DEF IInv
<1>2. PanelsOK(page')
  BY <1>1 DEF Good, PanelsOK, SameSelection
<1>3. BusyOK(page', calls')
  <2>1. ASSUME NEW kind, NEW x, UnderWay(calls, kind, x),
               kind \notin {"documents", "export"}
        PROVE  UnderWay(calls', kind, x)
    BY <2>1 DEF UnderWay
  <2>2. ASSUME NEW f \in page'.busy
        PROVE  \E j \in Panels :
                   Flag(j) = f /\ UnderWay(calls', j, page'.selected)
    <3>1. PICK j \in Panels : Flag(j) = f /\ UnderWay(calls, j, page.selected)
      BY <1>1 DEF Good, BusyOK
    <3> QED
      BY <2>1, <3>1, KindNames DEF SameSelection
  <2> QED
    BY <1>1, <2>1, <2>2 DEF Good, BusyOK, SameSelection
<1>4. Good(page', detail, calls')
  BY <1>1, <1>2, <1>3, QuietStep DEF Quiet
<1> QED
  BY <1>4, OnlyGood DEF SameSelection

LEMMA PressFileInv ==
    ASSUME IInv, PressExport \/ \E n \in Pages : PressDocuments(n)
    PROVE  IInv'
<1>1. Good(page, detail, calls) /\ page \in PageType /\ calls \subseteq Calls
      /\ page.selected # None /\ page.selected \in Projects \cup {None}
      /\ UNCHANGED <<detail, url, mapping, inPlay>>
  BY DEF IInv, Good, PageType, PressExport, PressDocuments
<1>2. ASSUME NEW kind \in {"documents", "export"}, NEW n \in Pages,
             calls' = With(calls, Call(kind, page.selected, n))
      PROVE  /\ calls' \subseteq Calls
             /\ calls \subseteq calls'
             /\ UnderWay(calls', kind, page.selected)
             /\ \A c \in calls' : c \in calls \/
                   (c.kind \in {"documents", "export"} /\ c.of # None)
  <2>1. LET c == Call(kind, page.selected, n)
        IN  c \in Calls /\ c.kind = kind /\ c.of = page.selected
    BY <1>1, CallType, KindNames
  <2> QED
    BY <1>1, <1>2, <2>1, WithAdds
<1>3. BusyOK(page, calls)
  BY <1>1 DEF Good
<1>4. CASE PressExport
  <2>1. page' = [page EXCEPT !.exportLoading = TRUE, !.exportError = None]
        /\ calls' = With(calls, Call("export", page.selected, 0))
    BY <1>4 DEF PressExport, Send
  <2>2. /\ page' \in PageType /\ SameSelection(page', page)
        /\ page'.task = page.task /\ page'.busy = page.busy
        /\ page'.panels = page.panels /\ page'.docs = page.docs
        /\ page'.docsLoading = page.docsLoading
    BY <1>1, <2>1 DEF PageType, SameSelection
  <2>3. /\ calls' \subseteq Calls /\ calls \subseteq calls'
        /\ UnderWay(calls', "export", page.selected)
        /\ \A c \in calls' : c \in calls \/
              (c.kind \in {"documents", "export"} /\ c.of # None)
    BY <1>2, <2>1, ZeroIsPage
  <2>4. page'.docsLoading # None =>
            UnderWay(calls', "documents", page.selected)
    BY <1>3, <2>2, <2>3 DEF BusyOK, UnderWay
  <2> QED
    BY <1>1, <2>2, <2>3, <2>4, FileStep
<1>5. ASSUME NEW n \in Pages, PressDocuments(n)
      PROVE  IInv'
  <2>1. page' = [page EXCEPT !.docsLoading = n]
        /\ calls' = With(calls, Call("documents", page.selected, n))
    BY <1>5 DEF PressDocuments, Send
  <2>2. /\ page' \in PageType /\ SameSelection(page', page)
        /\ page'.task = page.task /\ page'.busy = page.busy
        /\ page'.panels = page.panels /\ page'.docs = page.docs
        /\ page'.exportLoading = page.exportLoading
    BY <1>1, <2>1 DEF PageType, SameSelection
  <2>3. /\ calls' \subseteq Calls /\ calls \subseteq calls'
        /\ UnderWay(calls', "documents", page.selected)
        /\ \A c \in calls' : c \in calls \/
              (c.kind \in {"documents", "export"} /\ c.of # None)
    BY <1>2, <2>1
  <2>4. page'.exportLoading => UnderWay(calls', "export", page.selected)
    BY <1>3, <2>2, <2>3 DEF BusyOK, UnderWay
  <2> QED
    BY <1>1, <2>2, <2>3, <2>4, FileStep
<1> QED
  BY <1>4, <1>5

LEMMA FileEndsInv ==
    ASSUME IInv, NEW c \in calls,
           \/ DocumentsArrive(c) \/ DocumentsFail(c)
           \/ \E failed \in BOOLEAN : ExportEnds(c, failed)
    PROVE  IInv'
<1>1. Good(page, detail, calls) /\ page \in PageType /\ calls \subseteq Calls
      /\ c \in Calls /\ c.kind \in {"documents", "export"}
      /\ calls' = calls \ {c} /\ UNCHANGED <<detail, url, mapping, inPlay>>
  BY DEF IInv, Good, DocumentsArrive, DocumentsFail, ExportEnds
<1>2. BusyOK(page, calls) /\ c.of \in Projects /\ c.n \in Pages
  BY <1>1 DEF Good, SelectionOK, Calls
<1>3. ASSUME NEW kind, NEW x, UnderWay(calls, kind, x), kind # c.kind \/ x # c.of
      PROVE  UnderWay(calls', kind, x)
  BY <1>1, <1>3 DEF UnderWay
<1>4. CASE page' = page /\ ~Current(c)
  <2>1. SameSelection(page', page) /\ c.of # page.selected
    BY <1>4 DEF SameSelection, Current
  <2>2. /\ page'.docsLoading # None =>
               UnderWay(calls', "documents", page.selected)
        /\ page'.exportLoading => UnderWay(calls', "export", page.selected)
    BY <1>2, <1>3, <1>4, <2>1 DEF BusyOK
  <2> QED
    BY <1>1, <1>4, <2>1, <2>2, FileStep
<1>5. CASE /\ Current(c) /\ c.kind = "documents"
           /\ \/ page' = [page EXCEPT !.docsLoading = None]
              \/ page' = [page EXCEPT
                            !.docs = @ \cup {[of |-> c.of, at |-> c.n]},
                            !.docsLoading = None]
  <2> DEFINE item == [of |-> c.of, at |-> c.n]
             held == page.docs \cup {item}
  <2>1. item.of = page.selected /\ held \in SUBSET Content
    BY <1>1, <1>2, <1>5 DEF Current, Content, PageType
  <2>2. \A x \in held : x \in page.docs \/ x.of = page.selected
    BY <2>1
  <2>3. page' = [page EXCEPT !.docsLoading = None]
        \/ page' = [page EXCEPT !.docs = held, !.docsLoading = None]
    BY <1>5
  <2> HIDE DEF held
  <2>4. /\ page' \in PageType /\ SameSelection(page', page)
        /\ page'.task = page.task /\ page'.busy = page.busy
        /\ page'.panels = page.panels /\ page'.docs \in {page.docs, held}
        /\ page'.docsLoading = None
        /\ page'.exportLoading = page.exportLoading
    <3>1. CASE page' = [page EXCEPT !.docsLoading = None]
      BY <1>1, <3>1 DEF PageType, SameSelection
    <3>2. CASE page' = [page EXCEPT !.docs = held, !.docsLoading = None]
      BY <1>1, <2>1, <3>2 DEF PageType, SameSelection
    <3> QED
      BY <2>3, <3>1, <3>2
  <2>5. page'.exportLoading => UnderWay(calls', "export", page.selected)
    BY <1>2, <1>3, <1>5, <2>4 DEF BusyOK
  <2> QED
    BY <1>1, <2>2, <2>4, <2>5, FileStep
<1>6. ASSUME NEW failed \in BOOLEAN, Current(c), c.kind = "export",
             page' = [page EXCEPT !.exportLoading = FALSE,
                                  !.exportError = IF failed THEN c.of ELSE @]
      PROVE  IInv'
  <2>1. /\ page' \in PageType /\ SameSelection(page', page)
        /\ page'.task = page.task /\ page'.busy = page.busy
        /\ page'.panels = page.panels /\ page'.docs = page.docs
        /\ page'.docsLoading = page.docsLoading
        /\ page'.exportLoading = FALSE
    BY <1>1, <1>2, <1>6 DEF PageType, SameSelection
  <2>2. page'.docsLoading # None =>
            UnderWay(calls', "documents", page.selected)
    BY <1>2, <1>3, <1>6, <2>1 DEF BusyOK
  <2> QED
    BY <1>1, <2>1, <2>2, FileStep
<1> QED
  BY <1>4, <1>5, <1>6 DEF DocumentsArrive, DocumentsFail, ExportEnds

-------------------------------------------------------------------------------
(* The task detail. *)

LEMMA SelectTaskInv ==
    ASSUME IInv, NEW t \in Task, SelectTask(t)
    PROVE  IInv'
<1> DEFINE kept == {c \in calls : c.kind # "detail"}
           waits == IF detail = None THEN None ELSE detail.repliesLoading
           new == Call("detail", t.of, t.n)
<1>1. Good(page, detail, calls) /\ page \in PageType /\ calls \subseteq Calls
      /\ detail \in DetailType \cup {None}
      /\ UNCHANGED <<url, mapping, inPlay>>
  BY DEF IInv, Good, SelectTask
<1>2. page.selected # None /\ ~page.workspaceLoading
  BY <1>1 DEF SelectTask, Shown, Good, SelectionOK
<1>3. page' = [page EXCEPT !.task = t]
  BY DEF SelectTask
<1>4. /\ page' \in PageType /\ SameSelection(page', page)
      /\ SameQuiet(page', page) /\ page'.task = t
  BY <1>1, <1>3 DEF PageType, SameSelection, SameQuiet
<1>5. kept \subseteq Calls
      /\ (\A c \in calls : c \in kept \/ c.kind \in {"detail", "replies"})
      /\ (\A c \in kept : c \in calls /\ c.kind # "detail")
  BY <1>1
<1>6. CASE /\ t.of = page.workspace
           /\ detail' = DetailOf(t, waits) /\ calls' = kept \cup {new}
  <2>1. waits \in Task \cup {None}
    BY <1>1 DEF DetailType
  <2>2. /\ detail' \in DetailType /\ detail'.task = t
        /\ detail'.comments = None /\ detail'.open = None
        /\ detail'.repliesLoading = waits
    BY <1>6, <2>1 DEF DetailOf, DetailType
  <2>3. new \in Calls /\ new.kind = "detail" /\ new.of = t.of /\ new.n = t.n
        /\ new.of # None
    BY CallType, KindNames, LocalPageAssumption DEF Task
  <2>4. [of |-> t.of, n |-> t.n] = t
    BY DEF Task
  <2>5. detail' # None
    BY <2>2, LocalPageAssumption
  <2>6. waits # None => UnderWay(kept, "replies", waits.of)
    <3>1. SUFFICES ASSUME waits # None PROVE UnderWay(kept, "replies", waits.of)
      OBVIOUS
    <3>2. UnderWay(calls, "replies", waits.of)
      BY <1>1, <3>1 DEF Good, DetailBusyOK
    <3> QED
      BY <3>2 DEF UnderWay
  <2> HIDE DEF kept, waits, new
  <2>7. DetailOK(page', detail', calls')
    BY <1>4, <1>5, <1>6, <2>2, <2>3, <2>4, <2>5 DEF DetailOK, SameSelection
  <2>8. DetailBusyOK(detail', calls')
    BY <1>6, <2>2, <2>3, <2>6 DEF DetailBusyOK, UnderWay
  <2>9. calls' \subseteq Calls
        /\ (\A c \in calls : c \in calls' \/ c.kind \in {"detail", "replies"})
        /\ (\A c \in calls' : c \in calls \/
               (c.kind \in {"detail", "replies"} /\ c.of # None))
    BY <1>5, <1>6, <2>3
  <2>10. Good(page', detail', calls')
    BY <1>1, <1>2, <1>4, <2>2, <2>7, <2>8, <2>9, DetailStep
  <2> QED
    BY <1>1, <1>4, <2>10, OnlyGood DEF SameSelection
<1>7. CASE detail' = None /\ calls' = {c \in kept : c.kind # "replies"}
  <2>1. calls' \subseteq Calls
        /\ (\A c \in calls : c \in calls' \/ c.kind \in {"detail", "replies"})
        /\ (\A c \in calls' : c \in calls
                              /\ c.kind \notin {"detail", "replies"})
    BY <1>1, <1>7
  <2>2. DetailOK(page', detail', calls') /\ DetailBusyOK(detail', calls')
    BY <1>7, <2>1 DEF DetailOK, DetailBusyOK
  <2>3. Good(page', detail', calls')
    BY <1>1, <1>2, <1>4, <1>7, <2>1, <2>2, DetailStep
  <2> QED
    BY <1>1, <1>4, <2>3, OnlyGood DEF SameSelection
<1> QED
  BY <1>6, <1>7 DEF SelectTask

\* The other steps leave the page alone and the task shown.
LEMMA DetailOnly ==
    ASSUME IInv, detail # None, detail' \in DetailType,
           UNCHANGED <<page, url, mapping, inPlay>>,
           detail'.task = detail.task,
           detail'.comments \in {None, detail.task},
           detail'.open \in {None, detail.task},
           calls' \subseteq Calls,
           \A c \in calls : c \in calls' \/ c.kind \in {"detail", "replies"},
           \A c \in calls' : c \in calls \/
                             (c.kind = "replies" /\ c.of # None),
           DetailBusyOK(detail', calls')
    PROVE  IInv'
<1>1. Good(page, detail, calls) /\ page \in PageType
  BY DEF IInv, Good
<1>2. page.selected # None /\ ~page.workspaceLoading
  BY <1>1 DEF Good, SelectionOK, WorkspaceOK
<1>3. SameSelection(page', page) /\ SameQuiet(page', page)
  BY DEF SameSelection, SameQuiet
<1>4. detail' # None
  BY LocalPageAssumption
<1>5. DetailOK(page', detail', calls')
  BY <1>1, <1>4 DEF Good, DetailOK
<1>6. Good(page', detail', calls')
  BY <1>1, <1>2, <1>3, <1>5, DetailStep
<1> QED
  BY <1>6, OnlyGood

LEMMA DetailAnsweredInv ==
    ASSUME IInv, NEW c \in calls,
           \/ DetailArrives(c) \/ DetailFails(c)
           \/ RepliesArrive(c) \/ RepliesFail(c)
    PROVE  IInv'
<1> DEFINE item == [of |-> c.of, n |-> c.n]
<1>1. /\ Good(page, detail, calls) /\ c.kind \in {"detail", "replies"}
      /\ calls' = calls \ {c} /\ UNCHANGED <<page, url, mapping, inPlay>>
      /\ c \in Calls
  BY DEF IInv, Good, DetailArrives, DetailFails, RepliesArrive, RepliesFail
<1>2. detail # None /\ detail \in DetailType
  BY <1>1 DEF Good, DetailOK
<1>3. item \in Task
  BY <1>1, KindNames DEF Good, SelectionOK, Calls, Task
<1>4. c.kind = "detail" => item = detail.task
  BY <1>1 DEF Good, DetailOK
<1>5. detail.comments \in {None, detail.task} /\ detail.open \in {None, detail.task}
  BY <1>1, <1>2 DEF Good, DetailOK
<1>6. /\ detail.loading => UnderWay(calls, "detail", detail.task.of)
      /\ detail.repliesLoading # None =>
             UnderWay(calls, "replies", detail.repliesLoading.of)
  BY <1>1, <1>2 DEF Good, DetailBusyOK
<1>7. ASSUME NEW kind, NEW x, UnderWay(calls, kind, x), kind # c.kind
      PROVE  UnderWay(calls', kind, x)
  BY <1>1, <1>7 DEF UnderWay
<1>8. calls' \subseteq Calls
      /\ (\A x \in calls : x \in calls' \/ x.kind \in {"detail", "replies"})
      /\ calls' \subseteq calls
  BY <1>1 DEF Good
<1> HIDE DEF item
<1>9. CASE DetailArrives(c) \/ DetailFails(c)
  <2>1. c.kind = "detail"
        /\ \/ detail' = [detail EXCEPT !.comments = item, !.loading = FALSE]
           \/ detail' = [detail EXCEPT !.error = TRUE, !.loading = FALSE]
    BY <1>9 DEF DetailArrives, DetailFails, item
  <2>2. /\ detail' \in DetailType /\ detail'.task = detail.task
        /\ detail'.comments \in {detail.comments, item}
        /\ detail'.open = detail.open /\ detail'.loading = FALSE
        /\ detail'.repliesLoading = detail.repliesLoading
    <3>1. CASE detail' = [detail EXCEPT !.comments = item, !.loading = FALSE]
      BY <1>2, <1>3, <3>1 DEF DetailType
    <3>2. CASE detail' = [detail EXCEPT !.error = TRUE, !.loading = FALSE]
      BY <1>2, <3>2 DEF DetailType
    <3> QED
      BY <2>1, <3>1, <3>2
  <2>3. DetailBusyOK(detail', calls')
    BY <1>6, <1>7, <2>1, <2>2 DEF DetailBusyOK
  <2> QED
    BY <1>1, <1>2, <1>4, <1>5, <1>8, <2>1, <2>2, <2>3, DetailOnly
<1>10. CASE RepliesArrive(c) \/ RepliesFail(c)
  <2> DEFINE all == detail.replies \cup {item}
  <2>1. c.kind = "replies"
        /\ \/ detail' = [detail EXCEPT !.replies = all, !.repliesLoading = None]
           \/ detail' = [detail EXCEPT !.error = TRUE, !.repliesLoading = None]
    BY <1>10 DEF RepliesArrive, RepliesFail, item
  <2>2. all \in SUBSET Task
    BY <1>2, <1>3 DEF DetailType
  <2> HIDE DEF all
  <2>3. /\ detail' \in DetailType /\ detail'.task = detail.task
        /\ detail'.comments = detail.comments
        /\ detail'.open = detail.open /\ detail'.loading = detail.loading
        /\ detail'.repliesLoading = None
    <3>1. CASE detail' = [detail EXCEPT !.replies = all, !.repliesLoading = None]
      BY <1>2, <2>2, <3>1 DEF DetailType
    <3>2. CASE detail' = [detail EXCEPT !.error = TRUE, !.repliesLoading = None]
      BY <1>2, <3>2 DEF DetailType
    <3> QED
      BY <2>1, <3>1, <3>2
  <2>4. DetailBusyOK(detail', calls')
    BY <1>6, <1>7, <2>1, <2>3 DEF DetailBusyOK
  <2> QED
    BY <1>1, <1>2, <1>5, <1>8, <2>3, <2>4, DetailOnly
<1> QED
  BY <1>9, <1>10

LEMMA ToggleRepliesInv ==
    ASSUME IInv, ToggleReplies
    PROVE  IInv'
<1>1. /\ Good(page, detail, calls) /\ calls \subseteq Calls
      /\ detail # None /\ detail \in DetailType /\ detail.comments # None
      /\ UNCHANGED <<page, url, mapping, inPlay>>
  BY DEF IInv, Good, ToggleReplies
<1>2. detail.comments = detail.task /\ detail.task \in Task
      /\ detail.comments.of # None
  BY <1>1, LocalPageAssumption DEF Good, DetailOK, DetailType, Task
<1>3. DetailBusyOK(detail, calls) /\ detail.open \in {None, detail.task}
  BY <1>1 DEF Good, DetailOK
<1>4. CASE /\ calls' = calls
           /\ \/ detail' = [detail EXCEPT !.open = None]
              \/ detail' = [detail EXCEPT !.open = detail.comments]
  <2>1. /\ detail' \in DetailType /\ detail'.task = detail.task
        /\ detail'.comments = detail.comments
        /\ detail'.open \in {None, detail.task}
        /\ detail'.loading = detail.loading
        /\ detail'.repliesLoading = detail.repliesLoading
    BY <1>1, <1>2, <1>4 DEF DetailType
  <2>2. DetailBusyOK(detail', calls')
    BY <1>1, <1>3, <1>4, <2>1 DEF DetailBusyOK
  <2> QED
    BY <1>1, <1>2, <1>4, <2>1, <2>2, DetailOnly
<1>5. CASE /\ detail' = [detail EXCEPT !.open = detail.comments,
                                       !.repliesLoading = detail.comments]
           /\ calls' = With(calls, Call("replies", detail.comments.of,
                                        detail.comments.n))
  <2> DEFINE new == Call("replies", detail.comments.of, detail.comments.n)
  <2>1. /\ detail' \in DetailType /\ detail'.task = detail.task
        /\ detail'.comments = detail.comments
        /\ detail'.open = detail.task
        /\ detail'.loading = detail.loading
        /\ detail'.repliesLoading = detail.comments
    BY <1>1, <1>2, <1>5 DEF DetailType
  <2>2. new \in Calls /\ new.kind = "replies" /\ new.of = detail.comments.of
    BY <1>2, CallType, KindNames DEF Task
  <2>3. calls' = With(calls, new)
    BY <1>5
  <2> HIDE DEF new
  <2>4. /\ calls' \subseteq Calls /\ calls \subseteq calls'
        /\ UnderWay(calls', "replies", detail.comments.of)
        /\ \A c \in calls' : c \in calls \/ (c.kind = "replies" /\ c.of # None)
    BY <1>1, <1>2, <2>2, <2>3, WithAdds
  <2>5. DetailBusyOK(detail', calls')
    BY <1>1, <1>3, <2>1, <2>4 DEF DetailBusyOK, UnderWay
  <2> QED
    BY <1>1, <1>2, <2>1, <2>4, <2>5, DetailOnly
<1> QED
  BY <1>4, <1>5 DEF ToggleReplies, Send

-------------------------------------------------------------------------------

LEMMA NextInv == IInv /\ [Next]_vars => IInv'
<1> SUFFICES ASSUME IInv, [Next]_vars PROVE IInv'
  OBVIOUS
<1>1. CASE User
  <2>1. ASSUME NEW p \in Listed, ChooseProject(p) PROVE IInv'
    BY <2>1, ChooseProjectInv
  <2>2. CASE ClearProject
    BY <2>2, ClearProjectInv
  <2>3. ASSUME NEW u \in inPlay.links, Navigate(u) PROVE IInv'
    BY <2>3, NavigateInv
  <2>4. ASSUME NEW s \in Sheets, OpenSheet(s) PROVE IInv'
    BY <2>4, OpenSheetInv
  <2>5. ASSUME NEW k \in Panels, NEW n \in Pages, PressPanel(k, n) PROVE IInv'
    BY <2>5, PressPanelInv
  <2>6. ASSUME NEW k \in Panels, HidePanel(k) PROVE IInv'
    BY <2>6, HidePanelInv
  <2>7. CASE PressExport \/ \E n \in Pages : PressDocuments(n)
    BY <2>7, PressFileInv
  <2>8. ASSUME NEW t \in Task, SelectTask(t) PROVE IInv'
    BY <2>8, SelectTaskInv
  <2>9. CASE ToggleReplies
    BY <2>9, ToggleRepliesInv
  <2> QED
    BY <1>1, <2>1, <2>2, <2>3, <2>4, <2>5, <2>6, <2>7, <2>8, <2>9 DEF User
<1>2. ASSUME NEW c \in calls, Answer(c) PROVE IInv'
  <2>1. CASE ListArrives(c)
    BY <2>1, ListArrivesInv
  <2>2. CASE ListFails(c)
    BY <2>2, ListFailsInv
  <2>3. CASE WorkspaceArrives(c) \/ WorkspaceFails(c)
    BY <2>3, WorkspaceInv
  <2>4. CASE PanelArrives(c)
    BY <2>4, PanelArrivesInv
  <2>5. CASE PanelFails(c)
    BY <2>5, PanelFailsInv
  <2>6. CASE \/ DocumentsArrive(c) \/ DocumentsFail(c)
             \/ \E failed \in BOOLEAN : ExportEnds(c, failed)
    BY <2>6, FileEndsInv
  <2>7. CASE \/ DetailArrives(c) \/ DetailFails(c)
             \/ RepliesArrive(c) \/ RepliesFail(c)
    BY <2>7, DetailAnsweredInv
  <2> QED
    BY <1>2, <2>1, <2>2, <2>3, <2>4, <2>5, <2>6, <2>7 DEF Answer
<1>3. CASE UNCHANGED vars
  BY <1>3 DEF vars, IInv, NeverInferred
<1> QED
  BY <1>1, <1>2, <1>3 DEF Next

\* The inductive invariant holds in every behaviour: whatever is shown, loading or
\* under way is in order, through links, choices and late answers.
THEOREM Invariance == Spec => []IInv
BY InitInv, NextInv, PTL DEF Spec

\* The variables keep their types, through every selection and answer.
THEOREM TypeCorrect == Spec => []TypeOK
<1>1. IInv => TypeOK
  BY DEF IInv, Good, TypeOK
<1> QED
  BY <1>1, Invariance, PTL

\* Every panel, document and comment shown belongs to the project and the
\* task selected, for any projects and number of fetches under way.
THEOREM PanelsAreOfSelected == Spec => []PanelsOfSelected
<1>1. IInv => PanelsOfSelected
  BY DEF IInv, Good, PanelsOK, DetailOK, PanelsOfSelected
<1> QED
  BY <1>1, Invariance, PTL

\* A workspace of another project is in view only beside an error.
THEOREM WorkspaceIsOfSelected == Spec => []WorkspaceOfSelected
<1>1. IInv => WorkspaceOfSelected
  BY DEF IInv, Good, WorkspaceOK, WorkspaceOfSelected, Shown
<1> QED
  BY <1>1, Invariance, PTL

\* No loading flag is left without a fetch that will clear it.
THEOREM LoadingIsUnderWay == Spec => []LoadingHasACall
<1>1. IInv => LoadingHasACall
  BY DEF IInv, Good, BusyOK, DetailBusyOK, UnderWay, LoadingHasACall
<1> QED
  BY <1>1, Invariance, PTL

\* In the context of a TFS project only the project its user confirmed is
\* ever selected, whatever links, lists and mappings there are.
THEOREM NothingIsInferred == Spec => []NeverInferred
<1>1. IInv => NeverInferred
  BY DEF IInv
<1> QED
  BY <1>1, Invariance, PTL

-------------------------------------------------------------------------------
(* PM Flow: its steps, one by one. *)

\* The steps of PM Flow, one by one.
LEMMA FlowSteps ==
    ASSUME NEW w, NEW b
    PROVE  /\ DOMAIN Flow(w, b) = {"charter", "wbs", "schedule", "dashboard"} \cup PmbokSteps
           /\ Flow(w, b)["charter"] = Charter(w, b)
           /\ Flow(w, b)["wbs"] = Wbs(w)
           /\ Flow(w, b)["schedule"] = Schedule(w)
           /\ Flow(w, b)["dashboard"] = Step("auto", "auto", AverageProgress(w))
           /\ b = Null => \A k \in PmbokSteps : Flow(w, b)[k] = Unavailable
           /\ b # Null =>
                /\ Flow(w, b)["stakeholder"] = Stakeholder(b)
                /\ Flow(w, b)["resource"] = Resource(b)
                /\ Flow(w, b)["cost"] = Cost(w, b)
                /\ Flow(w, b)["risk"] = Risk(b)
                /\ Flow(w, b)["quality"] = Quality(b)
                /\ Flow(w, b)["change_log"] = ChangeLog(b)
                /\ Flow(w, b)["communication"] = Communication(b)
<1> DEFINE ofProject == [charter   |-> Charter(w, b), wbs |-> Wbs(w),
                         schedule  |-> Schedule(w),
                         dashboard |-> Step("auto", "auto", AverageProgress(w))]
           ofTables == IF b = Null THEN Unread
                       ELSE [stakeholder   |-> Stakeholder(b), resource   |-> Resource(b),
                             cost          |-> Cost(w, b),     risk       |-> Risk(b),
                             quality       |-> Quality(b),     change_log |-> ChangeLog(b),
                             communication |-> Communication(b)]
<1>1. DOMAIN ofProject = {"charter", "wbs", "schedule", "dashboard"}
  OBVIOUS
<1>2. Flow(w, b) = [k \in DOMAIN ofProject \cup PmbokSteps |->
                      IF k \in PmbokSteps THEN ofTables[k] ELSE ofProject[k]]
  BY DEF Flow
<1>3. \A k \in {"charter", "wbs", "schedule", "dashboard"} : k \notin PmbokSteps
  BY DEF PmbokSteps
<1>4. \A k \in {"charter", "wbs", "schedule", "dashboard"} : Flow(w, b)[k] = ofProject[k]
  <2> HIDE DEF ofProject, ofTables
  <2> QED
    BY <1>1, <1>2, <1>3
<1>5. \A k \in PmbokSteps : Flow(w, b)[k] = ofTables[k]
  <2> HIDE DEF ofProject, ofTables
  <2> QED
    BY <1>1, <1>2, <1>3
<1>6. DOMAIN Flow(w, b) = DOMAIN ofProject \cup PmbokSteps
  <2> HIDE DEF ofProject, ofTables
  <2> QED
    BY <1>2
<1>7. b = Null => \A k \in PmbokSteps : Flow(w, b)[k] = Unavailable
  <2>1. b = Null => ofTables = [k \in PmbokSteps |-> Unavailable]
    BY DEF Unread
  <2> HIDE DEF ofTables
  <2> QED
    BY <1>5, <2>1
<1>8. ASSUME b # Null
      PROVE  /\ Flow(w, b)["stakeholder"] = Stakeholder(b)
             /\ Flow(w, b)["resource"] = Resource(b)
             /\ Flow(w, b)["cost"] = Cost(w, b)
             /\ Flow(w, b)["risk"] = Risk(b)
             /\ Flow(w, b)["quality"] = Quality(b)
             /\ Flow(w, b)["change_log"] = ChangeLog(b)
             /\ Flow(w, b)["communication"] = Communication(b)
  <2>1. /\ ofTables["stakeholder"] = Stakeholder(b)
        /\ ofTables["resource"] = Resource(b)
        /\ ofTables["cost"] = Cost(w, b)
        /\ ofTables["risk"] = Risk(b)
        /\ ofTables["quality"] = Quality(b)
        /\ ofTables["change_log"] = ChangeLog(b)
        /\ ofTables["communication"] = Communication(b)
    BY <1>8
  <2> HIDE DEF ofTables
  <2> QED
    BY <1>5, <2>1 DEF PmbokSteps
<1> QED
  BY <1>1, <1>4, <1>6, <1>7, <1>8

\* The three cases of the WBS step.
LEMMA WbsIs ==
    ASSUME NEW w
    PROVE  /\ ~w.hasSource => Wbs(w) = Unavailable
           /\ w.hasSource /\ DOMAIN w.tasks = {} => Wbs(w) = Step("setup", "todo", 0)
           /\ w.hasSource /\ DOMAIN w.tasks # {} =>
                Wbs(w) = Step("setup", "progress", Percent(Cardinality(Scheduled(w)),
                                                           Cardinality(DOMAIN w.tasks)))
<1> DEFINE h == w.hasSource
           rows == DOMAIN w.tasks
           p == Step("setup", "progress", Percent(Cardinality(Scheduled(w)),
                                                  Cardinality(rows)))
           q == Step("setup", "todo", 0)
<1>1. Wbs(w) = CASE ~h -> Unavailable
                 [] h /\ rows = {} -> q
                 [] OTHER -> p
  BY DEF Wbs
<1> HIDE DEF h, rows, p, q
<1>2. /\ ~h => Wbs(w) = Unavailable
      /\ h /\ rows = {} => Wbs(w) = q
      /\ h /\ rows # {} => Wbs(w) = p
  BY <1>1
<1> QED
  BY <1>2 DEF h, rows, p, q

\* A nonempty set of naturals has a least element: the form in which the proofs
\* below use induction.
LEMMA LeastNat ==
    ASSUME NEW T \in SUBSET Nat, T # {}
    PROVE  \E x \in T : \A y \in T : x <= y
  <1>1. PICK x \in T : \A y \in T : ~ (<<y, x>> \in OpToRel(<, Nat))
    BY NatLessThanWellFounded, WFMin
  <1>2. OpToRel(<, Nat) = {ss \in Nat \X Nat : ss[1] < ss[2]}
    BY Zenon DEF OpToRel
  <1>3. \A y \in T : ~ (<<y, x>> \in {ss \in Nat \X Nat : ss[1] < ss[2]})
    BY <1>1, <1>2, Zenon
  <1>4. ASSUME NEW y \in T, y < x PROVE FALSE
    <2>1. <<y, x>> \in Nat \X Nat /\ <<y, x>>[1] < <<y, x>>[2]
      BY <1>4
    <2> QED
      BY <1>3, <2>1
  <1> QED
    BY <1>4

\* What a function takes a finite set to is finite.
LEMMA FiniteImage ==
    ASSUME NEW S, IsFiniteSet(S), NEW f
    PROVE  IsFiniteSet({f[x] : x \in S})
<1> DEFINE T == {f[x] : x \in S}
           g == [x \in S |-> f[x]]
<1>1. g \in Surjection(S, T)
  BY DEF Surjection
<1> HIDE DEF g, T
<1>2. IsFiniteSet(T)
  BY <1>1, FS_Surjection
<1> QED
  BY <1>2 DEF T

\* A finite set of integers has a least element, too.
LEMMA LeastInt ==
    ASSUME NEW S \in SUBSET Int, IsFiniteSet(S), S # {}
    PROVE  \E x \in S : \A y \in S : x <= y
<1> DEFINE Bad == {T \in SUBSET Int : /\ IsFiniteSet(T) /\ T # {}
                                      /\ ~ \E x \in T : \A y \in T : x <= y}
           D == {Cardinality(T) : T \in Bad}
<1>1. Bad = {}
  <2> SUFFICES ASSUME Bad # {} PROVE FALSE
    OBVIOUS
  <2>1. D \in SUBSET Nat /\ D # {}
    BY FS_CardinalityType
  <2>2. PICK n \in D : \A m \in D : n <= m
    <3> HIDE DEF D
    <3> QED
      BY <2>1, LeastNat
  <2>3. PICK T \in Bad : n = Cardinality(T)
    OBVIOUS
  <2>4. /\ T \in SUBSET Int /\ IsFiniteSet(T) /\ T # {}
        /\ ~ \E x \in T : \A y \in T : x <= y
    BY <2>3
  <2>5. PICK e \in T : e \in Int
    BY <2>4
  <2> DEFINE U == T \ {e}
  <2>6. IsFiniteSet(U) /\ Cardinality(U) = Cardinality(T) - 1
    BY <2>4, <2>5, FS_RemoveElement
  <2>7. U # {}
    <3>1. ASSUME U = {} PROVE FALSE
      <4>1. \A y \in T : e <= y
        BY <2>5, <3>1
      <4> QED
        BY <2>4, <4>1
    <3> QED
      BY <3>1
  <2>8. PICK x \in U : \A y \in U : x <= y
    <3>1. ASSUME U \in Bad PROVE FALSE
      <4>1. Cardinality(U) \in D
        BY <3>1
      <4>2. n \in Nat /\ Cardinality(U) = n - 1 /\ n <= Cardinality(U)
        BY <2>1, <2>2, <2>3, <2>6, <4>1
      <4> QED
        BY <4>2
    <3>2. U \in SUBSET Int
      BY <2>4
    <3> QED
      BY <2>6, <2>7, <3>1, <3>2
  <2>9. x \in T /\ x \in Int /\ \A y \in T : y \in Int /\ (y = e \/ x <= y)
    BY <2>4, <2>8
  <2>10. CASE x <= e
    <3>1. \A y \in T : x <= y
      BY <2>9, <2>10
    <3> QED
      BY <2>4, <2>9, <3>1
  <2>11. CASE ~(x <= e)
    <3>1. \A y \in T : e <= y
      BY <2>5, <2>9, <2>11
    <3> QED
      BY <2>4, <3>1
  <2> QED
    BY <2>10, <2>11
<1> QED
  BY <1>1

\* Min and Max of a finite set of integers.
LEMMA MinInt ==
    ASSUME NEW S \in SUBSET Int, IsFiniteSet(S), S # {}
    PROVE  Min(S) \in S /\ \A y \in S : Min(S) <= y
  BY LeastInt DEF Min

LEMMA MaxInt ==
    ASSUME NEW S \in SUBSET Int, IsFiniteSet(S), S # {}
    PROVE  Max(S) \in S /\ \A y \in S : y <= Max(S)
<1> DEFINE N == {- y : y \in S}
<1>1. N \in SUBSET Int /\ N # {}
  <2>1. \A y \in S : - y \in Int
    OBVIOUS
  <2> QED
    BY <2>1
<1>2. IsFiniteSet(N)
  <2> DEFINE f == [y \in S |-> - y]
  <2>1. N = {f[y] : y \in S}
    OBVIOUS
  <2>2. IsFiniteSet({f[y] : y \in S})
    <3> HIDE DEF f
    <3> QED
      BY FiniteImage
  <2> QED
    BY <2>1, <2>2, Zenon
<1>3. PICK m \in N : \A y \in N : m <= y
  <2> HIDE DEF N
  <2> QED
    BY <1>1, <1>2, LeastInt
<1>4. PICK x \in S : m = - x
  OBVIOUS
<1>5. \A y \in S : x >= y
  <2> TAKE y \in S
  <2>1. m <= - y
    BY <1>3
  <2> QED
    BY <1>4, <2>1
<1>6. Max(S) \in S /\ \A y \in S : Max(S) >= y
  BY <1>4, <1>5 DEF Max
<1> QED
  BY <1>6

\* The larger of two integers.
LEMMA MaxOfTwo ==
    ASSUME NEW x \in Int, NEW y \in Int
    PROVE  Max({x, y}) = IF x <= y THEN y ELSE x
<1>1. \E z \in {x, y} : \A v \in {x, y} : z >= v
  OBVIOUS
<1>2. Max({x, y}) \in {x, y} /\ \A v \in {x, y} : Max({x, y}) >= v
  BY <1>1 DEF Max
<1> QED
  BY <1>2

\* The smaller.
LEMMA MinOfTwo ==
    ASSUME NEW x \in Int, NEW y \in Int
    PROVE  Min({x, y}) = IF x <= y THEN x ELSE y
<1>1. \E z \in {x, y} : \A v \in {x, y} : z <= v
  OBVIOUS
<1>2. Min({x, y}) \in {x, y} /\ \A v \in {x, y} : Min({x, y}) <= v
  BY <1>1 DEF Min
<1> QED
  BY <1>2

-------------------------------------------------------------------------------
(* The Gantt chart. *)

\* The first and the last day of the chart, seen from its tasks.
LEMMA TimelineIs ==
    ASSUME NEW w, IsWorkspace(w), NEW now \in Int
    PROVE  LET line == Timeline(w.tasks, now)
           IN  /\ line.min \in Int /\ line.max \in Int
               /\ (\E t \in DOMAIN w.tasks : w.tasks[t].start # Null) =>
                    \E a \in Int : /\ line.min = 4 * a - 28
                                   /\ \A t \in DOMAIN w.tasks :
                                        w.tasks[t].start # Null => a <= w.tasks[t].start
               /\ (\A t \in DOMAIN w.tasks : w.tasks[t].start = Null) =>
                    line.min = now - 28
               /\ (\E t \in DOMAIN w.tasks : w.tasks[t].end # Null) =>
                    \E b \in Int : /\ line.max = 4 * b + 56
                                   /\ \A t \in DOMAIN w.tasks :
                                        w.tasks[t].end # Null => w.tasks[t].end <= b
<1> DEFINE ts == w.tasks
           starts == {ts[t].start : t \in DOMAIN ts} \ {Null}
           ends == {ts[t].end : t \in DOMAIN ts} \ {Null}
           min == AddDays(IF starts # {} THEN 4 * Min(starts) ELSE now, -7)
           max == AddDays(IF ends # {} THEN 4 * Max(ends) ELSE now, 14)
<1>1. IsFiniteSet(DOMAIN ts)
      /\ \A t \in DOMAIN ts : ts[t].start \in Int \cup {Null} /\ ts[t].end \in Int \cup {Null}
  BY DEF IsWorkspace
<1>2. starts \in SUBSET Int /\ ends \in SUBSET Int
  <2> HIDE DEF ts
  <2> QED
    BY <1>1
<1>3. IsFiniteSet(starts) /\ IsFiniteSet(ends)
  <2> HIDE DEF ts
  <2>1. IsFiniteSet({ts[t].start : t \in DOMAIN ts}) /\ IsFiniteSet({ts[t].end : t \in DOMAIN ts})
    <3> DEFINE f == [t \in DOMAIN ts |-> ts[t].start]
               g == [t \in DOMAIN ts |-> ts[t].end]
    <3>1. /\ {ts[t].start : t \in DOMAIN ts} = {f[t] : t \in DOMAIN ts}
          /\ {ts[t].end : t \in DOMAIN ts} = {g[t] : t \in DOMAIN ts}
      OBVIOUS
    <3>2. IsFiniteSet({f[t] : t \in DOMAIN ts}) /\ IsFiniteSet({g[t] : t \in DOMAIN ts})
      <4> HIDE DEF f, g
      <4> QED
        BY <1>1, FiniteImage
    <3> QED
      BY <3>1, <3>2, Zenon
  <2>2. starts \subseteq {ts[t].start : t \in DOMAIN ts} /\ ends \subseteq {ts[t].end : t \in DOMAIN ts}
    OBVIOUS
  <2> QED
    BY <2>1, <2>2, FS_Subset
<1>4. Timeline(ts, now) = [min |-> min, max |-> max]
  BY Zenon DEF Timeline
<1>5. /\ \A t \in DOMAIN ts : (ts[t].start # Null => ts[t].start \in starts)
                           /\ (ts[t].end # Null => ts[t].end \in ends)
      /\ (\A t \in DOMAIN ts : ts[t].start = Null) => starts = {}
  OBVIOUS
<1>6. ASSUME starts # {}
      PROVE  /\ Min(starts) \in Int /\ min = 4 * Min(starts) - 28
             /\ \A s \in starts : Min(starts) <= s
  <2>1. Min(starts) \in starts /\ \A s \in starts : Min(starts) <= s
    <3> HIDE DEF starts
    <3> QED
      BY <1>2, <1>3, <1>6, MinInt
  <2>2. min = AddDays(4 * Min(starts), -7)
    BY <1>6
  <2> HIDE DEF starts, min
  <2>3. Min(starts) \in Int
    BY <1>2, <2>1
  <2> QED
    BY <2>1, <2>2, <2>3 DEF AddDays
<1>7. ASSUME ends # {}
      PROVE  /\ Max(ends) \in Int /\ max = 4 * Max(ends) + 56
             /\ \A s \in ends : s <= Max(ends)
  <2>1. Max(ends) \in ends /\ \A s \in ends : s <= Max(ends)
    <3> HIDE DEF ends
    <3> QED
      BY <1>2, <1>3, <1>7, MaxInt
  <2>2. max = AddDays(4 * Max(ends), 14)
    BY <1>7
  <2> HIDE DEF ends, max
  <2>3. Max(ends) \in Int
    BY <1>2, <2>1
  <2> QED
    BY <2>1, <2>2, <2>3 DEF AddDays
<1>8. min \in Int /\ max \in Int /\ (starts = {} => min = now - 28)
  <2>1. starts = {} => min = now - 28
    BY DEF AddDays
  <2>2. ends = {} => max = now + 56
    BY DEF AddDays
  <2> HIDE DEF starts, ends, min, max
  <2> QED
    BY <1>6, <1>7, <2>1, <2>2
<1> HIDE DEF starts, ends, min, max
<1> QED
  BY <1>4, <1>5, <1>6, <1>7, <1>8

\* Where the bar of a task is that does not end before it starts.
LEMMA BarIs ==
    ASSUME NEW ts, NEW t \in DOMAIN ts, NEW line, NEW a \in Int,
           line.min = 4 * a - 28, ts[t].start \in Int, ts[t].end \in Int,
           a <= ts[t].start, ts[t].start <= ts[t].end
    PROVE  LET bar == Bar(ts, line, t)
           IN  /\ bar.left \in Int /\ bar.width \in Nat
               /\ 0 <= bar.left
               /\ bar.left + bar.width + 4 <= 28 * (ts[t].end - a + 8)
<1> DEFINE s == ts[t].start
           e == ts[t].end
           duration == (1 + DiffDays(4 * s, 4 * e)) * CELL_WIDTH
           left == DiffDays(line.min, 4 * s) * CELL_WIDTH
<1>1. DiffDays(4 * s, 4 * e) = e - s
  <2> HIDE DEF s, e
  <2>1. s \in Int /\ e \in Int /\ s <= e
    BY DEF s, e
  <2> QED
    BY <2>1 DEF DiffDays
<1>2. DiffDays(line.min, 4 * s) = s - a + 7
  <2> HIDE DEF s
  <2>1. s \in Int /\ a <= s
    BY DEF s
  <2> QED
    BY <2>1 DEF DiffDays
<1>3. Bar(ts, line, t) = IF ts[t].milestone
                         THEN [left |-> left + duration \div 2 - 9, width |-> 18]
                         ELSE [left |-> left, width |-> Max({18, duration - 4})]
  BY Zenon DEF Bar
<1>4. duration = 28 * (1 + e - s) /\ left = 28 * (s - a + 7)
  BY <1>1, <1>2 DEF CELL_WIDTH
<1> HIDE DEF duration, left
<1>5. duration \in Int /\ duration >= 28 /\ left \in Int /\ left >= 196
      /\ left + duration = 28 * (e - a + 8)
  BY <1>4
<1>6. Max({18, duration - 4}) = duration - 4
  BY <1>5, MaxOfTwo
<1>7. duration \div 2 \in Int /\ 2 * (duration \div 2) <= duration /\ duration \div 2 >= 14
  BY <1>5
<1>8. CASE ts[t].milestone
  <2>1. Bar(ts, line, t).left = left + duration \div 2 - 9 /\ Bar(ts, line, t).width = 18
    BY <1>3, <1>8
  <2> QED
    BY <1>5, <1>7, <2>1
<1>9. CASE ~ts[t].milestone
  <2>1. Bar(ts, line, t).left = left /\ Bar(ts, line, t).width = duration - 4
    BY <1>3, <1>6, <1>9
  <2> QED
    BY <1>5, <2>1
<1> QED
  BY <1>8, <1>9

\* Any workspace is drawn in scale.
LEMMA InScale ==
    ASSUME ViewAssumption, IsWorkspace(workspace)
    PROVE  ChartIsInScale
<1> SUFFICES ASSUME NEW now \in Moments
             PROVE  LET line   == Timeline(tasks, now)
                        today  == TodayLeft(line, now)
                        inTime == {t \in DOMAIN tasks : HasBar(tasks, t)
                                             /\ tasks[t].start <= tasks[t].end}
                    IN  /\ \A t \in inTime :
                              LET bar == Bar(tasks, line, t)
                              IN  0 <= bar.left /\ bar.left + bar.width <= Width(line)
                        /\ \A s, t \in inTime : Elbow(tasks, line, s, t) <= Width(line)
                        /\ \/ today = Null
                           \/ DayOfCell(line, today \div CELL_WIDTH) = now \div 4
                           \/ now % 4 = 3 /\ \A t \in DOMAIN tasks : tasks[t].start = Null
  BY DEF ChartIsInScale
<1> DEFINE line == Timeline(tasks, now)
           today == TodayLeft(line, now)
           inTime == {t \in DOMAIN tasks : HasBar(tasks, t)
                                /\ tasks[t].start <= tasks[t].end}
<1>1. now \in Int /\ Null \notin Int
  BY DEF ViewAssumption
<1>2. \A t \in DOMAIN tasks : tasks[t].start \in Int \cup {Null} /\ tasks[t].end \in Int \cup {Null}
  BY DEF IsWorkspace, tasks
<1>3. /\ line.min \in Int /\ line.max \in Int
      /\ (\E t \in DOMAIN tasks : tasks[t].start # Null) =>
           \E a \in Int : /\ line.min = 4 * a - 28
                          /\ \A t \in DOMAIN tasks :
                               tasks[t].start # Null => a <= tasks[t].start
      /\ (\A t \in DOMAIN tasks : tasks[t].start = Null) => line.min = now - 28
      /\ (\E t \in DOMAIN tasks : tasks[t].end # Null) =>
           \E b \in Int : /\ line.max = 4 * b + 56
                          /\ \A t \in DOMAIN tasks :
                               tasks[t].end # Null => tasks[t].end <= b
  BY <1>1, TimelineIs DEF tasks
<1> HIDE DEF line
<1>4. ASSUME NEW t \in inTime
      PROVE  /\ Bar(tasks, line, t).left \in Int /\ Bar(tasks, line, t).width \in Nat
             /\ 0 <= Bar(tasks, line, t).left
             /\ Bar(tasks, line, t).left + Bar(tasks, line, t).width + 7 <= Width(line)
             /\ Width(line) \in Int
  <2>1. /\ t \in DOMAIN tasks /\ tasks[t].start # Null /\ tasks[t].end # Null
        /\ tasks[t].start <= tasks[t].end
    BY DEF HasBar
  <2>2. PICK a \in Int : line.min = 4 * a - 28 /\ a <= tasks[t].start
    BY <1>3, <2>1
  <2>3. PICK b \in Int : line.max = 4 * b + 56 /\ tasks[t].end <= b
    BY <1>3, <2>1
  <2>4. tasks[t].start \in Int /\ tasks[t].end \in Int
    BY <1>2, <2>1
  <2>5. /\ Bar(tasks, line, t).left \in Int /\ Bar(tasks, line, t).width \in Nat
        /\ 0 <= Bar(tasks, line, t).left
        /\ Bar(tasks, line, t).left + Bar(tasks, line, t).width + 4
             <= 28 * (tasks[t].end - a + 8)
    <3> HIDE DEF inTime
    <3> QED
      BY <2>1, <2>2, <2>4, BarIs
  <2>6. DiffDays(line.min, line.max) = b - a + 21
    BY <2>1, <2>2, <2>3, <2>4 DEF DiffDays
  <2>7. Width(line) = 28 * (b - a + 22)
    BY <2>6 DEF Width, Days, CELL_WIDTH
  <2> QED
    BY <2>3, <2>4, <2>5, <2>7
<1> HIDE DEF inTime
<1>5. ASSUME NEW s \in inTime, NEW t \in inTime
      PROVE  Elbow(tasks, line, s, t) <= Width(line)
  <2> DEFINE x == Bar(tasks, line, s).left + Bar(tasks, line, s).width + 7
             y == Bar(tasks, line, t).left - 8
  <2>1. Elbow(tasks, line, s, t) = Max({x, y})
    BY DEF Elbow
  <2>2. x \in Int /\ y \in Int /\ x <= Width(line) /\ Width(line) \in Int
    BY <1>4
  <2>3. y <= Width(line)
    BY <1>4
  <2> HIDE DEF x, y
  <2> QED
    BY <2>1, <2>2, <2>3, MaxOfTwo
<1>6. ASSUME today # Null,
             now % 4 # 3 \/ \E t \in DOMAIN tasks : tasks[t].start # Null
      PROVE  DayOfCell(line, today \div CELL_WIDTH) = now \div 4
  <2> DEFINE d == now \div 4
  <2>1. d \in Int /\ 4 * d <= now /\ now <= 4 * d + 3 /\ (now % 4 # 3 => now <= 4 * d + 2)
    BY <1>1
  <2>2. line.min <= 4 * d /\ today = DiffDays(line.min, 4 * d) * CELL_WIDTH
    BY <1>6 DEF TodayLeft
  <2> HIDE DEF d, today
  <2>3. CASE \E t \in DOMAIN tasks : tasks[t].start # Null
    <3>1. PICK a \in Int : line.min = 4 * a - 28
      BY <1>3, <2>3
    <3>2. DiffDays(line.min, 4 * d) = d - a + 7
      BY <2>1, <2>2, <3>1 DEF DiffDays
    <3>3. today \div CELL_WIDTH = d - a + 7
      BY <2>1, <2>2, <3>2 DEF CELL_WIDTH
    <3> QED
      BY <2>1, <3>1, <3>3 DEF DayOfCell, AddDays, d
  <2>4. CASE \A t \in DOMAIN tasks : tasks[t].start = Null
    <3>1. line.min = now - 28 /\ now <= 4 * d + 2
      BY <1>3, <1>6, <2>1, <2>4
    <3>2. DiffDays(line.min, 4 * d) = 7
      BY <1>1, <2>1, <3>1 DEF DiffDays
    <3>3. today \div CELL_WIDTH = 7
      BY <2>2, <3>2 DEF CELL_WIDTH
    <3> QED
      BY <1>1, <3>1, <3>3 DEF DayOfCell, AddDays
  <2> QED
    BY <2>3, <2>4
<1> QED
  <2>1. \A t \in inTime : 0 <= Bar(tasks, line, t).left
                        /\ Bar(tasks, line, t).left + Bar(tasks, line, t).width <= Width(line)
    BY <1>4
  <2> QED
    BY <1>5, <1>6, <2>1 DEF line, today, inTime

-------------------------------------------------------------------------------
(* The numbers of PM Flow. *)

\* The sum over S of the percentages in p, as MapThenSumSet adds it up, set by set.
SumOver(S, p) ==
    LET iter[s \in SUBSET S] ==
          IF s = {} THEN 0
          ELSE LET x == CHOOSE y \in s : TRUE IN p[x].percent + iter[s \ {x}]
    IN  iter

\* It is defined: there is such a function on the subsets of every size, or there
\* is a least size without.
LEMMA SumDefined ==
    ASSUME NEW S, IsFiniteSet(S), NEW p
    PROVE  /\ SumOver(S, p)[{}] = 0
           /\ \A s \in SUBSET S : s # {} =>
                \E c \in s : SumOver(S, p)[s] = p[c].percent + SumOver(S, p)[s \ {c}]
<1> DEFINE First(s) == CHOOSE y \in s : TRUE
           Add(g, s) == IF s = {} THEN 0 ELSE p[First(s)].percent + g[s \ {First(s)}]
           Upto(n) == {s \in SUBSET S : Cardinality(s) <= n}
           Run(g, n) == g = [s \in Upto(n) |-> Add(g, s)]
           Without == {n \in Nat : ~ \E g : Run(g, n)}
<1>1. \A s \in SUBSET S : /\ Cardinality(s) \in Nat /\ Cardinality(s) <= Cardinality(S)
                          /\ s # {} => /\ s \ {First(s)} \in SUBSET S
                                       /\ Cardinality(s \ {First(s)}) = Cardinality(s) - 1
  <2> TAKE s \in SUBSET S
  <2>1. IsFiniteSet(s) /\ Cardinality(s) <= Cardinality(S) /\ Cardinality(s) \in Nat
    BY FS_Subset, FS_CardinalityType
  <2>2. ASSUME s # {}
        PROVE  s \ {First(s)} \in SUBSET S /\ Cardinality(s \ {First(s)}) = Cardinality(s) - 1
    <3>1. First(s) \in s
      BY <2>2
    <3> HIDE DEF First
    <3> QED
      BY <2>1, <3>1, FS_RemoveElement
  <2> QED
    BY <2>1, <2>2
<1>2. \A s \in SUBSET S : Cardinality(s) = 0 => s = {}
  <2> TAKE s \in SUBSET S
  <2> QED
    BY FS_Subset, FS_EmptySet
<1> HIDE DEF First
<1>3. Without = {}
  <2> SUFFICES ASSUME Without # {} PROVE FALSE
    OBVIOUS
  <2>1. PICK n \in Without : \A m \in Without : n <= m
    <3>1. Without \in SUBSET Nat
      OBVIOUS
    <3> HIDE DEF Without
    <3> QED
      BY <3>1, LeastNat
  <2>2. n \in Nat /\ ~ \E g : Run(g, n)
    OBVIOUS
  <2>3. n # 0
    <3> DEFINE g == [s \in Upto(0) |-> 0]
    <3>1. \A s \in Upto(0) : s = {}
      <4> TAKE s \in Upto(0)
      <4>1. s \in SUBSET S /\ Cardinality(s) \in Nat /\ Cardinality(s) <= 0
        BY <1>1
      <4> QED
        BY <1>2, <4>1
    <3>2. Run(g, 0)
      BY <3>1
    <3> QED
      BY <2>2, <3>2
  <2>4. n - 1 \in Nat /\ n - 1 \notin Without
    <3>1. n \in Nat
      BY <2>2
    <3> HIDE DEF Without
    <3> QED
      BY <2>1, <2>3, <3>1
  <2>5. PICK g : Run(g, n - 1)
    BY <2>4
  <2> DEFINE f == [s \in Upto(n) |-> Add(g, s)]
  <2>6. \A s \in Upto(n - 1) : s \in Upto(n) /\ f[s] = g[s]
    <3> TAKE s \in Upto(n - 1)
    <3>1. s \in Upto(n)
      <4>1. s \in SUBSET S /\ Cardinality(s) \in Nat /\ Cardinality(s) <= n - 1 /\ n \in Nat
        BY <1>1, <2>2
      <4> HIDE DEF Without
      <4> QED
        BY <4>1
    <3>2. g[s] = Add(g, s)
      BY <2>5
    <3> HIDE DEF Upto, Add
    <3> QED
      BY <3>1, <3>2
  <2>7. \A s \in Upto(n) : Add(g, s) = Add(f, s)
    <3> TAKE s \in Upto(n)
    <3>1. CASE s = {}
      BY <3>1
    <3>2. CASE s # {}
      <4>1. s \ {First(s)} \in Upto(n - 1)
        BY <1>1, <2>2, <3>2
      <4>2. f[s \ {First(s)}] = g[s \ {First(s)}]
        BY <2>6, <4>1
      <4> HIDE DEF f
      <4> QED
        BY <3>2, <4>2
    <3> QED
      BY <3>1, <3>2
  <2>8. Run(f, n)
    <3> HIDE DEF Upto, Add
    <3> QED
      BY <2>7
  <2> QED
    BY <2>2, <2>8
<1>4. Upto(Cardinality(S)) = SUBSET S
  BY <1>1
<1>5. \E g : Run(g, Cardinality(S))
  <2>1. Cardinality(S) \in Nat
    BY FS_CardinalityType
  <2> QED
    BY <1>3, <2>1
<1>6. \E g : g = [s \in SUBSET S |-> Add(g, s)]
  <2> HIDE DEF Upto, Add
  <2> QED
    BY <1>4, <1>5
<1>7. SumOver(S, p) = CHOOSE g : g = [s \in SUBSET S |-> Add(g, s)]
  BY DEF SumOver, First
<1>8. SumOver(S, p) = [s \in SUBSET S |-> Add(SumOver(S, p), s)]
  <2> HIDE DEF Add
  <2> QED
    BY <1>6, <1>7, Zenon
<1> DEFINE f == SumOver(S, p)
<1>9. \A s \in SUBSET S : f[s] = Add(f, s)
  <2> HIDE DEF Add, f
  <2>1. f = [s \in SUBSET S |-> Add(f, s)]
    BY <1>8 DEF f
  <2> QED
    BY <2>1
<1> HIDE DEF f
<1>10. f[{}] = 0
  BY <1>9
<1>11. ASSUME NEW s \in SUBSET S, s # {}
       PROVE  \E c \in s : f[s] = p[c].percent + f[s \ {c}]
  <2>1. First(s) \in s
    <3>1. \E y \in s : TRUE
      BY <1>11
    <3> QED
      BY <3>1, Zenon DEF First
  <2> QED
    BY <1>9, <1>11, <2>1
<1> QED
  BY <1>10, <1>11 DEF f

\* A sum of percentages falls short of the whole by as much as each of them does.
LEMMA SumBounds ==
    ASSUME NEW S, IsFiniteSet(S), NEW p, \A x \in S : p[x].percent \in Int /\ p[x].percent <= 100
    PROVE  /\ SumOver(S, p)[S] \in Int
           /\ \A x \in S : SumOver(S, p)[S] + (100 - p[x].percent) <= 100 * Cardinality(S)
<1> DEFINE f == SumOver(S, p)
           Summed(s) == /\ f[s] \in Int
                        /\ f[s] <= 100 * Cardinality(s)
                        /\ \A x \in s : f[s] + (100 - p[x].percent) <= 100 * Cardinality(s)
           Bad == {s \in SUBSET S : ~Summed(s)}
           D == {Cardinality(s) : s \in Bad}
<1>1. /\ f[{}] = 0
      /\ \A s \in SUBSET S : s # {} => \E c \in s : f[s] = p[c].percent + f[s \ {c}]
  BY SumDefined
<1> HIDE DEF f
<1>2. \A s \in SUBSET S : IsFiniteSet(s) /\ Cardinality(s) \in Nat
  BY FS_Subset, FS_CardinalityType
<1>3. Bad = {}
  <2> SUFFICES ASSUME Bad # {} PROVE FALSE
    OBVIOUS
  <2>1. D \in SUBSET Nat /\ D # {}
    BY <1>2
  <2>2. PICK n \in D : \A m \in D : n <= m
    <3> HIDE DEF D
    <3> QED
      BY <2>1, LeastNat
  <2>3. PICK s \in Bad : n = Cardinality(s)
    OBVIOUS
  <2>4. s \in SUBSET S /\ ~Summed(s) /\ IsFiniteSet(s) /\ n \in Nat
    BY <1>2, <2>1, <2>2, <2>3
  <2>5. s # {}
    <3>1. ASSUME s = {} PROVE Summed(s)
      <4>1. Cardinality(s) = 0 /\ f[s] = 0
        BY <1>1, <3>1, FS_EmptySet
      <4> QED
        BY <3>1, <4>1
    <3> QED
      BY <2>4, <3>1
  <2>6. PICK c \in s : f[s] = p[c].percent + f[s \ {c}]
    BY <1>1, <2>4, <2>5
  <2> DEFINE u == s \ {c}
  <2>7. Cardinality(u) = n - 1
    BY <2>3, <2>4, FS_RemoveElement
  <2>8. Summed(u)
    <3>1. ASSUME u \in Bad PROVE FALSE
      <4>1. Cardinality(u) \in D
        BY <3>1
      <4> HIDE DEF D
      <4> QED
        BY <2>2, <2>4, <2>7, <4>1
    <3> QED
      BY <2>4, <3>1
  <2>9. p[c].percent \in Int /\ p[c].percent <= 100
    BY <2>4, <2>6
  <2>10. /\ f[u] \in Int /\ f[u] <= 100 * (n - 1)
         /\ \A x \in u : f[u] + (100 - p[x].percent) <= 100 * (n - 1)
    BY <2>7, <2>8
  <2>11. ASSUME NEW x \in s PROVE f[s] + (100 - p[x].percent) <= 100 * n
    <3>1. p[x].percent \in Int
      BY <2>4
    <3>2. CASE x = c
      BY <2>4, <2>6, <2>9, <2>10, <3>2
    <3>3. CASE x # c
      <4>1. f[u] + (100 - p[x].percent) <= 100 * (n - 1)
        BY <2>10, <3>3
      <4> QED
        BY <2>4, <2>6, <2>9, <2>10, <3>1, <4>1
    <3> QED
      BY <3>2, <3>3
  <2>12. f[s] \in Int /\ f[s] <= 100 * n
    BY <2>4, <2>6, <2>9, <2>10
  <2> QED
    BY <2>3, <2>4, <2>11, <2>12
<1>4. S \in SUBSET S
  OBVIOUS
<1>5. Summed(S)
  <2> HIDE DEF Summed
  <2> QED
    BY <1>3, <1>4
<1> QED
  BY <1>5 DEF f

\* A percentage is at most 100.
LEMMA PercentIs ==
    ASSUME NEW n \in Nat, NEW d \in Nat \ {0}
    PROVE  /\ Percent(n, d) \in Int
           /\ Percent(n, d) <= 100
           /\ Percent(n, d) >= 96 => (200 * n + d) \div (2 * d) >= 96
           /\ (200 * n + d) \div (2 * d) >= 100 => Percent(n, d) = 100
<1> DEFINE q == (200 * n + d) \div (2 * d)
<1>1. q \in Int
  OBVIOUS
<1>2. Percent(n, d) = Min({100, q})
  BY DEF Percent
<1> HIDE DEF q
<1>3. Percent(n, d) = IF 100 <= q THEN 100 ELSE q
  BY <1>1, <1>2, MinOfTwo
<1> QED
  BY <1>1, <1>3 DEF q

\* The percentages of the small counts leave a gap below 100.
LEMMA SmallPercents ==
    ASSUME NEW n \in Nat
    PROVE  /\ Percent(n, 3) >= 96 => Percent(n, 3) = 100
           /\ Percent(n, 4) >= 96 => Percent(n, 4) = 100
           /\ Percent(n, 7) >= 96 => Percent(n, 7) = 100
<1>1. (200 * n + 3) \div (2 * 3) >= 96 => (200 * n + 3) \div (2 * 3) >= 100
  OBVIOUS
<1>2. (200 * n + 4) \div (2 * 4) >= 96 => (200 * n + 4) \div (2 * 4) >= 100
  OBVIOUS
<1>3. (200 * n + 7) \div (2 * 7) >= 96 => (200 * n + 7) \div (2 * 7) >= 100
  OBVIOUS
<1> QED
  BY <1>1, <1>2, <1>3, PercentIs

\* The steps that count for the setup.
CountedSteps == {"charter", "wbs"} \cup PmbokSteps

\* The percentage of each of them is at most 100, and never just below it but
\* for the tasks with dates.
LEMMA CountedStep ==
    ASSUME ViewAssumption, NEW w, IsWorkspace(w), NEW b, b = Null \/ IsTables(b),
           NEW k \in CountedSteps
    PROVE  /\ Flow(w, b)[k].kind = "setup"
           /\ Flow(w, b)[k].percent \in Int
           /\ Flow(w, b)[k].percent <= 100
           /\ b # Null /\ k # "wbs" /\ Flow(w, b)[k].percent >= 96 => Flow(w, b)[k].percent = 100
<1> DEFINE Full(s) == /\ s.kind = "setup" /\ s.percent \in Int /\ s.percent <= 100
                      /\ s.percent >= 96 => s.percent = 100
<1>1. ASSUME b # Null
      PROVE  /\ b.charterFilled \in Nat /\ b.stakeholders \in Nat
             /\ b.risks \in Nat /\ b.definitionOfDone \in Nat
             /\ b.communicationPlans \in Nat
  BY <1>1 DEF IsTables
<1>2. Full(Unavailable)
  BY DEF Unavailable, Step
<1>3. /\ Flow(w, b)["charter"].kind = "setup"
      /\ Flow(w, b)["charter"].percent \in Int /\ Flow(w, b)["charter"].percent <= 100
      /\ b # Null => Full(Flow(w, b)["charter"])
  <2>1. Flow(w, b)["charter"] = Charter(w, b)
    BY FlowSteps
  <2>2. CASE b = Null
    <3>1. w.filled \in Nat
      BY DEF IsWorkspace
    <3>2. Percent(w.filled, 5) \in Int /\ Percent(w.filled, 5) <= 100
      BY <3>1, PercentIs
    <3>3. Charter(w, b).kind = "setup" /\ Charter(w, b).percent = Percent(w.filled, 5)
      BY <2>2 DEF Charter, Step
    <3> QED
      BY <2>1, <2>2, <3>2, <3>3
  <2>3. CASE b # Null
    <3> DEFINE p == Percent(b.charterFilled, 7)
    <3>1. p \in Int /\ p <= 100 /\ (p >= 96 => p = 100)
      BY <1>1, <2>3, PercentIs, SmallPercents
    <3>2. Charter(w, b).kind = "setup" /\ Charter(w, b).percent = p
      BY <2>3 DEF Charter, Step
    <3> QED
      BY <2>1, <3>1, <3>2
  <2> QED
    BY <2>2, <2>3
<1>4. /\ Flow(w, b)["wbs"].kind = "setup"
      /\ Flow(w, b)["wbs"].percent \in Int /\ Flow(w, b)["wbs"].percent <= 100
  <2>1. Flow(w, b)["wbs"] = Wbs(w)
    BY FlowSteps
  <2> DEFINE rows == DOMAIN w.tasks
             p == Percent(Cardinality(Scheduled(w)), Cardinality(rows))
  <2>2. IsFiniteSet(rows)
    BY DEF IsWorkspace
  <2>3. rows # {} => p \in Int /\ p <= 100
    <3>1. Scheduled(w) \subseteq rows
      BY DEF Scheduled
    <3>2. Cardinality(Scheduled(w)) \in Nat /\ Cardinality(rows) \in Nat
      BY <2>2, <3>1, FS_Subset, FS_CardinalityType
    <3>3. rows # {} => Cardinality(rows) # 0
      BY <2>2, FS_EmptySet
    <3> HIDE DEF rows
    <3> QED
      BY <3>2, <3>3, PercentIs
  <2>4. \/ Wbs(w) = Unavailable \/ Wbs(w) = Step("setup", "todo", 0)
        \/ rows # {} /\ Wbs(w) = Step("setup", "progress", p)
    BY WbsIs
  <2> HIDE DEF p, rows
  <2>5. Wbs(w).kind = "setup" /\ Wbs(w).percent \in Int /\ Wbs(w).percent <= 100
    BY <2>3, <2>4 DEF Step, Unavailable
  <2> QED
    BY <2>1, <2>5
<1>5. ASSUME b = Null, k \in PmbokSteps
      PROVE  Full(Flow(w, b)[k])
  BY <1>2, <1>5, FlowSteps
<1>6. ASSUME b # Null, k \in PmbokSteps
      PROVE  Full(Flow(w, b)[k])
  <2>1. Full(Stakeholder(b))
    <3> DEFINE p == Percent(b.stakeholders, 4)
    <3>1. p \in Int /\ p <= 100 /\ (p >= 96 => p = 100)
      BY <1>1, <1>6, PercentIs, SmallPercents
    <3> QED
      BY <3>1 DEF Stakeholder, Step
  <2>2. Full(Resource(b))
    <3> DEFINE S == {x \in {"resources", "raci"} : b[x] > 0}
    <3>1. IsFiniteSet({"resources", "raci"}) /\ Cardinality({"resources", "raci"}) = 2
      <4> DEFINE R == {"resources"}
      <4>1. IsFiniteSet(R) /\ Cardinality(R) = 1 /\ "raci" \notin R
        BY FS_Singleton
      <4>2. {"resources", "raci"} = R \cup {"raci"}
        OBVIOUS
      <4> HIDE DEF R
      <4> QED
        BY <4>1, <4>2, FS_AddElement
    <3>2. S \subseteq {"resources", "raci"}
      OBVIOUS
    <3> HIDE DEF S
    <3>3. Cardinality(S) \in Nat /\ Cardinality(S) <= 2
      <4> DEFINE R == {"resources", "raci"}
      <4>1. IsFiniteSet(R) /\ Cardinality(R) = 2 /\ S \in SUBSET R
        BY <3>1, <3>2
      <4> HIDE DEF R
      <4>2. IsFiniteSet(S) /\ Cardinality(S) <= Cardinality(R)
        BY <4>1, FS_Subset
      <4> QED
        BY <4>1, <4>2, FS_CardinalityType
    <3>4. Resource(b).kind = "setup" /\ Resource(b).percent = 50 * Cardinality(S)
      BY DEF Resource, Step, S
    <3> QED
      BY <3>3, <3>4
  <2>3. Full(Cost(w, b))
    <3> DEFINE plans == b.costPlans > 0
               budget == b.costPlans = 0 /\ w.budget > 0
               over == /\ w.budget > 0
                       /\ b.costs * (100 + b.contingency) > 100 * w.budget
    <3>1. Cost(w, b) = CASE plans -> Step("setup", IF over THEN "progress" ELSE "done", 100)
                         [] budget -> Step("setup", "progress", 50)
                         [] OTHER -> Step("setup", "todo", 0)
      BY DEF Cost
    <3>2. b.costPlans \in Nat
      BY <1>6 DEF IsTables
    <3>3. ~(plans /\ budget)
      BY <3>2
    <3> HIDE DEF plans, budget, over
    <3>4. \/ Cost(w, b) = Step("setup", "progress", 100)
          \/ Cost(w, b) = Step("setup", "done", 100)
          \/ Cost(w, b) = Step("setup", "progress", 50)
          \/ Cost(w, b) = Step("setup", "todo", 0)
      BY <3>1, <3>3
    <3> QED
      BY <3>4 DEF Step
  <2>4. Full(Risk(b))
    <3>1. b.risks \in Nat
      BY <1>1, <1>6
    <3> QED
      BY <3>1 DEF Risk, Step
  <2>5. Full(Quality(b))
    <3> DEFINE dod == b.definitionOfDone
               plans == b.qualityPlans > 0
    <3>1. dod \in Nat
      BY <1>1, <1>6
    <3>2. /\ Quality(b).kind = "setup"
          /\ Quality(b).percent = (IF plans THEN 50 ELSE 0)
                                  + (IF dod >= 3 THEN 50 ELSE IF dod > 0 THEN 25 ELSE 0)
      BY DEF Quality, Step
    <3> HIDE DEF plans
    <3> QED
      BY <3>1, <3>2
  <2>6. Full(Communication(b))
    <3> DEFINE p == Percent(b.communicationPlans, 3)
    <3>1. p \in Int /\ p <= 100 /\ (p >= 96 => p = 100)
      BY <1>1, <1>6, PercentIs, SmallPercents
    <3>2. Communication(b).kind = "setup" /\ Communication(b).percent = p
      BY DEF Communication, Step
    <3> QED
      BY <3>1, <3>2
  <2>7. Full(ChangeLog(b))
    BY DEF ChangeLog, Step
  <2> HIDE DEF Full
  <2>8. k = "stakeholder" \/ k = "resource" \/ k = "cost" \/ k = "risk" \/ k = "quality"
        \/ k = "communication" \/ k = "change_log"
    BY <1>6 DEF PmbokSteps
  <2> QED
    BY <1>6, <2>1, <2>2, <2>3, <2>4, <2>5, <2>6, <2>7, <2>8, FlowSteps
<1>7. CASE k = "charter"
  BY <1>3, <1>7
<1>8. CASE k = "wbs"
  BY <1>4, <1>8
<1>9. CASE k \in PmbokSteps
  BY <1>5, <1>6, <1>9
<1> QED
  BY <1>7, <1>8, <1>9 DEF CountedSteps

\* There are nine.
LEMMA NineSteps == IsFiniteSet(CountedSteps) /\ Cardinality(CountedSteps) = 9
<1> DEFINE S1 == {"charter"}
           S2 == S1 \cup {"wbs"}
           S3 == S2 \cup {"stakeholder"}
           S4 == S3 \cup {"resource"}
           S5 == S4 \cup {"cost"}
           S6 == S5 \cup {"risk"}
           S7 == S6 \cup {"quality"}
           S8 == S7 \cup {"communication"}
           S9 == S8 \cup {"change_log"}
<1>1. IsFiniteSet(S1) /\ Cardinality(S1) = 1
  BY FS_Singleton
<1>2. /\ "wbs" \notin S1 /\ "stakeholder" \notin S2 /\ "resource" \notin S3
      /\ "cost" \notin S4 /\ "risk" \notin S5 /\ "quality" \notin S6
      /\ "communication" \notin S7 /\ "change_log" \notin S8
  OBVIOUS
<1>3. CountedSteps = S9
  BY DEF CountedSteps, PmbokSteps
<1> HIDE DEF S1
<1>4. IsFiniteSet(S2) /\ Cardinality(S2) = 2
  BY <1>1, <1>2, FS_AddElement
<1> HIDE DEF S2
<1>5. IsFiniteSet(S3) /\ Cardinality(S3) = 3
  BY <1>2, <1>4, FS_AddElement
<1> HIDE DEF S3
<1>6. IsFiniteSet(S4) /\ Cardinality(S4) = 4
  BY <1>2, <1>5, FS_AddElement
<1> HIDE DEF S4
<1>7. IsFiniteSet(S5) /\ Cardinality(S5) = 5
  BY <1>2, <1>6, FS_AddElement
<1> HIDE DEF S5
<1>8. IsFiniteSet(S6) /\ Cardinality(S6) = 6
  BY <1>2, <1>7, FS_AddElement
<1> HIDE DEF S6
<1>9. IsFiniteSet(S7) /\ Cardinality(S7) = 7
  BY <1>2, <1>8, FS_AddElement
<1> HIDE DEF S7
<1>10. IsFiniteSet(S8) /\ Cardinality(S8) = 8
  BY <1>2, <1>9, FS_AddElement
<1> HIDE DEF S8
<1>11. IsFiniteSet(S9) /\ Cardinality(S9) = 9
  BY <1>2, <1>10, FS_AddElement
<1> QED
  BY <1>3, <1>11

\* A whole of 100 % leaves none of them more than four short.
LEMMA FullIsFull ==
    ASSUME ViewAssumption, NEW w, IsWorkspace(w), NEW b, b = Null \/ IsTables(b),
           SetupPercent(Flow(w, b)) = 100
    PROVE  /\ \A k \in PmbokSteps \cup {"charter"} : Flow(w, b)[k].percent = 100
           /\ Flow(w, b)["wbs"].percent >= 96
<1> DEFINE f == Flow(w, b)
           sum == SumOver(CountedSteps, f)[CountedSteps]
<1>1. SetupSteps(f) = CountedSteps
  <2>1. DOMAIN f = CountedSteps \cup {"schedule", "dashboard"}
    BY FlowSteps DEF CountedSteps
  <2>2. f["schedule"].kind # "setup" /\ f["dashboard"].kind # "setup"
    <3>1. f["schedule"] = Schedule(w)
      BY FlowSteps
    <3>2. f["dashboard"] = Step("auto", "auto", AverageProgress(w))
      BY FlowSteps
    <3>3. Schedule(w).kind = "execution"
      BY DEF Schedule, Step
    <3> QED
      BY <3>1, <3>2, <3>3 DEF Step
  <2>3. \A k \in CountedSteps : f[k].kind = "setup"
    BY CountedStep
  <2> HIDE DEF f
  <2> QED
    BY <2>1, <2>2, <2>3 DEF SetupSteps
<1>2. \A k \in CountedSteps : f[k].percent \in Int /\ f[k].percent <= 100
  BY CountedStep
<1> HIDE DEF f
<1>3. MapThenSumSet(LAMBDA k : f[k].percent, CountedSteps) = sum
  BY DEF MapThenSumSet, MapThenFoldSet, SumOver
<1>4. SetupPercent(f) = Percent(sum, 900)
  BY <1>1, <1>3, NineSteps DEF SetupPercent
<1>5. /\ sum \in Int
      /\ \A k \in CountedSteps : sum + (100 - f[k].percent) <= 900
  BY <1>2, NineSteps, SumBounds
<1> HIDE DEF sum
<1>6. (200 * sum + 900) \div (2 * 900) >= 100
  <2> DEFINE q == (200 * sum + 900) \div (2 * 900)
  <2>1. q \in Int /\ Percent(sum, 900) = Min({100, q})
    BY <1>5 DEF Percent
  <2> HIDE DEF q
  <2>2. Percent(sum, 900) = IF 100 <= q THEN 100 ELSE q
    BY <2>1, MinOfTwo
  <2>3. Percent(sum, 900) = 100
    BY <1>4 DEF f
  <2>4. q >= 100
    BY <2>1, <2>2, <2>3
  <2> QED
    BY <2>4 DEF q
<1>7. sum >= 896
  BY <1>5, <1>6
<1>8. \A k \in CountedSteps : f[k].percent >= 96
  BY <1>2, <1>5, <1>7
<1>9. b # Null
  <2>1. ASSUME b = Null PROVE FALSE
    <3>1. "cost" \in PmbokSteps /\ "cost" \in CountedSteps
      BY DEF PmbokSteps, CountedSteps
    <3>2. f["cost"] = Unavailable
      BY <2>1, <3>1, FlowSteps DEF f
    <3>3. f["cost"].percent = 0
      BY <3>2 DEF Unavailable, Step
    <3> QED
      BY <1>8, <3>1, <3>3
  <2> QED
    BY <2>1
<1>10. ASSUME NEW k \in CountedSteps, k # "wbs" PROVE f[k].percent = 100
  BY <1>8, <1>9, <1>10, CountedStep DEF f
<1>11. /\ "wbs" \in CountedSteps /\ "charter" \in CountedSteps /\ "charter" # "wbs"
       /\ PmbokSteps \subseteq CountedSteps /\ "wbs" \notin PmbokSteps
  BY DEF CountedSteps, PmbokSteps
<1> QED
  BY <1>8, <1>10, <1>11 DEF f

-------------------------------------------------------------------------------
(* The page at every time. *)

\* What the page holds is what was answered.
ViewInv ==
    /\ IsWorkspace(workspace)
    /\ pmbok = Null \/ IsTables(pmbok)
    /\ IsAnswers(answers)

\* Init.
LEMMA ViewInitially == ViewInit => ViewInv
  BY ViewAssumption DEF ViewInit, ViewInv, IsAnswers

\* Next.
LEMMA ViewStep == ViewInv /\ [ViewNext]_viewVars => ViewInv'
<1> SUFFICES ASSUME ViewInv, [ViewNext]_viewVars PROVE ViewInv'
  OBVIOUS
<1>1. CASE PmbokArrives
  <2>1. /\ pmbok' = answers.pmbok /\ answers.pmbok # Null
        /\ workspace' = workspace /\ answers' = answers
    BY <1>1 DEF PmbokArrives
  <2>2. IsTables(answers.pmbok)
    BY <2>1 DEF ViewInv, IsAnswers
  <2> HIDE DEF IsTables
  <2> QED
    BY <2>1, <2>2 DEF ViewInv
<1>2. CASE WorkspaceReadAgain
  <2>1. /\ workspace' = answers.again /\ answers.again # Null
        /\ pmbok' = Null /\ answers' = [answers EXCEPT !.again = Null]
    BY <1>2 DEF WorkspaceReadAgain
  <2>2. /\ answers = [first |-> answers.first, pmbok |-> answers.pmbok, again |-> answers.again]
        /\ IsWorkspace(answers.first) /\ IsWorkspace(answers.again)
        /\ answers.pmbok = Null \/ IsTables(answers.pmbok)
    BY <2>1 DEF ViewInv, IsAnswers
  <2>3. answers' = [first |-> answers.first, pmbok |-> answers.pmbok, again |-> Null]
    BY <2>1, <2>2
  <2>4. /\ answers'.first = answers.first /\ answers'.pmbok = answers.pmbok
        /\ answers'.again = Null
    BY <2>3
  <2>5. IsAnswers(answers)'
    BY <2>2, <2>3, <2>4 DEF IsAnswers
  <2> QED
    BY <2>1, <2>2, <2>5 DEF ViewInv
<1>3. CASE \E t \in DOMAIN tasks : ToggleTask(t)
  <2>1. UNCHANGED <<workspace, pmbok, answers>>
    BY <1>3 DEF ToggleTask
  <2> QED
    BY <2>1 DEF ViewInv, IsWorkspace, IsTables, IsAnswers
<1>4. CASE UNCHANGED viewVars
  BY <1>4 DEF viewVars, ViewInv, IsWorkspace, IsTables, IsAnswers
<1> QED
  BY <1>1, <1>2, <1>3, <1>4 DEF ViewNext

\* What the page holds has the shape the schema gives it.
THEOREM ViewInvariance == ViewSpec => []ViewInv
  BY ViewInitially, ViewStep, PTL DEF ViewSpec

\* Whatever dates tasks lack or have reversed, every other bar and the lines between
\* them lie inside the chart, and the line of today under today, except past noon without
\* any start (timeline, geometryById, dependencyLines, todayLeft of LocalProjectManagementGantt).
THEOREM ChartsAreInScale == ViewSpec => []ChartIsInScale
<1>1. ViewInv => ChartIsInScale
  BY InScale, ViewAssumption DEF ViewInv
<1> QED
  BY <1>1, ViewInvariance, PTL

\* 100 % set up leaves out no step that PMBOK is read for, nor the charter, and of the
\* dates of the tasks no more than rounding hides (setupPercent).
THEOREM FullSetupsAreFull == ViewSpec => []FullSetupIsFull
<1>1. ViewInv => FullSetupIsFull
  BY FullIsFull, ViewAssumption DEF ViewInv, FullSetupIsFull, flow
<1> QED
  BY <1>1, ViewInvariance, PTL

-------------------------------------------------------------------------------
(* The tree of tasks. *)

\* What the rows of an answer have in common.
Rows(ts) == IsFiniteSet(DOMAIN ts) /\ Null \notin DOMAIN ts

\* P of what has a parent is an id.
LEMMA ParentIs ==
    ASSUME NEW ts, Rows(ts)
    PROVE  /\ IsFiniteSet(Ids(ts)) /\ Cardinality(Ids(ts)) \in Nat
           /\ DOMAIN ts \subseteq Ids(ts) /\ Null \notin Ids(ts)
           /\ ParentOf(ts, Null) = Null
           /\ \A x : ParentOf(ts, x) # Null => x \in DOMAIN ts /\ ParentOf(ts, x) \in Ids(ts)
           /\ \A t \in DOMAIN ts : ParentOf(ts, t) = ts[t].parent
<1> DEFINE parents == {ts[t].parent : t \in DOMAIN ts}
<1>1. IsFiniteSet(DOMAIN ts) /\ Null \notin DOMAIN ts
  BY DEF Rows
<1>2. IsFiniteSet(parents)
  <2> DEFINE f == [t \in DOMAIN ts |-> ts[t].parent]
  <2>1. parents = {f[t] : t \in DOMAIN ts}
    OBVIOUS
  <2>2. IsFiniteSet({f[t] : t \in DOMAIN ts})
    <3> HIDE DEF f
    <3> QED
      BY <1>1, FiniteImage
  <2> QED
    BY <2>1, <2>2, Zenon
<1>3. IsFiniteSet(Ids(ts))
  <2>1. IsFiniteSet(DOMAIN ts \cup parents)
    BY <1>1, <1>2, FS_Union
  <2>2. Ids(ts) \in SUBSET (DOMAIN ts \cup parents)
    BY DEF Ids
  <2> HIDE DEF parents
  <2> QED
    BY <2>1, <2>2, FS_Subset
<1>4. Cardinality(Ids(ts)) \in Nat
  BY <1>3, FS_CardinalityType
<1>5. DOMAIN ts \subseteq Ids(ts) /\ Null \notin Ids(ts)
  BY <1>1 DEF Ids
<1>6. \A t \in DOMAIN ts : ParentOf(ts, t) = ts[t].parent
  BY DEF ParentOf
<1>7. ASSUME NEW x, ParentOf(ts, x) # Null
      PROVE  x \in DOMAIN ts /\ ParentOf(ts, x) \in Ids(ts)
  <2>1. x \in DOMAIN ts /\ ParentOf(ts, x) = ts[x].parent
    BY <1>7 DEF ParentOf
  <2> QED
    BY <1>7, <2>1 DEF Ids
<1>8. ParentOf(ts, Null) = Null
  BY <1>1 DEF ParentOf
<1> QED
  BY <1>3, <1>4, <1>5, <1>6, <1>7, <1>8

\* The walk up is defined: there is one of every length, or there is a least length
\* without.
LEMMA AboveDefined ==
    ASSUME NEW ts, Rows(ts), NEW t
    PROVE  /\ Above(ts, t)[0] = t
           /\ \A k \in 1..Cardinality(Ids(ts)) :
                Above(ts, t)[k] = ParentOf(ts, Above(ts, t)[k - 1])
<1> DEFINE N == Cardinality(Ids(ts))
           Up(x) == IF x = Null THEN Null ELSE ParentOf(ts, x)
           Run(f, m) == f = [k \in 0..m |-> IF k = 0 THEN t ELSE Up(f[k - 1])]
           Without == {m \in Nat : ~ \E f : Run(f, m)}
<1>0. \A x : Up(x) = ParentOf(ts, x)
  BY ParentIs
<1>1. Without = {}
  <2> SUFFICES ASSUME Without # {} PROVE FALSE
    OBVIOUS
  <2>1. PICK m \in Without : \A n \in Without : m <= n
    <3>1. Without \in SUBSET Nat
      OBVIOUS
    <3> HIDE DEF Without
    <3> QED
      BY <3>1, LeastNat
  <2>2. m \in Nat /\ ~ \E f : Run(f, m)
    OBVIOUS
  <2>3. m # 0
    <3>1. Run([k \in 0..0 |-> t], 0)
      OBVIOUS
    <3> QED
      BY <2>2, <3>1, Zenon
  <2>4. m - 1 \in Nat /\ m - 1 \notin Without
    <3>1. m \in Nat
      BY <2>2
    <3> HIDE DEF Without
    <3> QED
      BY <2>1, <2>3, <3>1
  <2>5. PICK g : Run(g, m - 1)
    BY <2>4
  <2> HIDE DEF Up
  <2> DEFINE f == [k \in 0..m |-> IF k < m THEN g[k] ELSE Up(g[m - 1])]
  <2>6. \A k \in 0..(m - 1) : f[k] = g[k]
    BY <2>2
  <2>7. \A k \in 0..m : f[k] = IF k = 0 THEN t ELSE Up(f[k - 1])
    <3> SUFFICES ASSUME NEW k \in 0..m
                 PROVE  f[k] = IF k = 0 THEN t ELSE Up(f[k - 1])
      OBVIOUS
    <3>1. CASE k < m
      <4>1. k \in 0..(m - 1) /\ (k # 0 => k - 1 \in 0..(m - 1))
        BY <2>2, <3>1
      <4>2. g[k] = IF k = 0 THEN t ELSE Up(g[k - 1])
        BY <2>5, <4>1
      <4> QED
        BY <2>6, <4>1, <4>2
    <3>2. CASE k = m
      <4>1. f[m] = Up(g[m - 1]) /\ f[m - 1] = g[m - 1]
        BY <2>2, <2>3, <2>6
      <4> QED
        BY <2>3, <3>2, <4>1
    <3> QED
      BY <2>2, <3>1, <3>2
  <2>8. Run(f, m)
    <3>1. f = [k \in 0..m |-> f[k]]
      OBVIOUS
    <3> HIDE DEF f
    <3> QED
      BY <2>7, <3>1, Zenon
  <2> QED
    BY <2>2, <2>8, Zenon
<1>2. \E f : Run(f, N)
  BY <1>1, ParentIs
<1>3. Above(ts, t) = CHOOSE f : Run(f, N)
  BY DEF Above
<1>4. Run(Above(ts, t), N)
  BY <1>2, <1>3, Zenon
<1>5. N \in Nat
  BY ParentIs
<1> HIDE DEF Up
<1>6. Above(ts, t)[0] = t
  BY <1>4, <1>5
<1>7. \A k \in 1..N : Above(ts, t)[k] = Up(Above(ts, t)[k - 1])
  BY <1>4, <1>5
<1> QED
  BY <1>0, <1>6, <1>7

\* The ancestors of t are the least set that holds its parent and, of what it holds,
\* the parents.
LEMMA AncestorsLeast ==
    ASSUME NEW ts, Rows(ts), NEW t, NEW S,
           ParentOf(ts, t) # Null => ParentOf(ts, t) \in S,
           \A x \in S : ParentOf(ts, x) # Null => ParentOf(ts, x) \in S
    PROVE  Ancestors(ts, t) \subseteq S
<1> DEFINE N == Cardinality(Ids(ts))
           up == Above(ts, t)
           Out == {k \in 1..N : up[k] # Null /\ up[k] \notin S}
<1>1. N \in Nat /\ ParentOf(ts, Null) = Null
  BY ParentIs
<1>2. up[0] = t /\ \A k \in 1..N : up[k] = ParentOf(ts, up[k - 1])
  BY AboveDefined
<1> HIDE DEF N, up
<1>3. Out = {}
  <2> SUFFICES ASSUME Out # {} PROVE FALSE
    OBVIOUS
  <2>1. Out \in SUBSET Nat
    BY <1>1
  <2>2. PICK k \in Out : \A j \in Out : k <= j
    <3> HIDE DEF Out
    <3> QED
      BY <2>1, LeastNat
  <2>3. k \in 1..N /\ up[k] # Null /\ up[k] \notin S
    OBVIOUS
  <2>4. up[k] = ParentOf(ts, up[k - 1])
    BY <1>2, <2>3
  <2>5. k # 1
    BY <1>2, <2>3, <2>4
  <2>6. k - 1 \in 1..N /\ ~(k <= k - 1)
    BY <1>1, <2>3, <2>5
  <2>7. k - 1 \notin Out
    <3> HIDE DEF Out
    <3> QED
      BY <2>2, <2>6
  <2>8. up[k - 1] # Null
    BY <1>1, <2>3, <2>4
  <2>9. up[k - 1] \in S
    BY <2>6, <2>7, <2>8
  <2> QED
    BY <2>3, <2>4, <2>9
<1> QED
  BY <1>3 DEF Ancestors, N, up

\* It is closed under parents: a walk as long as there are ids comes to all of them,
\* or to one of them twice.
LEMMA AncestorsClosed ==
    ASSUME NEW ts, Rows(ts), NEW t
    PROVE  /\ ParentOf(ts, t) # Null => ParentOf(ts, t) \in Ancestors(ts, t)
           /\ \A a \in Ancestors(ts, t) :
                ParentOf(ts, a) # Null => ParentOf(ts, a) \in Ancestors(ts, t)
           /\ Ancestors(ts, t) \subseteq Ids(ts)
<1> DEFINE I == Ids(ts)
           N == Cardinality(I)
           up == Above(ts, t)
<1>1. /\ IsFiniteSet(I) /\ N \in Nat /\ Null \notin I /\ ParentOf(ts, Null) = Null
      /\ \A x : ParentOf(ts, x) # Null => ParentOf(ts, x) \in I
  BY ParentIs
<1>2. up[0] = t /\ \A k \in 1..N : up[k] = ParentOf(ts, up[k - 1])
  BY AboveDefined
<1>3. Ancestors(ts, t) = {up[k] : k \in 1..N} \ {Null}
  BY DEF Ancestors
<1> HIDE DEF I, up
<1>4. I # {} => N >= 1
  <2>1. N = 0 => I = {}
    BY <1>1, FS_EmptySet
  <2> HIDE DEF N
  <2> QED
    BY <1>1, <2>1
<1> HIDE DEF N
<1>5. Ancestors(ts, t) \subseteq I
  <2> SUFFICES ASSUME NEW k \in 1..N, up[k] # Null PROVE up[k] \in I
    BY <1>3
  <2> QED
    BY <1>1, <1>2
<1>6. ASSUME ParentOf(ts, t) # Null PROVE ParentOf(ts, t) \in Ancestors(ts, t)
  <2>1. ParentOf(ts, t) \in I
    BY <1>1, <1>6
  <2>2. 1 \in 1..N
    BY <1>1, <1>4, <2>1
  <2>3. up[1] = ParentOf(ts, t)
    <3>1. up[1] = ParentOf(ts, up[1 - 1])
      BY <1>2, <2>2
    <3> QED
      BY <1>2, <3>1
  <2> QED
    BY <1>3, <1>6, <2>2, <2>3
<1>7. ASSUME NEW a \in Ancestors(ts, t), ParentOf(ts, a) # Null
      PROVE  ParentOf(ts, a) \in Ancestors(ts, t)
  <2>1. PICK k \in 1..N : up[k] = a
    BY <1>3, <1>7
  <2>2. CASE k < N
    <3>1. k + 1 \in 1..N /\ (k + 1) - 1 = k
      BY <1>1, <2>2
    <3>2. up[k + 1] = ParentOf(ts, a)
      BY <1>2, <2>1, <3>1
    <3> QED
      BY <1>3, <1>7, <3>1, <3>2
  <2>3. CASE k = N
    <3>1. ASSUME NEW j \in 1..N PROVE up[j] # Null
      <4> DEFINE Lost == {i \in 1..N : i >= j /\ up[i] # Null}
      <4>1. ASSUME up[j] = Null PROVE FALSE
        <5>1. Lost \in SUBSET Nat /\ k \in Lost
          BY <1>1, <1>7, <2>1, <2>3, <1>3
        <5>2. PICK i \in Lost : \A h \in Lost : i <= h
          <6> HIDE DEF Lost
          <6> QED
            BY <5>1, LeastNat
        <5>3. i \in 1..N /\ i >= j /\ up[i] # Null /\ i # j
          BY <4>1
        <5>4. i - 1 \in 1..N /\ i - 1 >= j /\ ~(i <= i - 1)
          BY <1>1, <5>3
        <5>5. i - 1 \notin Lost
          <6> HIDE DEF Lost
          <6> QED
            BY <5>2, <5>4
        <5>6. up[i - 1] = Null
          BY <5>4, <5>5
        <5> QED
          BY <1>1, <1>2, <5>3, <5>6
      <4> QED
        BY <4>1
    <3>2. \A j \in 1..N : up[j] \in I
      BY <1>3, <1>5, <3>1
    <3>3. CASE \A i, j \in 1..N : up[i] = up[j] => i = j
      <4> DEFINE f == [j \in 1..N |-> up[j]]
      <4>1. f \in Injection(1..N, I)
        BY <3>2, <3>3 DEF Injection, IsInjective
      <4>2. IsFiniteSet(1..N) /\ Cardinality(1..N) = Cardinality(I)
        BY <1>1, FS_Interval DEF N
      <4>3. f \in Surjection(1..N, I)
        <5> HIDE DEF f
        <5> QED
          BY <1>1, <4>1, <4>2, FS_Injection
      <4>4. ParentOf(ts, a) \in I
        BY <1>1, <1>7
      <4>5. \E j \in 1..N : up[j] = ParentOf(ts, a)
        BY <4>3, <4>4 DEF Surjection
      <4> QED
        BY <1>3, <1>7, <4>5
    <3>4. CASE ~ \A i, j \in 1..N : up[i] = up[j] => i = j
      <4>1. PICK i \in 1..N, j \in 1..N : up[i] = up[j] /\ i < j
        <5>1. PICK i \in 1..N, j \in 1..N : up[i] = up[j] /\ i # j
          BY <3>4
        <5>2. i \in Int /\ j \in Int
          BY <1>1
        <5>3. CASE i < j
          BY <5>1, <5>3
        <5>4. CASE j < i
          BY <5>1, <5>4
        <5> QED
          BY <5>1, <5>2, <5>3, <5>4
      <4> DEFINE C == {up[m] : m \in 1..(j - 1)}
      <4>2. i \in 1..(j - 1) /\ j \in Nat /\ 1 \in 1..(j - 1)
            /\ \A m \in 1..(j - 1) : m \in 1..N /\ m + 1 \in 1..N /\ (m + 1) - 1 = m
        BY <1>1, <4>1
      <4>3. ASSUME NEW m \in 1..(j - 1) PROVE ParentOf(ts, up[m]) \in C
        <5>1. up[m + 1] = ParentOf(ts, up[m])
          BY <1>2, <4>2
        <5>2. CASE m + 1 = j
          BY <4>1, <4>2, <5>1, <5>2
        <5>3. CASE m + 1 # j
          <6>1. m + 1 \in 1..(j - 1)
            BY <4>2, <5>3
          <6> QED
            BY <5>1, <6>1
        <5> QED
          BY <5>2, <5>3
      <4>4. ParentOf(ts, t) \in C
        <5>1. up[1] = ParentOf(ts, up[1 - 1])
          BY <1>2, <4>2
        <5> QED
          BY <1>2, <4>2, <5>1
      <4>5. \A x \in C : ParentOf(ts, x) \in C
        BY <4>3
      <4>6. C \subseteq Ancestors(ts, t)
        BY <1>3, <3>1, <4>2
      <4> HIDE DEF C
      <4>7. Ancestors(ts, t) \subseteq C
        BY <4>4, <4>5, AncestorsLeast
      <4> QED
        BY <4>5, <4>6, <4>7
    <3> QED
      BY <3>3, <3>4
  <2> QED
    BY <1>1, <2>2, <2>3
<1> QED
  BY <1>5, <1>6, <1>7 DEF I

\* The parent and what is above it.
LEMMA AncestorsAre ==
    ASSUME NEW ts, Rows(ts), NEW t
    PROVE  /\ ParentOf(ts, t) = Null => Ancestors(ts, t) = {}
           /\ ParentOf(ts, t) # Null =>
                Ancestors(ts, t) = {ParentOf(ts, t)} \cup Ancestors(ts, ParentOf(ts, t))
           /\ \A a \in Ancestors(ts, t) : Ancestors(ts, a) \subseteq Ancestors(ts, t)
           /\ IsFiniteSet(Ancestors(ts, t)) /\ Null \notin Ancestors(ts, t)
<1>0. ASSUME NEW a \in Ancestors(ts, t) PROVE Ancestors(ts, a) \subseteq Ancestors(ts, t)
  BY AncestorsLeast, AncestorsClosed
<1>1. ASSUME ParentOf(ts, t) = Null PROVE Ancestors(ts, t) = {}
  <2> DEFINE S == {}
  <2>1. \A x \in S : ParentOf(ts, x) # Null => ParentOf(ts, x) \in S
    OBVIOUS
  <2> HIDE DEF S
  <2>2. Ancestors(ts, t) \subseteq S
    BY <1>1, <2>1, AncestorsLeast
  <2> QED
    BY <2>2 DEF S
<1>2. ASSUME ParentOf(ts, t) # Null
      PROVE  Ancestors(ts, t) = {ParentOf(ts, t)} \cup Ancestors(ts, ParentOf(ts, t))
  <2> DEFINE p == ParentOf(ts, t)
             S == {p} \cup Ancestors(ts, p)
  <2>1. Ancestors(ts, t) \subseteq S
    <3>1. \A x \in S : ParentOf(ts, x) # Null => ParentOf(ts, x) \in S
      BY AncestorsClosed
    <3> HIDE DEF S
    <3>2. p \in S
      BY DEF S
    <3> QED
      BY <3>1, <3>2, AncestorsLeast
  <2>2. Ancestors(ts, p) \subseteq Ancestors(ts, t)
    <3>1. p \in Ancestors(ts, t)
      BY <1>2, AncestorsClosed
    <3> HIDE DEF p
    <3> QED
      BY <1>0, <3>1
  <2> QED
    BY <1>2, <2>1, <2>2, AncestorsClosed
<1>4. IsFiniteSet(Ancestors(ts, t)) /\ Null \notin Ancestors(ts, t)
  <2>1. Ancestors(ts, t) \in SUBSET Ids(ts)
    BY AncestorsClosed
  <2> QED
    BY <2>1, ParentIs, FS_Subset
<1> QED
  BY <1>0, <1>1, <1>2, <1>4

\* One id more that was seen leaves one less.
LEMMA OneLess ==
    ASSUME NEW I, IsFiniteSet(I), NEW seen \in SUBSET I
    PROVE  /\ Cardinality(I \ seen) \in Nat
           /\ \A p \in I \ seen : /\ seen \cup {p} \in SUBSET I
                                  /\ Cardinality(I \ (seen \cup {p})) = Cardinality(I \ seen) - 1
<1>1. IsFiniteSet(I \ seen)
  <2>1. I \ seen \in SUBSET I
    OBVIOUS
  <2> QED
    BY <2>1, FS_Subset
<1>2. ASSUME NEW p \in I \ seen
      PROVE  /\ seen \cup {p} \in SUBSET I
             /\ Cardinality(I \ (seen \cup {p})) = Cardinality(I \ seen) - 1
  <2> DEFINE R == I \ seen
  <2>1. I \ (seen \cup {p}) = R \ {p}
    OBVIOUS
  <2>2. Cardinality(R \ {p}) = Cardinality(R) - 1
    <3>1. IsFiniteSet(R) /\ p \in R
      BY <1>1
    <3> HIDE DEF R
    <3> QED
      BY <3>1, FS_RemoveElement
  <2> QED
    BY <2>1, <2>2
<1> QED
  BY <1>1, <1>2, FS_CardinalityType

\* The walk that looks for a collapsed group is defined: from every set of ids seen,
\* or there is a least number of ids not seen from which it is not.
LEMMA HiddenDefined ==
    ASSUME NEW ts, Rows(ts), NEW closed, NEW seen \in SUBSET Ids(ts), NEW p \in Ids(ts) \cup {Null}
    PROVE  Hidden(ts, closed)[seen][p] <=>
             /\ p # Null /\ p \notin seen
             /\ p \in closed \/ Hidden(ts, closed)[seen \cup {p}][ParentOf(ts, p)]
<1> DEFINE I == Ids(ts)
           X == I \cup {Null}
           Body(h, s) == [q \in X |->
                            /\ q # Null /\ q \notin s
                            /\ q \in closed \/ h[s \cup {q}][ParentOf(ts, q)]]
           Upto(n) == {s \in SUBSET I : Cardinality(I \ s) <= n}
           Run(h, n) == h = [s \in Upto(n) |-> Body(h, s)]
           Without == {n \in Nat : ~ \E h : Run(h, n)}
<1>1. IsFiniteSet(I) /\ Cardinality(I) \in Nat
  BY ParentIs
<1> HIDE DEF I
<1>2. \A s \in SUBSET I :
        /\ Cardinality(I \ s) \in Nat /\ Cardinality(I \ s) <= Cardinality(I)
        /\ \A q \in I \ s : /\ s \cup {q} \in SUBSET I
                            /\ Cardinality(I \ (s \cup {q})) = Cardinality(I \ s) - 1
  <2> TAKE s \in SUBSET I
  <2>1. I \ s \in SUBSET I
    OBVIOUS
  <2> QED
    BY <1>1, <2>1, OneLess, FS_Subset
<1>3. Without = {}
  <2> SUFFICES ASSUME Without # {} PROVE FALSE
    OBVIOUS
  <2>1. PICK n \in Without : \A m \in Without : n <= m
    <3>1. Without \in SUBSET Nat
      OBVIOUS
    <3> HIDE DEF Without
    <3> QED
      BY <3>1, LeastNat
  <2>2. n \in Nat
    OBVIOUS
  <2>3. ~ \E h : Run(h, n)
    OBVIOUS
  <2>4. PICK g : n # 0 => Run(g, n - 1)
    <3>1. n # 0 => n - 1 \in Nat /\ n - 1 \notin Without
      <4> HIDE DEF Without
      <4> QED
        BY <2>1, <2>2
    <3> QED
      BY <3>1
  <2> HIDE DEF Without
  <2> DEFINE f == [s \in Upto(n) |-> Body(g, s)]
  <2>5. ASSUME NEW s \in Upto(n), NEW q \in I \ s PROVE f[s \cup {q}] = g[s \cup {q}]
    <3>1. /\ s \in SUBSET I /\ Cardinality(I \ s) <= n /\ Cardinality(I \ s) \in Nat
          /\ s \cup {q} \in SUBSET I
          /\ Cardinality(I \ (s \cup {q})) = Cardinality(I \ s) - 1
          /\ Cardinality(I \ (s \cup {q})) \in Nat
      BY <1>2
    <3>2. n # 0 /\ s \cup {q} \in Upto(n - 1) /\ s \cup {q} \in Upto(n)
      BY <2>2, <3>1
    <3>3. g = [r \in Upto(n - 1) |-> Body(g, r)]
      BY <2>4, <3>2
    <3> HIDE DEF Upto, Body
    <3> QED
      BY <3>2, <3>3
  <2>6. \A s \in Upto(n) : Body(g, s) = Body(f, s)
    <3> TAKE s \in Upto(n)
    <3>1. ASSUME NEW q \in X
          PROVE  (/\ q # Null /\ q \notin s
                  /\ q \in closed \/ g[s \cup {q}][ParentOf(ts, q)])
                 = (/\ q # Null /\ q \notin s
                    /\ q \in closed \/ f[s \cup {q}][ParentOf(ts, q)])
      <4> HIDE DEF f, Upto
      <4>1. CASE q = Null \/ q \in s
        BY <4>1, Zenon
      <4>2. CASE q # Null /\ q \notin s
        <5>1. f[s \cup {q}] = g[s \cup {q}]
          BY <2>5, <4>2
        <5> QED
          BY <5>1, Zenon
      <4> QED
        BY <4>1, <4>2
    <3> HIDE DEF f, Upto, X
    <3> QED
      BY <3>1, Zenon
  <2>7. Run(f, n)
    <3> HIDE DEF Upto, Body
    <3> QED
      BY <2>6
  <2> QED
    BY <2>3, <2>7, Zenon
<1>4. \E h : h = [s \in SUBSET I |-> Body(h, s)]
  <2>1. Upto(Cardinality(I)) = SUBSET I
    BY <1>2
  <2>2. \E h : Run(h, Cardinality(I))
    BY <1>1, <1>3
  <2> HIDE DEF Upto, Body
  <2> QED
    BY <2>1, <2>2
<1>5. Hidden(ts, closed) = CHOOSE h : h = [s \in SUBSET I |-> Body(h, s)]
  BY Zenon DEF Hidden, I
<1>6. Hidden(ts, closed) = [s \in SUBSET I |-> Body(Hidden(ts, closed), s)]
  <2> HIDE DEF Body
  <2> QED
    BY <1>4, <1>5, Zenon
<1> DEFINE h == Hidden(ts, closed)
<1>7. h[seen] = Body(h, seen)
  <2> HIDE DEF Body
  <2>1. seen \in SUBSET I
    BY DEF I
  <2> QED
    BY <1>6, <2>1
<1> HIDE DEF h
<1>8. h[seen][p] = (/\ p # Null /\ p \notin seen
                    /\ p \in closed \/ h[seen \cup {p}][ParentOf(ts, p)])
  <2>1. p \in X
    BY DEF I
  <2> HIDE DEF X
  <2> QED
    BY <1>7, <2>1, Zenon
<1> QED
  BY <1>8, Zenon DEF h

\* So is the walk that counts.
LEMMA DepthsDefined ==
    ASSUME NEW ts, Rows(ts), NEW seen \in SUBSET Ids(ts), NEW u \in Ids(ts)
    PROVE  Depths(ts)[seen][u] =
             IF ParentOf(ts, u) = Null \/ u \in seen THEN 0
             ELSE 1 + Depths(ts)[seen \cup {u}][ParentOf(ts, u)]
<1> DEFINE I == Ids(ts)
           Body(h, s) == [q \in I |->
                            IF ParentOf(ts, q) = Null \/ q \in s THEN 0
                            ELSE 1 + h[s \cup {q}][ParentOf(ts, q)]]
           Upto(n) == {s \in SUBSET I : Cardinality(I \ s) <= n}
           Run(h, n) == h = [s \in Upto(n) |-> Body(h, s)]
           Without == {n \in Nat : ~ \E h : Run(h, n)}
<1>1. IsFiniteSet(I) /\ Cardinality(I) \in Nat
  BY ParentIs
<1> HIDE DEF I
<1>2. \A s \in SUBSET I :
        /\ Cardinality(I \ s) \in Nat /\ Cardinality(I \ s) <= Cardinality(I)
        /\ \A q \in I \ s : /\ s \cup {q} \in SUBSET I
                            /\ Cardinality(I \ (s \cup {q})) = Cardinality(I \ s) - 1
  <2> TAKE s \in SUBSET I
  <2>1. I \ s \in SUBSET I
    OBVIOUS
  <2> QED
    BY <1>1, <2>1, OneLess, FS_Subset
<1>3. Without = {}
  <2> SUFFICES ASSUME Without # {} PROVE FALSE
    OBVIOUS
  <2>1. PICK n \in Without : \A m \in Without : n <= m
    <3>1. Without \in SUBSET Nat
      OBVIOUS
    <3> HIDE DEF Without
    <3> QED
      BY <3>1, LeastNat
  <2>2. n \in Nat
    OBVIOUS
  <2>3. ~ \E h : Run(h, n)
    OBVIOUS
  <2>4. PICK g : n # 0 => Run(g, n - 1)
    <3>1. n # 0 => n - 1 \in Nat /\ n - 1 \notin Without
      <4> HIDE DEF Without
      <4> QED
        BY <2>1, <2>2
    <3> QED
      BY <3>1
  <2> HIDE DEF Without
  <2> DEFINE f == [s \in Upto(n) |-> Body(g, s)]
  <2>5. ASSUME NEW s \in Upto(n), NEW q \in I \ s PROVE f[s \cup {q}] = g[s \cup {q}]
    <3>1. /\ s \in SUBSET I /\ Cardinality(I \ s) <= n /\ Cardinality(I \ s) \in Nat
          /\ s \cup {q} \in SUBSET I
          /\ Cardinality(I \ (s \cup {q})) = Cardinality(I \ s) - 1
          /\ Cardinality(I \ (s \cup {q})) \in Nat
      BY <1>2
    <3>2. n # 0 /\ s \cup {q} \in Upto(n - 1) /\ s \cup {q} \in Upto(n)
      BY <2>2, <3>1
    <3>3. g = [r \in Upto(n - 1) |-> Body(g, r)]
      BY <2>4, <3>2
    <3> HIDE DEF Upto, Body
    <3> QED
      BY <3>2, <3>3
  <2>6. \A s \in Upto(n) : Body(g, s) = Body(f, s)
    <3> TAKE s \in Upto(n)
    <3>1. ASSUME NEW q \in I
          PROVE  (IF ParentOf(ts, q) = Null \/ q \in s THEN 0
                  ELSE 1 + g[s \cup {q}][ParentOf(ts, q)])
                 = (IF ParentOf(ts, q) = Null \/ q \in s THEN 0
                    ELSE 1 + f[s \cup {q}][ParentOf(ts, q)])
      <4> HIDE DEF f, Upto
      <4>1. CASE ParentOf(ts, q) = Null \/ q \in s
        BY <4>1
      <4>2. CASE ~(ParentOf(ts, q) = Null \/ q \in s)
        <5>1. f[s \cup {q}] = g[s \cup {q}]
          BY <2>5, <4>2
        <5> QED
          BY <4>2, <5>1
      <4> QED
        BY <4>1, <4>2
    <3> HIDE DEF f, Upto
    <3> QED
      BY <3>1, Zenon
  <2>7. Run(f, n)
    <3> HIDE DEF Upto, Body
    <3> QED
      BY <2>6
  <2> QED
    BY <2>3, <2>7, Zenon
<1>4. \E h : h = [s \in SUBSET I |-> Body(h, s)]
  <2>1. Upto(Cardinality(I)) = SUBSET I
    BY <1>2
  <2>2. \E h : Run(h, Cardinality(I))
    BY <1>1, <1>3
  <2> HIDE DEF Upto, Body
  <2> QED
    BY <2>1, <2>2
<1>5. Depths(ts) = CHOOSE h : h = [s \in SUBSET I |-> Body(h, s)]
  BY Zenon DEF Depths, I
<1>6. Depths(ts) = [s \in SUBSET I |-> Body(Depths(ts), s)]
  <2> HIDE DEF Body
  <2> QED
    BY <1>4, <1>5, Zenon
<1> DEFINE h == Depths(ts)
<1>7. h[seen] = Body(h, seen)
  <2> HIDE DEF Body
  <2>1. seen \in SUBSET I
    BY DEF I
  <2> QED
    BY <1>6, <2>1
<1> HIDE DEF h
<1>8. h[seen][u] = IF ParentOf(ts, u) = Null \/ u \in seen THEN 0
                   ELSE 1 + h[seen \cup {u}][ParentOf(ts, u)]
  <2>1. u \in I
    BY DEF I
  <2> QED
    BY <1>7, <2>1, Zenon
<1> QED
  BY <1>8 DEF h

-------------------------------------------------------------------------------
(* Folding the tree, and how far its rows are indented. *)

\* An id and what is above it; of no id, nothing.
Upward(ts, p) == IF p = Null THEN {} ELSE {p} \cup Ancestors(ts, p)

\* Going up by one.
LEMMA UpwardIs ==
    ASSUME NEW ts, Rows(ts), NEW p, p # Null
    PROVE  /\ ParentOf(ts, p) \in Ids(ts) \cup {Null}
           /\ Upward(ts, ParentOf(ts, p)) = Ancestors(ts, p)
           /\ Upward(ts, p) = {p} \cup Upward(ts, ParentOf(ts, p))
           /\ IsFiniteSet(Upward(ts, p))
<1>1. ParentOf(ts, p) \in Ids(ts) \cup {Null}
  BY ParentIs
<1>2. Upward(ts, ParentOf(ts, p)) = Ancestors(ts, p)
  BY AncestorsAre DEF Upward
<1>3. IsFiniteSet({p} \cup Ancestors(ts, p))
  BY AncestorsAre, FS_Singleton, FS_Union
<1> QED
  BY <1>1, <1>2, <1>3 DEF Upward

\* What was seen on the way up, if the way comes back to it, holds all that is above.
LEMMA RoundIsSeen ==
    ASSUME NEW ts, Rows(ts), NEW seen, NEW p \in seen,
           \A x \in seen : ParentOf(ts, x) \in seen \cup {p}
    PROVE  Upward(ts, p) \subseteq seen
<1>1. \A x \in seen : ParentOf(ts, x) \in seen
  OBVIOUS
<1>2. Ancestors(ts, p) \subseteq seen
  BY <1>1, AncestorsLeast
<1> QED
  BY <1>2 DEF Upward

\* Walks each of which is followed by one that has seen an id more: there are none.
LEMMA WalksEnd ==
    ASSUME NEW I, IsFiniteSet(I), NEW W,
           \A w \in W : /\ w[1] \in SUBSET I
                        /\ \E p \in I \ w[1] : \E r : <<w[1] \cup {p}, r>> \in W
    PROVE  W = {}
<1> DEFINE left == {Cardinality(I \ w[1]) : w \in W}
<1>1. \A s \in SUBSET I : Cardinality(I \ s) \in Nat
  BY OneLess
<1> SUFFICES ASSUME W # {} PROVE FALSE
  OBVIOUS
<1>2. PICK n \in left : \A m \in left : n <= m
  <2>1. left \in SUBSET Nat /\ left # {}
    BY <1>1
  <2> HIDE DEF left
  <2> QED
    BY <2>1, LeastNat
<1>3. PICK w \in W : n = Cardinality(I \ w[1])
  OBVIOUS
<1>4. PICK p \in I \ w[1] : \E r : <<w[1] \cup {p}, r>> \in W
  OBVIOUS
<1>5. PICK r : <<w[1] \cup {p}, r>> \in W
  BY <1>4
<1>6. Cardinality(I \ (w[1] \cup {p})) \in left
  <2>1. <<w[1] \cup {p}, r>>[1] = w[1] \cup {p}
    OBVIOUS
  <2> QED
    BY <1>5, <2>1
<1>7. n <= Cardinality(I \ (w[1] \cup {p}))
  <2> HIDE DEF left
  <2> QED
    BY <1>2, <1>6
<1>8. Cardinality(I \ (w[1] \cup {p})) = n - 1 /\ n \in Nat
  BY <1>1, <1>3, OneLess
<1> QED
  BY <1>7, <1>8

\* The walk finds a collapsed group exactly if there is one above: a walk that has seen
\* none, and for which this is wrong, goes on to another.
LEMMA HiddenIs ==
    ASSUME NEW ts, Rows(ts), NEW closed, NEW p \in Ids(ts) \cup {Null}
    PROVE  Hidden(ts, closed)[{}][p] <=> Upward(ts, p) \cap closed # {}
<1> DEFINE I == Ids(ts)
           Walk(s, q) == /\ s \cap closed = {}
                         /\ \A x \in s : ParentOf(ts, x) \in s \cup {q}
           Fine(s, q) == Hidden(ts, closed)[s][q] <=> Upward(ts, q) \cap closed # {}
           Wrong == {w \in (SUBSET I) \X (I \cup {Null}) : Walk(w[1], w[2]) /\ ~Fine(w[1], w[2])}
<1>1. IsFiniteSet(I) /\ Null \notin I
  BY ParentIs
<1>2. ASSUME NEW s \in SUBSET I, NEW q \in I \cup {Null}, Walk(s, q), ~Fine(s, q)
      PROVE  /\ q \in I \ s /\ ParentOf(ts, q) \in I \cup {Null}
             /\ Walk(s \cup {q}, ParentOf(ts, q)) /\ ~Fine(s \cup {q}, ParentOf(ts, q))
  <2> DEFINE up == ParentOf(ts, q)
  <2>1. Hidden(ts, closed)[s][q] <=>
          /\ q # Null /\ q \notin s
          /\ q \in closed \/ Hidden(ts, closed)[s \cup {q}][up]
    BY HiddenDefined
  <2>2. q # Null
    BY <1>2, <2>1 DEF Upward
  <2>3. q \notin s
    <3>1. ASSUME q \in s PROVE FALSE
      <4>1. Upward(ts, q) \cap closed = {}
        BY <1>2, <3>1, RoundIsSeen
      <4>2. ~ Hidden(ts, closed)[s][q]
        BY <2>1, <3>1
      <4> QED
        BY <1>2, <4>1, <4>2
    <3> QED
      BY <3>1
  <2>4. up \in I \cup {Null} /\ Upward(ts, q) = {q} \cup Upward(ts, up)
    BY <2>2, UpwardIs
  <2> HIDE DEF up
  <2>5. q \notin closed
    BY <1>2, <2>1, <2>2, <2>3, <2>4
  <2>6. Walk(s \cup {q}, up)
    BY <1>2, <2>5 DEF up
  <2>7. ~Fine(s \cup {q}, up)
    BY <1>2, <2>1, <2>2, <2>3, <2>4, <2>5
  <2> HIDE DEF Walk, Fine
  <2> QED
    BY <2>2, <2>3, <2>4, <2>6, <2>7 DEF up
<1> HIDE DEF Walk, Fine, I
<1>3. Wrong = {}
  <2>1. ASSUME NEW w \in Wrong
        PROVE  /\ w[1] \in SUBSET I
               /\ \E q \in I \ w[1] : \E r : <<w[1] \cup {q}, r>> \in Wrong
    <3> DEFINE s == w[1]
               q == w[2]
               v == <<s \cup {q}, ParentOf(ts, q)>>
    <3>1. s \in SUBSET I /\ q \in I \cup {Null} /\ Walk(s, q) /\ ~Fine(s, q)
      OBVIOUS
    <3> HIDE DEF s, q
    <3>2. v[1] = s \cup {q} /\ v[2] = ParentOf(ts, q)
      OBVIOUS
    <3>3. /\ q \in I \ s /\ ParentOf(ts, q) \in I \cup {Null}
          /\ Walk(s \cup {q}, ParentOf(ts, q)) /\ ~Fine(s \cup {q}, ParentOf(ts, q))
      BY <1>2, <3>1
    <3>4. v \in (SUBSET I) \X (I \cup {Null})
      BY <3>1, <3>3
    <3> HIDE DEF v
    <3>5. v \in Wrong
      BY <3>2, <3>3, <3>4
    <3> HIDE DEF Wrong
    <3> QED
      BY <3>1, <3>3, <3>5 DEF s, v
  <2> HIDE DEF Wrong
  <2> QED
    BY <1>1, <2>1, WalksEnd
<1>4. Walk({}, p)
  BY DEF Walk
<1>5. Fine({}, p)
  <2> DEFINE v == <<{}, p>>
  <2>1. v \in (SUBSET I) \X (I \cup {Null}) /\ v[1] = {} /\ v[2] = p
    BY DEF I
  <2> HIDE DEF v
  <2> QED
    BY <1>3, <1>4, <2>1
<1> QED
  BY <1>5 DEF Fine

\* A row is in view exactly if no group above it is collapsed.
LEMMA VisibleIs ==
    ASSUME NEW ts, Rows(ts), NEW closed, NEW t \in DOMAIN ts
    PROVE  t \in Visible(ts, closed) <=> Ancestors(ts, t) \cap closed = {}
<1>1. ts[t].parent = ParentOf(ts, t) /\ t # Null
  BY ParentIs DEF Rows
<1>2. /\ ParentOf(ts, t) \in Ids(ts) \cup {Null}
      /\ Upward(ts, ParentOf(ts, t)) = Ancestors(ts, t)
  BY <1>1, UpwardIs
<1>3. Hidden(ts, closed)[{}][ts[t].parent] <=> Ancestors(ts, t) \cap closed # {}
  BY <1>1, <1>2, HiddenIs
<1> QED
  BY <1>3 DEF Visible

\* Where no parents go round, a row is indented once for every task above it.
LEMMA DepthOfTree ==
    ASSUME NEW ts, Rows(ts), NEW t \in Ids(ts), ~GoesRound(ts, t)
    PROVE  Depth(ts, t) = Cardinality(Ancestors(ts, t))
<1> DEFINE I == Ids(ts)
           Walk(s, q) == /\ s \cap Upward(ts, q) = {}
                         /\ \A a \in Upward(ts, q) : a \notin Ancestors(ts, a)
           Fine(s, q) == Depths(ts)[s][q] = Cardinality(Ancestors(ts, q))
           Wrong == {w \in (SUBSET I) \X I : Walk(w[1], w[2]) /\ ~Fine(w[1], w[2])}
<1>1. IsFiniteSet(I) /\ Null \notin I
  BY ParentIs
<1>2. ASSUME NEW s \in SUBSET I, NEW q \in I, Walk(s, q), ~Fine(s, q)
      PROVE  /\ q \in I \ s /\ ParentOf(ts, q) \in I
             /\ Walk(s \cup {q}, ParentOf(ts, q)) /\ ~Fine(s \cup {q}, ParentOf(ts, q))
  <2> DEFINE up == ParentOf(ts, q)
  <2>0. q # Null
    BY <1>1
  <2>1. Depths(ts)[s][q] = IF up = Null \/ q \in s THEN 0 ELSE 1 + Depths(ts)[s \cup {q}][up]
    BY DepthsDefined
  <2>2. up \in I \cup {Null} /\ Upward(ts, q) = {q} \cup Upward(ts, up)
        /\ Upward(ts, up) = Ancestors(ts, q)
    BY <2>0, UpwardIs
  <2>3. q \notin s
    BY <1>2, <2>2
  <2>4. up # Null
    <3>1. up = Null => Ancestors(ts, q) = {}
      BY AncestorsAre
    <3>2. up = Null => Depths(ts)[s][q] = 0
      BY <2>1
    <3> QED
      BY <1>2, <3>1, <3>2, FS_EmptySet
  <2>5. /\ Ancestors(ts, q) = Ancestors(ts, up) \cup {up}
        /\ up \notin Ancestors(ts, up) /\ IsFiniteSet(Ancestors(ts, up))
    <3>1. up \in Upward(ts, q)
      BY <2>2, <2>4 DEF Upward
    <3> QED
      BY <1>2, <2>2, <2>4, <3>1, AncestorsAre DEF Upward
  <2> HIDE DEF up
  <2>6. /\ Cardinality(Ancestors(ts, q)) = Cardinality(Ancestors(ts, up)) + 1
        /\ Cardinality(Ancestors(ts, up)) \in Nat
    BY <2>5, FS_AddElement, FS_CardinalityType
  <2>7. Walk(s \cup {q}, up)
    <3>1. q \notin Upward(ts, up)
      BY <1>2, <2>2
    <3> QED
      BY <1>2, <2>2, <3>1
  <2>8. ~Fine(s \cup {q}, up)
    BY <1>2, <2>1, <2>3, <2>4, <2>6
  <2> HIDE DEF Walk, Fine
  <2> QED
    BY <2>2, <2>3, <2>4, <2>7, <2>8 DEF up
<1>3. Walk({}, t)
  BY <1>1 DEF GoesRound, Upward
<1> HIDE DEF Walk, Fine, I
<1>4. Wrong = {}
  <2>1. ASSUME NEW w \in Wrong
        PROVE  /\ w[1] \in SUBSET I
               /\ \E q \in I \ w[1] : \E r : <<w[1] \cup {q}, r>> \in Wrong
    <3> DEFINE s == w[1]
               q == w[2]
               v == <<s \cup {q}, ParentOf(ts, q)>>
    <3>1. s \in SUBSET I /\ q \in I /\ Walk(s, q) /\ ~Fine(s, q)
      OBVIOUS
    <3> HIDE DEF s, q
    <3>2. v[1] = s \cup {q} /\ v[2] = ParentOf(ts, q)
      OBVIOUS
    <3>3. /\ q \in I \ s /\ ParentOf(ts, q) \in I
          /\ Walk(s \cup {q}, ParentOf(ts, q)) /\ ~Fine(s \cup {q}, ParentOf(ts, q))
      BY <1>2, <3>1
    <3>4. v \in (SUBSET I) \X I
      BY <3>1, <3>3
    <3> HIDE DEF v
    <3>5. v \in Wrong
      BY <3>2, <3>3, <3>4
    <3> HIDE DEF Wrong
    <3> QED
      BY <3>1, <3>3, <3>5 DEF s, v
  <2> HIDE DEF Wrong
  <2> QED
    BY <1>1, <2>1, WalksEnd
<1>5. Fine({}, t)
  <2> DEFINE v == <<{}, t>>
  <2>1. v \in (SUBSET I) \X I /\ v[1] = {} /\ v[2] = t
    BY DEF I
  <2> HIDE DEF v
  <2> QED
    BY <1>3, <1>4, <2>1
<1> QED
  BY <1>5 DEF Fine, Depth

\* Where they go round, all above has a parent.
LEMMA RoundHasParents ==
    ASSUME NEW ts, Rows(ts), NEW t \in Ids(ts), GoesRound(ts, t)
    PROVE  \A x \in Upward(ts, t) : ParentOf(ts, x) # Null
<1>1. t # Null
  BY ParentIs
<1>2. PICK a \in Ancestors(ts, t) \cup {t} : a \in Ancestors(ts, a)
  BY DEF GoesRound
<1> DEFINE S == {x \in {t} \cup Ancestors(ts, t) : a \in Ancestors(ts, x)}
<1>3. \A x \in S : ParentOf(ts, x) # Null /\ ParentOf(ts, x) \in S
  <2> SUFFICES ASSUME NEW x, x \in {t} \cup Ancestors(ts, t), a \in Ancestors(ts, x)
               PROVE  ParentOf(ts, x) # Null /\ ParentOf(ts, x) \in S
    OBVIOUS
  <2>1. ParentOf(ts, x) # Null
    BY AncestorsAre
  <2>2. a \in Ancestors(ts, ParentOf(ts, x))
    BY <1>2, <2>1, AncestorsAre
  <2>3. ParentOf(ts, x) \in Ancestors(ts, t)
    BY <2>1, AncestorsClosed
  <2> QED
    BY <2>1, <2>2, <2>3
<1>4. t \in S
  BY <1>2
<1> HIDE DEF S
<1>5. Ancestors(ts, t) \subseteq S
  BY <1>3, <1>4, AncestorsLeast
<1> QED
  BY <1>1, <1>3, <1>4, <1>5 DEF Upward

\* There a row is indented once for every id of the walk, its own included.
LEMMA DepthOfRound ==
    ASSUME NEW ts, Rows(ts), NEW t \in Ids(ts), GoesRound(ts, t)
    PROVE  Depth(ts, t) = Cardinality(Ancestors(ts, t) \cup {t})
<1> DEFINE I == Ids(ts)
           Walk(s, q) == /\ \A x \in s : ParentOf(ts, x) \in s \cup {q}
                         /\ \A x \in Upward(ts, q) : ParentOf(ts, x) # Null
           Fine(s, q) == Depths(ts)[s][q] = Cardinality(Upward(ts, q) \ s)
           Wrong == {w \in (SUBSET I) \X I : Walk(w[1], w[2]) /\ ~Fine(w[1], w[2])}
<1>1. IsFiniteSet(I) /\ Null \notin I
  BY ParentIs
<1>2. ASSUME NEW s \in SUBSET I, NEW q \in I, Walk(s, q), ~Fine(s, q)
      PROVE  /\ q \in I \ s /\ ParentOf(ts, q) \in I
             /\ Walk(s \cup {q}, ParentOf(ts, q)) /\ ~Fine(s \cup {q}, ParentOf(ts, q))
  <2> DEFINE up == ParentOf(ts, q)
             rest == Upward(ts, up) \ (s \cup {q})
  <2>0. q # Null
    BY <1>1
  <2>1. Depths(ts)[s][q] = IF up = Null \/ q \in s THEN 0 ELSE 1 + Depths(ts)[s \cup {q}][up]
    BY DepthsDefined
  <2>2. up \in I \cup {Null} /\ Upward(ts, q) = {q} \cup Upward(ts, up)
        /\ IsFiniteSet(Upward(ts, q))
    BY <2>0, UpwardIs
  <2>3. up # Null
    BY <1>2, <2>2
  <2>4. q \notin s
    <3>1. ASSUME q \in s PROVE FALSE
      <4>1. Upward(ts, q) \ s = {}
        BY <1>2, <3>1, RoundIsSeen
      <4>2. Cardinality(Upward(ts, q) \ s) = 0
        BY <4>1, FS_EmptySet
      <4> QED
        BY <1>2, <2>1, <3>1, <4>2
    <3> QED
      BY <3>1
  <2> HIDE DEF up
  <2>5. Upward(ts, q) \ s = rest \cup {q} /\ q \notin rest
    BY <2>2, <2>4
  <2>6. IsFiniteSet(rest)
    <3>1. rest \in SUBSET Upward(ts, q)
      BY <2>2
    <3> HIDE DEF rest
    <3> QED
      BY <2>2, <3>1, FS_Subset
  <2>7. Cardinality(Upward(ts, q) \ s) = Cardinality(rest) + 1 /\ Cardinality(rest) \in Nat
    <3> HIDE DEF rest
    <3> QED
      BY <2>5, <2>6, FS_AddElement, FS_CardinalityType
  <2>8. Walk(s \cup {q}, up)
    BY <1>2, <2>2 DEF up
  <2>9. ~Fine(s \cup {q}, up)
    BY <1>2, <2>1, <2>3, <2>4, <2>7
  <2> HIDE DEF Walk, Fine
  <2> QED
    BY <2>2, <2>3, <2>4, <2>8, <2>9 DEF up
<1>3. Walk({}, t)
  BY RoundHasParents
<1> HIDE DEF Walk, Fine, I
<1>4. Wrong = {}
  <2>1. ASSUME NEW w \in Wrong
        PROVE  /\ w[1] \in SUBSET I
               /\ \E q \in I \ w[1] : \E r : <<w[1] \cup {q}, r>> \in Wrong
    <3> DEFINE s == w[1]
               q == w[2]
               v == <<s \cup {q}, ParentOf(ts, q)>>
    <3>1. s \in SUBSET I /\ q \in I /\ Walk(s, q) /\ ~Fine(s, q)
      OBVIOUS
    <3> HIDE DEF s, q
    <3>2. v[1] = s \cup {q} /\ v[2] = ParentOf(ts, q)
      OBVIOUS
    <3>3. /\ q \in I \ s /\ ParentOf(ts, q) \in I
          /\ Walk(s \cup {q}, ParentOf(ts, q)) /\ ~Fine(s \cup {q}, ParentOf(ts, q))
      BY <1>2, <3>1
    <3>4. v \in (SUBSET I) \X I
      BY <3>1, <3>3
    <3> HIDE DEF v
    <3>5. v \in Wrong
      BY <3>2, <3>3, <3>4
    <3> HIDE DEF Wrong
    <3> QED
      BY <3>1, <3>3, <3>5 DEF s, v
  <2> HIDE DEF Wrong
  <2> QED
    BY <1>1, <2>1, WalksEnd
<1>5. Fine({}, t)
  <2> DEFINE v == <<{}, t>>
  <2>1. v \in (SUBSET I) \X I /\ v[1] = {} /\ v[2] = t
    BY DEF I
  <2> HIDE DEF v
  <2> QED
    BY <1>3, <1>4, <2>1
<1>6. Upward(ts, t) \ {} = Ancestors(ts, t) \cup {t}
  BY <1>1 DEF Upward, I
<1> QED
  BY <1>5, <1>6 DEF Fine, Depth

\* The first answer is shown until there is another; groups without a row are left
\* over only from it, and only if the other is of the same project.
FoldInv ==
    /\ answers.again # Null => workspace = answers.first
    /\ workspace = answers.first \/ workspace.id # answers.first.id
          => collapsed \subseteq DOMAIN tasks

\* Init.
LEMMA FoldInitially == ViewInit => FoldInv
  BY DEF ViewInit, FoldInv

\* Next.
LEMMA FoldStep == ViewInv /\ FoldInv /\ [ViewNext]_viewVars => FoldInv'
<1> SUFFICES ASSUME ViewInv, FoldInv, [ViewNext]_viewVars PROVE FoldInv'
  OBVIOUS
<1>1. CASE PmbokArrives
  BY <1>1 DEF PmbokArrives, FoldInv, tasks
<1>2. CASE WorkspaceReadAgain
  <2>1. /\ workspace' = answers.again /\ answers.again # Null
        /\ collapsed' = IF answers.again.id = workspace.id THEN collapsed ELSE {}
        /\ answers' = [answers EXCEPT !.again = Null]
    BY <1>2 DEF WorkspaceReadAgain, CollapsedUnder
  <2>2. answers = [first |-> answers.first, pmbok |-> answers.pmbok, again |-> answers.again]
    BY DEF ViewInv, IsAnswers
  <2>3. answers'.again = Null /\ answers'.first = answers.first
    BY <2>1, <2>2
  <2>4. workspace = answers.first /\ collapsed \subseteq DOMAIN workspace.tasks
    BY <2>1 DEF FoldInv, tasks
  <2>5. CASE workspace' = answers.first
    BY <2>1, <2>3, <2>4, <2>5 DEF FoldInv, tasks
  <2>6. CASE workspace' # answers.first
    BY <2>1, <2>3, <2>4, <2>6 DEF FoldInv, tasks
  <2> QED
    BY <2>5, <2>6
<1>3. CASE \E t \in DOMAIN tasks : ToggleTask(t)
  <2>1. PICK t \in DOMAIN tasks : ToggleTask(t)
    BY <1>3
  <2>2. /\ UNCHANGED <<workspace, pmbok, answers>>
        /\ collapsed' \subseteq collapsed \cup {t}
    BY <2>1 DEF ToggleTask
  <2> QED
    BY <2>2 DEF FoldInv, tasks
<1>4. CASE UNCHANGED viewVars
  BY <1>4 DEF viewVars, FoldInv, tasks
<1> QED
  BY <1>1, <1>2, <1>3, <1>4 DEF ViewNext

\* If every collapsed group above a hidden row has a row itself, the one with the fewest
\* tasks above it is in view.
LEMMA HiddenCanBeOpened ==
    ASSUME NEW ts, Rows(ts), NEW closed, NEW t \in DOMAIN ts,
           t \notin Visible(ts, closed), ~GoesRound(ts, t),
           Ancestors(ts, t) \cap closed \subseteq DOMAIN ts
    PROVE  \E a \in Ancestors(ts, t) \cap closed \cap Visible(ts, closed) : HasChildren(ts, a)
<1> DEFINE above == Ancestors(ts, t) \cap closed
           heights == {Cardinality(Ancestors(ts, a)) : a \in above}
<1>1. \A a : IsFiniteSet(Ancestors(ts, a)) /\ Cardinality(Ancestors(ts, a)) \in Nat
  BY AncestorsAre, FS_CardinalityType
<1>2. PICK n \in heights : \A m \in heights : n <= m
  <2>1. heights \in SUBSET Nat /\ heights # {}
    BY <1>1, VisibleIs
  <2> HIDE DEF heights
  <2> QED
    BY <2>1, LeastNat
<1>3. PICK a \in above : n = Cardinality(Ancestors(ts, a))
  OBVIOUS
<1>4. ASSUME NEW b \in Ancestors(ts, a) \cap closed PROVE FALSE
  <2>1. b \in above /\ Ancestors(ts, b) \subseteq Ancestors(ts, a) /\ b \notin Ancestors(ts, b)
    BY <1>3, <1>4, AncestorsAre DEF GoesRound
  <2> DEFINE A == Ancestors(ts, a)
             B == Ancestors(ts, b)
  <2>2. IsFiniteSet(A) /\ B \in SUBSET A /\ B # A
    BY <1>1, <1>4, <2>1
  <2>3. Cardinality(B) < Cardinality(A)
    <3> HIDE DEF A, B
    <3>1. Cardinality(B) <= Cardinality(A) /\ (Cardinality(A) = Cardinality(B) => B = A)
      BY <2>2, FS_Subset
    <3>2. IsFiniteSet(B)
      BY <2>2, FS_Subset
    <3>3. Cardinality(A) \in Nat /\ Cardinality(B) \in Nat
      BY <2>2, <3>2, FS_CardinalityType
    <3> QED
      BY <2>2, <3>1, <3>3
  <2>4. Cardinality(B) \in heights
    BY <2>1
  <2>5. n <= Cardinality(B)
    <3> HIDE DEF heights
    <3> QED
      BY <1>2, <2>4
  <2>6. Cardinality(A) \in Nat /\ Cardinality(B) \in Nat
    BY <1>1
  <2> QED
    BY <1>3, <2>3, <2>5, <2>6
<1>5. a \in DOMAIN ts /\ a \in closed /\ a \in Ancestors(ts, t)
  BY <1>3
<1>6. a \in Visible(ts, closed)
  BY <1>4, <1>5, VisibleIs
<1>7. HasChildren(ts, a)
  <2> DEFINE S == {ts[u].parent : u \in DOMAIN ts}
  <2>1. \A x : ParentOf(ts, x) # Null => ParentOf(ts, x) \in S
    <3> SUFFICES ASSUME NEW x, ParentOf(ts, x) # Null PROVE ParentOf(ts, x) \in S
      OBVIOUS
    <3>1. x \in DOMAIN ts /\ ParentOf(ts, x) = ts[x].parent
      BY ParentIs
    <3> QED
      BY <3>1
  <2> HIDE DEF S
  <2>2. Ancestors(ts, t) \subseteq S
    BY <2>1, AncestorsLeast
  <2> QED
    BY <1>5, <2>2 DEF S, HasChildren
<1> QED
  BY <1>5, <1>6, <1>7

\* Folding the tree hides what is under a collapsed group and nothing else, and leaves
\* a row in view that opens it; a row is indented once for every task above it
\* (taskDepth and visibleTasks of LocalProjectManagementPage, depthById of the Gantt
\* chart).
THEOREM FoldingIsOfTheTree == ViewSpec => []FoldingFollowsTheTree
<1>1. ViewInv /\ FoldInv => FoldingFollowsTheTree
  <2> SUFFICES ASSUME ViewInv, FoldInv, NEW t \in DOMAIN tasks
               PROVE  LET above  == Ancestors(tasks, t)
                          shown  == Visible(tasks, collapsed)
                          closed == above \cap collapsed
                      IN  /\ t \in shown <=> closed = {}
                          /\ Depth(tasks, t) = Cardinality(IF GoesRound(tasks, t)
                                                           THEN above \cup {t} ELSE above)
                          /\ \/ t \in shown \/ GoesRound(tasks, t)
                             \/ /\ workspace # answers.first
                                /\ workspace.id = answers.first.id
                                /\ ~(closed \subseteq DOMAIN tasks)
                             \/ \E a \in closed \cap shown : HasChildren(tasks, a)
    BY DEF FoldingFollowsTheTree
  <2>1. Rows(tasks)
    BY DEF ViewInv, IsWorkspace, Rows, tasks
  <2>2. t \in Ids(tasks)
    BY <2>1, ParentIs
  <2>3. t \in Visible(tasks, collapsed) <=> Ancestors(tasks, t) \cap collapsed = {}
    BY <2>1, VisibleIs
  <2>4. GoesRound(tasks, t) => Depth(tasks, t) = Cardinality(Ancestors(tasks, t) \cup {t})
    BY <2>1, <2>2, DepthOfRound
  <2>5. ~GoesRound(tasks, t) => Depth(tasks, t) = Cardinality(Ancestors(tasks, t))
    BY <2>1, <2>2, DepthOfTree
  <2>6. ASSUME t \notin Visible(tasks, collapsed), ~GoesRound(tasks, t),
               Ancestors(tasks, t) \cap collapsed \subseteq DOMAIN tasks
        PROVE  \E a \in (Ancestors(tasks, t) \cap collapsed) \cap Visible(tasks, collapsed) :
                  HasChildren(tasks, a)
    BY <2>1, <2>6, HiddenCanBeOpened
  <2>7. \/ Ancestors(tasks, t) \cap collapsed \subseteq DOMAIN tasks
        \/ workspace # answers.first /\ workspace.id = answers.first.id
    BY DEF FoldInv
  <2> QED
    BY <2>3, <2>4, <2>5, <2>6, <2>7
<1>2. ViewSpec => []FoldInv
  <2>1. ViewInit => FoldInv
    BY FoldInitially
  <2>2. ViewInv /\ FoldInv /\ [ViewNext]_viewVars => FoldInv'
    BY FoldStep
  <2> QED
    BY <2>1, <2>2, ViewInvariance, PTL DEF ViewSpec
<1> QED
  BY <1>1, <1>2, ViewInvariance, PTL
===============================================================================
