-------------------------- MODULE MCLocalProjectPage --------------------------
(* Two projects in the list and one that is no longer there; each behaviour *)
(* uses one of these sets of fetches and links, besides lists and           *)
(* workspaces.                                                              *)
EXTENDS LocalProjectPage

CONSTANTS pA, pB, pGone

MCProjects == {pA, pB, pGone}
MCListed == {pA, pB}

Link(p, tfs, sheet, analysis) ==
    [projectId |-> p, tfsProjectRef |-> tfs, sheet |-> sheet,
     analysis |-> analysis]

Plain == Link(None, FALSE, "overview", None)
ToA(analysis) == Link(pA, FALSE, "overview", analysis)
ToB == Link(pB, FALSE, "pmbok", None)
ToGone == Link(pGone, FALSE, "overview", None)
OfTfs == Link(None, TRUE, "overview", None)

Play(calls_, links_) ==
    [calls |-> calls_, links |-> links_,
     mappings |-> IF OfTfs \in links_ THEN {None, pB, pGone} ELSE {None}]

MCInPlay ==
    {Play({"pmbok", "criticalPath"},
          {Plain, ToA("criticalPath"), ToB, ToGone, OfTfs}),
     Play({"baselines", "comparison"}, {Plain}),
     Play({"activity"}, {ToA("activity"), OfTfs}),
     Play({"detail", "replies"}, {Plain}), Play({"gantt", "detail"}, {Plain}),
     Play({"payments", "documents"}, {Plain}),
     Play({"workload", "export"}, {ToA("workload"), OfTfs})}

===============================================================================
