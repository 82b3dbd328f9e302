--------------------------- MODULE MCWorkItemUpdate ---------------------------
(* A small instance of WorkItemUpdate for TLC. *)
EXTENDS WorkItemUpdate

MCFields == {"title", "tags"}
MCFieldValues == {"f1", "f2"}
MCStates == {"New", "Active", "Closed", "Removed"}
MCTransitions == {<<"New", "Active">>, <<"Active", "Closed">>,
                  <<"Closed", "Active">>, <<"New", "Removed">>,
                  <<"Active", "Removed">>}
MCItems == {"a", "b"}

L(r, t) == [rel |-> r, to |-> t]

H(c, r) == [completed |-> c, remaining |-> r]

Fill(title, tags) == [f \in MCFields |-> IF f = "title" THEN title ELSE tags]

Update(f, p, d, s, percent) ==
    [kind |-> "update", fields |-> f, parent |-> p, preds |-> d, state |-> s,
     progress |-> percent]

\* A blank title beside other entries and alone; no entry at all; a progress to
\* round, one out of range and one of 100; every kind of change of the links.
MCWants ==
    { Update(Fill(Unusable, "f2"), NoParent, Keep, "Closed", 50),
      Update(Fill(Keep, Keep), "b", <<"b">>, Keep, Keep),
      Update(Fill("f2", Keep), "a", <<>>, "Active", 30),
      Update(Fill(Keep, Keep), NoParent, <<>>, Keep, Unusable),
      Update(Fill(Unusable, Keep), NoParent, Keep, "Closed", 100),
      [Update(Fill(Keep, Keep), NoParent, Keep, Keep, Keep) EXCEPT !.kind = "remove"] }

MCFirstVersions ==
    { [rev |-> 1, fields |-> Fill("f1", "f1"), hours |-> H(100, 25), state |-> "New",
       links |-> <<L("predecessor", "a"), L("related", "a"),
                   L("parent", "a"), L("predecessor", "b")>>],
      [rev |-> 1, fields |-> Fill("f1", "f1"), hours |-> NoHours, state |-> "New",
       links |-> <<>>] }

MCContents ==
    { [fields |-> Fill("f1", "f2"), hours |-> H(0, 0), state |-> "Active",
       links |-> <<L("related", "b"), L("parent", "b"), L("related", "a")>>],
      [fields |-> Fill("f2", "f1"), hours |-> H(40, 60), state |-> "New", links |-> <<>>] }

===============================================================================
