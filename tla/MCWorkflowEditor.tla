-------------------------- MODULE MCWorkflowEditor --------------------------
(* Instances of WorkflowEditor for TLC. *)
EXTENDS WorkflowEditor, TLC

\* A chain of three, and a step alone, which leaves room for two more.
Chain3 == {[rows |-> {1, 2, 3}, links |-> {<<1, 2, "failure">>, <<2, 3, "success">>}]}
Alone  == {[rows |-> {1}, links |-> {}]}
MCSavedGraphs == Chain3 \cup Alone

\* No link, a link from or to an approval, and two that form a cycle.
MCSuggestions ==
  {<<>>,
   <<2, 3>> :> "success",
   <<3, 2>> :> "always",
   (<<2, 3>> :> "failure") @@ (<<3, 2>> :> "always")}
=============================================================================
