---------------------------- MODULE WorkflowDag ----------------------------
(***************************************************************************)
(* The decisions the workflow manager takes about one workflow job, as     *)
(* operators over the graph of its nodes and what the manager read of its  *)
(* rows (awx/main/scheduler/dag_workflow.py, dag_simple.py).               *)
(*                                                                         *)
(* A graph g is [success, failure, always : SUBSET (Nodes \X Nodes),       *)
(*   all : SUBSET Nodes, kind : [Nodes -> Kinds]]: the three edge tables,  *)
(* the nodes with all_parents_must_converge and each node's type.          *)
(* A view s is [dnr, missing, awaiting : SUBSET Nodes, bypassed, job]: the *)
(* nodes with do_not_run, those whose unified_job_template is NULL, those  *)
(* whose ai_task_status is 'awaiting_approval', bypassed_job_status, and   *)
(* the status of the spawned job, if any.                                  *)
(*                                                                         *)
(* The code walks the graph in loops: mark_dnr_nodes in topological order, *)
(* bfs_nodes_to_run in breadth-first order.  On an acyclic graph each loop *)
(* computes the one solution of an equation over the nodes, and the        *)
(* equation is what is written here (IsMarking, IsReached).                *)
(***************************************************************************)
EXTENDS FiniteSets

CONSTANT Nodes

Kinds == {"job", "approval", "eda", "ai"}
Active == {"pending", "running"}
Terminal == {"successful", "failed", "error", "canceled"}
JobStatus == Active \cup Terminal

Edges(g) == g.success \cup g.failure \cup g.always
Parents(g, n) == {p \in Nodes : <<p, n>> \in Edges(g)}
Roots(g) == {n \in Nodes : Parents(g, n) = {}}

\* A node the manager finishes itself, with no job of its own.
Virtual(g, n) == g.kind[n] \in {"eda", "ai"}
\* A node that can never get a job.
NoTemplate(g, s, n) == n \in s.missing /\ ~Virtual(g, n)

\* What a node has come to, in the order bfs_nodes_to_run and
\* _should_mark_node_dnr ask: the bypassed status, then the job's, then
\* whether it can have a job at all.
Succeeded(s, p) ==
  \/ s.bypassed[p] = "successful"
  \/ s.bypassed[p] = "none" /\ s.job[p] = "successful"

Failed(g, s, p) ==
  \/ s.bypassed[p] = "failed"
  \/ s.bypassed[p] = "none" /\ s.job[p] \in Terminal \ {"successful"}
  \/ s.bypassed[p] = "none" /\ s.job[p] = "none" /\ NoTemplate(g, s, p)

\* The edges a success or a failure follows.
SuccessPath(g) == g.success \cup g.always
FailurePath(g) == g.failure \cup g.always

Fires(g, s, p, n) ==
  /\ p \notin s.dnr
  /\ \/ Succeeded(s, p) /\ <<p, n>> \in SuccessPath(g)
     \/ Failed(g, s, p) /\ <<p, n>> \in FailurePath(g)

RelevantParentsFinished(g, s, n) ==
  \A p \in Parents(g, n) :
    \/ p \in s.dnr
    \/ s.bypassed[p] # "none"
    \/ ~Virtual(g, p) /\ (p \in s.missing \/ s.job[p] \in Terminal)

\* Only 'successful' and 'failed' parents are looked at: any other parent
\* passes.
AllParentsMetConvergenceCriteria(g, s, n) ==
  \A p \in Parents(g, n) :
    LET status == IF s.job[p] \in {"successful", "failed"}
                  THEN s.job[p] ELSE s.bypassed[p]
    IN  /\ status = "successful" => <<p, n>> \in SuccessPath(g)
        /\ status = "failed" => <<p, n>> \in FailurePath(g)

\* Mutant: the spawned job is not looked at once it is over.
WaitsForJobOrVirtualSuccess_again(g, s, n) ==
  /\ n \notin s.dnr
  /\ s.job[n] = "none" \/ s.job[n] \in {"failed", "error", "canceled"}
  /\ s.bypassed[n] = "none"
  /\ ~NoTemplate(g, s, n)

\* Mutant: bypassed_job_status is not looked at.
WaitsForJobOrVirtualSuccess_rerun(g, s, n) ==
  /\ n \notin s.dnr
  /\ s.job[n] = "none"
  /\ ~NoTemplate(g, s, n)

WaitsForJobOrVirtualSuccess(g, s, n) ==
  /\ n \notin s.dnr
  /\ s.job[n] = "none"
  /\ s.bypassed[n] = "none"
  /\ ~NoTemplate(g, s, n)

\* Mutant: a skipped parent does not count as decided.
ShouldMarkDnr_skippedWaits(g, s, n) ==
  \A p \in Parents(g, n) :
    /\ p \notin s.dnr
    /\ Succeeded(s, p) \/ Failed(g, s, p)
    /\ ~Fires(g, s, p, n)

ShouldMarkDnr(g, s, n) ==
  \A p \in Parents(g, n) :
    /\ p \in s.dnr \/ Succeeded(s, p) \/ Failed(g, s, p)
    /\ ~Fires(g, s, p, n)

\* Mutant: one parent that leads elsewhere is enough.
MarksNode_early(g, s, n) ==
  /\ n \notin Roots(g)
  /\ s.job[n] = "none"
  /\ s.bypassed[n] = "none"
  /\ \E p \in Parents(g, n) :
       /\ p \in s.dnr \/ Succeeded(s, p) \/ Failed(g, s, p)
       /\ ~Fires(g, s, p, n)

\* Whether the step of mark_dnr_nodes for node n marks it, its parents'
\* do_not_run being as in s.
MarksNode(g, s, n) ==
  /\ n \notin Roots(g)
  /\ s.job[n] = "none"
  /\ s.bypassed[n] = "none"
  /\ IF n \in g.all
     THEN \/ Parents(g, n) \cap s.dnr # {}
          \/ ~AllParentsMetConvergenceCriteria(g, s, n)
     ELSE /\ \A p \in Parents(g, n) : ~WaitsForJobOrVirtualSuccess(g, s, p)
          /\ ShouldMarkDnr(g, s, n)

\* D is what mark_dnr_nodes leaves as the do_not_run nodes.
IsMarking(g, s, D) ==
  \A n \in Nodes :
    n \in D <=> n \in s.dnr \/ MarksNode(g, [s EXCEPT !.dnr = D], n)

\* R is what bfs_nodes_to_run visits.
IsReached(g, s, R) ==
  \A n \in Nodes :
    n \in R <=> n \in Roots(g) \/ \E p \in R : Fires(g, s, p, n)

\* Mutant: the node does not wait for its other parents.
MayRun_anyParent(g, s, n) ==
  /\ WaitsForJobOrVirtualSuccess(g, s, n)
  /\ ~(g.kind[n] = "ai" /\ n \in s.awaiting)
  /\ n \in g.all => AllParentsMetConvergenceCriteria(g, s, n)

\* Whether bfs_nodes_to_run takes a node it visits.
MayRun(g, s, n) ==
  /\ WaitsForJobOrVirtualSuccess(g, s, n)
  /\ ~(g.kind[n] = "ai" /\ n \in s.awaiting)
  /\ RelevantParentsFinished(g, s, n)
  /\ n \in g.all => AllParentsMetConvergenceCriteria(g, s, n)

\* Mutant: a spawned job counts as done.
IsWorkflowDone_spawned(g, s) ==
  \A n \in Nodes : ~WaitsForJobOrVirtualSuccess(g, s, n)

IsWorkflowDone(g, s) ==
  \A n \in Nodes : /\ ~WaitsForJobOrVirtualSuccess(g, s, n)
                   /\ s.job[n] \notin Active

\* Mutant: a node without template is not a failure.
HasWorkflowFailed_noTemplateIgnored(g, s) ==
  \E n \in Nodes :
    /\ \/ s.bypassed[n] = "failed"
       \/ s.job[n] \in Terminal \ {"successful"}
    /\ \A m \in Nodes : <<n, m>> \notin FailurePath(g)

HasWorkflowFailed(g, s) ==
  \E n \in Nodes :
    /\ \/ n \notin s.dnr /\ NoTemplate(g, s, n)
       \/ s.bypassed[n] = "failed"
       \/ s.job[n] \in Terminal \ {"successful"}
    /\ \A m \in Nodes : <<n, m>> \notin FailurePath(g)
=============================================================================
