-------------------------- MODULE WorkflowManager --------------------------
(***************************************************************************)
(* One running workflow job: the passes of WorkflowManager over it         *)
(* (awx/main/scheduler/task_manager.py), the jobs it spawns, the people    *)
(* who cancel it, decide its approvals or delete its templates, and the    *)
(* approval timeout of the task manager.                                   *)
(*                                                                         *)
(* A pass is one database transaction under the workflow_manager advisory  *)
(* lock, at READ COMMITTED: it reads the workflow row, then the node rows, *)
(* then each job when the walk first touches it, and its writes show when  *)
(* it commits.  Everybody else commits as they go, so what a pass read may *)
(* be stale when it writes.                                                *)
(***************************************************************************)
EXTENDS WorkflowDag

CONSTANTS Workflows,    \* the workflow jobs considered: [graph, rows]
          Outcomes,     \* how a job may end when nobody cancels it
          Deciders,     \* who decides approvals
          Requests,     \* which requests about the workflow job users make
          Cancelable,   \* the nodes whose jobs users cancel
          Deletable     \* the nodes whose templates users delete

View(jobs) == [dnr : SUBSET Nodes, missing : SUBSET Nodes, awaiting : SUBSET Nodes,
               bypassed : [Nodes -> {"none", "successful", "failed"}],
               job : [Nodes -> jobs]]
Rows == View(JobStatus \cup {"none"})

ASSUME WorkflowsAssumption ==
  \A w \in Workflows : /\ Edges(w.graph) \subseteq Nodes \X Nodes
                       /\ w.graph.all \subseteq Nodes
                       /\ w.graph.kind \in [Nodes -> Kinds]
                       /\ w.rows \in Rows
                       /\ \A n \in Nodes : w.rows.job[n] = "none"
                       /\ \A n \in w.rows.awaiting : w.graph.kind[n] = "ai"
\* They have just been created, nothing is skipped or bypassed yet; and the
\* API refuses a link that would close a cycle: of some nodes, one has no
\* parent among them.
ASSUME FreshAssumption ==
  \A w \in Workflows : w.rows.dnr = {} /\ \A n \in Nodes : w.rows.bypassed[n] = "none"
ASSUME AcyclicAssumption ==
  \A w \in Workflows : \A X \in (SUBSET Nodes) \ {{}} :
    \E n \in X : Parents(w.graph, n) \cap X = {}
ASSUME OutcomesAssumption == Outcomes \subseteq {"successful", "failed", "error"}
ASSUME DecidersAssumption == Deciders \subseteq {"approve", "deny", "timeout"}
ASSUME RequestsAssumption ==
  /\ Requests \subseteq {"cancel", "resume"}
  /\ Cancelable \subseteq Nodes /\ Deletable \subseteq Nodes

VARIABLES
  graph,        \* the edge tables: fixed once the workflow job is created
  status,       \* WorkflowJob.status
  cancelFlag,   \* WorkflowJob.cancel_flag
  rows,         \* the node rows, and the statuses of their jobs
  jobCancel,    \* nodes whose job has cancel_flag set
  pass,         \* where the pass stands: idle, fetched, reading
  seen,         \* the rows the pass has read
  seenCancel,   \* the cancel_flag the pass has read
  deciding,     \* approvals read as pending by someone about to decide them
  cancelling,   \* where the cancel request stands
  resumed       \* whether the workflow job is the resumed copy

vars == <<graph, status, cancelFlag, rows, jobCancel,
          pass, seen, seenCancel, deciding, cancelling, resumed>>
wfmVars == <<pass, seen, seenCancel>>
userVars == <<deciding, cancelling, resumed>>

\* A pass starts with the jobs of its nodes not read yet.
Unread == "unread"
SeenRows == View(JobStatus \cup {"none", Unread})
NothingSeen == [dnr |-> {}, missing |-> {}, awaiting |-> {},
                bypassed |-> [n \in Nodes |-> "none"],
                job |-> [n \in Nodes |-> "none"]]

Graphs == {w.graph : w \in Workflows}
Decisions == Nodes \X Deciders
Steps == {"no", "accepted", "flagged", "marked", "active", "clear", "over"}

TypeOK ==
  /\ graph \in Graphs
  /\ status \in {"running", "successful", "failed", "canceled"}
  /\ cancelFlag \in BOOLEAN
  /\ rows \in Rows
  /\ jobCancel \in SUBSET Nodes
  /\ pass \in {"idle", "fetched", "reading"}
  /\ seen \in SeenRows
  /\ seenCancel \in BOOLEAN
  /\ deciding \in SUBSET Decisions
  /\ cancelling \in Steps
  /\ resumed \in BOOLEAN

\* The task manager has just moved the workflow job to running.
Init ==
  /\ \E w \in Workflows : graph = w.graph /\ rows = w.rows
  /\ status = "running"
  /\ cancelFlag = FALSE
  /\ jobCancel = {}
  /\ pass = "idle"
  /\ seen = NothingSeen
  /\ seenCancel = FALSE
  /\ deciding = {}
  /\ cancelling = "no"
  /\ resumed = FALSE

HasJob(n) == rows.job[n] # "none"
Approval(n) == graph.kind[n] \in {"approval", "ai"}

-----------------------------------------------------------------------------
(* The pass of the workflow manager *)

\* get_tasks: the running workflow jobs.
WfmFetch ==
  /\ pass = "idle"
  /\ status = "running"
  /\ pass' = "fetched"
  /\ seenCancel' = cancelFlag
  /\ UNCHANGED <<graph, status, cancelFlag, rows, jobCancel,
                 seen, userVars>>

\* WorkflowDAG(workflow_job): the node rows.
WfmReadNodes ==
  /\ pass = "fetched"
  /\ pass' = "reading"
  /\ seen' = [rows EXCEPT !.job =
                [n \in Nodes |-> IF HasJob(n) THEN Unread ELSE "none"]]
  /\ UNCHANGED <<graph, status, cancelFlag, rows, jobCancel,
                 seenCancel, userVars>>

\* The first access to obj.job reads the job's row; later ones do not.
WfmReadJob(n) ==
  /\ pass = "reading"
  /\ seen.job[n] = Unread
  /\ seen' = [seen EXCEPT !.job[n] = rows.job[n]]
  /\ UNCHANGED <<graph, status, cancelFlag, rows, jobCancel,
                 pass, seenCancel, userVars>>

AllRead == pass = "reading" /\ \A n \in Nodes : seen.job[n] # Unread

EndPass ==
  /\ pass' = "idle"
  /\ seen' = NothingSeen
  /\ seenCancel' = FALSE

\* Nodes whose job cancel() touches: approvals it ends, others it flags.
SeenActive == {n \in Nodes : seen.job[n] \in Active}
Flagged == {n \in SeenActive : ~Approval(n)}

\* A view, or the rows, with the approvals ended.
Ended(s) == [s EXCEPT !.job = [n \in Nodes |->
               IF n \in SeenActive /\ Approval(n) THEN "canceled" ELSE @[n]]]

\* What the cancel_flag branch writes: no node without a job may run any more,
\* and every spawned job is cancelled.
RowsCancelled == Ended([rows EXCEPT !.dnr = @ \cup {n \in Nodes : ~HasJob(n)}])

\* The nodes read, with D the do_not_run nodes mark_dnr_nodes leaves.
Marked(D) == [seen EXCEPT !.dnr = D]
RowsMarked(D) == [rows EXCEPT !.dnr = @ \cup (D \ seen.dnr)]

\* Nothing is left to wait for.
WfmFinish(D) ==
  /\ IsWorkflowDone(graph, Marked(D))
  /\ rows' = RowsMarked(D)
  /\ status' = IF HasWorkflowFailed(graph, Marked(D))
               THEN "failed" ELSE "successful"
  /\ UNCHANGED jobCancel

\* What spawning node n does to its row: an EDA activation is synchronised,
\* an AI task is run or put up for approval, and any other node gets a job,
\* which fails at once when it cannot be started.
SpawnResults(n) ==
  CASE graph.kind[n] = "eda" -> {"successful", "failed"}
    [] graph.kind[n] = "ai"  -> {"successful", "failed", "pending"}
    [] OTHER                 -> {"pending", "failed"}

\* The nodes in S are spawned, in rows that the pass has made w.  One that gets
\* a job is saved whole, so its do_not_run becomes what the pass read: false.
SpawnNodes(w, S, result) ==
  LET jobs == {n \in S : ~Virtual(graph, n)}
      asks == {n \in S : graph.kind[n] = "ai" /\ result[n] = "pending"}
      done == S \ (jobs \cup asks)
  IN  rows' = [w EXCEPT
        !.dnr = @ \ jobs,
        !.bypassed = [n \in Nodes |-> IF n \in done THEN result[n] ELSE @[n]],
        !.job = [n \in Nodes |-> IF n \in jobs \cup asks THEN result[n] ELSE @[n]],
        !.awaiting = @ \cup asks]

\* What bfs_nodes_to_run, walking over R, takes of the view s.
ToSpawn(s, R) == {n \in R : MayRun(graph, s, n)}

\* The end of a pass that leaves the workflow job running: s is the view in
\* memory, w the rows as the pass has written them so far.
WfmSpawn(s, w) ==
  \E R \in SUBSET Nodes :
    /\ IsReached(graph, s, R)
    /\ \A n \in ToSpawn(s, R) : ~NoTemplate(graph, rows, n)
    /\ \E result \in [ToSpawn(s, R) -> {"successful", "failed", "pending"}] :
         /\ \A n \in ToSpawn(s, R) : result[n] \in SpawnResults(n)
         /\ SpawnNodes(w, ToSpawn(s, R), result)

\* Mutant: an approval is flagged like any other job.
WfmCancel_flagsApprovals ==
  /\ AllRead
  /\ seenCancel
  /\ jobCancel' = jobCancel \cup SeenActive
  /\ rows' = [rows EXCEPT !.dnr = @ \cup {n \in Nodes : ~HasJob(n)}]
  /\ status' = IF SeenActive = {} THEN "canceled" ELSE status
  /\ EndPass
  /\ UNCHANGED <<graph, cancelFlag, userVars>>

\* The cancel_flag branch.  The workflow job ends when all its jobs have; as
\* long as one has not, the pass goes on to spawn, and it goes by the nodes as
\* it read them: the marks it has just made do not count.
WfmCancel ==
  /\ AllRead
  /\ seenCancel
  /\ jobCancel' = jobCancel \cup Flagged
  /\ \/ Flagged = {} /\ rows' = RowsCancelled /\ status' = "canceled"
     \/ Flagged # {} /\ WfmSpawn(Ended(seen), RowsCancelled) /\ UNCHANGED status
  /\ EndPass
  /\ UNCHANGED <<graph, cancelFlag, userVars>>

\* The other branch of spawn_workflow_graph_jobs, and the commit.
WfmDecide ==
  /\ AllRead
  /\ ~seenCancel
  /\ \E D \in SUBSET Nodes :
       /\ IsMarking(graph, seen, D)
       /\ \/ WfmFinish(D)
          \/ /\ ~IsWorkflowDone(graph, Marked(D))
             /\ WfmSpawn(Marked(D), RowsMarked(D))
             /\ UNCHANGED <<status, jobCancel>>
  /\ EndPass
  /\ UNCHANGED <<graph, cancelFlag, userVars>>

\* The view a pass spawns by.
SpawnsBy(s) ==
  \/ seenCancel /\ Flagged # {} /\ s = Ended(seen)
  \/ ~seenCancel /\ IsMarking(graph, seen, s.dnr) /\ s = Marked(s.dnr)

\* A template to spawn from was deleted under the pass: the foreign key of
\* the new job fails and the transaction is rolled back.
WfmRollback ==
  /\ AllRead
  /\ \E s \in {Ended(seen)} \cup {Marked(D) : D \in SUBSET Nodes} :
       /\ SpawnsBy(s)
       /\ \E R \in SUBSET Nodes :
            /\ IsReached(graph, s, R)
            /\ \E n \in ToSpawn(s, R) : NoTemplate(graph, rows, n)
  /\ EndPass
  /\ UNCHANGED <<graph, status, cancelFlag, rows, jobCancel, userVars>>

-----------------------------------------------------------------------------
(* The spawned jobs *)

SetJob(n, st) == rows' = [rows EXCEPT !.job[n] = st]

\* Mutant: the job is left as waiting.
JobStart_asWaiting(n) ==
  /\ graph.kind[n] = "job"
  /\ rows.job[n] = "pending"
  /\ SetJob(n, "waiting")
  /\ jobCancel' = jobCancel \ {n}
  /\ UNCHANGED <<graph, status, cancelFlag, wfmVars, userVars>>

\* The task manager starts it, from a row it may have read before somebody
\* cancelled it: the row is saved whole, and the flag is lost.
JobStart(n) ==
  /\ graph.kind[n] = "job"
  /\ rows.job[n] = "pending"
  /\ SetJob(n, "running")
  /\ jobCancel' = jobCancel \ {n}
  /\ UNCHANGED <<graph, status, cancelFlag, wfmVars, userVars>>

\* It ends; a pending one when a dependency or its start check fails.
JobEnd(n, st) ==
  /\ graph.kind[n] = "job"
  /\ \/ rows.job[n] = "running" /\ st \in Outcomes
     \/ rows.job[n] = "pending" /\ st = "failed"
     \/ rows.job[n] \in Active /\ n \in jobCancel /\ st = "canceled"
  /\ SetJob(n, st)
  /\ UNCHANGED <<graph, status, cancelFlag, jobCancel,
                 wfmVars, userVars>>

\* Somebody cancels one spawned job.
CancelJob(n) ==
  /\ n \in Cancelable
  /\ graph.kind[n] = "job"
  /\ rows.job[n] \in Active
  /\ n \notin jobCancel
  /\ jobCancel' = jobCancel \cup {n}
  /\ UNCHANGED <<graph, status, cancelFlag, rows,
                 wfmVars, userVars>>

\* Approve, deny and the timeout of the task manager each read the approval
\* as pending, and write later.
ReadApproval(n, how) ==
  /\ Approval(n)
  /\ rows.job[n] = "pending"
  /\ how = "timeout" => graph.kind[n] = "approval"
  /\ deciding' = deciding \cup {<<n, how>>}
  /\ UNCHANGED <<graph, status, cancelFlag, rows, jobCancel,
                 wfmVars, cancelling, resumed>>

\* An AI task still waiting takes the decision too; applying its plan may
\* fail.
WriteApproval(n, how, st) ==
  LET asked == n \in rows.awaiting /\ how # "timeout"
  IN  /\ <<n, how>> \in deciding
      /\ st = "successful" => how = "approve"
      /\ st = "failed" /\ how = "approve" => asked
      /\ rows' = [rows EXCEPT
                    !.job[n] = st,
                    !.bypassed[n] = IF asked THEN st ELSE @,
                    !.awaiting = @ \ {n}]
      /\ deciding' = deciding \ {<<n, how>>}
      /\ UNCHANGED <<graph, status, cancelFlag, jobCancel, wfmVars, cancelling, resumed>>

\* A template none of whose jobs is active may be deleted at any time.
DeleteTemplate(n) ==
  /\ n \in Deletable
  /\ status = "running"
  /\ ~Virtual(graph, n)
  /\ n \notin rows.missing
  /\ rows.job[n] \notin Active
  /\ rows' = [rows EXCEPT !.missing = @ \cup {n}]
  /\ UNCHANGED <<graph, status, cancelFlag, jobCancel,
                 wfmVars, userVars>>

-----------------------------------------------------------------------------
(* WorkflowJob.cancel, outside any transaction *)

CancelAccept ==
  /\ "cancel" \in Requests
  /\ cancelling = "no"
  /\ status = "running"
  /\ cancelling' = "accepted"
  /\ UNCHANGED <<graph, status, cancelFlag, rows, jobCancel,
                 wfmVars, deciding, resumed>>

CancelSetFlag ==
  /\ cancelling = "accepted"
  /\ cancelFlag' = TRUE
  /\ cancelling' = "flagged"
  /\ UNCHANGED <<graph, status, rows, jobCancel, wfmVars, deciding, resumed>>

\* Mutant: nodes that have a job are marked too.
CancelMarkNodes_all ==
  /\ cancelling = "flagged"
  /\ rows' = [rows EXCEPT !.dnr = Nodes]
  /\ cancelling' = "marked"
  /\ UNCHANGED <<graph, status, cancelFlag, jobCancel,
                 wfmVars, deciding, resumed>>

CancelMarkNodes ==
  /\ cancelling = "flagged"
  /\ rows' = [rows EXCEPT !.dnr = @ \cup {n \in Nodes : ~HasJob(n)}]
  /\ cancelling' = "marked"
  /\ UNCHANGED <<graph, status, cancelFlag, jobCancel,
                 wfmVars, deciding, resumed>>

\* The jobs of one query of the nodes are cancelled and read again.  The
\* join may give an approval as a plain job, whose cancel() only flags it:
\* ended is what the library's class for the row makes of them.
CancelChildren(ended) ==
  /\ cancelling = "marked"
  /\ LET active == {n \in Nodes : rows.job[n] \in Active}
     IN  /\ ended \in SUBSET {n \in active : Approval(n)}
         /\ rows' = [rows EXCEPT !.job = [n \in Nodes |->
                       IF n \in ended THEN "canceled" ELSE @[n]]]
         /\ jobCancel' = jobCancel \cup {n \in active : ~Approval(n)}
         /\ cancelling' = IF active = ended THEN "clear" ELSE "active"
  /\ UNCHANGED <<graph, status, cancelFlag, wfmVars, deciding, resumed>>

CancelClose ==
  /\ cancelling \in {"clear", "active"}
  /\ status' = IF cancelling = "clear" THEN "canceled" ELSE status
  /\ cancelling' = "over"
  /\ UNCHANGED <<graph, cancelFlag, rows, jobCancel, wfmVars, deciding, resumed>>

\* The process serving the request dies between two of its writes.
CancelDies ==
  /\ cancelling \in {"accepted", "flagged", "marked", "clear", "active"}
  /\ cancelling' = "over"
  /\ UNCHANGED <<graph, status, cancelFlag, rows, jobCancel,
                 wfmVars, deciding, resumed>>

-----------------------------------------------------------------------------
Wfm == WfmFetch \/ WfmReadNodes \/ (\E n \in Nodes : WfmReadJob(n))
         \/ WfmCancel \/ WfmDecide \/ WfmRollback

JobSteps(n) == JobStart(n) \/ \E st \in Terminal : JobEnd(n, st)

\* The failed or canceled workflow job is copied into a new one, which starts
\* over: succeeded nodes are bypassed, skipped ones stay skipped, and
\* ai_task_status is one of the fields copied.
Resume ==
  /\ "resume" \in Requests
  /\ ~resumed
  /\ status \in {"failed", "canceled"}
  /\ LET done == {n \in Nodes : \/ rows.job[n] = "successful"
                                \/ rows.bypassed[n] = "successful"}
     IN  rows' = [dnr      |-> rows.dnr \ done,
                  missing  |-> rows.missing,
                  awaiting |-> rows.awaiting,
                  bypassed |-> [n \in Nodes |->
                                 IF n \in done THEN "successful" ELSE "none"],
                  job      |-> [n \in Nodes |-> "none"]]
  /\ resumed' = TRUE
  /\ status' = "running"
  /\ cancelFlag' = FALSE
  /\ jobCancel' = {}
  /\ deciding' = {}
  /\ cancelling' = "no"
  /\ EndPass
  /\ UNCHANGED graph

Decide(n, how) == \E st \in {"successful", "failed"} : WriteApproval(n, how, st)

Cancel == CancelAccept \/ CancelSetFlag \/ CancelMarkNodes
            \/ (\E ended \in SUBSET Nodes : CancelChildren(ended))
            \/ CancelClose \/ CancelDies

Next ==
  \/ Wfm
  \/ \E n \in Nodes : JobSteps(n) \/ CancelJob(n) \/ DeleteTemplate(n)
  \/ \E n \in Nodes, how \in Deciders : ReadApproval(n, how) \/ Decide(n, how)
  \/ Cancel
  \/ Resume

Spec == Init /\ [][Next]_vars

\* The task manager runs every 20 seconds and schedules the workflow manager
\* for every running workflow job; a job that is started ends; an approval
\* that expires is timed out.  Nobody has to cancel, approve or delete.
FairSpec ==
  /\ Spec
  /\ WF_vars(Wfm)
  /\ \A n \in Nodes : WF_vars(JobSteps(n))
  /\ \A n \in Nodes, how \in Deciders : WF_vars(Decide(n, how))
  /\ \A n \in Nodes : WF_vars("timeout" \in Deciders /\ ReadApproval(n, "timeout"))
-----------------------------------------------------------------------------
(* What the workflow job is meant to do *)

\* A node that came to something: it ran, was bypassed, or has no template
\* and counts as a failure (has_workflow_failed).
Ran(n) == \/ rows.bypassed[n] # "none"
          \/ HasJob(n)
          \/ NoTemplate(graph, rows, n) /\ n \notin rows.dnr

\* The rule for running a node, for the outcomes its parents have now.
RunsByRule(n) ==
  \/ n \in Roots(graph)
  \/ /\ n \notin graph.all
     /\ \E p \in Parents(graph, n) : Fires(graph, rows, p, n)
  \/ /\ n \in graph.all
     /\ \A p \in Parents(graph, n) : Fires(graph, rows, p, n)

Finished == status \in {"successful", "failed"} /\ ~cancelFlag

\* A parent that failed without the status failed, which is all that
\* _all_parents_met_convergence_criteria looks at: it errored, was cancelled,
\* or cannot have a job.
Unseen(p) == /\ Failed(graph, rows, p)
             /\ rows.job[p] # "failed" /\ rows.bypassed[p] # "failed"

\* An ALL node with such a parent: what becomes of it is left to its other
\* parents.
BlindSpot ==
  \E n \in graph.all : \E p \in Parents(graph, n) : p \notin rows.dnr /\ Unseen(p)

\* An ALL node that goes by what it cannot know yet.  The parent it does not
\* see may still be skipped; and one that has no template itself counts as
\* failed as soon as any parent of it leads there.
TooEarly ==
  \E n \in graph.all : \/ Unseen(n) /\ ~HasJob(n)
                      \/ \E p \in Parents(graph, n) : Unseen(p)

\* In a workflow job that came to its end, the nodes that ran are exactly
\* those the outcomes of their parents call for: the order in which passes
\* and jobs interleaved left no trace (mark_dnr_nodes, bfs_nodes_to_run).
FollowsEdges ==
  Finished /\ ~TooEarly /\ ~resumed =>
    \A n \in Nodes : Ran(n) <=> RunsByRule(n)

\* The final status says failed exactly when some node failed with no
\* failure or always link out of it, as the rows stand when the pass commits
\* and not only as it read them (has_workflow_failed).
FailedIsUnhandled ==
  Finished => (status = "failed" <=>
    \E n \in Nodes : /\ n \notin rows.dnr
                     /\ Failed(graph, rows, n)
                     /\ \A m \in Nodes : <<n, m>> \notin FailurePath(graph))

\* Once the workflow job is over, none of its jobs is left to run
\* (docs/workflow.md:118).
NoOrphans ==
  status # "running" => \A n \in Nodes : rows.job[n] \notin Active

\* do_not_run means that no job will be created for the node
\* (awx/main/models/workflow.py:420).  An AI task is the exception: a cancel
\* request may mark it while a pass puts it up for approval.
PlainDnrHasNoJob == \A n \in rows.dnr : graph.kind[n] # "ai" => ~HasJob(n)

\* A job template node a resumed workflow job bypasses is not run again
\* (awx/main/models/workflow.py:984).
BypassedIsDone ==
  \A n \in Nodes : graph.kind[n] = "job" /\ rows.bypassed[n] # "none" => ~HasJob(n)

\* A node is started only when every parent of it is over, in the rows as
\* the pass commits: no child ahead of its parent.
ParentsFirst ==
  [][\A n \in Nodes :
       ~HasJob(n) /\ HasJob(n)' => RelevantParentsFinished(graph, rows', n)]_vars

\* A node gets one job in the workflow job's life, and it does not run twice.
OneJobPerNode ==
  [][~resumed' \/ resumed =>
       \A n \in Nodes : /\ HasJob(n) => HasJob(n)'
                        /\ rows.job[n] \in Terminal => rows'.job[n] \in Terminal]_vars

\* People decide the approvals they are asked for.
PeopleDecide == \A n \in Nodes : []<>~(Approval(n) /\ rows.job[n] = "pending")

\* Every workflow job comes to an end (docs/workflow.md:110).
Terminates == PeopleDecide => (status = "running" ~> status # "running")

\* Only an ALL node in the blind spot can keep it from its end.
TerminatesButForBlindSpot ==
  PeopleDecide => (status = "running" ~> status # "running" \/ BlindSpot)

\* A workflow job somebody cancelled comes to an end.
CancelEnds == cancelFlag ~> status # "running"
=============================================================================
