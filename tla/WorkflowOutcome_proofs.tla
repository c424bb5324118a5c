----------------------- MODULE WorkflowOutcome_proofs -----------------------
(***************************************************************************)
(* What a workflow job comes to: the nodes that ran are the ones the       *)
(* outcomes of their parents call for, and its status is right.            *)
(*                                                                         *)
(* Both hold as long as nobody decides an approval that was decided        *)
(* already, and say nothing of a cancelled workflow job.  Under these      *)
(* conditions an outcome, once there, never changes: what a pass has read  *)
(* is incomplete but never wrong.                                          *)
(***************************************************************************)
EXTENDS WorkflowManager_proofs

USE DEF HasJob, Approval

\* Nobody writes the decision of an approval that is no longer pending.
DecidesOnce ==
  \A n \in Nodes, how \in Deciders : Decide(n, how) => rows.job[n] = "pending"
DecidedOnce == [][DecidesOnce]_vars

HasRun(n) == HasJob(n) \/ rows.bypassed[n] # "none"
Lost(n) == NoTemplate(graph, rows, n) /\ ~HasRun(n)

\* The flag is the first thing a cancel request writes.
FlagFirst ==
  /\ seenCancel => cancelFlag
  /\ cancelling \in {"flagged", "marked", "clear", "active"} => cancelFlag

\* The columns of a node agree on what it came to.
OneOutcome ==
  \A n \in Nodes :
    /\ HasJob(n) /\ rows.bypassed[n] # "none" => rows.bypassed[n] = rows.job[n]
    /\ NoTemplate(graph, rows, n) => rows.job[n] \notin Active
    /\ n \in rows.dnr => ~HasRun(n)

\* What a pass has read of a node that came to something still holds.
SeenForGood ==
  pass = "reading" =>
    /\ seen.dnr = rows.dnr
    /\ \A n \in Nodes :
         /\ seen.job[n] = "none" => seen.bypassed[n] = rows.bypassed[n]
         /\ seen.job[n] \in Terminal => seen.job[n] = rows.job[n]
         /\ seen.bypassed[n] # "none" => seen.bypassed[n] = rows.bypassed[n]
         /\ NoTemplate(graph, seen, n) => seen.job[n] \notin Active

\* The workflow job is over only between passes, with no active job.
OverQuietly ==
  status # "running" =>
    pass = "idle" /\ \A n \in Nodes : rows.job[n] \notin Active

OInv == /\ FlagFirst
        /\ ~cancelFlag => OneOutcome /\ SeenForGood /\ OverQuietly

-----------------------------------------------------------------------------
(* An outcome stays *)

\* A new workflow job has no outcome.
LEMMA InitOInv == Init => OInv
<1> SUFFICES ASSUME Init PROVE OInv
  OBVIOUS
<1>1. PICK w \in Workflows : graph = w.graph /\ rows = w.rows
  BY DEF Init
<1>2. \A n \in Nodes : rows.job[n] = "none" /\ rows.bypassed[n] = "none"
  BY <1>1, WorkflowsAssumption, FreshAssumption
<1>3. rows.dnr = {}
  BY <1>1, FreshAssumption
<1>4. OneOutcome
  BY <1>2, <1>3 DEF OneOutcome, HasRun, Active
<1> QED BY <1>4 DEF Init, OInv, FlagFirst, SeenForGood, OverQuietly

\* What a step other than the commit of a pass does to the rows: a job that
\* is over stays as it is, and an AI task takes over how its approval ended.
Moved ==
  /\ graph' = graph
  /\ rows'.dnr = rows.dnr
  /\ rows.missing \subseteq rows'.missing
  /\ \A n \in Nodes :
       /\ rows'.job[n] = "none" <=> rows.job[n] = "none"
       /\ rows.job[n] \in Terminal => rows'.job[n] = rows.job[n]
       /\ rows'.job[n] \in Active =>
            rows.job[n] \in Active /\ (n \in rows'.missing => n \in rows.missing)
       /\ \/ rows'.bypassed[n] = rows.bypassed[n]
          \/ rows.job[n] = "pending" /\ rows'.bypassed[n] = rows'.job[n]

\* Only one job changes, which was active.
LEMMA MovedOne ==
  ASSUME TypeOK, graph' = graph, NEW n \in Nodes, rows.job[n] \in Active,
         NEW st \in {"running"} \cup Terminal,
         rows' = [rows EXCEPT !.job[n] = st]
  PROVE  Moved
BY DEF TypeOK, Rows, View, Moved, Active, Terminal

\* Jobs move on, people decide and delete: outcomes stay.
LEMMA JobsMove ==
  ASSUME IInv, DecidesOnce, NEW n \in Nodes,
         \/ JobSteps(n) \/ CancelJob(n) \/ DeleteTemplate(n)
         \/ \E how \in Deciders : ReadApproval(n, how) \/ Decide(n, how)
  PROVE  Moved
<1> USE DEF IInv
<1>1. CASE JobStart(n)
  BY <1>1, MovedOne DEF JobStart, SetJob, Active
<1>2. ASSUME NEW st \in Terminal, JobEnd(n, st) PROVE Moved
  BY <1>2, MovedOne DEF JobEnd, SetJob, Active
<1>3. CASE CancelJob(n) \/ \E how \in Deciders : ReadApproval(n, how)
  BY <1>3 DEF CancelJob, ReadApproval, Moved
<1>4. CASE DeleteTemplate(n)
  <2>1. /\ rows.job[n] \notin Active /\ graph' = graph
        /\ rows'.missing = rows.missing \cup {n} /\ rows'.dnr = rows.dnr
        /\ rows'.job = rows.job /\ rows'.bypassed = rows.bypassed
    BY <1>4 DEF DeleteTemplate, TypeOK, Rows, View
  <2> QED BY <2>1 DEF Moved
<1>5. ASSUME NEW how \in Deciders, Decide(n, how) PROVE Moved
  <2>1. rows.job[n] = "pending"
    BY <1>5 DEF DecidesOnce
  <2>2. PICK st \in {"successful", "failed"} : WriteApproval(n, how, st)
    BY <1>5 DEF Decide
  <2>3. /\ graph' = graph /\ rows'.missing = rows.missing /\ rows'.dnr = rows.dnr
        /\ rows'.job = [rows.job EXCEPT ![n] = st]
        /\ \A m \in Nodes : rows'.bypassed[m] = rows.bypassed[m]
                              \/ (m = n /\ rows'.bypassed[m] = st)
    BY <2>2 DEF WriteApproval, TypeOK, Rows, View
  <2>4. rows.job \in [Nodes -> JobStatus \cup {"none"}]
    BY DEF TypeOK, Rows, View
  <2> QED BY <2>1, <2>3, <2>4 DEF Moved, Active, Terminal
<1> QED BY <1>1, <1>2, <1>3, <1>4, <1>5 DEF JobSteps

\* So do they while a pass reads or gives up, and until a cancel request has
\* set its flag.
LEMMA OthersMove ==
  ASSUME IInv, OInv, [Next]_vars, [DecidesOnce]_vars, ~WfmDecide, ~Resume, ~cancelFlag'
  PROVE  Moved /\ ~cancelFlag
<1>1. CASE UNCHANGED <<graph, rows>> /\ ~cancelFlag
  BY <1>1 DEF Moved, IInv, TypeOK
<1>2. CASE Wfm
  <2>1. ~WfmCancel
    BY DEF WfmCancel, OInv, FlagFirst
  <2> QED BY <1>1, <1>2, <2>1
        DEF Wfm, WfmFetch, WfmReadNodes, WfmReadJob, WfmRollback
<1>3. CASE Cancel
  <2>1. CASE CancelAccept \/ CancelClose \/ CancelDies
    BY <1>1, <2>1 DEF CancelAccept, CancelClose, CancelDies
  <2> QED BY <1>3, <2>1 DEF Cancel, CancelSetFlag, CancelMarkNodes, CancelChildren,
          OInv, FlagFirst
<1>4. CASE UNCHANGED vars
  BY <1>1, <1>4 DEF vars
<1>5. CASE \/ \E n \in Nodes : JobSteps(n) \/ CancelJob(n) \/ DeleteTemplate(n)
           \/ \E n \in Nodes, how \in Deciders : ReadApproval(n, how) \/ Decide(n, how)
  <2>1. UNCHANGED cancelFlag
    BY <1>5 DEF JobSteps, JobStart, JobEnd, CancelJob, DeleteTemplate, ReadApproval,
       Decide, WriteApproval
  <2>2. CASE UNCHANGED vars
    BY <1>4, <2>2
  <2>3. CASE DecidesOnce
    BY <1>5, <2>1, <2>3, JobsMove
  <2> QED BY <2>2, <2>3
<1> QED BY <1>2, <1>3, <1>4, <1>5 DEF Next

\* What the pass spawns had come to nothing, and comes to one thing: a job,
\* or the outcome of a node that needs none.
Spawned(D, S) ==
  \A n \in S :
    /\ n \notin D /\ ~HasRun(n) /\ ~NoTemplate(graph, rows, n)
    /\ \/ rows'.job[n] \in {"pending", "failed"} /\ rows'.bypassed[n] = "none"
       \/ rows'.job[n] = "none" /\ rows'.bypassed[n] \in {"successful", "failed"}

\* What the commit of a pass does to the rows.
Decided(D, S) ==
  /\ graph' = graph
  /\ rows'.dnr = D
  /\ rows'.missing = rows.missing
  /\ \A n \in Nodes \ S : /\ rows'.job[n] = rows.job[n]
                          /\ rows'.bypassed[n] = rows.bypassed[n]
  /\ Spawned(D, S)

\* A pass that finishes the workflow job only marks nodes.
LEMMA FinishDecides ==
  ASSUME IInv, OInv, ~cancelFlag, pass = "reading", graph' = graph,
         NEW D \in SUBSET Nodes, IsMarking(graph, seen, D), WfmFinish(D)
  PROVE  Decided(D, {})
<1>1. seen.dnr = rows.dnr /\ seen.dnr \subseteq D
  BY DEF OInv, SeenForGood, IsMarking, IInv, TypeOK, SeenRows, View
<1>2. rows' = [rows EXCEPT !.dnr = @ \cup (D \ seen.dnr)]
  BY DEF WfmFinish, RowsMarked
<1>3. /\ rows'.dnr = D /\ rows'.missing = rows.missing
      /\ rows'.job = rows.job /\ rows'.bypassed = rows.bypassed
  BY <1>1, <1>2 DEF IInv, TypeOK, Rows, View
<1> QED BY <1>3 DEF Decided, Spawned

\* One that spawns marks nodes, and gives the others what they come to.
LEMMA SpawnDecides ==
  ASSUME IInv, OInv, ~cancelFlag, AllRead, graph' = graph,
         NEW D \in SUBSET Nodes, NEW R \in SUBSET Nodes, IsMarking(graph, seen, D),
         \A n \in ToSpawn(Marked(D), R) : ~NoTemplate(graph, rows, n),
         NEW result \in [ToSpawn(Marked(D), R) -> {"successful", "failed", "pending"}],
         \A n \in ToSpawn(Marked(D), R) : result[n] \in SpawnResults(n),
         SpawnNodes(RowsMarked(D), ToSpawn(Marked(D), R), result)
  PROVE  Decided(D, ToSpawn(Marked(D), R))
<1> DEFINE S == ToSpawn(Marked(D), R)
           jobs == {n \in S : ~Virtual(graph, n)}
           asks == {n \in S : graph.kind[n] = "ai" /\ result[n] = "pending"}
<1>1. S \in SUBSET Nodes
  BY DEF ToSpawn
<1>2. seen.dnr = rows.dnr /\ seen.dnr \subseteq D
  BY DEF AllRead, OInv, SeenForGood, IsMarking, IInv, TypeOK, SeenRows, View
<1>3. \A n \in S : n \notin D /\ ~HasRun(n)
  <2> SUFFICES ASSUME NEW n \in S PROVE n \notin D /\ ~HasRun(n)
    OBVIOUS
  <2>1. ~HasJob(n) /\ n \notin D /\ seen.bypassed[n] = "none"
    <3>1. PassView(Marked(D), RowsMarked(D))
      BY DEF PassView
    <3>2. Marked(D).dnr = D /\ Marked(D).bypassed = seen.bypassed
      BY DEF Marked, IInv, TypeOK, SeenRows, View
    <3> QED BY <3>1, <3>2, SpawnedHasNoJob
  <2>2. rows.bypassed[n] = "none"
    BY <1>1, <2>1 DEF AllRead, OInv, SeenForGood, IInv, SeenIsOld
  <2> QED BY <2>1, <2>2 DEF HasRun
<1>4. jobs \subseteq S /\ asks \subseteq S
  OBVIOUS
<1>5. \A n \in jobs \cup asks : result[n] \in {"pending", "failed"}
  BY DEF SpawnResults, Virtual
<1>6. \A n \in S \ (jobs \cup asks) : result[n] \in {"successful", "failed"}
  BY DEF SpawnResults, Virtual
<1>7. \A n \in S : ~NoTemplate(graph, rows, n)
  OBVIOUS
<1> HIDE DEF S
<1>8. /\ rows'.missing = rows.missing
      /\ rows'.dnr = (rows.dnr \cup (D \ seen.dnr)) \ jobs
      /\ rows'.job = [n \in Nodes |-> IF n \in jobs \cup asks
                                      THEN result[n] ELSE rows.job[n]]
      /\ rows'.bypassed = [n \in Nodes |-> IF n \in S \ (jobs \cup asks)
                                           THEN result[n] ELSE rows.bypassed[n]]
  <2>1. SpawnNodes(RowsMarked(D), S, result)
    BY DEF S
  <2>2. PICK w : w = RowsMarked(D)
    OBVIOUS
  <2>3. /\ w \in Rows
        /\ w.missing = rows.missing /\ w.job = rows.job
        /\ w.dnr = rows.dnr \cup (D \ seen.dnr)
        /\ w.bypassed = rows.bypassed
    BY <2>2 DEF RowsMarked, IInv, TypeOK, Rows, View
  <2>4. SpawnNodes(w, S, result)
    BY <2>1, <2>2
  <2>5. /\ rows'.missing = w.missing
        /\ rows'.dnr = w.dnr \ jobs
        /\ rows'.job = [n \in Nodes |-> IF n \in jobs \cup asks
                                        THEN result[n] ELSE w.job[n]]
        /\ rows'.bypassed = [n \in Nodes |-> IF n \in S \ (jobs \cup asks)
                                             THEN result[n] ELSE w.bypassed[n]]
    BY <2>3, <2>4 DEF SpawnNodes, Rows, View
  <2> QED BY <2>3, <2>5
<1> HIDE DEF jobs, asks
<1>9. rows'.dnr = D
  BY <1>2, <1>3, <1>4, <1>8
<1>10. Spawned(D, S)
  BY <1>1, <1>3, <1>4, <1>5, <1>6, <1>7, <1>8 DEF Spawned, HasRun
<1>11. \A n \in Nodes \ S : /\ rows'.job[n] = rows.job[n]
                            /\ rows'.bypassed[n] = rows.bypassed[n]
  BY <1>4, <1>8
<1>12. Decided(D, S)
  BY <1>8, <1>9, <1>10, <1>11 DEF Decided
<1> QED BY <1>12 DEF S

\* The two together.
LEMMA PassDecides ==
  ASSUME IInv, OInv, ~cancelFlag, WfmDecide
  PROVE  \E D \in SUBSET Nodes :
           /\ IsMarking(graph, seen, D)
           /\ \/ WfmFinish(D) /\ IsWorkflowDone(graph, Marked(D)) /\ Decided(D, {})
              \/ UNCHANGED status /\ \E R \in SUBSET Nodes :
                   IsReached(graph, Marked(D), R) /\ Decided(D, ToSpawn(Marked(D), R))
<1>1. PICK D \in SUBSET Nodes :
       /\ IsMarking(graph, seen, D)
       /\ \/ WfmFinish(D)
          \/ WfmSpawn(Marked(D), RowsMarked(D)) /\ UNCHANGED <<status, jobCancel>>
  BY DEF WfmDecide
<1>2. AllRead /\ pass = "reading" /\ graph' = graph
  BY DEF WfmDecide, AllRead
<1>3. CASE WfmFinish(D)
  <2>1. Decided(D, {})
    BY <1>1, <1>2, <1>3, FinishDecides
  <2>2. IsWorkflowDone(graph, Marked(D))
    BY <1>3 DEF WfmFinish
  <2> QED BY <1>1, <1>3, <2>1, <2>2
<1>4. CASE ~WfmFinish(D)
  <2>1. PICK R \in SUBSET Nodes :
                  /\ IsReached(graph, Marked(D), R)
                  /\ \A n \in ToSpawn(Marked(D), R) : ~NoTemplate(graph, rows, n)
                  /\ \E result \in [ToSpawn(Marked(D), R) -> {"successful", "failed", "pending"}] :
                       /\ \A n \in ToSpawn(Marked(D), R) : result[n] \in SpawnResults(n)
                       /\ SpawnNodes(RowsMarked(D), ToSpawn(Marked(D), R), result)
    BY <1>1, <1>4 DEF WfmSpawn
  <2>2. PICK result \in [ToSpawn(Marked(D), R) -> {"successful", "failed", "pending"}] :
                       /\ \A n \in ToSpawn(Marked(D), R) : result[n] \in SpawnResults(n)
                       /\ SpawnNodes(RowsMarked(D), ToSpawn(Marked(D), R), result)
    BY <2>1
  <2>3. UNCHANGED status
    BY <1>1, <1>4
  <2>4. Decided(D, ToSpawn(Marked(D), R))
    BY <1>1, <1>2, <2>1, <2>2, SpawnDecides
  <2> QED BY <1>1, <2>1, <2>3, <2>4
<1> QED BY <1>3, <1>4

-----------------------------------------------------------------------------
(* The columns of a node agree, and what was read of them holds *)

\* A view of the rows has the columns the proofs speak of.
LEMMA Columns ==
  ASSUME TypeOK
  PROVE  /\ \A n \in Nodes : /\ rows.job[n] \in JobStatus \cup {"none"}
                             /\ rows.bypassed[n] \in {"none", "successful", "failed"}
                             /\ seen.job[n] \in JobStatus \cup {"none", Unread}
                             /\ seen.bypassed[n] \in {"none", "successful", "failed"}
         /\ rows.dnr \subseteq Nodes /\ seen.dnr \subseteq Nodes
BY DEF TypeOK, Rows, SeenRows, View

\* Jobs that move on leave the columns in agreement.
LEMMA MovedAgree ==
  ASSUME IInv, OneOutcome, Moved
  PROVE  OneOutcome'
<1> SUFFICES ASSUME NEW n \in Nodes
             PROVE  /\ HasJob(n)' /\ rows'.bypassed[n] # "none" =>
                         rows'.bypassed[n] = rows'.job[n]
                    /\ NoTemplate(graph, rows', n) => rows'.job[n] \notin Active
                    /\ n \in rows'.dnr => ~HasRun(n)'
  BY DEF OneOutcome, Moved
<1>1. /\ rows.job[n] \in JobStatus \cup {"none"}
      /\ rows.bypassed[n] \in {"none", "successful", "failed"}
  BY Columns DEF IInv
<1> QED BY <1>1 DEF OneOutcome, Moved, HasRun, NoTemplate, JobStatus, Active, Terminal

\* They leave what a pass has read as good as it was.
LEMMA MovedSeen ==
  ASSUME IInv, OneOutcome, SeenForGood, Moved, UNCHANGED <<pass, seen>>
  PROVE  SeenForGood'
<1> SUFFICES ASSUME pass = "reading", NEW n \in Nodes
             PROVE  /\ seen.job[n] = "none" => seen.bypassed[n] = rows'.bypassed[n]
                    /\ seen.job[n] \in Terminal => seen.job[n] = rows'.job[n]
                    /\ seen.bypassed[n] # "none" => seen.bypassed[n] = rows'.bypassed[n]
  BY DEF SeenForGood, Moved
<1>1. rows.bypassed[n] \in {"none", "successful", "failed"}
  BY Columns DEF IInv
<1> QED BY <1>1 DEF OneOutcome, SeenForGood, Moved, IInv, SeenIsOld, Terminal

\* A pass reads the rows as they are.
LEMMA ReadingSeen ==
  ASSUME IInv, OneOutcome, SeenForGood,
         WfmFetch \/ WfmReadNodes \/ (\E n \in Nodes : WfmReadJob(n))
  PROVE  SeenForGood'
<1> USE DEF IInv
<1>1. CASE WfmFetch
  BY <1>1 DEF WfmFetch, SeenForGood
<1>2. CASE WfmReadNodes
  BY <1>2 DEF WfmReadNodes, SeenForGood, TypeOK, Rows, View, Unread, Active, Terminal
<1>3. ASSUME NEW m \in Nodes, WfmReadJob(m) PROVE SeenForGood'
  <2>1. /\ seen'.dnr = seen.dnr /\ seen'.missing = seen.missing
        /\ seen'.bypassed = seen.bypassed
        /\ seen'.job[m] = rows.job[m]
        /\ \A n \in Nodes : n # m => seen'.job[n] = seen.job[n]
        /\ pass = "reading" /\ UNCHANGED <<graph, rows, pass>>
    BY <1>3 DEF WfmReadJob, TypeOK, SeenRows, View
  <2>2. rows.job[m] # "none"
    BY <1>3 DEF WfmReadJob, SeenIsOld, Unread
  <2>3. \A n \in Nodes : n \in seen.missing => n \in rows.missing
    BY <2>1 DEF SeenIsOld
  <2> QED BY <2>1, <2>2, <2>3 DEF SeenForGood, OneOutcome, NoTemplate
<1> QED BY <1>1, <1>2, <1>3

\* The commit of a pass leaves the columns in agreement.
LEMMA DecidedAgree ==
  ASSUME IInv, OInv, ~cancelFlag, WfmDecide
  PROVE  OneOutcome'
<1>1. PICK D \in SUBSET Nodes :
        /\ IsMarking(graph, seen, D)
        /\ \E S \in SUBSET Nodes : Decided(D, S)
  <2>1. \A D, R \in SUBSET Nodes : ToSpawn(Marked(D), R) \in SUBSET Nodes
    BY DEF ToSpawn
  <2> QED BY <2>1, PassDecides
<1>2. PICK S \in SUBSET Nodes : Decided(D, S)
  BY <1>1
<1>3. AllRead
  BY DEF WfmDecide
<1> SUFFICES ASSUME NEW n \in Nodes
             PROVE  /\ HasJob(n)' /\ rows'.bypassed[n] # "none" =>
                         rows'.bypassed[n] = rows'.job[n]
                    /\ NoTemplate(graph, rows', n) => rows'.job[n] \notin Active
                    /\ n \in rows'.dnr => ~HasRun(n)'
  BY <1>2 DEF OneOutcome, Decided
<1>4. OneOutcome /\ SeenForGood /\ pass = "reading"
  BY <1>3 DEF OInv, AllRead
<1>5. CASE n \in S
  BY <1>2, <1>5 DEF Decided, Spawned, NoTemplate
<1>6. CASE n \notin S
  <2>1. rows'.job[n] = rows.job[n] /\ rows'.bypassed[n] = rows.bypassed[n]
    BY <1>2, <1>6 DEF Decided
  <2>2. n \in D => ~HasRun(n)
    <3>1. CASE n \in seen.dnr
      BY <1>4, <3>1 DEF SeenForGood, OneOutcome
    <3>2. ASSUME n \in D, n \notin seen.dnr PROVE ~HasRun(n)
      <4>1. MarksNode(graph, [seen EXCEPT !.dnr = D], n)
        BY <1>1, <3>2 DEF IsMarking
      <4>2. seen.job[n] = "none" /\ seen.bypassed[n] = "none"
        BY <4>1 DEF MarksNode, IInv, TypeOK, SeenRows, View
      <4> QED BY <1>4, <4>2 DEF SeenForGood, IInv, SeenIsOld, HasRun
    <3> QED BY <3>1, <3>2
  <2> QED BY <1>2, <1>4, <2>1, <2>2 DEF Decided, OneOutcome, HasRun, NoTemplate
<1> QED BY <1>5, <1>6

\* A pass that ends the workflow job found no node with an active job.
LEMMA DecidedQuiet ==
  ASSUME IInv, OInv, ~cancelFlag, WfmDecide
  PROVE  OverQuietly'
<1>1. pass = "reading" /\ pass' = "idle" /\ AllRead
  BY DEF WfmDecide, AllRead, EndPass
<1> SUFFICES ASSUME status' # "running", NEW n \in Nodes
             PROVE  rows'.job[n] \notin Active
  BY <1>1 DEF OverQuietly
<1>2. status = "running"
  BY <1>1 DEF OInv, OverQuietly
<1>3. PICK D \in SUBSET Nodes : IsWorkflowDone(graph, Marked(D)) /\ Decided(D, {})
  BY <1>2, PassDecides
<1>4. seen.job[n] \notin Active
  BY <1>3 DEF IsWorkflowDone, Marked, IInv, TypeOK, SeenRows, View
<1>5. seen.job[n] = "none" \/ seen.job[n] \in Terminal
  BY <1>1, <1>4, Columns DEF AllRead, IInv, JobStatus
<1>6. rows'.job[n] = rows.job[n]
  BY <1>3 DEF Decided
<1> QED BY <1>1, <1>5, <1>6 DEF IInv, SeenIsOld, Active, Terminal

\* The copy a resume starts has no jobs yet, and what it bypasses is not
\* skipped.
LEMMA ResumeOInv == IInv /\ Resume => OInv'
<1> SUFFICES ASSUME IInv, Resume PROVE OInv'
  OBVIOUS
<1> DEFINE done == {n \in Nodes : rows.job[n] = "successful" \/ rows.bypassed[n] = "successful"}
<1>1. /\ \A n \in Nodes : rows'.job[n] = "none"
      /\ rows'.dnr = rows.dnr \ done
      /\ \A n \in Nodes : n \notin done => rows'.bypassed[n] = "none"
      /\ ~cancelFlag' /\ cancelling' = "no" /\ ~seenCancel'
      /\ pass' = "idle" /\ status' = "running"
  BY DEF Resume, EndPass
<1> HIDE DEF done
<1>2. OneOutcome'
  BY <1>1 DEF OneOutcome, HasRun, Active
<1> QED BY <1>1, <1>2 DEF OInv, FlagFirst, SeenForGood, OverQuietly

\* Jobs, people and deletions touch the rows only.
LEMMA JobsAside ==
  ASSUME \/ \E n \in Nodes : JobSteps(n) \/ CancelJob(n) \/ DeleteTemplate(n)
         \/ \E n \in Nodes, how \in Deciders : ReadApproval(n, how) \/ Decide(n, how)
  PROVE  UNCHANGED <<status, cancelFlag, pass, seen, seenCancel, cancelling, resumed>>
<1>1. ASSUME NEW n \in Nodes, JobSteps(n) \/ CancelJob(n) \/ DeleteTemplate(n)
      PROVE  UNCHANGED <<status, cancelFlag, pass, seen, seenCancel, cancelling, resumed>>
  BY <1>1 DEF JobSteps, JobStart, JobEnd, CancelJob, DeleteTemplate, wfmVars, userVars
<1>2. ASSUME NEW n \in Nodes, NEW how \in Deciders, ReadApproval(n, how) \/ Decide(n, how)
      PROVE  UNCHANGED <<status, cancelFlag, pass, seen, seenCancel, cancelling, resumed>>
  BY <1>2 DEF ReadApproval, Decide, WriteApproval, wfmVars
<1> QED BY <1>1, <1>2

\* The flag stays the first thing a request writes.
LEMMA StepFlagFirst ==
  ASSUME OInv, [Next]_vars, ~Resume
  PROVE  FlagFirst'
<1> USE DEF OInv, FlagFirst
<1>1. CASE Wfm
  BY <1>1 DEF Wfm, WfmFetch, WfmReadNodes, WfmReadJob, WfmCancel, WfmDecide,
     WfmRollback, EndPass, userVars
<1>2. CASE Cancel
  BY <1>2 DEF Cancel, CancelAccept, CancelSetFlag, CancelMarkNodes, CancelChildren,
     CancelClose, CancelDies, wfmVars
<1>3. CASE UNCHANGED vars
  BY <1>3 DEF vars, wfmVars, userVars
<1>4. CASE \/ \E n \in Nodes : JobSteps(n) \/ CancelJob(n) \/ DeleteTemplate(n)
           \/ \E n \in Nodes, how \in Deciders : ReadApproval(n, how) \/ Decide(n, how)
  BY <1>4, JobsAside
<1> QED BY <1>1, <1>2, <1>3, <1>4 DEF Next

\* Until a cancel request sets its flag, only a pass ends the workflow job or
\* forgets what it has read.
LEMMA OthersKeep ==
  ASSUME OInv, [Next]_vars, ~WfmDecide, ~Resume, ~cancelFlag'
  PROVE  /\ status' = status
         /\ resumed' = resumed
         /\ \/ UNCHANGED <<pass, seen>>
            \/ pass' = "idle"
            \/ /\ status = "running" \/ pass # "idle"
               /\ WfmFetch \/ WfmReadNodes \/ (\E n \in Nodes : WfmReadJob(n))
<1>1. CASE Wfm
  BY <1>1 DEF Wfm, WfmFetch, WfmReadNodes, WfmReadJob, WfmCancel,
     WfmRollback, EndPass, userVars, OInv, FlagFirst
<1>2. CASE Cancel
  BY <1>2 DEF Cancel, CancelAccept, CancelSetFlag, CancelMarkNodes, CancelChildren,
     CancelClose, CancelDies, wfmVars, OInv, FlagFirst
<1>3. CASE UNCHANGED vars
  BY <1>3 DEF vars, wfmVars, userVars
<1>4. CASE \/ \E n \in Nodes : JobSteps(n) \/ CancelJob(n) \/ DeleteTemplate(n)
           \/ \E n \in Nodes, how \in Deciders : ReadApproval(n, how) \/ Decide(n, how)
  BY <1>4, JobsAside
<1> QED BY <1>1, <1>2, <1>3, <1>4 DEF Next

\* The invariant is inductive, as long as approvals are decided once.
LEMMA StepOInv ==
  ASSUME IInv, OInv, [Next]_vars, [DecidesOnce]_vars
  PROVE  OInv'
<1>1. CASE Resume
  BY <1>1, ResumeOInv
<1>2. CASE WfmDecide
  <2>1. ~cancelFlag' => ~cancelFlag
    BY <1>2 DEF WfmDecide
  <2>2. pass' = "idle" /\ ~Resume
    BY <1>2 DEF WfmDecide, EndPass, AllRead, Resume, userVars
  <2> QED BY <1>2, <2>1, <2>2, DecidedAgree, DecidedQuiet, StepFlagFirst
        DEF OInv, SeenForGood
<1>3. CASE ~WfmDecide /\ ~Resume
  <2> SUFFICES ASSUME ~cancelFlag' PROVE OneOutcome' /\ SeenForGood' /\ OverQuietly'
    BY <1>3, StepFlagFirst DEF OInv
  <2>1. Moved /\ ~cancelFlag
    BY <1>3, OthersMove
  <2>2. OneOutcome /\ SeenForGood /\ OverQuietly
    BY <2>1 DEF OInv
  <2>3. SeenForGood'
    <3>1. CASE pass' = "idle"
      BY <3>1 DEF SeenForGood
    <3> QED BY <1>3, <2>1, <2>2, <3>1, MovedSeen, ReadingSeen, OthersKeep
  <2>4. OverQuietly'
    <3> SUFFICES ASSUME status' # "running"
                 PROVE  pass' = "idle" /\ \A n \in Nodes : rows'.job[n] \notin Active
      BY DEF OverQuietly
    <3>1. status # "running" /\ pass = "idle" /\ \A n \in Nodes : rows.job[n] \notin Active
      BY <1>3, <2>2, OthersKeep DEF OverQuietly
    <3>2. pass' = "idle"
      BY <1>3, <3>1, OthersKeep
    <3> QED BY <2>1, <3>1, <3>2 DEF Moved
  <2> QED BY <2>1, <2>2, <2>3, <2>4, MovedAgree
<1> QED BY <1>1, <1>2, <1>3

-----------------------------------------------------------------------------
(* The final status *)

\* Where no template is deleted, a node without one never came to anything,
\* and a pass knows which they are.
TemplatesStay ==
  /\ \A n \in Nodes : NoTemplate(graph, rows, n) => ~HasRun(n)
  /\ pass = "reading" => seen.missing = rows.missing

\* A new workflow job has no outcome and no pass.
LEMMA InitTemplatesStay == Init => TemplatesStay
<1> SUFFICES ASSUME Init PROVE TemplatesStay
  OBVIOUS
<1>1. PICK w \in Workflows : graph = w.graph /\ rows = w.rows
  BY DEF Init
<1>2. \A n \in Nodes : rows.job[n] = "none" /\ rows.bypassed[n] = "none"
  BY <1>1, WorkflowsAssumption, FreshAssumption
<1> QED BY <1>2 DEF Init, TemplatesStay, HasRun

\* Only a decision of an approval and the commit of a pass bypass a node.
LEMMA BypassSteps ==
  ASSUME IInv, [Next]_vars, \A m \in Nodes : ~DeleteTemplate(m),
         ~WfmDecide, ~WfmCancel, ~Resume
  PROVE  /\ rows'.missing = rows.missing /\ graph' = graph
         /\ \A n \in Nodes : HasJob(n) \/ rows'.bypassed[n] = rows.bypassed[n]
<1> USE DEF IInv
<1>1. CASE UNCHANGED <<graph, rows>>
  BY <1>1
<1>3. ASSUME NEW m \in Nodes, JobStart(m) \/ \E st \in Terminal : JobEnd(m, st)
      PROVE  UNCHANGED graph /\ rows'.missing = rows.missing /\ rows'.bypassed = rows.bypassed
  BY <1>3 DEF JobStart, JobEnd, SetJob, TypeOK, Rows, View
<1>4. ASSUME NEW m \in Nodes, NEW how \in Deciders, Decide(m, how)
      PROVE  /\ rows'.missing = rows.missing /\ graph' = graph
             /\ \A n \in Nodes : HasJob(n) \/ rows'.bypassed[n] = rows.bypassed[n]
  <2>1. PICK st \in {"successful", "failed"} : WriteApproval(m, how, st)
    BY <1>4 DEF Decide
  <2>2. HasJob(m)
    BY <2>1 DEF WriteApproval, DecidedExists
  <2> QED BY <2>1, <2>2 DEF WriteApproval, TypeOK, Rows, View
<1>5. CASE CancelMarkNodes \/ \E ended \in SUBSET Nodes : CancelChildren(ended)
  BY <1>5 DEF CancelMarkNodes, CancelChildren, TypeOK, Rows, View
<1>6. CASE Wfm
  BY <1>1, <1>6 DEF Wfm, WfmFetch, WfmReadNodes, WfmReadJob, WfmRollback
<1>7. CASE \E m \in Nodes : JobSteps(m) \/ CancelJob(m) \/ DeleteTemplate(m)
  BY <1>1, <1>3, <1>7 DEF JobSteps, CancelJob
<1>8. CASE \E m \in Nodes, how \in Deciders : ReadApproval(m, how) \/ Decide(m, how)
  BY <1>1, <1>4, <1>8 DEF ReadApproval
<1>9. CASE Cancel
  BY <1>1, <1>5, <1>9 DEF Cancel, CancelAccept, CancelSetFlag, CancelClose, CancelDies
<1> QED BY <1>1, <1>6, <1>7, <1>8, <1>9 DEF Next, vars

\* The pass reads all templates at once.
LEMMA SeenMissing ==
  ASSUME IInv, TemplatesStay, [Next]_vars, pass' = "reading"
  PROVE  seen'.missing = IF pass = "reading" THEN seen.missing ELSE rows.missing
<1>1. CASE Wfm
  <2>1. CASE WfmReadNodes
    BY <2>1 DEF WfmReadNodes, IInv, TypeOK, Rows, View
  <2>2. CASE \E n \in Nodes : WfmReadJob(n)
    BY <2>2 DEF WfmReadJob, IInv, TypeOK, SeenRows, View
  <2> QED BY <1>1, <2>1, <2>2 DEF Wfm, WfmFetch, WfmCancel, WfmDecide, WfmRollback, EndPass
<1>2. CASE UNCHANGED <<pass, seen>>
  BY <1>2
<1>3. CASE Cancel
  BY <1>2, <1>3 DEF Cancel, CancelAccept, CancelSetFlag, CancelMarkNodes, CancelChildren,
     CancelClose, CancelDies, wfmVars
<1>4. CASE Resume
  BY <1>4 DEF Resume, EndPass
<1>5. CASE UNCHANGED vars
  BY <1>2, <1>5 DEF vars, wfmVars
<1> QED BY <1>1, <1>2, <1>3, <1>4, <1>5, JobsAside DEF Next

\* No step gives a node without template anything.
LEMMA StepTemplatesStay ==
  ASSUME IInv, TemplatesStay, Deletable = {}, [Next]_vars
  PROVE  TemplatesStay'
<1>1. CASE WfmDecide \/ WfmCancel
  <2>1. PICK S \in SUBSET Nodes, s \in SeenRows, w \in Rows :
           /\ PassView(s, w)
           /\ \A n \in S : ~NoTemplate(graph, rows, n)
           /\ rows'.missing = rows.missing
           /\ \A n \in Nodes \ S : /\ rows'.job[n] = w.job[n]
                                   /\ rows'.bypassed[n] = rows.bypassed[n]
    BY <1>1, PassRows
  <2>2. AllRead /\ pass' = "idle" /\ graph' = graph
    BY <1>1 DEF WfmDecide, WfmCancel, EndPass
  <2>3. \A n \in Nodes : w.job[n] = "none" <=> ~HasJob(n)
    BY <2>1, <2>2, PassViewIsOld
  <2> QED BY <2>1, <2>2, <2>3 DEF TemplatesStay, NoTemplate, HasRun
<1>2. CASE Resume
  <2>1. /\ pass' = "idle" /\ graph' = graph /\ rows'.missing = rows.missing
        /\ \A n \in Nodes : ~HasRun(n) => rows'.bypassed[n] = "none" /\ rows'.job[n] = "none"
    BY <1>2 DEF Resume, EndPass, HasRun
  <2> QED BY <2>1 DEF TemplatesStay, NoTemplate, HasRun
<1>3. CASE ~WfmDecide /\ ~WfmCancel /\ ~Resume
  <2>1. /\ rows'.missing = rows.missing /\ graph' = graph
        /\ \A n \in Nodes : HasJob(n) \/ rows'.bypassed[n] = rows.bypassed[n]
    BY <1>3, BypassSteps DEF DeleteTemplate
  <2>2. \A n \in Nodes : HasJob(n)' => HasJob(n)
    BY <1>3, OtherSteps DEF NoNewJob
  <2>3. pass' = "reading" => seen'.missing = rows'.missing
    BY <2>1, SeenMissing DEF TemplatesStay
  <2> QED BY <2>1, <2>2, <2>3 DEF TemplatesStay, NoTemplate, HasRun
<1> QED BY <1>1, <1>2, <1>3

\* What failed in the rows is what a pass that saw nothing active saw fail.
LEMMA FailureSeen ==
  ASSUME IInv, OneOutcome, SeenForGood, TemplatesStay, AllRead,
         NEW D \in SUBSET Nodes, IsMarking(graph, seen, D),
         NEW n \in Nodes, seen.job[n] \notin Active
  PROVE  /\ n \notin D /\ Failed(graph, rows, n) <=>
              \/ n \notin D /\ NoTemplate(graph, seen, n)
              \/ seen.bypassed[n] = "failed"
              \/ seen.job[n] \in Terminal \ {"successful"}
         /\ n \in D => ~HasRun(n)
<1> USE DEF IInv
<1>1. pass = "reading" /\ seen.missing = rows.missing
  BY DEF AllRead, TemplatesStay
<1>2. n \in D => ~HasRun(n)
  <2>1. CASE n \in seen.dnr
    BY <1>1, <2>1 DEF SeenForGood, OneOutcome
  <2>2. CASE n \notin seen.dnr
    <3>1. n \in D => MarksNode(graph, [seen EXCEPT !.dnr = D], n)
      BY <2>2 DEF IsMarking
    <3>2. n \in D => seen.job[n] = "none" /\ seen.bypassed[n] = "none"
      BY <3>1 DEF MarksNode, TypeOK, SeenRows, View
    <3> QED BY <1>1, <3>2 DEF SeenForGood, SeenIsOld, HasRun
  <2> QED BY <2>1, <2>2
<1>3. /\ seen.job[n] = rows.job[n]
      /\ seen.job[n] \in Terminal \cup {"none"}
  BY <1>1, Columns DEF AllRead, JobStatus, SeenForGood, SeenIsOld
<1>4. NoTemplate(graph, seen, n) <=> NoTemplate(graph, rows, n)
  BY <1>1 DEF NoTemplate
<1>5. NoTemplate(graph, rows, n) => ~HasRun(n)
  BY DEF TemplatesStay
<1>6. /\ rows.bypassed[n] \in {"none", "successful", "failed"}
      /\ rows.bypassed[n] # "none" /\ rows.job[n] # "none" => rows.bypassed[n] = rows.job[n]
      /\ seen.job[n] = "none" => seen.bypassed[n] = rows.bypassed[n]
      /\ seen.bypassed[n] # "none" => seen.bypassed[n] = rows.bypassed[n]
  BY <1>1, Columns DEF OneOutcome, SeenForGood
<1> QED BY <1>2, <1>3, <1>4, <1>5, <1>6 DEF Failed, HasRun, Terminal

\* The status a pass gives the workflow job it finishes is right.
LEMMA FinishedRight ==
  ASSUME IInv, OInv, TemplatesStay, ~cancelFlag, WfmDecide, status' # "running"
  PROVE  FailedIsUnhandled'
<1> DEFINE Right == \E n \in Nodes : /\ n \notin rows'.dnr
                                     /\ Failed(graph, rows', n)
                                     /\ \A m \in Nodes : <<n, m>> \notin FailurePath(graph)
<1>1. pass = "reading" /\ AllRead /\ graph' = graph
  BY DEF WfmDecide, AllRead
<1>2. OneOutcome /\ SeenForGood /\ status = "running"
  BY <1>1 DEF OInv, OverQuietly
<1>3. PICK D \in SUBSET Nodes :
        /\ IsMarking(graph, seen, D) /\ WfmFinish(D)
        /\ IsWorkflowDone(graph, Marked(D)) /\ Decided(D, {})
  BY <1>2, PassDecides
<1>4. \A n \in Nodes : seen.job[n] \notin Active
  BY <1>3 DEF IsWorkflowDone, Marked, IInv, TypeOK, SeenRows, View
<1>5. /\ rows'.dnr = D /\ rows'.missing = rows.missing
      /\ \A n \in Nodes : rows'.job[n] = rows.job[n] /\ rows'.bypassed[n] = rows.bypassed[n]
  BY <1>3 DEF Decided
<1>6. ASSUME NEW n \in Nodes
      PROVE  n \notin rows'.dnr /\ Failed(graph, rows', n) <=>
                 \/ n \notin D /\ NoTemplate(graph, seen, n)
                 \/ seen.bypassed[n] = "failed"
                 \/ seen.job[n] \in Terminal \ {"successful"}
  <2>1. Failed(graph, rows', n) <=> Failed(graph, rows, n)
    BY <1>5 DEF Failed, NoTemplate
  <2>2. n \notin D /\ Failed(graph, rows, n) <=>
                 \/ n \notin D /\ NoTemplate(graph, seen, n)
                 \/ seen.bypassed[n] = "failed"
                 \/ seen.job[n] \in Terminal \ {"successful"}
    BY <1>1, <1>2, <1>3, <1>4, FailureSeen
  <2> QED BY <1>5, <2>1, <2>2
<1>7. Right <=> HasWorkflowFailed(graph, Marked(D))
  <2>1. HasWorkflowFailed(graph, Marked(D)) <=>
          \E n \in Nodes :
            /\ \/ n \notin D /\ NoTemplate(graph, seen, n)
               \/ seen.bypassed[n] = "failed"
               \/ seen.job[n] \in Terminal \ {"successful"}
            /\ \A m \in Nodes : <<n, m>> \notin FailurePath(graph)
    BY DEF HasWorkflowFailed, Marked, NoTemplate, IInv, TypeOK, SeenRows, View
  <2> QED BY <1>6, <2>1
<1>8. status' = IF HasWorkflowFailed(graph, Marked(D)) THEN "failed" ELSE "successful"
  BY <1>3 DEF WfmFinish
<1> QED BY <1>1, <1>7, <1>8 DEF FailedIsUnhandled

\* Once given, it stays right: nothing it was given for changes any more.
LEMMA OverStays ==
  ASSUME IInv, OInv, [Next]_vars, [DecidesOnce]_vars,
         ~WfmDecide, ~Resume, Finished'
  PROVE  /\ Finished /\ status' = status /\ graph' = graph /\ resumed' = resumed
         /\ rows'.dnr = rows.dnr
         /\ \A n \in Nodes : /\ rows'.job[n] = rows.job[n]
                             /\ rows'.bypassed[n] = rows.bypassed[n]
                             /\ n \in rows'.missing <=> n \in rows.missing
<1>1. ~cancelFlag'
  BY DEF Finished
<1>2. Moved /\ ~cancelFlag
  BY <1>1, OthersMove
<1>3. status' = status /\ Finished /\ resumed' = resumed
  BY <1>1, <1>2, OthersKeep DEF Finished
<1>4. \A n \in Nodes : rows.job[n] \in Terminal \cup {"none"}
  BY <1>2, <1>3, Columns DEF OInv, OverQuietly, Finished, IInv, JobStatus
<1>5. \A n \in Nodes : n \in rows'.missing <=> n \in rows.missing
  <2>1. CASE \E m \in Nodes : DeleteTemplate(m)
    BY <1>3, <2>1 DEF DeleteTemplate, Finished
  <2>2. CASE ~\E m \in Nodes : DeleteTemplate(m)
    <3>1. ~WfmCancel
      BY <1>2 DEF WfmCancel, OInv, FlagFirst
    <3> QED BY <2>2, <3>1, BypassSteps
  <2> QED BY <2>1, <2>2
<1> QED BY <1>2, <1>3, <1>4, <1>5 DEF Moved, Terminal

\* The status stays right.
LEMMA StepRight ==
  ASSUME IInv, OInv, TemplatesStay, FailedIsUnhandled, [Next]_vars, [DecidesOnce]_vars
  PROVE  FailedIsUnhandled'
<1> SUFFICES ASSUME Finished' PROVE FailedIsUnhandled'
  BY DEF FailedIsUnhandled
<1>1. CASE Resume
  BY <1>1 DEF Resume, Finished
<1>2. CASE WfmDecide
  <2>1. ~cancelFlag /\ status' # "running"
    BY <1>2 DEF WfmDecide, Finished
  <2> QED BY <1>2, <2>1, FinishedRight
<1>3. CASE ~WfmDecide /\ ~Resume
  <2>1. /\ Finished /\ status' = status /\ graph' = graph
        /\ rows'.dnr = rows.dnr
        /\ \A n \in Nodes : /\ rows'.job[n] = rows.job[n]
                            /\ rows'.bypassed[n] = rows.bypassed[n]
                            /\ n \in rows'.missing <=> n \in rows.missing
    BY <1>3, OverStays
  <2>2. \A n \in Nodes : Failed(graph, rows', n) <=> Failed(graph, rows, n)
    BY <2>1 DEF Failed, NoTemplate
  <2> QED BY <2>1, <2>2 DEF FailedIsUnhandled
<1> QED BY <1>1, <1>2, <1>3

\* A workflow job nobody cancels ends failed exactly when a node failed with
\* no failure or always link out of it, whatever its passes had read, as long
\* as nobody deletes its templates or decides an approval twice
\* (has_workflow_failed, awx/main/scheduler/dag_workflow.py).
THEOREM StatusIsRight ==
  ASSUME Deletable = {}
  PROVE  Spec /\ DecidedOnce => []FailedIsUnhandled
<1> DEFINE All == IInv /\ OInv /\ TemplatesStay /\ FailedIsUnhandled
<1>1. Init => All
  BY InitIInv, InitOInv, InitTemplatesStay DEF Init, FailedIsUnhandled, Finished
<1>2. All /\ [Next]_vars /\ [DecidesOnce]_vars => All'
  BY StepIInv, StepOInv, StepTemplatesStay, StepRight
<1>3. All => FailedIsUnhandled
  OBVIOUS
<1> HIDE DEF All
<1> QED BY <1>1, <1>2, <1>3, PTL DEF Spec, DecidedOnce

-----------------------------------------------------------------------------
(* The nodes that ran *)

\* A node that leads to n: an outcome, and a link for it.
Leads(p, n) == \/ Succeeded(rows, p) /\ <<p, n>> \in SuccessPath(graph)
               \/ Failed(graph, rows, p) /\ <<p, n>> \in FailurePath(graph)

\* A node that does not lead to n, and never will.
Over(p) == p \in rows.dnr \/ Succeeded(rows, p) \/ Failed(graph, rows, p)
Turned(p, n) == Over(p) /\ ~Fires(graph, rows, p, n)

\* A skipped node is one the outcomes of its parents do not call for.
SkippedRightly ==
  \A n \in rows.dnr :
    /\ n \notin Roots(graph)
    /\ IF n \in graph.all THEN \E p \in Parents(graph, n) : Turned(p, n)
                          ELSE \A p \in Parents(graph, n) : Turned(p, n)

\* All parents of an ALL node that ran lead to it.
AllLead ==
  \A n \in graph.all : HasRun(n) =>
    \A p \in Parents(graph, n) : HasRun(p) /\ Leads(p, n)

\* A node of G ran, or is about to count as failed for want of a template,
\* and is a root or led to from G: it is there for good.
Grounded(G) ==
  /\ G \cap rows.dnr = {}
  /\ \A n \in G :
       /\ HasRun(n) \/ (Lost(n) /\ n \notin graph.all)
       /\ n \in Roots(graph) \/ \E p \in Parents(graph, n) \cap G : Leads(p, n)

\* Every node that ran is in such a set.
AnyLeads == \E G \in SUBSET Nodes :
              Grounded(G) /\ \A n \in Nodes : HasRun(n) => n \in G

Free == ~cancelFlag /\ ~resumed /\ ~TooEarly
EInv == Free => SkippedRightly /\ AllLead /\ AnyLeads
Acyclic == \A X \in (SUBSET Nodes) \ {{}} : \E n \in X : Parents(graph, n) \cap X = {}

\* The links close no cycle.
LEMMA LinksAcyclic ==
  ASSUME TypeOK
  PROVE  graph.all \subseteq Nodes /\ Acyclic
<1>1. PICK w \in Workflows : graph = w.graph
  BY DEF TypeOK, Graphs
<1> QED BY <1>1, WorkflowsAssumption, AcyclicAssumption DEF Acyclic

\* Outcomes stay, and nodes that came to nothing for want of a template do.
Growing ==
  /\ graph' = graph
  /\ \A n \in Nodes : /\ Succeeded(rows, n) => Succeeded(rows', n)
                      /\ Failed(graph, rows, n) => Failed(graph, rows', n)
                      /\ HasRun(n) => HasRun(n)'
                      /\ Lost(n) => Lost(n)'
                      /\ Unseen(n) => Unseen(n)'

\* They do when jobs move on.
LEMMA MovedGrows ==
  ASSUME IInv, OneOutcome, Moved
  PROVE  Growing
<1> SUFFICES ASSUME NEW n \in Nodes
             PROVE  /\ Succeeded(rows, n) => Succeeded(rows', n)
                    /\ Failed(graph, rows, n) => Failed(graph, rows', n)
                    /\ HasRun(n) => HasRun(n)'
                    /\ Lost(n) => Lost(n)'
                    /\ Unseen(n) => Unseen(n)'
  BY DEF Growing, Moved
<1>1. /\ rows.job[n] \in JobStatus \cup {"none"}
      /\ rows.bypassed[n] \in {"none", "successful", "failed"}
  BY Columns DEF IInv
<1>2. /\ rows'.job[n] = "none" <=> rows.job[n] = "none"
      /\ rows.job[n] \in Terminal => rows'.job[n] = rows.job[n]
      /\ \/ rows'.bypassed[n] = rows.bypassed[n]
         \/ rows.job[n] = "pending" /\ rows'.bypassed[n] = rows'.job[n]
      /\ rows.bypassed[n] # "none" /\ rows.job[n] # "none" => rows.bypassed[n] = rows.job[n]
      /\ NoTemplate(graph, rows, n) => NoTemplate(graph, rows', n)
      /\ graph' = graph
  BY DEF Moved, OneOutcome, NoTemplate
<1> QED BY <1>1, <1>2 DEF Succeeded, Failed, HasRun, Lost, Unseen, Terminal

\* They do when a pass commits.
LEMMA DecidedGrows ==
  ASSUME IInv, NEW D \in SUBSET Nodes, NEW S \in SUBSET Nodes, Decided(D, S)
  PROVE  Growing
<1> SUFFICES ASSUME NEW n \in Nodes
             PROVE  /\ Succeeded(rows, n) => Succeeded(rows', n)
                    /\ Failed(graph, rows, n) => Failed(graph, rows', n)
                    /\ HasRun(n) => HasRun(n)'
                    /\ Lost(n) => Lost(n)'
                    /\ Unseen(n) => Unseen(n)'
  BY DEF Growing, Decided
<1>1. CASE n \in S
  <2>1. ~HasRun(n) /\ ~NoTemplate(graph, rows, n)
    BY <1>1 DEF Decided, Spawned
  <2> QED BY <2>1 DEF Succeeded, Failed, HasRun, Lost, Unseen, Terminal
<1>2. CASE n \notin S
  BY <1>2 DEF Decided, Succeeded, Failed, HasRun, Lost, Unseen, NoTemplate
<1> QED BY <1>1, <1>2

\* Whoever did not lead to a node never does, and whoever did still does
\* unless it is skipped.
LEMMA GrowingLinks ==
  ASSUME Growing, rows.dnr \subseteq rows'.dnr, NEW p \in Nodes, NEW n \in Nodes
  PROVE  /\ Turned(p, n) => Turned(p, n)'
         /\ Leads(p, n) => Leads(p, n)'
BY DEF Growing, Turned, Over, Leads, Fires, Succeeded, Failed

\* An ALL node that went too early did so for good.
LEMMA EarlyStays ==
  ASSUME IInv, Growing, TooEarly
  PROVE  TooEarly'
<1>1. PICK n \in graph.all : \/ Unseen(n) /\ ~HasJob(n)
                             \/ \E p \in Parents(graph, n) : Unseen(p)
  BY DEF TooEarly
<1>2. CASE Unseen(n) /\ ~HasJob(n)
  <2>1. n \in Nodes /\ Lost(n)
    BY <1>2, LinksAcyclic DEF IInv, Unseen, Lost, Failed, HasRun, Terminal
  <2> QED BY <1>2, <2>1 DEF Growing, Lost, HasRun, TooEarly
<1>3. CASE \E p \in Parents(graph, n) : Unseen(p)
  BY <1>3 DEF Growing, TooEarly, Parents
<1> QED BY <1>1, <1>2, <1>3

\* Jobs that move on change neither who is skipped nor who runs.
LEMMA MovedEdges ==
  ASSUME IInv, OneOutcome, Moved, SkippedRightly, AllLead, AnyLeads
  PROVE  SkippedRightly' /\ AllLead' /\ AnyLeads'
<1>1. Growing /\ graph' = graph /\ rows'.dnr = rows.dnr
  BY MovedGrows DEF Moved
<1>2. \A p, n \in Nodes : /\ Turned(p, n) => Turned(p, n)'
                          /\ Leads(p, n) => Leads(p, n)'
  BY <1>1, GrowingLinks
<1>3. \A n \in Nodes : HasRun(n)' <=> HasRun(n)
  BY <1>1 DEF Moved, Growing, HasRun
<1>4. /\ rows.dnr \subseteq Nodes /\ graph.all \subseteq Nodes
      /\ \A n : Parents(graph, n) \subseteq Nodes
  BY Columns, LinksAcyclic DEF IInv, Parents
<1>5. SkippedRightly'
  BY <1>1, <1>2, <1>4 DEF SkippedRightly
<1>6. AllLead'
  <2> SUFFICES ASSUME NEW n \in graph.all, HasRun(n)', NEW p \in Parents(graph, n)
               PROVE  HasRun(p)' /\ Leads(p, n)'
    BY <1>1 DEF AllLead
  <2>1. n \in Nodes /\ p \in Nodes
    BY <1>4
  <2>2. HasRun(p) /\ Leads(p, n)
    BY <1>3, <2>1 DEF AllLead
  <2> QED BY <1>2, <1>3, <2>1, <2>2
<1>7. AnyLeads'
  <2>1. PICK G \in SUBSET Nodes : Grounded(G) /\ \A n \in Nodes : HasRun(n) => n \in G
    BY DEF AnyLeads
  <2>2. Grounded(G)'
    BY <1>1, <1>2, <1>3, <1>4, <2>1 DEF Grounded, Growing
  <2> QED BY <1>3, <2>1, <2>2 DEF AnyLeads
<1> QED BY <1>5, <1>6, <1>7

-----------------------------------------------------------------------------
(* What a pass that has read everything knows *)

Sure == IInv /\ OneOutcome /\ SeenForGood /\ AllRead

\* Marking changes one column of what was read.
LEMMA MarkedColumns ==
  ASSUME TypeOK, NEW D
  PROVE  /\ Marked(D).dnr = D /\ Marked(D).missing = seen.missing
         /\ Marked(D).job = seen.job /\ Marked(D).bypassed = seen.bypassed
BY DEF Marked, TypeOK, SeenRows, View

\* The outcomes it has read are those of the rows.
LEMMA SeenOutcome ==
  ASSUME Sure, NEW p \in Nodes
  PROVE  /\ Succeeded(seen, p) => Succeeded(rows, p)
         /\ Failed(graph, seen, p) => Failed(graph, rows, p)
         /\ HasRun(p) <=> seen.job[p] # "none" \/ seen.bypassed[p] # "none"
<1>1. pass = "reading"
  BY DEF Sure, AllRead
<1>2. /\ rows.job[p] \in JobStatus \cup {"none"}
      /\ rows.bypassed[p] \in {"none", "successful", "failed"}
      /\ seen.job[p] \in JobStatus \cup {"none"}
  BY Columns DEF Sure, IInv, AllRead
<1>3. /\ seen.job[p] = "none" <=> rows.job[p] = "none"
      /\ seen.job[p] = "none" => seen.bypassed[p] = rows.bypassed[p]
      /\ seen.job[p] \in Terminal => seen.job[p] = rows.job[p]
      /\ seen.bypassed[p] # "none" => seen.bypassed[p] = rows.bypassed[p]
      /\ rows.job[p] # "none" /\ rows.bypassed[p] # "none" => rows.bypassed[p] = rows.job[p]
      /\ NoTemplate(graph, seen, p) => NoTemplate(graph, rows, p)
  BY <1>1 DEF Sure, IInv, SeenIsOld, SeenForGood, OneOutcome, NoTemplate
<1> QED BY <1>2, <1>3 DEF Succeeded, Failed, HasRun, Terminal

\* The status _all_parents_met_convergence_criteria looks at is an outcome.
LEMMA SeenWord ==
  ASSUME Sure, NEW p \in Nodes,
         NEW word, word = IF seen.job[p] \in {"successful", "failed"}
                          THEN seen.job[p] ELSE seen.bypassed[p]
  PROVE  /\ word = "successful" => Succeeded(rows, p)
         /\ word = "failed" => Failed(graph, rows, p)
<1>1. pass = "reading"
  BY DEF Sure, AllRead
<1>2. /\ rows.job[p] \in JobStatus \cup {"none"}
      /\ rows.bypassed[p] \in {"none", "successful", "failed"}
  BY Columns DEF Sure, IInv
<1>3. /\ seen.job[p] \in Terminal => seen.job[p] = rows.job[p]
      /\ seen.bypassed[p] # "none" => seen.bypassed[p] = rows.bypassed[p]
      /\ rows.job[p] # "none" /\ rows.bypassed[p] # "none" => rows.bypassed[p] = rows.job[p]
  BY <1>1 DEF Sure, SeenForGood, OneOutcome
<1> QED BY <1>2, <1>3 DEF Succeeded, Failed, Terminal

\* What it marks it saw come to nothing, by the rule for do_not_run.
LEMMA NewlyMarked ==
  ASSUME Sure, NEW D \in SUBSET Nodes, IsMarking(graph, seen, D),
         NEW n \in D, n \notin rows.dnr
  PROVE  /\ n \notin Roots(graph) /\ ~HasRun(n)
         /\ n \in graph.all =>
              \/ Parents(graph, n) \cap D # {}
              \/ ~AllParentsMetConvergenceCriteria(graph, Marked(D), n)
         /\ n \notin graph.all =>
              \A p \in Parents(graph, n) :
                /\ p \in D \/ Succeeded(seen, p) \/ Failed(graph, seen, p)
                /\ ~Fires(graph, Marked(D), p, n)
<1>1. pass = "reading" /\ seen.dnr = rows.dnr /\ TypeOK
  BY DEF Sure, AllRead, SeenForGood, IInv
<1>2. MarksNode(graph, Marked(D), n)
  BY <1>1 DEF IsMarking, Marked
<1>3. Marked(D).dnr = D /\ Marked(D).job = seen.job
        /\ Marked(D).bypassed = seen.bypassed /\ Marked(D).missing = seen.missing
  BY <1>1, MarkedColumns
<1>4. seen.job[n] = "none" /\ seen.bypassed[n] = "none"
  BY <1>2, <1>3 DEF MarksNode
<1>5. ~HasRun(n)
  BY <1>4, SeenOutcome
<1> QED BY <1>2, <1>3, <1>5 DEF MarksNode, ShouldMarkDnr, Succeeded, Failed, NoTemplate

\* A parent it saw lead elsewhere leads elsewhere in the rows it commits.
LEMMA TurnedNow ==
  ASSUME Sure, Growing, NEW D \in SUBSET Nodes, rows'.dnr = D,
         NEW p \in Nodes, NEW n \in Nodes,
         p \in D \/ Succeeded(seen, p) \/ Failed(graph, seen, p),
         ~Fires(graph, Marked(D), p, n)
  PROVE  Turned(p, n)'
<1>1. TypeOK
  BY DEF Sure, IInv
<1>2. Marked(D).dnr = D /\ Marked(D).job = seen.job
        /\ Marked(D).bypassed = seen.bypassed /\ Marked(D).missing = seen.missing
  BY <1>1, MarkedColumns
<1>3. /\ Succeeded(Marked(D), p) <=> Succeeded(seen, p)
      /\ Failed(graph, Marked(D), p) <=> Failed(graph, seen, p)
  BY <1>2 DEF Succeeded, Failed, NoTemplate
<1>4. /\ Succeeded(seen, p) => Succeeded(rows', p)
      /\ Failed(graph, seen, p) => Failed(graph, rows', p)
      /\ graph' = graph
  BY SeenOutcome DEF Growing
<1>5. ~(Succeeded(rows', p) /\ Failed(graph, rows', p))
  BY DEF Succeeded, Failed, Terminal
<1> QED BY <1>2, <1>3, <1>4, <1>5 DEF Turned, Over, Fires

\* What a pass skips, it skips rightly.
LEMMA DecidedSkips ==
  ASSUME Sure, SkippedRightly, NEW D \in SUBSET Nodes, NEW S \in SUBSET Nodes,
         IsMarking(graph, seen, D), Decided(D, S)
  PROVE  SkippedRightly'
<1>1. Growing /\ graph' = graph /\ rows'.dnr = D
  BY DecidedGrows DEF Sure, Decided
<1>2. rows.dnr \subseteq D
  BY DEF Sure, AllRead, SeenForGood, IsMarking, IInv, TypeOK, Rows, View
<1>3. \A m : Parents(graph, m) \subseteq Nodes
  BY DEF Parents
<1> SUFFICES ASSUME NEW n \in D
             PROVE  /\ n \notin Roots(graph)
                    /\ IF n \in graph.all THEN \E p \in Parents(graph, n) : Turned(p, n)'
                                          ELSE \A p \in Parents(graph, n) : Turned(p, n)'
  BY <1>1 DEF SkippedRightly
<1>4. CASE n \in rows.dnr
  <2>1. \A p \in Nodes : Turned(p, n) => Turned(p, n)'
    BY <1>1, <1>2, GrowingLinks
  <2> QED BY <1>3, <1>4, <2>1 DEF SkippedRightly
<1>5. CASE n \notin rows.dnr
  <2>1. /\ n \notin Roots(graph)
        /\ n \in graph.all =>
              \/ Parents(graph, n) \cap D # {}
              \/ ~AllParentsMetConvergenceCriteria(graph, Marked(D), n)
        /\ n \notin graph.all =>
              \A p \in Parents(graph, n) :
                /\ p \in D \/ Succeeded(seen, p) \/ Failed(graph, seen, p)
                /\ ~Fires(graph, Marked(D), p, n)
    BY <1>5, NewlyMarked
  <2>2. CASE n \notin graph.all
    BY <1>1, <1>3, <2>1, <2>2, TurnedNow
  <2>3. ASSUME NEW p \in Parents(graph, n) \cap D PROVE Turned(p, n)'
    BY <1>1, <2>3 DEF Turned, Over, Fires
  <2>4. ASSUME ~AllParentsMetConvergenceCriteria(graph, Marked(D), n)
        PROVE  \E p \in Parents(graph, n) : Turned(p, n)'
    <3> DEFINE word(p) == IF seen.job[p] \in {"successful", "failed"}
                          THEN seen.job[p] ELSE seen.bypassed[p]
    <3>1. Marked(D).job = seen.job /\ Marked(D).bypassed = seen.bypassed
      BY MarkedColumns DEF Sure, IInv
    <3>2. PICK p \in Parents(graph, n) :
            \/ word(p) = "successful" /\ <<p, n>> \notin SuccessPath(graph)
            \/ word(p) = "failed" /\ <<p, n>> \notin FailurePath(graph)
      BY <2>4, <3>1 DEF AllParentsMetConvergenceCriteria
    <3>3. /\ word(p) = "successful" => Succeeded(rows, p)
          /\ word(p) = "failed" => Failed(graph, rows, p)
      <4> DEFINE w == word(p)
      <4>1. w = IF seen.job[p] \in {"successful", "failed"}
                THEN seen.job[p] ELSE seen.bypassed[p]
        OBVIOUS
      <4> HIDE DEF w
      <4>2. (w = "successful" => Succeeded(rows, p)) /\ (w = "failed" => Failed(graph, rows, p))
        BY <1>3, <4>1, SeenWord
      <4> QED BY <4>2 DEF w
    <3>4. \/ Succeeded(rows', p) /\ <<p, n>> \notin SuccessPath(graph)
          \/ Failed(graph, rows', p) /\ <<p, n>> \notin FailurePath(graph)
      BY <1>1, <1>3, <3>2, <3>3 DEF Growing
    <3>5. ~(Succeeded(rows', p) /\ Failed(graph, rows', p))
      BY DEF Succeeded, Failed, Terminal
    <3>6. Turned(p, n)'
      BY <1>1, <3>4, <3>5 DEF Turned, Over, Fires
    <3> QED BY <3>6
  <2> QED BY <2>1, <2>2, <2>3, <2>4
<1> QED BY <1>4, <1>5

\* A node it spawns has come to nothing yet, and may run.
LEMMA SpawnedMayRun ==
  ASSUME Sure, NEW D \in SUBSET Nodes, NEW R \in SUBSET Nodes, NEW n \in ToSpawn(Marked(D), R)
  PROVE  /\ n \in R /\ n \notin D /\ seen.job[n] = "none" /\ seen.bypassed[n] = "none"
         /\ RelevantParentsFinished(graph, Marked(D), n)
         /\ n \in graph.all => AllParentsMetConvergenceCriteria(graph, Marked(D), n)
BY MarkedColumns DEF ToSpawn, MayRun, WaitsForJobOrVirtualSuccess, Sure, IInv

\* When an ALL node may run and does not go too early, every parent of it
\* has run and leads to it.
LEMMA ParentLeads ==
  ASSUME Sure, Growing, ~TooEarly', NEW D \in SUBSET Nodes, IsMarking(graph, seen, D),
         NEW n \in graph.all, n \notin D, seen.job[n] = "none", seen.bypassed[n] = "none",
         RelevantParentsFinished(graph, Marked(D), n),
         AllParentsMetConvergenceCriteria(graph, Marked(D), n),
         NEW p \in Parents(graph, n)
  PROVE  HasRun(p) /\ Leads(p, n)
<1>1. pass = "reading" /\ TypeOK /\ p \in Nodes /\ n \in Nodes
  BY LinksAcyclic DEF Sure, AllRead, IInv, Parents
<1>2. Marked(D).dnr = D /\ Marked(D).job = seen.job
        /\ Marked(D).bypassed = seen.bypassed /\ Marked(D).missing = seen.missing
  BY <1>1, MarkedColumns
<1>3. p \notin D
  <2> SUFFICES ASSUME p \in D PROVE FALSE
    OBVIOUS
  <2>1. MarksNode(graph, Marked(D), n)
    BY <1>2 DEF MarksNode, Roots
  <2> QED BY <1>1, <2>1 DEF IsMarking, Marked
<1>4. \/ seen.bypassed[p] # "none"
      \/ ~Virtual(graph, p) /\ (p \in seen.missing \/ seen.job[p] \in Terminal)
  BY <1>2, <1>3 DEF RelevantParentsFinished
<1> DEFINE word == IF seen.job[p] \in {"successful", "failed"}
                   THEN seen.job[p] ELSE seen.bypassed[p]
<1>5. /\ word = "successful" => <<p, n>> \in SuccessPath(graph)
      /\ word = "failed" => <<p, n>> \in FailurePath(graph)
  BY <1>2 DEF AllParentsMetConvergenceCriteria
<1>6. /\ word = "successful" => Succeeded(rows, p)
      /\ word = "failed" => Failed(graph, rows, p)
  <2>1. word = IF seen.job[p] \in {"successful", "failed"}
               THEN seen.job[p] ELSE seen.bypassed[p]
    OBVIOUS
  <2> HIDE DEF word
  <2> QED BY <1>1, <2>1, SeenWord
<1>7. ~Unseen(p)
  BY <1>1 DEF Growing, TooEarly
<1>8. /\ rows.job[p] \in JobStatus \cup {"none"}
      /\ rows.bypassed[p] \in {"none", "successful", "failed"}
      /\ seen.job[p] \in JobStatus \cup {"none"}
      /\ seen.bypassed[p] \in {"none", "successful", "failed"}
  BY <1>1, Columns DEF Sure, AllRead
<1>9. /\ seen.job[p] = "none" <=> rows.job[p] = "none"
      /\ seen.job[p] = "none" => seen.bypassed[p] = rows.bypassed[p]
      /\ seen.job[p] \in Terminal => seen.job[p] = rows.job[p]
      /\ seen.bypassed[p] # "none" => seen.bypassed[p] = rows.bypassed[p]
      /\ rows.job[p] # "none" /\ rows.bypassed[p] # "none" => rows.bypassed[p] = rows.job[p]
      /\ NoTemplate(graph, seen, p) => NoTemplate(graph, rows, p) /\ seen.job[p] \notin Active
  BY <1>1 DEF Sure, IInv, SeenIsOld, SeenForGood, OneOutcome, NoTemplate
<1>10. word = "successful" \/ word = "failed"
  <2> SUFFICES ASSUME seen.bypassed[p] = "none", seen.job[p] \notin {"successful", "failed"}
               PROVE  FALSE
    BY <1>8
  <2>1. seen.job[p] \in {"none", "error", "canceled"}
    BY <1>4, <1>8, <1>9 DEF NoTemplate, JobStatus, Terminal, Active
  <2>2. rows.job[p] = seen.job[p] /\ rows.bypassed[p] = "none"
    BY <1>8, <1>9, <2>1 DEF Terminal
  <2>3. seen.job[p] = "none" => NoTemplate(graph, rows, p)
    BY <1>4, <1>9 DEF NoTemplate, Terminal
  <2>4. Unseen(p)
    BY <2>1, <2>2, <2>3 DEF Unseen, Failed, Terminal
  <2> QED BY <1>7, <2>4
<1>11. HasRun(p)
  BY <1>9, <1>10 DEF HasRun, Terminal
<1> QED BY <1>5, <1>6, <1>10, <1>11 DEF Leads

\* Who stays as it was in the commit of a pass is not new.
LEMMA DecidedRun ==
  ASSUME NEW D \in SUBSET Nodes, NEW S \in SUBSET Nodes, Decided(D, S),
         NEW n \in Nodes \ S
  PROVE  HasRun(n)' <=> HasRun(n)
BY DEF Decided, HasRun

\* The ALL nodes a pass spawns are led to by all their parents.
LEMMA DecidedAllLead ==
  ASSUME Sure, AllLead, ~TooEarly', NEW D \in SUBSET Nodes, NEW S \in SUBSET Nodes,
         IsMarking(graph, seen, D), Decided(D, S),
         S = {} \/ \E R \in SUBSET Nodes : S = ToSpawn(Marked(D), R)
  PROVE  AllLead'
<1>1. Growing /\ graph' = graph /\ rows'.dnr = D
  BY DecidedGrows DEF Sure, Decided
<1>2. rows.dnr \subseteq D
  BY DEF Sure, AllRead, SeenForGood, IsMarking, IInv, TypeOK, Rows, View
<1> SUFFICES ASSUME NEW n \in graph.all, HasRun(n)', NEW p \in Parents(graph, n)
             PROVE  HasRun(p)' /\ Leads(p, n)'
  BY <1>1 DEF AllLead
<1>3. n \in Nodes /\ p \in Nodes
  BY LinksAcyclic DEF Sure, IInv, Parents
<1>4. HasRun(p) /\ Leads(p, n)
  <2>1. CASE n \in S
    <3>1. PICK R \in SUBSET Nodes : n \in ToSpawn(Marked(D), R)
      BY <2>1
    <3>2. /\ n \notin D /\ seen.job[n] = "none" /\ seen.bypassed[n] = "none"
          /\ RelevantParentsFinished(graph, Marked(D), n)
          /\ AllParentsMetConvergenceCriteria(graph, Marked(D), n)
      BY <3>1, SpawnedMayRun
    <3> QED BY <1>1, <3>2, ParentLeads
  <2>2. CASE n \notin S
    <3>1. HasRun(n)
      BY <1>3, <2>2, DecidedRun
    <3> QED BY <3>1 DEF AllLead
  <2> QED BY <2>1, <2>2
<1> QED BY <1>1, <1>2, <1>3, <1>4, GrowingLinks DEF Growing

\* No node that is there for good gets marked: of those that were, one would
\* have no parent among them.
LEMMA GroundedStays ==
  ASSUME Sure, NEW D \in SUBSET Nodes, IsMarking(graph, seen, D),
         NEW G \in SUBSET Nodes, Grounded(G)
  PROVE  G \cap D = {}
<1> SUFFICES ASSUME G \cap D # {} PROVE FALSE
  OBVIOUS
<1>1. PICK n \in G \cap D : Parents(graph, n) \cap (G \cap D) = {}
  BY LinksAcyclic DEF Sure, IInv, Acyclic
<1>2. n \notin rows.dnr
  BY <1>1 DEF Grounded
<1>3. /\ n \notin Roots(graph) /\ ~HasRun(n)
      /\ n \notin graph.all =>
              \A p \in Parents(graph, n) :
                /\ p \in D \/ Succeeded(seen, p) \/ Failed(graph, seen, p)
                /\ ~Fires(graph, Marked(D), p, n)
  BY <1>2, NewlyMarked
<1>4. n \notin graph.all
  BY <1>1, <1>3 DEF Grounded
<1>5. PICK p \in Parents(graph, n) \cap G : Leads(p, n)
  BY <1>1, <1>3 DEF Grounded
<1>6. p \in Nodes /\ p \notin D
  BY <1>1, <1>5 DEF Parents
<1>7. Succeeded(seen, p) \/ Failed(graph, seen, p)
  BY <1>3, <1>4, <1>5, <1>6
<1>8. /\ Succeeded(seen, p) => Succeeded(rows, p)
      /\ Failed(graph, seen, p) => Failed(graph, rows, p)
  BY <1>6, SeenOutcome
<1>9. ~(Succeeded(rows, p) /\ Failed(graph, rows, p))
  BY DEF Succeeded, Failed, Terminal
<1>10. Marked(D).dnr = D /\ Marked(D).job = seen.job
        /\ Marked(D).bypassed = seen.bypassed /\ Marked(D).missing = seen.missing
  BY MarkedColumns DEF Sure, IInv
<1>11. Fires(graph, Marked(D), p, n)
  BY <1>5, <1>6, <1>7, <1>8, <1>9, <1>10 DEF Leads, Fires, Succeeded, Failed, NoTemplate
<1> QED BY <1>3, <1>4, <1>5, <1>11

\* What is there for good stays so.
LEMMA GroundedGrows ==
  ASSUME Sure, Growing, NEW D \in SUBSET Nodes, IsMarking(graph, seen, D), rows'.dnr = D,
         NEW G \in SUBSET Nodes, Grounded(G)
  PROVE  Grounded(G)'
<1>1. G \cap D = {}
  BY GroundedStays
<1>2. rows.dnr \subseteq D
  BY DEF Sure, AllRead, SeenForGood, IsMarking, IInv, TypeOK, Rows, View
<1>3. \A p, n \in Nodes : Leads(p, n) => Leads(p, n)'
  BY <1>2, GrowingLinks
<1>4. \A n : Parents(graph, n) \subseteq Nodes
  BY DEF Parents
<1> QED BY <1>1, <1>3, <1>4 DEF Grounded, Growing

\* What the walk of a pass reaches is led to from a root, through nodes that
\* ran or are there for good.
LEMMA ReachedGrounded ==
  ASSUME Sure, ~TooEarly', NEW D \in SUBSET Nodes, NEW R \in SUBSET Nodes,
         IsReached(graph, Marked(D), R), Decided(D, ToSpawn(Marked(D), R)),
         NEW N, N = {n \in R \ D : HasRun(n)' \/ Lost(n)'}
  PROVE  Grounded(N)'
<1>1. ToSpawn(Marked(D), R) \in SUBSET Nodes
  BY DEF ToSpawn
<1>2. Growing /\ graph' = graph /\ rows'.dnr = D
  BY <1>1, DecidedGrows DEF Sure, Decided
<1>3. N \cap D = {} /\ N \subseteq Nodes
  OBVIOUS
<1>4. ASSUME NEW n \in N, ~HasRun(n)' PROVE Lost(n)' /\ n \notin graph.all
  <2>1. Lost(n)'
    BY <1>4
  <2>2. Unseen(n)' /\ ~HasJob(n)'
    BY <2>1 DEF Lost, HasRun, Unseen, Failed
  <2> QED BY <1>2, <2>1, <2>2 DEF TooEarly
<1>5. ASSUME NEW n \in N, n \notin Roots(graph)
      PROVE  \E p \in Parents(graph, n) \cap N : Leads(p, n)'
  <2>1. PICK p \in R : Fires(graph, Marked(D), p, n)
    BY <1>5 DEF IsReached
  <2>2. Marked(D).dnr = D /\ Marked(D).job = seen.job
        /\ Marked(D).bypassed = seen.bypassed /\ Marked(D).missing = seen.missing
    BY MarkedColumns DEF Sure, IInv
  <2>3. /\ p \in Nodes /\ p \notin D /\ n \in Nodes
        /\ \/ Succeeded(seen, p) /\ <<p, n>> \in SuccessPath(graph)
           \/ Failed(graph, seen, p) /\ <<p, n>> \in FailurePath(graph)
    BY <1>3, <2>1, <2>2 DEF Fires, Succeeded, Failed, NoTemplate
  <2>4. /\ Succeeded(seen, p) => Succeeded(rows', p)
        /\ Failed(graph, seen, p) => Failed(graph, rows', p)
    BY <1>2, <2>3, SeenOutcome DEF Growing
  <2>5. Leads(p, n)'
    BY <1>2, <2>3, <2>4 DEF Leads
  <2>6. p \in Parents(graph, n)
    BY <2>3 DEF Parents, Edges, SuccessPath, FailurePath
  <2>7. HasRun(p)' \/ Lost(p)'
    BY <1>2, <2>3, <2>4 DEF Succeeded, Failed, Lost, HasRun, Terminal
  <2> QED BY <2>1, <2>3, <2>5, <2>6, <2>7
<1> QED BY <1>2, <1>3, <1>4, <1>5 DEF Grounded

\* So every node that ran is there for good, also once a pass has committed.
LEMMA DecidedAnyLeads ==
  ASSUME Sure, AnyLeads, ~TooEarly', NEW D \in SUBSET Nodes, NEW S \in SUBSET Nodes,
         IsMarking(graph, seen, D), Decided(D, S),
         S = {} \/ \E R \in SUBSET Nodes :
                     IsReached(graph, Marked(D), R) /\ S = ToSpawn(Marked(D), R)
  PROVE  AnyLeads'
<1>1. PICK G \in SUBSET Nodes : Grounded(G) /\ \A n \in Nodes : HasRun(n) => n \in G
  BY DEF AnyLeads
<1>2. Growing /\ graph' = graph /\ rows'.dnr = D
  BY DecidedGrows DEF Sure, Decided
<1>3. Grounded(G)'
  BY <1>1, <1>2, GroundedGrows
<1>4. CASE S = {}
  BY <1>1, <1>3, <1>4, DecidedRun DEF AnyLeads
<1>5. CASE S # {}
  <2>1. PICK R \in SUBSET Nodes : IsReached(graph, Marked(D), R) /\ S = ToSpawn(Marked(D), R)
    BY <1>5
  <2>2. PICK N \in SUBSET Nodes : N = {n \in R \ D : HasRun(n)' \/ Lost(n)'}
    OBVIOUS
  <2>3. Grounded(N)'
    BY <2>1, <2>2, ReachedGrounded
  <2>4. S \subseteq N
    <3> SUFFICES ASSUME NEW n \in S PROVE n \in N
      OBVIOUS
    <3>1. n \in R /\ n \notin D
      BY <2>1, SpawnedMayRun
    <3>2. HasRun(n)'
      BY DEF Decided, Spawned, HasRun
    <3> QED BY <2>2, <3>1, <3>2
  <2>5. Grounded(G \cup N)'
    BY <1>2, <1>3, <2>3 DEF Grounded
  <2>6. \A n \in Nodes : HasRun(n)' => n \in G \cup N
    BY <1>1, <2>4, DecidedRun
  <2> QED BY <1>1, <2>5, <2>6 DEF AnyLeads
<1> QED BY <1>4, <1>5

-----------------------------------------------------------------------------
(* The end *)

\* A node without template that a pass did not mark although it was done is a
\* root, or some parent leads to it.
LEMMA LostLedTo ==
  ASSUME Sure, ~TooEarly', NEW D \in SUBSET Nodes, IsMarking(graph, seen, D),
         IsWorkflowDone(graph, Marked(D)), Decided(D, {}),
         NEW n \in Nodes \ D, Lost(n)', n \notin Roots(graph)
  PROVE  n \notin graph.all /\ \E p \in Parents(graph, n) : Fires(graph, rows', p, n)
<1>1. Growing /\ graph' = graph /\ rows'.dnr = D /\ TypeOK
  BY DecidedGrows DEF Sure, Decided, IInv
<1>2. n \notin graph.all
  <2>1. Unseen(n)' /\ ~HasJob(n)'
    BY DEF Lost, HasRun, Unseen, Failed
  <2> QED BY <1>1, <2>1 DEF TooEarly
<1>3. ~HasRun(n)
  BY <1>1, DecidedRun DEF Lost
<1>4. seen.job[n] = "none" /\ seen.bypassed[n] = "none"
  BY <1>3, SeenOutcome
<1>5. Marked(D).dnr = D /\ Marked(D).job = seen.job
        /\ Marked(D).bypassed = seen.bypassed /\ Marked(D).missing = seen.missing
  BY <1>1, MarkedColumns
<1>6. ~MarksNode(graph, Marked(D), n)
  BY DEF IsMarking, Marked
<1>7. \A p \in Parents(graph, n) : ~WaitsForJobOrVirtualSuccess(graph, Marked(D), p)
  BY DEF IsWorkflowDone, Parents
<1>8. ~ShouldMarkDnr(graph, Marked(D), n)
  BY <1>2, <1>4, <1>5, <1>6, <1>7 DEF MarksNode
<1>9. PICK p \in Parents(graph, n) :
        \/ ~(p \in D \/ Succeeded(seen, p) \/ Failed(graph, seen, p))
        \/ Fires(graph, Marked(D), p, n)
  BY <1>5, <1>8 DEF ShouldMarkDnr, Succeeded, Failed, NoTemplate
<1>10. p \in Nodes
  BY DEF Parents
<1>11. p \in D \/ Succeeded(seen, p) \/ Failed(graph, seen, p)
  <2>1. /\ seen.job[p] \in JobStatus \cup {"none"}
        /\ seen.bypassed[p] \in {"none", "successful", "failed"}
    BY <1>1, <1>10, Columns DEF Sure, AllRead
  <2>2. seen.job[p] \notin Active
    BY <1>5, <1>10 DEF IsWorkflowDone
  <2>3. \/ p \in D \/ seen.job[p] # "none" \/ seen.bypassed[p] # "none"
        \/ NoTemplate(graph, seen, p)
    BY <1>5, <1>7 DEF WaitsForJobOrVirtualSuccess, NoTemplate
  <2> QED BY <2>1, <2>2, <2>3 DEF Succeeded, Failed, JobStatus, Active, Terminal
<1>12. Fires(graph, Marked(D), p, n)
  BY <1>9, <1>11
<1>13. /\ Succeeded(seen, p) => Succeeded(rows', p)
       /\ Failed(graph, seen, p) => Failed(graph, rows', p)
  BY <1>1, <1>10, SeenOutcome DEF Growing
<1>14. Fires(graph, rows', p, n)
  BY <1>1, <1>5, <1>12, <1>13 DEF Fires, Succeeded, Failed, NoTemplate
<1> QED BY <1>2, <1>14

\* So a pass that finishes the workflow job leaves the nodes to have run that
\* the outcomes call for.
LEMMA FinishedFollows ==
  ASSUME Sure, ~TooEarly', NEW D \in SUBSET Nodes, IsMarking(graph, seen, D),
         IsWorkflowDone(graph, Marked(D)), Decided(D, {}), OneOutcome',
         SkippedRightly', AllLead', AnyLeads', NEW n \in Nodes
  PROVE  Ran(n)' <=> RunsByRule(n)'
<1>1. Growing /\ graph' = graph /\ rows'.dnr = D /\ TypeOK
  BY DecidedGrows DEF Sure, Decided, IInv
<1>2. CASE n \in D
  <2>1. ~HasRun(n)'
    BY <1>1, <1>2 DEF OneOutcome
  <2>2. ~Ran(n)'
    BY <1>1, <1>2, <2>1 DEF Ran, HasRun
  <2>3. /\ n \notin Roots(graph)
        /\ IF n \in graph.all THEN \E p \in Parents(graph, n) : Turned(p, n)'
                              ELSE \A p \in Parents(graph, n) : Turned(p, n)'
    BY <1>1, <1>2 DEF SkippedRightly
  <2>4. ~RunsByRule(n)'
    BY <1>1, <2>3 DEF RunsByRule, Turned
  <2> QED BY <2>2, <2>4
<1>3. CASE n \notin D /\ HasRun(n)'
  <2>1. Ran(n)'
    BY <1>3 DEF Ran, HasRun
  <2>2. CASE n \in graph.all
    <3>1. \A p \in Parents(graph, n) : HasRun(p)' /\ Leads(p, n)'
      BY <1>1, <1>3, <2>2 DEF AllLead
    <3>2. \A p \in Parents(graph, n) : Fires(graph, rows', p, n)
      BY <1>1, <3>1 DEF OneOutcome, Leads, Fires, Parents
    <3> QED BY <1>1, <2>1, <2>2, <3>2 DEF RunsByRule
  <2>3. CASE n \notin graph.all
    <3>1. PICK G \in SUBSET Nodes : Grounded(G)' /\ n \in G
      BY <1>3 DEF AnyLeads
    <3>2. \/ n \in Roots(graph)
          \/ \E p \in Parents(graph, n) \cap G : p \notin D /\ Leads(p, n)'
      BY <1>1, <3>1 DEF Grounded
    <3>3. \/ n \in Roots(graph)
          \/ \E p \in Parents(graph, n) : Fires(graph, rows', p, n)
      BY <1>1, <3>2 DEF Leads, Fires
    <3> QED BY <1>1, <2>1, <2>3, <3>3 DEF RunsByRule
  <2> QED BY <2>2, <2>3
<1>4. CASE n \notin D /\ ~HasRun(n)'
  <2>1. ~HasRun(n)
    BY <1>4, DecidedRun
  <2>2. seen.job[n] = "none" /\ seen.bypassed[n] = "none"
    BY <2>1, SeenOutcome
  <2>3. ~WaitsForJobOrVirtualSuccess(graph, Marked(D), n)
    BY DEF IsWorkflowDone
  <2>4. NoTemplate(graph, seen, n)
    BY <1>1, <1>4, <2>2, <2>3, MarkedColumns DEF WaitsForJobOrVirtualSuccess, NoTemplate
  <2>5. NoTemplate(graph, rows', n)
    <3>1. n \in rows.missing
      BY <2>4 DEF NoTemplate, Sure, AllRead, IInv, SeenIsOld
    <3> QED BY <2>4, <3>1 DEF Decided, NoTemplate
  <2>6. Lost(n)'
    BY <1>1, <1>4, <2>5 DEF Lost
  <2>7. Ran(n)'
    BY <1>1, <1>4, <2>5 DEF Ran
  <2>8. \/ n \in Roots(graph)
        \/ n \notin graph.all /\ \E p \in Parents(graph, n) : Fires(graph, rows', p, n)
    BY <1>4, <2>6, LostLedTo
  <2> QED BY <1>1, <2>7, <2>8 DEF RunsByRule
<1> QED BY <1>2, <1>3, <1>4

-----------------------------------------------------------------------------
(* The invariant about the nodes that ran is inductive *)

\* In a new workflow job nothing ran and nothing is skipped.
LEMMA InitEdges == Init => EInv /\ FollowsEdges
<1> SUFFICES ASSUME Init PROVE EInv /\ FollowsEdges
  OBVIOUS
<1>1. PICK w \in Workflows : graph = w.graph /\ rows = w.rows
  BY DEF Init
<1>2. /\ rows.dnr = {}
      /\ \A n \in Nodes : ~HasRun(n)
  BY <1>1, WorkflowsAssumption, FreshAssumption DEF HasRun
<1>3. graph.all \subseteq Nodes
  BY <1>1, WorkflowsAssumption
<1>4. SkippedRightly /\ AllLead
  BY <1>2, <1>3 DEF SkippedRightly, AllLead
<1>5. AnyLeads
  <2>1. Grounded({})
    BY DEF Grounded
  <2> QED BY <1>2, <2>1 DEF AnyLeads
<1>6. ~Finished
  BY DEF Init, Finished
<1> QED BY <1>4, <1>5, <1>6 DEF EInv, FollowsEdges

\* A pass keeps it.
LEMMA DecidedEdges ==
  ASSUME IInv, OInv, EInv, WfmDecide, OneOutcome', Free'
  PROVE  /\ SkippedRightly' /\ AllLead' /\ AnyLeads'
         /\ Finished' => \A n \in Nodes : Ran(n)' <=> RunsByRule(n)'
<1>1. ~cancelFlag /\ ~resumed /\ AllRead /\ pass = "reading"
  BY DEF WfmDecide, AllRead, Free, userVars
<1>2. PICK D \in SUBSET Nodes :
           /\ IsMarking(graph, seen, D)
           /\ \/ WfmFinish(D) /\ IsWorkflowDone(graph, Marked(D)) /\ Decided(D, {})
              \/ UNCHANGED status /\ \E R \in SUBSET Nodes :
                   IsReached(graph, Marked(D), R) /\ Decided(D, ToSpawn(Marked(D), R))
  BY <1>1, PassDecides
<1>3. \A R \in SUBSET Nodes : ToSpawn(Marked(D), R) \in SUBSET Nodes
  BY DEF ToSpawn
<1>4. PICK S \in SUBSET Nodes :
        /\ Decided(D, S)
        /\ S = {} \/ \E R \in SUBSET Nodes :
                       IsReached(graph, Marked(D), R) /\ S = ToSpawn(Marked(D), R)
  BY <1>2, <1>3
<1>5. Growing
  BY <1>4, DecidedGrows
<1>6. ~TooEarly'
  BY DEF Free
<1>7. Free
  BY <1>1, <1>5, <1>6, EarlyStays DEF Free
<1>8. Sure /\ status = "running" /\ SkippedRightly /\ AllLead /\ AnyLeads
  BY <1>1, <1>7 DEF OInv, EInv, Sure, OverQuietly
<1>9. SkippedRightly'
  BY <1>2, <1>4, <1>8, DecidedSkips
<1>10. AllLead'
  BY <1>2, <1>4, <1>6, <1>8, DecidedAllLead
<1>11. AnyLeads'
  BY <1>2, <1>4, <1>6, <1>8, DecidedAnyLeads
<1>12. ASSUME Finished', NEW n \in Nodes PROVE Ran(n)' <=> RunsByRule(n)'
  <2>1. IsWorkflowDone(graph, Marked(D)) /\ Decided(D, {})
    BY <1>2, <1>8, <1>12 DEF Finished
  <2> QED BY <1>2, <1>6, <1>8, <1>9, <1>10, <1>11, <2>1, FinishedFollows
<1> QED BY <1>9, <1>10, <1>11, <1>12

\* So does every other step, and what the nodes came to stays.
LEMMA StepEdges ==
  ASSUME IInv, OInv, EInv, FollowsEdges, [Next]_vars, [DecidesOnce]_vars
  PROVE  EInv' /\ FollowsEdges'
<1> SUFFICES ASSUME Free'
             PROVE  /\ SkippedRightly' /\ AllLead' /\ AnyLeads'
                    /\ Finished' => \A n \in Nodes : Ran(n)' <=> RunsByRule(n)'
  BY DEF EInv, FollowsEdges, Free, Finished
<1>1. CASE Resume
  BY <1>1 DEF Resume, Free
<1>2. CASE WfmDecide
  <2>1. ~cancelFlag
    BY <1>2 DEF WfmDecide, Free
  <2> QED BY <1>2, <2>1, DecidedAgree, DecidedEdges
<1>3. CASE ~WfmDecide /\ ~Resume
  <2>1. Moved /\ ~cancelFlag /\ resumed' = resumed
    BY <1>3, OthersMove, OthersKeep DEF Free
  <2>2. OneOutcome
    BY <2>1 DEF OInv
  <2>3. Growing
    BY <2>1, <2>2, MovedGrows
  <2>4. Free
    BY <2>1, <2>3, EarlyStays DEF Free
  <2>5. SkippedRightly' /\ AllLead' /\ AnyLeads'
    BY <2>1, <2>2, <2>4, MovedEdges DEF EInv
  <2>6. ASSUME Finished', NEW n \in Nodes PROVE Ran(n)' <=> RunsByRule(n)'
    <3>1. /\ Finished /\ graph' = graph
          /\ rows'.dnr = rows.dnr
          /\ \A m \in Nodes : /\ rows'.job[m] = rows.job[m]
                              /\ rows'.bypassed[m] = rows.bypassed[m]
                              /\ m \in rows'.missing <=> m \in rows.missing
      BY <1>3, <2>6, OverStays
    <3>2. Ran(n) <=> RunsByRule(n)
      BY <2>4, <3>1 DEF FollowsEdges, Free
    <3>3. Ran(n)' <=> Ran(n)
      BY <3>1 DEF Ran, NoTemplate
    <3>4. \A p \in Nodes : Fires(graph, rows', p, n) <=> Fires(graph, rows, p, n)
      BY <3>1 DEF Fires, Succeeded, Failed, NoTemplate
    <3>5. RunsByRule(n)' <=> RunsByRule(n)
      BY <3>1, <3>4 DEF RunsByRule, Parents
    <3> QED BY <3>2, <3>3, <3>5
  <2> QED BY <2>5, <2>6
<1> QED BY <1>1, <1>2, <1>3

\* In a workflow job nobody cancels or resumes, the nodes that ran at the end
\* are exactly those the outcomes of their parents call for, on every acyclic
\* graph and in every order of passes, jobs and deletions, but for the ALL
\* nodes that go too early (mark_dnr_nodes, bfs_nodes_to_run), and as long as
\* no approval is decided twice.
THEOREM EdgesAreFollowed == Spec /\ DecidedOnce => []FollowsEdges
<1> DEFINE All == IInv /\ OInv /\ EInv /\ FollowsEdges
<1>1. Init => All
  BY InitIInv, InitOInv, InitEdges
<1>2. All /\ [Next]_vars /\ [DecidesOnce]_vars => All'
  BY StepIInv, StepOInv, StepEdges
<1>3. All => FollowsEdges
  OBVIOUS
<1> HIDE DEF All
<1> QED BY <1>1, <1>2, <1>3, PTL DEF Spec, DecidedOnce
=============================================================================
