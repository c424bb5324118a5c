----------------------- MODULE WorkflowManager_proofs -----------------------
(***************************************************************************)
(* Theorems about WorkflowManager, for every set of nodes, graph, outcome  *)
(* and mix of requests.                                                    *)
(*                                                                         *)
(* Everything rests on one inductive invariant.  Its heart is SeenIsOld:   *)
(* what a pass has read may be stale, but only in one direction.  Nobody   *)
(* but the pass gives a node a job, takes one away, or lets a node that    *)
(* was done become undone while the pass reads.                            *)
(***************************************************************************)
EXTENDS WorkflowManager, TLAPS

\* How the rows may have moved on since the pass read them.
SeenIsOld ==
  pass = "reading" =>
    \A n \in Nodes :
      /\ seen.job[n] = "none" <=> rows.job[n] = "none"
      /\ seen.job[n] \in Terminal => rows.job[n] \in Terminal
      /\ n \in seen.dnr => n \in rows.dnr
      /\ n \in seen.missing => n \in rows.missing
      /\ seen.bypassed[n] # "none" => rows.bypassed[n] # "none"
      /\ graph.kind[n] = "job" => seen.bypassed[n] = rows.bypassed[n]

\* Only an AI task waits for the decision on its plan.
AwaitingIsAi == \A n \in rows.awaiting : graph.kind[n] = "ai"

\* Whoever is about to decide has read an approval that exists.
DecidedExists == \A d \in deciding : Approval(d[1]) /\ HasJob(d[1])

IInv == /\ TypeOK
        /\ SeenIsOld
        /\ AwaitingIsAi
        /\ DecidedExists
        /\ PlainDnrHasNoJob
        /\ BypassedIsDone

-----------------------------------------------------------------------------
(* What a step does to the rows *)

\* A helper of the type proof: the empty view is a view.
LEMMA NothingSeenType == NothingSeen \in SeenRows
BY DEF NothingSeen, SeenRows, View

\* The workflow jobs start with rows of the right type.
LEMMA InitIInv == Init => IInv
<1> SUFFICES ASSUME Init PROVE IInv
  OBVIOUS
<1>1. PICK w \in Workflows : graph = w.graph /\ rows = w.rows
  BY DEF Init
<1>2. /\ rows \in Rows
      /\ \A n \in Nodes : rows.job[n] = "none"
      /\ \A n \in rows.awaiting : graph.kind[n] = "ai"
  BY <1>1, WorkflowsAssumption
<1>3. TypeOK
  BY <1>1, <1>2, NothingSeenType DEF Init, TypeOK, Graphs, Decisions, Steps
<1>4. SeenIsOld /\ DecidedExists /\ AwaitingIsAi
  BY <1>2 DEF Init, SeenIsOld, DecidedExists, AwaitingIsAi
<1>5. PlainDnrHasNoJob /\ BypassedIsDone
  BY <1>2, <1>3 DEF PlainDnrHasNoJob, BypassedIsDone, HasJob, TypeOK, Rows, View
<1> QED BY <1>3, <1>4, <1>5 DEF IInv

-----------------------------------------------------------------------------
(* Type correctness *)

\* Setting the status of one job keeps the rows a view.
LEMMA SetJobType ==
  ASSUME rows \in Rows, NEW n \in Nodes, NEW st \in JobStatus, SetJob(n, st)
  PROVE  rows' \in Rows
BY DEF SetJob, Rows, View

\* The pass: reading keeps the types.
LEMMA ReadingType ==
  TypeOK /\ (WfmFetch \/ WfmReadNodes \/ (\E n \in Nodes : WfmReadJob(n))) => TypeOK'
<1> SUFFICES ASSUME TypeOK PROVE WfmFetch \/ WfmReadNodes \/ (\E n \in Nodes : WfmReadJob(n)) => TypeOK'
  OBVIOUS
<1>1. WfmFetch => TypeOK'
  BY DEF WfmFetch, TypeOK, userVars
<1>2. WfmReadNodes => TypeOK'
  <2> SUFFICES ASSUME WfmReadNodes PROVE TypeOK'
    OBVIOUS
  <2>1. seen' \in SeenRows
    BY DEF WfmReadNodes, TypeOK, Rows, SeenRows, View, HasJob
  <2> QED BY <2>1 DEF WfmReadNodes, TypeOK, userVars
<1>3. ASSUME NEW n \in Nodes, WfmReadJob(n) PROVE TypeOK'
  <2>1. seen' \in SeenRows
    BY <1>3 DEF WfmReadJob, TypeOK, Rows, SeenRows, View
  <2> QED BY <1>3, <2>1 DEF WfmReadJob, TypeOK, userVars
<1> QED BY <1>1, <1>2, <1>3

\* The view a pass goes by, s, and the rows as it has written them before it
\* spawns, w.
PassView(s, w) ==
  \/ s = Ended(seen) /\ w = RowsCancelled
  \/ \E D \in SUBSET Nodes : IsMarking(graph, seen, D) /\ s = Marked(D) /\ w = RowsMarked(D)

\* Both have the right type.
LEMMA PassViewType ==
  ASSUME TypeOK, NEW s, NEW w, PassView(s, w)
  PROVE  s \in SeenRows /\ w \in Rows
<1>1. CASE s = Ended(seen) /\ w = RowsCancelled
  BY <1>1 DEF Ended, RowsCancelled, TypeOK, SeenRows, Rows, View, JobStatus, Terminal
<1>2. ASSUME NEW D \in SUBSET Nodes, s = Marked(D), w = RowsMarked(D)
      PROVE  s \in SeenRows /\ w \in Rows
  BY <1>2 DEF Marked, RowsMarked, TypeOK, SeenRows, Rows, View
<1> QED BY <1>1, <1>2 DEF PassView

\* A spawn writes a result of the kind its node can have.
LEMMA SpawnNodesType ==
  ASSUME TypeOK, NEW w \in Rows, NEW S \in SUBSET Nodes,
         NEW result \in [S -> {"successful", "failed", "pending"}],
         \A n \in S : result[n] \in SpawnResults(n),
         SpawnNodes(w, S, result)
  PROVE  rows' \in Rows
<1> DEFINE jobs == {n \in S : ~Virtual(graph, n)}
           asks == {n \in S : graph.kind[n] = "ai" /\ result[n] = "pending"}
           done == S \ (jobs \cup asks)
<1>1. \A n \in done : result[n] \in {"successful", "failed"}
  BY DEF SpawnResults, Virtual
<1>2. \A n \in S : result[n] \in JobStatus
  BY DEF JobStatus, Active, Terminal
<1>3. rows' = [w EXCEPT
           !.dnr = @ \ jobs,
           !.bypassed = [n \in Nodes |-> IF n \in done THEN result[n] ELSE @[n]],
           !.job = [n \in Nodes |-> IF n \in jobs \cup asks THEN result[n] ELSE @[n]],
           !.awaiting = @ \cup asks]
  BY DEF SpawnNodes
<1>4. jobs \subseteq S /\ asks \subseteq S
  OBVIOUS
<1> HIDE DEF jobs, asks, done
<1> QED BY <1>1, <1>2, <1>3, <1>4 DEF Rows, View

\* What is taken from what a walk reaches is a set of nodes.
LEMMA WfmSpawnType ==
  ASSUME TypeOK, NEW s, NEW w \in Rows, WfmSpawn(s, w)
  PROVE  rows' \in Rows
<1>1. PICK R \in SUBSET Nodes :
         \E result \in [ToSpawn(s, R) -> {"successful", "failed", "pending"}] :
            /\ \A n \in ToSpawn(s, R) : result[n] \in SpawnResults(n)
            /\ SpawnNodes(w, ToSpawn(s, R), result)
  BY DEF WfmSpawn
<1>2. ToSpawn(s, R) \in SUBSET Nodes
  BY DEF ToSpawn
<1> QED BY <1>1, <1>2, SpawnNodesType

\* The pass of a cancelled workflow job, whether it ends it or still spawns.
LEMMA WfmCancelType == TypeOK /\ WfmCancel => TypeOK'
<1> SUFFICES ASSUME TypeOK, WfmCancel PROVE TypeOK'
  OBVIOUS
<1>1. rows' \in Rows
  <2>1. RowsCancelled \in Rows
    BY PassViewType DEF PassView
  <2> QED BY <2>1, WfmSpawnType DEF WfmCancel
<1>2. jobCancel' \in SUBSET Nodes
  BY DEF WfmCancel, TypeOK, Flagged, SeenActive
<1>3. status' \in {"running", "successful", "failed", "canceled"}
  BY DEF WfmCancel, TypeOK
<1> QED BY <1>1, <1>2, <1>3, NothingSeenType DEF WfmCancel, TypeOK, EndPass, userVars

\* A pass that skips, finishes or spawns commits rows of the right type.
LEMMA WfmDecideType == TypeOK /\ WfmDecide => TypeOK'
<1> SUFFICES ASSUME TypeOK, WfmDecide PROVE TypeOK'
  OBVIOUS
<1>1. PICK D \in SUBSET Nodes :
         /\ IsMarking(graph, seen, D)
         /\ \/ WfmFinish(D)
            \/ WfmSpawn(Marked(D), RowsMarked(D)) /\ UNCHANGED <<status, jobCancel>>
  BY DEF WfmDecide
<1>2. RowsMarked(D) \in Rows
  BY <1>1, PassViewType DEF PassView
<1>3. /\ rows' \in Rows
      /\ status' \in {"running", "successful", "failed", "canceled"}
      /\ jobCancel' = jobCancel
  <2>1. CASE WfmFinish(D)
    BY <1>2, <2>1 DEF WfmFinish
  <2>2. CASE ~WfmFinish(D)
    BY <1>1, <1>2, <2>2, WfmSpawnType DEF TypeOK
  <2> QED BY <2>1, <2>2
<1> QED BY <1>3, NothingSeenType DEF WfmDecide, TypeOK, EndPass, userVars

\* A pass that fails half way leaves the rows alone.
LEMMA WfmRollbackType == TypeOK /\ WfmRollback => TypeOK'
BY NothingSeenType DEF WfmRollback, TypeOK, EndPass, userVars

\* The spawned jobs, their cancellation and the decisions of approvals.
LEMMA JobsType ==
  ASSUME TypeOK, NEW n \in Nodes,
         \/ JobSteps(n) \/ CancelJob(n) \/ DeleteTemplate(n)
         \/ \E how \in Deciders : ReadApproval(n, how) \/ Decide(n, how)
  PROVE  TypeOK'
<1>1. CASE JobStart(n)
  <2>1. rows' \in Rows
    BY <1>1, SetJobType DEF JobStart, TypeOK, JobStatus, Active
  <2> QED BY <1>1, <2>1 DEF JobStart, TypeOK, wfmVars, userVars
<1>2. ASSUME NEW st \in Terminal, JobEnd(n, st) PROVE TypeOK'
  <2>1. rows' \in Rows
    BY <1>2, SetJobType DEF JobEnd, TypeOK, JobStatus
  <2> QED BY <1>2, <2>1 DEF JobEnd, TypeOK, wfmVars, userVars
<1>3. CASE CancelJob(n)
  BY <1>3 DEF CancelJob, TypeOK, wfmVars, userVars
<1>4. CASE DeleteTemplate(n)
  <2>1. rows' \in Rows
    BY <1>4 DEF DeleteTemplate, TypeOK, Rows, View
  <2> QED BY <1>4, <2>1 DEF DeleteTemplate, TypeOK, wfmVars, userVars
<1>5. ASSUME NEW how \in Deciders, ReadApproval(n, how) PROVE TypeOK'
  BY <1>5 DEF ReadApproval, TypeOK, wfmVars, Decisions
<1>6. ASSUME NEW how \in Deciders, Decide(n, how) PROVE TypeOK'
  <2>1. PICK st \in {"successful", "failed"} : WriteApproval(n, how, st)
    BY <1>6 DEF Decide
  <2>2. rows' \in Rows
    BY <2>1 DEF WriteApproval, TypeOK, Rows, View, JobStatus, Terminal
  <2> QED BY <2>1, <2>2 DEF WriteApproval, TypeOK, wfmVars, Decisions
<1> QED BY <1>1, <1>2, <1>3, <1>4, <1>5, <1>6 DEF JobSteps

\* The cancel request and the resumed copy.
LEMMA CancelType == TypeOK /\ (Cancel \/ Resume) => TypeOK'
<1> SUFFICES ASSUME TypeOK PROVE Cancel \/ Resume => TypeOK'
  OBVIOUS
<1>1. CancelAccept \/ CancelSetFlag \/ CancelClose \/ CancelDies => TypeOK'
  BY DEF CancelAccept, CancelSetFlag, CancelClose, CancelDies, TypeOK, wfmVars, Steps
<1>2. CancelMarkNodes => TypeOK'
  <2> SUFFICES ASSUME CancelMarkNodes PROVE TypeOK'
    OBVIOUS
  <2>1. rows' \in Rows
    BY DEF CancelMarkNodes, TypeOK, Rows, View
  <2> QED BY <2>1 DEF CancelMarkNodes, TypeOK, wfmVars, Steps
<1>3. ASSUME NEW ended \in SUBSET Nodes, CancelChildren(ended) PROVE TypeOK'
  <2>1. rows' \in Rows
    BY <1>3 DEF CancelChildren, TypeOK, Rows, View, JobStatus, Terminal
  <2>2. jobCancel' \in SUBSET Nodes /\ cancelling' \in Steps
    BY <1>3 DEF CancelChildren, TypeOK, Steps
  <2> QED BY <1>3, <2>1, <2>2 DEF CancelChildren, TypeOK, wfmVars
<1>4. Resume => TypeOK'
  <2> SUFFICES ASSUME Resume PROVE TypeOK'
    OBVIOUS
  <2>1. rows' \in Rows
    BY DEF Resume, TypeOK, Rows, View
  <2> QED BY <2>1, NothingSeenType DEF Resume, TypeOK, EndPass, Steps
<1> QED BY <1>1, <1>2, <1>3, <1>4 DEF Cancel

\* Every action keeps the types: one case each.
LEMMA StepType == TypeOK /\ [Next]_vars => TypeOK'
<1> SUFFICES ASSUME TypeOK, [Next]_vars PROVE TypeOK'
  OBVIOUS
<1>1. CASE Wfm
  BY <1>1, ReadingType, WfmCancelType, WfmDecideType, WfmRollbackType DEF Wfm
<1>2. CASE \E n \in Nodes : JobSteps(n) \/ CancelJob(n) \/ DeleteTemplate(n)
  BY <1>2, JobsType
<1>3. CASE \E n \in Nodes, how \in Deciders : ReadApproval(n, how) \/ Decide(n, how)
  BY <1>3, JobsType
<1>4. CASE Cancel \/ Resume
  BY <1>4, CancelType
<1>5. CASE UNCHANGED vars
  BY <1>5 DEF vars, wfmVars, userVars, TypeOK
<1> QED BY <1>1, <1>2, <1>3, <1>4, <1>5 DEF Next

\* The variables keep their types, whatever the workflow jobs and the
\* requests: no pass, cancel request or resume leaves a row half written.
THEOREM TypeCorrect == Spec => []TypeOK
<1>1. Init => TypeOK
  BY InitIInv DEF IInv
<1> QED BY <1>1, StepType, PTL DEF Spec

-----------------------------------------------------------------------------
(* The invariant is inductive *)

\* The parts of the invariant that are not about types.
Kept == /\ SeenIsOld
        /\ AwaitingIsAi
        /\ DecidedExists
        /\ PlainDnrHasNoJob
        /\ BypassedIsDone

USE DEF Approval, HasJob

\* A step that leaves the rows and the decisions alone keeps the invariant
\* when it reads nothing.
LEMMA KeptUnchanged ==
  ASSUME IInv, UNCHANGED <<graph, rows, deciding>>,
         UNCHANGED <<pass, seen>> \/ pass' # "reading"
  PROVE  Kept'
BY DEF IInv, Kept, SeenIsOld, AwaitingIsAi, DecidedExists, PlainDnrHasNoJob, BypassedIsDone

\* Whoever decides decides a node.
LEMMA DecidingNodes == TypeOK => \A d \in deciding : d[1] \in Nodes /\ d[2] \in Deciders
BY DEF TypeOK, Decisions

\* While the pass reads, what it reads is not newer than the rows.
LEMMA ReadingKept ==
  IInv /\ (WfmFetch \/ WfmReadNodes \/ (\E n \in Nodes : WfmReadJob(n))) => Kept'
<1> SUFFICES ASSUME IInv PROVE WfmFetch \/ WfmReadNodes \/ (\E n \in Nodes : WfmReadJob(n)) => Kept'
  OBVIOUS
<1>1. WfmFetch => Kept'
  BY KeptUnchanged DEF WfmFetch, userVars
<1>2. ASSUME WfmReadNodes PROVE Kept'
  <2>1. SeenIsOld'
    BY <1>2 DEF WfmReadNodes, SeenIsOld, IInv, TypeOK, Rows, View, Unread, Terminal
  <2> QED BY <1>2, <2>1 DEF WfmReadNodes, userVars, IInv, Kept, AwaitingIsAi,
        DecidedExists, PlainDnrHasNoJob, BypassedIsDone
<1>3. ASSUME NEW m \in Nodes, WfmReadJob(m) PROVE Kept'
  <2>1. SeenIsOld'
    BY <1>3 DEF WfmReadJob, SeenIsOld, IInv, TypeOK, SeenRows, View, Unread, Terminal
  <2> QED BY <1>3, <2>1 DEF WfmReadJob, userVars, IInv, Kept, AwaitingIsAi,
        DecidedExists, PlainDnrHasNoJob, BypassedIsDone
<1> QED BY <1>1, <1>2, <1>3

\* Only nodes the pass saw without a job are marked or spawned, and those
\* still have none.
LEMMA MarkedHasNoJob ==
  ASSUME IInv, AllRead,
         NEW D \in SUBSET Nodes, IsMarking(graph, seen, D),
         NEW n \in D, n \notin seen.dnr
  PROVE  ~HasJob(n)
<1>1. MarksNode(graph, [seen EXCEPT !.dnr = D], n)
  BY DEF IsMarking
<1>2. seen.job[n] = "none"
  BY <1>1 DEF MarksNode, IInv, TypeOK, SeenRows, View
<1> QED BY <1>2 DEF IInv, SeenIsOld, AllRead

\* What a pass goes by is old, compared with the rows it has written, in the
\* same direction; and it has marked only nodes without a job and ended only
\* jobs that are there.
LEMMA PassViewIsOld ==
  ASSUME IInv, AllRead, NEW s, NEW w, PassView(s, w)
  PROVE  /\ w.missing = rows.missing /\ w.awaiting = rows.awaiting
         /\ w.bypassed = rows.bypassed
         /\ \A n \in Nodes :
              /\ s.job[n] = "none" <=> w.job[n] = "none"
              /\ s.job[n] \in Terminal => w.job[n] \in Terminal
              /\ n \in s.dnr => n \in w.dnr
              /\ n \in s.missing => n \in w.missing
              /\ s.bypassed[n] # "none" => w.bypassed[n] # "none"
              /\ graph.kind[n] = "job" => s.bypassed[n] = w.bypassed[n]
              /\ w.job[n] = "none" <=> rows.job[n] = "none"
              /\ rows.job[n] \in Terminal => w.job[n] \in Terminal
              /\ w.job[n] \in {rows.job[n], "canceled"}
              /\ n \in w.dnr => n \in rows.dnr \/ ~HasJob(n)
<1>1. CASE s = Ended(seen) /\ w = RowsCancelled
  <2>1. \A n \in SeenActive : n \in Nodes /\ HasJob(n) /\ seen.job[n] # "none"
    BY DEF IInv, SeenIsOld, AllRead, SeenActive, Active
  <2>2. /\ s.dnr = seen.dnr /\ s.missing = seen.missing /\ s.bypassed = seen.bypassed
        /\ \A n \in Nodes : s.job[n] = IF n \in SeenActive /\ Approval(n)
                                       THEN "canceled" ELSE seen.job[n]
    BY <1>1 DEF Ended, IInv, TypeOK, SeenRows, View
  <2>3. /\ w.dnr = rows.dnr \cup {n \in Nodes : ~HasJob(n)}
        /\ w.missing = rows.missing /\ w.awaiting = rows.awaiting
        /\ w.bypassed = rows.bypassed
        /\ \A n \in Nodes : w.job[n] = IF n \in SeenActive /\ Approval(n)
                                       THEN "canceled" ELSE rows.job[n]
    BY <1>1 DEF RowsCancelled, Ended, IInv, TypeOK, Rows, View
  <2> QED BY <2>1, <2>2, <2>3 DEF IInv, SeenIsOld, AllRead, Terminal
<1>2. ASSUME NEW D \in SUBSET Nodes, IsMarking(graph, seen, D),
             s = Marked(D), w = RowsMarked(D)
      PROVE  /\ w.missing = rows.missing /\ w.awaiting = rows.awaiting
             /\ w.bypassed = rows.bypassed
             /\ \A n \in Nodes :
                  /\ s.job[n] = "none" <=> w.job[n] = "none"
                  /\ s.job[n] \in Terminal => w.job[n] \in Terminal
                  /\ n \in s.dnr => n \in w.dnr
                  /\ n \in s.missing => n \in w.missing
                  /\ s.bypassed[n] # "none" => w.bypassed[n] # "none"
                  /\ graph.kind[n] = "job" => s.bypassed[n] = w.bypassed[n]
                  /\ w.job[n] = "none" <=> rows.job[n] = "none"
                  /\ rows.job[n] \in Terminal => w.job[n] \in Terminal
                  /\ w.job[n] \in {rows.job[n], "canceled"}
                  /\ n \in w.dnr => n \in rows.dnr \/ ~HasJob(n)
  <2>1. /\ s.dnr = D /\ s.missing = seen.missing /\ s.bypassed = seen.bypassed
        /\ s.job = seen.job
    BY <1>2 DEF Marked, IInv, TypeOK, SeenRows, View
  <2>2. /\ w.dnr = rows.dnr \cup (D \ seen.dnr)
        /\ w.missing = rows.missing /\ w.awaiting = rows.awaiting
        /\ w.bypassed = rows.bypassed /\ w.job = rows.job
    BY <1>2 DEF RowsMarked, IInv, TypeOK, Rows, View
  <2>3. \A n \in D : n \in seen.dnr \/ ~HasJob(n)
    BY <1>2, MarkedHasNoJob
  <2> QED BY <2>1, <2>2, <2>3 DEF IInv, SeenIsOld, AllRead
<1> QED BY <1>1, <1>2 DEF PassView

\* A pass spawns no node that was skipped before it, or is skipped by it
\* and needs a job.
LEMMA SpawnedHasNoJob ==
  ASSUME IInv, AllRead, NEW s, NEW w, PassView(s, w),
         NEW R \in SUBSET Nodes, NEW n \in ToSpawn(s, R)
  PROVE  /\ n \in Nodes
         /\ ~HasJob(n)
         /\ n \notin s.dnr
         /\ s.bypassed[n] = "none"
         /\ graph.kind[n] = "job" => rows.bypassed[n] = "none"
         /\ RelevantParentsFinished(graph, s, n)
<1>1. MayRun(graph, s, n) /\ n \in Nodes
  BY DEF ToSpawn
<1>2. /\ s.job[n] = "none" /\ s.bypassed[n] = "none" /\ n \notin s.dnr
      /\ RelevantParentsFinished(graph, s, n)
  BY <1>1 DEF MayRun, WaitsForJobOrVirtualSuccess
<1> QED BY <1>1, <1>2, PassViewIsOld

\* What a pass that ends the workflow job or spawns from it does to the rows,
\* node by node.
LEMMA PassRows ==
  ASSUME IInv, WfmDecide \/ WfmCancel
  PROVE  \E S \in SUBSET Nodes, s \in SeenRows, w \in Rows :
           /\ PassView(s, w)
           /\ S = {} \/ \E R \in SUBSET Nodes : S = ToSpawn(s, R)
           /\ \A n \in S : ~NoTemplate(graph, rows, n)
           /\ rows'.missing = rows.missing
           /\ rows'.dnr \subseteq w.dnr
           /\ w.dnr \subseteq rows'.dnr \cup S
           /\ \A n \in Nodes \ S : /\ rows'.job[n] = w.job[n]
                                   /\ rows'.bypassed[n] = rows.bypassed[n]
           /\ \A n \in S : /\ rows'.job[n] \in {w.job[n], "pending", "failed"}
                           /\ rows'.bypassed[n] # rows.bypassed[n] => Virtual(graph, n)
                           /\ n \in rows'.dnr =>
                                graph.kind[n] = "ai" \/ rows'.job[n] = w.job[n]
           /\ \A n \in rows'.awaiting : n \in rows.awaiting \/ graph.kind[n] = "ai"
<1>1. AllRead
  BY DEF WfmDecide, WfmCancel
<1>2. PICK s, w : PassView(s, w) /\ (rows' = w \/ WfmSpawn(s, w))
  <2>1. CASE WfmDecide
    <3>1. PICK D \in SUBSET Nodes :
             /\ IsMarking(graph, seen, D)
             /\ WfmFinish(D) \/ WfmSpawn(Marked(D), RowsMarked(D))
      BY <2>1 DEF WfmDecide
    <3>2. PassView(Marked(D), RowsMarked(D))
      BY <3>1 DEF PassView
    <3> QED BY <3>1, <3>2 DEF WfmFinish
  <2>2. CASE WfmCancel
    BY <2>2 DEF WfmCancel, PassView
  <2> QED BY <2>1, <2>2
<1>3. s \in SeenRows /\ w \in Rows
  BY <1>2, PassViewType DEF IInv
<1>4. /\ w.missing = rows.missing /\ w.awaiting = rows.awaiting
      /\ w.bypassed = rows.bypassed
  BY <1>1, <1>2, PassViewIsOld
<1>5. CASE rows' = w
  <2> USE <1>3
  <2> WITNESS {} \in SUBSET Nodes, s \in SeenRows, w \in Rows
  <2> QED BY <1>2, <1>4, <1>5
<1>6. CASE WfmSpawn(s, w)
  <2>1. PICK R \in SUBSET Nodes :
          /\ \A n \in ToSpawn(s, R) : ~NoTemplate(graph, rows, n)
          /\ \E result \in [ToSpawn(s, R) -> {"successful", "failed", "pending"}] :
                /\ \A n \in ToSpawn(s, R) : result[n] \in SpawnResults(n)
                /\ SpawnNodes(w, ToSpawn(s, R), result)
    BY <1>6 DEF WfmSpawn
  <2> DEFINE S == ToSpawn(s, R)
  <2>2. PICK result \in [S -> {"successful", "failed", "pending"}] :
             /\ \A n \in S : result[n] \in SpawnResults(n)
             /\ SpawnNodes(w, S, result)
    BY <2>1
  <2>3. S \in SUBSET Nodes
    BY DEF ToSpawn
  <2> DEFINE jobs == {n \in S : ~Virtual(graph, n)}
             asks == {n \in S : graph.kind[n] = "ai" /\ result[n] = "pending"}
  <2>4. /\ rows'.missing = w.missing
        /\ rows'.dnr = w.dnr \ jobs
        /\ rows'.awaiting = w.awaiting \cup asks
        /\ rows'.job = [n \in Nodes |-> IF n \in jobs \cup asks
                                        THEN result[n] ELSE w.job[n]]
        /\ rows'.bypassed = [n \in Nodes |-> IF n \in S \ (jobs \cup asks)
                                             THEN result[n] ELSE w.bypassed[n]]
    <3> HIDE DEF S
    <3> QED BY <1>3, <2>2 DEF SpawnNodes, Rows, View
  <2>5. \A n \in jobs \cup asks : result[n] \in {"pending", "failed"}
    BY <2>2 DEF SpawnResults, Virtual
  <2>6. \A n \in jobs : n \notin rows'.dnr
    BY <2>4
  <2>7. \A n \in asks : graph.kind[n] = "ai"
    OBVIOUS
  <2>8. \A n \in S \ (jobs \cup asks) : Virtual(graph, n)
    OBVIOUS
  <2>9. jobs \subseteq S /\ asks \subseteq S
    OBVIOUS
  <2>10. S = {} \/ \E Q \in SUBSET Nodes : S = ToSpawn(s, Q)
    OBVIOUS
  <2>11. \A n \in S : ~NoTemplate(graph, rows, n)
    BY <2>1
  <2> HIDE DEF S, jobs, asks
  <2> USE <1>3
  <2> WITNESS S \in SUBSET Nodes, s \in SeenRows, w \in Rows
  <2> QED BY <1>2, <1>4, <2>3, <2>4, <2>5, <2>6, <2>7, <2>8, <2>9, <2>10, <2>11
<1> QED BY <1>2, <1>3, <1>5, <1>6

\* The commit of a pass keeps the invariant.
LEMMA CommitKept == IInv /\ (WfmDecide \/ WfmCancel) => Kept'
<1> SUFFICES ASSUME IInv, WfmDecide \/ WfmCancel PROVE Kept'
  OBVIOUS
<1>1. PICK S \in SUBSET Nodes, s \in SeenRows, w \in Rows :
           /\ PassView(s, w)
           /\ S = {} \/ \E R \in SUBSET Nodes : S = ToSpawn(s, R)
           /\ rows'.dnr \subseteq w.dnr
           /\ \A n \in Nodes \ S : /\ rows'.job[n] = w.job[n]
                                   /\ rows'.bypassed[n] = rows.bypassed[n]
           /\ \A n \in S : /\ rows'.job[n] \in {w.job[n], "pending", "failed"}
                           /\ rows'.bypassed[n] # rows.bypassed[n] => Virtual(graph, n)
                           /\ n \in rows'.dnr =>
                                graph.kind[n] = "ai" \/ rows'.job[n] = w.job[n]
           /\ \A n \in rows'.awaiting : n \in rows.awaiting \/ graph.kind[n] = "ai"
  BY PassRows
<1>2. AllRead /\ pass' # "reading" /\ UNCHANGED <<graph, deciding>>
  BY DEF WfmDecide, WfmCancel, EndPass, userVars
<1>3. \A n \in S : ~HasJob(n) /\ (graph.kind[n] = "job" => rows.bypassed[n] = "none")
  <2> SUFFICES ASSUME NEW n \in S
               PROVE  ~HasJob(n) /\ (graph.kind[n] = "job" => rows.bypassed[n] = "none")
    OBVIOUS
  <2>1. PICK R \in SUBSET Nodes : n \in ToSpawn(s, R)
    BY <1>1
  <2> QED BY <1>1, <1>2, <2>1, SpawnedHasNoJob
<1>4. \A n \in Nodes : /\ w.job[n] = "none" <=> ~HasJob(n)
                       /\ n \in w.dnr => n \in rows.dnr \/ ~HasJob(n)
  BY <1>1, <1>2, PassViewIsOld
<1>5. SeenIsOld'
  BY <1>2 DEF SeenIsOld
<1>6. AwaitingIsAi'
  BY <1>1, <1>2 DEF IInv, AwaitingIsAi
<1>7. DecidedExists'
  <2>1. \A n \in Nodes : HasJob(n) => HasJob(n)'
    BY <1>1, <1>3, <1>4
  <2> QED BY <1>2, <2>1, DecidingNodes DEF IInv, DecidedExists
<1>8. PlainDnrHasNoJob'
  <2> SUFFICES ASSUME NEW n \in rows'.dnr, graph.kind[n] # "ai" PROVE ~HasJob(n)'
    BY <1>2 DEF PlainDnrHasNoJob
  <2>1. n \in Nodes /\ n \in w.dnr /\ rows'.job[n] = w.job[n]
    BY <1>1 DEF Rows, View
  <2> QED BY <1>4, <2>1 DEF IInv, PlainDnrHasNoJob
<1>9. BypassedIsDone'
  <2> SUFFICES ASSUME NEW n \in Nodes, graph.kind[n] = "job", rows'.bypassed[n] # "none"
               PROVE  ~HasJob(n)'
    BY <1>2 DEF BypassedIsDone
  <2>1. rows'.bypassed[n] = rows.bypassed[n]
    BY <1>1 DEF Virtual
  <2> QED BY <1>1, <1>3, <1>4, <2>1 DEF IInv, BypassedIsDone
<1> QED BY <1>5, <1>6, <1>7, <1>8, <1>9 DEF Kept

\* So does its rollback.
LEMMA WfmRollbackKept == IInv /\ WfmRollback => Kept'
BY KeptUnchanged DEF WfmRollback, EndPass, userVars

\* A step that only moves jobs and approvals on leaves what a pass has read
\* old in the one direction.
LEMMA JobMoved ==
  ASSUME IInv, NEW n \in Nodes, HasJob(n), NEW st \in JobStatus,
         rows.job[n] \in Terminal => st \in Terminal,
         rows' = [rows EXCEPT !.job[n] = st],
         UNCHANGED <<graph, deciding, wfmVars>>
  PROVE  Kept'
<1>1. /\ \A m \in Nodes : /\ HasJob(m)' <=> HasJob(m)
                          /\ rows.job[m] \in Terminal => rows'.job[m] \in Terminal
      /\ rows'.dnr = rows.dnr /\ rows'.missing = rows.missing
      /\ rows'.awaiting = rows.awaiting /\ rows'.bypassed = rows.bypassed
  BY DEF IInv, TypeOK, Rows, View, JobStatus, Active, Terminal
<1>2. UNCHANGED <<graph, deciding, pass, seen>>
  BY DEF wfmVars
<1>3. SeenIsOld'
  BY <1>1, <1>2 DEF IInv, SeenIsOld
<1>4. DecidedExists'
  BY <1>1, <1>2, DecidingNodes DEF IInv, DecidedExists
<1>5. AwaitingIsAi' /\ PlainDnrHasNoJob' /\ BypassedIsDone'
  BY <1>1, <1>2 DEF IInv, TypeOK, Rows, View, AwaitingIsAi, PlainDnrHasNoJob, BypassedIsDone
<1> QED BY <1>3, <1>4, <1>5 DEF Kept

\* Jobs that start, end or are cancelled, and approvals that are decided or
\* expire, only take nodes further in the direction SeenIsOld allows.
LEMMA JobsKept ==
  ASSUME IInv, NEW n \in Nodes,
         \/ JobSteps(n) \/ CancelJob(n) \/ DeleteTemplate(n)
         \/ \E how \in Deciders : ReadApproval(n, how) \/ Decide(n, how)
  PROVE  Kept'
<1>1. CASE JobStart(n)
  BY <1>1, JobMoved DEF JobStart, SetJob, userVars, JobStatus, Active, Terminal
<1>2. ASSUME NEW st \in Terminal, JobEnd(n, st) PROVE Kept'
  <2>1. HasJob(n)
    BY <1>2 DEF JobEnd, Active
  <2> QED BY <1>2, <2>1, JobMoved DEF JobEnd, SetJob, userVars, JobStatus
<1>3. CASE CancelJob(n)
  BY <1>3, KeptUnchanged DEF CancelJob, wfmVars, userVars
<1>4. CASE DeleteTemplate(n)
  <2>1. /\ rows'.missing = rows.missing \cup {n}
        /\ rows'.dnr = rows.dnr /\ rows'.job = rows.job
        /\ rows'.awaiting = rows.awaiting /\ rows'.bypassed = rows.bypassed
        /\ UNCHANGED <<graph, deciding, pass, seen>>
    BY <1>4 DEF DeleteTemplate, wfmVars, userVars, IInv, TypeOK, Rows, View
  <2>2. SeenIsOld'
    BY <2>1 DEF IInv, SeenIsOld
  <2> QED BY <2>1, <2>2 DEF IInv, Kept, AwaitingIsAi, DecidedExists,
        PlainDnrHasNoJob, BypassedIsDone
<1>5. ASSUME NEW how \in Deciders, ReadApproval(n, how) PROVE Kept'
  <2>1. deciding' = deciding \cup {<<n, how>>} /\ UNCHANGED <<graph, rows, pass, seen>>
    BY <1>5 DEF ReadApproval, wfmVars
  <2>2. DecidedExists'
    BY <1>5, <2>1 DEF ReadApproval, IInv, DecidedExists
  <2> QED BY <2>1, <2>2 DEF IInv, Kept, SeenIsOld, AwaitingIsAi,
        PlainDnrHasNoJob, BypassedIsDone
<1>6. ASSUME NEW how \in Deciders, Decide(n, how) PROVE Kept'
  <2>1. PICK st \in {"successful", "failed"} : WriteApproval(n, how, st)
    BY <1>6 DEF Decide
  <2>2. Approval(n) /\ HasJob(n)
    BY <2>1 DEF WriteApproval, IInv, DecidedExists
  <2>3. /\ \A m \in Nodes : /\ HasJob(m)' <=> HasJob(m)
                            /\ rows.job[m] \in Terminal => rows'.job[m] \in Terminal
                            /\ rows.bypassed[m] # "none" => rows'.bypassed[m] # "none"
                            /\ m # n => rows'.bypassed[m] = rows.bypassed[m]
        /\ rows'.dnr = rows.dnr /\ rows'.missing = rows.missing
        /\ rows'.awaiting \subseteq rows.awaiting
        /\ deciding' \subseteq deciding /\ UNCHANGED <<graph, pass, seen>>
    BY <2>1, <2>2 DEF WriteApproval, wfmVars, IInv, TypeOK, Rows, View, Terminal
  <2>4. SeenIsOld'
    BY <2>2, <2>3 DEF IInv, SeenIsOld
  <2>5. DecidedExists'
    BY <2>3, DecidingNodes DEF IInv, DecidedExists
  <2>6. AwaitingIsAi'
    BY <2>3 DEF IInv, AwaitingIsAi
  <2>7. PlainDnrHasNoJob'
    BY <2>3 DEF IInv, TypeOK, Rows, View, PlainDnrHasNoJob
  <2>8. BypassedIsDone'
    BY <2>2, <2>3 DEF IInv, BypassedIsDone
  <2> QED BY <2>4, <2>5, <2>6, <2>7, <2>8 DEF Kept
<1> QED BY <1>1, <1>2, <1>3, <1>4, <1>5, <1>6 DEF JobSteps

\* A cancel request marks only nodes without a job, and the copy made by a
\* resume starts with no pass.
LEMMA CancelKept == IInv /\ (Cancel \/ Resume) => Kept'
<1> SUFFICES ASSUME IInv PROVE Cancel \/ Resume => Kept'
  OBVIOUS
<1>1. CancelAccept \/ CancelSetFlag \/ CancelClose \/ CancelDies => Kept'
  BY KeptUnchanged DEF CancelAccept, CancelSetFlag, CancelClose, CancelDies, wfmVars
<1>2. ASSUME CancelMarkNodes PROVE Kept'
  <2>1. /\ \A n \in Nodes : n \in rows'.dnr <=> n \in rows.dnr \/ ~HasJob(n)
        /\ rows'.dnr \subseteq Nodes
        /\ rows'.job = rows.job /\ rows'.missing = rows.missing
        /\ rows'.awaiting = rows.awaiting /\ rows'.bypassed = rows.bypassed
        /\ UNCHANGED <<graph, deciding, pass, seen>>
    BY <1>2 DEF CancelMarkNodes, wfmVars, IInv, TypeOK, Rows, View
  <2>2. SeenIsOld'
    BY <2>1 DEF IInv, SeenIsOld
  <2>3. PlainDnrHasNoJob'
    BY <2>1 DEF IInv, PlainDnrHasNoJob
  <2> QED BY <2>1, <2>2, <2>3 DEF IInv, Kept, AwaitingIsAi, DecidedExists, BypassedIsDone
<1>3. ASSUME NEW ended \in SUBSET Nodes, CancelChildren(ended) PROVE Kept'
  <2>1. /\ \A m \in Nodes : /\ HasJob(m)' <=> HasJob(m)
                            /\ rows.job[m] \in Terminal => rows'.job[m] \in Terminal
        /\ rows'.dnr = rows.dnr /\ rows'.missing = rows.missing
        /\ rows'.awaiting = rows.awaiting /\ rows'.bypassed = rows.bypassed
        /\ UNCHANGED <<graph, deciding, pass, seen>>
    BY <1>3 DEF CancelChildren, wfmVars, IInv, TypeOK, Rows, View, Active, Terminal
  <2>2. SeenIsOld'
    BY <2>1 DEF IInv, SeenIsOld
  <2>3. DecidedExists'
    BY <2>1, DecidingNodes DEF IInv, DecidedExists
  <2>4. AwaitingIsAi' /\ PlainDnrHasNoJob' /\ BypassedIsDone'
    BY <2>1 DEF IInv, TypeOK, Rows, View, AwaitingIsAi, PlainDnrHasNoJob, BypassedIsDone
  <2> QED BY <2>2, <2>3, <2>4 DEF Kept
<1>4. ASSUME Resume PROVE Kept'
  <2>1. /\ \A n \in Nodes : ~HasJob(n)'
        /\ rows'.awaiting = rows.awaiting /\ rows'.dnr \subseteq rows.dnr
        /\ deciding' = {} /\ pass' # "reading" /\ UNCHANGED graph
    BY <1>4 DEF Resume, EndPass
  <2>2. AwaitingIsAi' /\ DecidedExists' /\ SeenIsOld'
    BY <2>1 DEF IInv, AwaitingIsAi, DecidedExists, SeenIsOld
  <2>3. PlainDnrHasNoJob' /\ BypassedIsDone'
    BY <2>1 DEF IInv, TypeOK, Rows, View, PlainDnrHasNoJob, BypassedIsDone
  <2> QED BY <2>2, <2>3 DEF Kept
<1> QED BY <1>1, <1>2, <1>3, <1>4 DEF Cancel

\* The invariant is inductive.
LEMMA StepIInv == IInv /\ [Next]_vars => IInv'
<1> SUFFICES ASSUME IInv, [Next]_vars PROVE Kept'
  BY StepType DEF IInv, Kept
<1>1. CASE Wfm
  BY <1>1, ReadingKept, CommitKept, WfmRollbackKept DEF Wfm
<1>2. CASE \E n \in Nodes : JobSteps(n) \/ CancelJob(n) \/ DeleteTemplate(n)
  BY <1>2, JobsKept
<1>3. CASE \E n \in Nodes, how \in Deciders : ReadApproval(n, how) \/ Decide(n, how)
  BY <1>3, JobsKept
<1>4. CASE Cancel \/ Resume
  BY <1>4, CancelKept
<1>5. CASE UNCHANGED vars
  BY <1>5, KeptUnchanged DEF vars, wfmVars, userVars
<1> QED BY <1>1, <1>2, <1>3, <1>4, <1>5 DEF Next

\* What a pass has read is old in one direction only, and the rows are
\* consistent, in every reachable state (awx/main/scheduler/task_manager.py,
\* WorkflowManager, against awx/main/models/workflow.py, WorkflowJob.cancel).
THEOREM Invariant == Spec => []IInv
BY InitIInv, StepIInv, PTL DEF Spec

\* A node with do_not_run never has a job, however the marks of a cancel
\* request fall between the reads and the commit of a pass.
THEOREM SkippedNodesHaveNoJob == Spec => []PlainDnrHasNoJob
<1>1. IInv => PlainDnrHasNoJob
  BY DEF IInv
<1> QED BY <1>1, Invariant, PTL

\* A job template node that a resumed workflow job bypasses never runs
\* again.
THEOREM BypassedNodesStayDone == Spec => []BypassedIsDone
<1>1. IInv => BypassedIsDone
  BY DEF IInv
<1> QED BY <1>1, Invariant, PTL

-----------------------------------------------------------------------------
(* What a step may never do *)

\* No job is taken away and none that ended is active again.
JobsGrow == \A n \in Nodes : /\ HasJob(n) => HasJob(n)'
                             /\ rows.job[n] \in Terminal => rows'.job[n] \in Terminal
NoNewJob == \A n \in Nodes : HasJob(n)' => HasJob(n)

\* Only a pass that spawns gives a node a job, and only a resume takes jobs
\* away.
LEMMA OtherSteps ==
  ASSUME IInv, [Next]_vars, ~WfmDecide, ~WfmCancel, ~Resume
  PROVE  JobsGrow /\ NoNewJob
<1> USE DEF JobsGrow, NoNewJob
<1>1. CASE UNCHANGED rows
  BY <1>1
<1>3. ASSUME NEW m \in Nodes, NEW st \in Terminal \cup {"running"},
             HasJob(m), rows.job[m] \in Terminal => st \in Terminal,
             rows'.job = [rows.job EXCEPT ![m] = st]
      PROVE  JobsGrow /\ NoNewJob
  BY <1>3 DEF IInv, TypeOK, Rows, View, Terminal
<1>4. ASSUME NEW m \in Nodes, JobStart(m) PROVE JobsGrow /\ NoNewJob
  BY <1>3, <1>4 DEF JobStart, SetJob, IInv, TypeOK, Rows, View, Terminal
<1>5. ASSUME NEW m \in Nodes, NEW st \in Terminal, JobEnd(m, st) PROVE JobsGrow /\ NoNewJob
  <2>1. HasJob(m) /\ rows'.job = [rows.job EXCEPT ![m] = st]
    BY <1>5 DEF JobEnd, SetJob, IInv, TypeOK, Rows, View, Active
  <2> QED BY <1>3, <2>1
<1>6. ASSUME NEW m \in Nodes, NEW how \in Deciders, Decide(m, how) PROVE JobsGrow /\ NoNewJob
  <2>1. PICK st \in {"successful", "failed"} : WriteApproval(m, how, st)
    BY <1>6 DEF Decide
  <2>2. HasJob(m) /\ rows'.job = [rows.job EXCEPT ![m] = st]
    BY <2>1 DEF WriteApproval, IInv, DecidedExists, TypeOK, Rows, View
  <2> QED BY <1>3, <2>2 DEF Terminal
<1>7. ASSUME NEW m \in Nodes, DeleteTemplate(m) PROVE JobsGrow /\ NoNewJob
  <2>1. rows'.job = rows.job
    BY <1>7 DEF DeleteTemplate, IInv, TypeOK, Rows, View
  <2> QED BY <2>1
<1>8. CASE CancelMarkNodes
  <2>1. rows'.job = rows.job
    BY <1>8 DEF CancelMarkNodes, IInv, TypeOK, Rows, View
  <2> QED BY <2>1
<1>9. ASSUME NEW ended \in SUBSET Nodes, CancelChildren(ended) PROVE JobsGrow /\ NoNewJob
  BY <1>9 DEF CancelChildren, IInv, TypeOK, Rows, View, Active, Terminal
<1>10. CASE Wfm
  BY <1>1, <1>10 DEF Wfm, WfmFetch, WfmReadNodes, WfmReadJob, WfmRollback
<1>11. CASE \E m \in Nodes : JobSteps(m) \/ CancelJob(m) \/ DeleteTemplate(m)
  BY <1>1, <1>4, <1>5, <1>7, <1>11 DEF JobSteps, CancelJob
<1>12. CASE \E m \in Nodes, how \in Deciders : ReadApproval(m, how) \/ Decide(m, how)
  BY <1>1, <1>6, <1>12 DEF ReadApproval
<1>13. CASE Cancel
  BY <1>1, <1>8, <1>9, <1>13
    DEF Cancel, CancelAccept, CancelSetFlag, CancelClose, CancelDies
<1> QED BY <1>1, <1>10, <1>11, <1>12, <1>13 DEF Next, vars

\* A pass that spawns gives jobs only to nodes that had none, and whose
\* parents are over in the rows it commits.
LEMMA SpawnStep ==
  ASSUME IInv, WfmDecide \/ WfmCancel
  PROVE  /\ JobsGrow
         /\ \A n \in Nodes :
              ~HasJob(n) /\ HasJob(n)' => RelevantParentsFinished(graph, rows', n)
<1>1. PICK S \in SUBSET Nodes, s \in SeenRows, w \in Rows :
           /\ PassView(s, w)
           /\ S = {} \/ \E R \in SUBSET Nodes : S = ToSpawn(s, R)
           /\ rows'.missing = rows.missing
           /\ w.dnr \subseteq rows'.dnr \cup S
           /\ \A n \in Nodes \ S : /\ rows'.job[n] = w.job[n]
                                   /\ rows'.bypassed[n] = rows.bypassed[n]
  BY PassRows
<1>2. AllRead
  BY DEF WfmDecide, WfmCancel
<1>3. ASSUME NEW n \in S
      PROVE  /\ ~HasJob(n)
             /\ n \notin s.dnr
             /\ s.bypassed[n] = "none"
             /\ RelevantParentsFinished(graph, s, n)
  <2>1. PICK R \in SUBSET Nodes : n \in ToSpawn(s, R)
    BY <1>1
  <2> QED BY <1>1, <1>2, <2>1, SpawnedHasNoJob
<1>4. \A n \in Nodes :
        /\ s.job[n] = "none" <=> w.job[n] = "none"
        /\ s.job[n] \in Terminal => w.job[n] \in Terminal
        /\ n \in s.dnr => n \in w.dnr
        /\ n \in s.missing => n \in rows.missing
        /\ s.bypassed[n] # "none" => rows.bypassed[n] # "none"
        /\ w.job[n] = "none" <=> ~HasJob(n)
        /\ rows.job[n] \in Terminal => w.job[n] \in Terminal
  BY <1>1, <1>2, PassViewIsOld
<1>5. JobsGrow
  BY <1>1, <1>3, <1>4 DEF JobsGrow, Terminal
<1>6. ASSUME NEW n \in Nodes, ~HasJob(n), HasJob(n)'
      PROVE  RelevantParentsFinished(graph, rows', n)
  <2>1. n \in S
    BY <1>1, <1>4, <1>6
  <2> SUFFICES ASSUME NEW p \in Parents(graph, n)
               PROVE  \/ p \in rows'.dnr
                      \/ rows'.bypassed[p] # "none"
                      \/ ~Virtual(graph, p) /\ (p \in rows'.missing \/ rows'.job[p] \in Terminal)
    BY DEF RelevantParentsFinished
  <2>2. p \in Nodes
    BY DEF Parents
  <2>3. \/ p \in s.dnr
        \/ s.bypassed[p] # "none"
        \/ ~Virtual(graph, p) /\ (p \in s.missing \/ s.job[p] \in Terminal)
    BY <1>3, <2>1 DEF RelevantParentsFinished
  <2>4. CASE p \in s.dnr
    BY <1>1, <1>3, <1>4, <2>2, <2>4
  <2>5. CASE s.bypassed[p] # "none"
    BY <1>1, <1>3, <1>4, <2>2, <2>5
  <2>6. CASE ~Virtual(graph, p) /\ p \in s.missing
    BY <1>1, <1>4, <2>2, <2>6
  <2>7. CASE ~Virtual(graph, p) /\ s.job[p] \in Terminal
    <3>1. w.job[p] \in Terminal /\ p \notin S
      BY <1>3, <1>4, <2>2, <2>7 DEF Terminal
    <3> QED BY <1>1, <2>2, <2>7, <3>1
  <2> QED BY <2>3, <2>4, <2>5, <2>6, <2>7
<1> QED BY <1>5, <1>6

\* No interleaving of stale passes, requests and jobs starts a node before
\* every parent of it is over.
THEOREM ParentsComeFirst == Spec => ParentsFirst
<1>1. ASSUME IInv, [Next]_vars
      PROVE  [\A n \in Nodes :
                ~HasJob(n) /\ HasJob(n)' => RelevantParentsFinished(graph, rows', n)]_vars
  <2>1. CASE WfmDecide \/ WfmCancel
    BY <1>1, <2>1, SpawnStep
  <2>2. CASE Resume
    BY <2>2 DEF Resume
  <2>3. CASE ~WfmDecide /\ ~WfmCancel /\ ~Resume
    BY <1>1, <2>3, OtherSteps DEF NoNewJob
  <2> QED BY <2>1, <2>2, <2>3
<1> QED BY <1>1, Invariant, PTL DEF Spec, ParentsFirst

\* In one life of a workflow job no pass spawns a second job for a node,
\* however often its first one is cancelled, decided or timed out.
THEOREM NoSecondJob == Spec => OneJobPerNode
<1>1. ASSUME IInv, [Next]_vars
      PROVE  [~resumed' \/ resumed =>
                \A n \in Nodes : /\ HasJob(n) => HasJob(n)'
                                 /\ rows.job[n] \in Terminal => rows'.job[n] \in Terminal]_vars
  <2>1. CASE WfmDecide \/ WfmCancel
    BY <1>1, <2>1, SpawnStep DEF JobsGrow
  <2>2. CASE Resume
    BY <2>2 DEF Resume
  <2>3. CASE ~WfmDecide /\ ~WfmCancel /\ ~Resume
    BY <1>1, <2>3, OtherSteps DEF JobsGrow
  <2> QED BY <2>1, <2>2, <2>3
<1> QED BY <1>1, Invariant, PTL DEF Spec, OneJobPerNode

-----------------------------------------------------------------------------
(* The end of a workflow job that nobody cancels *)

\* Without cancel requests the workflow job is over only between passes, and
\* then none of its jobs is active.
EndedQuietly ==
  /\ ~cancelFlag /\ ~seenCancel /\ cancelling = "no"
  /\ status # "running" => pass = "idle" /\ \A n \in Nodes : rows.job[n] \notin Active

\* A pass that found the workflow job done saw no node with an active job.
LEMMA FinishedPass ==
  ASSUME IInv, EndedQuietly, WfmDecide, status' # "running"
  PROVE  \A n \in Nodes : rows'.job[n] \notin Active
<1>1. PICK D \in SUBSET Nodes :
         \/ WfmFinish(D) /\ IsWorkflowDone(graph, Marked(D))
         \/ UNCHANGED status
  BY DEF WfmDecide, WfmFinish
<1>2. pass = "reading" /\ status = "running" /\ AllRead
  BY DEF EndedQuietly, WfmDecide, AllRead
<1>3. WfmFinish(D) /\ IsWorkflowDone(graph, Marked(D))
  BY <1>1, <1>2
<1>4. \A n \in Nodes : seen.job[n] \notin Active
  BY <1>3 DEF IsWorkflowDone, Marked, IInv, TypeOK, SeenRows, View
<1>5. \A n \in Nodes : seen.job[n] = "none" \/ seen.job[n] \in Terminal
  BY <1>2, <1>4 DEF AllRead, IInv, TypeOK, SeenRows, View, JobStatus
<1>6. rows'.job = rows.job
  BY <1>3 DEF WfmFinish, RowsMarked, IInv, TypeOK, Rows, View
<1> QED BY <1>2, <1>5, <1>6 DEF IInv, SeenIsOld, Active, Terminal

\* Without cancel requests, a workflow job that ended keeps having no active
\* job.
LEMMA StepEndedQuietly ==
  ASSUME "cancel" \notin Requests, IInv, EndedQuietly, [Next]_vars
  PROVE  EndedQuietly'
<1>1. CASE WfmDecide
  BY <1>1, FinishedPass DEF WfmDecide, EndPass, userVars, EndedQuietly
<1>2. CASE Wfm /\ ~WfmDecide
  BY <1>2 DEF Wfm, WfmFetch, WfmReadNodes, WfmReadJob, WfmCancel, WfmRollback,
     EndPass, userVars, EndedQuietly
<1>3. CASE Resume
  BY <1>3 DEF Resume, EndPass, EndedQuietly
<1>4. CASE Cancel
  BY <1>4 DEF Cancel, CancelAccept, CancelSetFlag, CancelMarkNodes, CancelChildren,
     CancelClose, CancelDies, EndedQuietly
<1>5. CASE UNCHANGED vars
  BY <1>5 DEF vars, wfmVars, userVars, EndedQuietly
<1>6. CASE \/ \E n \in Nodes : JobSteps(n) \/ CancelJob(n) \/ DeleteTemplate(n)
           \/ \E n \in Nodes, how \in Deciders : ReadApproval(n, how) \/ Decide(n, how)
  <2>1. UNCHANGED <<status, cancelFlag, seenCancel, cancelling, pass>>
    BY <1>6 DEF JobSteps, JobStart, JobEnd, CancelJob, DeleteTemplate, ReadApproval,
       Decide, WriteApproval, wfmVars, userVars
  <2>2. ~WfmDecide /\ ~WfmCancel /\ ~Resume => JobsGrow /\ NoNewJob
    BY OtherSteps
  <2>3. IInv'
    BY StepIInv
  <2> SUFFICES ASSUME status # "running", ~WfmDecide, ~WfmCancel, ~Resume,
                      NEW n \in Nodes
               PROVE  rows'.job[n] \notin Active
    BY <1>1, <1>2, <1>3, <2>1 DEF EndedQuietly, Wfm
  <2>4. rows.job[n] = "none" \/ rows.job[n] \in Terminal
    BY DEF EndedQuietly, IInv, TypeOK, Rows, View, JobStatus
  <2> QED BY <2>2, <2>3, <2>4 DEF JobsGrow, NoNewJob, IInv, Active, Terminal
<1> QED BY <1>1, <1>2, <1>3, <1>4, <1>5, <1>6 DEF Next

\* When nobody cancels it, a workflow job is over only once every job it
\* spawned is: is_workflow_done is never fooled by what a pass read.
THEOREM NoOrphansUnlessCancelled ==
  ASSUME "cancel" \notin Requests
  PROVE  Spec => []NoOrphans
<1>1. Init => EndedQuietly
  BY DEF Init, EndedQuietly
<1>2. IInv /\ EndedQuietly /\ [Next]_vars => EndedQuietly'
  BY StepEndedQuietly
<1>3. EndedQuietly => NoOrphans
  BY DEF EndedQuietly, NoOrphans
<1> QED BY <1>1, <1>2, <1>3, Invariant, PTL DEF Spec
=============================================================================
