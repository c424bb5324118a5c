# AWX job and workflow execution in TLA+

AWX launches automation jobs, runs them on a cluster of nodes and chains them
into workflows. What it keeps consistent is a set of database rows that many
processes read and write without holding a lock for long: the dependency, task
and workflow managers, the dispatcher and the workers of every node, the callback
receiver, heartbeats and reapers, and the web requests of users. These modules
model that core, the local copies of projects, and the drawing board that edits
workflows: who reads what, who writes what, in which order, and what may fall in
between. Paths below are relative to the repository's root, those without a
directory to `awx/main/`.

## Inventory

| Part | State | Operations | Talks to |
|---|---|---|---|
| Workflow graph decisions (`scheduler/dag_workflow.py`, `dag_simple.py`) | none: node rows and edge tables as read | mark do_not_run, nodes to run, done?, failed? | called by the workflow manager |
| Workflow manager (`scheduler/task_manager.py`) | WorkflowJob and WorkflowJobNode rows | a pass: read, decide, spawn, finish, cancel children | task manager (spawned jobs), cancel, approve and resume requests |
| Requests on workflow jobs (`models/workflow.py`, `api/generics.py`) | the same rows | cancel, resume, approve, deny, time out | interleave with passes |
| Dependency manager (`scheduler/task_manager.py`) | dependent_jobs, dependencies_processed, project and inventory updates | make or share the updates a job waits for | task manager |
| Task manager (`scheduler/task_manager.py`, `dependency_graph.py`, `task_manager_models.py`) | status, cancel_flag, place of jobs; what blocks whom and capacity in memory | a pass: two reads, then block, fail, cancel, place, refuse, start; one commit | notifies nodes, schedules the workflow manager |
| Dispatching and running (`tasks/jobs.py`, `tasks/receptor.py`, `utils/update_model.py`) | the job row, the pool of the node | list, submit, mark; run: read, prepare, start, end, save | dispatcherd, receptor, callback receiver |
| Cancelling a job (`models/unified_jobs.py`) | cancel_flag | read, save the flag, signal | dispatcherd of the controller node |
| Reapers and heartbeat (`dispatch/reaper.py`, `tasks/system.py`) | status of running jobs; instances | list, select, refresh, save; hand back; reap at startup | any running job of a node |
| Job wrap-up (`tasks/callback.py`, `tasks/jobs.py`, `tasks/system.py`) | status, host_status_counts, wrapup_event_dispatched | final save, decide, notify | callback receiver, reaper |
| Callback receiver (`dispatch/worker/callback.py`) | redis list, buffer, events, host_status_counts | pop, flush, retry one by one, wrap up | worker of the job |
| Project lock and sync (`tasks/jobs.py`, `awx/playbooks/project_update.yml`) | lock file, working tree, stage and cache directories, project row | acquire, look, fetch, install, copy, restore, release, publish | other tasks of the project on the node |
| Workflow visualizer (`awx/ui/.../WorkflowVisualizer`) | the drawing: steps, links, marks; the rows it edits | draw, link, remove; save in stages of concurrent requests | REST API |
| Periodic scheduler (`tasks/system.py`, `models/schedules.py`) | last run, next_run | spawn the jobs of an interval | task manager |
| The rest: receptor mesh, instance groups, notification backends, websocket relay, inventory and facts, Terraform and catalog deployments, settings, access control, other API and UI, collection, CLI | | | listed with reasons in `PROJECT.json` |

Hard behaviours, and what makes each part correct:

* Workflow: a pass works on rows read at three different times and commits all
  its writes at the end. Correct means: exactly the nodes run that the outcomes
  of their parents call for, each once and after its parents; the workflow job
  ends, with the right status, and leaves no job behind.
* Scheduling: a pass reads rows and the rows they depend on at two moments, then
  decides in memory while tasks end, are launched, cancelled and handed back.
  Correct means: at the commit, what starts has nothing beside it that excludes it
  and nothing unfinished or failed to wait for, and fits where it is put; jobs
  share the updates they wait for; nothing stays pending for ever.
* Job row: nobody locks it, so every write may be based on an old read. Correct
  means: one run at a time, an ended job stays ended, an answered cancellation
  reaches its run, every job ends whatever dies.
* Wrap-up: two processes each decide from what the other wrote whether to send
  the one notification. Correct means: with the true status, and exactly once if
  the job ran once.
* Project: one tree on disk for all tasks of a node, a lock that a cancelled task
  walks past, and a row that is read before the lock and written after it.
  Correct means: a job runs the revision its row says, with roles that were
  installed.
* Visualizer: a save is a dozen awaited stages; one request fails and the rest of
  its stage still arrives. Correct means: what is drawn is what is saved, also
  after Save is pressed again.

`hazards` in `PROJECT.json` lists the places where these can go wrong, with the
properties that watch them.

## Modules

    WorkflowDag            decisions on a graph and a view of its rows
      WorkflowManager      passes, jobs, people and requests on one workflow job
        MCWorkflowManager  the graphs TLC tries
        WorkflowManager_proofs
          WorkflowOutcome_proofs
    TaskRules              what the scheduler promises, abstractly
      TaskManager          both managers; implements TaskRules
        MCTaskManager      the rows, instances and groups TLC tries
        TaskManager_proofs
          TaskManagerCapacity_proofs
    JobLifecycle           one row per job, and everybody who writes it
      JobLifecycle_proofs
    JobWrapup              the final save, the wrapup event, the notification
      JobWrapup_proofs
    ProjectSync            the copy of a project on a node
      ProjectSync_proofs
    WorkflowEditor         the drawing, its saves and the rows it edits
      MCWorkflowEditor     the templates it is opened on
      WorkflowEditor_proofs

The first four state machines meet at a job's status. `WorkflowManager` sees of a
job that it is active and then ends; `TaskManager` how it gets from pending to
active; `JobLifecycle` details both, for a job whose place is any choice; its
final save ends with the notification that `JobWrapup` details; `ProjectSync` is
what happens in its `preparing`. Each is checked on its own.

**WorkflowDag** writes the loops of `WorkflowDAG` as equations: `IsMarking(g, s,
D)` says that D is what `mark_dnr_nodes` leaves marked, `IsReached` what
`bfs_nodes_to_run` walks through. On an acyclic graph, which the API enforces,
each has one solution, the one the loop computes in topological order. A view
`s` holds the node rows as a pass has read them, so that the same operator
describes a decision on stale rows and the truth it is compared with.

**WorkflowManager**: `rows` are the node rows with their jobs' statuses, `seen`
and `seenCancel` what the pass in progress has read. A pass is `WfmFetch` (the
workflow rows), `WfmReadNodes`, `WfmReadJob(n)` for each job when the walk first
touches it, then one commit: `WfmCancel` or `WfmDecide`, or `WfmRollback`. Either
may go on to `WfmSpawn`, as the code does: a pass that sees the cancel flag while a
job is active starts what is ready in the graph as it was read before the marks
(`Ended(seen)`), a pass that does not, in the one it has marked (`Marked(D)`), and
saving a node with its new job takes its mark away (`SpawnNodes`). A spawned
workflow job is a job like any other here. `JobStart`, `JobEnd` and `CancelJob` are the life of a spawned job;
`ReadApproval` and `WriteApproval` the two halves of a decision; `DeleteTemplate`
a template's deletion; `CancelAccept`, `CancelSetFlag`, `CancelMarkNodes`,
`CancelChildren`, `CancelClose` and `CancelDies` the statements of a cancel request, each
committed on its own because the view is not atomic; `Resume` the copy that a
resume starts.

**TaskManager**: `status`, `deps`, `processed`, `flagged`, `place` and `born` are
columns of the tasks' rows; waiting and running are one status, `active`.
`ResolveDependencies` is a pass of the dependency manager, one step because
nothing of it is visible before its commit and it reads only statuses of updates.
A pass of the task manager is `ReadTasks` (`pc`, `todo`, `asked`, `on`: pending
tasks, those with a cancel flag, what is under way and where), `ReadDependencies`
(`heard`), one of `CancelPending`, `FailForDependency`, `LeavePending` and
`StartTask` for each pending task, and `Commit`, before which `TimeOut` or
`PassDies` may come. `Marks` and `Asks` are the lookups of `DependencyGraph`: what
a task under way marks and what a pending one asks for; `Sites` is the choice of
group, instance and controller, `Consumed` and `HasRoom` the capacity kept in
memory. `EndTask`, `Launch`, `Cancel`, `ExceedQuota`, `LoseController` and `Expire` (the
cache timeout of an update) are what the rest of the system does meanwhile.
`Cancel` sets the flag; for a workflow job `CancelCloses` is the second write of the
request (`WorkflowJob.cancel`), which makes it canceled whatever it is by then
(`closing`: the requests between the two).
`TaskRules` says what the documentation promises of all that
(`docs/task_manager_system.md`), about rows at the moment of the commit;
`KeepsTheRules` is the refinement, with `HindersByRule` written from the rules and
not from the lookups. The rules say that what has ended stays so, and name the two
exceptions the code has, both of workflow jobs: a request at work on one (`called`)
may write canceled when it has ended, and a pass that had read one as pending
(`held`) starts or fails it although it was canceled since.

**JobLifecycle**: `status`, `cancelFlag`, `started`, `node` and `task` are columns of
the row. `TmFetch` and `TmCommit` are a pass of the task manager; `DispatchLists`,
`DispatchSubmits`, `DispatchMarks` the lines of `dispatch_waiting_jobs`; `run[r]` is
a place in some node's pool, and `RunReads` to `RunSavesStatus` follow
`BaseTask.run` from one database statement to the next. `flag` and `over` are what
the run's instance has read last, `signal` whether the worker was signalled.
`CancelReads`, `CancelSaves`, `CancelSignals` are `UnifiedJob.cancel`. `HeartbeatLists`,
`HeartbeatSelects`, `LostSelects`, `StartupSelects` start the three reapers, which
share `ReaperRefreshes` and `ReaperSaves` (reap_job) and `ReaperEnds`. `doubted`
belongs to the properties: the jobs whose run somebody took for gone while they
had one, were listed for one or were about to be. These are beyond what the code
promises, and every place where the model adds to the set is a place where the
code acts on a guess.

**JobWrapup**: `Worker*` follow `BaseTask.run` and `update_model` from the wrapup
event to the notification, `Receiver*` the callback receiver, `Reaper*` reap_job.
A transaction that locks the row is one step; one that reads now and writes later
is two. A wrapup event names the run it is of: `WorkerOverQuota` puts a job back to
pending with the event and the counts of its first run still there, and
`WorkerRestarts` runs it again. `mishaps` belongs to the properties.

**ProjectSync**: `head` and `checkout` are the working tree, `stage` and `cache` the
directories of roles and collections, `project` its row, `mem[w]` what task w has
read of all that. `AcquireLock` and `GiveUp` (cancelled while it waited) lead
inside; `SyncNeeds` and `Look` are `get_sync_needs` and what is done about it;
`StartFetch`, `Checkout` and `Install` the playbook of an update or of a job's sync;
`CopyTree` and `Restore` the private copy and the return from another branch;
`Leave` the release of the lock, `Publish` the project row after it, `Start` the
playbook of the job. `Stop`, `Cancel`, `Signal` and `Die` may come anywhere. The remote
repository is only as old as the newest revision somebody has met (`Grow`).
`gaveUp` belongs to the properties: the tasks that went on without the lock.

**WorkflowEditor**: `steps`, `hidden`, `link`, `modified` and `dirty` are the
drawing, in which a removed step is only hidden; `known` is what the server said
of a step's links when it was loaded, `approval` what the drawing knows of a step's
approval template. `AddStep`, `Connect`, `SetLink`, `RemoveLink`, `RemoveStep` and
`EditStep`, which may change the type of a step, are the edits, `AddPlan` that of the
AI suggester: new steps with any links among them. `SavePress` sorts the marked steps as
`useSaveVisualizer` does, `Requests` are the requests of a stage, `Answer*`, `Refuse`
and `Break` what the server makes of each, `Advance` the next stage. `AnswerFinish` ends
the making of a row, or of a new approval template of a row that was there
(`updateApprovalNodes`): both empty `known`. `slips` belongs
to the properties: what happened that the code has no answer for, named in the
module.

### Simplifications

A read or write of one row is a step, and rows of different kinds read by one
query one after the other are read together.

* Workflow: node prompts, artifacts and events are abstracted to outcomes.
* TaskManager: no sliced workflow jobs, tenants of the hosted product, reaping of
  jobs on orphaned instances, or capacity that a heartbeat changes. A sync run
  inside a job is no row the manager looks at, as in get_tasks. A cancel request
  for a row the open transaction has written waits for its commit; for others
  the commit overwrites the flag as read (see `lost_cancel`).
* JobLifecycle: a node runs one reaper at a time, nodes are controller and
  execution node at once, the dispatcher's messages are not lost, and a cancelled
  task that is still queued is not removed from the queue
  (`management/commands/run_dispatcher.py:28`). The task manager's choice of node,
  and which job has to wait, is any choice.
* ProjectSync: projects are git; an update on another node happened before, not
  meanwhile; no signature checks, no retry for a tree that has vanished.
* WorkflowEditor: the links of the start node are layout; the drawing session
  ends with the first save that is through; edits other than choosing a link's
  type and editing a step only while no request is on its way; a request that
  fails has no effect on the server; whether the wizard still knows the template
  of an approval is any choice;
  the requests for labels, groups and credentials of a step go with the step.

## Runs

| Run | Asks | Bounds | Distinct states |
|---|---|---|---|
| `wf_paths` | do nodes run as the edges say, and does the workflow job end, whatever the interleaving | all 3-node joins and chains, each link of any type, ANY or ALL, an approval, AI or EDA node in some place, a missing template; no requests | 240171 |
| `wf_requests` | what cancel, resume, a cancelled child, a deleted template and an approval timeout may not break | two nodes in a row with an approval or AI task, and three with a node that gets ready beside an active job; single jobs 1 and 3 are cancelled, the template of 2 deleted | 257575 |
| `wf_hang` | violation: an ALL node keeps a workflow job running for ever | joins | |
| `wf_orphan` | violation: a cancelled workflow job leaves a job running | two nodes | |
| `tasks` | does the task manager implement the rules, keep capacity, share updates, leave nothing pending | see below | 366782 |
| `lifecycle` | one run at a time, ended stays ended, cancel reaches the run, every job ends | one job, one node, two pool places, two task ids, one fault out of dying worker, dying dispatch, restart, quota, besides refusals | 373502 |
| `lifecycle_lost` | the same safety when a node that is alive is taken for lost | one job, two nodes, one fault | 413684 |
| `lost_cancel` | violation: an answered cancellation is overwritten | one job, no faults | |
| `wrapup` | one true notification, and who may forget it | two jobs with the two kinds of wrapup event, one receiver; two faults among dying worker or receiver, failing node, database or redis, exceeded quota | 322545 |
| `project` | turns at the lock, the right revision, roles, and what a cancelled task may not do | a job on the branch, one on another, an update, two revisions, two cancellations, one failure or death | 5.0 million |
| `editor` | is saved what is drawn, also after a save that failed half way | a chain of three whose middle is an approval, and a step alone; two edits, two saves, one failing request | 340977 |
| `editor_reverted` | violation: Save says it succeeded and an edit was not sent | three edits, one save, no failures | |

Why these bounds are enough. Three nodes are the smallest graphs with a join or a
grandparent, the only ways a decision depends on more than a parent; whether and
how they decide is proved for every acyclic graph. An ALL node that goes by what
it cannot know yet (`TooEarly`) shows only on four.

All races on the job row are between its own writers, so one job shows them; other
jobs only take capacity, which the task manager's free choice stands for. Two
pool places are what it takes to run a job twice, two task ids to requeue it
once. The inductive invariant of the proofs was also run on two nodes, with every
fault but the quota, and with two requeues over two nodes and a cancellation (0.6
and 1.9 million states); the safety properties are proved for any number.

`tasks` has two jobs of one template and one project, of which one must not start
beside the other but not the other way round; project updates p1 and p2 and an
inventory update s1 too big for any instance; a hybrid instance (capacity 4), an
execution instance (1), a container group that admits one job; a workflow job that is
cancelled; two of the three launched, two tasks per pass, one mishap. So a pod is contested, s1 gets the idle instance, p2 waits for the
control plane's capacity, and updates are made, shared, expire, fail, and are
cancelled with the jobs that wait for them.

Two jobs in `wrapup` share a receiver's buffer, and each may run twice. In `project` the job, the job of
the other branch and the update are one of each kind that leaves something in the
tree for the next. Two edits and two saves in `editor` are a save after one that
failed, the second edit falling before, between or after them. The step alone leaves
room for a suggestion of two, the smallest that can be a cycle: with no link, one to
or from an approval, or two (`Suggestions`; the proofs are for any).

Deadlock is checked in `tasks` and the `JobLifecycle` runs. The others switch it
off: there everything is over when the workflow job, the last job, the tasks at
the project or the person's edits and saves have ended.

The four violations are kept as runs; `findings` in `PROJECT.json` quotes the line
of the repository each of them contradicts. Properties of the other runs hold but
for the exceptions they name: `TerminatesButForBlindSpot`, `TooEarly`,
`EndsUnlessUnstamped`, `doubted`, `mishaps`, `gaveUp` and `slips` each stand for such a
place in the code.

Seen while modelling, without a run of their own:

* An ALL node goes by what it cannot know yet (`scheduler/dag_workflow.py:70-114,
  258-278`): with a parent that errored, was cancelled or has no template it may run
  although that parent is later skipped by its own parents, and without a template
  of its own it counts as failed as soon as any parent leads there. TLC shows it on
  four nodes and the proof of `FollowsEdges` stops there; `TooEarly` excepts it.
* has_workflow_failed counts a node whose template was deleted after its job
  succeeded as failed (`scheduler/dag_workflow.py:191`): the workflow job ends failed.
  An approval decided by two people at once keeps the second outcome, which the
  passes in between did not read. `StatusIsRight` excludes both.
* A pass that sees the cancel flag while a job is active still starts what is ready
  (`scheduler/task_manager.py:231`), and saving the node clears the do_not_run it has
  just written (`:253`), while `docs/workflow.md:118` says that the following paths
  stop executing. The next pass cancels those jobs: `CancelEnds` holds.
* A resumed AI node copies the status awaiting_approval without its approval
  (`models/workflow.py:252`): nothing moves it on. Resume copies do_not_run as well
  (`:1009`), the marks of a cancellation included.
* A workflow job cancelled before it starts is canceled at once
  (`models/workflow.py:1318`); a pass that had read it pending then saves the whole row
  (`scheduler/task_manager.py:548`), and it runs, with its cancel flag cleared. It is
  `lost_cancel` once more, with a status already shown as final taken back;
  `TaskRules` excepts it (`Decide`).
* A running job whose worker dies before the row was saved with a start time is
  never reaped (`tasks/jobs.py:223`); `EndsUnlessUnstamped` excepts it.
* A job whose pod exceeds the quota is pending again with the EOF of that run under
  way or counted (`tasks/receptor.py:543`, `tasks/jobs.py:813`). Its second run finds the
  counts and notifies, and its own EOF notifies again, while `tasks/jobs.py:854-855`
  means the one or the other. `OneTrueNotification` counts only jobs that ran once.
* The retry of the final save drops the lock and can lose the notification
  (`utils/update_model.py:48`); `NobodyForgets` excepts it.
* An update on a pure control node consumes only the control impact
  (`scheduler/task_manager_models.py:156`), while `docs/capacity.md:99` gives project
  updates a total impact of 2.
* get_jobs_fail_chain of an inventory update (`models/mixins.py:485`) cancels the
  other inventory updates of the first job it blocks, though another job may wait
  for them.
* A task cancelled while it waits for the project lock (`tasks/jobs.py:606`) goes on:
  it deletes the stage directory of whoever has the lock, and a job of another
  branch resets the tree. `RunsWhatItSays` and `RolesAreThere` hold only when nobody
  has done so (`gaveUp = {}`).
* An update fills its cache before it has told the project its revision
  (`tasks/jobs.py:1676`, `:1716`). A job that reads the row in between checks out the old
  revision and copies the roles of the new one. `RolesAreThere` asks only of a job of
  another branch that its roles are those of its tree.
* A job cancelled before its sync was associated with it has a sync nobody has
  flagged, and ends as error instead of canceled (`tasks/jobs.py:951`).
* In the visualizer, a link to a step removed before it had a row asks the server
  to link an id that is not a number, which makes an empty row; a failed update
  is swallowed by allSettled; after a delete that failed half way the drawing
  cannot be saved any more. `slips` names each.
* A suggested plan may have a cycle: only links from a step to itself and to unknown
  steps are filtered (`AIWorkflowSuggester.tsx:342`), and the server refuses it half
  way through the save ("cycle").
* An existing step that gets a new approval template in a save loses what the drawing
  knew of its links before the links to take away are looked for
  (`useSaveVisualizer.tsx:168`, `:549`): a removed link stays although Save says it
  succeeded, a link of another type is refused as a second relation ("forgotten").
  `DrawnIsSaved` then still speaks of rows and data. An approval whose template id the
  wizard has set to 0 cannot be saved again after a save that failed half way ("unset").

### Fairness

* The managers and the heartbeat are periodic (`awx/settings/defaults.py`,
  DISPATCHER_SCHEDULE), and the managers are scheduled again whenever a task is
  launched or ends: weak fairness of their steps. In `TaskManager` that is
  `ResolveDependencies` and `TaskManagerStep`, while mishaps (`PassDies`, a refused
  start, a task handed back) are bounded.
* Workers and receivers go on, playbooks end: weak fairness of their steps. The
  last is an assumption on users: the default job timeout is none.
* In `JobLifecycle` the task manager does not leave the same job alone for ever:
  strong fairness of taking it, which `EveryTaskEnds` of `TaskManager` supports:
  there it needs only weak fairness of the passes.
* Nobody has to cancel or decide, no request has to go on, no fault has to
  happen. `Terminates` and `TerminatesButForBlindSpot` suppose that people decide their
  approvals, and say so.
* `ProjectSync` and `WorkflowEditor` state none: tasks there only move forward, and
  a person may stop at any time.

### Liveness with a node wrongly taken for lost

`EndsUnlessUnstamped` is not claimed for `lifecycle_lost`. Once a job is handed
back while its first run is alive, two runs of it may each reload the row, find it
waiting because of the other, take that for a reason not to start, and save
`waiting` as the job's final status, over and over.

## Proofs

TLAPS proves for every value of the constants (any graph, any number of jobs,
tasks, receivers, nodes and instances, any set of faults and requests):

* `WorkflowManager_proofs`: types; a do_not_run node of a plain kind has no job; a
  bypassed node stays without one; a node starts only after its parents; no second
  job per node; and, if nobody cancels, no job outlives the workflow job. The
  invariant is `IInv`. Its heart is `SeenIsOld`: what a pass has read is related to
  what the rows say now (a job seen as ended has ended, a node seen with a job has
  one), which is why decisions on stale rows are still right. The other parts say
  that approvals being decided exist and that only AI nodes await one.
  `NoOrphansUnlessCancelled` assumes that no cancel request is made, and cannot
  do without: `wf_orphan` is the counterexample.
* `WorkflowOutcome_proofs`: when a workflow job has finished without a cancellation,
  its status is right and the nodes that ran are those the edges call for, on every
  acyclic graph. The assumptions are that an approval is decided once
  (`DecidedOnce`) and, for the status, that no template is deleted, see above. `OInv`
  says that an outcome is never taken back (`OneOutcome`) and that what a pass has
  read as ended is what it ended with (`SeenForGood`, `OverQuietly`); `EInv` that a
  node is marked only for the outcomes of its parents (`SkippedRightly`) and has
  started only because they lead there (`AllLead` of an ALL node, `AnyLeads` of others).
  The equations of `WorkflowDag` are about one pass; their solutions in different
  passes are compared over `Grounded` sets of nodes, closed under what may have led
  to them, and acyclicity makes a set that violates the rule have a first node,
  whose parents do not.
* `TaskManager_proofs`: `Implements` says that the two managers implement
  `TaskRules`, initial states and steps; a pass maps to stutters and its commit to
  one `Decide`. The invariant says what a pass knows: what it counts as under way is
  under way unless it ended since (`Counted`), a dependency it heard to have
  succeeded has succeeded (`HeardRight`), what it has not looked at is still pending
  and as it read it (`Unlooked`, `Listed`, `NoNewDeps`), and what it has written may
  start beside all that (`Written`, `Unwritten`, `Cleared`). The step from lookups to
  rules is `RulesAreMarked`. `UpdatesAreShared` needs that the newest update of a
  project is the unfinished one if there is one (`Clocked`, `Younger`);
  `TypeCorrect` that what is active was placed.
* `TaskManagerCapacity_proofs`: no instance and no container group is given more than
  it holds, but for the one job an idle instance takes. The invariant compares
  `Consumed` of what the pass has placed with that of the rows at the commit, which
  can only be less. That needs how sums over finite sets behave when a member is
  added or left out; the lemmas are proved by taking a smallest counterexample
  (`MinimalSet`), since the induction theorems of the library cannot be used. Assumed of
  the constants: finitely many tasks, impacts above zero but for workflow jobs,
  capacities and limits in Nat, a control plane that is no container group.
* `JobLifecycle_proofs`: types; one run at a time; an answered cancellation reaches
  the run; a job that is over stays over. The invariant `AllIn` follows the one
  permission to run a job: it lies with the task manager while the job is pending,
  with the row while it is waiting, in the list of one dispatch, in one run
  (`NotInHand`, `Unlisted`, `OneListing`, `OneRun`); `Under` adds how far the status
  has got in each of these places and what a reaper or a run is still going to
  save, `Told` what an answered request leaves behind. All of it is about jobs
  that are not `doubted`. `RunStep` sums up what a step of a run may do.
* `JobWrapup_proofs`: types; a notification tells the job's status, and a job that ran
  once gets at most one; and if none is sent, the event was lost, somebody died or
  the save was not locked, whether the job ran once or again. The invariant has four
  parts: the wrapup event is in one place (`OneEvent`), the order dispatched, pending,
  counted, hooked (`Trail`), what a notification on its way or sent implies (`Honest`),
  and who still owes it (`Accounted`). All but the last say less of a job that ran
  again, whose two events may both count; `Accounted` needs only the event of the
  run it is in (`Own`).
* `ProjectSync_proofs`: types; the lock is held by who is inside; a task that went on
  without it never starts; a job that starts has the tree its row says,
  with roles that some sync or update installed and, if it runs another branch, those
  of its own tree. `IInv` says
  of each place of a task what it has read and has been told (`Sound`, `Told`);
  `RInv`, for as long as nobody has gone on without the lock, what it then knows of
  the tree, and `EInv` for the roles also what lies in the stage and the cache
  directories.

* `WorkflowEditor_proofs`: types; a save that succeeds leaves the template as drawn;
  no step gets two rows, whichever requests fail; no drawn link is taken away; and
  the server refuses no link of a save in which nothing failed. `IInv` is about one
  save at a time (`Calm`: nobody edits or saves while requests are on their way): its
  lists are what the drawing says (`Lists`), the requests are those of its stage
  (`CallsOfStage`), and what is not done of the lists belongs to a later stage or to
  a request (`Progress`). `Knowing` compares the three views of a link: what the
  drawing shows, what it has known since it was loaded, and what the server has.
  That nothing is refused rests on `Acyclic`, which counts hidden links too, and on
  unlinking coming before linking: a removed step's row is still there with its
  links when new ones are made around it. It needs that no suggestion had a cycle,
  and `Knowing` that no links were forgotten (`Steady`); what is claimed without these
  is said by the properties. Assumed of the templates: rows are
  numbered from 1, two rows have one relation, and relations form no cycle, as
  the API keeps them (`GraphsAssumption`).

All follow one shape: Init implies the invariant, one lemma per group of actions
shows that a step keeps it, the invariant implies the property. The constants are
constrained only by the named ASSUMEs of the modules, which TLC evaluates.

What `WorkflowManager` assumes of its constants is that links join nodes of the
workflow, that a new workflow job has no marked or bypassed node (`FreshAssumption`),
and that links form no cycle (`AcyclicAssumption`), which the API refuses to make.

Only model-checked: all liveness and fairness, which are out of the prover's reach.
The safety invariants and the step properties of the passing runs are all proved.

## Not modelled

* Receptor, dispatcherd's own code, git, ansible-runner: outside this repository,
  modelled by what `src` relies on, if at all.
* Websocket relay, notification backends, data import, catalog and Terraform
  runners: I/O and calls to services; no state several actors share beyond a job's
  status, which goes through the lifecycle modelled here.
* Settings cache, access control, inventory and facts, other pages of the user
  interface, collection and CLI: data and queries, one request at a time.
* The periodic scheduler: a loop whose selection of schedules is dateutil's rules;
  its one ordering (last run saved before the jobs are made) is listed as a hazard.

## What could come next

1. An abstract job that `JobLifecycle` implements for undoubted jobs and that
   `WorkflowManager` and `TaskManager` use, as `TaskRules` is for the scheduler.
2. The periodic scheduler with its crash between last_run and the jobs it makes.
3. Ordinary events in the callback receiver: retry limits and counters.
