---------------------------- MODULE JobLifecycle ----------------------------
(***************************************************************************)
(* One job's row from pending to its final status, and everybody who       *)
(* writes it.                                                              *)
(*                                                                         *)
(* The task manager hands a pending job to a node and gives it a task id   *)
(* (awx/main/scheduler/task_manager.py, TaskManager).  dispatch_waiting_   *)
(* jobs of that node submits it to the dispatcher's pool and marks it      *)
(* running (awx/main/tasks/jobs.py).  A worker of the pool runs it         *)
(* (BaseTask.run).  Meanwhile a user cancels it (UnifiedJob.cancel), the   *)
(* heartbeat of the node fails the running jobs its pool does not know,    *)
(* that of another node fails or hands back the jobs of a node it takes    *)
(* for lost, and a node that starts fails the jobs it left running         *)
(* (awx/main/tasks/system.py, awx/main/dispatch/reaper.py).  None of them  *)
(* locks the row: each acts on what it has read.                           *)
(*                                                                         *)
(* Statements that read or write one row are single steps.  The final save *)
(* and the notifications are in JobWrapup, workflows in WorkflowManager,   *)
(* which see of a job only its status.                                     *)
(***************************************************************************)
EXTENDS Naturals

CONSTANTS Jobs, Nodes,
          Canceled,    \* the jobs somebody asks to cancel
          Runs,        \* places in the pools of all nodes: a bound
          MaxStarts,   \* task ids per job: a bound
          MaxFaults,   \* how often something goes wrong: a bound
          Faults       \* what may go wrong

\* A fault hands a job back to the task manager at most once.
ASSUME BoundsAssumption == MaxFaults \in Nat /\ MaxStarts \in Nat /\ MaxStarts > MaxFaults
ASSUME FaultsAssumption ==
  Faults \subseteq {"worker", "dispatch", "restart", "lost", "quota", "refusal"}
ASSUME CanceledAssumption == Canceled \subseteq Jobs
ASSUME NonemptyAssumption == Jobs # {} /\ Nodes # {}

VARIABLES
  \* The row: status, cancel_flag, started, controller_node, celery_task_id.
  status, cancelFlag, started, node, task,
  tm,         \* what the task manager's pass has read
  dispatch,   \* where dispatch_waiting_jobs of each node stands
  run,        \* the runs of jobs in the pools
  reaper,     \* where the reaper of each node stands
  starting,   \* the nodes whose startup_reaping is to come
  cancel,     \* where the cancel request for each job stands
  faults,     \* how often something went wrong
  doubted     \* jobs whose run somebody took for gone, wrongly

rowVars == <<status, cancelFlag, started, node, task>>
nodeVars == <<dispatch, run, reaper, starting>>
vars == <<rowVars, tm, nodeVars, cancel, faults, doubted>>

Final == {"successful", "failed", "error", "canceled"}
Status == {"pending", "waiting", "running"} \cup Final
TaskIds == 0 .. MaxStarts                    \* 0: none yet
Submissions == Jobs \X TaskIds

NoRun == [pc |-> "free", job |-> CHOOSE j \in Jobs : TRUE,
          node |-> CHOOSE n \in Nodes : TRUE, task |-> 0,
          flag |-> FALSE, over |-> FALSE, signal |-> FALSE, outcome |-> "error"]
NoPass == [busy |-> FALSE, pending |-> {}, flagged |-> {}, stamped |-> {}]
NoDispatch == [todo |-> {}, marking |-> {}]
Idle(n) == [pc |-> "idle", of |-> n, active |-> {}, victims |-> {}, saving |-> {}]
NoCancel == [pc |-> "no", task |-> 0, running |-> FALSE]

TypeOK ==
  /\ status \in [Jobs -> Status]
  /\ cancelFlag \in [Jobs -> BOOLEAN]
  /\ started \in [Jobs -> BOOLEAN]
  /\ node \in [Jobs -> Nodes \cup {"none"}]
  /\ task \in [Jobs -> TaskIds]
  /\ tm \in [busy : BOOLEAN, pending : SUBSET Jobs, flagged : SUBSET Jobs, stamped : SUBSET Jobs]
  /\ dispatch \in [Nodes -> [todo : SUBSET Submissions, marking : SUBSET Jobs]]
  /\ run \in [Runs -> [pc : {"free", "queued", "marking", "preparing", "canceling",
                             "starting", "executing", "ending"},
                       job : Jobs, node : Nodes, task : TaskIds,
                       flag : BOOLEAN, over : BOOLEAN, signal : BOOLEAN,
                       outcome : Status]]
  /\ reaper \in [Nodes -> [pc : {"idle", "listed", "reaping"}, of : Nodes,
                           active : SUBSET Submissions,
                           victims : SUBSET Jobs, saving : SUBSET Jobs]]
  /\ starting \in SUBSET Nodes
  /\ cancel \in [Jobs -> [pc : {"no", "read", "flagged", "done"}, task : TaskIds,
                          running : BOOLEAN]]
  /\ faults \in 0 .. MaxFaults
  /\ doubted \in SUBSET Jobs

\* Jobs that were launched, and whose dependencies are processed.
Init ==
  /\ status = [j \in Jobs |-> "pending"]
  /\ cancelFlag = [j \in Jobs |-> FALSE]
  /\ started = [j \in Jobs |-> FALSE]
  /\ node = [j \in Jobs |-> "none"]
  /\ task = [j \in Jobs |-> 0]
  /\ tm = NoPass
  /\ dispatch = [n \in Nodes |-> NoDispatch]
  /\ run = [r \in Runs |-> NoRun]
  /\ reaper = [n \in Nodes |-> Idle(n)]
  /\ starting = {}
  /\ cancel = [j \in Jobs |-> NoCancel]
  /\ faults = 0
  /\ doubted = {}

\* The runs of a job.  One that is still queued has done nothing yet.
Alive(r, j) == run[r].pc # "free" /\ run[r].job = j
RunsOf(j) == {r \in Runs : Alive(r, j)}
Begun(r) == run[r].pc \notin {"free", "queued"}

\* What a dispatch has listed for a job, and not yet submitted.
ListedBy(n, j) == {s \in dispatch[n].todo : s[1] = j}
Away(j) == RunsOf(j) # {} \/ \E n \in Nodes : ListedBy(n, j) # {}

\* Somebody takes the runs of these jobs for gone, which they have or will have.
Doubt(S) == doubted' = doubted \cup {j \in S : Away(j) \/ status[j] = "waiting"}
SetStatus(j, st) == status' = [status EXCEPT ![j] = st]
Fault(kind) == kind \in Faults /\ faults < MaxFaults /\ faults' = faults + 1

-----------------------------------------------------------------------------
(* The task manager: a pass reads all rows, then commits its decisions *)

TmFetch ==
  /\ ~ tm.busy
  /\ tm' = [busy |-> TRUE,
            pending |-> {j \in Jobs : status[j] = "pending"},
            flagged |-> {j \in Jobs : cancelFlag[j]},
            stamped |-> {j \in Jobs : started[j]}]
  /\ UNCHANGED <<rowVars, nodeVars, cancel, faults, doubted>>

\* A job may be left alone, if others block it or have the capacity.
\* start_task saves the whole instance, with cancel_flag and started as the
\* pass had read them.
TmCommit(d) ==
  /\ tm.busy
  /\ d \in [tm.pending -> Nodes \cup {"refused", "canceled", "blocked"}]
  /\ \A j \in tm.pending :
       /\ d[j] = "canceled" <=> j \in tm.flagged
       /\ d[j] = "refused" => "refusal" \in Faults
       /\ d[j] \in Nodes => task[j] < MaxStarts
  /\ LET To(S) == {j \in tm.pending : d[j] \in S}
         saved == To(Nodes \cup {"refused"})
     IN  /\ status' = [j \in Jobs |-> CASE j \in To({"canceled"}) -> "canceled"
                                        [] j \in To({"refused"}) -> "failed"
                                        [] j \in To(Nodes) -> "waiting"
                                        [] OTHER -> status[j]]
         /\ cancelFlag' = [j \in Jobs |-> IF j \in saved THEN j \in tm.flagged
                                                         ELSE cancelFlag[j]]
         /\ started' = [j \in Jobs |-> IF j \in saved THEN j \in tm.stamped
                                                      ELSE started[j]]
         /\ node' = [j \in Jobs |-> IF j \in To(Nodes) THEN d[j] ELSE node[j]]
         /\ task' = [j \in Jobs |-> IF j \in To(Nodes) THEN task[j] + 1 ELSE task[j]]
  /\ tm' = NoPass
  /\ UNCHANGED <<nodeVars, cancel, faults, doubted>>

TmCommits == \E d \in [Jobs -> Nodes \cup {"refused", "canceled", "blocked"}] :
               TmCommit([j \in tm.pending |-> d[j]])
TmTakes(j) == \E d \in [Jobs -> Nodes \cup {"refused", "canceled", "blocked"}] :
                 /\ j \in tm.pending /\ d[j] # "blocked"
                 /\ TmCommit([k \in tm.pending |-> d[k]])

-----------------------------------------------------------------------------
(* dispatch_waiting_jobs, one at a time on each node *)

SetDispatch(n, d) == dispatch' = [dispatch EXCEPT ![n] = d]

DispatchLists(n) ==
  /\ dispatch[n] = NoDispatch
  /\ LET todo == {<<j, task[j]>> : j \in {j \in Jobs : status[j] = "waiting" /\ node[j] = n}}
     IN  todo # {} /\ SetDispatch(n, [NoDispatch EXCEPT !.todo = todo])
  /\ UNCHANGED <<rowVars, tm, run, reaper, starting, cancel, faults, doubted>>

\* binder.control('run'): the pool has it, whatever the row says by now.
DispatchSubmits(n, r) ==
  /\ dispatch[n].marking = {}
  /\ run[r].pc = "free" /\ r = CHOOSE q \in Runs : run[q].pc = "free"
  /\ \E s \in dispatch[n].todo :
       /\ run' = [run EXCEPT ![r] = [NoRun EXCEPT !.pc = "queued", !.job = s[1],
                                                  !.node = n, !.task = s[2]]]
       /\ SetDispatch(n, [todo |-> dispatch[n].todo \ {s}, marking |-> {s[1]}])
  /\ UNCHANGED <<rowVars, tm, reaper, starting, cancel, faults, doubted>>

\* Mutant: marking the job is left to its run.
DispatchMarks_later(n) ==
  /\ dispatch[n].marking # {}
  /\ SetDispatch(n, [dispatch[n] EXCEPT !.marking = {}])
  /\ UNCHANGED <<rowVars, tm, run, reaper, starting, cancel, faults, doubted>>

\* The queryset update: status only, started stays as it is.
DispatchMarks(n) ==
  /\ \E j \in dispatch[n].marking :
       IF status[j] = "waiting" THEN SetStatus(j, "running") ELSE UNCHANGED status
  /\ SetDispatch(n, [dispatch[n] EXCEPT !.marking = {}])
  /\ UNCHANGED <<cancelFlag, started, node, task, tm, run, reaper, starting, cancel,
                 faults, doubted>>

\* The task that dispatches dies, or the database fails its update: the job
\* it has just submitted will be listed again.
DispatchDies(n) ==
  /\ Fault("dispatch")
  /\ dispatch[n] # NoDispatch
  /\ SetDispatch(n, NoDispatch)
  /\ Doubt({j \in dispatch[n].marking : status[j] = "waiting"})
  /\ UNCHANGED <<rowVars, tm, run, reaper, starting, cancel>>

-----------------------------------------------------------------------------
(* BaseTask.run *)

SetRun(r, f) == run' = [run EXCEPT ![r] = f]
Goes(r, from, to) == run[r].pc = from /\ SetRun(r, [run[r] EXCEPT !.pc = to])

\* Where the first lines of run lead: what they have read is running or not,
\* cancelled or not.
Begin(r, flag) == [run[r] EXCEPT !.pc = IF flag THEN "canceling" ELSE "preparing"]

RunReads(r) ==
  /\ run[r].pc = "queued"
  /\ LET j == run[r].job
     IN  SetRun(r, CASE status[j] = "waiting" -> [run[r] EXCEPT !.pc = "marking"]
                     [] status[j] = "running" -> Begin(r, cancelFlag[j])
                     [] OTHER -> NoRun)
  /\ UNCHANGED <<rowVars, tm, dispatch, reaper, starting, cancel, faults, doubted>>

\* It found the job waiting, and makes it running whatever it is by now.
RunMarks(r) ==
  /\ run[r].pc = "marking"
  /\ SetStatus(run[r].job, "running")
  /\ SetRun(r, Begin(r, cancelFlag[run[r].job]))
  /\ UNCHANGED <<cancelFlag, started, node, task, tm, dispatch, reaper, starting,
                 cancel, faults, doubted>>

RunCancels(r) ==
  /\ run[r].pc = "canceling"
  /\ SetStatus(run[r].job, "canceled")
  /\ SetRun(r, NoRun)
  /\ UNCHANGED <<cancelFlag, started, node, task, tm, dispatch, reaper, starting,
                 cancel, faults, doubted>>

\* UnifiedJob.save stamps a running job that has no start time.
Stamp(j) == started' = [started EXCEPT ![j] = @ \/ status[j] = "running"]

\* update_model of some field on the way: a fresh instance takes the place of
\* the old one.  Not every job has such a save.
RunSaves(r) ==
  /\ run[r].pc = "preparing"
  /\ LET j == run[r].job
     IN  /\ Stamp(j)
         /\ SetRun(r, [run[r] EXCEPT !.flag = cancelFlag[j],
                                     !.over = status[j] # "running"])
  /\ UNCHANGED <<status, cancelFlag, node, task, tm, dispatch, reaper, starting,
                 cancel, faults, doubted>>

\* An exception before the playbook starts.  pre_run_hook and the project sync
\* fail the job before they raise it, whose status is then saved once more.
RunRefuses(r) ==
  /\ "refusal" \in Faults
  /\ run[r].pc \in {"preparing", "starting"}
  /\ \/ run[r].pc = "preparing" /\ SetStatus(run[r].job, "failed")
     \/ UNCHANGED status
  /\ SetRun(r, [run[r] EXCEPT !.pc = "ending", !.outcome = "error"])
  /\ UNCHANGED <<cancelFlag, started, node, task, tm, dispatch, reaper, starting,
                 cancel, faults, doubted>>

\* Before it starts the playbook: is it cancelled, is it over?
RunPrepared(r) ==
  /\ run[r].pc = "preparing"
  /\ LET j == run[r].job
     IN  IF run[r].flag \/ run[r].signal
         THEN /\ SetStatus(j, "canceled")
              /\ SetRun(r, [run[r] EXCEPT !.pc = "ending", !.outcome = "canceled"])
         ELSE /\ UNCHANGED status
              /\ SetRun(r, IF run[r].over
                           THEN [run[r] EXCEPT !.pc = "ending", !.outcome = status[j]]
                           ELSE [run[r] EXCEPT !.pc = "starting"])
  /\ UNCHANGED <<cancelFlag, started, node, task, tm, dispatch, reaper, starting,
                 cancel, faults, doubted>>

\* The work unit is submitted, and its id saved.
RunStarts(r) ==
  /\ Goes(r, "starting", "executing")
  /\ Stamp(run[r].job)
  /\ UNCHANGED <<status, cancelFlag, node, task, tm, dispatch, reaper, starting,
                 cancel, faults, doubted>>

\* Mutant: a run that timed out keeps that as its status.
RunEnds_timeout(r) ==
  /\ run[r].pc = "executing"
  /\ \E st \in {"successful", "failed", "error", "timeout"} :
       SetRun(r, [run[r] EXCEPT !.pc = "ending", !.outcome = st])
  /\ UNCHANGED <<rowVars, tm, dispatch, reaper, starting, cancel, faults, doubted>>

\* The playbook ends, or the cancel signal ends it: a shutdown if the job was
\* not cancelled.
RunEnds(r) ==
  /\ run[r].pc = "executing"
  /\ \E st \in {"successful", "failed", "error"} \cup
               (IF run[r].signal /\ cancelFlag[run[r].job] THEN {"canceled"} ELSE {}) :
       SetRun(r, [run[r] EXCEPT !.pc = "ending", !.outcome = st])
  /\ UNCHANGED <<rowVars, tm, dispatch, reaper, starting, cancel, faults, doubted>>

\* The final save, whatever the status is by now.
RunSavesStatus(r) ==
  /\ run[r].pc = "ending"
  /\ SetStatus(run[r].job, run[r].outcome)
  /\ SetRun(r, NoRun)
  /\ UNCHANGED <<cancelFlag, started, node, task, tm, dispatch, reaper, starting,
                 cancel, faults, doubted>>

\* The pod does not fit the quota: the job goes back to the task manager.
RunOverQuota(r) ==
  /\ Fault("quota")
  /\ run[r].pc = "executing"
  /\ SetStatus(run[r].job, "pending")
  /\ SetRun(r, NoRun)
  /\ UNCHANGED <<cancelFlag, started, node, task, tm, dispatch, reaper, starting,
                 cancel, doubted>>

RunDies(r) ==
  /\ Fault("worker")
  /\ Begun(r)
  /\ SetRun(r, NoRun)
  /\ UNCHANGED <<rowVars, tm, dispatch, reaper, starting, cancel, doubted>>

-----------------------------------------------------------------------------
(* A request to cancel a job *)

\* get_object, can_cancel.
CancelReads(j) ==
  /\ j \in Canceled
  /\ cancel[j] = NoCancel
  /\ status[j] \notin Final
  /\ cancel' = [cancel EXCEPT ![j] = [pc |-> "read", task |-> task[j],
                                      running |-> status[j] = "running"]]
  /\ UNCHANGED <<rowVars, tm, nodeVars, faults, doubted>>

\* The save stamps the start time of a job it has read as running.
CancelSaves(j) ==
  /\ cancel[j].pc = "read"
  /\ cancelFlag' = [cancelFlag EXCEPT ![j] = TRUE]
  /\ started' = [started EXCEPT ![j] = @ \/ cancel[j].running]
  /\ cancel' = [cancel EXCEPT ![j].pc = "flagged"]
  /\ UNCHANGED <<status, node, task, tm, nodeVars, faults, doubted>>

\* Mutant: the task id is that the request read first.
CancelId_asRead(j) == cancel[j].task

\* The task id is read again if there was none.
CancelId(j) == IF cancel[j].task = 0 THEN task[j] ELSE cancel[j].task

\* The dispatcher signals the worker that runs the task.  A queued task has
\* no worker yet.
CancelSignals(j) ==
  /\ cancel[j].pc = "flagged"
  /\ run' = [r \in Runs |-> [run[r] EXCEPT
               !.signal = @ \/ (Begun(r) /\ Alive(r, j) /\ run[r].task = CancelId(j))]]
  /\ cancel' = [cancel EXCEPT ![j].pc = "done"]
  /\ UNCHANGED <<rowVars, tm, dispatch, reaper, starting, faults, doubted>>

-----------------------------------------------------------------------------
(* The reapers: the local one of the heartbeat, that for a lost node, and    *)
(* startup_reaping.  A node runs one at a time.                              *)

SetReaper(n, h) == reaper' = [reaper EXCEPT ![n] = h]
RunningAt(n) == {j \in Jobs : status[j] = "running" /\ node[j] = n}
ReaperUnchanged == UNCHANGED <<rowVars, tm, dispatch, run, cancel>>

\* The dispatcher tells which tasks it has.
HeartbeatLists(n) ==
  /\ reaper[n].pc = "idle"
  /\ SetReaper(n, [Idle(n) EXCEPT !.pc = "listed",
                    !.active = {<<run[r].job, run[r].task>> : r \in {r \in Runs :
                                 run[r].pc # "free" /\ run[r].node = n}}])
  /\ ReaperUnchanged /\ UNCHANGED <<starting, faults, doubted>>

\* Mutant: the start time is compared the wrong way round.
HeartbeatSelects_unstarted(n) ==
  /\ reaper[n].pc = "listed"
  /\ LET victims == {j \in RunningAt(n) :
                        ~ started[j] /\ <<j, task[j]>> \notin reaper[n].active}
     IN  SetReaper(n, IF victims = {} THEN Idle(n)
                      ELSE [Idle(n) EXCEPT !.pc = "reaping", !.victims = victims])
  /\ ReaperUnchanged /\ UNCHANGED <<starting, faults, doubted>>

\* ref_time is the time of this query, not that of the list.
HeartbeatSelects(n) ==
  /\ reaper[n].pc = "listed"
  /\ LET victims == {j \in RunningAt(n) :
                        started[j] /\ <<j, task[j]>> \notin reaper[n].active}
     IN  SetReaper(n, IF victims = {} THEN Idle(n)
                      ELSE [Idle(n) EXCEPT !.pc = "reaping", !.victims = victims])
  /\ ReaperUnchanged /\ UNCHANGED <<starting, faults, doubted>>

\* m has not heard of n for too long.
LostSelects(m, n) ==
  /\ Fault("lost")
  /\ m # n
  /\ reaper[m].pc = "idle"
  /\ SetReaper(m, [Idle(n) EXCEPT !.pc = "reaping", !.victims = RunningAt(n)])
  /\ ReaperUnchanged /\ UNCHANGED <<starting, doubted>>

StartupSelects(n) ==
  /\ n \in starting
  /\ reaper[n].pc = "idle"
  /\ SetReaper(n, [Idle(n) EXCEPT !.pc = "reaping", !.victims = RunningAt(n)])
  /\ starting' = starting \ {n}
  /\ ReaperUnchanged /\ UNCHANGED <<faults, doubted>>

\* Mutant: the status is not looked at again.
ReaperRefreshes_blind(n, j) ==
  /\ reaper[n].saving = {}
  /\ j \in reaper[n].victims
  /\ SetReaper(n, [reaper[n] EXCEPT !.victims = @ \ {j}, !.saving = {j}])
  /\ Doubt({j})
  /\ ReaperUnchanged /\ UNCHANGED <<starting, faults>>

\* reap_job refreshes the status first.
ReaperRefreshes(n, j) ==
  /\ reaper[n].saving = {}
  /\ j \in reaper[n].victims
  /\ IF status[j] \in {"running", "waiting"}
     THEN /\ SetReaper(n, [reaper[n] EXCEPT !.victims = @ \ {j}, !.saving = {j}])
          /\ Doubt({j})
     ELSE /\ SetReaper(n, [reaper[n] EXCEPT !.victims = @ \ {j}])
          /\ UNCHANGED doubted
  /\ ReaperUnchanged /\ UNCHANGED <<starting, faults>>

ReaperSaves(n, j) ==
  /\ j \in reaper[n].saving
  /\ SetStatus(j, "failed")
  /\ SetReaper(n, [reaper[n] EXCEPT !.saving = {}])
  /\ UNCHANGED <<cancelFlag, started, node, task, tm, dispatch, run, starting, cancel,
                 faults, doubted>>

\* For a lost node, its waiting jobs are handed back.
ReaperEnds(n) ==
  /\ reaper[n].pc = "reaping"
  /\ reaper[n].victims \cup reaper[n].saving = {}
  /\ LET lost == reaper[n].of
         back == {j \in Jobs : lost # n /\ status[j] = "waiting" /\ node[j] = lost}
     IN  /\ status' = [j \in Jobs |-> IF j \in back THEN "pending" ELSE status[j]]
         /\ node' = [j \in Jobs |-> IF j \in back THEN "none" ELSE node[j]]
         /\ doubted' = doubted \cup {j \in back : Away(j)}
  /\ SetReaper(n, Idle(n))
  /\ UNCHANGED <<cancelFlag, started, task, tm, dispatch, run, starting, cancel, faults>>

\* The services of a node go down, with all the work in its pool, and come up.
NodeRestarts(n) ==
  /\ Fault("restart")
  /\ run' = [r \in Runs |-> IF run[r].node = n THEN NoRun ELSE run[r]]
  /\ SetDispatch(n, NoDispatch)
  /\ SetReaper(n, Idle(n))
  /\ starting' = starting \cup {n}
  /\ UNCHANGED <<rowVars, tm, cancel, doubted>>

-----------------------------------------------------------------------------
TmNext == TmFetch \/ TmCommits

DispatchNext(n) ==
  \/ DispatchLists(n)
  \/ \E r \in Runs : DispatchSubmits(n, r)
  \/ DispatchMarks(n)

RunNext(r) ==
  \/ RunReads(r) \/ RunMarks(r) \/ RunCancels(r)
  \/ RunRefuses(r) \/ RunPrepared(r)
  \/ RunStarts(r) \/ RunEnds(r)
  \/ RunSavesStatus(r)

CancelNext(j) == CancelReads(j) \/ CancelSaves(j) \/ CancelSignals(j)

ReaperNext(n) ==
  \/ HeartbeatLists(n) \/ HeartbeatSelects(n)
  \/ \E j \in Jobs : ReaperRefreshes(n, j) \/ ReaperSaves(n, j)
  \/ ReaperEnds(n)

Next ==
  \/ TmNext
  \/ \E n \in Nodes : \/ DispatchNext(n) \/ DispatchDies(n)
                      \/ ReaperNext(n) \/ StartupSelects(n) \/ NodeRestarts(n)
                      \/ \E m \in Nodes : LostSelects(m, n)
  \/ \E r \in Runs : RunNext(r) \/ RunSaves(r) \/ RunOverQuota(r) \/ RunDies(r)
  \/ \E j \in Jobs : CancelNext(j)

Spec == Init /\ [][Next]_vars

\* The task manager and the heartbeat are periodic, the heartbeat submits
\* dispatch_waiting_jobs again, a worker goes on, and a playbook ends.  A job
\* is not left alone for ever: those that block it end.  Faults
\* and requests need never happen, a request need not go on, and the
\* properties do without startup_reaping.
FairSpec ==
  /\ Spec
  /\ WF_vars(TmNext)
  /\ \A j \in Jobs : SF_vars(TmTakes(j))
  /\ \A n \in Nodes : WF_vars(DispatchNext(n)) /\ WF_vars(ReaperNext(n))
  /\ \A r \in Runs : WF_vars(RunNext(r))

-----------------------------------------------------------------------------
\* A job is not run twice at a time, unless somebody took its run for gone.
OneRunAtATime ==
  \A r, s \in Runs :
    r # s /\ Begun(r) /\ Begun(s) /\ run[r].job = run[s].job => run[r].job \in doubted

\* A job that is over stays over, and a successful one successful, unless
\* somebody took its run for gone: nobody who has read it before it ended
\* acts on that.
FinalIsOver ==
  [][\A j \in Jobs : status[j] \in Final /\ j \notin doubted
       => /\ status'[j] \in Final
          /\ status[j] = "successful" => status'[j] = "successful"]_vars

\* A run has learnt of the cancellation, or will when it reads the row.
Knows(r) == run[r].pc \in {"queued", "marking", "canceling", "ending"}
            \/ run[r].flag \/ run[r].signal

\* Once a request to cancel has been answered, and its flag is in the row,
\* every run of the job knows of it.  Out of its reach are only the runs taken
\* for gone, and one with a task id given after the request had read another.
CancelReachesTheRun ==
  \A j \in Jobs \ doubted : cancel[j].pc = "done" /\ cancelFlag[j] =>
    \A r \in RunsOf(j) : Knows(r) \/ cancel[j].task \notin {0, run[r].task}

\* Every job ends, but for those the heartbeat never looks at: running without
\* a start time.  (For two runs at a time, after a node that was not lost has
\* been taken for lost, this does not hold: each may save as the job's status
\* the waiting or running it has just read.)
EndsUnlessUnstamped ==
  \A j \in Jobs : <>(status[j] \in Final) \/ <>[](status[j] = "running" /\ ~ started[j])

\* A job whose request to cancel was answered before its run began does not get
\* as far as preparing the playbook.
CanceledDoesNotRun ==
  [][\A r \in Runs : run[r].pc = "queued" /\ run'[r].pc # "queued"
       /\ cancel[run[r].job].pc = "done" => run'[r].pc # "preparing"]_vars
=============================================================================
