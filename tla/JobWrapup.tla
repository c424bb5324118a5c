----------------------------- MODULE JobWrapup -----------------------------
(***************************************************************************)
(* The end of a job and its one final notification.                        *)
(*                                                                         *)
(* Two processes that share nothing but the job's row must agree on who    *)
(* sends it: the worker that runs the job and saves its final status       *)
(* (awx/main/tasks/jobs.py, BaseTask.run), and the callback receiver that  *)
(* handles the job's wrapup event and fills in host_status_counts          *)
(* (awx/main/dispatch/worker/callback.py, job_stats_wrapup).  Each looks   *)
(* at what the other one writes, under the row's lock, and the second of   *)
(* the two to come sends it.  A third process, the reaper, fails jobs      *)
(* whose worker is gone and notifies on its own.  A job whose pod exceeds   *)
(* the quota goes back to pending and runs a second time, with the counts  *)
(* and the wrapup event of its first run still about.                      *)
(*                                                                         *)
(* A transaction that locks the row is one step here.  One that only reads *)
(* the row and writes it later is two.                                     *)
(***************************************************************************)
EXTENDS Naturals, Sequences

CONSTANTS Jobs,        \* the jobs that run
          EofJobs,     \* those whose WRAPUP_EVENT is EOF
          Receivers,   \* the worker processes of the callback receiver
          Faults,      \* what may go wrong
          MaxFaults,   \* bound: how often something goes wrong
          MaxRuns      \* bound: how often a job is started

ASSUME EofJobsAssumption == EofJobs \subseteq Jobs
ASSUME FaultsAssumption ==
  Faults \subseteq {"process", "node", "database", "redis", "receiver", "quota"}
ASSUME MaxFaultsAssumption == MaxFaults \in Nat
ASSUME MaxRunsAssumption == MaxRuns \in Nat \ {0}

VARIABLES
  status,       \* UnifiedJob.status
  counted,      \* whether UnifiedJob.host_status_counts is filled in
  worker,       \* where the process in BaseTask.run stands
  runs,         \* which run of the job this is
  outcome,      \* the status it is about to save
  dispatched,   \* its runner_callback.wrapup_event_dispatched
  seenCounted,  \* host_status_counts on the instance it saved
  queue,        \* wrapup events in the Redis list
  buffer,       \* wrapup events in CallbackBrokerWorker.buff
  saved,        \* wrapup events saved, whose job_stats_wrapup is to come
  hooking,      \* the call of events_processed_hook a receiver is about to make
  reaping,      \* where reap_job stands
  sent,         \* the final notifications, in the order they were sent
  mishaps,      \* what went wrong, for the properties to tell
  faults        \* how often something did

dbVars == <<status, counted>>
workerVars == <<worker, runs, outcome, dispatched, seenCounted>>
receiverVars == <<buffer, saved, hooking>>
vars == <<dbVars, workerVars, queue, receiverVars, reaping, sent, mishaps, faults>>

\* The wrapup event of a run of a job.
Events == Jobs \X (1..MaxRuns)
Of(events) == {e[1] : e \in events}

Final == {"successful", "failed"}
\* lost: the wrapup event was.  unlocked: the final status was saved without
\* the lock.  died: somebody died on the way to the notification.
Mishaps == {"lost", "unlocked", "died", "reaped"}

TypeOK ==
  /\ status \in [Jobs -> {"running", "pending"} \cup Final]
  /\ counted \in [Jobs -> BOOLEAN]
  /\ worker \in [Jobs -> {"running", "idle", "ended", "retrying", "writing", "saved",
                         "done", "dead"}]
  /\ runs \in [Jobs -> 1..MaxRuns]
  /\ outcome \in [Jobs -> Final]
  /\ dispatched \in [Jobs -> BOOLEAN]
  /\ seenCounted \in [Jobs -> BOOLEAN]
  /\ queue \in SUBSET Events
  /\ buffer \in [Receivers -> SUBSET Events]
  /\ saved \in [Receivers -> SUBSET Events]
  /\ hooking \in [Receivers -> SUBSET (Jobs \X Final)]
  /\ reaping \in [Jobs -> {"no", "read", "written", "over"}]
  /\ sent \in [Jobs -> Seq(Final)]
  /\ mishaps \in [Jobs -> SUBSET Mishaps]
  /\ faults \in 0..MaxFaults

Init ==
  /\ status = [j \in Jobs |-> "running"]
  /\ counted = [j \in Jobs |-> FALSE]
  /\ worker = [j \in Jobs |-> "running"]
  /\ runs = [j \in Jobs |-> 1]
  /\ outcome = [j \in Jobs |-> "failed"]
  /\ dispatched = [j \in Jobs |-> FALSE]
  /\ seenCounted = [j \in Jobs |-> FALSE]
  /\ queue = {}
  /\ buffer = [r \in Receivers |-> {}]
  /\ saved = [r \in Receivers |-> {}]
  /\ hooking = [r \in Receivers |-> {}]
  /\ reaping = [j \in Jobs |-> "no"]
  /\ sent = [j \in Jobs |-> <<>>]
  /\ mishaps = [j \in Jobs |-> {}]
  /\ faults = 0

At(j, from, to) == worker[j] = from /\ worker' = [worker EXCEPT ![j] = to]
Send(j, st) == sent' = [sent EXCEPT ![j] = Append(@, st)]
Goes(wrong) == wrong \in Faults /\ faults < MaxFaults /\ faults' = faults + 1
Blame(S, m) ==
  mishaps' = [j \in Jobs |-> IF j \in S THEN mishaps[j] \cup {m} ELSE mishaps[j]]

-----------------------------------------------------------------------------
(* The worker that runs the job *)

WorkerDispatches(j) ==
  /\ worker[j] = "running"
  /\ ~dispatched[j]
  /\ dispatched' = [dispatched EXCEPT ![j] = TRUE]
  /\ queue' = queue \cup {<<j, runs[j]>>}
  /\ UNCHANGED <<dbVars, worker, runs, outcome, seenCounted, receiverVars,
                 reaping, sent, mishaps, faults>>

\* Redis refuses the event and the run fails.  event_handler has set the
\* flag before it dispatches, finished_callback sets it after.
WorkerDispatchFails(j) ==
  /\ Goes("redis")
  /\ ~dispatched[j]
  /\ At(j, "running", "ended")
  /\ outcome' = [outcome EXCEPT ![j] = "failed"]
  /\ dispatched' = [dispatched EXCEPT ![j] = j \notin EofJobs]
  /\ Blame({j} \ EofJobs, "lost")
  /\ UNCHANGED <<dbVars, runs, seenCounted, queue, receiverVars, reaping, sent>>

\* Mutant: a run that timed out keeps that as its status.
WorkerEnds_timeout(j, st) ==
  /\ At(j, "running", "ended")
  /\ outcome' = [outcome EXCEPT ![j] = "timeout"]
  /\ UNCHANGED <<dbVars, runs, dispatched, seenCounted, queue, receiverVars,
                 reaping, sent, mishaps, faults>>

\* The run is over, with its wrapup event dispatched or not.
WorkerEnds(j, st) ==
  /\ At(j, "running", "ended")
  /\ outcome' = [outcome EXCEPT ![j] = st]
  /\ UNCHANGED <<dbVars, runs, dispatched, seenCounted, queue, receiverVars,
                 reaping, sent, mishaps, faults>>

\* The pod exceeds the quota: the job is pending again, whatever its row says,
\* and the worker goes, its runner_callback with it, without a last save.  A
\* pod that did not start has emitted no playbook event, but the run is
\* finished, so an EOF may be out.
WorkerOverQuota(j) ==
  /\ Goes("quota")
  /\ runs[j] < MaxRuns
  /\ dispatched[j] => j \in EofJobs
  /\ At(j, "running", "idle")
  /\ status' = [status EXCEPT ![j] = "pending"]
  /\ runs' = [runs EXCEPT ![j] = @ + 1]
  /\ dispatched' = [dispatched EXCEPT ![j] = FALSE]
  /\ UNCHANGED <<counted, outcome, seenCounted, queue, receiverVars,
                 reaping, sent, mishaps>>

\* The task manager starts it again; host_status_counts is not reset.
WorkerRestarts(j) ==
  /\ status[j] = "pending"
  /\ At(j, "idle", "running")
  /\ status' = [status EXCEPT ![j] = "running"]
  /\ UNCHANGED <<counted, runs, outcome, dispatched, seenCounted, queue,
                 receiverVars, reaping, sent, mishaps, faults>>

\* update_model with select_for_update.
WorkerSaves(j) ==
  /\ At(j, "ended", "saved")
  /\ status' = [status EXCEPT ![j] = outcome[j]]
  /\ seenCounted' = [seenCounted EXCEPT ![j] = counted[j]]
  /\ UNCHANGED <<counted, runs, outcome, dispatched, queue, receiverVars,
                 reaping, sent, mishaps, faults>>

\* The database fails that transaction.  The retry calls update_model without
\* select_for_update.
WorkerSaveFails(j) ==
  /\ Goes("database")
  /\ At(j, "ended", "retrying") \/ At(j, "writing", "retrying")
  /\ UNCHANGED <<dbVars, runs, outcome, dispatched, seenCounted, queue, receiverVars,
                 reaping, sent, mishaps>>

WorkerRetryReads(j) ==
  /\ At(j, "retrying", "writing")
  /\ seenCounted' = [seenCounted EXCEPT ![j] = counted[j]]
  /\ Blame({j}, "unlocked")
  /\ UNCHANGED <<dbVars, runs, outcome, dispatched, queue, receiverVars,
                 reaping, sent, faults>>

WorkerRetryWrites(j) ==
  /\ At(j, "writing", "saved")
  /\ status' = [status EXCEPT ![j] = outcome[j]]
  /\ UNCHANGED <<counted, runs, outcome, dispatched, seenCounted, queue, receiverVars,
                 reaping, sent, mishaps, faults>>

\* Mutant: whoever saves the status notifies.
WorkerNotifies_always(j) ==
  /\ At(j, "saved", "done")
  /\ Send(j, outcome[j])
  /\ UNCHANGED <<dbVars, runs, outcome, dispatched, seenCounted, queue, receiverVars,
                 reaping, mishaps, faults>>

\* Mutant: a job without events is left to the callback receiver.
WorkerNotifies_countedOnly(j) ==
  /\ At(j, "saved", "done")
  /\ IF seenCounted[j] THEN Send(j, outcome[j]) ELSE UNCHANGED sent
  /\ UNCHANGED <<dbVars, runs, outcome, dispatched, seenCounted, queue, receiverVars,
                 reaping, mishaps, faults>>

\* The worker notifies when the receiver is through with the events, or will
\* get no wrapup event.
WorkerNotifies(j) ==
  /\ At(j, "saved", "done")
  /\ IF seenCounted[j] \/ ~dispatched[j] THEN Send(j, outcome[j]) ELSE UNCHANGED sent
  /\ UNCHANGED <<dbVars, runs, outcome, dispatched, seenCounted, queue, receiverVars,
                 reaping, mishaps, faults>>

\* The process dies, or is out of attempts to save the status.
WorkerDies(j) ==
  /\ worker[j] \notin {"idle", "done", "dead"}
  /\ \/ Goes("process")
     \/ worker[j] = "retrying" /\ UNCHANGED faults
  /\ worker' = [worker EXCEPT ![j] = "dead"]
  /\ Blame({j}, "died")
  /\ UNCHANGED <<dbVars, runs, outcome, dispatched, seenCounted, queue, receiverVars,
                 reaping, sent>>

-----------------------------------------------------------------------------
(* The callback receiver *)

Free(r) == saved[r] = {} /\ hooking[r] = {}

\* perform_work: an EOF is handled at once, any other event is buffered.
ReceiverPops(r, e) ==
  /\ Free(r)
  /\ e \in queue
  /\ queue' = queue \ {e}
  /\ IF e[1] \in EofJobs
     THEN saved' = [saved EXCEPT ![r] = {e}] /\ UNCHANGED buffer
     ELSE buffer' = [buffer EXCEPT ![r] = @ \cup {e}] /\ UNCHANGED saved
  /\ UNCHANGED <<dbVars, workerVars, hooking, reaping, sent, mishaps, faults>>

\* flush: the buffered events are saved.
ReceiverFlushes(r) ==
  /\ Free(r)
  /\ buffer[r] # {}
  /\ saved' = [saved EXCEPT ![r] = buffer[r]]
  /\ buffer' = [buffer EXCEPT ![r] = {}]
  /\ UNCHANGED <<dbVars, workerVars, queue, hooking, reaping, sent, mishaps, faults>>

\* Mutant: the status is not looked at again once the counts are saved.
ReceiverCounts_only(r, e) ==
  /\ hooking[r] = {}
  /\ e \in saved[r]
  /\ counted' = [counted EXCEPT ![e[1]] = TRUE]
  /\ saved' = [saved EXCEPT ![r] = @ \ {e}]
  /\ UNCHANGED <<status, workerVars, queue, buffer, hooking, reaping, sent,
                 mishaps, faults>>

\* job_stats_wrapup: the counts are saved under the lock, and the status read
\* there decides on the notification.
ReceiverCounts(r, e) ==
  /\ hooking[r] = {}
  /\ e \in saved[r]
  /\ counted' = [counted EXCEPT ![e[1]] = TRUE]
  /\ saved' = [saved EXCEPT ![r] = @ \ {e}]
  /\ hooking' = [hooking EXCEPT ![r] =
                   IF status[e[1]] \in Final THEN {<<e[1], status[e[1]]>>} ELSE {}]
  /\ UNCHANGED <<status, workerVars, queue, buffer, reaping, sent, mishaps, faults>>

ReceiverNotifies(r) ==
  /\ \E h \in hooking[r] : Send(h[1], h[2])
  /\ hooking' = [hooking EXCEPT ![r] = {}]
  /\ UNCHANGED <<dbVars, workerVars, queue, buffer, saved, reaping, mishaps, faults>>

\* Events out of retries are dropped from the buffer; the whole of it when
\* the database stays away.
ReceiverDrops(r, gone) ==
  /\ Goes("receiver")
  /\ Free(r)
  /\ gone # {} /\ gone \subseteq buffer[r]
  /\ buffer' = [buffer EXCEPT ![r] = @ \ gone]
  /\ Blame(Of(gone), "lost")
  /\ UNCHANGED <<dbVars, workerVars, queue, saved, hooking, reaping, sent>>

\* A websocket message fails after the events were saved and taken out of the
\* buffer, or job_stats_wrapup itself fails: no retry comes back to them.
ReceiverForgets(r, gone) ==
  /\ Goes("receiver")
  /\ hooking[r] = {}
  /\ gone # {} /\ gone \subseteq saved[r]
  /\ saved' = [saved EXCEPT ![r] = @ \ gone]
  /\ Blame(Of(gone), "lost")
  /\ UNCHANGED <<dbVars, workerVars, queue, buffer, hooking, reaping, sent>>

\* The process dies with all it has in memory; another takes its place.
ReceiverDies(r) ==
  /\ Goes("receiver")
  /\ Blame(Of(buffer[r] \cup saved[r] \cup hooking[r]), "lost")
  /\ buffer' = [buffer EXCEPT ![r] = {}]
  /\ saved' = [saved EXCEPT ![r] = {}]
  /\ hooking' = [hooking EXCEPT ![r] = {}]
  /\ UNCHANGED <<dbVars, workerVars, queue, reaping, sent>>

-----------------------------------------------------------------------------
(* The reaper: reap_job, which holds no lock *)

\* The heartbeat finds a running job whose worker is gone, or takes the whole
\* node for lost.
ReaperReads(j) ==
  /\ reaping[j] = "no"
  /\ status[j] = "running"
  /\ \/ Goes("node")
     \/ worker[j] = "dead" /\ UNCHANGED faults
  /\ reaping' = [reaping EXCEPT ![j] = "read"]
  /\ UNCHANGED <<dbVars, workerVars, queue, receiverVars, sent, mishaps>>

ReaperWrites(j) ==
  /\ reaping[j] = "read"
  /\ status' = [status EXCEPT ![j] = "failed"]
  /\ reaping' = [reaping EXCEPT ![j] = "written"]
  /\ Blame({j}, "reaped")
  /\ UNCHANGED <<counted, workerVars, queue, receiverVars, sent, faults>>

ReaperNotifies(j) ==
  /\ reaping[j] = "written"
  /\ Send(j, "failed")
  /\ reaping' = [reaping EXCEPT ![j] = "over"]
  /\ UNCHANGED <<dbVars, workerVars, queue, receiverVars, mishaps, faults>>

-----------------------------------------------------------------------------
WorkerStep(j) == \/ \E st \in Final : WorkerEnds(j, st)
                 \/ WorkerRestarts(j)
                 \/ WorkerSaves(j) \/ WorkerRetryReads(j) \/ WorkerRetryWrites(j)
                 \/ WorkerNotifies(j)
ReceiverStep(r) == \/ \E e \in queue : ReceiverPops(r, e)
                   \/ \E e \in saved[r] : ReceiverCounts(r, e)
                   \/ ReceiverFlushes(r)
                   \/ ReceiverNotifies(r)
ReaperStep(j) == ReaperReads(j) \/ ReaperWrites(j) \/ ReaperNotifies(j)

Fault == \/ \E j \in Jobs : \/ WorkerDispatchFails(j) \/ WorkerOverQuota(j)
                            \/ WorkerSaveFails(j) \/ WorkerDies(j)
         \/ \E r \in Receivers : \/ \E gone \in SUBSET buffer[r] : ReceiverDrops(r, gone)
                                 \/ \E gone \in SUBSET saved[r] : ReceiverForgets(r, gone)
         \/ \E r \in Receivers : ReceiverDies(r)

Next == \/ \E j \in Jobs : WorkerDispatches(j) \/ WorkerStep(j) \/ ReaperStep(j)
        \/ \E r \in Receivers : ReceiverStep(r)
        \/ Fault

Spec == Init /\ [][Next]_vars

\* A run ends and its worker goes on; a job put back to pending is started
\* again, by a later pass of the task manager; receivers keep popping and
\* flushing; the heartbeat comes round to a job whose worker is dead.  Nothing
\* has to go wrong, and a run need not dispatch its wrapup event.
FairSpec ==
  /\ Spec
  /\ \A j \in Jobs : WF_vars(WorkerStep(j))
  /\ \A r \in Receivers : WF_vars(ReceiverStep(r))
  /\ \A j \in Jobs : WF_vars((worker[j] = "dead" \/ reaping[j] # "no") /\ ReaperStep(j))
-----------------------------------------------------------------------------
(* Who notifies *)

\* A job the reaper left alone is told no other status than the one it ended
\* with, whatever else fails, and is told it once (awx/main/tasks/system.py:437,
\* events_processed_hook).  A job that ran again after an exceeded quota may be
\* told it again: the wrapup events of both runs count
\* (awx/main/tasks/receptor.py:539).
OneTrueNotification ==
  \A j \in Jobs : "reaped" \notin mishaps[j] =>
    /\ \A i \in DOMAIN sent[j] : status[j] \in Final /\ sent[j][i] = status[j]
    /\ runs[j] = 1 => Len(sent[j]) <= 1

\* Nothing about the job is left to do.
Quiet(j) ==
  /\ worker[j] \in {"idle", "done", "dead"}
  /\ status[j] \in Final
  /\ reaping[j] \notin {"read", "written"}
  /\ j \notin Of(queue)
  /\ \A r \in Receivers : j \notin Of(buffer[r] \cup saved[r] \cup hooking[r])

\* Each of the two never leaves the notification to the other by mistake:
\* a job that ended without one lost its event, lost its worker, or had its
\* status saved without the lock.
NobodyForgets ==
  \A j \in Jobs : Quiet(j) /\ sent[j] = <<>> =>
    mishaps[j] \cap {"lost", "died", "unlocked"} # {}

\* Every job is notified in the end but for the same three reasons.
EventuallyNotified ==
  \A j \in Jobs : <>(sent[j] # <<>> \/ mishaps[j] \cap {"lost", "died", "unlocked"} # {})
=============================================================================
