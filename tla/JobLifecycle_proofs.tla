------------------------- MODULE JobLifecycle_proofs -------------------------
(***************************************************************************)
(* For any jobs, nodes, runs and faults: at most one run of a job at a     *)
(* time, an answered cancellation reaches it, and a job that is over stays *)
(* over.                                                                   *)
(*                                                                         *)
(* The invariant follows the one permission to run a job: it lies with the *)
(* task manager while the job is pending, with the row while it is         *)
(* waiting, then in the list of one dispatch, then in one run.             *)
(***************************************************************************)
EXTENDS JobLifecycle, TLAPS

Pcs == {"free", "queued", "marking", "preparing", "canceling", "starting", "executing", "ending"}
RunType == [pc : Pcs, job : Jobs, node : Nodes, task : TaskIds,
            flag : BOOLEAN, over : BOOLEAN, signal : BOOLEAN, outcome : Status]
PassType == [busy : BOOLEAN, pending : SUBSET Jobs, flagged : SUBSET Jobs, stamped : SUBSET Jobs]
DispatchType == [todo : SUBSET Submissions, marking : SUBSET Jobs]
ReaperType == [pc : {"idle", "listed", "reaping"}, of : Nodes, active : SUBSET Submissions,
               victims : SUBSET Jobs, saving : SUBSET Jobs]
CancelType == [pc : {"no", "read", "flagged", "done"}, task : TaskIds, running : BOOLEAN]

RowTyped ==
  /\ status \in [Jobs -> Status]
  /\ cancelFlag \in [Jobs -> BOOLEAN]
  /\ started \in [Jobs -> BOOLEAN]
  /\ node \in [Jobs -> Nodes \cup {"none"}]
  /\ task \in [Jobs -> TaskIds]
RunTyped == run \in [Runs -> RunType]
DispatchTyped == dispatch \in [Nodes -> DispatchType]
ReaperTyped == reaper \in [Nodes -> ReaperType] /\ starting \in SUBSET Nodes
RestTyped ==
  /\ tm \in PassType
  /\ cancel \in [Jobs -> CancelType]
  /\ faults \in 0 .. MaxFaults
  /\ doubted \in SUBSET Jobs
Typed == RowTyped /\ RunTyped /\ DispatchTyped /\ ReaperTyped /\ RestTyped

LEMMA TypedIsTypeOK == Typed <=> TypeOK
BY DEF Typed, TypeOK, RowTyped, RunTyped, DispatchTyped, ReaperTyped, RestTyped, RunType, Pcs,
       PassType, DispatchType, ReaperType, CancelType

-----------------------------------------------------------------------------
(* Types of what the actions write.                                        *)

LEMMA Bounds == MaxFaults \in Nat /\ MaxStarts \in Nat /\ 0 \in TaskIds
BY BoundsAssumption DEF TaskIds

LEMMA NoRunTyped == NoRun \in RunType
<1>1. (CHOOSE j \in Jobs : TRUE) \in Jobs /\ (CHOOSE n \in Nodes : TRUE) \in Nodes
  BY NonemptyAssumption
<1> QED  BY <1>1, Bounds DEF NoRun, RunType, Pcs, Status, Final

LEMMA IdleTyped ==
  ASSUME NEW n \in Nodes
  PROVE  Idle(n) \in ReaperType
BY DEF Idle, ReaperType

LEMMA ReaperFields ==
  ASSUME NEW h \in ReaperType
  PROVE  /\ \A A \in SUBSET Submissions : [h EXCEPT !.pc = "listed", !.active = A] \in ReaperType
         /\ \A V \in SUBSET Jobs : /\ [h EXCEPT !.pc = "reaping", !.victims = V] \in ReaperType
                                   /\ [h EXCEPT !.victims = V] \in ReaperType
         /\ \A V, W \in SUBSET Jobs : [h EXCEPT !.victims = V, !.saving = W] \in ReaperType
BY DEF ReaperType

LEMMA FaultTyped == RestTyped /\ (\E kind \in Faults : Fault(kind)) => faults' \in 0 .. MaxFaults
BY Bounds DEF RestTyped, Fault

LEMMA SetStatusTyped ==
  ASSUME RowTyped, NEW j \in Jobs, NEW st \in Status, SetStatus(j, st)
  PROVE  status' \in [Jobs -> Status]
BY DEF RowTyped, SetStatus

LEMMA SetRunTyped ==
  ASSUME RunTyped, NEW r \in Runs, NEW f \in RunType, SetRun(r, f)
  PROVE  RunTyped'
BY DEF RunTyped, SetRun

LEMMA RunFields ==
  ASSUME NEW f \in RunType, NEW pc \in Pcs
  PROVE  /\ [f EXCEPT !.pc = pc] \in RunType
         /\ \A st \in Status : [f EXCEPT !.pc = pc, !.outcome = st] \in RunType
         /\ \A a, b \in BOOLEAN : [f EXCEPT !.flag = a, !.over = b] \in RunType
         /\ \A a \in BOOLEAN : [f EXCEPT !.signal = a] \in RunType
BY DEF RunType

LEMMA StampTyped ==
  ASSUME RowTyped, NEW j \in Jobs, Stamp(j)
  PROVE  started' \in [Jobs -> BOOLEAN]
BY DEF RowTyped, Stamp

LEMMA SetReaperTyped ==
  ASSUME ReaperTyped, NEW n \in Nodes, NEW h \in ReaperType, SetReaper(n, h)
  PROVE  reaper' \in [Nodes -> ReaperType]
BY DEF ReaperTyped, SetReaper

LEMMA DoubtTyped ==
  ASSUME RestTyped, NEW S \in SUBSET Jobs, Doubt(S)
  PROVE  doubted' \in SUBSET Jobs
BY DEF RestTyped, Doubt

LEMMA TmTyped == Typed /\ TmNext => Typed'
<1> SUFFICES ASSUME Typed, TmNext  PROVE Typed'
  OBVIOUS
<1>1. CASE TmFetch
  <2>1. tm' \in PassType
    BY <1>1 DEF TmFetch, PassType
  <2> QED  BY <1>1, <2>1 DEF TmFetch, Typed, RowTyped, RunTyped, DispatchTyped, ReaperTyped,
              RestTyped, rowVars, nodeVars
<1>2. ASSUME NEW d, TmCommit(d)  PROVE Typed'
  <2> DEFINE To(S) == {j \in tm.pending : d[j] \in S}
             saved == To(Nodes \cup {"refused"})
  <2>1. /\ status' = [j \in Jobs |-> CASE j \in To({"canceled"}) -> "canceled"
                                       [] j \in To({"refused"}) -> "failed"
                                       [] j \in To(Nodes) -> "waiting"
                                       [] OTHER -> status[j]]
        /\ cancelFlag' = [j \in Jobs |-> IF j \in saved THEN j \in tm.flagged
                                                        ELSE cancelFlag[j]]
        /\ started' = [j \in Jobs |-> IF j \in saved THEN j \in tm.stamped
                                                     ELSE started[j]]
        /\ node' = [j \in Jobs |-> IF j \in To(Nodes) THEN d[j] ELSE node[j]]
        /\ task' = [j \in Jobs |-> IF j \in To(Nodes) THEN task[j] + 1 ELSE task[j]]
        /\ tm' = NoPass
        /\ \A j \in tm.pending : d[j] \in Nodes => task[j] < MaxStarts
        /\ UNCHANGED <<nodeVars, cancel, faults, doubted>>
    BY <1>2 DEF TmCommit
  <2>2. \A j \in Jobs : j \in To(Nodes) => d[j] \in Nodes /\ task[j] < MaxStarts
    BY <2>1
  <2> HIDE DEF To, saved
  <2>3. status' \in [Jobs -> Status]
    BY <2>1 DEF Typed, RowTyped, Status, Final
  <2>4. /\ cancelFlag' \in [Jobs -> BOOLEAN] /\ started' \in [Jobs -> BOOLEAN]
        /\ node' \in [Jobs -> Nodes \cup {"none"}]
    <3>1. /\ \A j \in Jobs : cancelFlag[j] \in BOOLEAN
          /\ \A j \in Jobs : started[j] \in BOOLEAN
      BY DEF Typed, RowTyped
    <3>2. \A j : (j \in tm.flagged) \in BOOLEAN /\ (j \in tm.stamped) \in BOOLEAN
      OBVIOUS
    <3>3. cancelFlag' \in [Jobs -> BOOLEAN]
      BY <2>1, <3>1, <3>2, Zenon
    <3>4. started' \in [Jobs -> BOOLEAN]
      BY <2>1, <3>1, <3>2, Zenon
    <3>5. node' \in [Jobs -> Nodes \cup {"none"}]
      BY <2>1, <2>2 DEF Typed, RowTyped
    <3> QED  BY <3>3, <3>4, <3>5
  <2>5. task' \in [Jobs -> TaskIds]
    BY <2>1, <2>2, Bounds DEF Typed, RowTyped, TaskIds
  <2>6. NoPass \in PassType
    BY DEF NoPass, PassType
  <2> QED  BY <2>1, <2>3, <2>4, <2>5, <2>6 DEF Typed, RowTyped, RunTyped, DispatchTyped,
              ReaperTyped, RestTyped, nodeVars
<1> QED  BY <1>1, <1>2 DEF TmNext, TmCommits

LEMMA DispatchNextTyped ==
  ASSUME Typed, NEW n \in Nodes, DispatchNext(n) \/ DispatchDies(n)
  PROVE  Typed'
<1> USE DEF Typed
<1>0. NoDispatch \in DispatchType
  BY DEF NoDispatch, DispatchType
<1>1. CASE DispatchLists(n)
  <2> DEFINE todo == {<<j, task[j]>> : j \in {j \in Jobs : status[j] = "waiting" /\ node[j] = n}}
  <2>1. SetDispatch(n, [NoDispatch EXCEPT !.todo = todo])
        /\ UNCHANGED <<rowVars, tm, run, reaper, starting, cancel, faults, doubted>>
    BY <1>1 DEF DispatchLists
  <2>2. todo \subseteq Submissions
    BY DEF RowTyped, Submissions
  <2> HIDE DEF todo
  <2>3. [NoDispatch EXCEPT !.todo = todo] \in DispatchType
    BY <2>2, <1>0 DEF DispatchType
  <2>4. DispatchTyped'
    BY <2>1, <2>3 DEF SetDispatch, DispatchTyped
  <2> QED  BY <2>1, <2>4 DEF RowTyped, RunTyped, ReaperTyped, RestTyped, rowVars
<1>2. ASSUME NEW r \in Runs, DispatchSubmits(n, r)  PROVE Typed'
  <2>1. PICK s \in dispatch[n].todo :
           /\ run' = [run EXCEPT ![r] = [NoRun EXCEPT !.pc = "queued", !.job = s[1],
                                                      !.node = n, !.task = s[2]]]
           /\ SetDispatch(n, [todo |-> dispatch[n].todo \ {s}, marking |-> {s[1]}])
    BY <1>2 DEF DispatchSubmits
  <2>2. dispatch[n] \in DispatchType
    BY DEF DispatchTyped
  <2>3. s[1] \in Jobs /\ s[2] \in TaskIds
    BY <2>2 DEF DispatchType, Submissions
  <2>4. [NoRun EXCEPT !.pc = "queued", !.job = s[1], !.node = n, !.task = s[2]] \in RunType
    BY <2>3, NoRunTyped DEF RunType, Pcs
  <2>5. [todo |-> dispatch[n].todo \ {s}, marking |-> {s[1]}] \in DispatchType
    BY <2>2, <2>3 DEF DispatchType
  <2>6. RunTyped' /\ DispatchTyped'
    BY <2>1, <2>4, <2>5 DEF SetDispatch, RunTyped, DispatchTyped
  <2> QED  BY <1>2, <2>6 DEF DispatchSubmits, RowTyped, ReaperTyped, RestTyped, rowVars
<1>3. CASE DispatchMarks(n)
  <2>1. dispatch[n] \in DispatchType
    BY DEF DispatchTyped
  <2>2. dispatch[n].marking \subseteq Jobs /\ [dispatch[n] EXCEPT !.marking = {}] \in DispatchType
    BY <2>1 DEF DispatchType
  <2>3. status' \in [Jobs -> Status]
    BY <1>3, <2>2 DEF DispatchMarks, SetStatus, RowTyped, Status
  <2>4. DispatchTyped'
    BY <1>3, <2>2 DEF DispatchMarks, SetDispatch, DispatchTyped
  <2> QED  BY <1>3, <2>3, <2>4 DEF DispatchMarks, RowTyped, RunTyped, ReaperTyped, RestTyped
<1>4. CASE DispatchDies(n)
  <2>1. DispatchTyped'
    BY <1>4, <1>0 DEF DispatchDies, SetDispatch, DispatchTyped
  <2>2. \A j \in dispatch[n].marking : j \in Jobs
    BY DEF DispatchTyped, DispatchType
  <2>3. doubted' \subseteq Jobs
    BY <1>4, <2>2 DEF DispatchDies, Doubt, RestTyped
  <2>4. faults' \in 0 .. MaxFaults
    BY <1>4, FaultTyped DEF DispatchDies, Fault
  <2> QED  BY <1>4, <2>1, <2>3, <2>4 DEF DispatchDies, RowTyped, RunTyped, ReaperTyped, RestTyped,
              rowVars
<1> QED  BY <1>1, <1>2, <1>3, <1>4 DEF DispatchNext

LEMMA RunNextTyped ==
  ASSUME Typed, NEW r \in Runs,
         RunNext(r) \/ RunSaves(r) \/ RunOverQuota(r) \/ RunDies(r)
  PROVE  Typed'
<1> DEFINE j == run[r].job
<1> USE DEF Typed
<1>1. run[r] \in RunType /\ j \in Jobs
  BY DEF RunTyped, RunType
<1>2. \A pc \in Pcs : [run[r] EXCEPT !.pc = pc] \in RunType
  BY <1>1, RunFields
<1>3. \A pc \in Pcs, st \in Status : [run[r] EXCEPT !.pc = pc, !.outcome = st] \in RunType
  BY <1>1, RunFields
<1>4. \A flag : Begin(r, flag) \in RunType
  BY <1>2 DEF Begin, Pcs
<1> HIDE DEF j
<1>5. \A pc : pc \in Pcs <=> pc \in {"free", "queued", "marking", "preparing", "canceling",
                                     "starting", "executing", "ending"}
  BY DEF Pcs
<1>6. Final \subseteq Status /\ {"pending", "waiting", "running"} \subseteq Status
  BY DEF Status
<1>7. CASE RunReads(r)
  <2>1. RunTyped'
    <3>1. PICK f \in {[run[r] EXCEPT !.pc = "marking"], Begin(r, cancelFlag[j]), NoRun} :
             SetRun(r, f)
      BY <1>7 DEF RunReads, j
    <3>2. f \in RunType
      BY <3>1, <1>2, <1>4, <1>5, NoRunTyped
    <3> QED  BY <3>1, <3>2, SetRunTyped
  <2> QED  BY <1>7, <2>1 DEF RunReads, RowTyped, DispatchTyped, ReaperTyped, RestTyped, rowVars
<1>8. CASE RunMarks(r)
  <2>1. RunTyped' /\ status' \in [Jobs -> Status]
    BY <1>1, <1>4, <1>6, <1>8, SetRunTyped, SetStatusTyped DEF RunMarks, j
  <2> QED  BY <1>8, <2>1 DEF RunMarks, RowTyped, DispatchTyped, ReaperTyped, RestTyped
<1>9. CASE RunCancels(r)
  <2>1. RunTyped' /\ status' \in [Jobs -> Status]
    BY <1>1, <1>6, <1>9, NoRunTyped, SetRunTyped, SetStatusTyped DEF RunCancels, j, Final
  <2> QED  BY <1>9, <2>1 DEF RunCancels, RowTyped, DispatchTyped, ReaperTyped, RestTyped
<1>10. CASE RunSaves(r)
  <2>1. cancelFlag[j] \in BOOLEAN /\ (status[j] # "running") \in BOOLEAN
    BY <1>1 DEF RowTyped
  <2>2. [run[r] EXCEPT !.flag = cancelFlag[j], !.over = (status[j] # "running")] \in RunType
    BY <1>1, <2>1 DEF RunType
  <2>3. RunTyped'
    BY <1>10, <2>2, SetRunTyped DEF RunSaves, j
  <2>4. started' \in [Jobs -> BOOLEAN]
    BY <1>1, <1>10, StampTyped DEF RunSaves, j
  <2> QED  BY <1>10, <2>3, <2>4 DEF RunSaves, RowTyped, DispatchTyped, ReaperTyped, RestTyped
<1>11. CASE RunRefuses(r)
  <2>1. RunTyped'
    BY <1>3, <1>5, <1>6, <1>11, SetRunTyped DEF RunRefuses, Final
  <2>2. status' \in [Jobs -> Status]
    BY <1>1, <1>6, <1>11, SetStatusTyped DEF RunRefuses, RowTyped, j, Final
  <2> QED  BY <1>11, <2>1, <2>2 DEF RunRefuses, RowTyped, DispatchTyped, ReaperTyped, RestTyped
<1>12. CASE RunPrepared(r)
  <2>1. status[j] \in Status
    BY <1>1 DEF RowTyped
  <2>2. PICK f \in {[run[r] EXCEPT !.pc = "ending", !.outcome = "canceled"],
                    [run[r] EXCEPT !.pc = "ending", !.outcome = status[j]],
                    [run[r] EXCEPT !.pc = "starting"]} : SetRun(r, f)
    BY <1>12 DEF RunPrepared, j
  <2>3. {"ending", "starting"} \subseteq Pcs /\ "canceled" \in Status
    BY <1>6 DEF Pcs, Final
  <2>a. [run[r] EXCEPT !.pc = "starting"] \in RunType
    BY <1>2, <2>3
  <2>b. /\ [run[r] EXCEPT !.pc = "ending", !.outcome = "canceled"] \in RunType
        /\ [run[r] EXCEPT !.pc = "ending", !.outcome = status[j]] \in RunType
    BY <1>3, <2>1, <2>3
  <2>c. f \in RunType
    BY <2>2, <2>a, <2>b
  <2>4. RunTyped'
    BY <2>2, <2>c, SetRunTyped
  <2>5. status' \in [Jobs -> Status]
    BY <1>1, <1>6, <1>12, SetStatusTyped DEF RunPrepared, RowTyped, j, Final
  <2> QED  BY <1>12, <2>4, <2>5 DEF RunPrepared, RowTyped, DispatchTyped, ReaperTyped, RestTyped
<1>13. CASE RunStarts(r)
  <2>1. RunTyped'
    BY <1>2, <1>5, <1>13, SetRunTyped DEF RunStarts, Goes
  <2>2. started' \in [Jobs -> BOOLEAN]
    BY <1>1, <1>13, StampTyped DEF RunStarts, j
  <2> QED  BY <1>13, <2>1, <2>2 DEF RunStarts, RowTyped, DispatchTyped, ReaperTyped, RestTyped
<1>14. CASE RunEnds(r)
  <2>1. PICK st \in Status : SetRun(r, [run[r] EXCEPT !.pc = "ending", !.outcome = st])
    BY <1>14 DEF RunEnds, Status, Final
  <2>2. RunTyped'
    BY <1>3, <1>5, <2>1, SetRunTyped
  <2> QED  BY <1>14, <2>2 DEF RunEnds, RowTyped, DispatchTyped, ReaperTyped, RestTyped, rowVars
<1>15. CASE RunSavesStatus(r)
  <2>1. run[r].outcome \in Status
    BY <1>1 DEF RunType
  <2>2. RunTyped' /\ status' \in [Jobs -> Status]
    BY <1>1, <1>15, <2>1, NoRunTyped, SetRunTyped, SetStatusTyped DEF RunSavesStatus, j
  <2> QED  BY <1>15, <2>2 DEF RunSavesStatus, RowTyped, DispatchTyped, ReaperTyped, RestTyped
<1>16. CASE RunOverQuota(r)
  <2>1. RunTyped' /\ status' \in [Jobs -> Status]
    BY <1>1, <1>6, <1>16, NoRunTyped, SetRunTyped, SetStatusTyped DEF RunOverQuota, j
  <2>2. faults' \in 0 .. MaxFaults
    BY <1>16, FaultTyped DEF RunOverQuota, Fault
  <2> QED  BY <1>16, <2>1, <2>2 DEF RunOverQuota, RowTyped, DispatchTyped, ReaperTyped, RestTyped
<1>17. CASE RunDies(r)
  <2>1. RunTyped'
    BY <1>17, NoRunTyped, SetRunTyped DEF RunDies
  <2>2. faults' \in 0 .. MaxFaults
    BY <1>17, FaultTyped DEF RunDies, Fault
  <2> QED  BY <1>17, <2>1, <2>2 DEF RunDies, RowTyped, DispatchTyped, ReaperTyped, RestTyped,
              rowVars
<1> QED  BY <1>7, <1>8, <1>9, <1>10, <1>11, <1>12, <1>13, <1>14, <1>15, <1>16, <1>17 DEF RunNext

LEMMA CancelNextTyped ==
  ASSUME Typed, NEW j \in Jobs, CancelNext(j)
  PROVE  Typed'
<1> USE DEF Typed
<1>1. cancel[j] \in CancelType /\ task[j] \in TaskIds
  BY DEF RestTyped, RowTyped
<1>2. CASE CancelReads(j)
  <2>1. [pc |-> "read", task |-> task[j], running |-> status[j] = "running"] \in CancelType
    BY <1>1 DEF CancelType
  <2>2. cancel' \in [Jobs -> CancelType]
    BY <1>2, <2>1 DEF CancelReads, RestTyped
  <2> QED  BY <1>2, <2>2 DEF CancelReads, RowTyped, RunTyped, DispatchTyped, ReaperTyped, RestTyped,
              rowVars, nodeVars
<1>3. CASE CancelSaves(j)
  <2>1. [cancel[j] EXCEPT !.pc = "flagged"] \in CancelType
    BY <1>1 DEF CancelType
  <2>2. cancel' \in [Jobs -> CancelType]
    BY <1>3, <2>1 DEF CancelSaves, RestTyped
  <2>3. cancelFlag' \in [Jobs -> BOOLEAN]
    BY <1>3 DEF CancelSaves, RowTyped
  <2>4. started' \in [Jobs -> BOOLEAN]
    BY <1>3 DEF CancelSaves, RowTyped
  <2> QED  BY <1>3, <2>2, <2>3, <2>4 DEF CancelSaves, RowTyped, RunTyped, DispatchTyped,
              ReaperTyped, RestTyped, nodeVars
<1>4. CASE CancelSignals(j)
  <2>1. [cancel[j] EXCEPT !.pc = "done"] \in CancelType
    BY <1>1 DEF CancelType
  <2>2. cancel' \in [Jobs -> CancelType]
    BY <1>4, <2>1 DEF CancelSignals, RestTyped
  <2>3. ASSUME NEW r \in Runs
        PROVE  [run[r] EXCEPT !.signal = @ \/ (Begun(r) /\ Alive(r, j) /\ run[r].task = CancelId(j))]
                 \in RunType
    <3> DEFINE b == run[r].signal \/ (Begun(r) /\ Alive(r, j) /\ run[r].task = CancelId(j))
    <3>1. b \in BOOLEAN
      OBVIOUS
    <3> HIDE DEF b
    <3>2. run[r] \in RunType
      BY DEF RunTyped
    <3>3. [run[r] EXCEPT !.signal = b] \in RunType
      BY <3>1, <3>2, RunFields DEF RunType
    <3> QED  BY <3>3 DEF b
  <2>4. RunTyped'
    BY <1>4, <2>3 DEF CancelSignals, RunTyped
  <2> QED  BY <1>4, <2>2, <2>4 DEF CancelSignals, RowTyped, DispatchTyped, ReaperTyped, RestTyped,
              rowVars
<1> QED  BY <1>2, <1>3, <1>4 DEF CancelNext

LEMMA ReaperNextTyped ==
  ASSUME Typed, NEW n \in Nodes,
         ReaperNext(n) \/ StartupSelects(n) \/ NodeRestarts(n) \/ (\E m \in Nodes : LostSelects(m, n))
  PROVE  Typed'
<1> USE DEF Typed
<1>1. reaper[n] \in ReaperType
  BY DEF ReaperTyped
<1>2. \A m : RunningAt(m) \subseteq Jobs
  BY DEF RunningAt
<1>3. \A m \in Nodes, V \in SUBSET Jobs :
         [Idle(m) EXCEPT !.pc = "reaping", !.victims = V] \in ReaperType
  BY IdleTyped, ReaperFields
<1>4. CASE HeartbeatLists(n)
  <2> DEFINE active == {<<run[r].job, run[r].task>> : r \in {r \in Runs :
                           run[r].pc # "free" /\ run[r].node = n}}
  <2>1. active \subseteq Submissions
    BY DEF RunTyped, RunType, Submissions
  <2> HIDE DEF active
  <2>2. [Idle(n) EXCEPT !.pc = "listed", !.active = active] \in ReaperType
    BY <2>1, IdleTyped, ReaperFields
  <2>3. SetReaper(n, [Idle(n) EXCEPT !.pc = "listed", !.active = active])
    BY <1>4 DEF HeartbeatLists, active
  <2>4. reaper' \in [Nodes -> ReaperType]
    BY <2>2, <2>3, SetReaperTyped
  <2> QED  BY <1>4, <2>4 DEF HeartbeatLists, ReaperUnchanged, RowTyped, RunTyped, DispatchTyped,
              ReaperTyped, RestTyped, rowVars
<1>5. CASE HeartbeatSelects(n)
  <2> DEFINE victims == {j \in RunningAt(n) : started[j] /\ <<j, task[j]>> \notin reaper[n].active}
  <2>1. PICK h \in {Idle(n), [Idle(n) EXCEPT !.pc = "reaping", !.victims = victims]} :
           SetReaper(n, h)
    BY <1>5 DEF HeartbeatSelects
  <2>2. victims \in SUBSET Jobs
    BY <1>2
  <2> HIDE DEF victims
  <2>3. h \in ReaperType
    BY <1>3, <2>1, <2>2, IdleTyped
  <2>4. reaper' \in [Nodes -> ReaperType]
    BY <2>1, <2>3, SetReaperTyped
  <2> QED  BY <1>5, <2>4 DEF HeartbeatSelects, ReaperUnchanged, RowTyped, RunTyped, DispatchTyped,
              ReaperTyped, RestTyped, rowVars
<1>6. ASSUME NEW j \in Jobs, ReaperRefreshes(n, j)  PROVE Typed'
  <2>1. PICK h \in {[reaper[n] EXCEPT !.victims = @ \ {j}, !.saving = {j}],
                    [reaper[n] EXCEPT !.victims = @ \ {j}]} : SetReaper(n, h)
    BY <1>6 DEF ReaperRefreshes
  <2>2. reaper[n].victims \ {j} \in SUBSET Jobs /\ {j} \in SUBSET Jobs
    BY <1>1 DEF ReaperType
  <2>a. /\ [reaper[n] EXCEPT !.victims = reaper[n].victims \ {j}, !.saving = {j}] \in ReaperType
        /\ [reaper[n] EXCEPT !.victims = reaper[n].victims \ {j}] \in ReaperType
    <3> DEFINE V == reaper[n].victims \ {j}
               W == {j}
    <3> HIDE DEF V, W
    <3>1. V \in SUBSET Jobs /\ W \in SUBSET Jobs
      BY <2>2 DEF V, W
    <3>2. /\ [reaper[n] EXCEPT !.victims = V, !.saving = W] \in ReaperType
          /\ [reaper[n] EXCEPT !.victims = V] \in ReaperType
      BY <1>1, <3>1, ReaperFields
    <3> QED  BY <3>2 DEF V, W
  <2>b. h \in ReaperType
    BY <2>1, <2>a
  <2>3. reaper' \in [Nodes -> ReaperType]
    BY <2>1, <2>b, SetReaperTyped
  <2>4. doubted' \in SUBSET Jobs
    BY <1>6, DoubtTyped DEF ReaperRefreshes, RestTyped
  <2> QED  BY <1>6, <2>3, <2>4 DEF ReaperRefreshes, ReaperUnchanged, RowTyped, RunTyped,
              DispatchTyped, ReaperTyped, RestTyped, rowVars
<1>7. ASSUME NEW j \in Jobs, ReaperSaves(n, j)  PROVE Typed'
  <2>1. [reaper[n] EXCEPT !.saving = {}] \in ReaperType
    BY <1>1 DEF ReaperType
  <2>2. reaper' \in [Nodes -> ReaperType]
    BY <1>7, <2>1, SetReaperTyped DEF ReaperSaves
  <2>3. status' \in [Jobs -> Status]
    BY <1>7, SetStatusTyped DEF ReaperSaves, Status, Final
  <2> QED  BY <1>7, <2>2, <2>3 DEF ReaperSaves, RowTyped, RunTyped, DispatchTyped, ReaperTyped,
              RestTyped
<1>8. CASE ReaperEnds(n)
  <2> DEFINE lost == reaper[n].of
             back == {j \in Jobs : lost # n /\ status[j] = "waiting" /\ node[j] = lost}
  <2>1. /\ status' = [j \in Jobs |-> IF j \in back THEN "pending" ELSE status[j]]
        /\ node' = [j \in Jobs |-> IF j \in back THEN "none" ELSE node[j]]
        /\ doubted' \subseteq doubted \cup back
        /\ SetReaper(n, Idle(n))
        /\ UNCHANGED <<cancelFlag, started, task, tm, dispatch, run, starting, cancel, faults>>
    BY <1>8 DEF ReaperEnds
  <2>2. back \subseteq Jobs
    OBVIOUS
  <2> HIDE DEF back
  <2>3. status' \in [Jobs -> Status] /\ node' \in [Jobs -> Nodes \cup {"none"}]
    BY <2>1 DEF RowTyped, Status
  <2>4. reaper' \in [Nodes -> ReaperType]
    BY <2>1, IdleTyped, SetReaperTyped
  <2> QED  BY <2>1, <2>2, <2>3, <2>4 DEF RowTyped, RunTyped, DispatchTyped, ReaperTyped, RestTyped
<1>9. ASSUME NEW m \in Nodes, LostSelects(m, n)  PROVE Typed'
  <2>1. reaper' \in [Nodes -> ReaperType]
    BY <1>2, <1>3, <1>9, SetReaperTyped DEF LostSelects
  <2>2. faults' \in 0 .. MaxFaults
    BY <1>9, FaultTyped DEF LostSelects, Fault
  <2> QED  BY <1>9, <2>1, <2>2 DEF LostSelects, ReaperUnchanged, RowTyped, RunTyped, DispatchTyped,
              ReaperTyped, RestTyped, rowVars
<1>10. CASE StartupSelects(n)
  <2>1. reaper' \in [Nodes -> ReaperType]
    BY <1>2, <1>3, <1>10, SetReaperTyped DEF StartupSelects
  <2> QED  BY <1>10, <2>1 DEF StartupSelects, ReaperUnchanged, RowTyped, RunTyped, DispatchTyped,
              ReaperTyped, RestTyped, rowVars
<1>11. CASE NodeRestarts(n)
  <2>1. RunTyped'
    BY <1>11, NoRunTyped DEF NodeRestarts, RunTyped
  <2>2. DispatchTyped'
    BY <1>11 DEF NodeRestarts, SetDispatch, DispatchTyped, NoDispatch, DispatchType
  <2>3. reaper' \in [Nodes -> ReaperType]
    BY <1>11, IdleTyped, SetReaperTyped DEF NodeRestarts
  <2>4. faults' \in 0 .. MaxFaults
    BY <1>11, FaultTyped DEF NodeRestarts, Fault
  <2> QED  BY <1>11, <2>1, <2>2, <2>3, <2>4 DEF NodeRestarts, RowTyped, ReaperTyped, RestTyped,
              rowVars
<1> QED  BY <1>4, <1>5, <1>6, <1>7, <1>8, <1>9, <1>10, <1>11 DEF ReaperNext

LEMMA StepTyped == Typed /\ [Next]_vars => Typed'
<1> SUFFICES ASSUME Typed, [Next]_vars  PROVE Typed'
  OBVIOUS
<1>1. CASE UNCHANGED vars
  BY <1>1 DEF vars, rowVars, nodeVars, Typed, RowTyped, RunTyped, DispatchTyped, ReaperTyped,
     RestTyped
<1>2. CASE Next
  <2>1. ASSUME NEW n \in Nodes,
               \/ DispatchNext(n) \/ DispatchDies(n) \/ ReaperNext(n) \/ StartupSelects(n)
               \/ NodeRestarts(n) \/ \E m \in Nodes : LostSelects(m, n)
        PROVE  Typed'
    BY <2>1, DispatchNextTyped, ReaperNextTyped
  <2>2. ASSUME NEW r \in Runs, RunNext(r) \/ RunSaves(r) \/ RunOverQuota(r) \/ RunDies(r)
        PROVE  Typed'
    BY <2>2, RunNextTyped
  <2>3. ASSUME NEW j \in Jobs, CancelNext(j)  PROVE Typed'
    BY <2>3, CancelNextTyped
  <2> QED  BY <1>2, <2>1, <2>2, <2>3, TmTyped DEF Next
<1> QED  BY <1>1, <1>2

LEMMA InitTyped == Init => Typed
<1> SUFFICES ASSUME Init  PROVE Typed
  OBVIOUS
<1>1. RowTyped
  BY Bounds DEF Init, RowTyped, Status
<1>2. RunTyped
  BY NoRunTyped DEF Init, RunTyped
<1>3. DispatchTyped
  BY DEF Init, DispatchTyped, NoDispatch, DispatchType
<1>4. ReaperTyped
  BY IdleTyped DEF Init, ReaperTyped
<1>5. NoCancel \in CancelType /\ NoPass \in PassType
  BY Bounds DEF NoCancel, CancelType, NoPass, PassType
<1>6. RestTyped
  BY <1>5, Bounds DEF Init, RestTyped
<1> QED  BY <1>1, <1>2, <1>3, <1>4, <1>6 DEF Typed

\* Every variable keeps its type: no fault hands out more task ids than there
\* are, and no statement saves what is not a status.
THEOREM TypeCorrect == Spec => []TypeOK
BY InitTyped, StepTyped, TypedIsTypeOK, PTL DEF Spec
-----------------------------------------------------------------------------
(* One permission to run a job.                                            *)

Young(r) == run[r].pc \in {"queued", "marking"}

\* While a job is listed or runs, the task manager does not have it.
NotInHand(j) == Away(j) => status[j] # "pending" /\ j \notin tm.pending

\* What the task manager has taken for pending nobody lists.
Unlisted(j) == j \in tm.pending => status[j] # "waiting"

\* It is in one list, once, of the node that is to run it.
OneListing(j) ==
  \A n \in Nodes : \A s \in ListedBy(n, j) :
    /\ RunsOf(j) = {} /\ s[2] = task[j]
    /\ status[j] = "waiting" => node[j] = n
    /\ \A m \in Nodes : ListedBy(m, j) # {} => m = n

\* It is in one run, which does not leave it to be listed again.
OneRun(j) ==
  \A r \in RunsOf(j) :
    /\ \A s \in RunsOf(j) : s = r
    /\ run[r].task = task[j]
    /\ run[r].pc = "ending" => run[r].outcome \notin {"pending", "waiting"}
    /\ status[j] = "waiting" =>
         Young(r) /\ run[r].node = node[j] /\ node[j] \in Nodes /\ j \in dispatch[node[j]].marking

Good(j) == NotInHand(j) /\ Unlisted(j) /\ OneListing(j) /\ OneRun(j)

OneMark == \A n \in Nodes : \A i, j \in dispatch[n].marking : i = j

IInv == Typed /\ OneMark /\ \A j \in Jobs \ doubted : Good(j)

\* A step that gives the job to nobody else.
LEMMA Carry ==
  ASSUME NEW j \in Jobs, Good(j), UNCHANGED <<node, task>>,
         status'[j] \in {"waiting", "pending"} => status'[j] = status[j],
         j \in tm'.pending => j \in tm.pending \/ status[j] = "pending",
         \A n \in Nodes : ListedBy(n, j)' \subseteq ListedBy(n, j),
         \A r \in Runs : Alive(r, j)' =>
            /\ Alive(r, j) /\ run'[r].task = run[r].task /\ run'[r].node = run[r].node
            /\ run'[r].pc = "ending" => run'[r].outcome \notin {"pending", "waiting"}
            /\ status'[j] = "waiting" => Young(r)',
         status'[j] = "waiting" /\ node[j] \in Nodes /\ j \in dispatch[node[j]].marking /\ RunsOf(j)' # {}
            => j \in dispatch'[node[j]].marking
  PROVE  Good(j)'
<1>1. RunsOf(j)' \subseteq RunsOf(j)
  BY DEF RunsOf
<1>2. Away(j)' => Away(j)
  BY <1>1 DEF Away
<1>3. NotInHand(j)' /\ Unlisted(j)'
  BY <1>2 DEF Good, NotInHand, Unlisted
<1>4. OneListing(j)'
  <2> SUFFICES ASSUME NEW n \in Nodes, NEW s \in ListedBy(n, j)'
               PROVE  /\ RunsOf(j)' = {} /\ s[2] = task'[j]
                      /\ status'[j] = "waiting" => node'[j] = n
                      /\ \A m \in Nodes : ListedBy(m, j)' # {} => m = n
    BY DEF OneListing
  <2>1. s \in ListedBy(n, j)
    OBVIOUS
  <2>2. /\ RunsOf(j) = {} /\ s[2] = task[j]
        /\ status[j] = "waiting" => node[j] = n
        /\ \A m \in Nodes : ListedBy(m, j) # {} => m = n
    BY <2>1 DEF Good, OneListing
  <2> QED  BY <1>1, <2>2
<1>5. OneRun(j)'
  <2> SUFFICES ASSUME NEW r \in RunsOf(j)'
               PROVE  /\ \A s \in RunsOf(j)' : s = r
                      /\ run'[r].task = task'[j]
                      /\ run'[r].pc = "ending" => run'[r].outcome \notin {"pending", "waiting"}
                      /\ status'[j] = "waiting" =>
                           /\ Young(r)' /\ run'[r].node = node'[j]
                           /\ node'[j] \in Nodes /\ j \in dispatch'[node'[j]].marking
    BY DEF OneRun
  <2>1. r \in Runs /\ Alive(r, j)'
    BY DEF RunsOf
  <2>2. /\ \A s \in RunsOf(j) : s = r
        /\ run[r].task = task[j]
        /\ status[j] = "waiting" =>
             run[r].node = node[j] /\ node[j] \in Nodes /\ j \in dispatch[node[j]].marking
    BY <1>1 DEF Good, OneRun
  <2> QED  BY <1>1, <2>1, <2>2
<1> QED  BY <1>3, <1>4, <1>5 DEF Good

\* A step after which nobody has the job but the row or the task manager.
LEMMA AtHome ==
  ASSUME NEW j \in Jobs, ~ Away(j)', j \in tm'.pending => status'[j] # "waiting"
  PROVE  Good(j)'
BY DEF Away, Good, NotInHand, Unlisted, OneListing, OneRun

\* A step of one run.
LEMMA CarryRun ==
  ASSUME RunTyped, NEW j \in Jobs, Good(j), NEW r \in Runs, NEW f, SetRun(r, f),
         UNCHANGED <<node, task, tm, dispatch>>,
         status'[j] \in {"waiting", "pending"} => status'[j] = status[j],
         f.pc # "free" =>
            /\ run[r].pc # "free"
            /\ f.job = run[r].job /\ f.task = run[r].task /\ f.node = run[r].node,
         f.pc # "free" /\ f.job = j =>
            /\ f.pc = "ending" => f.outcome \notin {"pending", "waiting"}
            /\ status'[j] = "waiting" => f.pc \in {"queued", "marking"}
  PROVE  Good(j)'
<1>1. \A q \in Runs : run'[q] = IF q = r THEN f ELSE run[q]
  BY DEF SetRun, RunTyped
<1>2. \A n \in Nodes : ListedBy(n, j)' \subseteq ListedBy(n, j)
  BY DEF ListedBy
<1>3. ASSUME NEW q \in Runs, Alive(q, j)'
      PROVE  /\ Alive(q, j) /\ run'[q].task = run[q].task /\ run'[q].node = run[q].node
             /\ run'[q].pc = "ending" => run'[q].outcome \notin {"pending", "waiting"}
             /\ status'[j] = "waiting" => Young(q)'
  <2>1. CASE q = r
    BY <1>1, <1>3, <2>1 DEF Alive, Young
  <2>2. CASE q # r
    <3>1. run'[q] = run[q] /\ Alive(q, j)
      BY <1>1, <1>3, <2>2 DEF Alive
    <3>2. q \in RunsOf(j)
      BY <3>1 DEF RunsOf
    <3>3. /\ run[q].pc = "ending" => run[q].outcome \notin {"pending", "waiting"}
          /\ status[j] = "waiting" => Young(q)
      BY <3>2 DEF Good, OneRun
    <3> QED  BY <3>1, <3>3 DEF Young
  <2> QED  BY <2>1, <2>2
<1> QED  BY <1>2, <1>3, Carry

-----------------------------------------------------------------------------
(* Who takes the job from whom.                                            *)

LEMMA TmGood ==
  ASSUME Typed, NEW j \in Jobs, Good(j), TmNext
  PROVE  Good(j)'
<1>1. UNCHANGED <<dispatch, run>>
  BY DEF TmNext, TmFetch, TmCommits, TmCommit, nodeVars
<1>2. RunsOf(j)' = RunsOf(j) /\ (Away(j)' <=> Away(j))
      /\ \A n \in Nodes : ListedBy(n, j)' = ListedBy(n, j)
  BY <1>1 DEF Away, RunsOf, Alive, ListedBy
<1>3. \A r \in Runs : Alive(r, j)' =>
         /\ Alive(r, j) /\ run'[r] = run[r]
         /\ run'[r].pc = "ending" => run'[r].outcome \notin {"pending", "waiting"}
         /\ status[j] = "waiting" => Young(r)'
  BY <1>1 DEF Alive, Young, RunsOf, Good, OneRun
<1>4. CASE TmFetch
  <2>1. UNCHANGED <<status, node, task>> /\ (j \in tm'.pending => status[j] = "pending")
    BY <1>4 DEF TmFetch, rowVars
  <2> QED  BY <1>1, <1>2, <1>3, <2>1, Carry
<1>5. ASSUME NEW d, TmCommit(d)  PROVE Good(j)'
  <2>1. tm'.pending = {}
    BY <1>5 DEF TmCommit, NoPass
  <2>2. CASE j \in tm.pending
    BY <1>2, <2>1, <2>2, AtHome DEF Good, NotInHand
  <2>3. CASE j \notin tm.pending
    <3>1. status'[j] = status[j] /\ node'[j] = node[j] /\ task'[j] = task[j]
      BY <1>5, <2>3 DEF TmCommit
    <3> QED  BY <1>1, <1>2, <1>3, <2>1, <3>1
             DEF Good, NotInHand, Unlisted, OneListing, OneRun, Young
  <2> QED  BY <2>2, <2>3
<1> QED  BY <1>4, <1>5 DEF TmNext, TmCommits

LEMMA ListsGood ==
  ASSUME Typed, NEW j \in Jobs, Good(j), NEW n \in Nodes, DispatchLists(n)
  PROVE  Good(j)'
<1> DEFINE todo == {<<i, task[i]>> : i \in {i \in Jobs : status[i] = "waiting" /\ node[i] = n}}
<1>1. /\ dispatch[n].todo = {} /\ dispatch[n].marking = {}
      /\ dispatch'[n].todo = todo
      /\ \A m \in Nodes : m # n => dispatch'[m] = dispatch[m]
      /\ UNCHANGED <<status, node, task, tm, run>>
  BY DEF DispatchLists, NoDispatch, SetDispatch, Typed, DispatchTyped, rowVars
<1>2. RunsOf(j)' = RunsOf(j)
  BY <1>1 DEF RunsOf, Alive
<1>3. \A m \in Nodes : m # n => ListedBy(m, j)' = ListedBy(m, j)
  BY <1>1 DEF ListedBy
<1>4. CASE status[j] = "waiting" /\ node[j] = n
  <2>1. RunsOf(j) = {}
    BY <1>1, <1>4 DEF Good, OneRun
  <2>2. \A s \in ListedBy(n, j)' : s[1] = j /\ s[2] = task[j]
    BY <1>1 DEF ListedBy
  <2>3. \A m \in Nodes : ListedBy(m, j)' # {} => m = n
    BY <1>3, <1>4 DEF Good, OneListing
  <2>4. OneListing(j)'
    BY <1>1, <1>2, <1>4, <2>1, <2>2, <2>3 DEF OneListing
  <2>5. NotInHand(j)' /\ Unlisted(j)' /\ OneRun(j)'
    BY <1>1, <1>2, <1>4, <2>1 DEF Good, NotInHand, Unlisted, OneRun
  <2> QED  BY <2>4, <2>5 DEF Good
<1>5. CASE ~ (status[j] = "waiting" /\ node[j] = n)
  <2>1. ListedBy(n, j)' = {}
    BY <1>1, <1>5 DEF ListedBy
  <2>2. \A m \in Nodes : ListedBy(m, j)' \subseteq ListedBy(m, j)
    BY <1>3, <2>1
  <2>3. status[j] = "waiting" /\ node[j] \in Nodes => dispatch'[node[j]] = dispatch[node[j]]
    BY <1>1, <1>5
  <2>4. \A r \in Runs : Alive(r, j)' =>
         /\ Alive(r, j) /\ run'[r] = run[r]
         /\ run'[r].pc = "ending" => run'[r].outcome \notin {"pending", "waiting"}
         /\ status[j] = "waiting" => Young(r)'
    BY <1>1 DEF Alive, Young, RunsOf, Good, OneRun
  <2> QED  BY <1>1, <2>2, <2>3, <2>4, Carry
<1> QED  BY <1>4, <1>5

LEMMA SubmitsGood ==
  ASSUME Typed, NEW j \in Jobs, Good(j), NEW n \in Nodes, NEW r \in Runs, DispatchSubmits(n, r)
  PROVE  Good(j)'
<1>1. PICK s \in dispatch[n].todo :
         /\ run' = [run EXCEPT ![r] = [NoRun EXCEPT !.pc = "queued", !.job = s[1],
                                                    !.node = n, !.task = s[2]]]
         /\ SetDispatch(n, [todo |-> dispatch[n].todo \ {s}, marking |-> {s[1]}])
  BY DEF DispatchSubmits
<1>2. /\ dispatch[n].marking = {} /\ run[r].pc = "free"
      /\ UNCHANGED <<status, node, task, tm>>
  BY DEF DispatchSubmits, rowVars
<1>3. /\ dispatch'[n].todo = dispatch[n].todo \ {s} /\ dispatch'[n].marking = {s[1]}
      /\ \A m \in Nodes : m # n => dispatch'[m] = dispatch[m]
  BY <1>1 DEF SetDispatch, Typed, DispatchTyped
<1>4. /\ run'[r].pc = "queued" /\ run'[r].job = s[1] /\ run'[r].node = n /\ run'[r].task = s[2]
      /\ \A q \in Runs : q # r => run'[q] = run[q]
  <2>1. NoRun = [pc |-> NoRun.pc, job |-> NoRun.job, node |-> NoRun.node, task |-> NoRun.task,
                 flag |-> NoRun.flag, over |-> NoRun.over, signal |-> NoRun.signal,
                 outcome |-> NoRun.outcome]
    BY DEF NoRun
  <2> QED  BY <1>1, <2>1 DEF Typed, RunTyped
<1>5. \A m \in Nodes : ListedBy(m, j)' \subseteq ListedBy(m, j)
  BY <1>3 DEF ListedBy
<1>6. CASE j = s[1]
  <2>1. s \in ListedBy(n, j)
    BY <1>6 DEF ListedBy
  <2>2. /\ RunsOf(j) = {} /\ s[2] = task[j]
        /\ status[j] = "waiting" => node[j] = n
        /\ \A m \in Nodes : ListedBy(m, j) # {} => m = n
    BY <2>1 DEF Good, OneListing
  <2>3. ASSUME NEW m \in Nodes, NEW u \in ListedBy(m, j)'  PROVE FALSE
    <3>1. m = n /\ u \in dispatch[n].todo /\ u # s /\ u[1] = j
      BY <1>3, <1>5, <2>2, <2>3 DEF ListedBy
    <3>2. u \in ListedBy(n, j)
      BY <3>1 DEF ListedBy
    <3>3. u[2] = task[j]
      BY <3>2 DEF Good, OneListing
    <3>4. u \in Submissions /\ s \in Submissions
      BY <3>1 DEF Typed, DispatchTyped, DispatchType
    <3> QED  BY <1>6, <2>2, <3>1, <3>3, <3>4 DEF Submissions
  <2>4. \A q \in RunsOf(j)' : q = r
    BY <1>4, <2>2 DEF RunsOf, Alive
  <2>5. Away(j)
    BY <2>1 DEF Away
  <2>6. NotInHand(j)' /\ Unlisted(j)'
    BY <1>2, <2>5 DEF Good, NotInHand, Unlisted
  <2>7. OneListing(j)'
    BY <2>3 DEF OneListing
  <2>8. OneRun(j)'
    BY <1>2, <1>3, <1>4, <1>6, <2>2, <2>4 DEF OneRun, Young
  <2> QED  BY <2>6, <2>7, <2>8 DEF Good
<1>7. CASE j # s[1]
  <2>1. \A q \in Runs : Alive(q, j)' =>
         /\ Alive(q, j) /\ run'[q] = run[q]
         /\ run'[q].pc = "ending" => run'[q].outcome \notin {"pending", "waiting"}
         /\ status[j] = "waiting" => Young(q)'
    BY <1>4, <1>7 DEF Alive, Young, RunsOf, Good, OneRun
  <2>2. node[j] \in Nodes /\ j \in dispatch[node[j]].marking => j \in dispatch'[node[j]].marking
    BY <1>2, <1>3
  <2> QED  BY <1>2, <1>5, <2>1, <2>2, Carry
<1> QED  BY <1>6, <1>7

LEMMA MarksGood ==
  ASSUME Typed, OneMark, NEW j \in Jobs \ doubted', Good(j), NEW n \in Nodes,
         DispatchMarks(n) \/ DispatchDies(n)
  PROVE  Good(j)'
<1>1. /\ dispatch'[n].todo \subseteq dispatch[n].todo
      /\ \A m \in Nodes : m # n => dispatch'[m] = dispatch[m]
      /\ UNCHANGED <<node, task, tm, run>>
  BY DEF DispatchMarks, DispatchDies, SetDispatch, NoDispatch, Typed, DispatchTyped, DispatchType,
     rowVars
<1>2. \A m \in Nodes : ListedBy(m, j)' \subseteq ListedBy(m, j)
  BY <1>1 DEF ListedBy
<1>3. /\ status'[j] \in {"waiting", "pending"} => status'[j] = status[j]
      /\ status'[j] = "waiting" /\ node[j] \in Nodes /\ j \in dispatch[node[j]].marking
           => node[j] # n
  <2>1. CASE DispatchMarks(n)
    <3>1. PICK i \in dispatch[n].marking :
             IF status[i] = "waiting" THEN SetStatus(i, "running") ELSE UNCHANGED status
      BY <2>1 DEF DispatchMarks
    <3>2. i \in Jobs
      BY DEF Typed, DispatchTyped, DispatchType
    <3>3. \A k \in Jobs : status'[k] = IF k = i /\ status[i] = "waiting" THEN "running" ELSE status[k]
      BY <3>1, <3>2 DEF SetStatus, Typed, RowTyped
    <3>4. j \in dispatch[n].marking => i = j
      BY <3>1 DEF OneMark
    <3> QED  BY <3>3, <3>4
  <2>2. CASE DispatchDies(n)
    <3>1. /\ UNCHANGED status
          /\ doubted' = doubted \cup {i \in {i \in dispatch[n].marking : status[i] = "waiting"} :
                                        Away(i) \/ status[i] = "waiting"}
      BY <2>2 DEF DispatchDies, Doubt, rowVars
    <3> QED  BY <3>1
  <2> QED  BY <2>1, <2>2
<1>4. \A r \in Runs : Alive(r, j)' =>
         /\ Alive(r, j) /\ run'[r] = run[r]
         /\ run'[r].pc = "ending" => run'[r].outcome \notin {"pending", "waiting"}
         /\ status[j] = "waiting" => Young(r)'
  BY <1>1 DEF Alive, Young, RunsOf, Good, OneRun
<1> QED  BY <1>1, <1>2, <1>3, <1>4, Carry

LEMMA RunGood ==
  ASSUME Typed, NEW j \in Jobs, Good(j), NEW r \in Runs,
         RunNext(r) \/ RunSaves(r) \/ RunDies(r)
  PROVE  Good(j)'
<1> DEFINE k == run[r].job
           OfRun(f) == f.pc # "free" =>
              /\ run[r].pc # "free"
              /\ f.job = run[r].job /\ f.task = run[r].task /\ f.node = run[r].node
<1>1. run[r] \in RunType /\ k \in Jobs /\ RunTyped
  BY DEF Typed, RunTyped, RunType
<1>2. UNCHANGED <<node, task, tm, dispatch>>
  BY DEF RunNext, RunReads, RunMarks, RunCancels, RunSaves, RunRefuses, RunPrepared, RunStarts,
     RunEnds, RunSavesStatus, RunDies, rowVars
<1>3. run[r].pc # "free" /\ k = j =>
         /\ status[j] # "pending"
         /\ run[r].pc = "ending" => run[r].outcome \notin {"pending", "waiting"}
         /\ status[j] = "waiting" => run[r].pc \in {"queued", "marking"}
  <2> SUFFICES ASSUME run[r].pc # "free", k = j
               PROVE  /\ status[j] # "pending"
                      /\ run[r].pc = "ending" => run[r].outcome \notin {"pending", "waiting"}
                      /\ status[j] = "waiting" => run[r].pc \in {"queued", "marking"}
    OBVIOUS
  <2>1. r \in RunsOf(j)
    BY DEF RunsOf, Alive
  <2> QED  BY <2>1 DEF Good, NotInHand, Away, OneRun, Young
<1>4. \A st : SetStatus(k, st) =>
         \A i \in Jobs : status'[i] = IF i = k THEN st ELSE status[i]
  BY <1>1 DEF SetStatus, Typed, RowTyped
<1>5. OfRun(NoRun) /\ NoRun.pc = "free"
  BY DEF NoRun
<1>7. \A pc \in {"marking", "starting", "executing", "canceling", "preparing"} :
         LET f == [run[r] EXCEPT !.pc = pc] IN
         f.pc = pc /\ f.job = k /\ f.task = run[r].task /\ f.node = run[r].node
  BY <1>1 DEF RunType
<1>8. \A flag : Begin(r, flag).pc \in {"canceling", "preparing"} /\ Begin(r, flag).job = k
                /\ Begin(r, flag).task = run[r].task /\ Begin(r, flag).node = run[r].node
  BY <1>7 DEF Begin
<1> HIDE DEF k
<1>9. CASE RunReads(r)
  <2>1. UNCHANGED status /\ run[r].pc = "queued"
    BY <1>9 DEF RunReads, rowVars
  <2>2. PICK f : /\ SetRun(r, f)
                 /\ \/ f = [run[r] EXCEPT !.pc = "marking"]
                    \/ status[k] = "running" /\ f = Begin(r, cancelFlag[k])
                    \/ f = NoRun
    BY <1>9 DEF RunReads, k
  <2>3. /\ f.pc # "free" => f.job = k /\ f.task = run[r].task /\ f.node = run[r].node
        /\ \/ f.pc \in {"marking", "free"}
           \/ f.pc \in {"canceling", "preparing"} /\ status[k] = "running"
    <3>1. CASE f = [run[r] EXCEPT !.pc = "marking"]
      BY <1>1, <3>1 DEF RunType, k
    <3>2. CASE status[k] = "running" /\ f = Begin(r, cancelFlag[k])
      BY <1>8, <3>2
    <3>3. CASE f = NoRun
      BY <1>5, <3>3
    <3> QED  BY <2>2, <3>1, <3>2, <3>3
  <2> QED  BY <1>1, <1>2, <2>1, <2>2, <2>3, CarryRun DEF k
<1>10. CASE RunMarks(r)
  <2>1. /\ run[r].pc = "marking" /\ SetStatus(k, "running")
        /\ SetRun(r, Begin(r, cancelFlag[k]))
    BY <1>10 DEF RunMarks, k
  <2> QED  BY <1>1, <1>2, <1>4, <1>8, <2>1, CarryRun DEF k
<1>11. CASE RunCancels(r)
  <2>1. SetStatus(k, "canceled") /\ SetRun(r, NoRun)
    BY <1>11 DEF RunCancels, k
  <2> QED  BY <1>1, <1>2, <1>4, <1>5, <2>1, CarryRun
<1>12. CASE RunSaves(r)
  <2> DEFINE f == [run[r] EXCEPT !.flag = cancelFlag[k], !.over = (status[k] # "running")]
  <2>1. run[r].pc = "preparing" /\ UNCHANGED status /\ SetRun(r, f)
    BY <1>12 DEF RunSaves, k
  <2>2. f.pc = "preparing" /\ f.job = k /\ f.task = run[r].task /\ f.node = run[r].node
    BY <1>1, <2>1 DEF RunType, k
  <2> HIDE DEF f
  <2> QED  BY <1>1, <1>2, <1>3, <2>1, <2>2, CarryRun DEF k
<1>13. CASE RunRefuses(r)
  <2>1. /\ run[r].pc \in {"preparing", "starting"}
        /\ (SetStatus(k, "failed") \/ UNCHANGED status)
        /\ SetRun(r, [run[r] EXCEPT !.pc = "ending", !.outcome = "error"])
    BY <1>13 DEF RunRefuses, k
  <2>2. PICK f : SetRun(r, f) /\ f = [run[r] EXCEPT !.pc = "ending", !.outcome = "error"]
    BY <2>1
  <2>3. /\ f.pc = "ending" /\ f.outcome = "error"
        /\ f.job = k /\ f.task = run[r].task /\ f.node = run[r].node
    BY <1>1, <2>2 DEF RunType, k
  <2>4. status'[j] \in {"waiting", "pending"} => status'[j] = status[j]
    BY <1>4, <2>1
  <2>5. k = j => status'[j] # "waiting"
    BY <1>3, <2>1, <2>4
  <2> QED  BY <1>1, <1>2, <2>1, <2>2, <2>3, <2>4, <2>5, CarryRun DEF k
<1>14. CASE RunPrepared(r)
  <2>1. run[r].pc = "preparing" /\ (SetStatus(k, "canceled") \/ UNCHANGED status)
    BY <1>14 DEF RunPrepared, k
  <2>2. PICK f : /\ SetRun(r, f)
                 /\ \/ f = [run[r] EXCEPT !.pc = "ending", !.outcome = "canceled"]
                    \/ f = [run[r] EXCEPT !.pc = "ending", !.outcome = status[k]]
                    \/ f = [run[r] EXCEPT !.pc = "starting"]
    BY <1>14 DEF RunPrepared, k
  <2>3. /\ f.job = k /\ f.task = run[r].task /\ f.node = run[r].node
        /\ \/ f.pc = "ending" /\ f.outcome \in {"canceled", status[k]}
           \/ f.pc = "starting"
    BY <1>1, <2>2 DEF RunType, k
  <2> QED  BY <1>1, <1>2, <1>3, <1>4, <2>1, <2>2, <2>3, CarryRun DEF k
<1>15. CASE RunStarts(r)
  <2>1. run[r].pc = "starting" /\ UNCHANGED status /\ SetRun(r, [run[r] EXCEPT !.pc = "executing"])
    BY <1>15 DEF RunStarts, Goes
  <2> QED  BY <1>1, <1>2, <1>3, <1>7, <2>1, CarryRun DEF k
<1>16. CASE RunEnds(r)
  <2>1. run[r].pc = "executing" /\ UNCHANGED status
    BY <1>16 DEF RunEnds, rowVars
  <2>2. PICK st \in Final : SetRun(r, [run[r] EXCEPT !.pc = "ending", !.outcome = st])
    BY <1>16 DEF RunEnds, Final
  <2>3. PICK f : SetRun(r, f) /\ f = [run[r] EXCEPT !.pc = "ending", !.outcome = st]
    BY <2>2
  <2>4. /\ f.pc = "ending" /\ f.outcome \notin {"pending", "waiting"}
        /\ f.job = k /\ f.task = run[r].task /\ f.node = run[r].node
    BY <1>1, <2>3 DEF RunType, k, Final
  <2> QED  BY <1>1, <1>2, <1>3, <2>1, <2>3, <2>4, CarryRun DEF k
<1>17. CASE RunSavesStatus(r)
  <2>1. run[r].pc = "ending" /\ SetStatus(k, run[r].outcome) /\ SetRun(r, NoRun)
    BY <1>17 DEF RunSavesStatus, k
  <2> QED  BY <1>1, <1>2, <1>3, <1>4, <1>5, <2>1, CarryRun
<1>18. CASE RunDies(r)
  <2>1. UNCHANGED status /\ SetRun(r, NoRun)
    BY <1>18 DEF RunDies, rowVars
  <2> QED  BY <1>1, <1>2, <1>5, <2>1, CarryRun
<1> QED  BY <1>9, <1>10, <1>11, <1>12, <1>13, <1>14, <1>15, <1>16, <1>17, <1>18 DEF RunNext

LEMMA QuotaGood ==
  ASSUME Typed, NEW j \in Jobs, Good(j), NEW r \in Runs, RunOverQuota(r)
  PROVE  Good(j)'
<1>1. /\ run[r].pc = "executing" /\ SetStatus(run[r].job, "pending") /\ SetRun(r, NoRun)
      /\ UNCHANGED <<node, task, tm, dispatch>>
  BY DEF RunOverQuota
<1>2. run[r].job \in Jobs
  BY DEF Typed, RunTyped, RunType
<1>3. \A q \in Runs : run'[q] = IF q = r THEN NoRun ELSE run[q]
  BY <1>1 DEF SetRun, Typed, RunTyped
<1>4. NoRun.pc = "free"
  BY DEF NoRun
<1>5. CASE j = run[r].job
  <2>1. r \in RunsOf(j)
    BY <1>1, <1>5 DEF RunsOf, Alive
  <2>2. \A q \in RunsOf(j) : q = r
    BY <2>1 DEF Good, OneRun
  <2>3. RunsOf(j)' = {}
    BY <1>3, <1>4, <2>2 DEF RunsOf, Alive
  <2>4. \A n \in Nodes : ListedBy(n, j)' = {}
    <3>1. \A n \in Nodes : ListedBy(n, j) = {}
      BY <2>1 DEF Good, OneListing
    <3> QED  BY <1>1, <3>1 DEF ListedBy
  <2>5. j \notin tm'.pending
    BY <1>1, <2>1 DEF Good, NotInHand, Away
  <2> QED  BY <2>3, <2>4, <2>5, AtHome DEF Away
<1>6. CASE j # run[r].job
  <2>1. status'[j] = status[j]
    BY <1>1, <1>2, <1>6 DEF SetStatus, Typed, RowTyped
  <2> QED  BY <1>1, <1>4, <2>1, CarryRun DEF Typed
<1> QED  BY <1>5, <1>6

\* Requests and reapers take nothing from a run, but a restart ends those of
\* its node together with its dispatch.
LEMMA OthersGood ==
  ASSUME Typed, NEW j \in Jobs, Good(j), UNCHANGED <<node, task, tm>>,
         status'[j] \in {"waiting", "pending"} => status'[j] = status[j],
         UNCHANGED <<dispatch, run>>
  PROVE  Good(j)'
<1>1. \A n \in Nodes : ListedBy(n, j)' \subseteq ListedBy(n, j)
  BY DEF ListedBy
<1>2. \A r \in Runs : Alive(r, j)' =>
         /\ Alive(r, j) /\ run'[r] = run[r]
         /\ run'[r].pc = "ending" => run'[r].outcome \notin {"pending", "waiting"}
         /\ status[j] = "waiting" => Young(r)'
  BY DEF Alive, Young, RunsOf, Good, OneRun
<1> QED  BY <1>1, <1>2, Carry

LEMMA CancelGood ==
  ASSUME Typed, NEW j \in Jobs, Good(j), NEW i \in Jobs, CancelNext(i)
  PROVE  Good(j)'
<1>1. CASE CancelReads(i) \/ CancelSaves(i)
  BY <1>1, OthersGood DEF CancelReads, CancelSaves, rowVars, nodeVars
<1>2. CASE CancelSignals(i)
  <2>1. UNCHANGED <<status, node, task, tm, dispatch>>
    BY <1>2 DEF CancelSignals, rowVars
  <2>2. \A r \in Runs : /\ run'[r].pc = run[r].pc /\ run'[r].job = run[r].job
                        /\ run'[r].task = run[r].task /\ run'[r].node = run[r].node
                        /\ run'[r].outcome = run[r].outcome
    BY <1>2 DEF CancelSignals, Typed, RunTyped, RunType
  <2>3. \A n \in Nodes : ListedBy(n, j)' \subseteq ListedBy(n, j)
    BY <2>1 DEF ListedBy
  <2>4. \A r \in Runs : Alive(r, j)' =>
           /\ Alive(r, j)
           /\ run'[r].pc = "ending" => run'[r].outcome \notin {"pending", "waiting"}
           /\ status[j] = "waiting" => Young(r)'
    BY <2>2 DEF Alive, Young, RunsOf, Good, OneRun
  <2> QED  BY <2>1, <2>2, <2>3, <2>4, Carry
<1> QED  BY <1>1, <1>2 DEF CancelNext

LEMMA RestartsGood ==
  ASSUME Typed, NEW j \in Jobs, Good(j), NEW n \in Nodes, NodeRestarts(n)
  PROVE  Good(j)'
<1>1. /\ UNCHANGED <<status, node, task, tm>>
      /\ \A r \in Runs : run'[r] = IF run[r].node = n THEN NoRun ELSE run[r]
      /\ dispatch'[n] = NoDispatch
      /\ \A m \in Nodes : m # n => dispatch'[m] = dispatch[m]
  BY DEF NodeRestarts, SetDispatch, rowVars, Typed, DispatchTyped
<1>2. \A r \in Runs : Alive(r, j)' =>
         /\ Alive(r, j) /\ run'[r] = run[r] /\ run[r].node # n
         /\ run'[r].pc = "ending" => run'[r].outcome \notin {"pending", "waiting"}
         /\ status[j] = "waiting" => Young(r)'
  <2> SUFFICES ASSUME NEW r \in Runs, Alive(r, j)'
               PROVE  /\ Alive(r, j) /\ run'[r] = run[r] /\ run[r].node # n
                      /\ run'[r].pc = "ending" => run'[r].outcome \notin {"pending", "waiting"}
                      /\ status[j] = "waiting" => Young(r)'
    OBVIOUS
  <2>1. run'[r].pc # "free" /\ run'[r].job = j
    BY DEF Alive
  <2>2. run'[r] = run[r] /\ run[r].node # n
    <3>1. CASE run[r].node = n
      <4>1. run'[r] = NoRun
        BY <1>1, <3>1
      <4>2. NoRun.pc = "free"
        BY DEF NoRun
      <4> QED  BY <2>1, <4>1, <4>2
    <3>2. CASE run[r].node # n
      BY <1>1, <3>2
    <3> QED  BY <3>1, <3>2
  <2>3. Alive(r, j) /\ r \in RunsOf(j)
    BY <2>1, <2>2 DEF Alive, RunsOf
  <2> QED  BY <2>2, <2>3 DEF Good, OneRun, Young
<1>3. \A m \in Nodes : ListedBy(m, j)' \subseteq ListedBy(m, j)
  BY <1>1 DEF ListedBy, NoDispatch
<1>4. status[j] = "waiting" /\ RunsOf(j)' # {} => node[j] # n
  <2> SUFFICES ASSUME status[j] = "waiting", NEW r \in RunsOf(j)'  PROVE node[j] # n
    OBVIOUS
  <2>1. r \in RunsOf(j) /\ run[r].node # n
    BY <1>2 DEF RunsOf
  <2> QED  BY <2>1 DEF Good, OneRun
<1> QED  BY <1>1, <1>2, <1>3, <1>4, Carry

LEMMA ReaperGood ==
  ASSUME Typed, NEW j \in Jobs \ doubted', Good(j), NEW n \in Nodes,
         ReaperNext(n) \/ StartupSelects(n) \/ (\E m \in Nodes : LostSelects(m, n))
  PROVE  Good(j)'
<1>1. CASE \/ HeartbeatLists(n) \/ HeartbeatSelects(n) \/ StartupSelects(n)
           \/ (\E m \in Nodes : LostSelects(m, n)) \/ (\E i \in Jobs : ReaperRefreshes(n, i))
  BY <1>1, OthersGood DEF HeartbeatLists, HeartbeatSelects, StartupSelects, LostSelects,
     ReaperRefreshes, ReaperUnchanged, rowVars
<1>2. ASSUME NEW i \in Jobs, ReaperSaves(n, i)  PROVE Good(j)'
  <2>1. status'[j] \in {status[j], "failed"} /\ UNCHANGED <<node, task, tm, dispatch, run>>
    BY <1>2 DEF ReaperSaves, SetStatus, Typed, RowTyped
  <2> QED  BY <2>1, OthersGood
<1>3. CASE ReaperEnds(n)
  <2> DEFINE lost == reaper[n].of
             back == {i \in Jobs : lost # n /\ status[i] = "waiting" /\ node[i] = lost}
  <2>1. /\ status' = [i \in Jobs |-> IF i \in back THEN "pending" ELSE status[i]]
        /\ node' = [i \in Jobs |-> IF i \in back THEN "none" ELSE node[i]]
        /\ doubted' = doubted \cup {i \in back : Away(i)}
        /\ UNCHANGED <<task, tm, dispatch, run>>
    BY <1>3 DEF ReaperEnds
  <2> HIDE DEF back
  <2>2. Away(j)' <=> Away(j)
    BY <2>1 DEF Away, RunsOf, Alive, ListedBy
  <2>3. CASE j \in back
    BY <2>1, <2>2, <2>3, AtHome
  <2>4. CASE j \notin back
    <3>1. status'[j] = status[j] /\ node'[j] = node[j] /\ task'[j] = task[j]
      BY <2>1, <2>4
    <3>2. RunsOf(j)' = RunsOf(j) /\ \A m \in Nodes : ListedBy(m, j)' = ListedBy(m, j)
      BY <2>1 DEF RunsOf, Alive, ListedBy
    <3> QED  BY <2>1, <2>2, <3>1, <3>2 DEF Good, NotInHand, Unlisted, OneListing, OneRun, Young
  <2> QED  BY <2>3, <2>4
<1> QED  BY <1>1, <1>2, <1>3 DEF ReaperNext

LEMMA MarkKept == Typed /\ OneMark /\ [Next]_vars => OneMark'
<1> SUFFICES ASSUME Typed, OneMark, [Next]_vars  PROVE OneMark'
  OBVIOUS
<1>1. \A n \in Nodes : \/ dispatch'[n].marking \subseteq dispatch[n].marking
                       \/ \E j : dispatch'[n].marking = {j}
  <2>1. ASSUME NEW m \in Nodes, DispatchNext(m) \/ DispatchDies(m) \/ NodeRestarts(m),
               NEW n \in Nodes
        PROVE  \/ dispatch'[n].marking \subseteq dispatch[n].marking
               \/ \E j : dispatch'[n].marking = {j}
    <3>1. PICK d : /\ SetDispatch(m, d)
                   /\ d.marking = {} \/ \E j : d.marking = {j}
      <4>1. CASE DispatchLists(m)
        BY <4>1 DEF DispatchLists, NoDispatch
      <4>2. CASE \E r \in Runs : DispatchSubmits(m, r)
        <5>1. PICK s : SetDispatch(m, [todo |-> dispatch[m].todo \ {s}, marking |-> {s[1]}])
          BY <4>2 DEF DispatchSubmits
        <5>2. [todo |-> dispatch[m].todo \ {s}, marking |-> {s[1]}].marking = {s[1]}
          OBVIOUS
        <5> QED  BY <5>1, <5>2
      <4>3. CASE DispatchMarks(m)
        <5>1. dispatch[m] \in DispatchType
          BY DEF Typed, DispatchTyped
        <5>2. [dispatch[m] EXCEPT !.marking = {}].marking = {}
          BY <5>1 DEF DispatchType
        <5> QED  BY <4>3, <5>2 DEF DispatchMarks
      <4>4. CASE DispatchDies(m) \/ NodeRestarts(m)
        BY <4>4 DEF DispatchDies, NodeRestarts, NoDispatch
      <4> QED  BY <2>1, <4>1, <4>2, <4>3, <4>4 DEF DispatchNext
    <3>2. dispatch'[n] = IF n = m THEN d ELSE dispatch[n]
      BY <3>1 DEF SetDispatch, Typed, DispatchTyped
    <3> QED  BY <3>1, <3>2
  <2>2. CASE UNCHANGED dispatch
    BY <2>2
  <2>3. ASSUME NEW n \in Nodes,
               ReaperNext(n) \/ StartupSelects(n) \/ (\E m \in Nodes : LostSelects(m, n))
        PROVE  UNCHANGED dispatch
    BY <2>3 DEF ReaperNext, HeartbeatLists, HeartbeatSelects, StartupSelects, LostSelects,
       ReaperRefreshes, ReaperSaves, ReaperEnds, ReaperUnchanged
  <2>4. ASSUME NEW r \in Runs, RunNext(r) \/ RunSaves(r) \/ RunOverQuota(r) \/ RunDies(r)
        PROVE  UNCHANGED dispatch
    BY <2>4 DEF RunNext, RunReads, RunMarks, RunCancels, RunSaves, RunRefuses, RunPrepared,
       RunStarts, RunEnds, RunSavesStatus, RunOverQuota, RunDies
  <2>5. ASSUME NEW j \in Jobs, CancelNext(j)  PROVE UNCHANGED dispatch
    BY <2>5 DEF CancelNext, CancelReads, CancelSaves, CancelSignals, nodeVars
  <2>6. CASE TmNext
    BY <2>6 DEF TmNext, TmFetch, TmCommits, TmCommit, nodeVars
  <2>7. CASE UNCHANGED vars
    BY <2>7 DEF vars, nodeVars
  <2> QED  BY <2>1, <2>2, <2>3, <2>4, <2>5, <2>6, <2>7 DEF Next
<1> QED  BY <1>1 DEF OneMark

\* Doubts stay.
LEMMA DoubtStays == [Next]_vars => doubted \subseteq doubted'
<1> SUFFICES ASSUME [Next]_vars  PROVE doubted \subseteq doubted'
  OBVIOUS
<1>1. ASSUME NEW n \in Nodes,
             \/ DispatchNext(n) \/ DispatchDies(n) \/ ReaperNext(n) \/ StartupSelects(n)
             \/ NodeRestarts(n) \/ \E m \in Nodes : LostSelects(m, n)
      PROVE  doubted \subseteq doubted'
  BY <1>1 DEF DispatchNext, DispatchLists, DispatchSubmits, DispatchMarks, DispatchDies, ReaperNext,
     HeartbeatLists, HeartbeatSelects, ReaperRefreshes, ReaperSaves, ReaperEnds, StartupSelects,
     NodeRestarts, LostSelects, Doubt
<1>2. ASSUME NEW r \in Runs, RunNext(r) \/ RunSaves(r) \/ RunOverQuota(r) \/ RunDies(r)
      PROVE  doubted \subseteq doubted'
  BY <1>2 DEF RunNext, RunReads, RunMarks, RunCancels, RunSaves, RunRefuses, RunPrepared,
     RunStarts, RunEnds, RunSavesStatus, RunOverQuota, RunDies
<1>3. ASSUME NEW j \in Jobs, CancelNext(j)  PROVE doubted \subseteq doubted'
  BY <1>3 DEF CancelNext, CancelReads, CancelSaves, CancelSignals
<1>4. CASE TmNext
  BY <1>4 DEF TmNext, TmFetch, TmCommits, TmCommit
<1>5. CASE UNCHANGED vars
  BY <1>5 DEF vars
<1> QED  BY <1>1, <1>2, <1>3, <1>4, <1>5 DEF Next

LEMMA StepKeeps == IInv /\ [Next]_vars => IInv'
<1> SUFFICES ASSUME IInv, [Next]_vars  PROVE IInv'
  OBVIOUS
<1> USE DEF IInv
<1>1. Typed' /\ OneMark'
  BY StepTyped, MarkKept
<1>2. ASSUME NEW j \in Jobs \ doubted'  PROVE Good(j)'
  <2>1. Good(j)
    BY DoubtStays
  <2>2. CASE UNCHANGED vars
    BY <2>1, <2>2, OthersGood DEF vars, rowVars, nodeVars
  <2>3. ASSUME NEW n \in Nodes,
               \/ DispatchNext(n) \/ DispatchDies(n) \/ ReaperNext(n) \/ StartupSelects(n)
               \/ NodeRestarts(n) \/ \E m \in Nodes : LostSelects(m, n)
        PROVE  Good(j)'
    BY <2>1, <2>3, ListsGood, SubmitsGood, MarksGood, ReaperGood, RestartsGood DEF DispatchNext
  <2>4. ASSUME NEW r \in Runs, RunNext(r) \/ RunSaves(r) \/ RunOverQuota(r) \/ RunDies(r)
        PROVE  Good(j)'
    BY <2>1, <2>4, RunGood, QuotaGood
  <2>5. ASSUME NEW i \in Jobs, CancelNext(i)  PROVE Good(j)'
    BY <2>1, <2>5, CancelGood
  <2>6. CASE TmNext
    BY <2>1, <2>6, TmGood
  <2> QED  BY <2>2, <2>3, <2>4, <2>5, <2>6 DEF Next
<1> QED  BY <1>1, <1>2

LEMMA InitKeeps == Init => IInv
<1> SUFFICES ASSUME Init  PROVE IInv
  OBVIOUS
<1>1. OneMark
  BY DEF Init, OneMark, NoDispatch
<1>2. \A j \in Jobs : RunsOf(j) = {} /\ \A n \in Nodes : ListedBy(n, j) = {}
  BY DEF Init, RunsOf, Alive, NoRun, ListedBy, NoDispatch
<1>3. \A j \in Jobs : Good(j)
  BY <1>2 DEF Init, NoPass, Good, NotInHand, Away, Unlisted, OneListing, OneRun
<1> QED  BY <1>1, <1>3, InitTyped DEF IInv

\* The permission to run a job is in one place.
THEOREM Invariant == Spec => []IInv
BY InitKeeps, StepKeeps, PTL DEF Spec

\* A job is not run twice at a time, whatever dies, restarts, is requeued or
\* cancelled, unless somebody took its run for gone.
THEOREM RunsOnce == Spec => []OneRunAtATime
<1>1. IInv => OneRunAtATime
  <2> SUFFICES ASSUME IInv, NEW r \in Runs, NEW s \in Runs, r # s, Begun(r), Begun(s),
                      run[r].job = run[s].job, run[r].job \notin doubted
               PROVE  FALSE
    BY DEF OneRunAtATime
  <2>1. run[r].job \in Jobs
    BY DEF IInv, Typed, RunTyped, RunType
  <2>2. r \in RunsOf(run[r].job) /\ s \in RunsOf(run[r].job)
    BY DEF Begun, RunsOf, Alive
  <2>3. OneRun(run[r].job)
    BY <2>1 DEF IInv, Good
  <2> QED  BY <2>2, <2>3 DEF OneRun
<1> QED  BY <1>1, Invariant, PTL

-----------------------------------------------------------------------------
(* What a run may do to its job.                                           *)

\* One step of a run r, of the job k: f is where it leaves the run.
RunStep(r, f) ==
  LET k == run[r].job
      Kept == UNCHANGED status
  IN  /\ SetRun(r, f)
      /\ UNCHANGED <<cancelFlag, node, task, tm, dispatch, reaper, cancel, doubted>>
      /\ \A i \in Jobs : i # k => status'[i] = status[i]
      /\ f.pc # "free" => /\ run[r].pc # "free"
                          /\ f.job = k /\ f.task = run[r].task /\ f.signal = run[r].signal
      /\ \/ f.pc = "free" /\ Kept
         \/ f.pc = "free" /\ run[r].pc = "canceling" /\ status'[k] = "canceled"
         \/ f.pc = "free" /\ run[r].pc = "ending" /\ status'[k] = run[r].outcome
         \/ f.pc = "free" /\ run[r].pc = "executing" /\ status'[k] = "pending"
         \/ run[r].pc = "queued" /\ f.pc = "marking" /\ f.over = run[r].over
              /\ Kept /\ status[k] = "waiting"
         \/ run[r].pc = "queued" /\ Kept /\ status[k] = "running" /\ f.over = run[r].over
              /\ f.pc = IF cancelFlag[k] THEN "canceling" ELSE "preparing"
         \/ run[r].pc = "marking" /\ status'[k] = "running" /\ f.over = run[r].over
              /\ f.pc = IF cancelFlag[k] THEN "canceling" ELSE "preparing"
         \/ run[r].pc = "preparing" /\ f.pc = "preparing" /\ Kept
              /\ f.flag = cancelFlag[k] /\ f.over = (status[k] # "running")
         \/ run[r].pc \in {"preparing", "starting"} /\ f.pc = "ending" /\ f.outcome = "error"
              /\ (Kept \/ status'[k] = "failed")
         \/ run[r].pc = "preparing" /\ f.pc = "ending" /\ f.outcome = "canceled"
              /\ status'[k] = "canceled"
         \/ run[r].pc = "preparing" /\ f.pc = "ending" /\ run[r].over /\ f.outcome = status[k] /\ Kept
         \/ run[r].pc = "preparing" /\ f.pc = "starting" /\ ~ run[r].flag /\ ~ run[r].signal
              /\ f.flag = run[r].flag /\ Kept
         \/ run[r].pc = "starting" /\ f.pc = "executing" /\ f.flag = run[r].flag /\ Kept
         \/ run[r].pc = "executing" /\ f.pc = "ending" /\ f.outcome \in Final /\ Kept

LEMMA RunSteps ==
  ASSUME Typed, NEW r \in Runs, RunNext(r) \/ RunSaves(r) \/ RunOverQuota(r) \/ RunDies(r)
  PROVE  \E f : RunStep(r, f)
<1> DEFINE k == run[r].job
           OfRun(f) == f.job = k /\ f.task = run[r].task /\ f.signal = run[r].signal
<1>1. run[r] \in RunType /\ k \in Jobs
  BY DEF Typed, RunTyped, RunType
<1>2. UNCHANGED <<cancelFlag, node, task, tm, dispatch, reaper, cancel, doubted>>
  BY DEF RunNext, RunReads, RunMarks, RunCancels, RunSaves, RunRefuses, RunPrepared, RunStarts,
     RunEnds, RunSavesStatus, RunOverQuota, RunDies, rowVars
<1>3. \A st : SetStatus(k, st) =>
         status'[k] = st /\ \A i \in Jobs : i # k => status'[i] = status[i]
  BY <1>1 DEF SetStatus, Typed, RowTyped
<1>4. NoRun.pc = "free"
  BY DEF NoRun
<1>5. \A pc \in Pcs : LET f == [run[r] EXCEPT !.pc = pc] IN
         f.pc = pc /\ OfRun(f) /\ f.flag = run[r].flag /\ f.over = run[r].over
  BY <1>1 DEF RunType
<1>6. \A flag : /\ Begin(r, flag).pc = IF flag THEN "canceling" ELSE "preparing"
                /\ OfRun(Begin(r, flag)) /\ Begin(r, flag).over = run[r].over
  BY <1>5 DEF Begin, Pcs
<1>7. ASSUME NEW st, SetRun(r, [run[r] EXCEPT !.pc = "ending", !.outcome = st])
      PROVE  \E f : SetRun(r, f) /\ f.pc = "ending" /\ OfRun(f) /\ f.outcome = st
  <2> DEFINE f == [run[r] EXCEPT !.pc = "ending", !.outcome = st]
  <2>1. f.pc = "ending" /\ OfRun(f) /\ f.outcome = st
    BY <1>1 DEF RunType
  <2> HIDE DEF f
  <2> QED  BY <1>7, <2>1 DEF f
<1> HIDE DEF k
<1>8. CASE RunReads(r)
  <2>1. run[r].pc = "queued" /\ UNCHANGED status
    BY <1>8 DEF RunReads, rowVars
  <2>2. CASE status[k] = "waiting"
    <3>1. SetRun(r, [run[r] EXCEPT !.pc = "marking"])
      BY <1>8, <2>2 DEF RunReads, k
    <3> QED  BY <1>2, <1>5, <2>1, <2>2, <3>1 DEF RunStep, k, Pcs
  <2>3. CASE status[k] = "running"
    <3>1. SetRun(r, Begin(r, cancelFlag[k]))
      BY <1>8, <2>3 DEF RunReads, k
    <3> QED  BY <1>2, <1>6, <2>1, <2>3, <3>1 DEF RunStep, k
  <2>4. CASE status[k] \notin {"waiting", "running"}
    <3>1. SetRun(r, NoRun)
      BY <1>8, <2>4 DEF RunReads, k
    <3> QED  BY <1>2, <1>4, <2>1, <3>1 DEF RunStep, k
  <2> QED  BY <2>2, <2>3, <2>4
<1>9. CASE RunMarks(r)
  <2>1. run[r].pc = "marking" /\ SetStatus(k, "running") /\ SetRun(r, Begin(r, cancelFlag[k]))
    BY <1>9 DEF RunMarks, k
  <2> QED  BY <1>2, <1>3, <1>6, <2>1 DEF RunStep, k
<1>10. CASE RunCancels(r)
  <2>1. run[r].pc = "canceling" /\ SetStatus(k, "canceled") /\ SetRun(r, NoRun)
    BY <1>10 DEF RunCancels, k
  <2> QED  BY <1>2, <1>3, <1>4, <2>1 DEF RunStep, k
<1>11. CASE RunSaves(r)
  <2> DEFINE f == [run[r] EXCEPT !.flag = cancelFlag[k], !.over = (status[k] # "running")]
  <2>1. run[r].pc = "preparing" /\ UNCHANGED status /\ SetRun(r, f)
    BY <1>11 DEF RunSaves, k
  <2>2. /\ f.pc = "preparing" /\ OfRun(f)
        /\ f.flag = cancelFlag[k] /\ f.over = (status[k] # "running")
    BY <1>1, <2>1 DEF RunType, k
  <2> HIDE DEF f
  <2> QED  BY <1>2, <2>1, <2>2 DEF RunStep, k
<1>12. CASE RunRefuses(r)
  <2>1. /\ run[r].pc \in {"preparing", "starting"}
        /\ SetStatus(k, "failed") \/ UNCHANGED status
        /\ SetRun(r, [run[r] EXCEPT !.pc = "ending", !.outcome = "error"])
    BY <1>12 DEF RunRefuses, k
  <2>2. PICK f : SetRun(r, f) /\ f.pc = "ending" /\ OfRun(f) /\ f.outcome = "error"
    BY <1>7, <2>1
  <2> QED  BY <1>2, <1>3, <2>1, <2>2 DEF RunStep, k
<1>13. CASE RunPrepared(r)
  <2>1. run[r].pc = "preparing"
    BY <1>13 DEF RunPrepared
  <2>2. CASE run[r].flag \/ run[r].signal
    <3>1. /\ SetStatus(k, "canceled")
          /\ SetRun(r, [run[r] EXCEPT !.pc = "ending", !.outcome = "canceled"])
      BY <1>13, <2>2 DEF RunPrepared, k
    <3>2. PICK f : SetRun(r, f) /\ f.pc = "ending" /\ OfRun(f) /\ f.outcome = "canceled"
      BY <1>7, <3>1
    <3> QED  BY <1>2, <1>3, <2>1, <3>1, <3>2 DEF RunStep, k
  <2>3. CASE ~ (run[r].flag \/ run[r].signal) /\ run[r].over
    <3>1. /\ UNCHANGED status
          /\ SetRun(r, [run[r] EXCEPT !.pc = "ending", !.outcome = status[k]])
      BY <1>13, <2>3 DEF RunPrepared, k
    <3>2. PICK f : SetRun(r, f) /\ f.pc = "ending" /\ OfRun(f) /\ f.outcome = status[k]
      BY <1>7, <3>1
    <3> QED  BY <1>2, <2>1, <2>3, <3>1, <3>2 DEF RunStep, k
  <2>4. CASE ~ (run[r].flag \/ run[r].signal) /\ ~ run[r].over
    <3>1. /\ UNCHANGED status
          /\ SetRun(r, [run[r] EXCEPT !.pc = "starting"])
      BY <1>13, <2>4 DEF RunPrepared, k
    <3> QED  BY <1>2, <1>5, <2>1, <2>4, <3>1 DEF RunStep, k, Pcs
  <2> QED  BY <2>2, <2>3, <2>4
<1>14. CASE RunStarts(r)
  <2>1. run[r].pc = "starting" /\ UNCHANGED status /\ SetRun(r, [run[r] EXCEPT !.pc = "executing"])
    BY <1>14 DEF RunStarts, Goes
  <2> QED  BY <1>2, <1>5, <2>1 DEF RunStep, k, Pcs
<1>15. CASE RunEnds(r)
  <2>1. run[r].pc = "executing" /\ UNCHANGED status
    BY <1>15 DEF RunEnds, rowVars
  <2>2. PICK st \in Final : SetRun(r, [run[r] EXCEPT !.pc = "ending", !.outcome = st])
    BY <1>15 DEF RunEnds, Final
  <2>3. PICK f : SetRun(r, f) /\ f.pc = "ending" /\ OfRun(f) /\ f.outcome = st
    BY <1>7, <2>2
  <2> QED  BY <1>2, <2>1, <2>2, <2>3 DEF RunStep, k
<1>16. CASE RunSavesStatus(r)
  <2>1. run[r].pc = "ending" /\ SetStatus(k, run[r].outcome) /\ SetRun(r, NoRun)
    BY <1>16 DEF RunSavesStatus, k
  <2> QED  BY <1>2, <1>3, <1>4, <2>1 DEF RunStep, k
<1>17. CASE RunOverQuota(r)
  <2>1. run[r].pc = "executing" /\ SetStatus(k, "pending") /\ SetRun(r, NoRun)
    BY <1>17 DEF RunOverQuota, k
  <2> QED  BY <1>2, <1>3, <1>4, <2>1 DEF RunStep, k
<1>18. CASE RunDies(r)
  <2>1. UNCHANGED status /\ SetRun(r, NoRun)
    BY <1>18 DEF RunDies, rowVars
  <2> QED  BY <1>2, <1>4, <2>1 DEF RunStep, k
<1> QED  BY <1>8, <1>9, <1>10, <1>11, <1>12, <1>13, <1>14, <1>15, <1>16, <1>17, <1>18 DEF RunNext

-----------------------------------------------------------------------------
(* How far a job has got, and who still acts on it.                        *)

\* A run, its job's status and what it will save agree.
Agrees(r, j) ==
  /\ Young(r) => status[j] \in {"waiting", "running"} /\ ~ run[r].over
  /\ run[r].pc \in {"canceling", "preparing", "starting", "executing"} => status[j] = "running"
  /\ run[r].pc = "preparing" => ~ run[r].over
  /\ run[r].pc = "ending" => /\ status[j] \in {"running", "failed", "canceled"}
                             /\ run[r].outcome \in Final

\* Nobody has a job that is over in hand, but a run that ends it anew.
Under(j) ==
  /\ j \in tm.pending => status[j] = "pending"
  /\ \A n \in Nodes : ListedBy(n, j) # {} => status[j] \in {"waiting", "running"}
  /\ \A n \in Nodes : j \in reaper[n].saving => status[j] \in {"running", "failed"} /\ ~ Away(j)
  /\ \A r \in RunsOf(j) : Agrees(r, j)

\* An answered request has told the run, or spoke of another task.
Told(j) ==
  cancel[j].pc = "done" /\ cancelFlag[j] =>
    \A r \in RunsOf(j) : Knows(r) \/ cancel[j].task \notin {0, run[r].task}

AllIn == IInv /\ \A j \in Jobs \ doubted : Under(j) /\ Told(j)

\* The job's own run.
LEMMA OwnRun ==
  ASSUME NEW j \in Jobs, Good(j), Under(j), NEW r \in RunsOf(j)
  PROVE  /\ \A q \in RunsOf(j) : q = r
         /\ \A n \in Nodes : ListedBy(n, j) = {} /\ j \notin reaper[n].saving
         /\ j \notin tm.pending /\ run[r].task = task[j] /\ Agrees(r, j)
<1>1. Away(j)
  BY DEF Away
<1> QED  BY <1>1 DEF Good, Under, NotInHand, OneListing, OneRun

LEMMA RunOther ==
  ASSUME Typed, NEW j \in Jobs, NEW r \in Runs, NEW f, RunStep(r, f), r \notin RunsOf(j)
  PROVE  /\ status'[j] = status[j] /\ RunsOf(j)' = RunsOf(j) /\ (Away(j)' <=> Away(j))
         /\ \A q \in RunsOf(j) : run'[q] = run[q]
         /\ \A n \in Nodes : ListedBy(n, j)' = ListedBy(n, j)
<1>1. \A q \in Runs : run'[q] = IF q = r THEN f ELSE run[q]
  BY DEF RunStep, SetRun, Typed, RunTyped
<1>2. run[r].pc = "free" \/ run[r].job # j
  BY DEF RunsOf, Alive
<1>3. f.pc = "free" \/ f.job # j
  BY <1>2 DEF RunStep
<1>4. RunsOf(j)' = RunsOf(j) /\ \A q \in RunsOf(j) : run'[q] = run[q]
  BY <1>1, <1>3 DEF RunsOf, Alive
<1>5. \A n \in Nodes : ListedBy(n, j)' = ListedBy(n, j)
  BY DEF ListedBy, RunStep
<1>6. status'[j] = status[j]
  <2>1. CASE run[r].job # j
    BY <2>1 DEF RunStep
  <2>2. CASE run[r].pc = "free"
    BY <2>2 DEF RunStep
  <2> QED  BY <1>2, <2>1, <2>2
<1> QED  BY <1>4, <1>5, <1>6 DEF Away

LEMMA RunUnder ==
  ASSUME Typed, NEW j \in Jobs, Good(j), Under(j), NEW r \in Runs, NEW f, RunStep(r, f)
  PROVE  Under(j)'
<1>1. \A q \in Runs : run'[q] = IF q = r THEN f ELSE run[q]
  BY DEF RunStep, SetRun, Typed, RunTyped
<1>2. UNCHANGED <<tm, reaper, dispatch>>
  BY DEF RunStep
<1>3. CASE r \in RunsOf(j)
  <2>1. run[r].job = j /\ run[r].pc # "free"
    BY <1>3 DEF RunsOf, Alive
  <2>2. /\ \A q \in RunsOf(j) : q = r
        /\ \A n \in Nodes : ListedBy(n, j) = {} /\ j \notin reaper[n].saving
        /\ j \notin tm.pending /\ Agrees(r, j)
    BY <1>3, OwnRun
  <2>3. \A n \in Nodes : ListedBy(n, j)' = {}
    BY <1>2, <2>2 DEF ListedBy
  <2>4. ASSUME NEW q \in RunsOf(j)'  PROVE q = r /\ f.pc # "free"
    BY <1>1, <2>2 DEF RunsOf, Alive
  <2>5. f.pc # "free" => Agrees(r, j)'
    <3>1. run'[r] = f
      BY <1>1
    <3> QED  BY <2>1, <2>2, <3>1 DEF RunStep, Agrees, Young, Final
  <2> QED  BY <1>2, <2>2, <2>3, <2>4, <2>5 DEF Under
<1>4. CASE r \notin RunsOf(j)
  BY <1>2, <1>4, RunOther DEF Under, Agrees, Young
<1> QED  BY <1>3, <1>4

LEMMA RunTold ==
  ASSUME Typed, NEW j \in Jobs, Good(j), Under(j), Told(j), NEW r \in Runs, NEW f, RunStep(r, f)
  PROVE  Told(j)'
<1> SUFFICES ASSUME cancel'[j].pc = "done", cancelFlag'[j], NEW q \in RunsOf(j)'
             PROVE  Knows(q)' \/ cancel'[j].task \notin {0, run'[q].task}
  BY DEF Told
<1>1. \A p \in Runs : run'[p] = IF p = r THEN f ELSE run[p]
  BY DEF RunStep, SetRun, Typed, RunTyped
<1>2. UNCHANGED <<cancel, cancelFlag>>
  BY DEF RunStep
<1>3. CASE q = r
  <2>1. f.pc # "free" /\ run'[r] = f
    BY <1>1, <1>3 DEF RunsOf, Alive
  <2>2. /\ run[r].pc # "free" /\ f.job = run[r].job /\ f.task = run[r].task
        /\ f.signal = run[r].signal
    BY <2>1 DEF RunStep
  <2>3. run[r].job = j /\ r \in RunsOf(j)
    BY <1>3, <2>1, <2>2 DEF RunsOf, Alive
  <2>4. Knows(r) \/ cancel[j].task \notin {0, run[r].task}
    BY <1>2, <2>3 DEF Told
  <2>5. Agrees(r, j)
    BY <2>3 DEF Under
  <2>6. Knows(r) => Knows(r)'
    <3>1. cancelFlag[j] = TRUE
      BY <1>2 DEF Typed, RowTyped
    <3> QED  BY <2>1, <2>2, <2>3, <3>1 DEF Knows, RunStep
  <2> QED  BY <1>2, <1>3, <2>1, <2>2, <2>4, <2>6
<1>4. CASE q # r
  <2>1. run'[q] = run[q] /\ q \in RunsOf(j)
    BY <1>1, <1>4 DEF RunsOf, Alive
  <2> QED  BY <1>2, <2>1 DEF Told, Knows
<1> QED  BY <1>3, <1>4

\* A step that leaves the job and its runs as they are, or ends runs.
LEMMA UnderCarry ==
  ASSUME NEW j \in Jobs, Under(j), status'[j] = status[j],
         j \in tm'.pending => j \in tm.pending \/ status[j] = "pending",
         \A n \in Nodes : ListedBy(n, j)' \subseteq ListedBy(n, j),
         \A r \in RunsOf(j)' : /\ r \in RunsOf(j) /\ run'[r].pc = run[r].pc
                               /\ run'[r].over = run[r].over /\ run'[r].outcome = run[r].outcome,
         \A n \in Nodes : j \in reaper'[n].saving =>
            \/ \E m \in Nodes : j \in reaper[m].saving
            \/ status[j] \in {"running", "failed"} /\ ~ Away(j)
  PROVE  Under(j)'
<1>1. Away(j)' => Away(j)
  BY DEF Away
<1>2. \A n \in Nodes : ListedBy(n, j)' # {} => status'[j] \in {"waiting", "running"}
  BY DEF Under
<1>3. \A n \in Nodes : j \in reaper'[n].saving => status'[j] \in {"running", "failed"} /\ ~ Away(j)'
  BY <1>1 DEF Under
<1>4. ASSUME NEW r \in RunsOf(j)'  PROVE Agrees(r, j)'
  BY DEF Under, Agrees, Young
<1> QED  BY <1>2, <1>3, <1>4 DEF Under

LEMMA ToldCarry ==
  ASSUME NEW j \in Jobs, Told(j), cancel'[j] = cancel[j],
         RunsOf(j)' # {} => cancelFlag'[j] = cancelFlag[j],
         \A r \in RunsOf(j)' : \/ run'[r].pc = "queued"
                               \/ r \in RunsOf(j) /\ run'[r] = run[r]
  PROVE  Told(j)'
<1> SUFFICES ASSUME cancel'[j].pc = "done", cancelFlag'[j], NEW r \in RunsOf(j)'
             PROVE  Knows(r)' \/ cancel'[j].task \notin {0, run'[r].task}
  BY DEF Told
<1>1. CASE run'[r].pc = "queued"
  BY <1>1 DEF Knows
<1>2. CASE r \in RunsOf(j) /\ run'[r] = run[r]
  BY <1>2 DEF Told, Knows
<1> QED  BY <1>1, <1>2

\* A job with no list, run or reaper left may get any status.
LEMMA UnderFree ==
  ASSUME NEW j \in Jobs, ~ Away(j)', j \in tm'.pending => status'[j] = "pending",
         \A n \in Nodes : j \in reaper'[n].saving => status'[j] \in {"running", "failed"}
  PROVE  Under(j)'
BY DEF Away, Under

LEMMA TmUnder ==
  ASSUME Typed, NEW j \in Jobs, Good(j), Under(j), Told(j), TmNext
  PROVE  Under(j)' /\ Told(j)'
<1>1. UNCHANGED <<dispatch, run, reaper, cancel>>
  BY DEF TmNext, TmFetch, TmCommits, TmCommit, nodeVars
<1>2. RunsOf(j)' = RunsOf(j) /\ (Away(j)' <=> Away(j))
      /\ \A n \in Nodes : ListedBy(n, j)' = ListedBy(n, j)
  BY <1>1 DEF Away, RunsOf, Alive, ListedBy
<1>3. CASE TmFetch
  <2>1. UNCHANGED <<status, cancelFlag>> /\ (j \in tm'.pending => status[j] = "pending")
    BY <1>3 DEF TmFetch, rowVars
  <2> QED  BY <1>1, <1>2, <2>1, UnderCarry, ToldCarry
<1>4. ASSUME NEW d, TmCommit(d)  PROVE Under(j)' /\ Told(j)'
  <2>1. tm'.pending = {}
    BY <1>4 DEF TmCommit, NoPass
  <2>2. CASE j \in tm.pending
    <3>1. ~ Away(j) /\ RunsOf(j) = {} /\ \A n \in Nodes : j \notin reaper[n].saving
      BY <2>2 DEF Good, NotInHand, Away, Under
    <3> QED  BY <1>1, <1>2, <2>1, <3>1, UnderFree, ToldCarry
  <2>3. CASE j \notin tm.pending
    <3>1. status'[j] = status[j] /\ cancelFlag'[j] = cancelFlag[j]
      BY <1>4, <2>3 DEF TmCommit
    <3> QED  BY <1>1, <1>2, <2>1, <3>1, UnderCarry, ToldCarry
  <2> QED  BY <2>2, <2>3
<1> QED  BY <1>3, <1>4 DEF TmNext, TmCommits

LEMMA ListsUnder ==
  ASSUME Typed, NEW j \in Jobs, Good(j), Under(j), Told(j), NEW n \in Nodes, DispatchLists(n)
  PROVE  Under(j)' /\ Told(j)'
<1> DEFINE todo == {<<i, task[i]>> : i \in {i \in Jobs : status[i] = "waiting" /\ node[i] = n}}
<1>1. /\ dispatch'[n].todo = todo
      /\ \A m \in Nodes : m # n => dispatch'[m] = dispatch[m]
      /\ UNCHANGED <<status, cancelFlag, tm, run, reaper, cancel>>
  BY DEF DispatchLists, NoDispatch, SetDispatch, Typed, DispatchTyped, rowVars
<1>2. RunsOf(j)' = RunsOf(j)
  BY <1>1 DEF RunsOf, Alive
<1>3. Told(j)'
  BY <1>1, <1>2, ToldCarry
<1>4. \A m \in Nodes : m # n => ListedBy(m, j)' = ListedBy(m, j)
  BY <1>1 DEF ListedBy
<1>5. CASE status[j] = "waiting" /\ node[j] = n
  <2>1. \A m \in Nodes : j \notin reaper[m].saving
    BY <1>5 DEF Under
  <2>2. \A r \in RunsOf(j)' : Agrees(r, j)'
    BY <1>1, <1>2 DEF Under, Agrees, Young
  <2> QED  BY <1>1, <1>3, <1>5, <2>1, <2>2 DEF Under
<1>6. CASE ~ (status[j] = "waiting" /\ node[j] = n)
  <2>1. ListedBy(n, j)' = {}
    BY <1>1, <1>6 DEF ListedBy
  <2> QED  BY <1>1, <1>2, <1>3, <1>4, <2>1, UnderCarry
<1> QED  BY <1>5, <1>6

LEMMA SubmitsUnder ==
  ASSUME Typed, NEW j \in Jobs, Good(j), Under(j), Told(j), NEW n \in Nodes, NEW r \in Runs,
         DispatchSubmits(n, r)
  PROVE  Under(j)' /\ Told(j)'
<1>1. PICK s \in dispatch[n].todo :
         /\ run' = [run EXCEPT ![r] = [NoRun EXCEPT !.pc = "queued", !.job = s[1],
                                                    !.node = n, !.task = s[2]]]
         /\ SetDispatch(n, [todo |-> dispatch[n].todo \ {s}, marking |-> {s[1]}])
  BY DEF DispatchSubmits
<1>2. UNCHANGED <<status, cancelFlag, tm, reaper, cancel>>
  BY DEF DispatchSubmits, rowVars
<1>3. /\ run'[r].pc = "queued" /\ run'[r].job = s[1] /\ ~ run'[r].over
      /\ \A q \in Runs : q # r => run'[q] = run[q]
  <2>1. NoRun = [pc |-> NoRun.pc, job |-> NoRun.job, node |-> NoRun.node, task |-> NoRun.task,
                 flag |-> NoRun.flag, over |-> FALSE, signal |-> NoRun.signal,
                 outcome |-> NoRun.outcome]
    BY DEF NoRun
  <2> QED  BY <1>1, <2>1 DEF Typed, RunTyped
<1>4. /\ dispatch'[n].todo = dispatch[n].todo \ {s}
      /\ \A m \in Nodes : m # n => dispatch'[m] = dispatch[m]
  BY <1>1 DEF SetDispatch, Typed, DispatchTyped
<1>5. \A m \in Nodes : ListedBy(m, j)' \subseteq ListedBy(m, j)
  BY <1>4 DEF ListedBy
<1>6. Told(j)'
  <2>1. \A q \in RunsOf(j)' : run'[q].pc = "queued" \/ (q \in RunsOf(j) /\ run'[q] = run[q])
    BY <1>3 DEF RunsOf, Alive
  <2> QED  BY <1>2, <2>1, ToldCarry
<1>7. CASE j = s[1]
  <2>1. s \in ListedBy(n, j)
    BY <1>7 DEF ListedBy
  <2>2. RunsOf(j) = {} /\ status[j] \in {"waiting", "running"} /\ Away(j)
    BY <2>1 DEF Good, OneListing, Under, Away
  <2>3. \A q \in RunsOf(j)' : q = r
    BY <1>3, <2>2 DEF RunsOf, Alive
  <2>4. Agrees(r, j)'
    BY <1>2, <1>3, <2>2 DEF Agrees, Young
  <2>5. (\A m \in Nodes : j \notin reaper'[m].saving) /\ (j \in tm'.pending => status'[j] = "pending")
    BY <1>2, <2>2 DEF Under
  <2> QED  BY <1>2, <1>6, <2>2, <2>3, <2>4, <2>5 DEF Under
<1>8. CASE j # s[1]
  <2>1. \A q \in RunsOf(j)' : q \in RunsOf(j) /\ run'[q] = run[q]
    BY <1>3, <1>8 DEF RunsOf, Alive
  <2> QED  BY <1>2, <1>5, <1>6, <2>1, UnderCarry
<1> QED  BY <1>7, <1>8

LEMMA MarksUnder ==
  ASSUME Typed, NEW j \in Jobs, Good(j), Under(j), Told(j), NEW n \in Nodes,
         DispatchMarks(n) \/ DispatchDies(n)
  PROVE  Under(j)' /\ Told(j)'
<1>1. /\ dispatch'[n].todo \subseteq dispatch[n].todo
      /\ \A m \in Nodes : m # n => dispatch'[m] = dispatch[m]
      /\ UNCHANGED <<cancelFlag, tm, run, reaper, cancel>>
  BY DEF DispatchMarks, DispatchDies, SetDispatch, NoDispatch, Typed, DispatchTyped, DispatchType,
     rowVars
<1>2. \A m \in Nodes : ListedBy(m, j)' \subseteq ListedBy(m, j)
  BY <1>1 DEF ListedBy
<1>3. RunsOf(j)' = RunsOf(j)
  BY <1>1 DEF RunsOf, Alive
<1>4. Told(j)'
  BY <1>1, <1>3, ToldCarry
<1>5. status'[j] = status[j] \/ (status[j] = "waiting" /\ status'[j] = "running")
  <2>1. CASE DispatchMarks(n)
    <3>1. PICK i \in dispatch[n].marking :
             IF status[i] = "waiting" THEN SetStatus(i, "running") ELSE UNCHANGED status
      BY <2>1 DEF DispatchMarks
    <3>2. i \in Jobs
      BY DEF Typed, DispatchTyped, DispatchType
    <3> QED  BY <3>1, <3>2 DEF SetStatus, Typed, RowTyped
  <2>2. CASE DispatchDies(n)
    BY <2>2 DEF DispatchDies, rowVars
  <2> QED  BY <2>1, <2>2
<1>6. CASE status'[j] = status[j]
  BY <1>1, <1>2, <1>3, <1>4, <1>6, UnderCarry
<1>7. CASE status[j] = "waiting" /\ status'[j] = "running"
  <2>1. \A m \in Nodes : j \notin reaper[m].saving
    BY <1>7 DEF Under
  <2>2. j \notin tm.pending
    BY <1>7 DEF Under
  <2>3. ASSUME NEW r \in RunsOf(j)'  PROVE Agrees(r, j)'
    <3>1. Agrees(r, j) /\ Young(r)
      BY <1>3, <1>7 DEF Under, Good, OneRun
    <3> QED  BY <1>1, <1>7, <3>1 DEF Agrees, Young
  <2> QED  BY <1>1, <1>4, <1>7, <2>1, <2>2, <2>3 DEF Under
<1> QED  BY <1>5, <1>6, <1>7

LEMMA CancelUnder ==
  ASSUME Typed, NEW j \in Jobs, Good(j), Under(j), Told(j), NEW i \in Jobs, CancelNext(i)
  PROVE  Under(j)' /\ Told(j)'
<1>1. UNCHANGED <<status, node, task, tm, dispatch, reaper>>
  BY DEF CancelNext, CancelReads, CancelSaves, CancelSignals, rowVars, nodeVars
<1>2. \A r \in Runs : /\ run'[r].pc = run[r].pc /\ run'[r].job = run[r].job
                      /\ run'[r].task = run[r].task /\ run'[r].over = run[r].over
                      /\ run'[r].outcome = run[r].outcome /\ run'[r].flag = run[r].flag
                      /\ run[r].signal => run'[r].signal
  <2>1. CASE CancelReads(i) \/ CancelSaves(i)
    BY <2>1 DEF CancelReads, CancelSaves, nodeVars
  <2>2. CASE CancelSignals(i)
    BY <2>2 DEF CancelSignals, Typed, RunTyped, RunType
  <2> QED  BY <2>1, <2>2 DEF CancelNext
<1>3. RunsOf(j)' = RunsOf(j) /\ \A n \in Nodes : ListedBy(n, j)' = ListedBy(n, j)
  BY <1>1, <1>2 DEF RunsOf, Alive, ListedBy
<1>4. Under(j)'
  <2>1. \A r \in RunsOf(j)' : /\ r \in RunsOf(j) /\ run'[r].pc = run[r].pc
                              /\ run'[r].over = run[r].over /\ run'[r].outcome = run[r].outcome
    BY <1>2, <1>3 DEF RunsOf
  <2> QED  BY <1>1, <1>3, <2>1, UnderCarry
<1>5. Told(j)'
  <2>1. CASE i = j /\ (CancelReads(i) \/ CancelSaves(i))
    <3>1. cancel'[j].pc # "done"
      BY <2>1 DEF CancelReads, CancelSaves, Typed, RestTyped, CancelType
    <3> QED  BY <3>1 DEF Told
  <2>2. CASE i = j /\ CancelSignals(i)
    <3>1. cancel'[j].task = cancel[j].task
      BY <2>2 DEF CancelSignals, Typed, RestTyped, CancelType
    <3> SUFFICES ASSUME NEW r \in RunsOf(j)
                 PROVE  Knows(r)' \/ cancel'[j].task \notin {0, run'[r].task}
      BY <1>3 DEF Told
    <3>2. r \in Runs /\ Alive(r, j) /\ run[r].task = task[j]
      BY DEF RunsOf, Good, OneRun
    <3>3. CASE run[r].pc = "queued"
      BY <1>2, <3>2, <3>3 DEF Knows
    <3>4. CASE run[r].pc # "queued" /\ run[r].task = CancelId(j)
      <4>1. Begun(r)
        BY <3>2, <3>4 DEF Begun, Alive
      <4>2. run'[r].signal = TRUE
        BY <2>2, <3>2, <3>4, <4>1 DEF CancelSignals, Typed, RunTyped, RunType
      <4> QED  BY <4>2 DEF Knows
    <3>5. CASE run[r].task # CancelId(j)
      BY <1>2, <3>1, <3>2, <3>5 DEF CancelId
    <3> QED  BY <3>3, <3>4, <3>5
  <2>3. CASE i # j
    <3>1. cancel'[j] = cancel[j] /\ cancelFlag'[j] = cancelFlag[j]
      BY <2>3 DEF CancelNext, CancelReads, CancelSaves, CancelSignals, rowVars, Typed, RestTyped, RowTyped
    <3> SUFFICES ASSUME cancel[j].pc = "done", cancelFlag[j], NEW r \in RunsOf(j)
                 PROVE  Knows(r)' \/ cancel'[j].task \notin {0, run'[r].task}
      BY <1>3, <3>1 DEF Told
    <3>2. r \in Runs
      BY DEF RunsOf
    <3> QED  BY <1>2, <3>1, <3>2 DEF Told, Knows
  <2> QED  BY <2>1, <2>2, <2>3 DEF CancelNext
<1> QED  BY <1>4, <1>5

LEMMA ReaperUnder ==
  ASSUME Typed, NEW j \in Jobs \ doubted', Good(j), Under(j), Told(j), NEW n \in Nodes,
         ReaperNext(n) \/ StartupSelects(n) \/ (\E m \in Nodes : LostSelects(m, n))
  PROVE  Under(j)' /\ Told(j)'
<1>1. UNCHANGED <<cancelFlag, tm, dispatch, run, cancel>>
  BY DEF ReaperNext, HeartbeatLists, HeartbeatSelects, StartupSelects, LostSelects,
     ReaperRefreshes, ReaperSaves, ReaperEnds, ReaperUnchanged, rowVars
<1>2. /\ RunsOf(j)' = RunsOf(j) /\ (Away(j)' <=> Away(j))
      /\ \A m \in Nodes : ListedBy(m, j)' = ListedBy(m, j)
  BY <1>1 DEF Away, RunsOf, Alive, ListedBy
<1>3. Told(j)'
  BY <1>1, <1>2, ToldCarry
<1>4. \A m \in Nodes : Idle(m).saving = {} /\ Idle(m) \in ReaperType
  BY IdleTyped DEF Idle
<1>5. CASE \/ HeartbeatLists(n) \/ HeartbeatSelects(n) \/ StartupSelects(n)
           \/ (\E m \in Nodes : LostSelects(m, n))
  <2>1. UNCHANGED status
    BY <1>5 DEF HeartbeatLists, HeartbeatSelects, StartupSelects, LostSelects, ReaperUnchanged,
       rowVars
  <2>2. PICK m \in Nodes : \E h : SetReaper(m, h) /\ h.saving = {}
    <3>1. \A A, pc : [Idle(n) EXCEPT !.pc = pc, !.active = A].saving = {}
      BY <1>4 DEF ReaperType
    <3>2. \A V, pc : [Idle(n) EXCEPT !.pc = pc, !.victims = V].saving = {}
      BY <1>4 DEF ReaperType
    <3>3. CASE HeartbeatLists(n)
      BY <3>1, <3>3 DEF HeartbeatLists
    <3>4. CASE HeartbeatSelects(n)
      BY <1>4, <3>2, <3>4 DEF HeartbeatSelects
    <3>5. CASE StartupSelects(n)
      BY <3>2, <3>5 DEF StartupSelects
    <3>6. CASE \E m \in Nodes : LostSelects(m, n)
      BY <3>2, <3>6 DEF LostSelects
    <3> QED  BY <1>5, <3>3, <3>4, <3>5, <3>6
  <2>3. \A k \in Nodes : reaper'[k].saving \subseteq reaper[k].saving
    BY <2>2 DEF SetReaper, Typed, ReaperTyped
  <2> QED  BY <1>1, <1>2, <1>3, <2>1, <2>3, UnderCarry
<1>6. ASSUME NEW i \in Jobs, ReaperRefreshes(n, i)  PROVE Under(j)' /\ Told(j)'
  <2>1. UNCHANGED status
    BY <1>6 DEF ReaperRefreshes, ReaperUnchanged, rowVars
  <2>2. /\ \A k \in Nodes : k # n => reaper'[k] = reaper[k]
        /\ j \in reaper'[n].saving => i = j /\ status[j] \in {"running", "waiting"} /\ Doubt({j})
    <3>1. CASE status[i] \in {"running", "waiting"}
      <4>1. /\ SetReaper(n, [reaper[n] EXCEPT !.victims = @ \ {i}, !.saving = {i}])
            /\ Doubt({i})
        BY <1>6, <3>1 DEF ReaperRefreshes
      <4>2. /\ \A k \in Nodes : k # n => reaper'[k] = reaper[k]
            /\ reaper'[n].saving = {i}
        BY <4>1 DEF SetReaper, Typed, ReaperTyped, ReaperType
      <4>3. j \in reaper'[n].saving => i = j
        BY <4>2
      <4> QED  BY <3>1, <4>1, <4>2, <4>3
    <3>2. CASE status[i] \notin {"running", "waiting"}
      BY <1>6, <3>2 DEF ReaperRefreshes, SetReaper, Typed, ReaperTyped, ReaperType
    <3> QED  BY <3>1, <3>2
  <2>3. j \in reaper'[n].saving => status[j] = "running" /\ ~ Away(j)
    BY <2>2 DEF Doubt
  <2> QED  BY <1>1, <1>2, <1>3, <2>1, <2>2, <2>3, UnderCarry
<1>7. ASSUME NEW i \in Jobs, ReaperSaves(n, i)  PROVE Under(j)' /\ Told(j)'
  <2>1. /\ i \in reaper[n].saving
        /\ \A k \in Jobs : status'[k] = IF k = i THEN "failed" ELSE status[k]
        /\ \A k \in Nodes : reaper'[k].saving \subseteq reaper[k].saving
    BY <1>7 DEF ReaperSaves, SetStatus, SetReaper, Typed, RowTyped, ReaperTyped, ReaperType
  <2>2. CASE i = j
    <3>1. ~ Away(j) /\ j \notin tm.pending
      BY <2>1, <2>2 DEF Under
    <3> QED  BY <1>1, <1>2, <1>3, <2>1, <2>2, <3>1, UnderFree
  <2>3. CASE i # j
    BY <1>1, <1>2, <1>3, <2>1, <2>3, UnderCarry
  <2> QED  BY <2>2, <2>3
<1>8. CASE ReaperEnds(n)
  <2> DEFINE back == {i \in Jobs : reaper[n].of # n /\ status[i] = "waiting"
                                   /\ node[i] = reaper[n].of}
  <2>1. /\ status' = [i \in Jobs |-> IF i \in back THEN "pending" ELSE status[i]]
        /\ doubted' = doubted \cup {i \in back : Away(i)}
        /\ SetReaper(n, Idle(n))
    BY <1>8 DEF ReaperEnds
  <2>2. \A k \in Nodes : reaper'[k].saving \subseteq reaper[k].saving
    BY <1>4, <2>1 DEF SetReaper, Typed, ReaperTyped
  <2>3. CASE j \in back
    <3>1. ~ Away(j) /\ status[j] = "waiting"
      BY <2>1, <2>3
    <3>2. j \notin tm.pending /\ \A k \in Nodes : j \notin reaper[k].saving
      BY <3>1 DEF Under
    <3> QED  BY <1>1, <1>2, <1>3, <2>2, <3>1, <3>2, UnderFree
  <2>4. CASE j \notin back
    BY <1>1, <1>2, <1>3, <2>1, <2>2, <2>4, UnderCarry
  <2> QED  BY <2>3, <2>4
<1> QED  BY <1>5, <1>6, <1>7, <1>8 DEF ReaperNext

LEMMA RestartsUnder ==
  ASSUME Typed, NEW j \in Jobs, Good(j), Under(j), Told(j), NEW n \in Nodes, NodeRestarts(n)
  PROVE  Under(j)' /\ Told(j)'
<1>1. /\ UNCHANGED <<status, cancelFlag, tm, cancel>>
      /\ \A r \in Runs : run'[r] = IF run[r].node = n THEN NoRun ELSE run[r]
      /\ dispatch'[n] = NoDispatch
      /\ \A m \in Nodes : m # n => dispatch'[m] = dispatch[m]
      /\ reaper'[n] = Idle(n)
      /\ \A m \in Nodes : m # n => reaper'[m] = reaper[m]
  BY DEF NodeRestarts, SetDispatch, SetReaper, rowVars, Typed, DispatchTyped, ReaperTyped
<1>2. ASSUME NEW r \in RunsOf(j)'  PROVE r \in RunsOf(j) /\ run'[r] = run[r]
  <2>1. CASE run[r].node = n
    <3>1. run'[r] = NoRun /\ NoRun.pc = "free"
      BY <1>1, <2>1 DEF NoRun, RunsOf
    <3> QED  BY <3>1 DEF RunsOf, Alive
  <2>2. CASE run[r].node # n
    BY <1>1, <2>2 DEF RunsOf, Alive
  <2> QED  BY <2>1, <2>2
<1>3. \A m \in Nodes : ListedBy(m, j)' \subseteq ListedBy(m, j)
  BY <1>1 DEF ListedBy, NoDispatch
<1>4. \A m \in Nodes : reaper'[m].saving \subseteq reaper[m].saving
  BY <1>1 DEF Idle
<1> QED  BY <1>1, <1>2, <1>3, <1>4, UnderCarry, ToldCarry

LEMMA AllInKept == AllIn /\ [Next]_vars => AllIn'
<1> SUFFICES ASSUME AllIn, [Next]_vars  PROVE AllIn'
  OBVIOUS
<1>1. IInv' /\ Typed
  BY StepKeeps DEF AllIn, IInv
<1>2. ASSUME NEW j \in Jobs \ doubted'  PROVE Under(j)' /\ Told(j)'
  <2>1. j \notin doubted /\ Good(j) /\ Under(j) /\ Told(j)
    BY DoubtStays DEF AllIn, IInv
  <2>2. CASE UNCHANGED vars
    <3>1. RunsOf(j)' = RunsOf(j) /\ \A n \in Nodes : ListedBy(n, j)' = ListedBy(n, j)
      BY <2>2 DEF RunsOf, Alive, ListedBy, vars, nodeVars
    <3> QED  BY <2>1, <2>2, <3>1, UnderCarry, ToldCarry DEF vars, rowVars, nodeVars
  <2>3. ASSUME NEW n \in Nodes,
               \/ DispatchNext(n) \/ DispatchDies(n) \/ ReaperNext(n) \/ StartupSelects(n)
               \/ NodeRestarts(n) \/ \E m \in Nodes : LostSelects(m, n)
        PROVE  Under(j)' /\ Told(j)'
    BY <1>1, <2>1, <2>3, ListsUnder, SubmitsUnder, MarksUnder, ReaperUnder, RestartsUnder
    DEF DispatchNext
  <2>4. ASSUME NEW r \in Runs, RunNext(r) \/ RunSaves(r) \/ RunOverQuota(r) \/ RunDies(r)
        PROVE  Under(j)' /\ Told(j)'
    BY <1>1, <2>1, <2>4, RunSteps, RunUnder, RunTold
  <2>5. ASSUME NEW i \in Jobs, CancelNext(i)  PROVE Under(j)' /\ Told(j)'
    BY <1>1, <2>1, <2>5, CancelUnder
  <2>6. CASE TmNext
    BY <1>1, <2>1, <2>6, TmUnder
  <2> QED  BY <2>2, <2>3, <2>4, <2>5, <2>6 DEF Next
<1> QED  BY <1>1, <1>2 DEF AllIn

LEMMA InitAllIn == Init => AllIn
<1> SUFFICES ASSUME Init  PROVE AllIn
  OBVIOUS
<1>1. \A j \in Jobs : RunsOf(j) = {} /\ \A n \in Nodes : ListedBy(n, j) = {}
  BY DEF Init, RunsOf, Alive, NoRun, ListedBy, NoDispatch
<1>2. \A j \in Jobs : Under(j) /\ Told(j)
  BY <1>1 DEF Init, NoPass, Idle, Under, Told
<1> QED  BY <1>2, InitKeeps DEF AllIn

\* What is known of a job at every moment: who has it, how far it has got, and
\* whether its run has been told of its cancellation.
THEOREM AllKept == Spec => []AllIn
BY InitAllIn, AllInKept, PTL DEF Spec

\* An answered cancellation reaches the run, wherever in the dispatch the
\* request came.
THEOREM CancelReaches == Spec => []CancelReachesTheRun
<1>1. AllIn => CancelReachesTheRun
  BY DEF AllIn, Told, CancelReachesTheRun
<1> QED  BY <1>1, AllKept, PTL

-----------------------------------------------------------------------------
(* A job that is over.                                                     *)

LEMMA StaysOver ==
  ASSUME AllIn, [Next]_vars, NEW j \in Jobs \ doubted, status[j] \in Final
  PROVE  /\ status'[j] \in Final
         /\ status[j] = "successful" => status'[j] = "successful"
<1>1. Typed /\ Good(j) /\ Under(j)
  BY DEF AllIn, IInv
<1>2. CASE UNCHANGED vars
  BY <1>2 DEF vars, rowVars
<1>3. ASSUME NEW n \in Nodes,
             \/ DispatchNext(n) \/ DispatchDies(n) \/ ReaperNext(n) \/ StartupSelects(n)
             \/ NodeRestarts(n) \/ \E m \in Nodes : LostSelects(m, n)
      PROVE  \/ status'[j] = status[j]
             \/ status[j] = "failed" /\ status'[j] = "failed"
  <2>1. CASE DispatchMarks(n)
    <3>1. PICK i \in dispatch[n].marking :
             IF status[i] = "waiting" THEN SetStatus(i, "running") ELSE UNCHANGED status
      BY <2>1 DEF DispatchMarks
    <3>2. i \in Jobs
      BY <1>1 DEF Typed, DispatchTyped, DispatchType
    <3> QED  BY <1>1, <3>1, <3>2 DEF SetStatus, Typed, RowTyped, Final
  <2>2. ASSUME NEW i \in Jobs, ReaperSaves(n, i)
        PROVE  status'[j] = status[j] \/ (status[j] = "failed" /\ status'[j] = "failed")
    <3>1. /\ i \in reaper[n].saving
          /\ status'[j] = IF j = i THEN "failed" ELSE status[j]
      BY <1>1, <2>2 DEF ReaperSaves, SetStatus, Typed, RowTyped
    <3>2. j = i => status[j] \in {"running", "failed"}
      BY <1>1, <3>1 DEF Under
    <3> QED  BY <3>1, <3>2 DEF Final
  <2>3. CASE ReaperEnds(n)
    BY <2>3 DEF ReaperEnds, Final
  <2>4. CASE \/ DispatchLists(n) \/ (\E r \in Runs : DispatchSubmits(n, r)) \/ DispatchDies(n)
             \/ HeartbeatLists(n) \/ HeartbeatSelects(n) \/ StartupSelects(n)
             \/ NodeRestarts(n) \/ (\E m \in Nodes : LostSelects(m, n))
             \/ (\E i \in Jobs : ReaperRefreshes(n, i))
    BY <2>4 DEF DispatchLists, DispatchSubmits, DispatchDies, HeartbeatLists, HeartbeatSelects,
       StartupSelects, NodeRestarts, LostSelects, ReaperRefreshes, ReaperUnchanged, rowVars
  <2> QED  BY <1>3, <2>1, <2>2, <2>3, <2>4 DEF DispatchNext, ReaperNext
<1>4. ASSUME NEW r \in Runs, RunNext(r) \/ RunSaves(r) \/ RunOverQuota(r) \/ RunDies(r)
      PROVE  /\ status'[j] \in Final
             /\ status[j] = "successful" => status'[j] = "successful"
  <2>1. PICK f : RunStep(r, f)
    BY <1>1, <1>4, RunSteps
  <2>2. CASE r \in RunsOf(j)
    <3>1. Agrees(r, j) /\ run[r].job = j
      BY <1>1, <2>2 DEF Under, RunsOf, Alive
    <3> QED  BY <2>1, <3>1 DEF RunStep, Agrees, Young, Final
  <2>3. CASE r \notin RunsOf(j)
    BY <1>1, <2>1, <2>3, RunOther
  <2> QED  BY <2>2, <2>3
<1>5. ASSUME NEW i \in Jobs, CancelNext(i)  PROVE status'[j] = status[j]
  BY <1>5 DEF CancelNext, CancelReads, CancelSaves, CancelSignals, rowVars
<1>6. CASE TmNext
  <2>1. CASE TmFetch
    BY <2>1 DEF TmFetch, rowVars
  <2>2. ASSUME NEW d, TmCommit(d)  PROVE status'[j] = status[j]
    <3>1. j \notin tm.pending
      BY <1>1 DEF Under, Final
    <3> QED  BY <2>2, <3>1 DEF TmCommit
  <2> QED  BY <1>6, <2>1, <2>2 DEF TmNext, TmCommits
<1> QED  BY <1>2, <1>3, <1>4, <1>5, <1>6 DEF Next

\* A job that is over stays over, and a successful one successful, whatever
\* races with its end, unless somebody took its run for gone.
THEOREM OverStaysOver == Spec => FinalIsOver
<1>1. AllIn /\ [Next]_vars =>
        [\A j \in Jobs : status[j] \in Final /\ j \notin doubted
           => /\ status'[j] \in Final
              /\ status[j] = "successful" => status'[j] = "successful"]_vars
  BY StaysOver
<1> QED  BY <1>1, AllKept, PTL DEF Spec, FinalIsOver
==============================================================================
