-------------------------- MODULE JobWrapup_proofs --------------------------
(***************************************************************************)
(* Theorems about JobWrapup, for every set of jobs, receivers and faults.  *)
(*                                                                         *)
(* The argument follows the wrapup event.  It is in one place at a time    *)
(* (OneEvent) and on its trail from the worker to the counts (Trail), so   *)
(* whoever looks at the row of a job that ran once knows from it how far   *)
(* the other has got: at most one of the two is to notify (Honest), and,   *)
(* as long as neither the event, the worker nor the lock was lost, at      *)
(* least one is (Accounted).  A job that runs again finds the counts of    *)
(* its first run, so it may be told twice; the event of its own run keeps  *)
(* Accounted true.                                                         *)
(***************************************************************************)
EXTENDS JobWrapup, TLAPS

Somewhere(e) == e \in queue \/ \E r \in Receivers : e \in buffer[r] \cup saved[r]
Pending(j) == \E e \in Events : e[1] = j /\ Somewhere(e)
Own(j) == Somewhere(<<j, runs[j]>>)
Early(j) == \A e \in Events : e[1] = j /\ Somewhere(e) => e[2] <= runs[j]
Hooked(j) == \E r \in Receivers : \E h \in hooking[r] : h[1] = j
Told(j) == \A i \in DOMAIN sent[j] : status[j] \in Final /\ sent[j][i] = status[j]

\* A wrapup event is in one place, and so is the call it leads to, if the job
\* ran once.
OneEvent ==
  /\ \A r \in Receivers : /\ buffer[r] \cap saved[r] = {}
                          /\ queue \cap (buffer[r] \cup saved[r]) = {}
  /\ \A r \in Receivers, s \in Receivers : r # s =>
       (buffer[r] \cup saved[r]) \cap (buffer[s] \cup saved[s]) = {}
  /\ \A r \in Receivers, s \in Receivers :
       \A h \in hooking[r], k \in hooking[s] :
         (r = s \/ (h[1] = k[1] /\ runs[h[1]] = 1)) => r = s /\ h = k

\* Dispatched, then pending, then counted, then perhaps a call to make.
Trail(j) ==
  /\ Early(j)
  /\ Own(j) => dispatched[j]
  /\ seenCounted[j] => counted[j]
  /\ runs[j] = 1 => /\ Pending(j) => ~counted[j]
                    /\ counted[j] => dispatched[j]
                    /\ Hooked(j) => counted[j]
  /\ reaping[j] \in {"written", "over"} => "reaped" \in mishaps[j]
  /\ reaping[j] = "over" => sent[j] # <<>>
  /\ worker[j] = "idle" => status[j] = "pending" \/ reaping[j] \in {"written", "over"}

\* Of a job the reaper left alone: the notification is still to come, or was
\* sent by the one whose turn it was.
Honest(j) ==
  "reaped" \notin mishaps[j] =>
    /\ worker[j] \in {"running", "idle", "ended", "retrying", "writing"} =>
         status[j] \notin Final /\ sent[j] = <<>>
    /\ worker[j] \in {"saved", "done"} => status[j] \in Final
    /\ status[j] \in Final => status[j] = outcome[j]
    /\ \A r \in Receivers : \A h \in hooking[r] : h[1] = j =>
         /\ h[2] = status[j] /\ status[j] \in Final
         /\ runs[j] = 1 => sent[j] = <<>> /\ dispatched[j] /\ ~seenCounted[j]
    /\ Told(j)
    /\ runs[j] = 1 =>
         /\ Len(sent[j]) <= 1
         /\ Pending(j) => sent[j] = <<>>
         /\ worker[j] = "saved" /\ sent[j] # <<>> => dispatched[j] /\ ~seenCounted[j]

\* Of a job that lost neither its event, its worker nor the lock: whoever
\* came first left the other one the notification to send.
Accounted(j) ==
  mishaps[j] \cap {"lost", "died", "unlocked"} = {} =>
    /\ worker[j] \notin {"writing", "dead"}
    /\ dispatched[j] /\ ~Own(j) => counted[j]
    /\ worker[j] \in {"saved", "done"} => status[j] \in Final
    /\ worker[j] \in {"saved", "done"} /\ counted[j] /\ ~seenCounted[j] =>
         Hooked(j) \/ sent[j] # <<>>
    /\ worker[j] = "done" /\ (seenCounted[j] \/ ~dispatched[j]) => sent[j] # <<>>

JobInv(j) == Trail(j) /\ Honest(j) /\ Accounted(j)

IInv == /\ TypeOK
        /\ OneEvent
        /\ \A j \in Jobs : JobInv(j)

-----------------------------------------------------------------------------
(* Types *)

\* The jobs start with variables of the right type.
LEMMA InitType == Init => TypeOK
BY MaxRunsAssumption, MaxFaultsAssumption DEF Init, TypeOK, Final, Mishaps

\* The count of what goes wrong keeps within its bound.
LEMMA GoesType ==
  ASSUME TypeOK, NEW wrong, Goes(wrong)
  PROVE  faults' \in 0..MaxFaults
BY MaxFaultsAssumption DEF TypeOK, Goes

\* The worker's steps keep the types.
LEMMA WorkerType ==
  ASSUME TypeOK, NEW j \in Jobs,
         WorkerDispatches(j) \/ WorkerStep(j)
           \/ WorkerDispatchFails(j) \/ WorkerOverQuota(j)
           \/ WorkerSaveFails(j) \/ WorkerDies(j)
  PROVE  TypeOK'
<1>1. CASE WorkerDispatches(j)
  BY <1>1 DEF WorkerDispatches, Events, TypeOK, dbVars, receiverVars
<1>2. CASE \E st \in Final : WorkerEnds(j, st)
  BY <1>2 DEF WorkerEnds, At, TypeOK, dbVars, receiverVars
<1>3. CASE WorkerSaves(j)
  BY <1>3 DEF WorkerSaves, At, TypeOK, dbVars, receiverVars
<1>4. CASE WorkerRetryReads(j)
  BY <1>4 DEF WorkerRetryReads, At, Blame, Mishaps, TypeOK, dbVars, receiverVars
<1>5. CASE WorkerRetryWrites(j)
  BY <1>5 DEF WorkerRetryWrites, At, TypeOK, dbVars, receiverVars
<1>6. CASE WorkerNotifies(j)
  <2>1. Send(j, outcome[j]) \/ UNCHANGED sent
    BY <1>6, Zenon DEF WorkerNotifies
  <2>2. sent' \in [Jobs -> Seq(Final)]
    <3>1. outcome[j] \in Final /\ sent[j] \in Seq(Final)
      BY DEF TypeOK
    <3>2. Append(sent[j], outcome[j]) \in Seq(Final)
      BY <3>1
    <3> QED BY <2>1, <3>2 DEF Send, TypeOK
  <2> QED BY <1>6, <2>2 DEF WorkerNotifies, At, TypeOK, dbVars, receiverVars
<1>7. CASE WorkerDispatchFails(j)
  BY <1>7, GoesType DEF WorkerDispatchFails, At, Blame, Mishaps, Final, TypeOK,
       dbVars, receiverVars
<1>8. CASE WorkerSaveFails(j)
  BY <1>8, GoesType DEF WorkerSaveFails, At, TypeOK, dbVars, receiverVars
<1>9. CASE WorkerDies(j)
  BY <1>9, GoesType DEF WorkerDies, Blame, Mishaps, TypeOK, dbVars, receiverVars
<1>10. CASE WorkerOverQuota(j)
  <2>1. runs[j] + 1 \in 1..MaxRuns
    BY <1>10, MaxRunsAssumption DEF WorkerOverQuota, TypeOK
  <2> QED BY <1>10, <2>1, GoesType DEF WorkerOverQuota, At, TypeOK, receiverVars
<1>11. CASE WorkerRestarts(j)
  BY <1>11 DEF WorkerRestarts, At, TypeOK, receiverVars
<1> QED BY <1>1, <1>2, <1>3, <1>4, <1>5, <1>6, <1>7, <1>8, <1>9, <1>10, <1>11
        DEF WorkerStep

\* The receiver's steps keep the types.
LEMMA ReceiverType ==
  ASSUME TypeOK, NEW r \in Receivers, NEW gone,
         ReceiverStep(r) \/ ReceiverDrops(r, gone) \/ ReceiverForgets(r, gone)
           \/ ReceiverDies(r)
  PROVE  TypeOK'
<1>1. CASE \E e \in queue : ReceiverPops(r, e)
  <2>1. PICK e \in queue : ReceiverPops(r, e)
    BY <1>1
  <2>2. CASE saved' = [saved EXCEPT ![r] = {e}] /\ UNCHANGED buffer
    BY <2>1, <2>2 DEF ReceiverPops, TypeOK, dbVars, workerVars
  <2>3. CASE buffer' = [buffer EXCEPT ![r] = @ \cup {e}] /\ UNCHANGED saved
    BY <2>1, <2>3 DEF ReceiverPops, TypeOK, dbVars, workerVars
  <2> QED BY <2>1, <2>2, <2>3 DEF ReceiverPops
<1>2. CASE \E e \in saved[r] : ReceiverCounts(r, e)
  <2>1. PICK e \in saved[r] : ReceiverCounts(r, e)
    BY <1>2
  <2>2. e[1] \in Jobs
    BY DEF TypeOK, Events
  <2> QED BY <2>1, <2>2 DEF ReceiverCounts, TypeOK, workerVars
<1>3. CASE ReceiverFlushes(r)
  BY <1>3 DEF ReceiverFlushes, TypeOK, dbVars, workerVars
<1>4. CASE ReceiverNotifies(r)
  BY <1>4 DEF ReceiverNotifies, Send, TypeOK, dbVars, workerVars
<1>5. CASE ReceiverDrops(r, gone)
  BY <1>5, GoesType DEF ReceiverDrops, Blame, Mishaps, TypeOK, dbVars, workerVars
<1>6. CASE ReceiverForgets(r, gone)
  BY <1>6, GoesType DEF ReceiverForgets, Blame, Mishaps, TypeOK, dbVars, workerVars
<1>7. CASE ReceiverDies(r)
  BY <1>7, GoesType DEF ReceiverDies, Blame, Mishaps, TypeOK, dbVars, workerVars
<1> QED BY <1>1, <1>2, <1>3, <1>4, <1>5, <1>6, <1>7 DEF ReceiverStep

\* The reaper's steps keep the types.
LEMMA ReaperType ==
  ASSUME TypeOK, NEW j \in Jobs, ReaperStep(j)
  PROVE  TypeOK'
<1>1. CASE ReaperReads(j)
  BY <1>1, GoesType DEF ReaperReads, TypeOK, dbVars, workerVars, receiverVars
<1>2. CASE ReaperWrites(j)
  BY <1>2 DEF ReaperWrites, Blame, Mishaps, Final, TypeOK, workerVars, receiverVars
<1>3. CASE ReaperNotifies(j)
  BY <1>3 DEF ReaperNotifies, Send, Final, TypeOK, dbVars, workerVars, receiverVars
<1> QED BY <1>1, <1>2, <1>3 DEF ReaperStep

-----------------------------------------------------------------------------
(* The worker *)

\* A step leaves the row and the processes of job k alone.
SameRow(k) ==
  /\ status'[k] = status[k] /\ counted'[k] = counted[k]
  /\ worker'[k] = worker[k] /\ outcome'[k] = outcome[k] /\ runs'[k] = runs[k]
  /\ dispatched'[k] = dispatched[k] /\ seenCounted'[k] = seenCounted[k]
  /\ reaping'[k] = reaping[k] /\ sent'[k] = sent[k] /\ mishaps'[k] = mishaps[k]

\* What is said of a job depends on its row, its processes, its event and the
\* calls about it only.
LEMMA Untouched ==
  ASSUME NEW k \in Jobs, JobInv(k), SameRow(k), runs[k] \in 1..MaxRuns,
         \A e \in Events : e[1] = k => (Somewhere(e)' <=> Somewhere(e)),
         Hooked(k)' <=> Hooked(k),
         \A r \in Receivers : \A h \in hooking'[r] : h[1] = k => h \in hooking[r]
  PROVE  JobInv(k)'
<1>1. Pending(k)' <=> Pending(k)
  BY DEF Pending
<1>2. Early(k)' <=> Early(k)
  BY DEF Early, SameRow
<1>3. Own(k)' <=> Own(k)
  BY DEF Own, Events, SameRow
<1>4. Told(k)' <=> Told(k)
  BY DEF Told, SameRow
<1>5. Trail(k)'
  BY <1>1, <1>2, <1>3 DEF JobInv, Trail, SameRow
<1>6. Honest(k)'
  BY <1>1, <1>4 DEF JobInv, Honest, SameRow
<1>7. Accounted(k)'
  BY <1>3 DEF JobInv, Accounted, SameRow
<1> QED BY <1>5, <1>6, <1>7 DEF JobInv

\* What there is about the event and the calls of a job stays.
SameTrail(j) == /\ runs'[j] = runs[j]
                /\ Pending(j)' <=> Pending(j)
                /\ Hooked(j)' <=> Hooked(j)
                /\ Own(j)' <=> Own(j)
                /\ Early(j)' <=> Early(j)

\* The receivers keep what they hold, and the jobs that ran once did.
SameEvents == /\ UNCHANGED <<queue, buffer, saved, hooking>>
              /\ \A k \in Jobs : runs'[k] = 1 => runs[k] = 1

\* Then pending events stay pending, owed calls owed, and all in one place.
LEMMA SameEventsKept ==
  ASSUME SameEvents, TypeOK
  PROVE  /\ \A e : Somewhere(e)' <=> Somewhere(e)
         /\ \A k : Hooked(k)' <=> Hooked(k)
         /\ \A k : runs'[k] = runs[k] => SameTrail(k)
         /\ OneEvent => OneEvent'
<1>1. \A e : Somewhere(e)' <=> Somewhere(e)
  BY DEF SameEvents, Somewhere
<1>2. OneEvent => OneEvent'
  <2>1. \A r \in Receivers : \A h \in hooking[r] : h[1] \in Jobs
    BY DEF TypeOK
  <2> QED BY <2>1 DEF SameEvents, OneEvent
<1>3. \A k : Hooked(k)' <=> Hooked(k)
  BY DEF SameEvents, Hooked
<1>4. ASSUME NEW k, runs'[k] = runs[k] PROVE SameTrail(k)
  <2>1. Pending(k)' <=> Pending(k)
    BY <1>1 DEF Pending
  <2>2. Own(k)' <=> Own(k)
    BY <1>1, <1>4 DEF Own
  <2>3. Early(k)' <=> Early(k)
    BY <1>1, <1>4 DEF Early
  <2> QED BY <1>3, <1>4, <2>1, <2>2, <2>3 DEF SameTrail
<1> QED BY <1>1, <1>2, <1>3, <1>4

\* The only event of a job that ran once is that of its run.
LEMMA OnlyOwn ==
  ASSUME NEW j \in Jobs, runs[j] = 1, Early(j)
  PROVE  Pending(j) <=> Own(j)
<1>1. \A e \in Events : e[1] = j /\ Somewhere(e) => e = <<j, runs[j]>>
  BY DEF Early, Events
<1>2. <<j, runs[j]>> \in Events
  BY MaxRunsAssumption DEF Events
<1> QED BY <1>1, <1>2 DEF Pending, Own

\* A notification sent is there.
LEMMA AppendThere ==
  ASSUME NEW st \in Final, NEW s \in Seq(Final)
  PROVE  /\ Append(s, st) # <<>>
         /\ s = <<>> => Len(Append(s, st)) <= 1
<1>1. Len(Append(s, st)) = Len(s) + 1 /\ Len(s) \in Nat
  OBVIOUS
<1>2. s = <<>> => Len(s) = 0
  OBVIOUS
<1> QED BY <1>1, <1>2

\* One more true notification leaves all of them true.
LEMMA AppendTold ==
  ASSUME NEW st \in Final, NEW s \in Seq(Final), \A i \in DOMAIN s : s[i] = st
  PROVE  \A i \in DOMAIN Append(s, st) : Append(s, st)[i] = st
OBVIOUS

\* The event of a job is dispatched while it runs.
LEMMA DispatchKept ==
  ASSUME IInv, NEW j \in Jobs, WorkerDispatches(j)
  PROVE  OneEvent' /\ \A k \in Jobs : JobInv(k)'
<1> DEFINE own == <<j, runs[j]>>
<1>1. /\ own \in Events /\ ~Somewhere(own) /\ worker[j] = "running"
      /\ queue' = queue \cup {own}
      /\ UNCHANGED <<dbVars, worker, runs, outcome, seenCounted, receiverVars,
                     reaping, sent, mishaps>>
      /\ dispatched' = [dispatched EXCEPT ![j] = TRUE]
  BY DEF IInv, JobInv, Trail, Own, Events, TypeOK, WorkerDispatches
<1>2. \A e : Somewhere(e)' <=> Somewhere(e) \/ e = own
  BY <1>1 DEF Somewhere, receiverVars
<1>3. OneEvent'
  <2>1. \A r \in Receivers : own \notin buffer[r] \cup saved[r]
    BY <1>1 DEF Somewhere
  <2> QED BY <1>1, <2>1 DEF IInv, OneEvent, receiverVars
<1>4. \A k : Hooked(k)' <=> Hooked(k)
  BY <1>1 DEF Hooked, receiverVars
<1>5. ASSUME NEW k \in Jobs, k # j PROVE JobInv(k)'
  <2>1. SameRow(k) /\ runs[k] \in 1..MaxRuns
    BY <1>1, <1>5 DEF SameRow, dbVars, IInv, TypeOK
  <2>2. \A e \in Events : e[1] = k => (Somewhere(e)' <=> Somewhere(e))
    BY <1>2, <1>5
  <2>3. \A r \in Receivers : \A h \in hooking'[r] : h[1] = k => h \in hooking[r]
    BY <1>1 DEF receiverVars
  <2> QED BY <1>4, <2>1, <2>2, <2>3, Untouched DEF IInv
<1>6. JobInv(j)'
  <2>1. dispatched'[j] /\ ~dispatched[j] /\ Own(j)' /\ runs'[j] = runs[j]
    BY <1>1, <1>2 DEF Own, WorkerDispatches, IInv, TypeOK
  <2>2. Early(j)'
    <3> SUFFICES ASSUME NEW e \in Events, e[1] = j, Somewhere(e)' PROVE e[2] <= runs[j]
      BY <1>1 DEF Early
    <3>1. CASE e = own
      <4>1. runs[j] \in Nat
        BY MaxRunsAssumption DEF IInv, TypeOK
      <4> QED BY <3>1, <4>1
    <3>2. CASE e # own
      BY <1>2, <3>2 DEF Early, IInv, JobInv, Trail
    <3> QED BY <3>1, <3>2
  <2>3. Told(j)' <=> Told(j)
    BY <1>1 DEF Told, dbVars
  <2>4. Trail(j)'
    BY <1>1, <1>4, <2>1, <2>2 DEF Trail, IInv, JobInv, dbVars
  <2>5. Honest(j)'
    BY <1>1, <1>4, <2>1, <2>3 DEF Honest, Trail, IInv, JobInv, dbVars, receiverVars
  <2>6. Accounted(j)'
    BY <1>1, <2>1 DEF Accounted, IInv, JobInv, dbVars
  <2> QED BY <2>4, <2>5, <2>6 DEF JobInv
<1> QED BY <1>3, <1>5, <1>6

\* A step of one job's worker or reaper, away from the events: it is enough to
\* look at that job.
LEMMA OnlyJob ==
  ASSUME IInv, NEW j \in Jobs, SameEvents, \A k \in Jobs \ {j} : SameRow(k),
         JobInv(j)'
  PROVE  OneEvent' /\ \A k \in Jobs : JobInv(k)'
<1>1. /\ OneEvent'
      /\ \A e : Somewhere(e)' <=> Somewhere(e)
      /\ \A k : Hooked(k)' <=> Hooked(k)
  BY SameEventsKept DEF IInv
<1>2. ASSUME NEW k \in Jobs, k # j PROVE JobInv(k)'
  BY <1>1, <1>2, Untouched DEF IInv, SameEvents, TypeOK
<1> QED BY <1>1, <1>2

\* A job that goes back to pending is no longer one that ran once.
LEMMA OverQuotaKept ==
  ASSUME IInv, NEW j \in Jobs, WorkerOverQuota(j)
  PROVE  OneEvent' /\ \A k \in Jobs : JobInv(k)'
<1>1. /\ SameEvents /\ \A k \in Jobs \ {j} : SameRow(k)
      /\ runs'[j] = runs[j] + 1 /\ runs[j] \in 1..MaxRuns
  BY MaxRunsAssumption
     DEF SameEvents, SameRow, WorkerOverQuota, At, dbVars, receiverVars, IInv, TypeOK
<1>2. \A e : Somewhere(e)' <=> Somewhere(e)
  BY <1>1, SameEventsKept DEF IInv
<1>3. Early(j)' /\ ~Own(j)'
  <2>1. ASSUME NEW e \in Events, e[1] = j, Somewhere(e)'
        PROVE  e[2] <= runs'[j] /\ e[2] # runs'[j]
    <3>1. e[2] \in Nat /\ runs[j] \in Nat
      BY <1>1, MaxRunsAssumption DEF Events
    <3>2. e[2] <= runs[j]
      BY <1>2, <2>1 DEF Early, IInv, JobInv, Trail
    <3> QED BY <1>1, <3>1, <3>2
  <2>2. <<j, runs'[j]>> \in Events
    BY <1>1, MaxRunsAssumption DEF Events, WorkerOverQuota
  <2> QED BY <2>1, <2>2 DEF Early, Own
<1>4. Trail(j)'
  BY <1>1, <1>3 DEF Trail, IInv, JobInv, TypeOK, WorkerOverQuota, At
<1>5. Honest(j)'
  BY <1>1 DEF Honest, Told, SameEvents, IInv, JobInv, TypeOK, Final, WorkerOverQuota, At
<1>6. Accounted(j)'
  BY <1>1 DEF Accounted, IInv, JobInv, TypeOK, WorkerOverQuota, At
<1> QED BY <1>1, <1>4, <1>5, <1>6, OnlyJob DEF JobInv

\* Its second run starts with nothing said.
LEMMA RestartsKept ==
  ASSUME IInv, NEW j \in Jobs, WorkerRestarts(j)
  PROVE  OneEvent' /\ \A k \in Jobs : JobInv(k)'
<1>1. SameEvents /\ \A k \in Jobs \ {j} : SameRow(k)
  BY DEF SameEvents, SameRow, WorkerRestarts, At, dbVars, receiverVars, IInv, TypeOK
<1>2. SameTrail(j)
  BY <1>1, SameEventsKept DEF WorkerRestarts, workerVars, IInv
<1>3. Trail(j)'
  BY <1>2 DEF SameTrail, Trail, IInv, JobInv, TypeOK, WorkerRestarts, At
<1>4. Honest(j)'
  BY <1>1, <1>2 DEF SameTrail, Honest, Told, SameEvents, Trail,
       IInv, JobInv, TypeOK, Final, WorkerRestarts, At
<1>5. Accounted(j)'
  BY <1>2 DEF SameTrail, Accounted, Trail, IInv, JobInv, TypeOK, WorkerRestarts, At
<1> QED BY <1>1, <1>3, <1>4, <1>5, OnlyJob DEF JobInv

\* Before the status is saved a run may end as it likes.
LEMMA EndsKept ==
  ASSUME IInv, NEW j \in Jobs, NEW st \in Final, WorkerEnds(j, st)
  PROVE  OneEvent' /\ \A k \in Jobs : JobInv(k)'
<1>1. SameEvents /\ \A k \in Jobs \ {j} : SameRow(k)
  BY DEF SameEvents, SameRow, WorkerEnds, At, dbVars, receiverVars, IInv, TypeOK
<1>2. SameTrail(j)
  BY <1>1, SameEventsKept DEF WorkerEnds, workerVars, IInv
<1>3. Trail(j)'
  BY <1>2 DEF SameTrail, Trail, IInv, JobInv, TypeOK, WorkerEnds, At, dbVars
<1>4. Honest(j)'
  BY <1>1, <1>2 DEF SameTrail, Honest, Told, SameEvents, Trail,
       IInv, JobInv, TypeOK, Final, WorkerEnds, At, dbVars
<1>5. Accounted(j)'
  BY <1>2 DEF SameTrail, Accounted, Trail, IInv, JobInv, TypeOK, WorkerEnds, At, dbVars
<1> QED BY <1>1, <1>3, <1>4, <1>5, OnlyJob DEF JobInv

\* A lost event excuses whoever waits for it.
LEMMA DispatchFailsKept ==
  ASSUME IInv, NEW j \in Jobs, WorkerDispatchFails(j)
  PROVE  OneEvent' /\ \A k \in Jobs : JobInv(k)'
<1>1. SameEvents /\ \A k \in Jobs \ {j} : SameRow(k)
  BY DEF SameEvents, SameRow, WorkerDispatchFails, At, Blame, dbVars, receiverVars,
       IInv, TypeOK
<1>2. SameTrail(j)
  BY <1>1, SameEventsKept DEF WorkerDispatchFails, workerVars, IInv
<1>3. Trail(j)'
  BY <1>2 DEF SameTrail, Trail, IInv, JobInv, TypeOK, WorkerDispatchFails, At,
       Blame, dbVars
<1>4. Honest(j)'
  BY <1>1, <1>2 DEF SameTrail, Honest, Told, SameEvents, Trail,
       IInv, JobInv, TypeOK, Final, WorkerDispatchFails, At, Blame, dbVars
<1>5. Accounted(j)'
  BY <1>2 DEF SameTrail, Accounted, Trail, IInv, JobInv, TypeOK,
       WorkerDispatchFails, At, Blame, dbVars
<1> QED BY <1>1, <1>3, <1>4, <1>5, OnlyJob DEF JobInv

\* The worker saves under the lock: it sees the counts if and only if they are
\* there.
LEMMA SavesKept ==
  ASSUME IInv, NEW j \in Jobs, WorkerSaves(j)
  PROVE  OneEvent' /\ \A k \in Jobs : JobInv(k)'
<1>1. SameEvents /\ \A k \in Jobs \ {j} : SameRow(k)
  BY DEF SameEvents, SameRow, WorkerSaves, At, dbVars, receiverVars, IInv, TypeOK
<1>2. SameTrail(j)
  BY <1>1, SameEventsKept DEF WorkerSaves, workerVars, IInv
<1>3. Trail(j)'
  BY <1>2 DEF SameTrail, Trail, IInv, JobInv, TypeOK, WorkerSaves, At, dbVars
<1>4. Honest(j)'
  BY <1>1, <1>2 DEF SameTrail, Honest, Told, SameEvents, Trail,
       IInv, JobInv, TypeOK, Final, WorkerSaves, At, dbVars
<1>5. Accounted(j)'
  BY <1>2 DEF SameTrail, Accounted, Trail, IInv, JobInv, TypeOK, WorkerSaves, At, dbVars
<1> QED BY <1>1, <1>3, <1>4, <1>5, OnlyJob DEF JobInv

\* A save that fails leaves the row alone.
LEMMA SaveFailsKept ==
  ASSUME IInv, NEW j \in Jobs, WorkerSaveFails(j)
  PROVE  OneEvent' /\ \A k \in Jobs : JobInv(k)'
<1>1. SameEvents /\ \A k \in Jobs \ {j} : SameRow(k)
  BY DEF SameEvents, SameRow, WorkerSaveFails, At, dbVars, receiverVars, IInv, TypeOK
<1>2. SameTrail(j)
  BY <1>1, SameEventsKept DEF WorkerSaveFails, workerVars, IInv
<1>3. Trail(j)'
  BY <1>2 DEF SameTrail, Trail, IInv, JobInv, TypeOK, WorkerSaveFails, At, dbVars
<1>4. Honest(j)'
  BY <1>1, <1>2 DEF SameTrail, Honest, Told, SameEvents, Trail,
       IInv, JobInv, TypeOK, Final, WorkerSaveFails, At, dbVars
<1>5. Accounted(j)'
  BY <1>2 DEF SameTrail, Accounted, Trail, IInv, JobInv, TypeOK, WorkerSaveFails,
       At, dbVars
<1> QED BY <1>1, <1>3, <1>4, <1>5, OnlyJob DEF JobInv

\* The retry reads the counts without the lock.
LEMMA RetryReadsKept ==
  ASSUME IInv, NEW j \in Jobs, WorkerRetryReads(j)
  PROVE  OneEvent' /\ \A k \in Jobs : JobInv(k)'
<1>1. SameEvents /\ \A k \in Jobs \ {j} : SameRow(k)
  BY DEF SameEvents, SameRow, WorkerRetryReads, At, Blame, dbVars, receiverVars,
       IInv, TypeOK
<1>2. SameTrail(j)
  BY <1>1, SameEventsKept DEF WorkerRetryReads, workerVars, IInv
<1>3. Trail(j)'
  BY <1>2 DEF SameTrail, Trail, IInv, JobInv, TypeOK, WorkerRetryReads, At, Blame, dbVars
<1>4. Honest(j)'
  BY <1>1, <1>2 DEF SameTrail, Honest, Told, SameEvents, Trail,
       IInv, JobInv, TypeOK, Final, WorkerRetryReads, At, Blame, dbVars
<1>5. Accounted(j)'
  BY <1>2 DEF SameTrail, Accounted, Trail, IInv, JobInv, TypeOK, WorkerRetryReads,
       At, Blame, dbVars
<1> QED BY <1>1, <1>3, <1>4, <1>5, OnlyJob DEF JobInv

\* The retry writes the status: nobody else did.
LEMMA RetryWritesKept ==
  ASSUME IInv, NEW j \in Jobs, WorkerRetryWrites(j)
  PROVE  OneEvent' /\ \A k \in Jobs : JobInv(k)'
<1>1. SameEvents /\ \A k \in Jobs \ {j} : SameRow(k)
  BY DEF SameEvents, SameRow, WorkerRetryWrites, At, dbVars, receiverVars, IInv, TypeOK
<1>2. SameTrail(j)
  BY <1>1, SameEventsKept DEF WorkerRetryWrites, workerVars, IInv
<1>3. Trail(j)'
  BY <1>2 DEF SameTrail, Trail, IInv, JobInv, TypeOK, WorkerRetryWrites, At, dbVars
<1>4. Honest(j)'
  BY <1>1, <1>2 DEF SameTrail, Honest, Told, SameEvents, Trail,
       IInv, JobInv, TypeOK, Final, WorkerRetryWrites, At, dbVars
<1>5. Accounted(j)'
  BY <1>2 DEF SameTrail, Accounted, Trail, IInv, JobInv, TypeOK, WorkerRetryWrites,
       At, dbVars
<1> QED BY <1>1, <1>3, <1>4, <1>5, OnlyJob DEF JobInv

\* Who sees the counts, or dispatched no event, is the only one to notify.
LEMMA NotifiesKept ==
  ASSUME IInv, NEW j \in Jobs, WorkerNotifies(j)
  PROVE  OneEvent' /\ \A k \in Jobs : JobInv(k)'
<1>1. SameEvents /\ \A k \in Jobs \ {j} : SameRow(k)
  BY DEF SameEvents, SameRow, WorkerNotifies, At, Send, dbVars, receiverVars, IInv, TypeOK
<1>2. SameTrail(j)
  BY <1>1, SameEventsKept DEF WorkerNotifies, workerVars, IInv
<1>3. /\ worker[j] = "saved" /\ worker'[j] = "done"
      /\ UNCHANGED <<dbVars, outcome, dispatched, seenCounted, reaping, mishaps, hooking>>
  BY DEF WorkerNotifies, At, receiverVars, IInv, TypeOK
<1>4. CASE (seenCounted[j] \/ ~dispatched[j]) /\ Send(j, outcome[j])
  <2>1. /\ sent'[j] = Append(sent[j], outcome[j])
        /\ sent[j] \in Seq(Final) /\ outcome[j] \in Final
    BY <1>4 DEF Send, IInv, TypeOK
  <2>2. sent'[j] # <<>>
    BY <2>1, AppendThere
  <2>3. Trail(j)'
    BY <1>2, <1>3, <2>2 DEF SameTrail, Trail, IInv, JobInv, dbVars
  <2>4. Honest(j)'
    <3> SUFFICES ASSUME "reaped" \notin mishaps[j] PROVE Honest(j)'
      BY <1>3 DEF Honest
    <3>1. status[j] \in Final /\ outcome[j] = status[j] /\ Told(j)
      BY <1>3 DEF IInv, JobInv, Honest
    <3>2. Told(j)'
      BY <1>3, <2>1, <3>1, AppendTold DEF Told, dbVars
    <3>3. ASSUME runs[j] = 1 PROVE sent[j] = <<>> /\ ~Pending(j) /\ ~Hooked(j)
      <4>1. sent[j] = <<>>
        BY <1>3, <1>4, <3>3 DEF IInv, JobInv, Honest
      <4>2. ~Pending(j)
        BY <1>4, <3>3, OnlyOwn DEF IInv, JobInv, Trail
      <4>3. ~Hooked(j)
        BY <1>4, <3>3 DEF Hooked, IInv, JobInv, Honest
      <4> QED BY <4>1, <4>2, <4>3
    <3>4. runs[j] = 1 => Len(sent'[j]) <= 1
      BY <2>1, <3>3, AppendThere
    <3> QED BY <1>2, <1>3, <3>1, <3>2, <3>3, <3>4
            DEF SameTrail, Honest, Hooked, IInv, JobInv, dbVars
  <2>5. Accounted(j)'
    BY <1>2, <1>3, <2>2 DEF SameTrail, Accounted, IInv, JobInv, dbVars
  <2> QED BY <1>1, <2>3, <2>4, <2>5, OnlyJob DEF JobInv
<1>5. CASE ~(seenCounted[j] \/ ~dispatched[j]) /\ UNCHANGED sent
  <2>1. Trail(j)'
    BY <1>2, <1>3, <1>5 DEF SameTrail, Trail, IInv, JobInv, dbVars
  <2>2. Honest(j)'
    BY <1>2, <1>3, <1>5 DEF SameTrail, Honest, Told, IInv, JobInv, dbVars
  <2>3. Accounted(j)'
    BY <1>2, <1>3, <1>5 DEF SameTrail, Accounted, IInv, JobInv, dbVars
  <2> QED BY <1>1, <2>1, <2>2, <2>3, OnlyJob DEF JobInv
<1> QED BY <1>4, <1>5, Zenon DEF WorkerNotifies

\* The death of the worker excuses it.
LEMMA DiesKept ==
  ASSUME IInv, NEW j \in Jobs, WorkerDies(j)
  PROVE  OneEvent' /\ \A k \in Jobs : JobInv(k)'
<1>1. SameEvents /\ \A k \in Jobs \ {j} : SameRow(k)
  BY DEF SameEvents, SameRow, WorkerDies, Blame, dbVars, receiverVars, IInv, TypeOK
<1>2. SameTrail(j)
  BY <1>1, SameEventsKept DEF WorkerDies, workerVars, IInv
<1>3. Trail(j)'
  BY <1>2 DEF SameTrail, Trail, IInv, JobInv, TypeOK, WorkerDies, Blame, dbVars
<1>4. Honest(j)'
  BY <1>1, <1>2 DEF SameTrail, Honest, Told, SameEvents, Trail,
       IInv, JobInv, TypeOK, Final, WorkerDies, Blame, dbVars
<1>5. Accounted(j)'
  BY <1>2 DEF SameTrail, Accounted, Trail, IInv, JobInv, TypeOK, WorkerDies, Blame, dbVars
<1> QED BY <1>1, <1>3, <1>4, <1>5, OnlyJob DEF JobInv

-----------------------------------------------------------------------------
(* The reaper *)

\* The reaper's read changes nothing for the others.
LEMMA ReadsKept ==
  ASSUME IInv, NEW j \in Jobs, ReaperReads(j)
  PROVE  OneEvent' /\ \A k \in Jobs : JobInv(k)'
<1>1. SameEvents /\ \A k \in Jobs \ {j} : SameRow(k)
  BY DEF SameEvents, SameRow, ReaperReads, dbVars, workerVars, receiverVars, IInv, TypeOK
<1>2. SameTrail(j)
  BY <1>1, SameEventsKept DEF ReaperReads, workerVars, IInv
<1>3. Trail(j)'
  BY <1>2 DEF SameTrail, Trail, IInv, JobInv, TypeOK, ReaperReads, dbVars, workerVars
<1>4. Honest(j)'
  BY <1>1, <1>2 DEF SameTrail, Honest, Told, SameEvents, Trail,
       IInv, JobInv, TypeOK, Final, ReaperReads, dbVars, workerVars
<1>5. Accounted(j)'
  BY <1>2 DEF SameTrail, Accounted, Trail, IInv, JobInv, TypeOK, Final,
       ReaperReads, dbVars, workerVars
<1> QED BY <1>1, <1>3, <1>4, <1>5, OnlyJob DEF JobInv

\* A reaped job is marked as such.
LEMMA WritesKept ==
  ASSUME IInv, NEW j \in Jobs, ReaperWrites(j)
  PROVE  OneEvent' /\ \A k \in Jobs : JobInv(k)'
<1>1. SameEvents /\ \A k \in Jobs \ {j} : SameRow(k)
  BY DEF SameEvents, SameRow, ReaperWrites, Blame, workerVars, receiverVars, IInv, TypeOK
<1>2. SameTrail(j)
  BY <1>1, SameEventsKept DEF ReaperWrites, workerVars, IInv
<1>3. Trail(j)'
  BY <1>2 DEF SameTrail, Trail, IInv, JobInv, TypeOK, ReaperWrites, Blame, workerVars
<1>4. Honest(j)'
  BY <1>1, <1>2 DEF SameTrail, Honest, Told, SameEvents, Trail,
       IInv, JobInv, TypeOK, Final, ReaperWrites, Blame, workerVars
<1>5. Accounted(j)'
  BY <1>2 DEF SameTrail, Accounted, Trail, IInv, JobInv, TypeOK, Final,
       ReaperWrites, Blame, workerVars
<1> QED BY <1>1, <1>3, <1>4, <1>5, OnlyJob DEF JobInv

\* The reaper notifies of reaped jobs only.
LEMMA ReaperNotifiesKept ==
  ASSUME IInv, NEW j \in Jobs, ReaperNotifies(j)
  PROVE  OneEvent' /\ \A k \in Jobs : JobInv(k)'
<1>1. SameEvents /\ \A k \in Jobs \ {j} : SameRow(k)
  BY DEF SameEvents, SameRow, ReaperNotifies, Send, dbVars, workerVars,
       receiverVars, IInv, TypeOK
<1>2. SameTrail(j)
  BY <1>1, SameEventsKept DEF ReaperNotifies, workerVars, IInv
<1>3. sent'[j] # <<>>
  <2>1. sent'[j] = Append(sent[j], "failed") /\ sent[j] \in Seq(Final)
    BY DEF ReaperNotifies, Send, IInv, TypeOK
  <2> QED BY <2>1, AppendThere DEF Final
<1>4. Trail(j)'
  BY <1>2, <1>3 DEF SameTrail, Trail, IInv, JobInv, TypeOK, ReaperNotifies, dbVars,
       workerVars
<1>5. Honest(j)'
  BY <1>1, <1>2 DEF SameTrail, Honest, Told, SameEvents, Trail,
       IInv, JobInv, TypeOK, Final, ReaperNotifies, Send, dbVars, workerVars
<1>6. Accounted(j)'
  BY <1>2, <1>3 DEF SameTrail, Accounted, Trail, IInv, JobInv, TypeOK, ReaperNotifies,
       dbVars, workerVars
<1> QED BY <1>1, <1>4, <1>5, <1>6, OnlyJob DEF JobInv

-----------------------------------------------------------------------------
(* The receiver *)

\* A step that moves an event within the receivers keeps it on its trail.
LEMMA EventsMove ==
  ASSUME IInv, UNCHANGED <<dbVars, workerVars, hooking, reaping, sent, mishaps>>,
         \A e : Somewhere(e)' <=> Somewhere(e)
  PROVE  \A k \in Jobs : JobInv(k)'
<1> SUFFICES ASSUME NEW k \in Jobs PROVE JobInv(k)'
  OBVIOUS
<1>1. SameRow(k) /\ runs[k] \in 1..MaxRuns
  BY DEF SameRow, dbVars, workerVars, IInv, TypeOK
<1>2. Hooked(k)' <=> Hooked(k)
  BY DEF Hooked
<1> QED BY <1>1, <1>2, Untouched DEF IInv

\* An event popped from the queue is in the buffer, or about to be handled.
LEMMA PopsKept ==
  ASSUME IInv, NEW r \in Receivers, NEW e \in queue, ReceiverPops(r, e)
  PROVE  OneEvent' /\ \A k \in Jobs : JobInv(k)'
<1>1. /\ e \in queue /\ queue' = queue \ {e}
      /\ saved[r] = {}
      /\ hooking' = hooking /\ runs' = runs
      /\ buffer'[r] \cup saved'[r] = buffer[r] \cup saved[r] \cup {e}
      /\ buffer'[r] \cap saved'[r] = {}
      /\ \A s \in Receivers \ {r} : buffer'[s] = buffer[s] /\ saved'[s] = saved[s]
  <2>1. CASE saved' = [saved EXCEPT ![r] = {e}] /\ UNCHANGED buffer
    BY <2>1 DEF ReceiverPops, Free, IInv, TypeOK, OneEvent, workerVars
  <2>2. CASE buffer' = [buffer EXCEPT ![r] = @ \cup {e}] /\ UNCHANGED saved
    BY <2>2 DEF ReceiverPops, Free, IInv, TypeOK, OneEvent, workerVars
  <2> QED BY <2>1, <2>2 DEF ReceiverPops
<1>2. OneEvent'
  BY <1>1 DEF IInv, OneEvent
<1>3. \A f : Somewhere(f)' <=> Somewhere(f)
  BY <1>1 DEF Somewhere
<1> QED BY <1>2, <1>3, EventsMove DEF ReceiverPops

\* A flushed event is about to be handled.
LEMMA FlushesKept ==
  ASSUME IInv, NEW r \in Receivers, ReceiverFlushes(r)
  PROVE  OneEvent' /\ \A k \in Jobs : JobInv(k)'
<1>1. /\ UNCHANGED <<queue, hooking, runs>>
      /\ buffer'[r] = {} /\ saved'[r] = buffer[r] /\ saved[r] = {}
      /\ \A s \in Receivers \ {r} : buffer'[s] = buffer[s] /\ saved'[s] = saved[s]
  BY DEF ReceiverFlushes, Free, IInv, TypeOK, workerVars
<1>2. OneEvent'
  BY <1>1 DEF IInv, OneEvent
<1>3. \A f : Somewhere(f)' <=> Somewhere(f)
  BY <1>1 DEF Somewhere
<1> QED BY <1>2, <1>3, EventsMove DEF ReceiverFlushes

\* The counts are filled in under the lock: the receiver notifies if the
\* status was final then, and the worker's save will see the counts if not.
LEMMA CountsKept ==
  ASSUME IInv, NEW r \in Receivers, NEW e \in saved[r], ReceiverCounts(r, e)
  PROVE  OneEvent' /\ \A k \in Jobs : JobInv(k)'
<1> DEFINE j == e[1]
<1>1. /\ e \in Events /\ j \in Jobs /\ e = <<j, e[2]>> /\ Somewhere(e)
      /\ e[2] \in 1..MaxRuns /\ runs[j] \in 1..MaxRuns
      /\ Pending(j) /\ hooking[r] = {} /\ JobInv(j)
  BY DEF ReceiverCounts, Pending, Somewhere, IInv, TypeOK, Events
<1>2. /\ UNCHANGED <<queue, buffer, status, workerVars, reaping, sent, mishaps>>
      /\ e \in saved[r] /\ saved'[r] = saved[r] \ {e}
      /\ \A s \in Receivers \ {r} : saved'[s] = saved[s] /\ hooking'[s] = hooking[s]
      /\ hooking'[r] = IF status[j] \in Final THEN {<<j, status[j]>>} ELSE {}
      /\ counted' = [counted EXCEPT ![j] = TRUE] /\ counted'[j] = TRUE
  BY <1>1 DEF ReceiverCounts, IInv, TypeOK
<1>3. /\ ~Somewhere(e)'
      /\ \A f : f # e => (Somewhere(f)' <=> Somewhere(f))
  BY <1>2 DEF Somewhere, IInv, OneEvent
<1>4. runs[j] = 1 => /\ ~counted[j] /\ ~seenCounted[j] /\ ~Hooked(j)
                     /\ dispatched[j] /\ Own(j) /\ e = <<j, runs[j]>>
  <2> SUFFICES ASSUME runs[j] = 1
               PROVE  /\ ~counted[j] /\ ~seenCounted[j] /\ ~Hooked(j)
                      /\ dispatched[j] /\ Own(j) /\ e = <<j, runs[j]>>
    OBVIOUS
  <2>1. e[2] = 1
    BY <1>1 DEF JobInv, Trail, Early
  <2> QED BY <1>1, <2>1 DEF JobInv, Trail, Own
<1> HIDE DEF j
<1>5. OneEvent'
  <2>1. runs[j] = 1 => \A s \in Receivers : s # r => \A h \in hooking'[s] : h[1] # j
    BY <1>2, <1>4 DEF Hooked
  <2>2. \A h \in hooking'[r] : h = <<j, status[j]>>
    BY <1>2
  <2>3. \A s \in Receivers, t \in Receivers :
          \A h \in hooking'[s], k \in hooking'[t] :
            (s = t \/ (h[1] = k[1] /\ runs'[h[1]] = 1)) => s = t /\ h = k
    <3> SUFFICES ASSUME NEW s \in Receivers, NEW t \in Receivers,
                        NEW h \in hooking'[s], NEW k \in hooking'[t],
                        s = t \/ (h[1] = k[1] /\ runs[h[1]] = 1)
                 PROVE  s = t /\ h = k
      BY <1>2 DEF workerVars
    <3>1. CASE s # r /\ t # r
      BY <1>2, <3>1 DEF IInv, OneEvent
    <3>2. CASE s = r
      BY <2>1, <2>2, <3>2
    <3>3. CASE t = r
      BY <2>1, <2>2, <3>3
    <3> QED BY <3>1, <3>2, <3>3
  <2>4. /\ \A s \in Receivers : /\ buffer'[s] \cap saved'[s] = {}
                               /\ queue' \cap (buffer'[s] \cup saved'[s]) = {}
        /\ \A s \in Receivers, t \in Receivers : s # t =>
             (buffer'[s] \cup saved'[s]) \cap (buffer'[t] \cup saved'[t]) = {}
    BY <1>2 DEF IInv, OneEvent
  <2> QED BY <2>3, <2>4 DEF OneEvent
<1>6. ASSUME NEW k \in Jobs, k # j PROVE JobInv(k)'
  <2>1. SameRow(k) /\ runs[k] \in 1..MaxRuns
    BY <1>2, <1>6 DEF SameRow, workerVars, IInv, TypeOK
  <2>2. \A f \in Events : f[1] = k => (Somewhere(f)' <=> Somewhere(f))
    BY <1>1, <1>3, <1>6
  <2>3. \A s \in Receivers : \A h \in hooking'[s] : h[1] = k => h \in hooking[s]
    BY <1>2, <1>6
  <2>4. Hooked(k)' <=> Hooked(k)
    BY <1>1, <1>2, <2>3 DEF Hooked
  <2> QED BY <2>1, <2>2, <2>3, <2>4, Untouched DEF IInv
<1>7. JobInv(j)'
  <2>1. /\ Pending(j)' => Pending(j)
        /\ Own(j)' => Own(j)
        /\ Early(j)'
        /\ Own(j) /\ ~Own(j)' => counted'[j]
    BY <1>1, <1>2, <1>3 DEF Pending, Own, Early, JobInv, Trail, workerVars
  <2>2. status[j] \in Final => Hooked(j)'
    <3> SUFFICES ASSUME status[j] \in Final PROVE Hooked(j)'
      OBVIOUS
    <3>1. <<j, status[j]>> \in hooking'[r] /\ <<j, status[j]>>[1] = j
      BY <1>2
    <3> QED BY <3>1 DEF Hooked
  <2>3. \A s \in Receivers : \A h \in hooking'[s] : h[1] = j =>
          h \in hooking[s] \/ (h = <<j, status[j]>> /\ status[j] \in Final)
    BY <1>2
  <2>4. runs[j] = 1 => ~Pending(j)'
    <3> SUFFICES ASSUME runs[j] = 1, NEW f \in Events, f[1] = j, Somewhere(f)'
                 PROVE  FALSE
      BY DEF Pending
    <3>1. f = e
      BY <1>1, <1>3, <1>4 DEF JobInv, Trail, Early, Events
    <3> QED BY <1>3, <3>1
  <2>5. Told(j)' <=> Told(j)
    BY <1>2 DEF Told
  <2>6. Trail(j)'
    BY <1>1, <1>2, <1>4, <2>1, <2>4 DEF Trail, workerVars, JobInv
  <2>7. Honest(j)'
    <3> SUFFICES ASSUME "reaped" \notin mishaps[j] PROVE Honest(j)'
      BY <1>2 DEF Honest
    <3>1. \A s \in Receivers : \A h \in hooking'[s] : h[1] = j =>
            /\ h[2] = status[j] /\ status[j] \in Final
            /\ runs[j] = 1 => sent[j] = <<>> /\ dispatched[j] /\ ~seenCounted[j]
      BY <1>1, <1>4, <2>3 DEF JobInv, Honest
    <3> QED BY <1>1, <1>2, <2>4, <2>5, <3>1 DEF Honest, workerVars, JobInv
  <2>8. Accounted(j)'
    BY <1>1, <1>2, <2>1, <2>2 DEF Accounted, workerVars, JobInv, Final
  <2> QED BY <2>6, <2>7, <2>8 DEF JobInv
<1> QED BY <1>5, <1>6, <1>7

\* The receiver sends the notification it owes, which is the only one of a job
\* that ran once.
LEMMA ReceiverNotifiesKept ==
  ASSUME IInv, NEW r \in Receivers, ReceiverNotifies(r)
  PROVE  OneEvent' /\ \A k \in Jobs : JobInv(k)'
<1>1. PICK h \in hooking[r] : Send(h[1], h[2])
  BY DEF ReceiverNotifies
<1> DEFINE j == h[1]
<1>2. /\ j \in Jobs /\ Hooked(j) /\ hooking[r] = {h} /\ h[2] \in Final
      /\ runs[j] = 1 => \A s \in Receivers \ {r} : \A g \in hooking[s] : g[1] # j
  BY <1>1 DEF Hooked, IInv, TypeOK, OneEvent
<1>3. /\ UNCHANGED <<dbVars, workerVars, queue, buffer, saved, reaping, mishaps>>
      /\ hooking'[r] = {} /\ \A s \in Receivers \ {r} : hooking'[s] = hooking[s]
      /\ sent' = [sent EXCEPT ![j] = Append(@, h[2])]
  BY <1>1 DEF ReceiverNotifies, Send, IInv, TypeOK
<1> HIDE DEF j
<1>4. OneEvent'
  BY <1>3 DEF IInv, OneEvent, workerVars
<1>5. /\ \A e : Somewhere(e)' <=> Somewhere(e)
      /\ Pending(j)' <=> Pending(j)
      /\ Own(j)' <=> Own(j)
      /\ Early(j)' <=> Early(j)
  BY <1>3 DEF Somewhere, Pending, Own, Early, workerVars
<1>6. ASSUME NEW k \in Jobs, k # j PROVE JobInv(k)'
  <2>1. SameRow(k) /\ runs[k] \in 1..MaxRuns
    BY <1>2, <1>3, <1>6 DEF SameRow, dbVars, workerVars, IInv, TypeOK
  <2>2. h[1] # k
    BY <1>6 DEF j
  <2>3. \A s \in Receivers : \A g \in hooking'[s] : g \in hooking[s]
    BY <1>3
  <2>4. Hooked(k)' <=> Hooked(k)
    BY <1>2, <1>3, <2>2 DEF Hooked
  <2> QED BY <1>5, <2>1, <2>3, <2>4, Untouched DEF IInv
<1>7. JobInv(j)'
  <2>1. runs[j] = 1 => ~Hooked(j)'
    BY <1>2, <1>3 DEF Hooked
  <2>2. sent'[j] = Append(sent[j], h[2]) /\ sent[j] \in Seq(Final)
    BY <1>2, <1>3 DEF IInv, TypeOK
  <2>3. /\ sent'[j] # <<>>
        /\ sent[j] = <<>> => Len(sent'[j]) <= 1
    BY <1>2, <2>2, AppendThere
  <2>4. Trail(j)'
    BY <1>2, <1>3, <1>5, <2>1, <2>3 DEF Trail, dbVars, workerVars, IInv, JobInv
  <2>5. Honest(j)'
    <3> SUFFICES ASSUME "reaped" \notin mishaps[j] PROVE Honest(j)'
      BY <1>3 DEF Honest
    <3>1. /\ h[2] = status[j] /\ status[j] \in Final /\ Told(j)
          /\ runs[j] = 1 => /\ sent[j] = <<>> /\ dispatched[j] /\ ~seenCounted[j]
                            /\ counted[j] /\ ~Pending(j)
      BY <1>2 DEF IInv, JobInv, Honest, Trail, j
    <3>2. Told(j)'
      BY <1>2, <1>3, <2>2, <3>1, AppendTold DEF Told, dbVars
    <3>3. \A s \in Receivers : \A g \in hooking'[s] : g[1] = j =>
            g[2] = status[j] /\ runs[j] # 1
      BY <1>2, <1>3, <2>1 DEF Hooked, IInv, JobInv, Honest
    <3>4. worker[j] \notin {"running", "idle", "ended", "retrying", "writing"}
      BY <1>2, <3>1 DEF IInv, JobInv, Honest
    <3> QED
      BY <1>2, <1>3, <1>5, <2>3, <3>1, <3>2, <3>3, <3>4
         DEF Honest, dbVars, workerVars, IInv, JobInv
  <2>6. Accounted(j)'
    BY <1>2, <1>3, <1>5, <2>3 DEF Accounted, dbVars, workerVars, IInv, JobInv
  <2> QED BY <2>4, <2>5, <2>6 DEF JobInv
<1> QED BY <1>2, <1>4, <1>6, <1>7

\* Events that get lost excuse whoever waits for them.
LEMMA EventsLost ==
  ASSUME IInv, NEW gone, Blame(gone, "lost"),
         UNCHANGED <<dbVars, workerVars, queue, reaping, sent>>,
         \A s \in Receivers :
           /\ buffer'[s] \subseteq buffer[s]
           /\ saved'[s] \subseteq saved[s]
           /\ hooking'[s] \subseteq hooking[s]
           /\ \A e \in buffer[s] \cup saved[s] : e[1] \notin gone =>
                e \in buffer'[s] \cup saved'[s]
           /\ \A h \in hooking[s] : h[1] \notin gone => h \in hooking'[s]
  PROVE  OneEvent' /\ \A k \in Jobs : JobInv(k)'
<1>1. OneEvent'
  BY DEF IInv, OneEvent, workerVars
<1>2. \A e : Somewhere(e)' => Somewhere(e)
  BY DEF Somewhere
<1>3. ASSUME NEW k \in Jobs, k \notin gone PROVE JobInv(k)'
  <2>1. SameRow(k) /\ runs[k] \in 1..MaxRuns
    BY <1>3 DEF SameRow, Blame, dbVars, workerVars, IInv, TypeOK
  <2>2. \A e \in Events : e[1] = k => (Somewhere(e)' <=> Somewhere(e))
    BY <1>3 DEF Somewhere
  <2>3. Hooked(k)' <=> Hooked(k)
    BY <1>3 DEF Hooked
  <2> QED BY <2>1, <2>2, <2>3, Untouched DEF IInv
<1>4. ASSUME NEW k \in Jobs, k \in gone PROVE JobInv(k)'
  <2>1. /\ Pending(k)' => Pending(k)
        /\ Hooked(k)' => Hooked(k)
        /\ Own(k)' => Own(k)
        /\ Early(k) => Early(k)'
    BY <1>2 DEF Pending, Hooked, Own, Early, workerVars
  <2>2. "lost" \in mishaps'[k] /\ ("reaped" \in mishaps'[k] <=> "reaped" \in mishaps[k])
    BY <1>4 DEF Blame, IInv, TypeOK
  <2>3. Told(k)' <=> Told(k)
    BY DEF Told, dbVars
  <2>4. Trail(k)'
    BY <2>1, <2>2 DEF Trail, dbVars, workerVars, IInv, JobInv
  <2>5. Honest(k)'
    BY <2>1, <2>2, <2>3 DEF Honest, dbVars, workerVars, IInv, JobInv
  <2>6. Accounted(k)'
    BY <2>2 DEF Accounted
  <2> QED BY <2>4, <2>5, <2>6 DEF JobInv
<1> QED BY <1>1, <1>3, <1>4

\* Dropped, forgotten, or gone with the process.
LEMMA LossesKept ==
  ASSUME IInv, NEW r \in Receivers, NEW gone,
         ReceiverDrops(r, gone) \/ ReceiverForgets(r, gone) \/ ReceiverDies(r)
  PROVE  OneEvent' /\ \A k \in Jobs : JobInv(k)'
<1>1. CASE ReceiverDrops(r, gone)
  <2>1. \A s \in Receivers :
          /\ hooking'[s] = hooking[s] /\ saved'[s] = saved[s]
          /\ buffer'[s] = IF s = r THEN buffer[s] \ gone ELSE buffer[s]
    BY <1>1 DEF ReceiverDrops, IInv, TypeOK
  <2>2. \A e \in gone : e[1] \in Of(gone)
    BY DEF Of
  <2> QED BY <1>1, <2>1, <2>2, EventsLost DEF ReceiverDrops
<1>2. CASE ReceiverForgets(r, gone)
  <2>1. \A s \in Receivers :
          /\ hooking'[s] = hooking[s] /\ buffer'[s] = buffer[s]
          /\ saved'[s] = IF s = r THEN saved[s] \ gone ELSE saved[s]
    BY <1>2 DEF ReceiverForgets, IInv, TypeOK
  <2>2. \A e \in gone : e[1] \in Of(gone)
    BY DEF Of
  <2> QED BY <1>2, <2>1, <2>2, EventsLost DEF ReceiverForgets
<1>3. CASE ReceiverDies(r)
  <2> DEFINE all == Of(buffer[r] \cup saved[r] \cup hooking[r])
  <2>1. Blame(all, "lost") /\ UNCHANGED <<dbVars, workerVars, queue, reaping, sent>>
    BY <1>3 DEF ReceiverDies
  <2>2. /\ buffer'[r] = {} /\ saved'[r] = {} /\ hooking'[r] = {}
        /\ \A s \in Receivers \ {r} :
             buffer'[s] = buffer[s] /\ saved'[s] = saved[s] /\ hooking'[s] = hooking[s]
    BY <1>3 DEF ReceiverDies, IInv, TypeOK
  <2>3. \A e \in buffer[r] \cup saved[r] \cup hooking[r] : e[1] \in all
    BY DEF Of
  <2> HIDE DEF all
  <2> QED BY <2>1, <2>2, <2>3, EventsLost
<1> QED BY <1>1, <1>2, <1>3

-----------------------------------------------------------------------------
(* The theorems *)

\* The invariant holds at the start: every run is to come.
LEMMA InitIInv == Init => IInv
<1> SUFFICES ASSUME Init PROVE IInv
  OBVIOUS
<1>1. TypeOK
  BY InitType
<1>2. OneEvent
  BY DEF Init, OneEvent
<1>3. ASSUME NEW j \in Jobs PROVE JobInv(j)
  <2>1. ~Pending(j) /\ ~Hooked(j) /\ ~Own(j) /\ Early(j)
    BY DEF Init, Pending, Hooked, Own, Early, Somewhere
  <2>2. Trail(j)
    BY <2>1 DEF Init, Trail
  <2>3. Honest(j)
    <3>1. sent[j] = <<>> /\ Len(<<>>) = 0 /\ Told(j)
      BY DEF Init, Told
    <3> QED BY <2>1, <3>1 DEF Init, Honest, Final
  <2>4. Accounted(j)
    BY <2>1 DEF Init, Accounted
  <2> QED BY <2>2, <2>3, <2>4 DEF JobInv
<1> QED BY <1>1, <1>2, <1>3 DEF IInv

\* Every step keeps it: one case per action.
LEMMA StepIInv == IInv /\ [Next]_vars => IInv'
<1> SUFFICES ASSUME IInv, [Next]_vars PROVE IInv'
  OBVIOUS
<1> USE DEF IInv
<1>1. ASSUME NEW j \in Jobs,
             WorkerDispatches(j) \/ WorkerStep(j)
               \/ WorkerDispatchFails(j) \/ WorkerOverQuota(j)
               \/ WorkerSaveFails(j) \/ WorkerDies(j)
      PROVE  IInv'
  <2>1. TypeOK'
    BY <1>1, WorkerType
  <2>2. OneEvent' /\ \A k \in Jobs : JobInv(k)'
    BY <1>1, DispatchKept, EndsKept, DispatchFailsKept, OverQuotaKept, RestartsKept,
       SavesKept, SaveFailsKept,
       RetryReadsKept, RetryWritesKept, NotifiesKept, DiesKept DEF WorkerStep
  <2> QED BY <2>1, <2>2
<1>2. ASSUME NEW j \in Jobs, ReaperStep(j) PROVE IInv'
  <2>1. TypeOK'
    BY <1>2, ReaperType
  <2>2. OneEvent' /\ \A k \in Jobs : JobInv(k)'
    BY <1>2, ReadsKept, WritesKept, ReaperNotifiesKept DEF ReaperStep
  <2> QED BY <2>1, <2>2
<1>3. ASSUME NEW r \in Receivers, NEW gone,
             ReceiverStep(r) \/ ReceiverDrops(r, gone) \/ ReceiverForgets(r, gone)
               \/ ReceiverDies(r)
      PROVE  IInv'
  <2>1. TypeOK'
    BY <1>3, ReceiverType
  <2>2. OneEvent' /\ \A k \in Jobs : JobInv(k)'
    BY <1>3, PopsKept, FlushesKept, CountsKept, ReceiverNotifiesKept, LossesKept
       DEF ReceiverStep
  <2> QED BY <2>1, <2>2
<1>4. CASE UNCHANGED vars
  <2>1. TypeOK'
    BY <1>4 DEF vars, dbVars, workerVars, receiverVars, TypeOK
  <2>2. SameEvents /\ \A k \in Jobs : SameRow(k)
    BY <1>4 DEF vars, dbVars, workerVars, receiverVars, SameEvents, SameRow
  <2>3. /\ OneEvent'
        /\ \A e : Somewhere(e)' <=> Somewhere(e)
        /\ \A k : Hooked(k)' <=> Hooked(k)
    BY <2>2, SameEventsKept
  <2>4. \A k \in Jobs : JobInv(k)'
    BY <2>2, <2>3, Untouched DEF SameEvents, TypeOK
  <2> QED BY <2>1, <2>3, <2>4
<1>5. ASSUME NEW r \in Receivers, ReceiverStep(r) \/ ReceiverDies(r) PROVE IInv'
  BY <1>3, <1>5
<1> QED BY <1>1, <1>2, <1>3, <1>4, <1>5 DEF Next, Fault

\* The event's trail, who is to notify and who is excused, in every reachable
\* state (awx/main/tasks/jobs.py, BaseTask.run, against
\* awx/main/dispatch/worker/callback.py, job_stats_wrapup).
THEOREM Invariant == Spec => []IInv
BY InitIInv, StepIInv, PTL DEF Spec

\* The rows, the receivers' memory and the processes keep their types, and
\* only known statuses are saved or told (awx/main/tasks/jobs.py:851).
THEOREM TypeCorrect == Spec => []TypeOK
<1>1. IInv => TypeOK
  BY DEF IInv
<1> QED BY <1>1, Invariant, PTL

\* Unless the reaper failed it, a job is never told another status than the
\* one it ended with, and is told it at most once if it ran once, however the
\* worker's save and the receiver's fall together (awx/main/tasks/jobs.py:859,
\* and job_stats_wrapup).
THEOREM NotifiedOnceAndTruly == Spec => []OneTrueNotification
<1>1. IInv => OneTrueNotification
  BY DEF IInv, JobInv, Honest, Told, OneTrueNotification
<1> QED BY <1>1, Invariant, PTL

\* A job that is over went without a notification only if its event was lost,
\* its worker died or its status was saved by the retry that drops the lock:
\* the two never leave it to each other (awx/main/tasks/jobs.py:855).
THEOREM NeitherForgets == Spec => []NobodyForgets
<1>1. IInv => NobodyForgets
  <2> SUFFICES ASSUME IInv, NEW j \in Jobs, Quiet(j), sent[j] = <<>>,
                      mishaps[j] \cap {"lost", "died", "unlocked"} = {}
               PROVE  FALSE
    BY DEF NobodyForgets
  <2>1. JobInv(j) /\ worker[j] = "done"
    <3>1. JobInv(j) /\ worker[j] \in {"idle", "done"}
      BY DEF IInv, JobInv, Accounted, Quiet
    <3>2. worker[j] # "idle"
      BY <3>1 DEF JobInv, Trail, Quiet, Final
    <3> QED BY <3>1, <3>2
  <2>2. ~Own(j) /\ ~Hooked(j)
    <3>1. /\ j \notin Of(queue)
          /\ \A r \in Receivers : j \notin Of(buffer[r] \cup saved[r] \cup hooking[r])
      BY DEF Quiet
    <3>2. <<j, runs[j]>>[1] = j
      OBVIOUS
    <3> QED BY <3>1, <3>2 DEF Of, Own, Somewhere, Hooked
  <2> QED BY <2>1, <2>2 DEF JobInv, Accounted
<1> QED BY <1>1, Invariant, PTL
=============================================================================
